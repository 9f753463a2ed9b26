------------------------------ MODULE Tenancy ------------------------------
(***************************************************************************)
(* What a sign-up promises, with every effect one step and nobody at work  *)
(* between two of them: when money is taken, to whom a tenant is let, in   *)
(* which order its workspace is furnished and cleared, and when an address *)
(* opens it and stops opening it.  Signup does this (ImplementsTenancy).   *)
(***************************************************************************)
EXTENDS Naturals

CONSTANTS Emails, Signups, Tenants, Slugs, NoEmail, NoSignup, NoTenant, NoSlug, MaxPlan

VARIABLES
  paid,      \* paid[s]: how often the sign-up s was paid for
  forgotten, \* the sign-ups whose payment the bank no longer knows of
  rooms,     \* rooms[t]: for whom the tenant t is let, if it is
  standing,  \* the tenants with a database
  doors,     \* doors[e]: the tenant the address e opens
  rented,    \* the tenants with a subscription
  wrecked    \* the tenants something was left undone at

tenancyVars == <<paid, forgotten, rooms, standing, doors, rented, wrecked>>

Unlet == [state |-> "unborn", slug |-> NoSlug, signup |-> NoSignup, owner |-> NoEmail, plan |-> 0]
IsLet(t) == rooms[t].state = "live"
Opened(t) == \E e \in Emails : doors[e] = t

TenancyInit ==
  /\ paid = [s \in Signups |-> 0] /\ forgotten = {}
  /\ rooms = [t \in Tenants |-> Unlet] /\ standing = {}
  /\ doors = [e \in Emails |-> NoTenant] /\ rented = {}
  /\ wrecked = {}

\* The bank takes the money of a sign-up it knows no payment of.
Pay(s) ==
  /\ paid[s] = IF s \in forgotten THEN 1 ELSE 0
  /\ paid' = [paid EXCEPT ![s] = @ + 1]
  /\ UNCHANGED <<forgotten, rooms, standing, doors, rented, wrecked>>

\* It forgets one payment of a sign-up at most.
Forget(s) ==
  /\ s \notin forgotten /\ paid[s] = 1
  /\ forgotten' = forgotten \cup {s}
  /\ UNCHANGED <<paid, rooms, standing, doors, rented, wrecked>>

\* A tenant is let for a sign-up that was paid for, under a name nobody has, once.
LetTo(t, s, e, slug, p) ==
  /\ rooms[t].state = "unborn" /\ paid[s] > 0
  /\ \A o \in Tenants : IsLet(o) => rooms[o].slug # slug
  /\ rooms' = [rooms EXCEPT ![t] = [state |-> "live", slug |-> slug, signup |-> s, owner |-> e, plan |-> p]]
  /\ UNCHANGED <<paid, forgotten, standing, doors, rented, wrecked>>

\* Then its database, its owner's address and its subscription, in this order.
Furnish(t) ==
  /\ IsLet(t)
  /\ standing' = standing \cup {t}
  /\ UNCHANGED <<paid, forgotten, rooms, doors, rented, wrecked>>

OpenTo(e, t) ==
  /\ doors[e] = NoTenant
  /\ IsLet(t) /\ t \in standing /\ rooms[t].owner = e
  /\ doors' = [doors EXCEPT ![e] = t]
  /\ UNCHANGED <<paid, forgotten, rooms, standing, rented, wrecked>>

Rent(t) ==
  /\ IsLet(t) /\ t \in standing /\ doors[rooms[t].owner] = t
  /\ rented' = rented \cup {t}
  /\ UNCHANGED <<paid, forgotten, rooms, standing, doors, wrecked>>

\* What is undone goes in the order in which it came, the database before the
\* tenant, the tenant before its address and that before the subscription,
\* unless something was left undone before.
Clear(t) ==
  /\ rooms[t].state # "unborn"
  /\ standing' = standing \ {t}
  /\ UNCHANGED <<paid, forgotten, rooms, doors, rented, wrecked>>

Vacate(t) ==
  /\ rooms[t].state # "unborn"
  /\ t \notin standing \/ t \in wrecked
  /\ rooms' = [rooms EXCEPT ![t] = [Unlet EXCEPT !.state = "gone"]]
  /\ UNCHANGED <<paid, forgotten, standing, doors, rented, wrecked>>

CloseTo(t) ==
  /\ ~IsLet(t) \/ t \in wrecked
  /\ doors' = [e \in Emails |-> IF doors[e] = t THEN NoTenant ELSE doors[e]]
  /\ UNCHANGED <<paid, forgotten, rooms, standing, rented, wrecked>>

Release(t) ==
  /\ (~IsLet(t) /\ ~Opened(t)) \/ t \in wrecked
  /\ rented' = rented \ {t}
  /\ UNCHANGED <<paid, forgotten, rooms, standing, doors, wrecked>>

\* Something is left undone at a tenant, once and for all.
Wreck(t) ==
  /\ rooms[t].state # "unborn"
  /\ wrecked' = wrecked \cup {t}
  /\ UNCHANGED <<paid, forgotten, rooms, standing, doors, rented>>

TenancyNext ==
  \/ \E s \in Signups :
       \/ Pay(s) \/ Forget(s)
       \/ \E t \in Tenants, e \in Emails, slug \in Slugs, p \in 1..MaxPlan : LetTo(t, s, e, slug, p)
  \/ \E t \in Tenants :
       \/ Furnish(t) \/ Rent(t) \/ Clear(t) \/ Vacate(t) \/ CloseTo(t) \/ Release(t) \/ Wreck(t)
       \/ \E e \in Emails : OpenTo(e, t)

TenancySpec == TenancyInit /\ [][TenancyNext]_tenancyVars
=============================================================================
