------------------------------- MODULE Signup -------------------------------
(***************************************************************************)
(* How a firm becomes a tenant: the sign-up kept in `signups` while its    *)
(* steps are filled in, the charge at Stripe, the provisioning of the      *)
(* workspace (the tenant, its database with the owner, the entry of the    *)
(* directory, the subscription row) and the rollback when that fails.      *)
(*                                                                         *)
(* Source: app/modules/auth/service.py (start_signup to charge_card),      *)
(* create_subscription of app/services/stripe_service.py, and the unique   *)
(* indexes of app/db/indexes.py on the tenants' slug and the directory's   *)
(* e-mail.                                                                 *)
(*                                                                         *)
(* Every `await` that other calls can see is a step; what a call does in   *)
(* the tenant's own database, which nobody else knows of yet, is one step. *)
(* Wherever a check and its write are apart another call, of this customer *)
(* pressing twice or of another, may come between.                         *)
(***************************************************************************)
EXTENDS Naturals

CONSTANTS
  Emails,     \* the customers
  Signups,    \* ids of signups rows; they bound how often customers start
  Tenants,    \* ids of tenants rows; they bound how often one is inserted
  Slugs,      \* what an organization's name may be abbreviated to
  Wanted,     \* the slug of the name that every customer types
  Calls,      \* slots for calls in flight
  NoEmail, NoSignup, NoTenant, NoSlug,   \* placeholders
  MaxPlan,    \* the plans are 1..MaxPlan; 0 is none chosen
  MaxFaults   \* bound on the database calls that raise and the calls that die

ASSUME PlaceholdersAssumption ==
  /\ NoEmail \notin Emails /\ NoSignup \notin Signups
  /\ NoTenant \notin Tenants /\ NoSlug \notin Slugs
ASSUME NumbersAssumption == MaxPlan \in Nat \ {0} /\ MaxFaults \in Nat
ASSUME SlugsAssumption == Wanted \in Slugs

VARIABLES
  signup,    \* signup[s]: the signups row s
  key,       \* key[s]: the plan Stripe charged under the key of s, 0 if it knows none
  charges,   \* charges[s]: how often Stripe took the customer's money for s
  tenants,   \* tenants[t]: the tenants row t
  built,     \* the tenants whose database stands, with its owner in it
  directory, \* directory[e]: the tenant the address belongs to
  billed,    \* the tenants with a subscriptions row
  calls,     \* the calls in flight
  faults,    \* how many database calls have raised, or calls have died
  lapsed,    \* history: sign-ups whose key Stripe forgot with no charge noted here
  cut        \* history: tenants whose call was cut short, or could not be undone

past == <<faults, lapsed, cut>>
workspaceVars == <<tenants, built, directory, billed>>
stripeVars == <<key, charges>>
vars == <<signup, stripeVars, workspaceVars, calls, past>>

Plans == 0..MaxPlan
SignupFields == [state: {"unborn", "open", "completed", "gone"}, email: Emails \cup {NoEmail},
                 slug: Slugs \cup {NoSlug}, verified: BOOLEAN, password: BOOLEAN,
                 plan: Plans, charged: BOOLEAN]
SignupType == {r \in SignupFields : r.state = "open" => r.email \in Emails}
TenantFields == [state: {"unborn", "live", "gone"}, slug: Slugs \cup {NoSlug},
                 signup: Signups \cup {NoSignup}, owner: Emails \cup {NoEmail}, plan: Plans]
TenantType == {r \in TenantFields : r.state = "live" => r.owner \in Emails}
NoRow == [state |-> "unborn", slug |-> NoSlug, signup |-> NoSignup, owner |-> NoEmail, plan |-> 0]

ProvisionPc == {"cp_tenant", "cp_build", "cp_directory", "cp_billed", "cp_done", "cp_audit"}
RollbackPc == {"rb_database", "rb_tenant", "rb_directory", "rb_billed"}
Pc == {"idle", "st_clear", "st_insert", "cp_charge", "cp_record"} \cup ProvisionPc \cup RollbackPc

\* What a call holds: the sign-up as it loaded it and the tenant it has inserted.
CallFields == [pc: Pc, signup: Signups \cup {NoSignup}, email: Emails \cup {NoEmail},
               slug: Slugs \cup {NoSlug}, plan: Plans, password: BOOLEAN,
               tenant: Tenants \cup {NoTenant}]
StartPc == {"st_clear", "st_insert"}
InsertedPc == RollbackPc \cup (ProvisionPc \ {"cp_tenant"})
CallType ==
  {r \in CallFields :
     /\ r.pc # "idle" => r.email \in Emails
     /\ r.pc \notin StartPc \cup {"idle"} => r.signup \in Signups
     /\ r.pc \in InsertedPc <=> r.tenant \in Tenants}
Idle == [pc |-> "idle", signup |-> NoSignup, email |-> NoEmail, slug |-> NoSlug,
         plan |-> 0, password |-> FALSE, tenant |-> NoTenant]

Blank == [state |-> "unborn", email |-> NoEmail, slug |-> NoSlug, verified |-> FALSE,
          password |-> FALSE, plan |-> 0, charged |-> FALSE]

Init ==
  /\ signup = [s \in Signups |-> Blank]
  /\ key = [s \in Signups |-> 0]
  /\ charges = [s \in Signups |-> 0]
  /\ tenants = [t \in Tenants |-> NoRow]
  /\ built = {}
  /\ directory = [e \in Emails |-> NoTenant]
  /\ billed = {}
  /\ calls = [c \in Calls |-> Idle]
  /\ faults = 0
  /\ lapsed = {}
  /\ cut = {}

At(c, pc) == calls[c].pc = pc
Goto(c, pc) == calls' = [calls EXCEPT ![c].pc = pc]
End(c) == calls' = [calls EXCEPT ![c] = Idle]
Start(c, rec) == At(c, "idle") /\ calls' = [calls EXCEPT ![c] = rec]

\* A row that is deleted says nothing more; whose it was is kept for the record.
Removed(s) == [Blank EXCEPT !.state = "gone", !.email = signup[s].email]

Taken(slug) == \E t \in Tenants : tenants[t].state = "live" /\ tenants[t].slug = slug

-----------------------------------------------------------------------------
\* start_signup: a customer starts, or starts over.

StartSignup(c, e) ==
  /\ directory[e] = NoTenant
  /\ Start(c, [Idle EXCEPT !.pc = "st_clear", !.email = e])
  /\ UNCHANGED <<signup, stripeVars, workspaceVars, past>>

\* Whatever is under way for the address goes, charged or not.
StartClear(c) ==
  /\ At(c, "st_clear")
  /\ signup' = [s \in Signups |->
       IF signup[s].state = "open" /\ signup[s].email = calls[c].email
       THEN Removed(s) ELSE signup[s]]
  /\ Goto(c, "st_insert")
  /\ UNCHANGED <<stripeVars, workspaceVars, past>>

StartInsert(c, s) ==
  /\ At(c, "st_insert") /\ signup[s].state = "unborn"
  /\ signup' = [signup EXCEPT ![s] = [Blank EXCEPT !.state = "open", !.email = calls[c].email]]
  /\ End(c)
  /\ UNCHANGED <<stripeVars, workspaceVars, past>>

-----------------------------------------------------------------------------
\* The steps in between.  Each loads the row and writes its part of it by id.
\* Each is one step here: they write constants, and the slug that
\* set_organization finds free is nobody's until a tenant is inserted, so that
\* it is as good as stale whenever it is written.

Fill(c, s, row) ==
  /\ At(c, "idle") /\ signup[s].state = "open"
  /\ signup' = [signup EXCEPT ![s] = row]
  /\ UNCHANGED <<stripeVars, workspaceVars, calls, past>>

\* set_organization: the slug of the name, or that with something random on it
\* when a tenant has it.
SetOrganization(c, s) ==
  \E slug \in Slugs :
    /\ IF Taken(Wanted) THEN slug # Wanted ELSE slug = Wanted
    /\ Fill(c, s, [signup[s] EXCEPT !.slug = slug])

\* verify_signup_email, with a code that is right.
Verify(c, s) == Fill(c, s, [signup[s] EXCEPT !.verified = TRUE])

\* set_password.
Password(c, s) == signup[s].verified /\ Fill(c, s, [signup[s] EXCEPT !.password = TRUE])

\* choose_plan: as often as the customer likes, before the charge or after it.
ChoosePlan(c, s, p) == signup[s].verified /\ Fill(c, s, [signup[s] EXCEPT !.plan = p])

\* The index on created_at: a week later the row is removed, whatever it says
\* (one that is completed is not read again).
SignupExpires(s) ==
  /\ signup[s].state = "open"
  /\ signup' = [signup EXCEPT ![s] = Removed(s)]
  /\ UNCHANGED <<stripeVars, workspaceVars, calls, past>>

-----------------------------------------------------------------------------
\* complete_payment: the charge.  Its guards do not ask for the password.

CompleteStart(c, s) ==
  /\ signup[s].slug # NoSlug /\ signup[s].verified /\ signup[s].plan # 0
  /\ signup[s].state = "open"
  /\ Start(c, [pc |-> IF signup[s].charged THEN "cp_tenant" ELSE "cp_charge",
               signup |-> s, email |-> signup[s].email, slug |-> signup[s].slug,
               plan |-> signup[s].plan, password |-> signup[s].password, tenant |-> NoTenant])
  /\ UNCHANGED <<signup, stripeVars, workspaceVars, past>>

\* Mutant: the charge is asked for without an idempotency key.
TakesUnkeyed(s, p) ==
  /\ key' = [key EXCEPT ![s] = p]
  /\ charges' = [charges EXCEPT ![s] = @ + 1]

\* Stripe charges once under a key, answers the same request the same again,
\* and refuses another request under the key.
Takes(s, p) ==
  \/ /\ key[s] = 0
     /\ key' = [key EXCEPT ![s] = p]
     /\ charges' = [charges EXCEPT ![s] = @ + 1]
  \/ key[s] = p /\ UNCHANGED stripeVars

Charge(c) ==
  /\ At(c, "cp_charge")
  /\ Takes(calls[c].signup, calls[c].plan)
  /\ Goto(c, "cp_record")
  /\ UNCHANGED <<signup, workspaceVars, past>>

\* Declined, refused, left incomplete; or taken, and the answer lost.
ChargeFailed(c) ==
  /\ At(c, "cp_charge")
  /\ UNCHANGED stripeVars \/ Takes(calls[c].signup, calls[c].plan)
  /\ End(c)
  /\ UNCHANGED <<signup, workspaceVars, past>>

\* The charge is noted on the row, if it still is there.
ChargeRecord(c) ==
  /\ At(c, "cp_record")
  /\ LET s == calls[c].signup IN
     signup' = IF signup[s].state = "gone" THEN signup
               ELSE [signup EXCEPT ![s].charged = TRUE]
  /\ Goto(c, "cp_tenant")
  /\ UNCHANGED <<stripeVars, workspaceVars, past>>

\* A day goes by for a customer with nothing under way, and Stripe forgets the
\* key; once at most, and where a charge is noted the key is not used again.
KeyExpires(s) ==
  /\ signup[s].state = "open" /\ ~signup[s].charged
  /\ key[s] # 0 /\ s \notin lapsed
  /\ \A c \in Calls : calls[c].signup # s
  /\ key' = [key EXCEPT ![s] = 0]
  /\ lapsed' = lapsed \cup {s}
  /\ UNCHANGED <<signup, charges, workspaceVars, calls, faults, cut>>

-----------------------------------------------------------------------------
\* complete_payment: the workspace.

\* The unique index on the slug turns a second one away, and nothing is undone.
InsertTenant(c, t) ==
  /\ At(c, "cp_tenant") /\ ~Taken(calls[c].slug)
  /\ tenants[t].state = "unborn"
  /\ tenants' = [tenants EXCEPT ![t] = [state |-> "live", slug |-> calls[c].slug,
                                        signup |-> calls[c].signup, owner |-> calls[c].email,
                                        plan |-> calls[c].plan]]
  /\ calls' = [calls EXCEPT ![c] = [@ EXCEPT !.pc = "cp_build", !.tenant = t]]
  /\ UNCHANGED <<signup, stripeVars, built, directory, billed, past>>

SlugTaken(c) ==
  /\ At(c, "cp_tenant") /\ Taken(calls[c].slug)
  /\ End(c)
  /\ UNCHANGED <<signup, stripeVars, workspaceVars, past>>

\* The indexes, the catalogue and the owner, who needs a password.
Build(c) ==
  /\ At(c, "cp_build")
  /\ IF calls[c].password
     THEN built' = built \cup {calls[c].tenant} /\ Goto(c, "cp_directory")
     ELSE UNCHANGED built /\ Goto(c, "rb_database")
  /\ UNCHANGED <<signup, stripeVars, tenants, directory, billed, past>>

\* Mutant: no unique index on the address.
EnterDirectoryTwice(c) ==
  /\ At(c, "cp_directory")
  /\ directory' = [directory EXCEPT ![calls[c].email] = calls[c].tenant]
  /\ Goto(c, "cp_billed")
  /\ UNCHANGED <<signup, stripeVars, tenants, built, billed, past>>

EnterDirectory(c) ==
  /\ At(c, "cp_directory")
  /\ IF directory[calls[c].email] = NoTenant
     THEN directory' = [directory EXCEPT ![calls[c].email] = calls[c].tenant] /\ Goto(c, "cp_billed")
     ELSE UNCHANGED directory /\ Goto(c, "rb_database")
  /\ UNCHANGED <<signup, stripeVars, tenants, built, billed, past>>

InsertSubscription(c) ==
  /\ At(c, "cp_billed")
  /\ billed' = billed \cup {calls[c].tenant}
  /\ Goto(c, "cp_done")
  /\ UNCHANGED <<signup, stripeVars, tenants, built, directory, past>>

Complete(c) ==
  /\ At(c, "cp_done")
  /\ LET s == calls[c].signup IN
     signup' = IF signup[s].state = "gone" THEN signup
               ELSE [signup EXCEPT ![s].state = "completed"]
  /\ Goto(c, "cp_audit")
  /\ UNCHANGED <<stripeVars, workspaceVars, past>>

\* The audit record, the notification and the tokens.
Audit(c) ==
  /\ At(c, "cp_audit")
  /\ End(c)
  /\ UNCHANGED <<signup, stripeVars, workspaceVars, past>>

-----------------------------------------------------------------------------
\* Failure.  A database call of the provisioning raises, the audit record
\* included: what has been inserted is taken back.  With no tenant yet there is
\* nothing to take back.
Raise(c) ==
  /\ faults < MaxFaults
  /\ calls[c].pc \in ProvisionPc
  /\ IF At(c, "cp_tenant") THEN End(c) ELSE Goto(c, "rb_database")
  /\ faults' = faults + 1
  /\ UNCHANGED <<signup, stripeVars, workspaceVars, lapsed, cut>>

RollbackDatabase(c) ==
  /\ At(c, "rb_database")
  /\ built' = built \ {calls[c].tenant}
  /\ Goto(c, "rb_tenant")
  /\ UNCHANGED <<signup, stripeVars, tenants, directory, billed, past>>

RollbackTenant(c) ==
  /\ At(c, "rb_tenant")
  /\ tenants' = [tenants EXCEPT ![calls[c].tenant] = [NoRow EXCEPT !.state = "gone"]]
  /\ Goto(c, "rb_directory")
  /\ UNCHANGED <<signup, stripeVars, built, directory, billed, past>>

RollbackDirectory(c) ==
  /\ At(c, "rb_directory")
  /\ directory' = [e \in Emails |-> IF directory[e] = calls[c].tenant THEN NoTenant
                                    ELSE directory[e]]
  /\ Goto(c, "rb_billed")
  /\ UNCHANGED <<signup, stripeVars, tenants, built, billed, past>>

RollbackSubscription(c) ==
  /\ At(c, "rb_billed")
  /\ billed' = billed \ {calls[c].tenant}
  /\ End(c)
  /\ UNCHANGED <<signup, stripeVars, tenants, built, directory, past>>

\* Each step of the rollback that raises is passed over.
NextRollback(pc) == CASE pc = "rb_database" -> "rb_tenant"
                      [] pc = "rb_tenant" -> "rb_directory"
                      [] OTHER -> "rb_billed"
RollbackRaises(c) ==
  /\ faults < MaxFaults
  /\ calls[c].pc \in RollbackPc
  /\ IF At(c, "rb_billed") THEN End(c) ELSE Goto(c, NextRollback(calls[c].pc))
  /\ faults' = faults + 1
  /\ cut' = cut \cup {calls[c].tenant}
  /\ UNCHANGED <<signup, stripeVars, workspaceVars, lapsed>>

\* A worker dies.
CallCut(c) ==
  /\ ~At(c, "idle") /\ faults < MaxFaults
  /\ faults' = faults + 1
  /\ cut' = cut \cup ({calls[c].tenant} \ {NoTenant})
  /\ End(c)
  /\ UNCHANGED <<signup, stripeVars, workspaceVars, lapsed>>

-----------------------------------------------------------------------------
StepsBefore(c) ==
  \/ \E e \in Emails : StartSignup(c, e)
  \/ StartClear(c)
  \/ \E s \in Signups :
       \/ StartInsert(c, s)
       \/ SetOrganization(c, s) \/ Verify(c, s) \/ Password(c, s)
       \/ \E p \in Plans \ {0} : ChoosePlan(c, s, p)

Payment(c) ==
  \/ \E s \in Signups : CompleteStart(c, s)
  \/ Charge(c) \/ ChargeFailed(c) \/ ChargeRecord(c)

Provisioning(c) ==
  \/ \E t \in Tenants : InsertTenant(c, t)
  \/ SlugTaken(c) \/ Build(c) \/ EnterDirectory(c) \/ InsertSubscription(c)
  \/ Complete(c) \/ Audit(c)

Failure(c) ==
  \/ Raise(c)
  \/ RollbackDatabase(c) \/ RollbackTenant(c) \/ RollbackDirectory(c) \/ RollbackSubscription(c)
  \/ RollbackRaises(c) \/ CallCut(c)

Next ==
  \/ \E c \in Calls : StepsBefore(c) \/ Payment(c) \/ Provisioning(c) \/ Failure(c)
  \/ \E s \in Signups : SignupExpires(s) \/ KeyExpires(s)

Spec == Init /\ [][Next]_vars

-----------------------------------------------------------------------------
\* Types.
TypeOK ==
  /\ signup \in [Signups -> SignupType]
  /\ key \in [Signups -> Plans]
  /\ charges \in [Signups -> Nat]
  /\ tenants \in [Tenants -> TenantType]
  /\ built \subseteq Tenants
  /\ directory \in [Emails -> Tenants \cup {NoTenant}]
  /\ billed \subseteq Tenants
  /\ calls \in [Calls -> CallType]
  /\ faults \in 0..MaxFaults
  /\ lapsed \subseteq Signups
  /\ cut \subseteq Tenants

\* complete_payment: "Charge once per signup, ever", whichever calls race, die
\* or lose Stripe's answer; except a customer who comes back when Stripe has
\* forgotten a charge that was never noted on the sign-up.
ChargedOnce == \A s \in Signups \ lapsed : charges[s] <= 1

\* README: nothing is written to the tenant registry until payment succeeds.
Live(t) == tenants[t].state = "live"
TenantsArePaid == \A t \in Tenants : Live(t) => charges[tenants[t].signup] > 0

\* The money: a sign-up is charged once, and no tenant is live without a charge
\* (auth/service.py:216).  ImplementsTenancy, below, says more, and is what
\* a run checks.
MoneyKept == ChargedOnce /\ TenantsArePaid

\* complete_payment, _rollback_provisioning: no half-built workspace is left
\* behind, and no address that belongs to none.  A tenant nobody is at work on
\* has its database, its address and its subscription; a directory entry names
\* such a tenant; unless a call was cut short or could not undo what it did.
AtWork(t) == \E c \in Calls : calls[c].tenant = t
WorkspaceWhole ==
  /\ \A t \in Tenants \ cut : Live(t) /\ ~AtWork(t) =>
       /\ t \in built /\ t \in billed
       /\ directory[tenants[t].owner] = t
  /\ \A e \in Emails : LET t == directory[e] IN
       t \in Tenants \ cut /\ ~AtWork(t) => Live(t)

\* complete_payment: "`charge_reference` stays on the signup, so the retry
\* provisions again without charging a second time".
PaidCanRetry ==
  \A s \in Signups : signup[s].charged /\ (\A c \in Calls : calls[c].signup # s) =>
    signup[s].state = "open" \/ \E t \in Tenants : Live(t) /\ tenants[t].signup = s

\* The plan a workspace starts with is the plan that was paid for.  No run
\* checks it, and TLC refutes it: the plan may be chosen again between a charge
\* and the retry that provisions.
PlanIsPaid ==
  \A t \in Tenants : LET s == tenants[t].signup IN Live(t) /\ key[s] # 0 => tenants[t].plan = key[s]

\* A customer who starts over is not charged again for it.  No run checks it, and
\* TLC refutes it: start_signup deletes the sign-up that noted the charge.
CustomerChargedOnce ==
  \A s, z \in Signups \ lapsed :
    s # z /\ signup[s].email = signup[z].email => charges[s] + charges[z] <= 1

-----------------------------------------------------------------------------
\* The refinement to the single steps of Tenancy.  The sign-ups' own rows,
\* Stripe's keys and the calls in flight are hidden, and what is left of each of
\* their steps is a step of Tenancy or none.
Promise == INSTANCE Tenancy WITH
  paid <- charges, forgotten <- lapsed, rooms <- tenants, standing <- built,
  doors <- directory, rented <- billed, wrecked <- cut

\* However calls race, fail and die (auth/service.py:216): Stripe takes the money
\* of a sign-up when it knows no payment of it; a tenant is let once, for a sign-up
\* that was paid for, under a slug no other has; an address opens it when the
\* database stands, and the subscription comes last; and no address and no
\* subscription goes while the tenant is there, unless a call was cut short or
\* could not undo what it did.
ImplementsTenancy == Promise!TenancySpec
=============================================================================
