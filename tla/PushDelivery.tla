----------------------------- MODULE PushDelivery -----------------------------
(***************************************************************************)
(* Notifications: the record each recipient keeps, and the push that is    *)
(* sent to their devices in the background, with the registry of devices,  *)
(* the preferences, and the access token every push of a process shares.   *)
(*                                                                         *)
(* Source: app/services/push.py, app/services/events.py and                *)
(* app/modules/notifications/router.py.  One process: the token and its    *)
(* lock are the process's.  FCM answers delivered, dead or failed.  The    *)
(* wording, the language and the badge are left out.                       *)
(***************************************************************************)
EXTENDS Integers, FiniteSets

CONSTANTS
  Owners,     \* the accounts that are notified and own devices
  Devices,    \* registration tokens
  NoOwner,
  Tasks,      \* background tasks: dispatched pushes and tests
  MaxUnread   \* bound: unread records an account keeps

\* What the constants satisfy: assumed wherever the module is instantiated.
PushAssumption == NoOwner \notin Owners /\ MaxUnread \in Nat

VARIABLES
  feed,     \* feed[u]: how many notifications of u are unread
  devices,  \* devices[d]: the account the token is registered to
  muted,    \* the accounts that silenced this type of update
  access,   \* the access token: whether it is valid, and who holds its lock
  pushing   \* pushing[k]: the background tasks

pvars == <<feed, devices, muted, access, pushing>>

Pc == {"idle", "dispatch", "prefs", "devices", "token", "lock", "exchange", "send", "drop"}
TaskType == [pc: Pc, users: SUBSET Owners, todo: SUBSET (Devices \X Owners), dead: SUBSET Devices]
Done == [pc |-> "idle", users |-> {}, todo |-> {}, dead |-> {}]

TypeOK ==
  /\ feed \in [Owners -> 0..MaxUnread]
  /\ devices \in [Devices -> Owners \cup {NoOwner}]
  /\ muted \subseteq Owners
  /\ access \in [valid: BOOLEAN, locked: BOOLEAN]
  /\ pushing \in [Tasks -> TaskType]

Init ==
  /\ feed = [u \in Owners |-> 0]
  /\ devices = [d \in Devices |-> NoOwner]
  /\ muted = {}
  /\ access = [valid |-> FALSE, locked |-> FALSE]
  /\ pushing = [k \in Tasks |-> Done]

At(k, pc) == pushing[k].pc = pc
Goto(k, pc) == pushing' = [pushing EXCEPT ![k].pc = pc]
End(k) == pushing' = [pushing EXCEPT ![k] = Done]

-----------------------------------------------------------------------------
\* notify: the records first, then a task that nobody waits for.
Notify(k, us) ==
  /\ At(k, "idle") /\ us # {}
  /\ \A u \in us : feed[u] < MaxUnread
  /\ feed' = [u \in Owners |-> IF u \in us THEN feed[u] + 1 ELSE feed[u]]
  /\ pushing' = [pushing EXCEPT ![k] = [Done EXCEPT !.pc = "dispatch", !.users = us]]
  /\ UNCHANGED <<devices, muted, access>>

Dispatch(k) ==
  /\ At(k, "dispatch")
  /\ Goto(k, "prefs")
  /\ UNCHANGED <<feed, devices, muted, access>>

\* test_push makes no record, and waits for the answers.
TestPush(k, u) ==
  /\ At(k, "idle")
  /\ pushing' = [pushing EXCEPT ![k] = [Done EXCEPT !.pc = "prefs", !.users = {u}]]
  /\ UNCHANGED <<feed, devices, muted, access>>

\* Mutant: a notification read before is counted off again.
MarkReadAgain(u) ==
  /\ feed' = [feed EXCEPT ![u] = @ - 1]
  /\ UNCHANGED <<devices, muted, access, pushing>>

MarkRead(u) ==
  /\ feed[u] > 0
  /\ feed' = [feed EXCEPT ![u] = @ - 1]
  /\ UNCHANGED <<devices, muted, access, pushing>>

MarkAllRead(u) ==
  /\ feed' = [feed EXCEPT ![u] = 0]
  /\ UNCHANGED <<devices, muted, access, pushing>>

\* register_device takes the token from whoever had it; unregister_device and
\* unregister_all forget the caller's own.
Register(u, d) ==
  /\ devices[d] # u
  /\ devices' = [devices EXCEPT ![d] = u]
  /\ UNCHANGED <<feed, muted, access, pushing>>

Unregister(u, d) ==
  /\ devices[d] = u
  /\ devices' = [devices EXCEPT ![d] = NoOwner]
  /\ UNCHANGED <<feed, muted, access, pushing>>

UnregisterAll(u) ==
  /\ devices' = [d \in Devices |-> IF devices[d] = u THEN NoOwner ELSE devices[d]]
  /\ UNCHANGED <<feed, muted, access, pushing>>

SetPreferences(u) ==
  /\ muted' = IF u \in muted THEN muted \ {u} ELSE muted \cup {u}
  /\ UNCHANGED <<feed, devices, access, pushing>>

-----------------------------------------------------------------------------
\* send_to_users: who wants it, which devices, the token, one send each.
PrefsRead(k) ==
  /\ At(k, "prefs")
  /\ LET us == pushing[k].users \ muted IN
       IF us = {} THEN End(k)
                  ELSE pushing' = [pushing EXCEPT ![k].pc = "devices", ![k].users = us]
  /\ UNCHANGED <<feed, devices, muted, access>>

DevicesRead(k) ==
  /\ At(k, "devices")
  /\ LET found == {r \in Devices \X pushing[k].users : devices[r[1]] = r[2]} IN
       IF found = {} THEN End(k)
                     ELSE pushing' = [pushing EXCEPT ![k].pc = "token", ![k].todo = found]
  /\ UNCHANGED <<feed, devices, muted, access>>

\* _access_token: the cached one if it is good; else the lock, and the cache
\* looked at again, since the task ahead may have filled it.
TokenCached(k) ==
  /\ At(k, "token")
  /\ IF access.valid THEN Goto(k, "send") ELSE Goto(k, "lock")
  /\ UNCHANGED <<feed, devices, muted, access>>

\* Mutant: whoever gets the lock asks for a token.
TokenLockBlind(k) ==
  /\ At(k, "lock") /\ ~access.locked
  /\ Goto(k, "exchange") /\ access' = [access EXCEPT !.locked = TRUE]
  /\ UNCHANGED <<feed, devices, muted>>

TokenLock(k) ==
  /\ At(k, "lock") /\ ~access.locked
  /\ IF access.valid THEN Goto(k, "send") /\ UNCHANGED access
                     ELSE Goto(k, "exchange") /\ access' = [access EXCEPT !.locked = TRUE]
  /\ UNCHANGED <<feed, devices, muted>>

\* Google answers with a token, or the push is given up.
TokenExchange(k) ==
  /\ At(k, "exchange")
  /\ \/ Goto(k, "send") /\ access' = [valid |-> TRUE, locked |-> FALSE]
     \/ End(k) /\ access' = [access EXCEPT !.locked = FALSE]
  /\ UNCHANGED <<feed, devices, muted>>

TokenExpires ==
  /\ access.valid
  /\ access' = [access EXCEPT !.valid = FALSE]
  /\ UNCHANGED <<feed, devices, muted, pushing>>

\* One message; the answers are in when none is left to send.
Send(k, d, u, dead) ==
  /\ At(k, "send")
  /\ <<d, u>> \in pushing[k].todo
  /\ pushing' = [pushing EXCEPT ![k].todo = @ \ {<<d, u>>},
                                ![k].dead = IF dead THEN @ \cup {d} ELSE @,
                                ![k].pc = IF pushing[k].todo = {<<d, u>>} THEN "drop" ELSE "send"]
  /\ UNCHANGED <<feed, devices, muted, access>>

Dropped(k) == pushing[k].dead

\* _drop_tokens: by token, whoever has it registered by now.
Drop(k) ==
  /\ At(k, "drop")
  /\ devices' = [d \in Devices |-> IF d \in Dropped(k) THEN NoOwner ELSE devices[d]]
  /\ End(k)
  /\ UNCHANGED <<feed, muted, access>>

-----------------------------------------------------------------------------
Push(k) ==
  \/ Dispatch(k) \/ PrefsRead(k) \/ DevicesRead(k)
  \/ TokenCached(k) \/ TokenLock(k) \/ TokenExchange(k)
  \/ \E d \in Devices, u \in Owners, dead \in BOOLEAN : Send(k, d, u, dead)
  \/ Drop(k)

Next ==
  \/ \E k \in Tasks : \/ Push(k)
                      \/ \E us \in SUBSET Owners : Notify(k, us)
                      \/ \E u \in Owners : TestPush(k, u)
  \/ \E u \in Owners : \/ MarkRead(u) \/ MarkAllRead(u) \/ SetPreferences(u) \/ UnregisterAll(u)
                       \/ \E d \in Devices : Register(u, d) \/ Unregister(u, d)
  \/ TokenExpires

Spec == Init /\ [][Next]_pvars

-----------------------------------------------------------------------------
\* However many pushes start at once, one of them asks for the token and the
\* others use it: nobody asks while a good one is cached (push.py:221), and the
\* lock is held by the one who asks and nobody else, so it is never left held.
AskedOnce ==
  /\ \A k \in Tasks : At(k, "exchange") => access.locked /\ ~access.valid
  /\ access.locked => \E k \in Tasks : At(k, "exchange")
  /\ \A j, k \in Tasks : At(j, "exchange") /\ At(k, "exchange") => j = k
=============================================================================
