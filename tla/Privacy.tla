-------------------------------- MODULE Privacy --------------------------------
(***************************************************************************)
(* The privacy centre of one person: consents with the trail each leaves,  *)
(* written by sign-up and by the toggles, and the data requests the person *)
(* raises and the organization answers.                                    *)
(*                                                                         *)
(* Source: app/services/consents.py and app/modules/privacy/router.py.     *)
(* The second of the two writes of an answer may fail.  Wording, notices,  *)
(* audit rows and the export are left out.                                 *)
(***************************************************************************)
EXTENDS Naturals, Sequences

CONSTANTS
  Types,    \* consent types
  Asked,    \* those sign-up asks about
  Requests, \* ids of data_requests rows: they bound the inserts
  Kinds,    \* export, deletion, correction
  NoType, NoKind,
  MaxTrail, \* bound: rows of history a type may have
  MayFail,  \* whether the insert of a history row may fail
  Calls,
  Alone     \* the operations that run with no other call beside them

AllOps == {"signup", "consent", "request"}

\* What the constants satisfy: assumed wherever the module is instantiated.
PrivacyAssumption ==
  /\ Asked \subseteq Types /\ NoType \notin Types /\ NoKind \notin Kinds
  /\ MaxTrail \in Nat /\ MayFail \in BOOLEAN /\ Alone \subseteq AllOps

VARIABLES
  consents, \* consents[t]: never answered, granted or refused
  trail,    \* trail[t]: the answers the history holds for t, in order
  requests, \* requests[r]: what was asked for, and its status
  granting  \* the calls in flight

gvars == <<consents, trail, requests, granting>>

Answers == {"granted", "refused"}
Statuses == {"pending", "in_progress", "completed", "rejected"}
NoRequest == [kind |-> NoKind, status |-> "pending"]
Pc == {"idle", "choose", "state", "history", "insert"}
CallType == [pc: Pc, op: AllOps, left: SUBSET Asked, type: Types \cup {NoType}, answer: Answers,
             kind: Kinds \cup {NoKind}]
Idle == [pc |-> "idle", op |-> "consent", left |-> {}, type |-> NoType, answer |-> "refused",
         kind |-> NoKind]

TypeOK ==
  /\ consents \in [Types -> Answers \cup {"unset"}]
  /\ \A t \in Types : trail[t] \in Seq(Answers) /\ Len(trail[t]) <= MaxTrail
  /\ requests \in [Requests -> [kind: Kinds \cup {NoKind}, status: Statuses]]
  /\ granting \in [Calls -> CallType]

Init ==
  /\ consents = [t \in Types |-> "unset"]
  /\ trail = [t \in Types |-> <<>>]
  /\ requests = [r \in Requests |-> NoRequest]
  /\ granting = [c \in Calls |-> Idle]

At(c, pc) == granting[c].pc = pc
End(c) == granting' = [granting EXCEPT ![c] = Idle]
Start(c, op, call) ==
  /\ At(c, "idle")
  /\ \A o \in Calls : At(o, "idle") \/ (op \notin Alone /\ granting[o].op \notin Alone)
  /\ granting' = [granting EXCEPT ![c] = [call EXCEPT !.op = op]]

-----------------------------------------------------------------------------
\* record_signup_agreements: an answer for each question of the form that was
\* filled in, one after the other; set_consent: one answer.
SignUpStart(c, fields) ==
  /\ \A t \in Types : consents[t] = "unset"
  /\ Start(c, "signup", [Idle EXCEPT !.pc = "choose", !.left = fields])
  /\ UNCHANGED <<consents, trail, requests>>

SignUpNext(c, t, a) ==
  /\ At(c, "choose") /\ t \in granting[c].left
  /\ granting' = [granting EXCEPT ![c].pc = "state", ![c].type = t, ![c].answer = a,
                                  ![c].left = @ \ {t}]
  /\ UNCHANGED <<consents, trail, requests>>

SignUpEnd(c) ==
  /\ At(c, "choose") /\ granting[c].left = {}
  /\ End(c)
  /\ UNCHANGED <<consents, trail, requests>>

ToggleStart(c, t, a) ==
  /\ Start(c, "consent", [Idle EXCEPT !.pc = "state", !.type = t, !.answer = a])
  /\ UNCHANGED <<consents, trail, requests>>

\* record: the current state, then its row of history.
WriteState(c) ==
  /\ At(c, "state")
  /\ Len(trail[granting[c].type]) < MaxTrail
  /\ consents' = [consents EXCEPT ![granting[c].type] = granting[c].answer]
  /\ granting' = [granting EXCEPT ![c].pc = "history"]
  /\ UNCHANGED <<trail, requests>>

\* Sign-up swallows a failure and goes on with the next answer.
Written(c) == IF granting[c].op = "signup"
              THEN granting' = [granting EXCEPT ![c].pc = "choose", ![c].type = NoType]
              ELSE End(c)

\* Mutant: only what is granted is worth a row.
RowOfGranted(c) == IF granting[c].answer = "granted" THEN <<"granted">> ELSE <<>>

RowOf(c) == <<granting[c].answer>>

WriteHistory(c) ==
  /\ At(c, "history")
  /\ Len(trail[granting[c].type]) < MaxTrail
  /\ trail' = [trail EXCEPT ![granting[c].type] = @ \o RowOf(c)]
  /\ Written(c)
  /\ UNCHANGED <<consents, requests>>

HistoryFails(c) ==
  /\ MayFail /\ At(c, "history")
  /\ Written(c)
  /\ UNCHANGED <<consents, trail, requests>>

-----------------------------------------------------------------------------
Open(k) == {r \in Requests : requests[r].kind = k /\ requests[r].status \in {"pending", "in_progress"}}

\* create_data_request: no open one of this kind, then the row.
RequestStart(c, k) ==
  /\ Open(k) = {}
  /\ Start(c, "request", [Idle EXCEPT !.pc = "insert", !.kind = k])
  /\ UNCHANGED <<consents, trail, requests>>

RequestInsert(c, r) ==
  /\ At(c, "insert") /\ requests[r] = NoRequest
  /\ requests' = [requests EXCEPT ![r].kind = granting[c].kind]
  /\ End(c)
  /\ UNCHANGED <<consents, trail>>

\* set_data_request_status: any status follows any other.
SetRequestStatus(r, s) ==
  /\ requests[r] # NoRequest
  /\ requests' = [requests EXCEPT ![r].status = s]
  /\ UNCHANGED <<consents, trail, granting>>

-----------------------------------------------------------------------------
Step(c) ==
  \/ \E fs \in SUBSET Asked : SignUpStart(c, fs)
  \/ \E t \in Types, a \in Answers : SignUpNext(c, t, a) \/ ToggleStart(c, t, a)
  \/ SignUpEnd(c) \/ WriteState(c) \/ WriteHistory(c) \/ HistoryFails(c)
  \/ \E k \in Kinds : RequestStart(c, k)
  \/ \E r \in Requests : RequestInsert(c, r)

Next ==
  \/ \E c \in Calls : Step(c)
  \/ \E r \in Requests, s \in Statuses : SetRequestStatus(r, s)

Spec == Init /\ [][Next]_gvars

-----------------------------------------------------------------------------
\* While no write fails, a toggle says nothing its history cannot answer for:
\* once no answer is on its way the state is one the trail holds, whoever wrote
\* it and however many wrote at once (consents.py:19).
ConsentTraced ==
  \A t \in Types : (\A c \in Calls : granting[c].type # t) /\ consents[t] # "unset" =>
                     \E i \in DOMAIN trail[t] : trail[t][i] = consents[t]

\* The answer that stands is in the trail or on its way there: inductive.
TrailInv ==
  /\ trail \in [Types -> Seq(Answers)]
  /\ \A c \in Calls :
       /\ At(c, "state") \/ At(c, "history") => granting[c].type \in Types
       /\ ~At(c, "state") /\ ~At(c, "history") => granting[c].type = NoType
  /\ \A t \in Types : consents[t] # "unset" =>
       \/ \E i \in DOMAIN trail[t] : trail[t][i] = consents[t]
       \/ \E c \in Calls : /\ At(c, "history") /\ granting[c].type = t
                           /\ granting[c].answer = consents[t]
=============================================================================
