------------------------------ MODULE LegalTexts ------------------------------
(***************************************************************************)
(* The platform's policies: the versions of one kind of policy, drafted,   *)
(* published and retired by administrators, and what people accepted.      *)
(*                                                                         *)
(* Source: app/modules/legal/router.py.  A version is a number and so is   *)
(* its text, 0 for no text at all; kinds do not meet.  Titles, dates and   *)
(* the audit rows are left out.  The text a person was shown is kept       *)
(* beside the acceptance, which in the code is the version alone.          *)
(***************************************************************************)
EXTENDS Naturals, FiniteSets

CONSTANTS
  Policies,   \* ids of rows: they bound the inserts
  Versions,   \* the version strings, in their order
  Texts,      \* the texts: positive numbers
  Readers,    \* the people who accept
  Calls,
  Alone       \* the operations that run with no other call beside them

AllOps == {"publish", "draft", "edit", "discard", "accept"}

\* What the constants satisfy: assumed wherever the module is instantiated.
LegalAssumption == Versions \subseteq Nat \ {0} /\ Texts \subseteq Nat \ {0}
                          /\ 1 \in Versions /\ Alone \subseteq AllOps

VARIABLES
  policies, \* policies[p]: its version (0: no row), its text, whether it is live
  accepted, \* accepted[u]: the version accepted (0: none) and the text it had
  drafting  \* the calls in flight

lvars == <<policies, accepted, drafting>>

NoPolicy == [version |-> 0, text |-> 0, live |-> FALSE]
Pc == {"idle", "cr_insert", "retire", "pb_live", "ed_write", "di_delete", "ac_write"}
CallType == [pc: Pc, op: AllOps, row: Policies \cup {0}, version: Versions \cup {0},
             text: Texts \cup {0}, publish: BOOLEAN]
Idle == [pc |-> "idle", op |-> "draft", row |-> 0, version |-> 0, text |-> 0, publish |-> FALSE]

TypeOK ==
  /\ policies \in [Policies -> [version: Versions \cup {0}, text: Texts \cup {0}, live: BOOLEAN]]
  /\ accepted \in [Readers -> [version: Versions \cup {0}, text: Texts \cup {0}]]
  /\ drafting \in [Calls -> CallType]

Init ==
  /\ policies = [p \in Policies |-> NoPolicy]
  /\ accepted = [u \in Readers |-> [version |-> 0, text |-> 0]]
  /\ drafting = [c \in Calls |-> Idle]

At(c, pc) == drafting[c].pc = pc
Goto(c, pc) == drafting' = [drafting EXCEPT ![c].pc = pc]
End(c) == drafting' = [drafting EXCEPT ![c] = Idle]
Start(c, op, call) ==
  /\ At(c, "idle")
  /\ \A o \in Calls : At(o, "idle") \/ (op \notin Alone /\ drafting[o].op \notin Alone)
  /\ drafting' = [drafting EXCEPT ![c] = [call EXCEPT !.op = op]]

Rows == {p \in Policies : policies[p] # NoPolicy}
Live == {p \in Rows : policies[p].live}
VersionFree(v, ignoring) == \A p \in Rows \ ignoring : policies[p].version # v

-----------------------------------------------------------------------------
\* create_policy: the version is free, then the row, and the others are retired
\* when it was to be published at once.
CreateStart(c, v, x, publish) ==
  /\ VersionFree(v, {})
  /\ Start(c, IF publish THEN "publish" ELSE "draft",
           [Idle EXCEPT !.pc = "cr_insert", !.version = v, !.text = x, !.publish = publish])
  /\ UNCHANGED <<policies, accepted>>

\* duplicate_policy: a draft of a new version under the words of another one.
DuplicateStart(c, p, v) ==
  /\ p \in Rows /\ VersionFree(v, {})
  /\ Start(c, "draft", [Idle EXCEPT !.pc = "cr_insert", !.version = v, !.text = policies[p].text])
  /\ UNCHANGED <<policies, accepted>>

CreateInsert(c, p) ==
  /\ At(c, "cr_insert")
  /\ p \notin Rows /\ \A o \in Calls : drafting[o].row # p
  /\ policies' = [policies EXCEPT ![p] = [version |-> drafting[c].version, text |-> drafting[c].text,
                                          live |-> drafting[c].publish]]
  /\ IF drafting[c].publish
     THEN drafting' = [drafting EXCEPT ![c].pc = "retire", ![c].row = p]
     ELSE End(c)
  /\ UNCHANGED accepted

\* publish_policy: this one is live before the others are retired.
PublishStart(c, p) ==
  /\ p \in Rows
  /\ Start(c, "publish", [Idle EXCEPT !.pc = "pb_live", !.row = p])
  /\ UNCHANGED <<policies, accepted>>

PublishLive(c) ==
  /\ At(c, "pb_live")
  /\ policies' = IF drafting[c].row \in Rows
                 THEN [policies EXCEPT ![drafting[c].row].live = TRUE] ELSE policies
  /\ Goto(c, "retire")
  /\ UNCHANGED accepted

\* Mutant: every version of the kind is retired, the new one with them.
RetiredAll(c) == Rows

Retired(c) == Rows \ {drafting[c].row}

Retire(c) ==
  /\ At(c, "retire")
  /\ policies' = [p \in Policies |-> IF p \in Retired(c) THEN [policies[p] EXCEPT !.live = FALSE]
                                                         ELSE policies[p]]
  /\ End(c)
  /\ UNCHANGED accepted

-----------------------------------------------------------------------------
\* Not the live one: it is duplicated, or another is published first.
Changeable(p) == p \in Rows /\ ~policies[p].live

\* update_policy, with a new version string or not.
EditStart(c, p, v, x) ==
  /\ Changeable(p)
  /\ v # policies[p].version => VersionFree(v, {p})
  /\ Start(c, "edit", [Idle EXCEPT !.pc = "ed_write", !.row = p, !.version = v, !.text = x])
  /\ UNCHANGED <<policies, accepted>>

EditWrite(c) ==
  /\ At(c, "ed_write")
  /\ policies' = IF drafting[c].row \in Rows
                 THEN [policies EXCEPT ![drafting[c].row].version = drafting[c].version,
                                       ![drafting[c].row].text = drafting[c].text]
                 ELSE policies
  /\ End(c)
  /\ UNCHANGED accepted

\* delete_policy.
DiscardStart(c, p) ==
  /\ Changeable(p)
  /\ Start(c, "discard", [Idle EXCEPT !.pc = "di_delete", !.row = p])
  /\ UNCHANGED <<policies, accepted>>

DiscardDelete(c) ==
  /\ At(c, "di_delete")
  /\ policies' = [policies EXCEPT ![drafting[c].row] = NoPolicy]
  /\ End(c)
  /\ UNCHANGED accepted

-----------------------------------------------------------------------------
\* The live version of the highest number: what signup and the app show.
Shown == IF Live = {} THEN [version |-> 1, text |-> 0]
         ELSE LET p == CHOOSE p \in Live : \A q \in Live : policies[q].version <= policies[p].version
              IN [version |-> policies[p].version, text |-> policies[p].text]

\* accept_policy: the version on the screen, or the current one by default.
AcceptStart(c) ==
  /\ Start(c, "accept", [Idle EXCEPT !.pc = "ac_write", !.version = Shown.version,
                                     !.text = Shown.text])
  /\ UNCHANGED <<policies, accepted>>

AcceptWrite(c, u) ==
  /\ At(c, "ac_write")
  /\ accepted' = [accepted EXCEPT ![u] = [version |-> drafting[c].version,
                                          text |-> drafting[c].text]]
  /\ End(c)
  /\ UNCHANGED policies

\* my_acceptances: the version accepted is the version shown.
UpToDate(u) == accepted[u].version # 0 /\ Live # {} /\ accepted[u].version = Shown.version

-----------------------------------------------------------------------------
Step(c) ==
  \/ \E v \in Versions, x \in Texts : \/ \E b \in BOOLEAN : CreateStart(c, v, x, b)
                                      \/ \E p \in Policies : EditStart(c, p, v, x)
  \/ \E p \in Policies, v \in Versions : DuplicateStart(c, p, v)
  \/ \E p \in Policies : CreateInsert(c, p) \/ PublishStart(c, p) \/ DiscardStart(c, p)
  \/ PublishLive(c) \/ Retire(c) \/ EditWrite(c) \/ DiscardDelete(c) \/ AcceptStart(c)
  \/ \E u \in Readers : AcceptWrite(c, u)

Next == \E c \in Calls : Step(c)

Spec == Init /\ [][Next]_lvars

-----------------------------------------------------------------------------
\* With one publication at a time some version of a policy stays live from its
\* first publication on: signup always has terms to show (legal/router.py:273).
StaysLive == Live # {} => Live' # {}
AlwaysLive == [][StaysLive]_lvars

\* Whoever the platform reports as up to date was shown the words that are now
\* live: a version people accepted "stays exactly as it was"
\* (legal/router.py:227).  No run checks it, and TLC refutes it without any
\* interleaving: see the README.
AcceptedAsShown ==
  \A u \in Readers : UpToDate(u) /\ accepted[u].text # 0 => accepted[u].text = Shown.text

\* What is kept with one publication at a time: inductive with TypeOK.
PolicyInv ==
  /\ \A c \in Calls :
       /\ At(c, "pb_live") \/ At(c, "retire") \/ drafting[c].publish => drafting[c].op = "publish"
       /\ ~At(c, "idle") /\ drafting[c].op = "publish" => \A o \in Calls \ {c} : At(o, "idle")
       /\ At(c, "cr_insert") \/ At(c, "ed_write") => drafting[c].version \in Versions
       /\ At(c, "pb_live") => drafting[c].row \in Rows
       /\ At(c, "retire") => drafting[c].row \in Live
       /\ At(c, "ed_write") => drafting[c].row \in Policies
       /\ At(c, "di_delete") => drafting[c].row \in Policies \ Live
       /\ At(c, "retire") => \A p, q \in Live \ {drafting[c].row} : p = q
  /\ (\A c \in Calls : ~At(c, "retire")) => \A p, q \in Live : p = q
=============================================================================
