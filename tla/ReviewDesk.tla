----------------------------- MODULE ReviewDesk -----------------------------
(***************************************************************************)
(* What the document checklist of a request promises, with every operation *)
(* taken as one step: a document moves between the states of its review,   *)
(* and the request always says what its documents add up to.               *)
(* DocumentReview with one call slot implements this (ImplementsDesk).     *)
(***************************************************************************)
CONSTANT Docs

VARIABLES
  sheet,   \* sheet[d]: the review state of d, or "absent"
  filed,   \* filed[d]: whether a file came in for d
  said     \* what the request says of itself

deskVars == <<sheet, filed, said>>

\* The status that a checklist adds up to.
Says(s) ==
  LET here == {d \in Docs : s[d] # "absent"} IN
  IF here # {} /\ \A d \in here : s[d] = "approved" THEN "under_review"
  ELSE IF \E d \in here : s[d] = "with_consultant" THEN "documents_received"
  ELSE "waiting_for_client"

DeskInit ==
  /\ sheet \in [Docs -> {"absent", "upload_needed"}]
  /\ filed = [d \in Docs |-> FALSE]
  /\ said = Says(sheet)

Turn(d, s, f) ==
  /\ sheet' = [sheet EXCEPT ![d] = s]
  /\ filed' = [filed EXCEPT ![d] = f]
  /\ said' = Says(sheet')

\* The client hands a document in, for the first time or again.
Receive(d) == sheet[d] \notin {"absent", "approved"} /\ Turn(d, "with_consultant", TRUE)

\* The consultant approves what was handed in.
Approve(d) == sheet[d] # "absent" /\ filed[d] /\ Turn(d, "approved", TRUE)

\* The consultant sends it back.
Return(d) == sheet[d] # "absent" /\ Turn(d, "needs_reupload", filed[d])

\* The consultant strikes a requirement that is not yet approved.
Strike(d) == sheet[d] \notin {"absent", "approved"} /\ Turn(d, "absent", FALSE)

\* The request goes, and the whole checklist with it.
WithdrawAll ==
  /\ said # "deleted"
  /\ sheet' = [d \in Docs |-> "absent"]
  /\ filed' = [d \in Docs |-> FALSE]
  /\ said' = "deleted"

DeskNext ==
  \/ \E d \in Docs : Receive(d) \/ Approve(d) \/ Return(d) \/ Strike(d)
  \/ WithdrawAll

DeskSpec == DeskInit /\ [][DeskNext]_deskVars
=============================================================================
