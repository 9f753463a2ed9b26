---------------------------- MODULE CaseOpening ----------------------------
(***************************************************************************)
(* From a request to a case, and from a case to its last stage: one        *)
(* request, the three doors that open a case from it (open_case,           *)
(* complete_consultation, POST /cases), the checklist they bind, and the   *)
(* check that guards the closing of a case.                                *)
(*                                                                         *)
(* Source: app/modules/requests/service.py, app/modules/cases/service.py   *)
(* and open_checklist_for_case of app/modules/catalog/service.py.          *)
(*                                                                         *)
(* Every `await` on the database is a step, as in DocumentReview.  The     *)
(* review of a document is one step here (DocumentReview takes it apart),  *)
(* and so are the three counts of _sync_request_status; the status they    *)
(* give is still written in a step of its own.                             *)
(***************************************************************************)
EXTENDS Naturals, FiniteSets

CONSTANTS
  Docs,      \* document ids: they bound the documents ever asked for
  Cases,     \* case ids: they bound the cases ever opened
  Calls,     \* slots for API calls in flight
  NoCase,    \* placeholder: no case
  LastStage, \* the number of stages of a case; closing it is entering the last
  Ops,       \* the operations the users perform
  Drafts,    \* the request may be a draft: update_request sets and clears the flag
  MayCrash   \* a worker may die with the calls it was running

AllOps == {"answer", "ask", "open", "complete", "create", "advance", "view",
           "review", "strike", "withdraw"}

\* What the constants satisfy: assumed wherever the module is instantiated.
CaseOpeningAssumption ==
  /\ NoCase \notin Cases /\ IsFiniteSet(Docs)
  /\ LastStage \in Nat \ {0}
  /\ MayCrash \in BOOLEAN /\ Drafts \in BOOLEAN

VARIABLES
  reqStatus, \* the request's status, or "deleted"
  reqCase,   \* the case_id of the request
  stage,     \* stage[k]: the stage of case k, 0 before it is opened
  sheet,     \* sheet[d]: the document's status, "unborn" or "gone"
  required,  \* required[d]: is_required
  boundTo,   \* boundTo[d]: the case_id of the document
  calls      \* the calls in flight

docVars == <<sheet, required, boundTo>>
vars == <<reqStatus, reqCase, stage, docVars, calls>>

DocumentStatus == {"upload_needed", "with_consultant", "approved", "needs_reupload"}
SyncStatus == {"under_review", "documents_received", "waiting_for_client"}
RequestStatus == SyncStatus \cup {"pending_approval", "new", "completed", "declined", "deleted"}
\* No call puts a request back to pending.
Written == RequestStatus \ {"pending_approval"}
Stages == 1..LastStage

Pc == {"idle", "an_write", "as_insert", "as_status",
       "op_insert", "op_list", "op_sync", "op_syncwrite", "op_request", "op_bind",
       "co_total", "co_approved", "co_insert", "co_request", "co_bind",
       "cr_insert", "cr_request", "cr_bind", "cr_list",
       "ad_count", "ad_write", "vw_stamp", "sy_count", "sy_write",
       "wd_rows", "wd_request"}

\* What a call holds: a case, the documents it read, the status it is about to
\* write, the stage it moves to, the number it counted, a flag of its caller.
CallType == [pc: Pc, case: Cases \cup {NoCase}, docs: SUBSET Docs,
             next: Written, target: 0..LastStage, total: Nat, flag: BOOLEAN]
Idle == [pc |-> "idle", case |-> NoCase, docs |-> {}, next |-> "new",
         target |-> 0, total |-> 0, flag |-> FALSE]

Live == {d \in Docs : sheet[d] \in DocumentStatus}
Unborn == {d \in Docs : sheet[d] = "unborn"}
With(s) == {d \in Live : sheet[d] = s}
Opened == {k \in Cases : stage[k] # 0}

\* A request is opened as new; the pending ones are rows of an earlier release.
Init ==
  /\ reqStatus \in {"pending_approval", "new"}
  /\ reqCase = NoCase
  /\ stage = [k \in Cases |-> 0]
  /\ sheet = [d \in Docs |-> "unborn"]
  /\ required = [d \in Docs |-> FALSE]
  /\ boundTo = [d \in Docs |-> NoCase]
  /\ calls = [c \in Calls |-> Idle]

-----------------------------------------------------------------------------
Start(c, op, rec) == op \in Ops /\ calls[c].pc = "idle" /\ calls' = [calls EXCEPT ![c] = rec]
At(c, pc) == calls[c].pc = pc
Goto(c, pc) == calls' = [calls EXCEPT ![c].pc = pc]
End(c) == calls' = [calls EXCEPT ![c] = Idle]
SetRequest(s) == reqStatus' = IF reqStatus = "deleted" THEN "deleted" ELSE s

\* insert_many: the model's one document stands for the list.
Insert(d, k) ==
  /\ d \in Unborn
  /\ sheet' = [sheet EXCEPT ![d] = "upload_needed"]
  /\ \E r \in BOOLEAN : required' = [required EXCEPT ![d] = r]
  /\ boundTo' = [boundTo EXCEPT ![d] = k]

\* update_many({"request_id": ...}): every document the request has by now.
BindAll(k) == boundTo' = [d \in Docs |-> IF d \in Live THEN k ELSE boundTo[d]]

\* The case row is inserted under an id of its own.
OpenAt(c, s, pc) ==
  \E k \in Cases \ Opened :
    /\ stage' = [stage EXCEPT ![k] = s]
    /\ calls' = [calls EXCEPT ![c].case = k, ![c].pc = pc]

-----------------------------------------------------------------------------
\* approve_request, decline_request: decided on a snapshot that was pending.
AnswerStart(c, verdict) ==
  /\ reqStatus = "pending_approval"
  /\ Start(c, "answer", [Idle EXCEPT !.pc = "an_write", !.next = verdict])
  /\ UNCHANGED <<reqStatus, reqCase, stage, docVars>>

AnswerWrite(c) ==
  /\ At(c, "an_write")
  /\ SetRequest(calls[c].next)
  /\ End(c)
  /\ UNCHANGED <<reqCase, stage, docVars>>

-----------------------------------------------------------------------------
\* request_documents: the case it binds to is the one in its snapshot.

\* Mutant: ask without waiting for the approval.
AskStartAnyStatus(c) ==
  /\ reqStatus # "deleted"
  /\ Start(c, "ask", [Idle EXCEPT !.pc = "as_insert", !.case = reqCase])
  /\ UNCHANGED <<reqStatus, reqCase, stage, docVars>>

\* Mutant: the documents asked for are not tied to the case.
AskStartUnbound(c) ==
  /\ reqStatus \notin {"deleted", "pending_approval"}
  /\ Start(c, "ask", [Idle EXCEPT !.pc = "as_insert"])
  /\ UNCHANGED <<reqStatus, reqCase, stage, docVars>>

AskStart(c) ==
  /\ reqStatus \notin {"deleted", "pending_approval"}
  /\ Start(c, "ask", [Idle EXCEPT !.pc = "as_insert", !.case = reqCase])
  /\ UNCHANGED <<reqStatus, reqCase, stage, docVars>>

AskInsert(c, d) ==
  /\ At(c, "as_insert")
  /\ Insert(d, calls[c].case)
  /\ Goto(c, "as_status")
  /\ UNCHANGED <<reqStatus, reqCase, stage>>

AskStatus(c) ==
  /\ At(c, "as_status")
  /\ SetRequest("waiting_for_client")
  /\ End(c)
  /\ UNCHANGED <<reqCase, stage, docVars>>

-----------------------------------------------------------------------------
\* _sync_request_status, after a review or inside a door.
Derived == IF Live # {} /\ With("approved") = Live THEN "under_review"
           ELSE IF With("with_consultant") # {} THEN "documents_received"
           ELSE "waiting_for_client"

SyncCount(c) ==
  /\ calls[c].pc \in {"sy_count", "op_sync"}
  /\ calls' = [calls EXCEPT ![c].next = Derived,
        ![c].pc = IF At(c, "op_sync") THEN "op_syncwrite" ELSE "sy_write"]
  /\ UNCHANGED <<reqStatus, reqCase, stage, docVars>>

SyncWrite(c) ==
  /\ calls[c].pc \in {"sy_write", "op_syncwrite"}
  /\ SetRequest(calls[c].next)
  /\ IF At(c, "op_syncwrite")
     THEN calls' = [calls EXCEPT ![c].pc = "op_request", ![c].next = "new"] ELSE End(c)
  /\ UNCHANGED <<reqCase, stage, docVars>>

-----------------------------------------------------------------------------
\* open_case: the case first, then its checklist, then the request's own
\* case_id (whatever it is by now), then the documents already raised.

\* Mutant: no look at the case_id the request carries.
OpenStartAgain(c) ==
  /\ reqStatus \notin {"deleted", "pending_approval", "declined"}
  /\ Start(c, "open", [Idle EXCEPT !.pc = "op_insert"])
  /\ UNCHANGED <<reqStatus, reqCase, stage, docVars>>

OpenStart(c) ==
  /\ reqStatus \notin {"deleted", "pending_approval", "declined"}
  /\ reqCase = NoCase
  /\ Start(c, "open", [Idle EXCEPT !.pc = "op_insert"])
  /\ UNCHANGED <<reqStatus, reqCase, stage, docVars>>

OpenInsert(c) ==
  /\ At(c, "op_insert")
  /\ OpenAt(c, 1, "op_list")
  /\ UNCHANGED <<reqStatus, reqCase, docVars>>

\* open_checklist_for_case; without a procedure there is nothing to ask for.
OpenList(c, d) ==
  /\ At(c, "op_list")
  /\ Insert(d, calls[c].case)
  /\ Goto(c, "op_sync")
  /\ UNCHANGED <<reqStatus, reqCase, stage>>

OpenNoList(c) ==
  /\ At(c, "op_list")
  /\ Goto(c, "op_request")
  /\ UNCHANGED <<reqStatus, reqCase, stage, docVars>>

OpenRequest(c) ==
  /\ At(c, "op_request")
  /\ SetRequest("under_review")
  /\ reqCase' = IF reqStatus = "deleted" THEN reqCase ELSE calls[c].case
  /\ Goto(c, "op_bind")
  /\ UNCHANGED <<stage, docVars>>

OpenBind(c) ==
  /\ At(c, "op_bind")
  /\ BindAll(calls[c].case)
  /\ End(c)
  /\ UNCHANGED <<reqStatus, reqCase, stage, sheet, required>>

-----------------------------------------------------------------------------
\* complete_consultation: every document of the request approved, by two counts.
CompleteStart(c) ==
  /\ reqStatus # "deleted" /\ reqCase = NoCase
  /\ Start(c, "complete", [Idle EXCEPT !.pc = "co_total"])
  /\ UNCHANGED <<reqStatus, reqCase, stage, docVars>>

CompleteTotal(c) ==
  /\ At(c, "co_total")
  /\ calls' = [calls EXCEPT ![c].total = Cardinality(Live), ![c].pc = "co_approved"]
  /\ UNCHANGED <<reqStatus, reqCase, stage, docVars>>

\* Mutant: documents the client has handed in are good enough.
CompleteApprovedHandedIn(c) ==
  /\ At(c, "co_approved")
  /\ IF calls[c].total # 0 /\ With("upload_needed") = {}
     THEN calls' = [calls EXCEPT ![c].total = 0, ![c].pc = "co_insert"] ELSE End(c)
  /\ UNCHANGED <<reqStatus, reqCase, stage, docVars>>

CompleteApproved(c) ==
  /\ At(c, "co_approved")
  /\ IF calls[c].total # 0 /\ Cardinality(With("approved")) = calls[c].total
     THEN calls' = [calls EXCEPT ![c].total = 0, ![c].pc = "co_insert"] ELSE End(c)
  /\ UNCHANGED <<reqStatus, reqCase, stage, docVars>>

\* Mutant: a case of a single stage opens past it.
CompleteInsertUnclamped(c) ==
  /\ At(c, "co_insert")
  /\ OpenAt(c, 2, "co_request")
  /\ UNCHANGED <<reqStatus, reqCase, docVars>>

\* Collection is over: the case starts at the stage after it, when there is one.
CompleteInsert(c) ==
  /\ At(c, "co_insert")
  /\ OpenAt(c, IF LastStage > 1 THEN 2 ELSE 1, "co_request")
  /\ UNCHANGED <<reqStatus, reqCase, docVars>>

CompleteRequest(c) ==
  /\ At(c, "co_request")
  /\ SetRequest("completed")
  /\ reqCase' = IF reqStatus = "deleted" THEN reqCase ELSE calls[c].case
  /\ Goto(c, "co_bind")
  /\ UNCHANGED <<stage, docVars>>

CompleteBind(c) ==
  /\ At(c, "co_bind")
  /\ BindAll(calls[c].case)
  /\ End(c)
  /\ UNCHANGED <<reqStatus, reqCase, stage, sheet, required>>

-----------------------------------------------------------------------------
\* create_case (POST /cases) naming the request: nothing of it is looked at.
CreateStart(c) ==
  /\ Start(c, "create", [Idle EXCEPT !.pc = "cr_insert"])
  /\ UNCHANGED <<reqStatus, reqCase, stage, docVars>>

CreateInsert(c) ==
  /\ At(c, "cr_insert")
  /\ OpenAt(c, 1, "cr_request")
  /\ UNCHANGED <<reqStatus, reqCase, docVars>>

\* Mutant: the update without its {"case_id": None}.
CreateRequestAlways(c) ==
  /\ At(c, "cr_request")
  /\ reqCase' = IF reqStatus = "deleted" THEN reqCase ELSE calls[c].case
  /\ Goto(c, "cr_bind")
  /\ UNCHANGED <<reqStatus, stage, docVars>>

CreateRequest(c) ==
  /\ At(c, "cr_request")
  /\ reqCase' = IF reqStatus # "deleted" /\ reqCase = NoCase THEN calls[c].case ELSE reqCase
  /\ Goto(c, "cr_bind")
  /\ UNCHANGED <<reqStatus, stage, docVars>>

CreateBind(c) ==
  /\ At(c, "cr_bind")
  /\ BindAll(calls[c].case)
  /\ Goto(c, "cr_list")
  /\ UNCHANGED <<reqStatus, reqCase, stage, sheet, required>>

CreateList(c, d) ==
  /\ At(c, "cr_list")
  /\ Insert(d, calls[c].case)
  /\ calls' = [calls EXCEPT ![c] = [Idle EXCEPT !.pc = "sy_count"]]
  /\ UNCHANGED <<reqStatus, reqCase, stage>>

CreateNoList(c) ==
  /\ At(c, "cr_list")
  /\ End(c)
  /\ UNCHANGED <<reqStatus, reqCase, stage, docVars>>

-----------------------------------------------------------------------------
\* advance_stage: to the next stage or to a named one; entering the last asks
\* first whether the case's required documents are approved, unless forced.
Advanced(c, k, t, force) ==
  Start(c, "advance", [Idle EXCEPT !.case = k, !.target = t, !.flag = force,
          !.pc = IF t = LastStage /\ ~force THEN "ad_count" ELSE "ad_write"])

AdvanceStart(c, k, t, force) ==
  /\ k \in Opened /\ t \in Stages
  /\ Advanced(c, k, t, force)
  /\ UNCHANGED <<reqStatus, reqCase, stage, docVars>>

Outstanding(k) == {d \in Live : boundTo[d] = k /\ required[d] /\ sheet[d] # "approved"}

\* Mutant: what the client has handed in is no longer outstanding.
AdvanceCountHandedIn(c) ==
  /\ At(c, "ad_count")
  /\ IF Outstanding(calls[c].case) \cap With("upload_needed") = {}
     THEN Goto(c, "ad_write") ELSE End(c)
  /\ UNCHANGED <<reqStatus, reqCase, stage, docVars>>

AdvanceCount(c) ==
  /\ At(c, "ad_count")
  /\ IF Outstanding(calls[c].case) = {} THEN Goto(c, "ad_write") ELSE End(c)
  /\ UNCHANGED <<reqStatus, reqCase, stage, docVars>>

AdvanceWrite(c) ==
  /\ At(c, "ad_write")
  /\ stage' = [stage EXCEPT ![calls[c].case] = calls[c].target]
  /\ End(c)
  /\ UNCHANGED <<reqStatus, reqCase, docVars>>

\* get_case: reading a case stamps the request's documents that carry no case.
View(c, k) ==
  /\ k \in Opened
  /\ LET unstamped == {d \in Live : boundTo[d] = NoCase} IN
     /\ unstamped # {}
     /\ Start(c, "view", [Idle EXCEPT !.pc = "vw_stamp", !.case = k, !.docs = unstamped])
  /\ UNCHANGED <<reqStatus, reqCase, stage, docVars>>

ViewStamp(c) ==
  /\ At(c, "vw_stamp")
  /\ boundTo' = [d \in Docs |-> IF d \in calls[c].docs \cap Live THEN calls[c].case
                                ELSE boundTo[d]]
  /\ End(c)
  /\ UNCHANGED <<reqStatus, reqCase, stage, sheet, required>>

-----------------------------------------------------------------------------
\* A document handed in, approved or sent back; and one struck off.
Review(c, d, s) ==
  /\ d \in Live
  /\ \/ s = "with_consultant" /\ sheet[d] # "approved"
     \/ s = "approved" /\ sheet[d] # "upload_needed"
     \/ s = "needs_reupload"
  /\ sheet' = [sheet EXCEPT ![d] = s]
  /\ Start(c, "review", [Idle EXCEPT !.pc = "sy_count"])
  /\ UNCHANGED <<reqStatus, reqCase, stage, required, boundTo>>

Strike(c, d) ==
  /\ d \in Live /\ sheet[d] # "approved"
  /\ sheet' = [sheet EXCEPT ![d] = "gone"]
  /\ Start(c, "strike", [Idle EXCEPT !.pc = "sy_count"])
  /\ UNCHANGED <<reqStatus, reqCase, stage, required, boundTo>>

\* delete_request, by a client (flag) or a consultant.
WithdrawStart(c, client) ==
  /\ reqStatus # "deleted"
  /\ client => /\ reqCase = NoCase
               /\ Drafts \/ reqStatus \in {"pending_approval", "declined"}
  /\ Start(c, "withdraw", [Idle EXCEPT !.pc = "wd_rows", !.flag = client])
  /\ UNCHANGED <<reqStatus, reqCase, stage, docVars>>

WithdrawRows(c) ==
  /\ At(c, "wd_rows")
  /\ sheet' = [d \in Docs |-> IF d \in Live THEN "gone" ELSE sheet[d]]
  /\ Goto(c, "wd_request")
  /\ UNCHANGED <<reqStatus, reqCase, stage, required, boundTo>>

WithdrawRequest(c) ==
  /\ At(c, "wd_request")
  /\ reqStatus' = "deleted"
  /\ End(c)
  /\ UNCHANGED <<reqCase, stage, docVars>>

\* A worker dies between two steps of a call.
CallCut(c) ==
  /\ MayCrash
  /\ calls[c].pc # "idle"
  /\ End(c)
  /\ UNCHANGED <<reqStatus, reqCase, stage, docVars>>

-----------------------------------------------------------------------------
RequestStep(c) ==
  \/ \E v \in {"new", "declined"} : AnswerStart(c, v)
  \/ AnswerWrite(c)
  \/ AskStart(c) \/ AskStatus(c)
  \/ \E d \in Docs : AskInsert(c, d)
  \/ \E client \in BOOLEAN : WithdrawStart(c, client)
  \/ WithdrawRows(c) \/ WithdrawRequest(c)

DoorStep(c) ==
  \/ OpenStart(c) \/ OpenInsert(c) \/ OpenNoList(c) \/ OpenRequest(c) \/ OpenBind(c)
  \/ \E d \in Docs : OpenList(c, d)
  \/ CompleteStart(c) \/ CompleteTotal(c) \/ CompleteApproved(c) \/ CompleteInsert(c)
  \/ CompleteRequest(c) \/ CompleteBind(c)
  \/ CreateStart(c) \/ CreateInsert(c) \/ CreateRequest(c) \/ CreateBind(c) \/ CreateNoList(c)
  \/ \E d \in Docs : CreateList(c, d)

CaseStep(c) ==
  \/ \E k \in Cases, t \in Stages, force \in BOOLEAN : AdvanceStart(c, k, t, force)
  \/ AdvanceCount(c) \/ AdvanceWrite(c)
  \/ \E k \in Cases : View(c, k)
  \/ ViewStamp(c)
  \/ \E d \in Docs, s \in DocumentStatus : Review(c, d, s)
  \/ \E d \in Docs : Strike(c, d)
  \/ SyncCount(c) \/ SyncWrite(c)

Next == \E c \in Calls : RequestStep(c) \/ DoorStep(c) \/ CaseStep(c) \/ CallCut(c)

Spec == Init /\ [][Next]_vars

-----------------------------------------------------------------------------
TypeOK ==
  /\ reqStatus \in RequestStatus
  /\ reqCase \in Cases \cup {NoCase}
  /\ stage \in [Cases -> 0..LastStage]
  /\ sheet \in [Docs -> DocumentStatus \cup {"unborn", "gone"}]
  /\ required \in [Docs -> BOOLEAN]
  /\ boundTo \in [Docs -> Cases \cup {NoCase}]
  /\ calls \in [Calls -> CallType]

Quiet == \A c \in Calls : calls[c].pc = "idle"

\* open_case, request_documents: a request nobody has accepted yet has no case
\* and asks the client for nothing, whatever calls are in flight.
PendingUntouched == reqStatus = "pending_approval" => Live = {} /\ reqCase = NoCase

\* PendingUntouched as an inductive invariant: no call that a pending request
\* refuses is past its guard, and no case has been opened.  POST /cases asks for
\* no approval, so it is about the other doors.
WorkPc == Pc \ {"idle", "an_write", "wd_rows", "wd_request", "co_total", "co_approved"}
PendingInv ==
  reqStatus = "pending_approval" /\ "create" \notin Ops =>
    /\ Live = {} /\ reqCase = NoCase /\ Opened = {}
    /\ \A c \in Calls : calls[c].pc \notin WorkPc
    /\ \A c \in Calls : At(c, "co_approved") => calls[c].total = 0

\* open_case: "A case has already been opened from this request".
OneCase == Cardinality(Opened) <= 1

\* Every document of a request belongs to the case the request was turned into,
\* so the guard on closing counts it and a delegated partner sees it.
DocumentsFollowCase ==
  Quiet /\ reqCase # NoCase => \A d \in Live : boundTo[d] = reqCase

\* advance_stage: a case closes with documents missing only when the consultant
\* says so.
ClosesOnApproved ==
  \A c \in Calls : AdvanceWrite(c) /\ calls[c].target = LastStage /\ ~calls[c].flag
    => \A d \in Live : required[d] => sheet[d] = "approved"
ClosedOnApproved == [][ClosesOnApproved]_vars

\* complete_consultation: unlocked only when every document is approved.
CompletesOnApproved ==
  reqStatus # "completed" /\ reqStatus' = "completed" => Live # {} /\ With("approved") = Live
CompletedOnApproved == [][CompletesOnApproved]_vars

\* The case a request names is the one it was first turned into.
KeepsFirstCase == reqCase # NoCase => reqCase' = reqCase
FirstCaseKept == [][KeepsFirstCase]_vars

\* Why the four above hold of one call at a time, as an inductive invariant:
\* what a door found when it was opened is still so when it writes.
LinkPc == {"op_insert", "op_list", "op_sync", "op_syncwrite", "op_request",
           "co_total", "co_approved", "co_insert", "co_request"}
OpeningPc == {"op_list", "op_sync", "op_syncwrite", "op_request", "co_request"}
BindPc == {"op_bind", "co_bind"}
CreatePc == {"cr_insert", "cr_request", "cr_bind", "cr_list"}

\* A door that ends with the request's case_id found none.
FirstInv == \A c \in Calls : calls[c].pc \in LinkPc => reqCase = NoCase

\* No worker dies and POST /cases is not called.
SerialInv ==
  \A c \in Calls :
    /\ calls[c].pc \notin CreatePc /\ calls[c].next \notin {"completed", "deleted"}
    /\ calls[c].pc \in LinkPc => reqStatus # "deleted"
    /\ calls[c].pc \in BindPc => reqCase = calls[c].case /\ reqCase # NoCase
    /\ At(c, "as_insert") => calls[c].case = reqCase
    /\ calls[c].pc \in {"ad_count", "ad_write", "vw_stamp"} => calls[c].case \in Opened
    /\ calls[c].pc \in {"ad_count", "ad_write"} => calls[c].target # 0
    /\ Opened = IF reqCase # NoCase THEN {reqCase}
                ELSE IF calls[c].pc \in OpeningPc THEN {calls[c].case} ELSE {}
    /\ reqCase # NoCase /\ calls[c].pc \notin BindPc => \A d \in Live : boundTo[d] = reqCase
    /\ At(c, "ad_write") /\ calls[c].target = LastStage /\ ~calls[c].flag =>
         \A d \in Live : required[d] => sheet[d] = "approved"
    /\ At(c, "co_approved") => calls[c].total = Cardinality(Live)
    /\ calls[c].pc \in {"co_insert", "co_request"} => Live # {} /\ With("approved") = Live

\* delete_request: a client never takes away a request a case was opened from.
\* True of one call at a time; two at once refute it.
ClientLeavesCases ==
  [][\A c \in Calls : WithdrawRequest(c) /\ calls[c].flag => reqCase = NoCase]_vars

\* decline_request: a request turned down is kept as the answer it got.  No run
\* checks it, and TLC refutes it: request_documents does not refuse a declined
\* request.
DeclinedStands == [][reqStatus = "declined" => reqStatus' \in {"declined", "deleted"}]_vars
=============================================================================
