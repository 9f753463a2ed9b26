--------------------------- MODULE DocumentReview ---------------------------
(***************************************************************************)
(* The document checklist of one request: the rows of `documents`, the     *)
(* files behind them in GridFS, the analysis of each file, the deadlines   *)
(* mirrored from them and the request status counted from them.            *)
(*                                                                         *)
(* Source: app/modules/documents/service.py, with the two operations of    *)
(* app/modules/requests/service.py that insert and delete document rows,   *)
(* app/services/storage.py and app/modules/deadlines/service.py.           *)
(*                                                                         *)
(* Nothing in the code runs in a transaction.  Every `await` on the        *)
(* database is one atomic step here, and between two of them any other     *)
(* call, in this worker or another, may run: a call in flight is a record  *)
(* of where it is (pc) and of what it has read so far.                     *)
(***************************************************************************)
EXTENDS Naturals, FiniteSets

CONSTANTS
  Docs,         \* document ids; ids are never reused
  Blobs,        \* GridFS file ids; drawn once each, so they bound the uploads
  Calls,        \* slots for API calls in flight: one slot is a serial server
  NoDoc,        \* placeholder: no document
  NoFile,       \* placeholder: no file
  Asked,        \* the documents already asked for when the model starts
  Ops,          \* the operations the users perform, a subset of AllOps
  SavesMayFail, \* storage.save_upload may refuse the file (type, size, empty)
  MayCrash      \* a worker may die with the calls and tasks it was running

AllOps == {"upload", "approve", "reject", "reanalyze", "delete", "ask", "withdraw"}

ASSUME DocsAssumption  == IsFiniteSet(Docs) /\ NoDoc \notin Docs /\ Asked \subseteq Docs
ASSUME BlobsAssumption == NoFile \notin Blobs
ASSUME FlagsAssumption == SavesMayFail \in BOOLEAN /\ MayCrash \in BOOLEAN

VARIABLES
  row,       \* row[d]: "unborn", "live" or "gone"
  status,    \* status[d]: DocumentStatus
  file,      \* file[d]: the blob the row names, or NoFile
  analysis,  \* analysis[d]: the `ai_analysis` of the row and the file it was read from
  chase,     \* chase[d]: whether a document_request deadline stands
  expiry,    \* expiry[d]: the file whose reading put up the document_expiry
             \*            deadline, or NoFile when there is none
  blobs,     \* the files GridFS holds
  minted,    \* the file ids drawn so far
  reqStatus, \* the request's status, or "deleted"
  calls,     \* the calls in flight
  job,       \* job[b]: the background analysis started by the upload of b
  lost       \* history: documents whose file went with a call cut short

rowVars == <<row, status, file, analysis>>
deadlineVars == <<chase, expiry>>
vars == <<row, status, file, analysis, chase, expiry, blobs, minted,
          reqStatus, calls, job, lost>>

DocumentStatus == {"upload_needed", "with_consultant", "approved", "needs_reupload"}
SyncStatus == {"under_review", "documents_received", "waiting_for_client"}
RequestStatus == SyncStatus \cup {"new", "deleted"}
AnalysisState == {"none", "analysing", "read", "failed"}

UploadPc   == {"up_drop", "up_save", "up_write", "up_clear"}
DecidePc   == {"ap_write", "rj_write"}
ReanalyzePc == {"re_read", "re_answer", "re_track"}
DeletePc   == {"de_drop", "de_row", "de_deadlines"}
AskPc      == {"as_insert", "as_deadline", "as_status"}
WithdrawPc == {"wd_find", "wd_drop", "wd_rows", "wd_request"}
SyncPc     == {"sy_total", "sy_approved", "sy_awaiting", "sy_write"}
Pc == {"idle"} \cup UploadPc \cup DecidePc \cup ReanalyzePc \cup DeletePc
        \cup AskPc \cup WithdrawPc \cup SyncPc

\* What a call holds: the document it is about, the file its snapshot of the
\* row named, the file it stores, the files a withdrawal has yet to delete,
\* and what _sync_request_status has counted so far.
CallFields == [pc: Pc, doc: Docs \cup {NoDoc}, old: Blobs \cup {NoFile},
               new: Blobs \cup {NoFile}, drop: SUBSET Blobs,
               total: Nat, all: BOOLEAN, next: SyncStatus]
StoringPc == {"up_drop", "up_save", "up_write"}
CallType == {r \in CallFields : r.pc \in StoringPc => r.new \in Blobs}
Idle == [pc |-> "idle", doc |-> NoDoc, old |-> NoFile, new |-> NoFile, drop |-> {},
         total |-> 0, all |-> FALSE, next |-> "waiting_for_client"]

JobPc == {"none", "read", "answer", "track", "fail", "done", "dead"}
JobType == [pc: JobPc, doc: Docs \cup {NoDoc}]

Live == {d \in Docs : row[d] = "live"}
LiveWith(s) == {d \in Live : status[d] = s}

Init ==
  /\ row = [d \in Docs |-> IF d \in Asked THEN "live" ELSE "unborn"]
  /\ status = [d \in Docs |-> "upload_needed"]
  /\ file = [d \in Docs |-> NoFile]
  /\ analysis = [d \in Docs |-> [state |-> "none", of |-> NoFile]]
  /\ chase = [d \in Docs |-> d \in Asked]
  /\ expiry = [d \in Docs |-> NoFile]
  /\ blobs = {}
  /\ minted = {}
  /\ reqStatus = IF Asked = {} THEN "new" ELSE "waiting_for_client"
  /\ calls = [c \in Calls |-> Idle]
  /\ job = [b \in Blobs |-> [pc |-> "none", doc |-> NoDoc]]
  /\ lost = {}

-----------------------------------------------------------------------------
\* Moving a call on.

Start(c, op, rec) == op \in Ops /\ calls[c].pc = "idle" /\ calls' = [calls EXCEPT ![c] = rec]
Goto(c, pc) == calls' = [calls EXCEPT ![c].pc = pc]
End(c) == calls' = [calls EXCEPT ![c] = Idle]
\* Every write path ends in _sync_request_status: drop the snapshot, keep counting.
ToSync(c) == calls' = [calls EXCEPT ![c] = [Idle EXCEPT !.pc = "sy_total"]]

\* The documents whose file a call has deleted while their row still names it.
Hands(c) ==
  CASE calls[c].pc \in {"up_save", "up_write", "de_row"} ->
         {d \in Docs : d = calls[c].doc /\ file[d] = calls[c].old /\ file[d] # NoFile}
    [] calls[c].pc = "wd_drop" ->
         {d \in Docs : file[d] # NoFile /\ file[d] \notin calls[c].drop}
    [] OTHER -> {}

-----------------------------------------------------------------------------
\* upload: the client sends a file, or replaces the one sent before.

\* Mutant: the previous file is left in the bucket.
UploadStartKeepOld(c, d, b) ==
  /\ d \in Live /\ status[d] # "approved"
  /\ b \in Blobs \ minted
  /\ Start(c, "upload",
           [Idle EXCEPT !.pc = "up_save", !.doc = d, !.old = file[d], !.new = b])
  /\ minted' = minted \cup {b}
  /\ UNCHANGED <<rowVars, deadlineVars, blobs, reqStatus, job, lost>>

UploadStart(c, d, b) ==
  /\ d \in Live /\ status[d] # "approved"
  /\ b \in Blobs \ minted
  /\ Start(c, "upload",
           [Idle EXCEPT !.pc = IF file[d] = NoFile THEN "up_save" ELSE "up_drop",
                        !.doc = d, !.old = file[d], !.new = b])
  /\ minted' = minted \cup {b}
  /\ UNCHANGED <<rowVars, deadlineVars, blobs, reqStatus, job, lost>>

\* The previous file goes first, before the new one is known to be acceptable.
UploadDrop(c) ==
  /\ calls[c].pc = "up_drop"
  /\ blobs' = blobs \ {calls[c].old}
  /\ Goto(c, "up_save")
  /\ UNCHANGED <<rowVars, deadlineVars, minted, reqStatus, job, lost>>

UploadSave(c) ==
  /\ calls[c].pc = "up_save"
  /\ blobs' = blobs \cup {calls[c].new}
  /\ Goto(c, "up_write")
  /\ UNCHANGED <<rowVars, deadlineVars, minted, reqStatus, job, lost>>

UploadRefused(c) ==
  /\ SavesMayFail
  /\ calls[c].pc = "up_save"
  /\ lost' = lost \cup Hands(c)
  /\ End(c)
  /\ UNCHANGED <<rowVars, deadlineVars, blobs, minted, reqStatus, job>>

\* Mutant: the update spares a row that was approved meanwhile.
UploadWriteSpareApproved(c) ==
  /\ calls[c].pc = "up_write"
  /\ LET d == calls[c].doc
         b == calls[c].new IN
     /\ IF row[d] = "live" /\ status[d] # "approved"
        THEN /\ file' = [file EXCEPT ![d] = b]
             /\ status' = [status EXCEPT ![d] = "with_consultant"]
             /\ analysis' = [analysis EXCEPT ![d] = [state |-> "analysing", of |-> b]]
             /\ lost' = lost \ {d}
        ELSE UNCHANGED <<file, status, analysis, lost>>
     /\ job' = [job EXCEPT ![b] = [pc |-> "read", doc |-> d]]
  /\ Goto(c, "up_clear")
  /\ UNCHANGED <<row, deadlineVars, blobs, minted, reqStatus>>

\* One update_one by id (nothing happens if the row has gone meanwhile), and the
\* analysis task is created in the same stretch of code.
UploadWrite(c) ==
  /\ calls[c].pc = "up_write"
  /\ LET d == calls[c].doc
         b == calls[c].new IN
     /\ IF row[d] = "live"
        THEN /\ file' = [file EXCEPT ![d] = b]
             /\ status' = [status EXCEPT ![d] = "with_consultant"]
             /\ analysis' = [analysis EXCEPT ![d] = [state |-> "analysing", of |-> b]]
             /\ lost' = lost \ {d}
        ELSE UNCHANGED <<file, status, analysis, lost>>
     /\ job' = [job EXCEPT ![b] = [pc |-> "read", doc |-> d]]
  /\ Goto(c, "up_clear")
  /\ UNCHANGED <<row, deadlineVars, blobs, minted, reqStatus>>

UploadClear(c) ==
  /\ calls[c].pc = "up_clear"
  /\ chase' = [chase EXCEPT ![calls[c].doc] = FALSE]
  /\ ToSync(c)
  /\ UNCHANGED <<rowVars, expiry, blobs, minted, reqStatus, job, lost>>

-----------------------------------------------------------------------------
\* approve and reject: a decision on the document as it was read.

\* Mutant: approve without asking whether anything was uploaded.
ApproveStartUnchecked(c, d) ==
  /\ d \in Live
  /\ Start(c, "approve", [Idle EXCEPT !.pc = "ap_write", !.doc = d])
  /\ UNCHANGED <<rowVars, deadlineVars, blobs, minted, reqStatus, job, lost>>

ApproveStart(c, d) ==
  /\ d \in Live /\ file[d] # NoFile
  /\ Start(c, "approve", [Idle EXCEPT !.pc = "ap_write", !.doc = d])
  /\ UNCHANGED <<rowVars, deadlineVars, blobs, minted, reqStatus, job, lost>>

RejectStart(c, d) ==
  /\ d \in Live
  /\ Start(c, "reject", [Idle EXCEPT !.pc = "rj_write", !.doc = d])
  /\ UNCHANGED <<rowVars, deadlineVars, blobs, minted, reqStatus, job, lost>>

\* The update carries no condition but the id.
Decide(c, pc, verdict) ==
  /\ calls[c].pc = pc
  /\ status' = IF row[calls[c].doc] = "live"
               THEN [status EXCEPT ![calls[c].doc] = verdict] ELSE status
  /\ ToSync(c)
  /\ UNCHANGED <<row, file, analysis, deadlineVars, blobs, minted, reqStatus, job, lost>>

ApproveWrite(c) == Decide(c, "ap_write", "approved")
RejectWrite(c)  == Decide(c, "rj_write", "needs_reupload")

-----------------------------------------------------------------------------
\* _sync_request_status: three counts and a write, each its own round trip.

SyncTotal(c) ==
  /\ calls[c].pc = "sy_total"
  /\ calls' = [calls EXCEPT ![c].total = Cardinality(Live), ![c].pc = "sy_approved"]
  /\ UNCHANGED <<rowVars, deadlineVars, blobs, minted, reqStatus, job, lost>>

SyncApproved(c) ==
  /\ calls[c].pc = "sy_approved"
  /\ calls' = [calls EXCEPT
        ![c].all = calls[c].total # 0 /\ Cardinality(LiveWith("approved")) = calls[c].total,
        ![c].total = 0, ![c].pc = "sy_awaiting"]
  /\ UNCHANGED <<rowVars, deadlineVars, blobs, minted, reqStatus, job, lost>>

\* Mutant: the rule the service had before, waiting until everything is in.
SyncAwaitingAllIn(c) ==
  /\ calls[c].pc = "sy_awaiting"
  /\ calls' = [calls EXCEPT
        ![c].next = IF calls[c].all THEN "under_review"
                    ELSE IF LiveWith("with_consultant") # {} /\ LiveWith("upload_needed") = {}
                    THEN "documents_received"
                    ELSE "waiting_for_client",
        ![c].all = FALSE, ![c].pc = "sy_write"]
  /\ UNCHANGED <<rowVars, deadlineVars, blobs, minted, reqStatus, job, lost>>

SyncAwaiting(c) ==
  /\ calls[c].pc = "sy_awaiting"
  /\ calls' = [calls EXCEPT
        ![c].next = IF calls[c].all THEN "under_review"
                    ELSE IF LiveWith("with_consultant") # {} THEN "documents_received"
                    ELSE "waiting_for_client",
        ![c].all = FALSE, ![c].pc = "sy_write"]
  /\ UNCHANGED <<rowVars, deadlineVars, blobs, minted, reqStatus, job, lost>>

SetRequest(s) == reqStatus' = IF reqStatus = "deleted" THEN "deleted" ELSE s

SyncWrite(c) ==
  /\ calls[c].pc = "sy_write"
  /\ SetRequest(calls[c].next)
  /\ End(c)
  /\ UNCHANGED <<rowVars, deadlineVars, blobs, minted, job, lost>>

-----------------------------------------------------------------------------
\* The analysis of a file: read it back, ask the model, write the answer on
\* the row, mirror the expiry date onto the worklist.

WriteAnalysis(d, s, b) ==
  analysis' = IF row[d] = "live"
              THEN [analysis EXCEPT ![d] = [state |-> s, of |-> b]] ELSE analysis

\* _track_expiry: the answer names an expiry date (upsert) or none (clear).
TrackExpiry(d, b) == \E x \in {b, NoFile} : expiry' = [expiry EXCEPT ![d] = x]

JobGoto(b, pc) == job' = [job EXCEPT ![b].pc = pc]

\* Mutant: the background task lets its exception go.
JobReadNoExcept(b) ==
  /\ job[b].pc = "read"
  /\ JobGoto(b, IF b \in blobs THEN "answer" ELSE "done")
  /\ UNCHANGED <<rowVars, deadlineVars, blobs, minted, reqStatus, calls, lost>>

JobRead(b) ==
  /\ job[b].pc = "read"
  /\ JobGoto(b, IF b \in blobs THEN "answer" ELSE "fail")
  /\ UNCHANGED <<rowVars, deadlineVars, blobs, minted, reqStatus, calls, lost>>

JobAnswer(b) ==
  /\ job[b].pc = "answer"
  /\ WriteAnalysis(job[b].doc, "read", b)
  /\ JobGoto(b, "track")
  /\ UNCHANGED <<row, status, file, deadlineVars, blobs, minted, reqStatus, calls, lost>>

JobTrack(b) ==
  /\ job[b].pc = "track"
  /\ TrackExpiry(job[b].doc, b)
  /\ JobGoto(b, "done")
  /\ UNCHANGED <<rowVars, chase, blobs, minted, reqStatus, calls, lost>>

\* An answer that parses to something other than an object: `.get` raises.
JobGarbled(b) ==
  /\ job[b].pc = "track"
  /\ JobGoto(b, "fail")
  /\ UNCHANGED <<rowVars, deadlineVars, blobs, minted, reqStatus, calls, lost>>

\* The `except` of _analyze_later.
JobFail(b) ==
  /\ job[b].pc = "fail"
  /\ WriteAnalysis(job[b].doc, "failed", b)
  /\ JobGoto(b, "done")
  /\ UNCHANGED <<row, status, file, deadlineVars, blobs, minted, reqStatus, calls, lost>>

\* reanalyze: the same steps, awaited by the consultant, on the file the
\* snapshot named; an exception is the caller's.
ReanalyzeStart(c, d) ==
  /\ d \in Live /\ file[d] # NoFile
  /\ Start(c, "reanalyze", [Idle EXCEPT !.pc = "re_read", !.doc = d, !.old = file[d]])
  /\ UNCHANGED <<rowVars, deadlineVars, blobs, minted, reqStatus, job, lost>>

ReanalyzeRead(c) ==
  /\ calls[c].pc = "re_read"
  /\ IF calls[c].old \in blobs THEN Goto(c, "re_answer") ELSE End(c)
  /\ UNCHANGED <<rowVars, deadlineVars, blobs, minted, reqStatus, job, lost>>

ReanalyzeAnswer(c) ==
  /\ calls[c].pc = "re_answer"
  /\ WriteAnalysis(calls[c].doc, "read", calls[c].old)
  /\ Goto(c, "re_track")
  /\ UNCHANGED <<row, status, file, deadlineVars, blobs, minted, reqStatus, job, lost>>

ReanalyzeTrack(c) ==
  /\ calls[c].pc = "re_track"
  /\ TrackExpiry(calls[c].doc, calls[c].old) \/ UNCHANGED expiry
  /\ End(c)
  /\ UNCHANGED <<rowVars, chase, blobs, minted, reqStatus, job, lost>>

-----------------------------------------------------------------------------
\* delete_document: the consultant withdraws one requirement.

DeleteStart(c, d) ==
  /\ d \in Live /\ status[d] # "approved"
  /\ Start(c, "delete", [Idle EXCEPT !.pc = IF file[d] = NoFile THEN "de_row" ELSE "de_drop",
                                     !.doc = d, !.old = file[d]])
  /\ UNCHANGED <<rowVars, deadlineVars, blobs, minted, reqStatus, job, lost>>

DeleteDrop(c) ==
  /\ calls[c].pc = "de_drop"
  /\ blobs' = blobs \ {calls[c].old}
  /\ Goto(c, "de_row")
  /\ UNCHANGED <<rowVars, deadlineVars, minted, reqStatus, job, lost>>

DeleteRow(c) ==
  /\ calls[c].pc = "de_row"
  /\ row' = [row EXCEPT ![calls[c].doc] = "gone"]
  /\ Goto(c, "de_deadlines")
  /\ UNCHANGED <<status, file, analysis, deadlineVars, blobs, minted, reqStatus, job, lost>>

DeleteDeadlines(c) ==
  /\ calls[c].pc = "de_deadlines"
  /\ chase' = [chase EXCEPT ![calls[c].doc] = FALSE]
  /\ expiry' = [expiry EXCEPT ![calls[c].doc] = NoFile]
  /\ ToSync(c)
  /\ UNCHANGED <<rowVars, blobs, minted, reqStatus, job, lost>>

-----------------------------------------------------------------------------
\* request_documents: one more document on the checklist.

AskStart(c, d) ==
  /\ reqStatus # "deleted"
  /\ row[d] = "unborn" /\ \A o \in Calls : calls[o].doc # d
  /\ Start(c, "ask", [Idle EXCEPT !.pc = "as_insert", !.doc = d])
  /\ UNCHANGED <<rowVars, deadlineVars, blobs, minted, reqStatus, job, lost>>

AskInsert(c) ==
  /\ calls[c].pc = "as_insert"
  /\ row' = [row EXCEPT ![calls[c].doc] = "live"]
  /\ Goto(c, "as_deadline")
  /\ UNCHANGED <<status, file, analysis, deadlineVars, blobs, minted, reqStatus, job, lost>>

\* The due date is optional.
AskDeadline(c) ==
  /\ calls[c].pc = "as_deadline"
  /\ \E dated \in BOOLEAN : chase' = [chase EXCEPT ![calls[c].doc] = dated]
  /\ Goto(c, "as_status")
  /\ UNCHANGED <<rowVars, expiry, blobs, minted, reqStatus, job, lost>>

AskStatus(c) ==
  /\ calls[c].pc = "as_status"
  /\ SetRequest("waiting_for_client")
  /\ End(c)
  /\ UNCHANGED <<rowVars, deadlineVars, blobs, minted, job, lost>>

-----------------------------------------------------------------------------
\* delete_request: the request goes, with its documents and their files.

WithdrawStart(c) ==
  /\ reqStatus # "deleted"
  /\ Start(c, "withdraw", [Idle EXCEPT !.pc = "wd_find"])
  /\ UNCHANGED <<rowVars, deadlineVars, blobs, minted, reqStatus, job, lost>>

WithdrawFind(c) ==
  /\ calls[c].pc = "wd_find"
  /\ calls' = [calls EXCEPT ![c].drop = {file[d] : d \in Live} \ {NoFile}, ![c].pc = "wd_drop"]
  /\ UNCHANGED <<rowVars, deadlineVars, blobs, minted, reqStatus, job, lost>>

WithdrawDrop(c, b) ==
  /\ calls[c].pc = "wd_drop" /\ b \in calls[c].drop
  /\ blobs' = blobs \ {b}
  /\ calls' = [calls EXCEPT ![c].drop = calls[c].drop \ {b}]
  /\ UNCHANGED <<rowVars, deadlineVars, minted, reqStatus, job, lost>>

\* delete_many: whatever rows the request has by now, not those it read.
WithdrawRows(c) ==
  /\ calls[c].pc = "wd_drop" /\ calls[c].drop = {}
  /\ row' = [d \in Docs |-> IF row[d] = "live" THEN "gone" ELSE row[d]]
  /\ Goto(c, "wd_request")
  /\ UNCHANGED <<status, file, analysis, deadlineVars, blobs, minted, reqStatus, job, lost>>

WithdrawRequest(c) ==
  /\ calls[c].pc = "wd_request"
  /\ reqStatus' = "deleted"
  /\ End(c)
  /\ UNCHANGED <<rowVars, deadlineVars, blobs, minted, job, lost>>

-----------------------------------------------------------------------------
\* A worker dies: its calls and its analysis tasks are gone, and nothing
\* persisted says they were ever running.

CallCut(c) ==
  /\ MayCrash
  /\ calls[c].pc # "idle"
  /\ lost' = lost \cup Hands(c)
  /\ End(c)
  /\ UNCHANGED <<rowVars, deadlineVars, blobs, minted, reqStatus, job>>

JobCut(b) ==
  /\ MayCrash
  /\ job[b].pc \in {"read", "answer", "track", "fail"}
  /\ JobGoto(b, "dead")
  /\ UNCHANGED <<rowVars, deadlineVars, blobs, minted, reqStatus, calls, lost>>

-----------------------------------------------------------------------------
CallStep(c) ==
  \/ \E d \in Docs, b \in Blobs : UploadStart(c, d, b)
  \/ UploadDrop(c) \/ UploadSave(c) \/ UploadRefused(c) \/ UploadWrite(c) \/ UploadClear(c)
  \/ \E d \in Docs : ApproveStart(c, d)
  \/ \E d \in Docs : RejectStart(c, d)
  \/ ApproveWrite(c) \/ RejectWrite(c)
  \/ SyncTotal(c) \/ SyncApproved(c) \/ SyncAwaiting(c) \/ SyncWrite(c)
  \/ \E d \in Docs : ReanalyzeStart(c, d)
  \/ ReanalyzeRead(c) \/ ReanalyzeAnswer(c) \/ ReanalyzeTrack(c)
  \/ \E d \in Docs : DeleteStart(c, d)
  \/ DeleteDrop(c) \/ DeleteRow(c) \/ DeleteDeadlines(c)
  \/ \E d \in Docs : AskStart(c, d)
  \/ AskInsert(c) \/ AskDeadline(c) \/ AskStatus(c)
  \/ WithdrawStart(c) \/ WithdrawFind(c) \/ WithdrawRows(c) \/ WithdrawRequest(c)
  \/ \E b \in Blobs : WithdrawDrop(c, b)
  \/ CallCut(c)

JobStep(b) == JobRead(b) \/ JobAnswer(b) \/ JobTrack(b) \/ JobGarbled(b) \/ JobFail(b)

Next == (\E c \in Calls : CallStep(c)) \/ (\E b \in Blobs : JobStep(b) \/ JobCut(b))

Spec == Init /\ [][Next]_vars

\* The event loop runs every task that is ready, and the model client gives up
\* after a timeout of its own: a task that can move does, in the end.
FairSpec == Spec /\ \A b \in Blobs : WF_vars(JobStep(b))

-----------------------------------------------------------------------------
\* Types.
TypeOK ==
  /\ row \in [Docs -> {"unborn", "live", "gone"}]
  /\ status \in [Docs -> DocumentStatus]
  /\ file \in [Docs -> Blobs \cup {NoFile}]
  /\ analysis \in [Docs -> [state: AnalysisState, of: Blobs \cup {NoFile}]]
  /\ chase \in [Docs -> BOOLEAN]
  /\ expiry \in [Docs -> Blobs \cup {NoFile}]
  /\ blobs \subseteq Blobs
  /\ minted \subseteq Blobs
  /\ reqStatus \in RequestStatus
  /\ calls \in [Calls -> CallType]
  /\ job \in [Blobs -> JobType]
  /\ lost \subseteq Docs

\* Properties that hold whatever the calls in flight do.

\* A document that waits for the consultant, or that one approved, has a file
\* behind it: approve's check is on a snapshot and its write has no condition.
ReviewedHasFile ==
  \A d \in Docs : status[d] \in {"with_consultant", "approved"} => file[d] # NoFile

\* The row names a file GridFS no longer has.
Dangling(d) == row[d] = "live" /\ file[d] # NoFile /\ file[d] \notin blobs

\* The file a document names is in GridFS, except while a call that deleted it
\* has yet to repoint or delete the row, and after such a call was cut short
\* (upload deletes the old file before it knows the new one is acceptable).
FilesKept ==
  \A d \in Docs : Dangling(d) => d \in lost \/ \E c \in Calls : d \in Hands(c)

\* No two documents share a file, so deleting one never takes the other's.
FilesNotShared ==
  \A d, e \in Docs : file[d] = file[e] /\ file[d] # NoFile => d = e

\* What makes FilesKept inductive.  A file id known to a row or a call has been
\* drawn; a file on its way in is known to its own call alone; the file a call
\* read off a row is on that row or on none; a row not inserted yet has no file,
\* and is not one that a call deletes.
Storing(c) == calls[c].pc \in StoringPc

FilesDrawn ==
  /\ \A d \in Docs : file[d] # NoFile => file[d] \in minted
  /\ \A c \in Calls : /\ calls[c].old # NoFile => calls[c].old \in minted
                      /\ calls[c].drop \subseteq minted
                      /\ Storing(c) => calls[c].new \in minted

NewFilePrivate ==
  \A c \in Calls : Storing(c) =>
    /\ \A d \in Docs : file[d] # calls[c].new
    /\ \A o \in Calls : /\ calls[o].old # calls[c].new
                        /\ calls[c].new \notin calls[o].drop
                        /\ Storing(o) /\ o # c => calls[o].new # calls[c].new

NewFileSaved == \A c \in Calls : calls[c].pc = "up_write" => calls[c].new \in blobs

SnapshotOwn ==
  \A c \in Calls, d \in Docs :
    calls[c].old # NoFile /\ file[d] = calls[c].old => d = calls[c].doc

UnbornEmpty ==
  /\ \A d \in Docs : row[d] = "unborn" => file[d] = NoFile
  /\ \A c \in Calls : calls[c].pc = "as_insert" =>
       /\ calls[c].doc \in Docs /\ row[calls[c].doc] = "unborn"
       /\ \A o \in Calls : calls[o].pc = "as_insert" /\ o # c => calls[o].doc # calls[c].doc
  /\ \A c \in Calls : calls[c].pc \in {"de_drop", "de_row"} =>
       calls[c].doc \in Docs /\ row[calls[c].doc] # "unborn"

FileInv == FilesDrawn /\ NewFilePrivate /\ NewFileSaved /\ SnapshotOwn /\ UnbornEmpty
             /\ FilesNotShared /\ FilesKept

\* What makes ReviewedHasFile inductive: the snapshot an approval was checked on
\* had a file, and no call ever takes the file off a row.
ReviewInv ==
  /\ ReviewedHasFile
  /\ \A c \in Calls : calls[c].pc = "ap_write" =>
       calls[c].doc \in Docs /\ file[calls[c].doc] # NoFile

\* A document marked "analysing" gets its answer or its failure notice (or is
\* deleted first): the background task catches everything it can raise.
Analysing(d) == row[d] = "live" /\ analysis[d].state = "analysing"
AnalysisAnswered == \A d \in Docs : Analysing(d) ~> ~Analysing(d)

-----------------------------------------------------------------------------
\* Properties the serial server has (one call slot), and the concurrent one not.

Quiet == \A c \in Calls : calls[c].pc = "idle"

\* README: replacing an upload deletes the previous blob, so GridFS does not
\* accumulate orphans.
NoOrphans == Quiet => blobs \subseteq {file[d] : d \in Live}

\* What makes NoOrphans inductive, with one slot and no crash.  The document a
\* call works on stays; a file on its way out is on its row, and once deleted it
\* is not in the bucket; a file on its way in is in the bucket before its row.
OneCall == \A c, o \in Calls : c = o
Filing(c) == calls[c].pc \in {"up_drop", "up_save", "up_write", "de_drop", "de_row"}

SerialFiles ==
  /\ \A b \in blobs : \/ b \in {file[d] : d \in Live}
                      \/ \E c \in Calls : calls[c].pc = "up_write" /\ calls[c].new = b
  /\ \A c \in Calls :
       /\ Filing(c) => calls[c].doc \in Live
       /\ calls[c].pc \in {"up_drop", "de_drop"} => file[calls[c].doc] = calls[c].old
       /\ calls[c].pc \in {"up_save", "up_write", "de_row"} => file[calls[c].doc] \notin blobs
       /\ calls[c].pc = "wd_drop" => blobs \subseteq calls[c].drop

\* delete_document: an approved document is refused; and the file it was
\* approved on stays the file it has, until it is rejected or the whole
\* request is withdrawn.
ApprovedStands ==
  [][\A d \in Live : status[d] = "approved" =>
        /\ file'[d] = file[d]
        /\ row'[d] = "live" \/ \E c \in Calls : WithdrawRows(c)]_vars

\* What the request's status should say of its documents.
Derived == IF Live # {} /\ LiveWith("approved") = Live THEN "under_review"
           ELSE IF LiveWith("with_consultant") # {} THEN "documents_received"
           ELSE "waiting_for_client"

\* The request's status is derived from its documents.
StatusDerived == Quiet /\ reqStatus \in SyncStatus => reqStatus = Derived

\* What makes the serial server a ReviewDesk (ImplementsDesk), where no
\* document is asked for later: a call works on a document that stays and, to
\* replace or strike it, on one not approved; a deleted request has no documents
\* and no calls; a count under way is the count of the documents there are.
AllApproved == Live # {} /\ LiveWith("approved") = Live

SerialReview ==
  /\ reqStatus = "deleted" => Live = {}
  /\ \A c \in Calls :
       /\ calls[c].pc # "idle" => reqStatus # "deleted"
       /\ calls[c].pc \notin AskPc
       /\ Filing(c) \/ calls[c].pc \in DecidePc => calls[c].doc \in Live
       /\ Filing(c) => status[calls[c].doc] # "approved"
       /\ calls[c].pc = "sy_approved" => calls[c].total = Cardinality(Live)
       /\ calls[c].pc = "sy_awaiting" => calls[c].all = AllApproved
       /\ calls[c].pc = "sy_write" => calls[c].next = Derived
       /\ calls[c].pc = "wd_request" => Live = {}

-----------------------------------------------------------------------------
\* Claims of the code that a background analysis breaks.

\* upload: no verdict of a file is read as a verdict on the one replacing it.
VerdictOfCurrentFile ==
  \A d \in Live : analysis[d].state = "read" => analysis[d].of = file[d]

\* _track_expiry: a document whose analysis failed keeps no expiry date.  No run
\* checks it, and TLC refutes it for a replacement.
FailureDropsExpiry ==
  \A d \in Live : analysis[d].state = "failed" => expiry[d] = NoFile

Settled == Quiet /\ \A b \in Blobs : job[b].pc \in {"none", "done"}

\* delete_document: whatever it put on the worklist goes with it.  No run checks
\* it, and TLC refutes it: an analysis may end after the withdrawal.
DeadlinesGoWithDocument ==
  Settled => \A d \in Docs : row[d] = "gone" => ~chase[d] /\ expiry[d] = NoFile

-----------------------------------------------------------------------------
\* The refinement to the single steps of ReviewDesk.  An operation takes effect
\* when it writes the document row; the request's status follows some round trips
\* later, so until the call has written it the promised status is the one it is
\* about to count.

\* Some call has changed a row and has not yet settled the request's status.
Counting == \E c \in Calls : calls[c].pc \in {"up_clear", "de_deadlines"} \cup SyncPc

sheetBar == [d \in Docs |-> IF d \in Live THEN status[d] ELSE "absent"]
filedBar == [d \in Docs |-> d \in Live /\ file[d] # NoFile]
saidBar == IF \E c \in Calls : calls[c].pc = "wd_request" THEN "deleted"
           ELSE IF Counting THEN Derived ELSE reqStatus

Desk == INSTANCE ReviewDesk WITH sheet <- sheetBar, filed <- filedBar, said <- saidBar

\* One call at a time, every operation of the service is one step of the desk:
\* each status it reports is what the documents add up to, approval needs a file,
\* and an approved document is neither replaced nor struck.
ImplementsDesk == Desk!DeskSpec
=============================================================================
