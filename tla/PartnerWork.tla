----------------------------- MODULE PartnerWork -----------------------------
(***************************************************************************)
(* Work handed to partners: the tasks of a client's cases, the files       *)
(* delivered on them, the documents rows that show each delivery on the    *)
(* case, the worklist row that chases a partner's task, and the right a    *)
(* task or a handed-over client gives a partner to review documents.       *)
(*                                                                         *)
(* Source: app/modules/tasks/service.py and router.py, generate_guidance   *)
(* in app/modules/cases/service.py, the access rules of                    *)
(* app/services/ownership.py, app/modules/deadlines/service.py and the     *)
(* review of one document in app/modules/documents/service.py.  One client *)
(* owns every case.  A file id is minted by GridFS and used once.          *)
(***************************************************************************)
EXTENDS Naturals, FiniteSets

CONSTANTS
  Tasks, Cases, Files, Partners,
  Client,     \* the client, who may be a task's assignee
  NoOne, NoTask, NoFile,
  Calls       \* slots for API calls in flight

Assignees == Partners \cup {Client}

\* What the constants satisfy: assumed wherever the module is instantiated.
PartnerWorkAssumption ==
  /\ Client \notin Partners /\ NoOne \notin Assignees
  /\ NoTask \notin Tasks /\ NoFile \notin Files

VARIABLES
  tasks,    \* tasks[t]: the row of task t
  entries,  \* entries[t]: the file ids in its deliverables
  blobs,    \* the ids stored in the deliverables bucket
  rows,     \* rows[f]: the documents row made when f was delivered
  chased,   \* chased[t]: the partner_task row of t on the worklist
  handed,   \* the partner the whole client is handed to
  calls     \* the calls in flight

vars == <<tasks, entries, blobs, rows, chased, handed, calls>>

TaskStatus == {"pending", "in_progress", "submitted", "completed", "cancelled"}
DocStatus == {"with_consultant", "approved", "needs_reupload"}
Verdicts == {"approved", "needs_reupload"}
Closed == {"completed", "cancelled"}

TaskType == [status: TaskStatus \cup {"unborn"}, who: Assignees, case: Cases]
RowType == [status: DocStatus \cup {"none"}, case: Cases]
Pc == {"idle", "cr_chase", "st_clear", "up_chase", "de_save", "de_push", "de_row",
       "rm_blob", "rm_pull", "rm_revert", "rv_write"}
\* What a call holds: its task and file, the verdict it gives, whether the
\* deliverable it removes is the last one it read.
CallType == [pc: Pc, task: Tasks \cup {NoTask}, file: Files \cup {NoFile},
             verdict: Verdicts, last: BOOLEAN]
Idle == [pc |-> "idle", task |-> NoTask, file |-> NoFile, verdict |-> "approved", last |-> FALSE]

TypeOK ==
  /\ tasks \in [Tasks -> TaskType]
  /\ entries \in [Tasks -> SUBSET Files]
  /\ blobs \subseteq Files
  /\ rows \in [Files -> RowType]
  /\ chased \in [Tasks -> {"none", "open", "dismissed"}]
  /\ handed \in Partners \cup {NoOne}
  /\ calls \in [Calls -> CallType]

Init ==
  /\ \E a \in Assignees, k \in Cases :
       tasks = [t \in Tasks |-> [status |-> "unborn", who |-> a, case |-> k]]
  /\ entries = [t \in Tasks |-> {}]
  /\ blobs = {}
  /\ \E k \in Cases : rows = [f \in Files |-> [status |-> "none", case |-> k]]
  /\ chased = [t \in Tasks |-> "none"]
  /\ handed = NoOne
  /\ calls = [c \in Calls |-> Idle]

Born(t) == tasks[t].status # "unborn"
At(c, pc) == calls[c].pc = pc
Goto(c, pc) == calls' = [calls EXCEPT ![c].pc = pc]
End(c) == calls' = [calls EXCEPT ![c] = Idle]

-----------------------------------------------------------------------------
\* The worklist: `upsert` opens the row again whatever became of it, `clear`
\* deletes it.  A date that was never set, or is patched to null, reaches
\* neither: the patch drops nulls before it looks.
Chase(t) == chased' = [chased EXCEPT ![t] = "open"]
Unchase(t) == chased' = [chased EXCEPT ![t] = "none"]

Dismiss(c, t) ==
  /\ At(c, "idle")
  /\ chased[t] # "none"
  /\ chased' = [chased EXCEPT ![t] = "dismissed"]
  /\ UNCHANGED <<tasks, entries, blobs, rows, handed, calls>>

-----------------------------------------------------------------------------
\* create_task: the row, then the partner's worklist row if a date was given.
CreateInsert(c, t, a, k, dated) ==
  /\ At(c, "idle")
  /\ ~Born(t)
  /\ tasks' = [tasks EXCEPT ![t] = [status |-> "pending", who |-> a, case |-> k]]
  /\ IF a \in Partners /\ dated
       THEN calls' = [calls EXCEPT ![c] = [Idle EXCEPT !.pc = "cr_chase", !.task = t]]
       ELSE UNCHANGED calls
  /\ UNCHANGED <<entries, blobs, rows, chased, handed>>

CreateChase(c) ==
  /\ At(c, "cr_chase")
  /\ Chase(calls[c].task)
  /\ End(c)
  /\ UNCHANGED <<tasks, entries, blobs, rows, handed>>

\* generate_guidance: the model's suggestions become tasks of the client.
Guide(c, t, k) ==
  /\ At(c, "idle")
  /\ ~Born(t)
  /\ tasks' = [tasks EXCEPT ![t] = [status |-> "pending", who |-> Client, case |-> k]]
  /\ UNCHANGED <<entries, blobs, rows, chased, handed, calls>>

\* update_task: any status and a date; only a partner's date goes further.
Patch(c, t, s, dated) ==
  /\ At(c, "idle")
  /\ Born(t)
  /\ tasks' = [tasks EXCEPT ![t].status = s]
  /\ IF dated /\ tasks[t].who \in Partners
       THEN calls' = [calls EXCEPT ![c] = [Idle EXCEPT !.pc = "up_chase", !.task = t]]
       ELSE UNCHANGED calls
  /\ UNCHANGED <<entries, blobs, rows, chased, handed>>

PatchChase(c) ==
  /\ At(c, "up_chase")
  /\ Chase(calls[c].task)
  /\ End(c)
  /\ UNCHANGED <<tasks, entries, blobs, rows, handed>>

\* set_status and mark_completed: the status, then the worklist when it closes.
WriteStatus(c, t, s) ==
  /\ Born(t)
  /\ tasks' = [tasks EXCEPT ![t].status = s]
  /\ IF s \in Closed
       THEN calls' = [calls EXCEPT ![c] = [Idle EXCEPT !.pc = "st_clear", !.task = t]]
       ELSE UNCHANGED calls
  /\ UNCHANGED <<entries, blobs, rows, chased, handed>>

SetStatus(c, t, s) == At(c, "idle") /\ WriteStatus(c, t, s)

MarkCompleted(c, t) ==
  /\ At(c, "idle")
  /\ tasks[t].who \in Partners
  /\ WriteStatus(c, t, "completed")

StatusClear(c) ==
  /\ At(c, "st_clear")
  /\ Unchase(calls[c].task)
  /\ End(c)
  /\ UNCHANGED <<tasks, entries, blobs, rows, handed>>

-----------------------------------------------------------------------------
\* add_deliverable: the blob, the entry with the status, the documents row.
Fresh(f) ==
  /\ f \notin blobs /\ rows[f].status = "none"
  /\ \A t \in Tasks : f \notin entries[t]
  /\ \A c \in Calls : calls[c].file # f

DeliverStart(c, t) ==
  /\ At(c, "idle")
  /\ Born(t)
  /\ calls' = [calls EXCEPT ![c] = [Idle EXCEPT !.pc = "de_save", !.task = t]]
  /\ UNCHANGED <<tasks, entries, blobs, rows, chased, handed>>

DeliverSave(c, f) ==
  /\ At(c, "de_save")
  /\ Fresh(f)
  /\ blobs' = blobs \cup {f}
  /\ calls' = [calls EXCEPT ![c].pc = "de_push", ![c].file = f]
  /\ UNCHANGED <<tasks, entries, rows, chased, handed>>

\* A type that is not allowed, a file too large or empty, a store that is down.
DeliverRefused(c) ==
  /\ At(c, "de_save")
  /\ End(c)
  /\ UNCHANGED <<tasks, entries, blobs, rows, chased, handed>>

DeliverPush(c) ==
  /\ At(c, "de_push")
  /\ LET t == calls[c].task IN
       /\ entries' = [entries EXCEPT ![t] = @ \cup {calls[c].file}]
       /\ tasks' = [tasks EXCEPT ![t].status = "submitted"]
  /\ Goto(c, "de_row")
  /\ UNCHANGED <<blobs, rows, chased, handed>>

DeliverRow(c) ==
  /\ At(c, "de_row")
  /\ rows' = [rows EXCEPT ![calls[c].file] =
                [status |-> "with_consultant", case |-> tasks[calls[c].task].case]]
  /\ End(c)
  /\ UNCHANGED <<tasks, entries, blobs, chased, handed>>

\* delete_deliverable: refused on a completed task; the blob, the entry, and
\* back to in_progress when the entry was the only one read at the start.
RemoveStart(c, t, f) ==
  /\ At(c, "idle")
  /\ Born(t) /\ tasks[t].who \in Partners
  /\ tasks[t].status # "completed"
  /\ f \in entries[t]
  /\ calls' = [calls EXCEPT ![c] = [Idle EXCEPT !.pc = "rm_blob", !.task = t, !.file = f,
                                      !.last = (entries[t] = {f})]]
  /\ UNCHANGED <<tasks, entries, blobs, rows, chased, handed>>

RemoveBlob(c) ==
  /\ At(c, "rm_blob")
  /\ blobs' = blobs \ {calls[c].file}
  /\ Goto(c, "rm_pull")
  /\ UNCHANGED <<tasks, entries, rows, chased, handed>>

RemovePull(c) ==
  /\ At(c, "rm_pull")
  /\ entries' = [entries EXCEPT ![calls[c].task] = @ \ {calls[c].file}]
  /\ IF calls[c].last THEN Goto(c, "rm_revert") ELSE End(c)
  /\ UNCHANGED <<tasks, blobs, rows, chased, handed>>

RemoveRevert(c) ==
  /\ At(c, "rm_revert")
  /\ tasks' = [tasks EXCEPT ![calls[c].task].status = "in_progress"]
  /\ End(c)
  /\ UNCHANGED <<entries, blobs, rows, chased, handed>>

-----------------------------------------------------------------------------
\* Who may act: the client handed over, or a task on the case not cancelled.
HoldsCase(p, k) == \E t \in Tasks : /\ Born(t) /\ tasks[t].status # "cancelled"
                                    /\ tasks[t].who = p /\ tasks[t].case = k

ClientAccess(p, k) == handed = p \/ HoldsCase(p, k)

Hand(c, p) ==
  /\ At(c, "idle")
  /\ handed' = p
  /\ UNCHANGED <<tasks, entries, blobs, rows, chased, calls>>

\* approve and reject of a delivered document: a consultant's (NoOne), or a
\* partner's who passes the rule as it reads.  The row is read here and written
\* by id, whatever became of the right meanwhile.
ReviewStart(c, f, p, v) ==
  /\ At(c, "idle")
  /\ rows[f].status # "none"
  /\ p # NoOne => ClientAccess(p, rows[f].case)
  /\ calls' = [calls EXCEPT ![c] = [Idle EXCEPT !.pc = "rv_write", !.file = f, !.verdict = v]]
  /\ UNCHANGED <<tasks, entries, blobs, rows, chased, handed>>

ReviewWrite(c) ==
  /\ At(c, "rv_write")
  /\ LET f == calls[c].file IN
       rows' = [rows EXCEPT ![f].status = IF @ = "none" THEN @ ELSE calls[c].verdict]
  /\ End(c)
  /\ UNCHANGED <<tasks, entries, blobs, chased, handed>>

\* Mutant: the blob is dropped from the bucket the row names.
DroppedByWithdrawNamed(f) == {f}

\* delete_document on the row: the blob it drops is looked for among the
\* client's documents, so the delivered file stays.
DroppedByWithdraw(f) == {}

Withdraw(c, f) ==
  /\ At(c, "idle")
  /\ rows[f].status \notin {"none", "approved"}
  /\ rows' = [rows EXCEPT ![f].status = "none"]
  /\ blobs' = blobs \ DroppedByWithdraw(f)
  /\ UNCHANGED <<tasks, entries, chased, handed, calls>>

-----------------------------------------------------------------------------
Step(c) ==
  \/ \E t \in Tasks, a \in Assignees, k \in Cases, d \in BOOLEAN : CreateInsert(c, t, a, k, d)
  \/ \E t \in Tasks, k \in Cases : Guide(c, t, k)
  \/ \E t \in Tasks, s \in TaskStatus, d \in BOOLEAN : Patch(c, t, s, d)
  \/ \E t \in Tasks, s \in TaskStatus : SetStatus(c, t, s)
  \/ \E t \in Tasks : MarkCompleted(c, t) \/ DeliverStart(c, t) \/ Dismiss(c, t)
  \/ CreateChase(c) \/ PatchChase(c) \/ StatusClear(c)
  \/ \E f \in Files : DeliverSave(c, f) \/ Withdraw(c, f)
  \/ DeliverRefused(c) \/ DeliverPush(c) \/ DeliverRow(c)
  \/ \E t \in Tasks, f \in Files : RemoveStart(c, t, f)
  \/ RemoveBlob(c) \/ RemovePull(c) \/ RemoveRevert(c)
  \/ \E p \in Partners \cup {NoOne} : Hand(c, p)
  \/ \E f \in Files, p \in Partners \cup {NoOne}, v \in Verdicts : ReviewStart(c, f, p, v)
  \/ ReviewWrite(c)

Next == \E c \in Calls : Step(c)
Spec == Init /\ [][Next]_vars

-----------------------------------------------------------------------------
\* A file a task lists as delivered is stored, or a call is removing it: no
\* other call takes the blob, whatever becomes of the documents row that
\* shares it (tasks/service.py:207).
DeliverableStored ==
  \A t \in Tasks : \A f \in entries[t] :
    f \in blobs \/ \E c \in Calls : At(c, "rm_pull") /\ calls[c].file = f

\* Why it holds, as an inductive invariant: a file is listed by one task; until
\* it is listed nothing can remove it; a call that removes it knows the one task
\* that lists it, and one that delivers it the task it is for.
HoldsFile(c) == calls[c].pc \in {"de_push", "rm_blob", "rm_pull"}
DeliverInv ==
  /\ DeliverableStored
  /\ \A t, u \in Tasks : entries[t] \cap entries[u] # {} => t = u
  /\ \A c \in Calls : At(c, "de_push") =>
       /\ calls[c].file \in blobs /\ \A t \in Tasks : calls[c].file \notin entries[t]
       /\ \A o \in Calls \ {c} : HoldsFile(o) => calls[o].file # calls[c].file
  /\ \A c \in Calls : calls[c].pc \in {"rm_blob", "rm_pull"} =>
       \A t \in Tasks : calls[c].file \in entries[t] => t = calls[c].task
  /\ \A c \in Calls : calls[c].pc \in {"de_save", "de_push", "de_row"} => calls[c].task \in Tasks

\* What documents/service.py:399 says of an approved document, "It is
\* evidence a decision was taken on", for the files partners deliver: an
\* approved one is still stored.  No run checks it, and TLC refutes it: the
\* blob is shared with the task's list, and delete_deliverable drops it
\* whatever became of the document (tasks/service.py:250).
EvidenceKept == \A f \in Files : rows[f].status = "approved" => f \in blobs
=============================================================================
