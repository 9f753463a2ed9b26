------------------------------- MODULE CaseFile -------------------------------
(***************************************************************************)
(* A case while it is worked on: the stage it has reached with the owner's *)
(* deadline for it, the rounds with the authority, the intake form that    *)
(* the AI fills and people correct, the documents the last stage waits     *)
(* for, and the supporting files of the request it came from.              *)
(*                                                                         *)
(* Source: app/modules/cases/service.py and app/modules/requests/          *)
(* service.py.  One case and its request; how both come to exist is        *)
(* CaseOpening, what a review of a document does is DocumentReview.        *)
(* Progress, notices, the activity log and the wording are left out, and   *)
(* an answer is who gave it.                                               *)
(***************************************************************************)
EXTENDS Naturals, FiniteSets

CONSTANTS
  Last,          \* the stages of the case are 0..Last
  FilingStage, ResponseStage, \* government_submission and government_processing
  FixedLadder,   \* the case has no procedure, so no stages of its own
  Fields,        \* the fields of its intake form
  Docs,          \* the documents asked for
  Files,         \* blobs of supporting files
  Calls,
  Alone          \* the operations that run with no other call beside them

AllOps == {"advance", "authority", "fill", "field", "update", "attach", "detach", "show"}
Kinds == {"filing", "authority_response", "stage_deadline"}

\* What the constants satisfy: assumed wherever the module is instantiated.
CaseFileAssumption ==
  /\ Last \in Nat \ {0} /\ FilingStage \in Nat /\ ResponseStage \in Nat
  /\ FixedLadder \in BOOLEAN /\ Alone \subseteq AllOps

VARIABLES
  case,    \* its stage, and whether the stage was given a deadline
  dues,    \* the kinds of open deadline the calendar holds for it
  answers, \* answers[f]: whose answer field f holds
  docs,    \* docs[d]: not asked for, outstanding or approved, and bound to the case
  files,   \* the request's attached_files, the blobs stored, and, a history, those
           \* attached that a PATCH put back after they were taken off
  working  \* the calls in flight

cfvars == <<case, dues, answers, docs, files, working>>

Source == {"none", "ai", "client", "consultant"}
Pc == {"idle", "ad_write", "ad_clear", "ad_upsert", "au_upsert", "fi_write", "fd_write",
       "up_write", "at_push", "dt_pull", "dt_delete", "sh_stamp"}
CallType == [pc: Pc, op: AllOps, target: 0..Last, force: BOOLEAN, due: BOOLEAN,
             read: [Fields -> Source], field: SUBSET Fields, files: SUBSET Files,
             seen: SUBSET Docs]
Idle == [pc |-> "idle", op |-> "show", target |-> 0, force |-> FALSE, due |-> FALSE,
         read |-> [f \in Fields |-> "none"], field |-> {}, files |-> {}, seen |-> {}]

TypeOK ==
  /\ case \in [stage: 0..Last, due: BOOLEAN]
  /\ dues \subseteq Kinds
  /\ answers \in [Fields -> Source]
  /\ docs \in [Docs -> [status: {"absent", "outstanding", "approved"}, stamped: BOOLEAN]]
  /\ files \in [attached: SUBSET Files, stored: SUBSET Files, back: SUBSET Files]
  /\ working \in [Calls -> CallType]

Init ==
  /\ case = [stage |-> 0, due |-> FALSE]
  /\ dues = {}
  /\ answers = [f \in Fields |-> "none"]
  /\ docs = [d \in Docs |-> [status |-> "absent", stamped |-> FALSE]]
  /\ files = [attached |-> {}, stored |-> {}, back |-> {}]
  /\ working = [c \in Calls |-> Idle]

At(c, pc) == working[c].pc = pc
Goto(c, pc) == working' = [working EXCEPT ![c].pc = pc]
End(c) == working' = [working EXCEPT ![c] = Idle]
Beside(op) == \A o \in Calls : At(o, "idle") \/ (op \notin Alone /\ working[o].op \notin Alone)
Start(c, op, pc, call) ==
  /\ At(c, "idle") /\ Beside(op)
  /\ working' = [working EXCEPT ![c] = [call EXCEPT !.op = op, !.pc = pc]]

-----------------------------------------------------------------------------
Outstanding == {d \in Docs : docs[d].status = "outstanding"}

\* The last stage is refused while a required document is not approved, unless
\* the consultant says to close anyway.
MayEnter(target, force) == target = Last /\ ~force => Outstanding = {}

\* advance_stage: to the stage named, or to the next one.
AdvanceStart(c, target, named, force, due) ==
  /\ named \/ target = case.stage + 1
  /\ MayEnter(target, force)
  /\ Start(c, "advance", "ad_write", [Idle EXCEPT !.target = target, !.force = force, !.due = due])
  /\ UNCHANGED <<case, dues, answers, docs, files>>

AdvanceWrite(c) ==
  /\ At(c, "ad_write")
  /\ case' = [stage |-> working[c].target, due |-> working[c].due]
  /\ Goto(c, "ad_clear")
  /\ UNCHANGED <<dues, answers, docs, files>>

\* Mutant: a procedure's deadline is left on the calendar.
LeftNamed == {"filing", "authority_response"}

\* Whatever stage is left is no longer chased.
Left == {"filing", "authority_response", "stage_deadline"}

AdvanceClear(c) ==
  /\ At(c, "ad_clear")
  /\ dues' = dues \ Left
  /\ IF working[c].due THEN Goto(c, "ad_upsert") ELSE End(c)
  /\ UNCHANGED <<case, answers, docs, files>>

KindOf(stage) ==
  CASE FixedLadder /\ stage = FilingStage -> "filing"
    [] FixedLadder /\ stage = ResponseStage -> "authority_response"
    [] OTHER -> "stage_deadline"

AdvanceUpsert(c) ==
  /\ At(c, "ad_upsert")
  /\ dues' = dues \cup {KindOf(working[c].target)}
  /\ End(c)
  /\ UNCHANGED <<case, answers, docs, files>>

\* authority_request: the round is logged, and chased when it has a date.
AuthorityStart(c, due) ==
  /\ IF due THEN Start(c, "authority", "au_upsert", Idle)
            ELSE At(c, "idle") /\ UNCHANGED working
  /\ UNCHANGED <<case, dues, answers, docs, files>>

AuthorityUpsert(c) ==
  /\ At(c, "au_upsert")
  /\ dues' = dues \cup {"authority_response"}
  /\ End(c)
  /\ UNCHANGED <<case, answers, docs, files>>

-----------------------------------------------------------------------------
\* ai_fill_form: the answers are read, the AI is asked for as long as it takes,
\* and they are all written back.
FillStart(c) ==
  /\ Start(c, "fill", "fi_write", [Idle EXCEPT !.read = answers])
  /\ UNCHANGED <<case, dues, answers, docs, files>>

\* Mutant: only the consultant's answers are a person's.
FilledOverClient(read, guessed) ==
  [f \in Fields |-> IF f \in guessed /\ read[f] # "consultant" THEN "ai" ELSE read[f]]

Filled(read, guessed) ==
  [f \in Fields |-> IF f \in guessed /\ read[f] \notin {"consultant", "client"} THEN "ai" ELSE read[f]]

FillWrite(c, guessed) ==
  /\ At(c, "fi_write")
  /\ answers' = Filled(working[c].read, guessed)
  /\ End(c)
  /\ UNCHANGED <<case, dues, docs, files>>

\* update_form_field, by the client or the consultant: the same, for one field.
FieldStart(c, f) ==
  /\ Start(c, "field", "fd_write", [Idle EXCEPT !.read = answers, !.field = {f}])
  /\ UNCHANGED <<case, dues, answers, docs, files>>

FieldWrite(c, who) ==
  /\ At(c, "fd_write")
  /\ answers' = [f \in Fields |-> IF f \in working[c].field THEN who ELSE working[c].read[f]]
  /\ End(c)
  /\ UNCHANGED <<case, dues, docs, files>>

-----------------------------------------------------------------------------
\* get_request, and later update_request by whoever read: the list of files it
\* sends, what was read or part of it, replaces the one of that moment.
UpdateRead(c) ==
  /\ Start(c, "update", "up_write", [Idle EXCEPT !.files = files.attached])
  /\ UNCHANGED <<case, dues, answers, docs, files>>

UpdateWrite(c, sent) ==
  /\ At(c, "up_write") /\ sent \subseteq working[c].files
  /\ files' = [files EXCEPT !.attached = sent,
                             !.back = (@ \cap sent) \cup (sent \ files.attached)]
  /\ End(c)
  /\ UNCHANGED <<case, dues, answers, docs>>

\* A PATCH of anything else, or none.
UpdateElse(c) ==
  /\ At(c, "up_write")
  /\ End(c)
  /\ UNCHANGED <<case, dues, answers, docs, files>>

\* add_attachment: the blob, under an id nobody has seen, then its entry.
AttachSave(c, b) ==
  /\ b \notin files.stored \cup files.attached /\ \A o \in Calls : b \notin working[o].files
  /\ Start(c, "attach", "at_push", [Idle EXCEPT !.files = {b}])
  /\ files' = [files EXCEPT !.stored = @ \cup {b}]
  /\ UNCHANGED <<case, dues, answers, docs>>

AttachPush(c) ==
  /\ At(c, "at_push")
  /\ files' = [files EXCEPT !.attached = @ \cup working[c].files]
  /\ End(c)
  /\ UNCHANGED <<case, dues, answers, docs>>

\* remove_attachment: the entry, then the blob.
DetachStart(c, b) ==
  /\ b \in files.attached
  /\ Start(c, "detach", "dt_pull", [Idle EXCEPT !.files = {b}])
  /\ UNCHANGED <<case, dues, answers, docs, files>>

\* Mutant: the entry stays until the blob is gone.
PulledLate(c) == files.attached

Pulled(c) == files.attached \ working[c].files

DetachPull(c) ==
  /\ At(c, "dt_pull")
  /\ files' = [files EXCEPT !.attached = Pulled(c), !.back = @ \cap Pulled(c)]
  /\ Goto(c, "dt_delete")
  /\ UNCHANGED <<case, dues, answers, docs>>

DetachDelete(c) ==
  /\ At(c, "dt_delete")
  /\ files' = [files EXCEPT !.stored = @ \ working[c].files]
  /\ End(c)
  /\ UNCHANGED <<case, dues, answers, docs>>

-----------------------------------------------------------------------------
\* get_case: the documents of the case and of its request, and those that only
\* carry the request are bound to the case.
ShowRead(c) ==
  /\ Start(c, "show", "sh_stamp", [Idle EXCEPT !.seen =
             {d \in Docs : docs[d].status # "absent" /\ ~docs[d].stamped}])
  /\ UNCHANGED <<case, dues, answers, docs, files>>

ShowStamp(c) ==
  /\ At(c, "sh_stamp")
  /\ docs' = [d \in Docs |-> IF d \in working[c].seen /\ docs[d].status # "absent"
                             THEN [docs[d] EXCEPT !.stamped = TRUE] ELSE docs[d]]
  /\ End(c)
  /\ UNCHANGED <<case, dues, answers, files>>

\* A document is asked for, with or without the case, or reviewed, or withdrawn.
DocumentMoves(d, status, stamped) ==
  /\ docs[d].status # status
  /\ docs[d].status = "absent" => status = "outstanding"
  /\ docs' = [docs EXCEPT ![d] = [status |-> status,
                stamped |-> IF @.status = "absent" THEN stamped ELSE @.stamped /\ status # "absent"]]
  /\ UNCHANGED <<case, dues, answers, files, working>>

-----------------------------------------------------------------------------
Step(c) ==
  \/ \E t \in 0..Last, n, f, d \in BOOLEAN : AdvanceStart(c, t, n, f, d)
  \/ AdvanceWrite(c) \/ AdvanceClear(c) \/ AdvanceUpsert(c)
  \/ \E d \in BOOLEAN : AuthorityStart(c, d)
  \/ AuthorityUpsert(c) \/ FillStart(c) \/ UpdateRead(c) \/ UpdateElse(c)
  \/ \E sent \in SUBSET Files : UpdateWrite(c, sent)
  \/ \E g \in SUBSET Fields : FillWrite(c, g)
  \/ \E f \in Fields : FieldStart(c, f)
  \/ \E w \in {"client", "consultant"} : FieldWrite(c, w)
  \/ \E b \in Files : AttachSave(c, b) \/ DetachStart(c, b)
  \/ AttachPush(c) \/ DetachPull(c) \/ DetachDelete(c) \/ ShowRead(c) \/ ShowStamp(c)

Next ==
  \/ \E c \in Calls : Step(c)
  \/ \E d \in Docs, s \in {"absent", "outstanding", "approved"}, b \in BOOLEAN : DocumentMoves(d, s, b)

Spec == Init /\ [][Next]_cfvars

-----------------------------------------------------------------------------
\* What a person wrote in the form is never replaced by a guess, nor lost
\* (cases/service.py:478, "a person's own answer is never overwritten by a
\* guess").
KeepsAnswers ==
  \A f \in Fields : answers[f] \in {"client", "consultant"} => answers'[f] \in {"client", "consultant"}
AnswersKept == [][KeepsAnswers]_cfvars

\* With one advance at a time the calendar chases the stage the case is in, and
\* no stage it has left: the authority's own dates aside, it holds a deadline
\* exactly when that stage was given one (cases/service.py:386).
Chased == IF case.due THEN {KindOf(case.stage)} \ {"authority_response"} ELSE {}
StageChased ==
  (\A c \in Calls : working[c].op # "advance") => dues \ {"authority_response"} = Chased

\* A file the request lists can be opened, whatever is added and removed at the
\* same time, unless a PATCH put back the entry of one that was taken off since
\* its sender looked (requests/service.py:685, 637).
AttachmentsOpen == files.attached \ files.back \subseteq files.stored

\* Why all three hold, as an inductive invariant, when whoever writes back a stage
\* or a form runs alone: it still is what was read.  A list of files need not be.
RunsAlone == {"advance", "fill", "field"}
OpOf(pc) == CASE pc \in {"ad_write", "ad_clear", "ad_upsert"} -> "advance"
              [] pc = "au_upsert" -> "authority"
              [] pc = "fi_write" -> "fill"
              [] pc = "fd_write" -> "field"
              [] pc = "up_write" -> "update"
              [] pc = "at_push" -> "attach"
              [] pc \in {"dt_pull", "dt_delete"} -> "detach"
              [] OTHER -> "show"
CallInv(c) ==
  /\ working[c].op = OpOf(working[c].pc)
  /\ working[c].op \in RunsAlone => \A o \in Calls \ {c} : At(o, "idle")
  /\ At(c, "ad_write") => dues \ {"authority_response"} = Chased
  /\ At(c, "ad_clear") => case = [stage |-> working[c].target, due |-> working[c].due]
  /\ At(c, "ad_upsert") => case = [stage |-> working[c].target, due |-> TRUE] /\ dues = {}
  /\ At(c, "fi_write") \/ At(c, "fd_write") => working[c].read = answers
  /\ At(c, "at_push") =>
       /\ working[c].files \subseteq files.stored \ files.attached
       /\ \A o \in Calls \ {c} : working[o].files \cap working[c].files = {}
  /\ At(c, "dt_delete") => working[c].files \cap files.attached \subseteq files.back
FileInv == StageChased /\ AttachmentsOpen /\ \A c \in Calls : CallInv(c)
=============================================================================
