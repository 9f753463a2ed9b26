--------------------------- MODULE CaseworkProofs ---------------------------
(***************************************************************************)
(* Theorems about Casework, for any values of its constants.  XOK is the   *)
(* type invariant of the module at desk X with the invariants that make it *)
(* inductive, of the variables v1 to v7; XFacts takes it apart into        *)
(* predicates of those variables, XAgain puts it together again after a    *)
(* step, XInit and XStep are the two halves of its proof.  CaseOpening is  *)
(* proved once for whatever desk d keeps its assumptions.  The theorems    *)
(* about the desks are in the last section.                                *)
(***************************************************************************)
EXTENDS Casework, FiniteSetTheorems, WellFoundedInduction, TLAPS

-----------------------------------------------------------------------------
\* The case's own record: case, dues, answers, docs, files and working are v1 to
\* v6.
FileOK == File!TypeOK /\ File!FileInv

FileRow == [stage: 0..Last, due: BOOLEAN]
FileBlobs == [attached: SUBSET Attachments, stored: SUBSET Attachments, back: SUBSET Attachments]
PaperRow == [status: {"absent", "outstanding", "approved"}, stamped: BOOLEAN]
FileChased(row) == IF row.due THEN {File!KindOf(row.stage)} \ {"authority_response"} ELSE {}

\* What a call knows of the case, of the answers and of the files still is so.
FileFits(call, row, due, given, blobs) ==
  /\ call.op = File!OpOf(call.pc)
  /\ call.pc = "ad_write" => due \ {"authority_response"} = FileChased(row)
  /\ call.pc = "ad_clear" => row = [stage |-> call.target, due |-> call.due]
  /\ call.pc = "ad_upsert" => row = [stage |-> call.target, due |-> TRUE] /\ due = {}
  /\ call.pc = "fi_write" \/ call.pc = "fd_write" => call.read = given
  /\ call.pc = "at_push" => call.files \subseteq blobs.stored \ blobs.attached
  /\ call.pc = "dt_delete" => call.files \cap blobs.attached \subseteq blobs.back
FileLone(working) ==
  \A c \in Callers : working[c].op \in File!RunsAlone => \A o \in Callers \ {c} : working[o].pc = "idle"
FileApart(working) ==
  \A c \in Callers : working[c].pc = "at_push" =>
    \A o \in Callers \ {c} : working[o].files \cap working[c].files = {}
FileGood(row, due, blobs, working) ==
  /\ (\A c \in Callers : working[c].op # "advance") => due \ {"authority_response"} = FileChased(row)
  /\ blobs.attached \ blobs.back \subseteq blobs.stored

LEMMA FileFacts ==
  FileOK <=> /\ v1 \in FileRow /\ v2 \subseteq File!Kinds /\ v3 \in [Fields -> File!Source]
             /\ v4 \in [Papers -> PaperRow] /\ v5 \in FileBlobs /\ v6 \in [Callers -> File!CallType]
             /\ \A c \in Callers : FileFits(v6[c], v1, v2, v3, v5)
             /\ FileLone(v6) /\ FileApart(v6) /\ FileGood(v1, v2, v5, v6)
<1>1. File!TypeOK <=> /\ v1 \in FileRow /\ v2 \subseteq File!Kinds /\ v3 \in [Fields -> File!Source]
                      /\ v4 \in [Papers -> PaperRow] /\ v5 \in FileBlobs /\ v6 \in [Callers -> File!CallType]
  BY DEF File!TypeOK, FileRow, FileBlobs, PaperRow
<1>2. File!StageChased /\ File!AttachmentsOpen <=> FileGood(v1, v2, v5, v6)
  BY DEF File!StageChased, File!AttachmentsOpen, File!Chased, FileGood, FileChased
<1>3. ASSUME v5 \in FileBlobs, v6 \in [Callers -> File!CallType]
      PROVE  (\A c \in Callers : File!CallInv(c)) <=>
               (\A c \in Callers : FileFits(v6[c], v1, v2, v3, v5)) /\ FileLone(v6) /\ FileApart(v6)
  <2>1. ASSUME NEW c \in Callers
        PROVE  File!CallInv(c) <=>
                 /\ FileFits(v6[c], v1, v2, v3, v5)
                 /\ v6[c].op \in File!RunsAlone => \A o \in Callers \ {c} : v6[o].pc = "idle"
                 /\ v6[c].pc = "at_push" => \A o \in Callers \ {c} : v6[o].files \cap v6[c].files = {}
    BY DEF File!CallInv, File!At, File!Chased, FileFits, FileChased
  <2> QED BY <2>1 DEF FileLone, FileApart
<1> QED BY <1>1, <1>2, <1>3 DEF FileOK, File!FileInv

LEMMA FileAgain ==
  ASSUME v1' \in FileRow, v2' \subseteq File!Kinds, v3' \in [Fields -> File!Source],
         v4' \in [Papers -> PaperRow], v5' \in FileBlobs, v6' \in [Callers -> File!CallType],
         \A c \in Callers : FileFits(v6'[c], v1', v2', v3', v5'),
         FileLone(v6'), FileApart(v6'), FileGood(v1', v2', v5', v6')
  PROVE  FileOK'
<1>1. File!TypeOK'
  BY DEF File!TypeOK, FileRow, FileBlobs, PaperRow
<1>2. File!StageChased' /\ File!AttachmentsOpen'
  BY DEF File!StageChased, File!AttachmentsOpen, File!Chased, FileGood, FileChased
<1>3. ASSUME NEW c \in Callers PROVE File!CallInv(c)'
  <2>1. FileFits(v6'[c], v1', v2', v3', v5')
    OBVIOUS
  <2>2. v6'[c].op \in File!RunsAlone => \A o \in Callers \ {c} : v6'[o].pc = "idle"
    BY DEF FileLone
  <2>3. v6'[c].pc = "at_push" => \A o \in Callers \ {c} : v6'[o].files \cap v6'[c].files = {}
    BY DEF FileApart
  <2> QED BY <2>1, <2>2, <2>3 DEF File!CallInv, File!At, File!Chased, FileFits, FileChased
<1> QED BY <1>1, <1>2, <1>3 DEF FileOK, File!FileInv

LEMMA FileIdle == /\ File!Idle \in File!CallType /\ File!Idle.pc = "idle" /\ File!Idle.op = "show"
                  /\ File!Idle.files = {} /\ File!OpOf("idle") = "show" /\ "show" \notin File!RunsAlone
<1>1. 0 \in 0..Last
  BY DesksAssumption DEF File!CaseFileAssumption
<1>2. [f \in Fields |-> "none"] \in [Fields -> File!Source]
  BY DEF File!Source
<1>3. "idle" \in File!Pc /\ "show" \in File!AllOps
  BY DEF File!Pc, File!AllOps
<1>4. File!Idle \in File!CallType
  BY <1>1, <1>2, <1>3 DEF File!Idle, File!CallType
<1> QED BY <1>4 DEF File!Idle, File!OpOf, File!RunsAlone

\* An idle call knows nothing.
LEMMA FileFree ==
  ASSUME NEW call, call.pc = "idle", call.op = "show", NEW row, NEW due, NEW given, NEW blobs
  PROVE  FileFits(call, row, due, given, blobs)
  BY FileIdle DEF FileFits

LEMMA FileInit == File!Init => FileOK
<1> SUFFICES ASSUME File!Init PROVE FileOK
  OBVIOUS
<1>1. /\ v1 = [stage |-> 0, due |-> FALSE] /\ v2 = {} /\ v3 = [f \in Fields |-> "none"]
      /\ v4 = [d \in Papers |-> [status |-> "absent", stamped |-> FALSE]]
      /\ v5 = [attached |-> {}, stored |-> {}, back |-> {}] /\ v6 = [c \in Callers |-> File!Idle]
  BY DEF File!Init
<1>2. 0 \in 0..Last
  BY DesksAssumption DEF File!CaseFileAssumption
<1>3. /\ v1 \in FileRow /\ v2 \subseteq File!Kinds /\ v3 \in [Fields -> File!Source]
      /\ v4 \in [Papers -> PaperRow] /\ v5 \in FileBlobs
  BY <1>1, <1>2 DEF FileRow, PaperRow, FileBlobs, File!Source
<1>4. v6 \in [Callers -> File!CallType] /\ \A c \in Callers : v6[c] = File!Idle
  BY <1>1, FileIdle
<1>5. \A c \in Callers : FileFits(v6[c], v1, v2, v3, v5)
  BY <1>4, FileIdle, FileFree
<1>6. FileLone(v6) /\ FileApart(v6)
  BY <1>4, FileIdle DEF FileLone, FileApart
<1>7. FileGood(v1, v2, v5, v6)
  BY <1>1 DEF FileGood, FileChased
<1> QED BY <1>3, <1>4, <1>5, <1>6, <1>7, FileFacts

\* A call moves to rec, and what it writes is nothing another call relies on.
LEMMA FileMove ==
  ASSUME FileOK, NEW c \in Callers, NEW rec \in File!CallType, v6' = [v6 EXCEPT ![c] = rec],
         v1' \in FileRow, v2' \subseteq File!Kinds, v3' \in [Fields -> File!Source],
         v4' \in [Papers -> PaperRow], v5' \in FileBlobs,
         FileFits(rec, v1', v2', v3', v5'),
         \A o \in Callers \ {c} : FileFits(v6[o], v1', v2', v3', v5'),
         rec.op \in File!RunsAlone => \A o \in Callers \ {c} : v6[o].pc = "idle",
         \A o \in Callers \ {c} : v6[o].op \in File!RunsAlone => rec.pc = "idle",
         rec.pc = "at_push" => \A o \in Callers \ {c} : v6[o].files \cap rec.files = {},
         \A o \in Callers \ {c} : v6[o].pc = "at_push" => rec.files \cap v6[o].files = {},
         rec.op # "advance" /\ (\A o \in Callers \ {c} : v6[o].op # "advance") =>
           v2' \ {"authority_response"} = FileChased(v1'),
         v5'.attached \ v5'.back \subseteq v5'.stored
  PROVE  FileOK'
<1>1. /\ v6 \in [Callers -> File!CallType] /\ FileLone(v6) /\ FileApart(v6)
      /\ \A o \in Callers : FileFits(v6[o], v1, v2, v3, v5)
  BY FileFacts
<1>2. v6'[c] = rec /\ \A o \in Callers \ {c} : v6'[o] = v6[o]
  BY <1>1
<1>3. v6' \in [Callers -> File!CallType]
  BY <1>1
<1>4. \A o \in Callers : FileFits(v6'[o], v1', v2', v3', v5')
  BY <1>2
<1>5. FileLone(v6')
  <2> SUFFICES ASSUME NEW e \in Callers, v6'[e].op \in File!RunsAlone, NEW o \in Callers \ {e}
               PROVE  v6'[o].pc = "idle"
    BY DEF FileLone
  <2>1. CASE e = c
    BY <1>2, <2>1
  <2>2. CASE e # c /\ o = c
    BY <1>2, <2>2
  <2>3. CASE e # c /\ o # c
    BY <1>1, <1>2, <2>3 DEF FileLone
  <2> QED BY <2>1, <2>2, <2>3
<1>6. FileApart(v6')
  <2> SUFFICES ASSUME NEW e \in Callers, v6'[e].pc = "at_push", NEW o \in Callers \ {e}
               PROVE  v6'[o].files \cap v6'[e].files = {}
    BY DEF FileApart
  <2>1. CASE e = c
    BY <1>2, <2>1
  <2>2. CASE e # c /\ o = c
    BY <1>2, <2>2
  <2>3. CASE e # c /\ o # c
    BY <1>1, <1>2, <2>3 DEF FileApart
  <2> QED BY <2>1, <2>2, <2>3
<1>7. FileGood(v1', v2', v5', v6')
  BY <1>2 DEF FileGood
<1> QED BY <1>3, <1>4, <1>5, <1>6, <1>7, FileAgain

\* A call starts: nothing that runs alone is beside it, and nothing is if it does.
LEMMA FileStart ==
  ASSUME FileOK, NEW c \in Callers, NEW op \in File!AllOps, NEW pc \in File!Pc, NEW call \in File!CallType,
         File!Start(c, op, pc, call), UNCHANGED <<v1, v2, v3, v4, v5>>, File!OpOf(pc) = op, pc # "at_push",
         FileFits([call EXCEPT !.op = op, !.pc = pc], v1, v2, v3, v5), call.files \subseteq v5.attached
  PROVE  FileOK'
<1> DEFINE rec == [call EXCEPT !.op = op, !.pc = pc]
<1>1. /\ v1 \in FileRow /\ v2 \subseteq File!Kinds /\ v3 \in [Fields -> File!Source]
      /\ v4 \in [Papers -> PaperRow] /\ v5 \in FileBlobs /\ v6 \in [Callers -> File!CallType]
      /\ \A o \in Callers : FileFits(v6[o], v1, v2, v3, v5)
      /\ FileLone(v6) /\ FileApart(v6) /\ FileGood(v1, v2, v5, v6)
  BY FileFacts
<1>2. rec \in File!CallType /\ rec.op = op /\ rec.pc = pc
  BY DEF File!CallType
<1>3. /\ v6' = [v6 EXCEPT ![c] = rec] /\ v6[c].pc = "idle"
      /\ \A o \in Callers : v6[o].pc = "idle" \/ (op \notin File!RunsAlone /\ v6[o].op \notin File!RunsAlone)
  BY DEF File!Start, File!At, File!Beside, File!RunsAlone
<1>4. \A o \in Callers : v6[o].pc = "idle" => v6[o].op = "show"
  BY <1>1, FileIdle DEF FileFits
<1>5. \A o \in Callers \ {c} : v6[o].op \notin File!RunsAlone
  BY <1>3, <1>4, FileIdle
<1>6. \A o \in Callers \ {c} : rec.op \in File!RunsAlone => v6[o].pc = "idle"
  BY <1>2, <1>3
<1>7. rec.op # "advance" /\ (\A o \in Callers \ {c} : v6[o].op # "advance") =>
        v2' \ {"authority_response"} = FileChased(v1')
  BY <1>1, <1>3, <1>4 DEF FileGood
<1>8. FileFits(rec, v1', v2', v3', v5') /\ \A o \in Callers \ {c} : FileFits(v6[o], v1', v2', v3', v5')
  BY <1>1
<1>9. v5'.attached \ v5'.back \subseteq v5'.stored
  BY <1>1 DEF FileGood
<1>10. rec.pc # "at_push" /\ rec.files = call.files
  BY <1>2 DEF File!CallType
<1>11. \A o \in Callers \ {c} : v6[o].pc = "at_push" => rec.files \cap v6[o].files = {}
  BY <1>1, <1>10 DEF FileFits
<1>12. v1' \in FileRow /\ v2' \subseteq File!Kinds /\ v3' \in [Fields -> File!Source]
       /\ v4' \in [Papers -> PaperRow] /\ v5' \in FileBlobs
  BY <1>1
<1> HIDE DEF rec
<1> QED BY <1>2, <1>3, <1>5, <1>6, <1>7, <1>8, <1>9, <1>10, <1>11, <1>12, FileMove

\* What a call that runs beside others knows is only about files.
LEMMA FileLoose ==
  ASSUME NEW call, NEW row, NEW due, NEW given, NEW blobs, FileFits(call, row, due, given, blobs),
         call.op \notin File!RunsAlone, NEW row2, NEW due2, NEW given2, NEW blobs2,
         call.pc = "at_push" => call.files \subseteq blobs2.stored \ blobs2.attached,
         call.pc = "dt_delete" => call.files \cap blobs2.attached \subseteq blobs2.back
  PROVE  FileFits(call, row2, due2, given2, blobs2)
<1>1. call.op = File!OpOf(call.pc)
  BY DEF FileFits
<1>2. call.pc \notin {"ad_write", "ad_clear", "ad_upsert", "fi_write", "fd_write"}
  BY <1>1 DEF File!OpOf, File!RunsAlone
<1> QED BY <1>1, <1>2 DEF FileFits

\* A call in flight goes on to rec, or ends.
LEMMA FileBusy ==
  ASSUME FileOK, NEW c \in Callers, v6[c].pc # "idle", NEW rec \in File!CallType,
         v6' = [v6 EXCEPT ![c] = rec],
         v1' \in FileRow, v2' \subseteq File!Kinds, v3' \in [Fields -> File!Source],
         v4' \in [Papers -> PaperRow], v5' \in FileBlobs, v5'.attached \ v5'.back \subseteq v5'.stored,
         FileFits(rec, v1', v2', v3', v5'),
         rec = File!Idle \/ (rec.op = v6[c].op /\ rec.files = v6[c].files /\ rec.pc # "at_push"),
         rec.op # "advance" => v2' \ {"authority_response"} = FileChased(v1'),
         \A o \in Callers \ {c} : v6[o].pc = "at_push" => v6[o].files \subseteq v5'.stored \ v5'.attached,
         \A o \in Callers \ {c} : v6[o].pc = "dt_delete" => v6[o].files \cap v5'.attached \subseteq v5'.back
  PROVE  FileOK'
<1>1. /\ v6 \in [Callers -> File!CallType] /\ FileLone(v6) /\ FileApart(v6)
      /\ \A o \in Callers : FileFits(v6[o], v1, v2, v3, v5)
  BY FileFacts
<1>2. \A o \in Callers \ {c} : v6[o].op \notin File!RunsAlone
  BY <1>1 DEF FileLone
<1>3. \A o \in Callers \ {c} : FileFits(v6[o], v1', v2', v3', v5')
  BY <1>1, <1>2, FileLoose
<1>4. rec.op \in File!RunsAlone => \A o \in Callers \ {c} : v6[o].pc = "idle"
  BY <1>1, FileIdle DEF FileLone
<1>5. rec.pc # "at_push"
  BY FileIdle
<1>6. \A o \in Callers \ {c} : v6[o].pc = "at_push" => rec.files \cap v6[o].files = {}
  BY <1>1, FileIdle DEF FileApart
<1> QED BY <1>2, <1>3, <1>4, <1>5, <1>6, FileMove

LEMMA FileStep == FileOK /\ File!Next => FileOK'
<1> SUFFICES ASSUME FileOK, File!Next PROVE FileOK'
  OBVIOUS
<1>1. /\ v1 \in FileRow /\ v2 \subseteq File!Kinds /\ v3 \in [Fields -> File!Source]
      /\ v4 \in [Papers -> PaperRow] /\ v5 \in FileBlobs /\ v6 \in [Callers -> File!CallType]
      /\ \A o \in Callers : FileFits(v6[o], v1, v2, v3, v5)
      /\ FileLone(v6) /\ FileApart(v6) /\ FileGood(v1, v2, v5, v6)
  BY FileFacts
<1>2. /\ v5.attached \in SUBSET Attachments /\ v5.stored \in SUBSET Attachments /\ v5.back \in SUBSET Attachments
      /\ v5.attached \ v5.back \subseteq v5.stored
  BY <1>1 DEF FileBlobs, FileGood
<1>3. ASSUME NEW c \in Callers, v6[c].pc # "idle", v6[c].op # "advance"
      PROVE  v2 \ {"authority_response"} = FileChased(v1)
  <2>1. \A o \in Callers : v6[o].op # "advance"
    BY <1>1, <1>3 DEF FileLone, File!RunsAlone
  <2> QED BY <1>1, <2>1 DEF FileGood
<1>4. ASSUME NEW c \in Callers
      PROVE  /\ v6[c].op = File!OpOf(v6[c].pc) /\ v6[c] \in File!CallType
             /\ v6[c].target \in 0..Last /\ v6[c].due \in BOOLEAN /\ v6[c].files \in SUBSET Attachments
             /\ v6[c].read \in [Fields -> File!Source]
             /\ v6[c].pc = "at_push" => v6[c].files \subseteq v5.stored \ v5.attached
             /\ v6[c].pc = "dt_delete" => v6[c].files \cap v5.attached \subseteq v5.back
  BY <1>1 DEF FileFits, File!CallType
<1>5. \A row, due, given, blobs : FileFits(File!Idle, row, due, given, blobs)
  BY FileIdle, FileFree
<1>6. File!Idle.op # "advance"
  BY FileIdle
<1>10. ASSUME NEW c \in Callers, NEW t \in 0..Last, NEW n \in BOOLEAN, NEW f \in BOOLEAN, NEW d \in BOOLEAN,
              File!AdvanceStart(c, t, n, f, d)
       PROVE  FileOK'
  <2> DEFINE call == [File!Idle EXCEPT !.target = t, !.force = f, !.due = d]
  <2>1. File!Start(c, "advance", "ad_write", call) /\ UNCHANGED <<v1, v2, v3, v4, v5>>
    BY <1>10 DEF File!AdvanceStart
  <2>2. call \in File!CallType /\ call.files = {}
    BY FileIdle DEF File!CallType
  <2>3. /\ [call EXCEPT !.op = "advance", !.pc = "ad_write"].pc = "ad_write"
        /\ [call EXCEPT !.op = "advance", !.pc = "ad_write"].op = "advance"
    BY <2>2 DEF File!CallType
  <2>4. "advance" \in File!AllOps /\ "ad_write" \in File!Pc /\ File!OpOf("ad_write") = "advance"
    BY DEF File!AllOps, File!Pc, File!OpOf
  <2>5. \A o \in Callers : v6[o].op # "advance"
    <3>1. \A o \in Callers : v6[o].pc = "idle"
      BY <2>1 DEF File!Start, File!Beside, File!At
    <3> QED BY <3>1, <1>4, FileIdle
  <2>6. v2 \ {"authority_response"} = FileChased(v1)
    BY <1>1, <2>5 DEF FileGood
  <2>7. FileFits([call EXCEPT !.op = "advance", !.pc = "ad_write"], v1, v2, v3, v5)
    BY <2>3, <2>4, <2>6 DEF FileFits
  <2> HIDE DEF call
  <2> QED BY <2>1, <2>2, <2>4, <2>7, FileStart
<1>11. ASSUME NEW c \in Callers, File!AdvanceWrite(c) PROVE FileOK'
  <2> DEFINE rec == [v6[c] EXCEPT !.pc = "ad_clear"]
  <2>1. /\ v6' = [v6 EXCEPT ![c] = rec] /\ v6[c].pc = "ad_write" /\ UNCHANGED <<v2, v3, v4, v5>>
        /\ v1' = [stage |-> v6[c].target, due |-> v6[c].due]
    BY <1>1, <1>11 DEF File!AdvanceWrite, File!Goto, File!At
  <2>2. /\ rec \in File!CallType /\ rec.pc = "ad_clear" /\ rec.op = v6[c].op /\ rec.files = v6[c].files
        /\ rec.target = v6[c].target /\ rec.due = v6[c].due
    BY <1>4 DEF File!CallType, File!Pc
  <2>3. rec.op = "advance" /\ File!OpOf("ad_clear") = "advance"
    BY <1>4, <2>1, <2>2 DEF File!OpOf
  <2> HIDE DEF rec
  <2>4. FileFits(rec, v1', v2', v3', v5')
    BY <2>1, <2>2, <2>3 DEF FileFits
  <2>5. v1' \in FileRow
    BY <1>4, <2>1 DEF FileRow
  <2> QED BY <1>1, <1>2, <1>4, <2>1, <2>2, <2>3, <2>4, <2>5, FileBusy
<1>12. ASSUME NEW c \in Callers, File!AdvanceClear(c) PROVE FileOK'
  <2> DEFINE rec == [v6[c] EXCEPT !.pc = "ad_upsert"]
  <2>1. /\ v6' = [v6 EXCEPT ![c] = IF v6[c].due THEN rec ELSE File!Idle] /\ v6[c].pc = "ad_clear"
        /\ UNCHANGED <<v1, v3, v4, v5>> /\ v2' = v2 \ File!Left
    BY <1>1, <1>12 DEF File!AdvanceClear, File!Goto, File!End, File!At
  <2>2. v2' = {}
    BY <1>1, <2>1 DEF File!Left, File!Kinds
  <2>3. v1 = [stage |-> v6[c].target, due |-> v6[c].due]
    BY <1>1, <2>1 DEF FileFits
  <2>4. CASE v6[c].due
    <3>1. /\ rec \in File!CallType /\ rec.pc = "ad_upsert" /\ rec.op = v6[c].op /\ rec.files = v6[c].files
          /\ rec.target = v6[c].target
      BY <1>4 DEF File!CallType, File!Pc
    <3>2. rec.op = "advance" /\ File!OpOf("ad_upsert") = "advance"
      BY <1>4, <2>1, <3>1 DEF File!OpOf
    <3> HIDE DEF rec
    <3>3. v6[c].due = TRUE
      BY <1>4, <2>4
    <3>4. FileFits(rec, v1', v2', v3', v5')
      BY <2>1, <2>2, <2>3, <3>1, <3>2, <3>3 DEF FileFits
    <3>5. v6' = [v6 EXCEPT ![c] = rec]
      BY <2>1, <2>4
    <3> QED BY <1>1, <1>2, <1>4, <2>1, <2>2, <3>1, <3>2, <3>4, <3>5, FileBusy
  <2>5. CASE ~v6[c].due
    <3>1. FileChased(v1') = {}
      BY <2>1, <2>3, <2>5 DEF FileChased
    <3>2. v6' = [v6 EXCEPT ![c] = File!Idle]
      BY <2>1, <2>5
    <3> QED BY <1>1, <1>2, <1>4, <1>5, <2>1, <2>2, <3>1, <3>2, FileIdle, FileBusy
  <2> QED BY <2>4, <2>5
<1>13. ASSUME NEW c \in Callers, File!AdvanceUpsert(c) PROVE FileOK'
  <2>1. /\ v6' = [v6 EXCEPT ![c] = File!Idle] /\ v6[c].pc = "ad_upsert" /\ UNCHANGED <<v1, v3, v4, v5>>
        /\ v2' = v2 \cup {File!KindOf(v6[c].target)}
    BY <1>13 DEF File!AdvanceUpsert, File!End, File!At
  <2>2. v1 = [stage |-> v6[c].target, due |-> TRUE] /\ v2 = {}
    BY <1>1, <2>1 DEF FileFits
  <2>3. File!KindOf(v6[c].target) \in File!Kinds
    BY DEF File!KindOf, File!Kinds
  <2>4. v2' \ {"authority_response"} = FileChased(v1')
    BY <2>1, <2>2 DEF FileChased
  <2> QED BY <1>1, <1>2, <1>4, <1>5, <2>1, <2>2, <2>3, <2>4, FileIdle, FileBusy
<1>14. ASSUME NEW c \in Callers, NEW d \in BOOLEAN, File!AuthorityStart(c, d) PROVE FileOK'
  <2>1. CASE d
    <3>1. File!Start(c, "authority", "au_upsert", File!Idle) /\ UNCHANGED <<v1, v2, v3, v4, v5>>
      BY <1>14, <2>1 DEF File!AuthorityStart
    <3>2. "authority" \in File!AllOps /\ "au_upsert" \in File!Pc /\ File!OpOf("au_upsert") = "authority"
      BY DEF File!AllOps, File!Pc, File!OpOf
    <3>3. /\ [File!Idle EXCEPT !.op = "authority", !.pc = "au_upsert"].pc = "au_upsert"
          /\ [File!Idle EXCEPT !.op = "authority", !.pc = "au_upsert"].op = "authority"
      BY FileIdle DEF File!CallType
    <3>4. FileFits([File!Idle EXCEPT !.op = "authority", !.pc = "au_upsert"], v1, v2, v3, v5)
      BY <3>2, <3>3 DEF FileFits
    <3>5. File!Idle.files \subseteq v5.attached
      BY FileIdle
    <3> QED BY <3>1, <3>2, <3>4, <3>5, FileIdle, FileStart
  <2>2. CASE ~d
    <3>1. UNCHANGED <<v1, v2, v3, v4, v5, v6>>
      BY <1>14, <2>2 DEF File!AuthorityStart
    <3> QED BY <1>1, <3>1, FileAgain
  <2> QED BY <2>1, <2>2
<1>15. ASSUME NEW c \in Callers, File!AuthorityUpsert(c) PROVE FileOK'
  <2>1. /\ v6' = [v6 EXCEPT ![c] = File!Idle] /\ v6[c].pc = "au_upsert" /\ UNCHANGED <<v1, v3, v4, v5>>
        /\ v2' = v2 \cup {"authority_response"}
    BY <1>15 DEF File!AuthorityUpsert, File!End, File!At
  <2>2. v6[c].op # "advance"
    BY <1>4, <2>1 DEF File!OpOf
  <2>3. v2 \ {"authority_response"} = FileChased(v1)
    BY <1>3, <2>1, <2>2
  <2>4. v2' \ {"authority_response"} = FileChased(v1')
    BY <2>1, <2>3
  <2>5. v2' \subseteq File!Kinds
    BY <1>1, <2>1 DEF File!Kinds
  <2> QED BY <1>1, <1>2, <1>4, <1>5, <2>1, <2>4, <2>5, FileIdle, FileBusy
<1>16. ASSUME NEW c \in Callers, NEW op \in {"fill", "field"}, NEW pc \in {"fi_write", "fd_write"},
              NEW call \in File!CallType, File!Start(c, op, pc, call), File!OpOf(pc) = op, call.read = v3,
              call.files = {},
              UNCHANGED <<v1, v2, v3, v4, v5>>
       PROVE  FileOK'
  <2> DEFINE rec == [call EXCEPT !.op = op, !.pc = pc]
  <2>1. rec.op = op /\ rec.pc = pc /\ rec.read = call.read
    BY DEF File!CallType
  <2>2. op \in File!AllOps /\ pc \in File!Pc
    BY DEF File!AllOps, File!Pc
  <2>3. FileFits(rec, v1, v2, v3, v5)
    <3> HIDE DEF rec
    <3> QED BY <1>16, <2>1 DEF FileFits
  <2> QED BY <1>16, <2>2, <2>3, FileStart
<1>17. ASSUME NEW c \in Callers, File!FillStart(c) PROVE FileOK'
  <2> DEFINE call == [File!Idle EXCEPT !.read = v3]
  <2>1. File!Start(c, "fill", "fi_write", call) /\ UNCHANGED <<v1, v2, v3, v4, v5>>
    BY <1>17 DEF File!FillStart
  <2>2. call \in File!CallType /\ call.read = v3 /\ call.files = {}
    BY <1>1, FileIdle DEF File!CallType
  <2>3. File!OpOf("fi_write") = "fill"
    BY DEF File!OpOf
  <2> HIDE DEF call
  <2> QED BY <1>16, <2>1, <2>2, <2>3
<1>18. ASSUME NEW c \in Callers, NEW f \in Fields, File!FieldStart(c, f) PROVE FileOK'
  <2> DEFINE call == [File!Idle EXCEPT !.read = v3, !.field = {f}]
  <2>1. File!Start(c, "field", "fd_write", call) /\ UNCHANGED <<v1, v2, v3, v4, v5>>
    BY <1>18 DEF File!FieldStart
  <2>2. call \in File!CallType /\ call.read = v3 /\ call.files = {}
    BY <1>1, FileIdle DEF File!CallType
  <2>3. File!OpOf("fd_write") = "field"
    BY DEF File!OpOf
  <2> HIDE DEF call
  <2> QED BY <1>16, <2>1, <2>2, <2>3
<1>19. ASSUME NEW c \in Callers, v6[c].pc # "idle", v6[c].op # "advance",
              v6' = [v6 EXCEPT ![c] = File!Idle],
              UNCHANGED <<v1, v2>>, v3' \in [Fields -> File!Source], v4' \in [Papers -> PaperRow],
              v5' \in FileBlobs, v5'.attached \ v5'.back \subseteq v5'.stored,
              \A o \in Callers \ {c} : v6[o].pc = "at_push" => v6[o].files \subseteq v5'.stored \ v5'.attached,
              \A o \in Callers \ {c} : v6[o].pc = "dt_delete" => v6[o].files \cap v5'.attached \subseteq v5'.back
       PROVE  FileOK'
  <2>1. v2' \ {"authority_response"} = FileChased(v1')
    BY <1>3, <1>19
  <2> QED BY <1>1, <1>5, <1>19, <2>1, FileIdle, FileBusy
<1>20. ASSUME NEW c \in Callers, NEW g \in SUBSET Fields, File!FillWrite(c, g) PROVE FileOK'
  <2>1. /\ v6' = [v6 EXCEPT ![c] = File!Idle] /\ v6[c].pc = "fi_write" /\ UNCHANGED <<v1, v2, v4, v5>>
        /\ v3' = File!Filled(v6[c].read, g)
    BY <1>20 DEF File!FillWrite, File!End, File!At
  <2>2. v6[c].op # "advance"
    BY <1>4, <2>1 DEF File!OpOf
  <2>3. v3' \in [Fields -> File!Source]
    BY <1>4, <2>1 DEF File!Filled, File!Source
  <2> QED BY <1>1, <1>2, <1>4, <1>19, <2>1, <2>2, <2>3
<1>21. ASSUME NEW c \in Callers, NEW w \in {"client", "consultant"}, File!FieldWrite(c, w) PROVE FileOK'
  <2>1. /\ v6' = [v6 EXCEPT ![c] = File!Idle] /\ v6[c].pc = "fd_write" /\ UNCHANGED <<v1, v2, v4, v5>>
        /\ v3' = [f \in Fields |-> IF f \in v6[c].field THEN w ELSE v6[c].read[f]]
    BY <1>21 DEF File!FieldWrite, File!End, File!At
  <2>2. v6[c].op # "advance"
    BY <1>4, <2>1 DEF File!OpOf
  <2>3. v3' \in [Fields -> File!Source]
    BY <1>4, <2>1 DEF File!Source
  <2> QED BY <1>1, <1>2, <1>4, <1>19, <2>1, <2>2, <2>3
<1>22. ASSUME NEW c \in Callers, File!UpdateRead(c) PROVE FileOK'
  <2> DEFINE call == [File!Idle EXCEPT !.files = v5.attached]
             rec == [call EXCEPT !.op = "update", !.pc = "up_write"]
  <2>1. File!Start(c, "update", "up_write", call) /\ UNCHANGED <<v1, v2, v3, v4, v5>>
    BY <1>22 DEF File!UpdateRead
  <2>2. call \in File!CallType /\ call.files = v5.attached
    BY <1>2, FileIdle DEF File!CallType
  <2> HIDE DEF call
  <2>3. rec.op = "update" /\ rec.pc = "up_write" /\ rec.files = v5.attached
    BY <2>2 DEF File!CallType
  <2>4. "update" \in File!AllOps /\ "up_write" \in File!Pc /\ File!OpOf("up_write") = "update"
    BY DEF File!AllOps, File!Pc, File!OpOf
  <2>5. FileFits(rec, v1, v2, v3, v5)
    <3> HIDE DEF rec
    <3> QED BY <2>3, <2>4 DEF FileFits
  <2> QED BY <2>1, <2>2, <2>4, <2>5, FileStart
<1>23. ASSUME NEW c \in Callers, NEW sent \in SUBSET Attachments, File!UpdateWrite(c, sent) PROVE FileOK'
  <2>1. /\ v6' = [v6 EXCEPT ![c] = File!Idle] /\ v6[c].pc = "up_write" /\ UNCHANGED <<v1, v2, v3, v4>>
        /\ sent \subseteq v6[c].files
        /\ v5' = [v5 EXCEPT !.attached = sent, !.back = (v5.back \cap sent) \cup (sent \ v5.attached)]
    BY <1>1, <1>23 DEF File!UpdateWrite, File!End, File!At
  <2>2. /\ v5' \in FileBlobs /\ v5'.attached = sent /\ v5'.stored = v5.stored
        /\ v5'.back = (v5.back \cap sent) \cup (sent \ v5.attached)
    BY <1>1, <2>1 DEF FileBlobs
  <2>3. v5'.attached \ v5'.back \subseteq v5'.stored
    BY <1>2, <2>2
  <2>4. \A o \in Callers \ {c} : v6[o].pc = "at_push" => v6[o].files \subseteq v5'.stored \ v5'.attached
    <3> SUFFICES ASSUME NEW o \in Callers \ {c}, v6[o].pc = "at_push"
                 PROVE  v6[o].files \subseteq v5'.stored \ v5'.attached
      OBVIOUS
    <3>1. v6[c].files \cap v6[o].files = {}
      BY <1>1 DEF FileApart
    <3> QED BY <1>4, <2>1, <2>2, <3>1
  <2>5. \A o \in Callers \ {c} : v6[o].pc = "dt_delete" => v6[o].files \cap v5'.attached \subseteq v5'.back
    BY <1>4, <2>2
  <2>6. v6[c].op # "advance"
    BY <1>4, <2>1 DEF File!OpOf
  <2> QED BY <1>1, <1>19, <2>1, <2>2, <2>3, <2>4, <2>5, <2>6
<1>33. ASSUME NEW c \in Callers, File!UpdateElse(c) PROVE FileOK'
  <2>1. v6' = [v6 EXCEPT ![c] = File!Idle] /\ v6[c].pc = "up_write" /\ UNCHANGED <<v1, v2, v3, v4, v5>>
    BY <1>33 DEF File!UpdateElse, File!End, File!At
  <2>2. v6[c].op # "advance"
    BY <1>4, <2>1 DEF File!OpOf
  <2> QED BY <1>1, <1>2, <1>4, <1>19, <2>1, <2>2
<1>24. ASSUME NEW c \in Callers, NEW b \in Attachments, File!AttachSave(c, b) PROVE FileOK'
  <2> DEFINE call == [File!Idle EXCEPT !.files = {b}]
             rec == [call EXCEPT !.op = "attach", !.pc = "at_push"]
  <2>1. File!Start(c, "attach", "at_push", call) /\ UNCHANGED <<v1, v2, v3, v4>>
    BY <1>24 DEF File!AttachSave
  <2>2. /\ b \notin v5.stored /\ b \notin v5.attached /\ \A o \in Callers : b \notin v6[o].files
        /\ v5' = [v5 EXCEPT !.stored = @ \cup {b}]
    BY <1>24 DEF File!AttachSave
  <2>3. call \in File!CallType /\ call.files = {b}
    BY FileIdle DEF File!CallType
  <2> HIDE DEF call
  <2>4. "attach" \in File!AllOps /\ "at_push" \in File!Pc /\ File!OpOf("at_push") = "attach"
    BY DEF File!AllOps, File!Pc, File!OpOf
  <2>5. rec \in File!CallType /\ rec.op = "attach" /\ rec.pc = "at_push" /\ rec.files = {b}
    BY <2>3, <2>4 DEF File!CallType
  <2>6. v6' = [v6 EXCEPT ![c] = rec] /\ v6[c].pc = "idle"
    BY <2>1 DEF File!Start, File!At
  <2>7. \A o \in Callers : v6[o].op \notin File!RunsAlone
    <3>1. \A o \in Callers : v6[o].pc = "idle" \/ v6[o].op \notin File!RunsAlone
      BY <2>1 DEF File!Start, File!Beside, File!At, File!RunsAlone
    <3> QED BY <3>1, <1>4, FileIdle
  <2> HIDE DEF rec
  <2>8. /\ v5' \in FileBlobs /\ v5'.attached = v5.attached /\ v5'.stored = v5.stored \cup {b}
        /\ v5'.back = v5.back
    BY <1>1, <2>2 DEF FileBlobs
  <2>9. FileFits(rec, v1', v2', v3', v5')
    BY <1>2, <2>2, <2>4, <2>5, <2>8 DEF FileFits
  <2>10. \A o \in Callers \ {c} : FileFits(v6[o], v1', v2', v3', v5')
    <3> SUFFICES ASSUME NEW o \in Callers \ {c} PROVE FileFits(v6[o], v1', v2', v3', v5')
      OBVIOUS
    <3>1. v6[o].pc = "at_push" => v6[o].files \subseteq v5'.stored \ v5'.attached
      BY <1>4, <2>8
    <3>2. v6[o].pc = "dt_delete" => v6[o].files \cap v5'.attached \subseteq v5'.back
      BY <1>4, <2>8
    <3> QED BY <1>1, <2>7, <3>1, <3>2, FileLoose
  <2>11. \A o \in Callers : v6[o].op # "advance"
    BY <2>7 DEF File!RunsAlone
  <2>12. v2' \ {"authority_response"} = FileChased(v1')
    BY <1>1, <2>1, <2>11 DEF FileGood
  <2>13. \A o \in Callers : v6[o].files \cap rec.files = {} /\ rec.files \cap v6[o].files = {}
    BY <2>2, <2>5
  <2>14. rec.op \notin File!RunsAlone
    BY <2>5 DEF File!RunsAlone
  <2>15. v5'.attached \ v5'.back \subseteq v5'.stored
    BY <1>2, <2>8
  <2>16. v1' \in FileRow /\ v2' \subseteq File!Kinds /\ v3' \in [Fields -> File!Source] /\ v4' \in [Papers -> PaperRow]
    BY <1>1, <2>1
  <2>17. /\ rec.op \in File!RunsAlone => \A o \in Callers \ {c} : v6[o].pc = "idle"
         /\ \A o \in Callers \ {c} : v6[o].op \in File!RunsAlone => rec.pc = "idle"
         /\ rec.pc = "at_push" => \A o \in Callers \ {c} : v6[o].files \cap rec.files = {}
         /\ \A o \in Callers \ {c} : v6[o].pc = "at_push" => rec.files \cap v6[o].files = {}
         /\ v5' \in FileBlobs /\ rec \in File!CallType
    BY <2>5, <2>7, <2>8, <2>13, <2>14
  <2> QED BY <2>6, <2>9, <2>10, <2>12, <2>15, <2>16, <2>17, FileMove
<1>25. ASSUME NEW c \in Callers, File!AttachPush(c) PROVE FileOK'
  <2>1. /\ v6' = [v6 EXCEPT ![c] = File!Idle] /\ v6[c].pc = "at_push" /\ UNCHANGED <<v1, v2, v3, v4>>
        /\ v5' = [v5 EXCEPT !.attached = @ \cup v6[c].files]
    BY <1>25 DEF File!AttachPush, File!End, File!At
  <2>2. /\ v5' \in FileBlobs /\ v5'.attached = v5.attached \cup v6[c].files /\ v5'.stored = v5.stored
        /\ v5'.back = v5.back
    BY <1>1, <1>4, <2>1 DEF FileBlobs
  <2>3. v5'.attached \ v5'.back \subseteq v5'.stored
    BY <1>2, <1>4, <2>1, <2>2
  <2>4. \A o \in Callers \ {c} : v6[o].files \cap v6[c].files = {}
    BY <1>1, <2>1 DEF FileApart
  <2>5. \A o \in Callers \ {c} : v6[o].pc = "at_push" => v6[o].files \subseteq v5'.stored \ v5'.attached
    BY <1>4, <2>2, <2>4
  <2>6. \A o \in Callers \ {c} : v6[o].pc = "dt_delete" => v6[o].files \cap v5'.attached \subseteq v5'.back
    BY <1>4, <2>2, <2>4
  <2>7. v6[c].op # "advance"
    BY <1>4, <2>1 DEF File!OpOf
  <2> QED BY <1>1, <1>19, <2>1, <2>2, <2>3, <2>5, <2>6, <2>7
<1>26. ASSUME NEW c \in Callers, NEW b \in Attachments, File!DetachStart(c, b) PROVE FileOK'
  <2> DEFINE call == [File!Idle EXCEPT !.files = {b}]
             rec == [call EXCEPT !.op = "detach", !.pc = "dt_pull"]
  <2>1. File!Start(c, "detach", "dt_pull", call) /\ UNCHANGED <<v1, v2, v3, v4, v5>> /\ b \in v5.attached
    BY <1>26 DEF File!DetachStart
  <2>2. call \in File!CallType /\ call.files = {b}
    BY FileIdle DEF File!CallType
  <2> HIDE DEF call
  <2>3. rec.op = "detach" /\ rec.pc = "dt_pull"
    BY <2>2 DEF File!CallType
  <2>4. "detach" \in File!AllOps /\ "dt_pull" \in File!Pc /\ File!OpOf("dt_pull") = "detach"
    BY DEF File!AllOps, File!Pc, File!OpOf
  <2>5. FileFits(rec, v1, v2, v3, v5)
    <3> HIDE DEF rec
    <3> QED BY <2>3, <2>4 DEF FileFits
  <2> QED BY <2>1, <2>2, <2>4, <2>5, FileStart
<1>27. ASSUME NEW c \in Callers, File!DetachPull(c) PROVE FileOK'
  <2> DEFINE rec == [v6[c] EXCEPT !.pc = "dt_delete"]
  <2>1. /\ v6' = [v6 EXCEPT ![c] = rec] /\ v6[c].pc = "dt_pull" /\ UNCHANGED <<v1, v2, v3, v4>>
        /\ v5' = [v5 EXCEPT !.attached = v5.attached \ v6[c].files,
                            !.back = v5.back \cap (v5.attached \ v6[c].files)]
    BY <1>1, <1>27 DEF File!DetachPull, File!Pulled, File!Goto, File!At
  <2>2. /\ rec \in File!CallType /\ rec.pc = "dt_delete" /\ rec.op = v6[c].op /\ rec.files = v6[c].files
    BY <1>4 DEF File!CallType, File!Pc
  <2>3. rec.op = "detach" /\ File!OpOf("dt_delete") = "detach"
    BY <1>4, <2>1, <2>2 DEF File!OpOf
  <2> HIDE DEF rec
  <2>4. /\ v5' \in FileBlobs /\ v5'.attached = v5.attached \ v6[c].files /\ v5'.stored = v5.stored
        /\ v5'.back = v5.back \cap (v5.attached \ v6[c].files)
    BY <1>1, <2>1 DEF FileBlobs
  <2>5. FileFits(rec, v1', v2', v3', v5')
    BY <2>2, <2>3, <2>4 DEF FileFits
  <2>6. v5'.attached \ v5'.back \subseteq v5'.stored
    BY <1>2, <2>4
  <2>7. v2' \ {"authority_response"} = FileChased(v1')
    BY <1>3, <2>1, <2>2, <2>3
  <2>8. /\ \A o \in Callers \ {c} : v6[o].pc = "at_push" => v6[o].files \subseteq v5'.stored \ v5'.attached
        /\ \A o \in Callers \ {c} : v6[o].pc = "dt_delete" => v6[o].files \cap v5'.attached \subseteq v5'.back
    BY <1>4, <2>4
  <2> QED BY <1>1, <2>1, <2>2, <2>4, <2>5, <2>6, <2>7, <2>8, FileBusy
<1>28. ASSUME NEW c \in Callers, File!DetachDelete(c) PROVE FileOK'
  <2>1. /\ v6' = [v6 EXCEPT ![c] = File!Idle] /\ v6[c].pc = "dt_delete" /\ UNCHANGED <<v1, v2, v3, v4>>
        /\ v5' = [v5 EXCEPT !.stored = @ \ v6[c].files]
    BY <1>28 DEF File!DetachDelete, File!End, File!At
  <2>2. /\ v5' \in FileBlobs /\ v5'.attached = v5.attached /\ v5'.stored = v5.stored \ v6[c].files
        /\ v5'.back = v5.back
    BY <1>1, <2>1 DEF FileBlobs
  <2>3. v5'.attached \ v5'.back \subseteq v5'.stored
    BY <1>2, <1>4, <2>1, <2>2
  <2>4. \A o \in Callers \ {c} : v6[o].pc = "at_push" => v6[c].files \cap v6[o].files = {}
    BY <1>1 DEF FileApart
  <2>5. \A o \in Callers \ {c} : v6[o].pc = "at_push" => v6[o].files \subseteq v5'.stored \ v5'.attached
    BY <1>4, <2>2, <2>4
  <2>6. \A o \in Callers \ {c} : v6[o].pc = "dt_delete" => v6[o].files \cap v5'.attached \subseteq v5'.back
    BY <1>4, <2>2
  <2>7. v6[c].op # "advance"
    BY <1>4, <2>1 DEF File!OpOf
  <2> QED BY <1>1, <1>19, <2>1, <2>2, <2>3, <2>5, <2>6, <2>7
<1>29. ASSUME NEW c \in Callers, File!ShowRead(c) PROVE FileOK'
  <2> DEFINE call == [File!Idle EXCEPT !.seen = {d \in Papers : v4[d].status # "absent" /\ ~v4[d].stamped}]
             rec == [call EXCEPT !.op = "show", !.pc = "sh_stamp"]
  <2>1. File!Start(c, "show", "sh_stamp", call) /\ UNCHANGED <<v1, v2, v3, v4, v5>>
    BY <1>29 DEF File!ShowRead
  <2>2. call \in File!CallType /\ call.files = {}
    BY FileIdle DEF File!CallType
  <2> HIDE DEF call
  <2>3. rec.op = "show" /\ rec.pc = "sh_stamp"
    BY <2>2 DEF File!CallType
  <2>4. "show" \in File!AllOps /\ "sh_stamp" \in File!Pc /\ File!OpOf("sh_stamp") = "show"
    BY DEF File!AllOps, File!Pc, File!OpOf
  <2>5. FileFits(rec, v1, v2, v3, v5)
    <3> HIDE DEF rec
    <3> QED BY <2>3, <2>4 DEF FileFits
  <2> QED BY <2>1, <2>2, <2>4, <2>5, FileStart
<1>30. ASSUME NEW c \in Callers, File!ShowStamp(c) PROVE FileOK'
  <2>1. /\ v6' = [v6 EXCEPT ![c] = File!Idle] /\ v6[c].pc = "sh_stamp" /\ UNCHANGED <<v1, v2, v3, v5>>
        /\ v4' = [d \in Papers |-> IF d \in v6[c].seen /\ v4[d].status # "absent"
                                   THEN [v4[d] EXCEPT !.stamped = TRUE] ELSE v4[d]]
    BY <1>30 DEF File!ShowStamp, File!End, File!At
  <2>2. v4' \in [Papers -> PaperRow]
    BY <1>1, <2>1 DEF PaperRow
  <2>3. v6[c].op # "advance"
    BY <1>4, <2>1 DEF File!OpOf
  <2> QED BY <1>1, <1>2, <1>4, <1>19, <2>1, <2>2, <2>3
<1>31. ASSUME NEW d \in Papers, NEW s \in {"absent", "outstanding", "approved"}, NEW b \in BOOLEAN,
              File!DocumentMoves(d, s, b)
       PROVE  FileOK'
  <2>1. PICK stamp \in BOOLEAN : v4' = [v4 EXCEPT ![d] = [status |-> s, stamped |-> stamp]]
    <3> DEFINE was == v4[d]
               stamp == IF was.status = "absent" THEN b ELSE was.stamped /\ s # "absent"
    <3>1. v4[d] \in PaperRow
      BY <1>1
    <3>2. stamp \in BOOLEAN
      BY <3>1 DEF PaperRow
    <3>3. v4' = [v4 EXCEPT ![d] = [status |-> s, stamped |-> stamp]]
      BY <1>1, <1>31 DEF File!DocumentMoves
    <3> QED BY <3>2, <3>3
  <2>2. v4' \in [Papers -> PaperRow] /\ UNCHANGED <<v1, v2, v3, v5, v6>>
    BY <1>1, <1>31, <2>1 DEF PaperRow, File!DocumentMoves
  <2> QED BY <1>1, <2>2, FileAgain
<1>32. ASSUME NEW c \in Callers, File!Step(c) PROVE FileOK'
  BY <1>10, <1>11, <1>12, <1>13, <1>14, <1>15, <1>17, <1>18, <1>20, <1>21, <1>22, <1>23, <1>24, <1>25,
     <1>26, <1>27, <1>28, <1>29, <1>30, <1>32, <1>33 DEF File!Step
<1> QED BY <1>31, <1>32 DEF File!Next

LEMMA FileStay == FileOK /\ UNCHANGED <<v1, v2, v3, v4, v5, v6>> => FileOK'
  BY FileFacts, FileAgain

\* What a person wrote stays, in any step of the desk.
LEMMA FileAnswers == FileOK /\ File!Next => File!KeepsAnswers
<1> SUFFICES ASSUME FileOK, File!Next PROVE File!KeepsAnswers
  OBVIOUS
<1>1. /\ v3 \in [Fields -> File!Source] /\ v6 \in [Callers -> File!CallType]
      /\ \A o \in Callers : FileFits(v6[o], v1, v2, v3, v5)
  BY FileFacts
<1>2. v3' = v3 => File!KeepsAnswers
  BY DEF File!KeepsAnswers
<1>3. ASSUME NEW c \in Callers, NEW g \in SUBSET Fields, File!FillWrite(c, g) PROVE File!KeepsAnswers
  <2>1. v3' = File!Filled(v3, g)
    BY <1>1, <1>3 DEF File!FillWrite, File!At, FileFits
  <2> QED BY <2>1 DEF File!Filled, File!KeepsAnswers
<1>4. ASSUME NEW c \in Callers, NEW w \in {"client", "consultant"}, File!FieldWrite(c, w)
      PROVE File!KeepsAnswers
  <2>1. v3' = [f \in Fields |-> IF f \in v6[c].field THEN w ELSE v3[f]]
    BY <1>1, <1>4 DEF File!FieldWrite, File!At, FileFits
  <2> QED BY <2>1 DEF File!KeepsAnswers
<1>5. ASSUME NEW c \in Callers, File!Step(c) PROVE v3' = v3 \/ File!KeepsAnswers
  BY <1>3, <1>4, <1>5 DEF File!Step, File!AdvanceStart, File!AdvanceWrite, File!AdvanceClear,
     File!AdvanceUpsert,
     File!AuthorityStart, File!UpdateWrite, File!UpdateElse, File!AuthorityUpsert, File!FillStart, File!UpdateRead,
     File!FieldStart, File!AttachSave, File!DetachStart, File!AttachPush, File!DetachPull,
     File!DetachDelete, File!ShowRead, File!ShowStamp
<1>6. ASSUME NEW d \in Papers, NEW s \in {"absent", "outstanding", "approved"}, NEW b \in BOOLEAN,
             File!DocumentMoves(d, s, b)
      PROVE  v3' = v3
  BY <1>6 DEF File!DocumentMoves
<1> QED BY <1>2, <1>5, <1>6 DEF File!Next

-----------------------------------------------------------------------------
\* The catalogue: areas, hidden, unique, procedures, opened, seeded and reading
\* are v1 to v7.
AreasOK == Areas!TypeOK /\ Areas!CatalogueInv

Held(rows, k) == {n \in 1..MaxRows : rows[n] = k}
Twice(rows) == {n \in 1..MaxRows : rows[n] \in Keys /\ \E m \in Held(rows, rows[n]) : m < n}
AllHeld(rows) == \A k \in Defaults : Held(rows, k) # {}
Droppable(rows, n) == rows[n] = Nothing \/ n \in Twice(rows)

ReaderFits(call, rows, index, seeders) ==
  /\ call.pc = "clear" => \A n \in call.drop : Droppable(rows, n)
  /\ call.pc = "upsert" => index.areas /\ \A k \in Defaults \ call.todo : Held(rows, k) # {}
  /\ call.pc = "served" \/ call.worker \in seeders => index.areas /\ AllHeld(rows)
  /\ call.pc = "pr_insert" => Held(rows, call.row.area) # {} /\ call.row.area \in Keys
ProcedureFits(row, rows) == row # Areas!NoRow => row.area \in Keys /\ Held(rows, row.area) # {}
IndexFits(rows, index) == index.areas => Twice(rows) = {}

AreaRows == [1..MaxRows -> Keys \cup {Nobody, Nothing}]
IndexType == [areas: BOOLEAN, procedures: BOOLEAN]
CopyType == [procedure: Procedures \cup {Nobody}, edits: 0..MaxEdits]

LEMMA AreasFacts ==
  AreasOK <=> /\ v1 \in AreaRows /\ v2 \subseteq 1..MaxRows /\ v3 \in IndexType
              /\ v4 \in [Procedures -> Areas!ProcedureType] /\ v5 \in [Copies -> CopyType]
              /\ v6 \subseteq Workers /\ v7 \in [Readers -> Areas!ReaderType]
              /\ \A r \in Readers : ReaderFits(v7[r], v1, v3, v6)
              /\ \A p \in Procedures : ProcedureFits(v4[p], v1)
              /\ IndexFits(v1, v3)
<1>1. Areas!TypeOK <=> /\ v1 \in AreaRows /\ v2 \subseteq 1..MaxRows /\ v3 \in IndexType
                       /\ v4 \in [Procedures -> Areas!ProcedureType] /\ v5 \in [Copies -> CopyType]
                       /\ v6 \subseteq Workers /\ v7 \in [Readers -> Areas!ReaderType]
  BY DEF Areas!TypeOK, Areas!Rows, AreaRows, IndexType, CopyType
<1>2. Areas!Duplicates = Twice(v1) /\ \A k : Areas!RowsOf(k) = Held(v1, k)
  BY DEF Areas!Duplicates, Areas!RowsOf, Areas!Rows, Twice, Held
<1>3. (Areas!CatalogueInv) <=>
        /\ \A r \in Readers : ReaderFits(v7[r], v1, v3, v6)
        /\ \A p \in Procedures : ProcedureFits(v4[p], v1)
        /\ IndexFits(v1, v3)
  <2>1. \A r \in Readers : Areas!SeederInv(r) <=> ReaderFits(v7[r], v1, v3, v6)
    BY <1>2 DEF Areas!SeederInv, Areas!At, ReaderFits, AllHeld, Droppable
  <2> QED BY <1>2, <2>1 DEF Areas!CatalogueInv, ProcedureFits, IndexFits
<1> QED BY <1>1, <1>3 DEF AreasOK

LEMMA AreasAgain ==
  ASSUME v1' \in AreaRows, v2' \subseteq 1..MaxRows, v3' \in IndexType,
         v4' \in [Procedures -> Areas!ProcedureType], v5' \in [Copies -> CopyType],
         v6' \subseteq Workers, v7' \in [Readers -> Areas!ReaderType],
         \A r \in Readers : ReaderFits(v7'[r], v1', v3', v6'),
         \A p \in Procedures : ProcedureFits(v4'[p], v1'),
         IndexFits(v1', v3')
  PROVE  AreasOK'
<1>1. Areas!TypeOK'
  BY DEF Areas!TypeOK, Areas!Rows, AreaRows, IndexType, CopyType
<1>2. Areas!Duplicates' = Twice(v1') /\ \A k : Areas!RowsOf(k)' = Held(v1', k)
  BY DEF Areas!Duplicates, Areas!RowsOf, Areas!Rows, Twice, Held
<1>3. \A r \in Readers : Areas!SeederInv(r)'
  BY <1>2 DEF Areas!SeederInv, Areas!At, ReaderFits, AllHeld, Droppable
<1>4. Areas!CatalogueInv'
  BY <1>2, <1>3 DEF Areas!CatalogueInv, ProcedureFits, IndexFits
<1> QED BY <1>1, <1>4 DEF AreasOK

LEMMA AreasConstants ==
  /\ Defaults \subseteq Keys /\ Nobody \notin Keys /\ Nothing \notin Keys /\ Nobody # Nothing
  /\ MaxRows \in Nat /\ MaxEdits \in Nat /\ 0 \in 0..MaxEdits
  /\ Areas!NoRow \in Areas!ProcedureType /\ Areas!NoRow.area \notin Keys
<1>1. /\ Defaults \subseteq Keys /\ Nobody \notin Keys /\ Nothing \notin Keys /\ Nobody # Nothing
      /\ MaxRows \in Nat /\ MaxEdits \in Nat
  BY DesksAssumption DEF Areas!CatalogueAssumption
<1>2. 0 \in 0..MaxEdits
  BY <1>1
<1>3. Areas!NoRow \in Areas!ProcedureType /\ Areas!NoRow.area = Nobody
  BY <1>2 DEF Areas!NoRow, Areas!ProcedureType
<1> QED BY <1>1, <1>2, <1>3

\* A set of rows that is not empty has a first row.
LEMMA FirstRow == ASSUME NEW S \in SUBSET Nat, S # {} PROVE \E n \in S : \A m \in S : n <= m
<1> DEFINE R == {ss \in Nat \X Nat : ss[1] < ss[2]}
<1>1. IsWellFoundedOn(R, Nat)
  BY NatLessThanWellFounded DEF OpToRel
<1> HIDE DEF R
<1>2. PICK n \in S : \A m \in S : ~(<<m, n>> \in R)
  BY <1>1, WFMin
<1>3. \A m \in S : ~(m < n)
  BY <1>2 DEF R
<1> QED BY <1>3

LEMMA AreasNext == ASSUME Areas!Free # {} PROVE Areas!Next1 \in 1..MaxRows /\ v1[Areas!Next1] = Nobody
<1>1. Areas!Free \in SUBSET Nat
  BY AreasConstants DEF Areas!Free, Areas!Rows
<1>2. \E n \in Areas!Free : \A m \in Areas!Free : n <= m
  BY <1>1, FirstRow
<1>3. Areas!Next1 \in Areas!Free
  BY <1>2 DEF Areas!Next1
<1> QED BY <1>3 DEF Areas!Free, Areas!Rows

\* What the rows do to the requests in flight: no key loses its last row, and a
\* row a seeder may drop stays one it may drop.
Carried(rows, rows2) ==
  /\ \A k \in Keys : Held(rows, k) # {} => Held(rows2, k) # {}
  /\ \A n \in 1..MaxRows : Droppable(rows, n) => Droppable(rows2, n)

\* A row is inserted where none was.
LEMMA RowInserted ==
  ASSUME NEW rows \in AreaRows, NEW n \in 1..MaxRows, rows[n] = Nobody, NEW k \in Keys
  PROVE  LET rows2 == [rows EXCEPT ![n] = k] IN
         /\ rows2 \in AreaRows /\ Carried(rows, rows2) /\ Held(rows2, k) # {}
         /\ Held(rows, k) = {} /\ Twice(rows) = {} => Twice(rows2) = {}
<1> DEFINE rows2 == [rows EXCEPT ![n] = k]
<1>1. rows2 \in AreaRows /\ rows2[n] = k /\ \A m \in 1..MaxRows : m # n => rows2[m] = rows[m]
  BY DEF AreaRows
<1> HIDE DEF rows2
<1>2. \A j \in Keys : Held(rows, j) \subseteq Held(rows2, j)
  BY <1>1, AreasConstants DEF Held
<1>3. Held(rows2, k) # {}
  BY <1>1 DEF Held
<1>4. ASSUME NEW m \in 1..MaxRows, Droppable(rows, m) PROVE Droppable(rows2, m)
  <2>1. m # n
    BY <1>4, AreasConstants DEF Droppable, Twice
  <2>2. rows2[m] = rows[m]
    BY <1>1, <2>1
  <2>3. m \in Twice(rows) => m \in Twice(rows2)
    BY <1>2, <2>2 DEF Twice
  <2> QED BY <1>4, <2>2, <2>3 DEF Droppable
<1>5. Carried(rows, rows2)
  BY <1>2, <1>4 DEF Carried
<1>6. ASSUME Held(rows, k) = {}, Twice(rows) = {}, NEW m \in Twice(rows2) PROVE FALSE
  <2>1. PICK l \in Held(rows2, rows2[m]) : l < m
    BY <1>6 DEF Twice
  <2>2. m \in 1..MaxRows /\ l \in 1..MaxRows /\ rows2[l] = rows2[m] /\ l # m /\ rows2[m] \in Keys
    BY <1>6, <2>1, AreasConstants DEF Held, Twice
  <2>3. CASE rows2[m] = k
    <3>1. rows[m] = k \/ rows[l] = k
      BY <1>1, <2>2, <2>3
    <3> QED BY <1>6, <2>2, <3>1 DEF Held
  <2>4. CASE rows2[m] # k
    <3>1. rows[m] = rows2[m] /\ rows[l] = rows2[m]
      BY <1>1, <2>2, <2>4
    <3>2. m \in Twice(rows)
      BY <2>1, <2>2, <3>1 DEF Twice, Held
    <3> QED BY <1>6, <3>2
  <2> QED BY <2>3, <2>4
<1> QED BY <1>1, <1>3, <1>5, <1>6 DEF rows2

\* The rows a seeder drops go; the first row of each key stays.
LEMMA RowsDropped ==
  ASSUME NEW rows \in AreaRows, NEW gone \in SUBSET (1..MaxRows), \A n \in gone : Droppable(rows, n)
  PROVE  LET rows2 == [n \in 1..MaxRows |-> IF n \in gone THEN Nothing ELSE rows[n]] IN
         rows2 \in AreaRows /\ Carried(rows, rows2) /\ (Twice(rows) = {} => Twice(rows2) = {})
<1> DEFINE rows2 == [n \in 1..MaxRows |-> IF n \in gone THEN Nothing ELSE rows[n]]
<1>1. rows2 \in AreaRows /\ \A m \in 1..MaxRows : rows2[m] = IF m \in gone THEN Nothing ELSE rows[m]
  BY DEF AreaRows
<1> HIDE DEF rows2
<1>2. ASSUME NEW k \in Keys, Held(rows, k) # {}
      PROVE  \E n \in Held(rows, k) : n \in Held(rows2, k) /\ \A m \in Held(rows, k) : n <= m
  <2>1. Held(rows, k) \in SUBSET Nat
    BY AreasConstants DEF Held
  <2>2. PICK n \in Held(rows, k) : \A m \in Held(rows, k) : n <= m
    BY <1>2, <2>1, FirstRow
  <2>3. n \in 1..MaxRows /\ rows[n] = k
    BY <2>2 DEF Held
  <2>4. n \notin Twice(rows)
    <3> SUFFICES ASSUME n \in Twice(rows) PROVE FALSE
      OBVIOUS
    <3>1. PICK m \in Held(rows, k) : m < n
      BY <2>3 DEF Twice
    <3>2. n <= m /\ m \in Nat /\ n \in Nat
      BY <2>1, <2>2, <3>1
    <3> QED BY <3>1, <3>2
  <2>5. n \notin gone
    BY <2>3, <2>4, AreasConstants DEF Droppable
  <2>6. n \in Held(rows2, k)
    BY <1>1, <2>3, <2>5 DEF Held
  <2> QED BY <2>2, <2>6
<1>3. ASSUME NEW m \in 1..MaxRows, Droppable(rows, m) PROVE Droppable(rows2, m)
  <2>1. CASE m \in gone \/ rows[m] = Nothing
    BY <1>1, <2>1 DEF Droppable
  <2>2. CASE m \notin gone /\ rows[m] # Nothing
    <3>1. rows2[m] = rows[m] /\ m \in Twice(rows)
      BY <1>1, <1>3, <2>2 DEF Droppable
    <3>2. PICK l \in Held(rows, rows[m]) : l < m
      BY <3>1 DEF Twice
    <3>3. PICK n \in Held(rows2, rows[m]) : n <= l
      BY <1>2, <3>1, <3>2 DEF Twice
    <3>4. n \in Nat /\ l \in Nat /\ m \in Nat
      BY <3>2, <3>3, AreasConstants DEF Held
    <3>5. n < m
      BY <3>2, <3>3, <3>4
    <3>6. m \in Twice(rows2)
      BY <3>1, <3>3, <3>5 DEF Twice
    <3> QED BY <3>6 DEF Droppable
  <2> QED BY <2>1, <2>2
<1>4. Carried(rows, rows2)
  BY <1>2, <1>3 DEF Carried
<1>5. ASSUME Twice(rows) = {}, NEW m \in Twice(rows2) PROVE FALSE
  <2>1. PICK l \in Held(rows2, rows2[m]) : l < m
    BY <1>5 DEF Twice
  <2>2. m \in 1..MaxRows /\ l \in 1..MaxRows /\ rows2[l] = rows2[m] /\ rows2[m] \in Keys
    BY <1>5, <2>1 DEF Held, Twice
  <2>3. rows[m] = rows2[m] /\ rows[l] = rows2[m]
    BY <1>1, <2>2, AreasConstants
  <2>4. m \in Twice(rows)
    BY <2>1, <2>2, <2>3 DEF Twice, Held
  <2> QED BY <1>5, <2>4
<1> QED BY <1>1, <1>4, <1>5 DEF rows2

LEMMA ReaderCarried ==
  ASSUME NEW call \in Areas!ReaderType, NEW rows, NEW index, NEW seeders,
         ReaderFits(call, rows, index, seeders),
         NEW rows2, NEW index2, NEW seeders2, Carried(rows, rows2), index.areas => index2.areas,
         \A w \in seeders2 : w \in seeders \/ (index2.areas /\ AllHeld(rows2))
  PROVE  ReaderFits(call, rows2, index2, seeders2)
<1>1. call.drop \subseteq 1..MaxRows
  BY DEF Areas!ReaderType, Areas!Rows
<1>2. AllHeld(rows) => AllHeld(rows2)
  BY AreasConstants DEF AllHeld, Carried
<1>3. call.pc = "clear" => \A n \in call.drop : Droppable(rows2, n)
  BY <1>1 DEF ReaderFits, Carried
<1>4. call.pc = "upsert" => index2.areas /\ \A k \in Defaults \ call.todo : Held(rows2, k) # {}
  BY AreasConstants DEF ReaderFits, Carried
<1>5. call.pc = "served" \/ call.worker \in seeders2 => index2.areas /\ AllHeld(rows2)
  BY <1>2 DEF ReaderFits
<1>6. call.pc = "pr_insert" => Held(rows2, call.row.area) # {} /\ call.row.area \in Keys
  BY DEF ReaderFits, Carried
<1> QED BY <1>3, <1>4, <1>5, <1>6 DEF ReaderFits

\* A request moves to rec.
LEMMA AreasMove ==
  ASSUME AreasOK, NEW r \in Readers, NEW rec \in Areas!ReaderType, v7' = [v7 EXCEPT ![r] = rec],
         v1' \in AreaRows, v3' \in IndexType, v4' \in [Procedures -> Areas!ProcedureType],
         v6' \subseteq Workers,
         UNCHANGED <<v2, v5>>, Carried(v1, v1'), v3.areas => v3'.areas,
         \A w \in v6' : w \in v6 \/ (v3'.areas /\ AllHeld(v1')),
         ReaderFits(rec, v1', v3', v6'),
         \A p \in Procedures : v4'[p] = v4[p] \/ ProcedureFits(v4'[p], v1'),
         IndexFits(v1', v3')
  PROVE  AreasOK'
<1>1. /\ v2 \subseteq 1..MaxRows /\ v5 \in [Copies -> CopyType] /\ v7 \in [Readers -> Areas!ReaderType]
      /\ \A o \in Readers : ReaderFits(v7[o], v1, v3, v6)
      /\ \A p \in Procedures : ProcedureFits(v4[p], v1)
  BY AreasFacts
<1>2. v7'[r] = rec /\ \A o \in Readers \ {r} : v7'[o] = v7[o]
  BY <1>1
<1>3. v7' \in [Readers -> Areas!ReaderType]
  BY <1>1
<1>4. ASSUME NEW o \in Readers PROVE ReaderFits(v7'[o], v1', v3', v6')
  <2>1. CASE o = r
    BY <1>2, <2>1
  <2>2. CASE o # r
    <3>1. ReaderFits(v7[o], v1', v3', v6')
      BY <1>1, ReaderCarried
    <3> QED BY <1>2, <2>2, <3>1
  <2> QED BY <2>1, <2>2
<1>5. \A p \in Procedures : ProcedureFits(v4'[p], v1')
  BY <1>1 DEF ProcedureFits, Carried
<1> QED BY <1>1, <1>3, <1>4, <1>5, AreasAgain

\* Somebody works on the catalogue beside the requests that seed it.
LEMMA AreasBeside ==
  ASSUME AreasOK, UNCHANGED <<v1, v3, v6, v7>>, v2' \subseteq 1..MaxRows,
         v4' \in [Procedures -> Areas!ProcedureType], v5' \in [Copies -> CopyType],
         \A p \in Procedures : v4'[p] = v4[p] \/ ProcedureFits(v4'[p], v1)
  PROVE  AreasOK'
<1>1. /\ v1 \in AreaRows /\ v3 \in IndexType /\ v6 \subseteq Workers /\ v7 \in [Readers -> Areas!ReaderType]
      /\ \A o \in Readers : ReaderFits(v7[o], v1, v3, v6)
      /\ \A p \in Procedures : ProcedureFits(v4[p], v1)
      /\ IndexFits(v1, v3)
  BY AreasFacts
<1>2. \A p \in Procedures : ProcedureFits(v4'[p], v1')
  BY <1>1
<1> QED BY <1>1, <1>2, AreasAgain

LEMMA AreasInit == Areas!Init => AreasOK
<1> SUFFICES ASSUME Areas!Init PROVE AreasOK
  OBVIOUS
<1>1. /\ v2 = {} /\ v4 = [p \in Procedures |-> Areas!NoRow]
      /\ v5 = [c \in Copies |-> [procedure |-> Nobody, edits |-> 0]] /\ v6 = {}
      /\ v7 \in [Readers -> [pc: {"idle"}, worker: Workers, drop: {{}}, todo: {{}}, key: {Nobody}, row: {Areas!NoRow}]]
  BY DEF Areas!Init
<1>2. /\ v2 \subseteq 1..MaxRows /\ v4 \in [Procedures -> Areas!ProcedureType] /\ v5 \in [Copies -> CopyType]
      /\ v6 \subseteq Workers
  BY <1>1, AreasConstants DEF CopyType
<1>3. ASSUME NEW r \in Readers PROVE v7[r] \in Areas!ReaderType /\ v7[r].pc = "idle"
  BY <1>1, AreasConstants DEF Areas!ReaderType, Areas!Pc
<1>4. v7 \in [Readers -> Areas!ReaderType]
  BY <1>1, <1>3
<1>5. \A r \in Readers : ReaderFits(v7[r], v1, v3, v6)
  BY <1>1, <1>3 DEF ReaderFits
<1>6. \A p \in Procedures : ProcedureFits(v4[p], v1)
  BY <1>1 DEF ProcedureFits
<1>7. v1 \in AreaRows /\ v3 \in IndexType /\ IndexFits(v1, v3)
  <2>1. CASE v1 = [n \in 1..MaxRows |-> Nobody] /\ v3 \in IndexType
    <3>1. Twice(v1) = {}
      BY <2>1, AreasConstants DEF Twice
    <3> QED BY <2>1, <3>1 DEF AreaRows, IndexFits
  <2>2. CASE /\ \E k \in Defaults : v1 = [n \in 1..MaxRows |-> IF n <= 2 THEN k ELSE Nobody]
             /\ v3 = [areas |-> FALSE, procedures |-> FALSE]
    BY <2>2, AreasConstants DEF AreaRows, IndexType, IndexFits
  <2> QED BY <2>1, <2>2 DEF Areas!Init, Areas!Rows, IndexType
<1> QED BY <1>2, <1>4, <1>5, <1>6, <1>7, AreasFacts

LEMMA AreasStep == AreasOK /\ Areas!Next => AreasOK'
<1> SUFFICES ASSUME AreasOK, Areas!Next PROVE AreasOK'
  OBVIOUS
<1>1. /\ v1 \in AreaRows /\ v2 \subseteq 1..MaxRows /\ v3 \in IndexType
      /\ v4 \in [Procedures -> Areas!ProcedureType] /\ v5 \in [Copies -> CopyType]
      /\ v6 \subseteq Workers /\ v7 \in [Readers -> Areas!ReaderType]
      /\ \A r \in Readers : ReaderFits(v7[r], v1, v3, v6)
      /\ \A p \in Procedures : ProcedureFits(v4[p], v1)
      /\ IndexFits(v1, v3)
  BY AreasFacts
<1>2. \A k : Areas!RowsOf(k) = Held(v1, k)
  BY DEF Areas!RowsOf, Areas!Rows, Held
<1>3. Areas!Duplicates = Twice(v1)
  BY <1>2 DEF Areas!Duplicates, Areas!Rows, Twice
<1>4. Carried(v1, v1)
  BY DEF Carried
<1>5. ASSUME NEW r \in Readers
      PROVE  /\ v7[r] \in Areas!ReaderType /\ ReaderFits(v7[r], v1, v3, v6)
             /\ v7[r].worker \in Workers /\ v7[r].drop \in SUBSET (1..MaxRows) /\ v7[r].todo \in SUBSET Keys
             /\ v7[r].key \in Keys \cup {Nobody} /\ v7[r].row \in Areas!ProcedureType
  BY <1>1 DEF Areas!ReaderType, Areas!Rows
\* A request that only moves, with nothing new to know of the catalogue.
<1>6. ASSUME NEW r \in Readers, NEW rec \in Areas!ReaderType, v7' = [v7 EXCEPT ![r] = rec],
             ReaderFits(rec, v1, v3, v6), UNCHANGED <<v1, v2, v3, v4, v5, v6>>
      PROVE  AreasOK'
  BY <1>1, <1>4, <1>6, AreasMove
\* A request that ends.
<1>7. ASSUME NEW r \in Readers
      PROVE  LET rec == [v7[r] EXCEPT !.pc = "idle", !.drop = {}, !.todo = {}, !.key = Nobody, !.row = Areas!NoRow] IN
             /\ rec \in Areas!ReaderType /\ ReaderFits(rec, v1, v3, v6)
             /\ Areas!End(r) => v7' = [v7 EXCEPT ![r] = rec]
             /\ rec.pc = "idle" /\ rec.worker = v7[r].worker
  <2> DEFINE rec == [v7[r] EXCEPT !.pc = "idle", !.drop = {}, !.todo = {}, !.key = Nobody, !.row = Areas!NoRow]
  <2>1. rec \in Areas!ReaderType /\ rec.pc = "idle" /\ rec.worker = v7[r].worker
    BY <1>5, AreasConstants DEF Areas!ReaderType, Areas!Pc
  <2>2. Areas!End(r) => v7' = [v7 EXCEPT ![r] = rec]
    BY <1>1 DEF Areas!End
  <2> HIDE DEF rec
  <2>3. ReaderFits(rec, v1, v3, v6)
    BY <1>5, <2>1 DEF ReaderFits
  <2> QED BY <2>1, <2>2, <2>3 DEF rec

<1>10. ASSUME NEW r \in Readers, Areas!Ask(r) PROVE AreasOK'
  <2> DEFINE to == IF v7[r].worker \in v6 THEN "served" ELSE "scan"
             rec == [v7[r] EXCEPT !.pc = to]
  <2>1. v7' = [v7 EXCEPT ![r] = rec] /\ UNCHANGED <<v1, v2, v3, v4, v5, v6>>
    BY <1>1, <1>10 DEF Areas!Ask, Areas!Goto
  <2>2. to \in {"served", "scan"} /\ to \in Areas!Pc /\ (to = "served" => v7[r].worker \in v6)
    BY DEF Areas!Pc
  <2> HIDE DEF to
  <2>3. rec \in Areas!ReaderType /\ rec.pc = to /\ rec.worker = v7[r].worker
    BY <1>5, <2>2 DEF Areas!ReaderType
  <2> HIDE DEF rec
  <2>4. ReaderFits(rec, v1, v3, v6)
    BY <1>5, <2>2, <2>3 DEF ReaderFits
  <2> QED BY <1>6, <2>1, <2>3, <2>4
<1>11. ASSUME NEW r \in Readers, Areas!Scan(r) PROVE AreasOK'
  <2> DEFINE rec == [v7[r] EXCEPT !.pc = "clear", !.drop = Twice(v1)]
  <2>1. v7' = [v7 EXCEPT ![r] = rec] /\ UNCHANGED <<v1, v2, v3, v4, v5, v6>>
    BY <1>1, <1>3, <1>11 DEF Areas!Scan
  <2>2. Twice(v1) \in SUBSET Areas!Rows
    BY DEF Twice, Areas!Rows
  <2>3. rec \in Areas!ReaderType /\ rec.pc = "clear" /\ rec.worker = v7[r].worker /\ rec.drop = Twice(v1)
    BY <1>5, <2>2 DEF Areas!ReaderType, Areas!Pc
  <2> HIDE DEF rec
  <2>4. ReaderFits(rec, v1, v3, v6)
    BY <1>5, <2>3 DEF ReaderFits, Droppable
  <2> QED BY <1>6, <2>1, <2>3, <2>4
<1>12. ASSUME NEW r \in Readers, Areas!Clear(r) PROVE AreasOK'
  <2> DEFINE rec == [v7[r] EXCEPT !.pc = "index"]
  <2>1. /\ v7' = [v7 EXCEPT ![r] = rec] /\ UNCHANGED <<v2, v3, v4, v5, v6>> /\ v7[r].pc = "clear"
        /\ v1' = [n \in 1..MaxRows |-> IF n \in v7[r].drop THEN Nothing ELSE v1[n]]
    BY <1>1, <1>12 DEF Areas!Clear, Areas!Goto, Areas!At, Areas!Rows
  <2>2. rec \in Areas!ReaderType /\ rec.pc = "index" /\ rec.worker = v7[r].worker
    BY <1>5 DEF Areas!ReaderType, Areas!Pc
  <2> HIDE DEF rec
  <2>3. \A n \in v7[r].drop : Droppable(v1, n)
    BY <1>5, <2>1 DEF ReaderFits
  <2>4. v1' \in AreaRows /\ Carried(v1, v1') /\ (Twice(v1) = {} => Twice(v1') = {})
    BY <1>1, <1>5, <2>1, <2>3, RowsDropped
  <2>5. ReaderFits(v7[r], v1', v3', v6')
    BY <1>5, <2>1, <2>4, ReaderCarried
  <2>6. ReaderFits(rec, v1', v3', v6')
    BY <2>2, <2>5 DEF ReaderFits
  <2>7. IndexFits(v1', v3')
    BY <1>1, <2>1, <2>4 DEF IndexFits
  <2>8. v3' \in IndexType /\ v4' \in [Procedures -> Areas!ProcedureType] /\ v6' \subseteq Workers
    BY <1>1, <2>1
  <2> QED BY <2>1, <2>2, <2>4, <2>6, <2>7, <2>8, AreasMove
<1>13. ASSUME NEW r \in Readers, Areas!Index(r) PROVE AreasOK'
  <2>1. CASE Areas!End(r) /\ UNCHANGED v3
    <3>1. UNCHANGED <<v1, v2, v3, v4, v5, v6>>
      BY <1>13, <2>1 DEF Areas!Index
    <3> QED BY <1>6, <1>7, <2>1, <3>1
  <2>2. CASE /\ Twice(v1) = {} \/ v3.areas
             /\ v3' = [areas |-> TRUE, procedures |-> TRUE]
             /\ v7' = [v7 EXCEPT ![r].pc = "upsert", ![r].todo = Defaults]
    <3> DEFINE rec == [v7[r] EXCEPT !.pc = "upsert", !.todo = Defaults]
    <3>1. v7' = [v7 EXCEPT ![r] = rec] /\ UNCHANGED <<v1, v2, v4, v5, v6>>
      BY <1>1, <1>13, <2>2 DEF Areas!Index
    <3>2. rec \in Areas!ReaderType /\ rec.pc = "upsert" /\ rec.worker = v7[r].worker /\ rec.todo = Defaults
      BY <1>5, AreasConstants DEF Areas!ReaderType, Areas!Pc
    <3> HIDE DEF rec
    <3>3. v3'.areas /\ v3' \in IndexType
      BY <2>2 DEF IndexType
    <3>4. ReaderFits(v7[r], v1, v3', v6)
      BY <1>4, <1>5, <3>3, ReaderCarried
    <3>5. ReaderFits(rec, v1', v3', v6')
      BY <3>1, <3>2, <3>3, <3>4 DEF ReaderFits
    <3>6. IndexFits(v1', v3')
      BY <1>1, <2>2, <3>1 DEF IndexFits
    <3> QED BY <1>1, <1>4, <3>1, <3>2, <3>3, <3>5, <3>6, AreasMove
  <2> QED BY <1>3, <1>13, <2>1, <2>2 DEF Areas!Index
<1>14. ASSUME NEW r \in Readers, NEW k \in Keys, Areas!Upsert(r, k) PROVE AreasOK'
  <2> DEFINE rec == [v7[r] EXCEPT !.todo = v7[r].todo \ {k}]
  <2>1. /\ v7' = [v7 EXCEPT ![r] = rec] /\ UNCHANGED <<v2, v3, v4, v5, v6>>
        /\ v7[r].pc = "upsert" /\ k \in v7[r].todo
        /\ v1' = IF Held(v1, k) = {} THEN [v1 EXCEPT ![Areas!Next1] = k] ELSE v1
        /\ Held(v1, k) = {} => Areas!Free # {}
    BY <1>1, <1>2, <1>14 DEF Areas!Upsert, Areas!At
  <2>2. /\ rec \in Areas!ReaderType /\ rec.pc = "upsert" /\ rec.worker = v7[r].worker
        /\ rec.todo = v7[r].todo \ {k}
    BY <1>5, <2>1 DEF Areas!ReaderType
  <2> HIDE DEF rec
  <2>3. v3.areas /\ Twice(v1) = {}
    BY <1>1, <1>5, <2>1 DEF ReaderFits, IndexFits
  <2>4. v1' \in AreaRows /\ Carried(v1, v1') /\ Held(v1', k) # {} /\ Twice(v1') = {}
    <3>1. CASE Held(v1, k) = {}
      <4>1. Areas!Next1 \in 1..MaxRows /\ v1[Areas!Next1] = Nobody
        BY <2>1, <3>1, AreasNext
      <4> QED BY <1>1, <2>1, <2>3, <3>1, <4>1, RowInserted
    <3>2. CASE Held(v1, k) # {}
      BY <1>1, <1>4, <2>1, <2>3, <3>2
    <3> QED BY <3>1, <3>2
  <2>5. ReaderFits(v7[r], v1', v3', v6')
    BY <1>5, <2>1, <2>4, ReaderCarried
  <2>6. ReaderFits(rec, v1', v3', v6')
    BY <2>1, <2>2, <2>4, <2>5 DEF ReaderFits
  <2>7. IndexFits(v1', v3')
    BY <2>4 DEF IndexFits
  <2>8. v3' \in IndexType /\ v4' \in [Procedures -> Areas!ProcedureType] /\ v6' \subseteq Workers
    BY <1>1, <2>1
  <2> QED BY <2>1, <2>2, <2>4, <2>6, <2>7, <2>8, AreasMove
<1>15. ASSUME NEW r \in Readers, Areas!Seeded(r) PROVE AreasOK'
  <2> DEFINE rec == [v7[r] EXCEPT !.pc = "served"]
  <2>1. /\ v7' = [v7 EXCEPT ![r] = rec] /\ UNCHANGED <<v1, v2, v3, v4, v5>> /\ v6' = v6 \cup {v7[r].worker}
        /\ v7[r].pc = "upsert" /\ v7[r].todo = {}
    BY <1>1, <1>15 DEF Areas!Seeded, Areas!MaySeed, Areas!Goto, Areas!At
  <2>2. rec \in Areas!ReaderType /\ rec.pc = "served"
    BY <1>5 DEF Areas!ReaderType, Areas!Pc
  <2> HIDE DEF rec
  <2>3. v3.areas /\ AllHeld(v1)
    BY <1>5, <2>1 DEF ReaderFits, AllHeld
  <2>4. ReaderFits(rec, v1', v3', v6')
    BY <2>1, <2>2, <2>3 DEF ReaderFits
  <2>5. v6' \subseteq Workers
    BY <1>1, <1>5, <2>1
  <2> QED BY <1>1, <1>4, <2>1, <2>2, <2>3, <2>4, <2>5, AreasMove
<1>16. ASSUME NEW r \in Readers, Areas!Read(r) PROVE AreasOK'
  <2>1. Areas!End(r) /\ UNCHANGED <<v1, v2, v3, v4, v5, v6>>
    BY <1>16 DEF Areas!Read
  <2> QED BY <1>6, <1>7, <2>1
<1>17. ASSUME NEW r \in Readers, NEW k \in Keys, Areas!AreaStart(r, k) PROVE AreasOK'
  <2> DEFINE rec == [v7[r] EXCEPT !.pc = "ar_insert", !.key = k]
  <2>1. v7' = [v7 EXCEPT ![r] = rec] /\ UNCHANGED <<v1, v2, v3, v4, v5, v6>>
    BY <1>1, <1>17 DEF Areas!AreaStart
  <2>2. rec \in Areas!ReaderType /\ rec.pc = "ar_insert" /\ rec.worker = v7[r].worker
    BY <1>5 DEF Areas!ReaderType, Areas!Pc
  <2> HIDE DEF rec
  <2>3. ReaderFits(rec, v1, v3, v6)
    BY <1>5, <2>2 DEF ReaderFits
  <2> QED BY <1>6, <2>1, <2>2, <2>3
<1>18. ASSUME NEW r \in Readers, Areas!AreaInsert(r) PROVE AreasOK'
  <2> DEFINE rec == [v7[r] EXCEPT !.pc = "idle", !.drop = {}, !.todo = {}, !.key = Nobody, !.row = Areas!NoRow]
  <2>1. /\ rec \in Areas!ReaderType /\ ReaderFits(rec, v1, v3, v6) /\ v7' = [v7 EXCEPT ![r] = rec]
        /\ rec.pc = "idle" /\ rec.worker = v7[r].worker
    BY <1>7, <1>18 DEF Areas!AreaInsert
  <2> HIDE DEF rec
  <2>2. UNCHANGED <<v2, v3, v4, v5, v6>>
    BY <1>18 DEF Areas!AreaInsert
  <2>3. CASE v1' = v1
    BY <1>6, <2>1, <2>2, <2>3
  <2>4. CASE /\ ~(v3.areas /\ Held(v1, v7[r].key) # {})
             /\ Areas!Free # {} /\ v1' = [v1 EXCEPT ![Areas!Next1] = v7[r].key]
    <3>1. Areas!Next1 \in 1..MaxRows /\ v1[Areas!Next1] = Nobody
      BY <2>4, AreasNext
    <3>2. CASE v7[r].key = Nobody
      <4>1. v1' = v1
        BY <1>1, <2>4, <3>1, <3>2 DEF AreaRows
      <4> QED BY <4>1, <2>3
    <3>3. CASE v7[r].key \in Keys
      <4>1. v1' \in AreaRows /\ Carried(v1, v1')
            /\ (Held(v1, v7[r].key) = {} /\ Twice(v1) = {} => Twice(v1') = {})
        BY <1>1, <2>4, <3>1, <3>3, RowInserted
      <4>2. IndexFits(v1', v3')
        BY <1>1, <2>2, <2>4, <4>1 DEF IndexFits
      <4>3. ReaderFits(rec, v1', v3', v6')
        BY <2>1, <2>2, <4>1, ReaderCarried
      <4>4. v3' \in IndexType /\ v4' \in [Procedures -> Areas!ProcedureType] /\ v6' \subseteq Workers
        BY <1>1, <2>2
      <4> QED BY <2>1, <2>2, <4>1, <4>2, <4>3, <4>4, AreasMove
    <3> QED BY <1>5, <3>2, <3>3
  <2> QED BY <1>2, <1>18, <2>3, <2>4 DEF Areas!AreaInsert
\* A row on its way to the procedures names an area that is there.
<1>19. ASSUME NEW r \in Readers, NEW row \in Areas!ProcedureType, Held(v1, row.area) # {},
              row.area \in Keys,
              v7' = [v7 EXCEPT ![r].pc = "pr_insert", ![r].row = row], UNCHANGED <<v1, v2, v3, v4, v5, v6>>
       PROVE  AreasOK'
  <2> DEFINE rec == [v7[r] EXCEPT !.pc = "pr_insert", !.row = row]
  <2>1. v7' = [v7 EXCEPT ![r] = rec]
    BY <1>1, <1>19
  <2>2. rec \in Areas!ReaderType /\ rec.pc = "pr_insert" /\ rec.worker = v7[r].worker /\ rec.row = row
    BY <1>5 DEF Areas!ReaderType, Areas!Pc
  <2> HIDE DEF rec
  <2>3. ReaderFits(rec, v1, v3, v6)
    BY <1>5, <1>19, <2>2 DEF ReaderFits
  <2> QED BY <1>6, <1>19, <2>1, <2>2, <2>3
<1>20. ASSUME NEW r \in Readers, NEW k \in Keys, NEW n \in Names,
              Areas!ProcedureStart(r, k, n) \/ Areas!TemplateStart(r, k, n)
       PROVE  AreasOK'
  <2>1. PICK active \in BOOLEAN :
          v7' = [v7 EXCEPT ![r].pc = "pr_insert", ![r].row = [area |-> k, name |-> n, active |-> active, edits |-> 0]]
    BY <1>20 DEF Areas!ProcedureStart, Areas!TemplateStart
  <2>2. Held(v1, k) # {} /\ UNCHANGED <<v1, v2, v3, v4, v5, v6>>
    BY <1>2, <1>20 DEF Areas!ProcedureStart, Areas!TemplateStart
  <2> DEFINE row == [area |-> k, name |-> n, active |-> active, edits |-> 0]
  <2>3. row \in Areas!ProcedureType /\ row.area = k
    BY AreasConstants DEF Areas!ProcedureType
  <2>4. v7' = [v7 EXCEPT ![r].pc = "pr_insert", ![r].row = row]
    BY <2>1
  <2> HIDE DEF row
  <2> QED BY <1>19, <2>2, <2>3, <2>4
<1>21. ASSUME NEW r \in Readers, NEW p \in Procedures, NEW n \in Names, Areas!DuplicateStart(r, p, n)
       PROVE AreasOK'
  <2> DEFINE row == [v4[p] EXCEPT !.name = n]
  <2>1. /\ v7' = [v7 EXCEPT ![r].pc = "pr_insert", ![r].row = row] /\ UNCHANGED <<v1, v2, v3, v4, v5, v6>>
        /\ v4[p] # Areas!NoRow
    BY <1>21 DEF Areas!DuplicateStart
  <2>2. v4[p].area \in Keys /\ Held(v1, v4[p].area) # {}
    BY <1>1, <2>1 DEF ProcedureFits
  <2>3. v4[p] \in Areas!ProcedureType
    BY <1>1
  <2>4. row \in Areas!ProcedureType /\ row.area = v4[p].area
    BY <2>3 DEF Areas!ProcedureType
  <2> HIDE DEF row
  <2> QED BY <1>19, <2>1, <2>2, <2>4
<1>22. ASSUME NEW r \in Readers, NEW p \in Procedures, Areas!ProcedureInsert(r, p) PROVE AreasOK'
  <2> DEFINE rec == [v7[r] EXCEPT !.pc = "idle", !.drop = {}, !.todo = {}, !.key = Nobody, !.row = Areas!NoRow]
  <2>1. rec \in Areas!ReaderType /\ ReaderFits(rec, v1, v3, v6) /\ v7' = [v7 EXCEPT ![r] = rec]
    BY <1>7, <1>22 DEF Areas!ProcedureInsert
  <2> HIDE DEF rec
  <2>2. UNCHANGED <<v1, v2, v3, v5, v6>> /\ v7[r].pc = "pr_insert"
    BY <1>22 DEF Areas!ProcedureInsert, Areas!At
  <2>3. v4' = [v4 EXCEPT ![p] = v7[r].row] \/ v4' = v4
    BY <1>22 DEF Areas!ProcedureInsert
  <2>4. ProcedureFits(v7[r].row, v1)
    BY <1>5, <2>2 DEF ReaderFits, ProcedureFits
  <2>5. v4' \in [Procedures -> Areas!ProcedureType] /\ \A q \in Procedures : v4'[q] = v4[q] \/ ProcedureFits(v4'[q], v1)
    BY <1>1, <1>5, <2>3, <2>4
  <2> QED BY <1>1, <1>4, <2>1, <2>2, <2>5, AreasMove
<1>23. ASSUME NEW n \in 1..MaxRows, Areas!UpdateArea(n) PROVE AreasOK'
  <2>1. UNCHANGED <<v1, v3, v4, v5, v6, v7>> /\ v2' \subseteq 1..MaxRows
    BY <1>1, <1>23 DEF Areas!UpdateArea
  <2> QED BY <1>1, <2>1, AreasBeside
<1>24. ASSUME NEW p \in Procedures, NEW row \in Areas!ProcedureType, ProcedureFits(row, v1),
              v4' = [v4 EXCEPT ![p] = row], UNCHANGED <<v1, v2, v3, v5, v6, v7>>
       PROVE  AreasOK'
  <2>1. v4' \in [Procedures -> Areas!ProcedureType] /\ \A q \in Procedures : v4'[q] = v4[q] \/ ProcedureFits(v4'[q], v1)
    BY <1>1, <1>24
  <2> QED BY <1>1, <1>24, <2>1, AreasBeside
<1>25. ASSUME NEW p \in Procedures, NEW k \in Keys, NEW n \in Names, NEW b \in BOOLEAN,
              Areas!UpdateProcedure(p, k, n, b)
       PROVE  AreasOK'
  <2> DEFINE row == [area |-> k, name |-> n, active |-> b, edits |-> v4[p].edits + 1]
  <2>1. /\ v4' = [v4 EXCEPT ![p] = row] /\ UNCHANGED <<v1, v2, v3, v5, v6, v7>>
        /\ Held(v1, k) # {} /\ v4[p].edits < MaxEdits
    BY <1>2, <1>25 DEF Areas!UpdateProcedure
  <2>2. v4[p].edits \in 0..MaxEdits
    BY <1>1 DEF Areas!ProcedureType
  <2>3. v4[p].edits + 1 \in 0..MaxEdits
    BY <2>1, <2>2, AreasConstants
  <2>4. row \in Areas!ProcedureType /\ row.area = k
    BY <2>3 DEF Areas!ProcedureType
  <2> HIDE DEF row
  <2>5. ProcedureFits(row, v1)
    BY <2>1, <2>4 DEF ProcedureFits
  <2> QED BY <1>24, <2>1, <2>4, <2>5
<1>26. ASSUME NEW p \in Procedures, Areas!Deactivate(p) PROVE AreasOK'
  <2> DEFINE row == [v4[p] EXCEPT !.active = FALSE]
  <2>1. v4' = [v4 EXCEPT ![p] = row] /\ UNCHANGED <<v1, v2, v3, v5, v6, v7>> /\ v4[p] # Areas!NoRow
    BY <1>1, <1>26 DEF Areas!Deactivate
  <2>2. v4[p] \in Areas!ProcedureType /\ ProcedureFits(v4[p], v1)
    BY <1>1
  <2>3. row \in Areas!ProcedureType /\ row.area = v4[p].area
    BY <2>2 DEF Areas!ProcedureType
  <2> HIDE DEF row
  <2>4. ProcedureFits(row, v1)
    BY <2>1, <2>2, <2>3 DEF ProcedureFits
  <2> QED BY <1>24, <2>1, <2>3, <2>4
<1>27. ASSUME NEW p \in Procedures, NEW k \in Copies, Areas!OpenCase(k, p) PROVE AreasOK'
  <2>1. /\ v5' = [v5 EXCEPT ![k] = [procedure |-> p, edits |-> v4[p].edits]]
        /\ UNCHANGED <<v1, v2, v3, v4, v6, v7>>
    BY <1>27 DEF Areas!OpenCase, Areas!CasePlan
  <2>2. v4[p].edits \in 0..MaxEdits
    BY <1>1 DEF Areas!ProcedureType
  <2>3. v5' \in [Copies -> CopyType]
    BY <1>1, <2>1, <2>2 DEF CopyType
  <2> QED BY <1>1, <2>1, <2>3, AreasBeside
<1>28. ASSUME NEW r \in Readers, Areas!Step(r) PROVE AreasOK'
  BY <1>10, <1>11, <1>12, <1>13, <1>14, <1>15, <1>16, <1>17, <1>18, <1>20, <1>21, <1>22, <1>28
     DEF Areas!Step
<1> QED BY <1>23, <1>25, <1>26, <1>27, <1>28 DEF Areas!Next, Areas!Rows

LEMMA AreasStay == AreasOK /\ UNCHANGED <<v1, v2, v3, v4, v5, v6, v7>> => AreasOK'
  BY AreasFacts, AreasAgain

\* Whoever is served finds one row for each default, and every procedure an area.
LEMMA AreasServed == AreasOK => Areas!AreasOnce
<1> SUFFICES ASSUME AreasOK PROVE Areas!AreasOnce
  OBVIOUS
<1>1. /\ v1 \in AreaRows /\ \A r \in Readers : ReaderFits(v7[r], v1, v3, v6)
      /\ IndexFits(v1, v3) /\ \A p \in Procedures : ProcedureFits(v4[p], v1)
  BY AreasFacts
<1>2. \A k \in Keys : {n \in Areas!AreasListed(TRUE) : v1[n] = k} = Held(v1, k)
  BY DEF Areas!AreasListed, Areas!Rows, Held
<1>3. ASSUME NEW r \in Readers, Areas!At(r, "served"), NEW k \in Defaults
      PROVE  Cardinality({n \in Areas!AreasListed(TRUE) : v1[n] = k}) = 1
  <2>0. v7[r].pc = "served" /\ ReaderFits(v7[r], v1, v3, v6)
    BY <1>1, <1>3 DEF Areas!At
  <2>a. v3.areas /\ AllHeld(v1)
    BY <2>0 DEF ReaderFits
  <2>1. Held(v1, k) # {} /\ Twice(v1) = {}
    BY <1>1, <1>3, <2>a DEF AllHeld, IndexFits
  <2>2. PICK n : n \in Held(v1, k)
    BY <2>1
  <2>3. ASSUME NEW m \in Held(v1, k) PROVE m = n
    <3>1. m \in Nat /\ n \in Nat /\ k \in Keys
      BY <2>2, AreasConstants DEF Held
    <3>2. ~(m < n) /\ ~(n < m)
      BY <2>1, <2>2, <2>3, <3>1 DEF Twice, Held
    <3> QED BY <3>1, <3>2
  <2>4. Held(v1, k) = {n}
    BY <2>2, <2>3
  <2> QED BY <1>2, <2>4, AreasConstants, FS_Singleton
<1>4. ASSUME NEW p \in Areas!ProceduresListed(TRUE) PROVE Areas!AreaNames(p) # {}
  <2>1. p \in Procedures /\ v4[p].area \in Keys /\ Held(v1, v4[p].area) # {}
    BY <1>1, <1>4 DEF Areas!ProceduresListed, ProcedureFits
  <2> QED BY <1>2, <2>1 DEF Areas!AreaNames
<1> QED BY <1>3, <1>4 DEF Areas!AreasOnce, Areas!Cardinality, Cardinality

-----------------------------------------------------------------------------
\* Partners' work: tasks, entries, blobs, rows, chased, handed and
\* calls are v1 to v7.
WorkOK == Work!TypeOK /\ Work!DeliverInv

Holding == {"de_push", "rm_blob", "rm_pull"}

\* What a call that holds a file knows of it still is so.
WorkFits(call, lists, stored) ==
  /\ call.pc = "de_push" => call.file \in stored /\ \A t \in Tasks : call.file \notin lists[t]
  /\ call.pc \in {"rm_blob", "rm_pull"} => \A t \in Tasks : call.file \in lists[t] => t = call.task
  /\ call.pc \in {"de_save", "de_push", "de_row"} => call.task \in Tasks
WorkApart(working) ==
  \A c \in Callers : working[c].pc = "de_push" =>
    \A o \in Callers \ {c} : working[o].pc \in Holding => working[o].file # working[c].file
WorkListed(lists) == \A t, u \in Tasks : lists[t] \cap lists[u] # {} => t = u
WorkStored(lists, stored, working) ==
  \A t \in Tasks : \A f \in lists[t] :
    f \in stored \/ \E c \in Callers : working[c].pc = "rm_pull" /\ working[c].file = f

LEMMA WorkFacts ==
  WorkOK <=>
    /\ v1 \in [Tasks -> Work!TaskType] /\ v2 \in [Tasks -> SUBSET Files]
    /\ v3 \subseteq Files /\ v4 \in [Files -> Work!RowType]
    /\ v5 \in [Tasks -> {"none", "open", "dismissed"}] /\ v6 \in Partners \cup {Nobody}
    /\ v7 \in [Callers -> Work!CallType]
    /\ \A c \in Callers : WorkFits(v7[c], v2, v3)
    /\ WorkApart(v7) /\ WorkListed(v2) /\ WorkStored(v2, v3, v7)
<1>1. Work!DeliverInv <=> /\ \A c \in Callers : WorkFits(v7[c], v2, v3)
                          /\ WorkApart(v7) /\ WorkListed(v2) /\ WorkStored(v2, v3, v7)
  BY DEF Work!DeliverInv, Work!DeliverableStored, Work!HoldsFile, Work!At, Holding,
         WorkFits, WorkApart, WorkListed, WorkStored
<1> QED BY <1>1 DEF WorkOK, Work!TypeOK

LEMMA WorkAgain ==
  ASSUME v1' \in [Tasks -> Work!TaskType], v2' \in [Tasks -> SUBSET Files],
         v3' \subseteq Files, v4' \in [Files -> Work!RowType],
         v5' \in [Tasks -> {"none", "open", "dismissed"}], v6' \in Partners \cup {Nobody},
         v7' \in [Callers -> Work!CallType],
         \A c \in Callers : WorkFits(v7'[c], v2', v3'),
         WorkApart(v7'), WorkListed(v2'), WorkStored(v2', v3', v7')
  PROVE  WorkOK'
<1>1. Work!DeliverInv'
  BY DEF Work!DeliverInv, Work!DeliverableStored, Work!HoldsFile, Work!At, Holding,
         WorkFits, WorkApart, WorkListed, WorkStored
<1> QED BY <1>1 DEF WorkOK, Work!TypeOK

LEMMA WorkIdle == Work!Idle \in Work!CallType /\ Work!Idle.pc = "idle"
  BY DEF Work!Idle, Work!CallType, Work!Pc, Work!Verdicts

LEMMA WorkInit ==
  ASSUME Work!PartnerWorkAssumption, Work!Init
  PROVE  WorkOK
<1>1. /\ v2 = [t \in Tasks |-> {}] /\ v3 = {} /\ v5 = [t \in Tasks |-> "none"] /\ v6 = Nobody
      /\ v7 = [c \in Callers |-> Work!Idle]
  BY DEF Work!Init
<1>2. v1 \in [Tasks -> Work!TaskType]
  BY DEF Work!Init, Work!TaskType, Work!TaskStatus
<1>3. v4 \in [Files -> Work!RowType]
  BY DEF Work!Init, Work!RowType, Work!DocStatus
<1>4. v7 \in [Callers -> Work!CallType] /\ \A c \in Callers : v7[c].pc = "idle"
  BY <1>1, WorkIdle
<1>5. /\ \A c \in Callers : WorkFits(v7[c], v2, v3)
      /\ WorkApart(v7) /\ WorkListed(v2) /\ WorkStored(v2, v3, v7)
  BY <1>1, <1>4 DEF WorkFits, WorkApart, WorkListed, WorkStored
<1> QED BY <1>1, <1>2, <1>3, <1>4, <1>5, WorkFacts

\* A call moves to rec; what it writes is nothing another call relies on.
LEMMA WorkMove ==
  ASSUME WorkOK, NEW c \in Callers, NEW rec \in Work!CallType,
    v7' = [v7 EXCEPT ![c] = rec],
    v1' \in [Tasks -> Work!TaskType], v2' \in [Tasks -> SUBSET Files],
    v3' \subseteq Files, v4' \in [Files -> Work!RowType],
    v5' \in [Tasks -> {"none", "open", "dismissed"}], v6' \in Partners \cup {Nobody},
    WorkFits(rec, v2', v3'), \A o \in Callers \ {c} : WorkFits(v7[o], v2', v3'),
    rec.pc = "de_push" => \A o \in Callers \ {c} : v7[o].pc \in Holding => v7[o].file # rec.file,
    rec.pc \in Holding => \A o \in Callers \ {c} : v7[o].pc = "de_push" => v7[o].file # rec.file,
    WorkListed(v2'), WorkStored(v2', v3', v7')
  PROVE  WorkOK'
<1>1. v7 \in [Callers -> Work!CallType] /\ WorkApart(v7)
  BY WorkFacts
<1>2. v7' \in [Callers -> Work!CallType]
  BY <1>1
<1>3. v7'[c] = rec /\ \A o \in Callers \ {c} : v7'[o] = v7[o]
  BY <1>1
<1>4. \A o \in Callers : WorkFits(v7'[o], v2', v3')
  BY <1>3
<1>5. WorkApart(v7')
  BY <1>1, <1>3 DEF WorkApart
<1> QED BY <1>2, <1>4, <1>5, WorkAgain

\* The same where no list and no blob changes, and the call holds no file after.
LEMMA WorkQuiet ==
  ASSUME WorkOK, NEW c \in Callers, NEW rec \in Work!CallType,
    v7' = [v7 EXCEPT ![c] = rec], v2' = v2, v3' = v3, v7[c].pc # "rm_pull", rec.pc \notin Holding,
    rec.pc = "de_save" \/ rec.pc = "de_row" => rec.task \in Tasks,
    v1' \in [Tasks -> Work!TaskType], v4' \in [Files -> Work!RowType],
    v5' \in [Tasks -> {"none", "open", "dismissed"}], v6' \in Partners \cup {Nobody}
  PROVE  WorkOK'
<1>1. /\ v7 \in [Callers -> Work!CallType] /\ WorkListed(v2) /\ WorkStored(v2, v3, v7)
      /\ v2 \in [Tasks -> SUBSET Files] /\ v3 \subseteq Files
      /\ \A o \in Callers : WorkFits(v7[o], v2, v3)
  BY WorkFacts
<1>2. \A o \in Callers \ {c} : v7'[o] = v7[o]
  BY <1>1
<1>3. WorkStored(v2', v3', v7')
  BY <1>1, <1>2 DEF WorkStored
<1>4. WorkFits(rec, v2', v3')
  BY DEF WorkFits, Holding, Work!CallType
<1>5. WorkListed(v2') /\ \A o \in Callers \ {c} : WorkFits(v7[o], v2', v3')
  BY <1>1
<1>6. v2' \in [Tasks -> SUBSET Files] /\ v3' \subseteq Files
  BY <1>1
<1>7. rec.pc = "de_push" => \A o \in Callers \ {c} : v7[o].pc \in Holding => v7[o].file # rec.file
  BY DEF Holding
<1> QED BY <1>3, <1>4, <1>5, <1>6, <1>7, WorkMove

LEMMA WorkStay ==
  ASSUME WorkOK, UNCHANGED <<v1, v2, v3, v4, v5, v6, v7>> PROVE WorkOK'
  BY WorkFacts, WorkAgain

\* A step that leaves every call where it was.
LEMMA WorkSame ==
  ASSUME WorkOK, NEW c \in Callers, v7[c].pc = "idle", UNCHANGED <<v2, v3, v7>>,
    v1' \in [Tasks -> Work!TaskType], v4' \in [Files -> Work!RowType],
    v5' \in [Tasks -> {"none", "open", "dismissed"}], v6' \in Partners \cup {Nobody}
  PROVE  WorkOK'
<1>1. v7 \in [Callers -> Work!CallType]
  BY WorkFacts
<1>2. /\ v7' = [v7 EXCEPT ![c] = v7[c]] /\ v7[c] \in Work!CallType /\ v7[c].pc \notin Holding
      /\ v7[c].pc # "rm_pull" /\ v7[c].pc # "de_save" /\ v7[c].pc # "de_row"
  BY <1>1 DEF Holding
<1> QED BY <1>2, WorkQuiet

\* A step that writes a task's row and starts, or does not start, what follows.
LEMMA WorkTask ==
  ASSUME WorkOK, NEW c \in Callers, NEW rec \in Work!CallType,
    v7[c].pc = "idle", rec.pc \in {"cr_chase", "up_chase", "st_clear", "de_save"}, rec.task \in Tasks,
    v7' = [v7 EXCEPT ![c] = rec] \/ v7' = v7, UNCHANGED <<v2, v3, v4, v5, v6>>,
    v1' \in [Tasks -> Work!TaskType]
  PROVE  WorkOK'
<1>1. /\ v4' \in [Files -> Work!RowType] /\ v5' \in [Tasks -> {"none", "open", "dismissed"}]
      /\ v6' \in Partners \cup {Nobody}
  BY WorkFacts
<1>2. CASE v7' = v7
  BY <1>1, <1>2, WorkSame
<1>3. CASE v7' = [v7 EXCEPT ![c] = rec]
  <2>1. v7[c].pc # "rm_pull" /\ rec.pc \notin Holding
    BY DEF Holding
  <2> QED BY <1>1, <1>3, <2>1, WorkQuiet
<1> QED BY <1>2, <1>3

LEMMA WorkStep ==
  ASSUME Work!PartnerWorkAssumption, WorkOK, NEW c \in Callers, Work!Step(c)
  PROVE  WorkOK'
<1>1. /\ v1 \in [Tasks -> Work!TaskType] /\ v2 \in [Tasks -> SUBSET Files]
      /\ v3 \subseteq Files /\ v4 \in [Files -> Work!RowType]
      /\ v5 \in [Tasks -> {"none", "open", "dismissed"}] /\ v6 \in Partners \cup {Nobody}
      /\ v7 \in [Callers -> Work!CallType]
      /\ \A o \in Callers : WorkFits(v7[o], v2, v3)
      /\ WorkApart(v7) /\ WorkListed(v2) /\ WorkStored(v2, v3, v7)
  BY WorkFacts
<1>2. /\ Work!Idle \in Work!CallType /\ Work!Idle.pc = "idle"
      /\ "idle" \notin Holding
  BY WorkIdle DEF Holding
<1>5. ASSUME NEW pc \in {"cr_chase", "up_chase", "st_clear", "de_save"}, NEW t \in Tasks
      PROVE  LET rec == [Work!Idle EXCEPT !.pc = pc, !.task = t] IN
               rec \in Work!CallType /\ rec.pc \in {"cr_chase", "up_chase", "st_clear", "de_save"} /\ rec.task \in Tasks
  BY <1>2 DEF Work!CallType, Work!Pc, Holding
<1>6. ASSUME NEW t \in Tasks, NEW s \in Work!TaskStatus
      PROVE  [v1 EXCEPT ![t].status = s] \in [Tasks -> Work!TaskType]
  BY <1>1 DEF Work!TaskType
<1>7. ASSUME NEW t \in Tasks, NEW a \in Work!Assignees, NEW k \in Cases
      PROVE  [v1 EXCEPT ![t] = [status |-> "pending", who |-> a, case |-> k]] \in [Tasks -> Work!TaskType]
  BY <1>1 DEF Work!TaskType, Work!TaskStatus
\* A call that only ends, having written the worklist.
<1>8. ASSUME v7[c].pc \in {"cr_chase", "up_chase", "st_clear"}, Work!End(c),
             NEW s \in {"none", "open", "dismissed"}, NEW t, v5' = [v5 EXCEPT ![t] = s],
             UNCHANGED <<v1, v2, v3, v4, v6>>
      PROVE  WorkOK'
  <2>1. v7' = [v7 EXCEPT ![c] = Work!Idle]
    BY <1>8 DEF Work!End
  <2>2. v5' \in [Tasks -> {"none", "open", "dismissed"}]
    BY <1>1, <1>8
  <2> QED BY <1>1, <1>2, <1>8, <2>1, <2>2, WorkQuiet
<1>9. ASSUME NEW t \in Tasks, NEW s \in Work!TaskStatus, Work!WriteStatus(c, t, s),
             v7[c].pc = "idle"
      PROVE  WorkOK'
  <2> DEFINE rec == [Work!Idle EXCEPT !.pc = "st_clear", !.task = t]
  <2>1. rec \in Work!CallType /\ rec.pc \in {"cr_chase", "up_chase", "st_clear", "de_save"} /\ rec.task \in Tasks
    BY <1>5
  <2>2. /\ v1' = [v1 EXCEPT ![t].status = s] /\ UNCHANGED <<v2, v3, v4, v5, v6>>
        /\ (v7' = [v7 EXCEPT ![c] = rec] \/ v7' = v7)
    BY <1>9 DEF Work!WriteStatus
  <2>3. v1' \in [Tasks -> Work!TaskType]
    BY <1>6, <2>2
  <2> HIDE DEF rec
  <2> QED BY <1>9, <2>1, <2>2, <2>3, WorkTask
<1>10. ASSUME NEW t \in Tasks, NEW a \in Work!Assignees, NEW k \in Cases, NEW dated \in BOOLEAN,
              Work!CreateInsert(c, t, a, k, dated)
       PROVE  WorkOK'
  <2> DEFINE rec == [Work!Idle EXCEPT !.pc = "cr_chase", !.task = t]
  <2>1. rec \in Work!CallType /\ rec.pc \in {"cr_chase", "up_chase", "st_clear", "de_save"} /\ rec.task \in Tasks
    BY <1>5
  <2>2. /\ v1' = [v1 EXCEPT ![t] = [status |-> "pending", who |-> a, case |-> k]]
        /\ (v7' = [v7 EXCEPT ![c] = rec] \/ v7' = v7) /\ UNCHANGED <<v2, v3, v4, v5, v6>>
    BY <1>10 DEF Work!CreateInsert
  <2>3. v1' \in [Tasks -> Work!TaskType]
    BY <1>7, <2>2
  <2>4. v7[c].pc = "idle"
    BY <1>10 DEF Work!CreateInsert, Work!At
  <2> HIDE DEF rec
  <2> QED BY <2>1, <2>2, <2>3, <2>4, WorkTask
<1>11. ASSUME NEW t \in Tasks, NEW k \in Cases, Work!Guide(c, t, k) PROVE WorkOK'
  <2>1. /\ v1' = [v1 EXCEPT ![t] = [status |-> "pending", who |-> Client, case |-> k]]
        /\ UNCHANGED <<v2, v3, v4, v5, v6, v7>>
    BY <1>11 DEF Work!Guide
  <2>2. v1' \in [Tasks -> Work!TaskType]
    BY <1>7, <2>1 DEF Work!Assignees
  <2>3. v7[c].pc = "idle"
    BY <1>11 DEF Work!Guide, Work!At
  <2> QED BY <1>1, <2>1, <2>2, <2>3, WorkSame
<1>12. ASSUME NEW t \in Tasks, NEW s \in Work!TaskStatus, NEW dated \in BOOLEAN,
              Work!Patch(c, t, s, dated)
       PROVE  WorkOK'
  <2> DEFINE rec == [Work!Idle EXCEPT !.pc = "up_chase", !.task = t]
  <2>1. rec \in Work!CallType /\ rec.pc \in {"cr_chase", "up_chase", "st_clear", "de_save"} /\ rec.task \in Tasks
    BY <1>5
  <2>2. /\ v1' = [v1 EXCEPT ![t].status = s]
        /\ (v7' = [v7 EXCEPT ![c] = rec] \/ v7' = v7) /\ UNCHANGED <<v2, v3, v4, v5, v6>>
    BY <1>12 DEF Work!Patch
  <2>3. v1' \in [Tasks -> Work!TaskType]
    BY <1>6, <2>2
  <2>4. v7[c].pc = "idle"
    BY <1>12 DEF Work!Patch, Work!At
  <2> HIDE DEF rec
  <2> QED BY <2>1, <2>2, <2>3, <2>4, WorkTask
<1>13. ASSUME NEW t \in Tasks, NEW s \in Work!TaskStatus, Work!SetStatus(c, t, s)
       PROVE WorkOK'
  BY <1>9, <1>13 DEF Work!SetStatus, Work!At
<1>14. ASSUME NEW t \in Tasks, Work!MarkCompleted(c, t) PROVE WorkOK'
  BY <1>9, <1>14 DEF Work!MarkCompleted, Work!At, Work!TaskStatus
<1>15. ASSUME NEW t \in Tasks, Work!DeliverStart(c, t) PROVE WorkOK'
  <2> DEFINE rec == [Work!Idle EXCEPT !.pc = "de_save", !.task = t]
  <2>1. rec \in Work!CallType /\ rec.pc \in {"cr_chase", "up_chase", "st_clear", "de_save"} /\ rec.task \in Tasks
    BY <1>5
  <2>2. UNCHANGED <<v1, v2, v3, v4, v5, v6>> /\ v7' = [v7 EXCEPT ![c] = rec]
    BY <1>15 DEF Work!DeliverStart
  <2>3. v7[c].pc = "idle"
    BY <1>15 DEF Work!DeliverStart, Work!At
  <2>4. v1' \in [Tasks -> Work!TaskType]
    BY <1>1, <2>2
  <2> HIDE DEF rec
  <2> QED BY <2>1, <2>2, <2>3, <2>4, WorkTask
<1>16. ASSUME NEW t \in Tasks, Work!Dismiss(c, t) PROVE WorkOK'
  <2>1. v5' = [v5 EXCEPT ![t] = "dismissed"] /\ UNCHANGED <<v1, v2, v3, v4, v6, v7>>
    BY <1>16 DEF Work!Dismiss
  <2>2. v5' \in [Tasks -> {"none", "open", "dismissed"}]
    BY <1>1, <2>1
  <2>3. v7[c].pc = "idle"
    BY <1>16 DEF Work!Dismiss, Work!At
  <2> QED BY <1>1, <2>1, <2>2, <2>3, WorkSame
<1>17. CASE Work!CreateChase(c)
  BY <1>8, <1>17 DEF Work!CreateChase, Work!Chase, Work!At
<1>18. CASE Work!PatchChase(c)
  BY <1>8, <1>18 DEF Work!PatchChase, Work!Chase, Work!At
<1>19. CASE Work!StatusClear(c)
  BY <1>8, <1>19 DEF Work!StatusClear, Work!Unchase, Work!At
<1>20. ASSUME NEW f \in Files, Work!DeliverSave(c, f) PROVE WorkOK'
  <2> DEFINE rec == [v7[c] EXCEPT !.pc = "de_push", !.file = f]
  <2>1. /\ v7[c].pc = "de_save" /\ v3' = v3 \cup {f} /\ UNCHANGED <<v1, v2, v4, v5, v6>>
        /\ (\A t \in Tasks : f \notin v2[t]) /\ \A o \in Callers : v7[o].file # f
        /\ v7' = [v7 EXCEPT ![c].pc = "de_push", ![c].file = f]
    BY <1>20 DEF Work!DeliverSave, Work!At, Work!Fresh
  <2>2. v7[c] \in Work!CallType
    BY <1>1
  <2>3. rec \in Work!CallType /\ rec.pc = "de_push" /\ rec.file = f /\ rec.task = v7[c].task
    BY <2>2 DEF Work!CallType, Work!Pc
  <2>4. v7' = [v7 EXCEPT ![c] = rec]
    BY <1>1, <2>1, <2>2 DEF Work!CallType
  <2> HIDE DEF rec
  <2>5. \A o \in Callers \ {c} : v7'[o] = v7[o]
    BY <1>1, <2>4
  <2>6. v3' \subseteq Files
    BY <1>1, <2>1
  <2>a. v7[c].task \in Tasks
    BY <1>1, <2>1, <2>2 DEF WorkFits, Work!CallType
  <2>b. WorkFits(rec, v2', v3')
    BY <2>1, <2>3, <2>a DEF WorkFits
  <2>7. WorkFits(rec, v2', v3') /\ \A o \in Callers \ {c} : WorkFits(v7[o], v2', v3')
    BY <1>1, <2>1, <2>b DEF WorkFits
  <2>8. WorkListed(v2') /\ WorkStored(v2', v3', v7')
    BY <1>1, <2>1, <2>5 DEF WorkListed, WorkStored
  <2>10.
         /\ \A o \in Callers \ {c} : v7[o].file # rec.file
    BY <2>1, <2>3
  <2> QED BY <1>1, <2>1, <2>3, <2>4, <2>6, <2>7, <2>8, <2>10, WorkMove

<1>21. ASSUME NEW f \in Files, Work!Withdraw(c, f) PROVE WorkOK'
  <2>1. /\ v4' = [v4 EXCEPT ![f].status = "none"] /\ v3' = v3
        /\ UNCHANGED <<v1, v2, v5, v6, v7>>
    BY <1>21 DEF Work!Withdraw, Work!DroppedByWithdraw
  <2>2. v4' \in [Files -> Work!RowType]
    BY <1>1, <2>1 DEF Work!RowType
  <2>3. v7[c].pc = "idle"
    BY <1>21 DEF Work!Withdraw, Work!At
  <2> QED BY <1>1, <2>1, <2>2, <2>3, WorkSame
<1>22. CASE Work!DeliverRefused(c)
  <2>1. /\ v7[c].pc = "de_save" /\ v7' = [v7 EXCEPT ![c] = Work!Idle]
        /\ UNCHANGED <<v1, v2, v3, v4, v5, v6>>
    BY <1>22 DEF Work!DeliverRefused, Work!At, Work!End
  <2> QED BY <1>1, <1>2, <2>1, WorkQuiet
<1>23. CASE Work!DeliverPush(c)
  <2> DEFINE rec == [v7[c] EXCEPT !.pc = "de_row"]
             f == v7[c].file
             u == v7[c].task
  <2>1. /\ v7[c].pc = "de_push" /\ v2' = [v2 EXCEPT ![u] = @ \cup {f}]
        /\ v1' = [v1 EXCEPT ![u].status = "submitted"] /\ UNCHANGED <<v3, v4, v5, v6>>
        /\ v7' = [v7 EXCEPT ![c].pc = "de_row"]
    BY <1>23 DEF Work!DeliverPush, Work!At, Work!Goto
  <2>2. v7[c] \in Work!CallType
    BY <1>1
  <2>3. rec \in Work!CallType /\ rec.pc = "de_row"
    BY <2>2 DEF Work!CallType, Work!Pc
  <2>4. v7' = [v7 EXCEPT ![c] = rec]
    BY <1>1, <2>1, <2>2
  <2>5. /\ f \in v3 /\ f \in Files /\ \A t \in Tasks : f \notin v2[t]
        /\ u \in Tasks /\ rec.task = u
    BY <1>1, <2>1, <2>2 DEF WorkFits, Work!CallType
  <2>6. \A o \in Callers \ {c} : v7[o].pc \in Holding => v7[o].file # f
    BY <1>1, <2>1 DEF WorkApart
  <2>7. v1' \in [Tasks -> Work!TaskType]
    BY <1>1, <2>1 DEF Work!TaskType, Work!TaskStatus
  <2>8. v2' \in [Tasks -> SUBSET Files]
    BY <1>1, <2>1, <2>5
  <2>9. \A t \in Tasks : v2'[t] = IF t = u THEN v2[t] \cup {f} ELSE v2[t]
    BY <1>1, <2>1
  <2> HIDE DEF rec, f, u
  <2>10. \A o \in Callers \ {c} : v7'[o] = v7[o]
    BY <1>1, <2>4
  <2>11. \A o \in Callers \ {c} : WorkFits(v7[o], v2', v3')
    BY <1>1, <2>1, <2>6, <2>9 DEF WorkFits, Holding
  <2>12. WorkFits(rec, v2', v3') /\ rec.pc \notin Holding /\ rec.pc # "de_push"
    BY <2>3, <2>5 DEF WorkFits, Holding
  <2>13. WorkListed(v2')
    <3>1. ASSUME NEW t \in Tasks, NEW w \in Tasks, v2'[t] \cap v2'[w] # {} PROVE t = w
      <4>1. PICK g : g \in v2'[t] /\ g \in v2'[w]
        BY <3>1
      <4>2. ASSUME g # f PROVE g \in v2[t] /\ g \in v2[w] /\ v2[t] \cap v2[w] # {}
        <5>1. ASSUME NEW x \in Tasks, g \in v2'[x] PROVE g \in v2[x]
          <6>1. v2'[x] = v2[x] \cup {f} \/ v2'[x] = v2[x]
            BY <2>9, <5>1
          <6>2. CASE v2'[x] = v2[x] \cup {f}
            BY <4>2, <5>1, <6>2
          <6> QED BY <5>1, <6>1, <6>2
        <5> QED BY <3>1, <4>1, <5>1
      <4>3. g = f => t = u /\ w = u
        BY <2>5, <2>9, <3>1, <4>1
      <4> QED BY <1>1, <4>2, <4>3 DEF WorkListed
    <3> QED BY <3>1 DEF WorkListed
  <2>14. WorkStored(v2', v3', v7')
    BY <1>1, <2>1, <2>5, <2>9, <2>10 DEF WorkStored
  <2> QED BY <1>1, <2>1, <2>3, <2>4, <2>7, <2>8, <2>11, <2>12, <2>13, <2>14, WorkMove
<1>24. CASE Work!DeliverRow(c)
  <2>1. /\ v7[c].pc = "de_row" /\ v7' = [v7 EXCEPT ![c] = Work!Idle] /\ UNCHANGED <<v1, v2, v3, v5, v6>>
        /\ v4' = [v4 EXCEPT ![v7[c].file] = [status |-> "with_consultant", case |-> v1[v7[c].task].case]]
    BY <1>24 DEF Work!DeliverRow, Work!At, Work!End
  <2>3. v7[c].task \in Tasks
    BY <1>1, <2>1 DEF WorkFits, Work!CallType
  <2>4. v4' \in [Files -> Work!RowType]
    BY <1>1, <2>1, <2>3 DEF Work!TaskType, Work!RowType, Work!DocStatus
  <2> QED BY <1>1, <1>2, <2>1, <2>4, WorkQuiet
<1>25. ASSUME NEW t \in Tasks, NEW f \in Files, Work!RemoveStart(c, t, f) PROVE WorkOK'
  <2> DEFINE rec == [Work!Idle EXCEPT !.pc = "rm_blob", !.task = t, !.file = f, !.last = (v2[t] = {f})]
  <2>1. f \in v2[t] /\ v7' = [v7 EXCEPT ![c] = rec] /\ UNCHANGED <<v1, v2, v3, v4, v5, v6>>
    BY <1>25 DEF Work!RemoveStart
  <2>2. v7[c].pc = "idle"
    BY <1>25 DEF Work!RemoveStart, Work!At
  <2>3. rec \in Work!CallType /\ rec.pc = "rm_blob" /\ rec.task = t /\ rec.file = f
    BY <1>2 DEF Work!CallType, Work!Pc
  <2> HIDE DEF rec
  <2>4. \A o \in Callers \ {c} : v7'[o] = v7[o]
    BY <1>1, <2>1
  <2>5. WorkFits(rec, v2', v3') /\ \A o \in Callers \ {c} : WorkFits(v7[o], v2', v3')
    BY <1>1, <2>1, <2>3 DEF WorkFits, WorkListed, Work!CallType
  <2>6. \A o \in Callers \ {c} : v7[o].pc = "de_push" => v7[o].file # rec.file
    BY <1>1, <2>1, <2>3 DEF WorkFits
  <2>7. WorkListed(v2') /\ WorkStored(v2', v3', v7')
    BY <1>1, <2>1, <2>2, <2>4 DEF WorkListed, WorkStored
  <2> QED BY <1>1, <2>1, <2>2, <2>3, <2>5, <2>6, <2>7, WorkMove
<1>26. CASE Work!RemoveBlob(c)
  <2> DEFINE rec == [v7[c] EXCEPT !.pc = "rm_pull"]
             f == v7[c].file
  <2>1. /\ v7[c].pc = "rm_blob" /\ v3' = v3 \ {f} /\ UNCHANGED <<v1, v2, v4, v5, v6>>
        /\ v7' = [v7 EXCEPT ![c].pc = "rm_pull"]
    BY <1>26 DEF Work!RemoveBlob, Work!At, Work!Goto
  <2>2. v7[c] \in Work!CallType
    BY <1>1
  <2>3. rec \in Work!CallType /\ rec.pc = "rm_pull" /\ rec.file = f /\ rec.task = v7[c].task
    BY <2>2 DEF Work!CallType, Work!Pc
  <2>4. v7' = [v7 EXCEPT ![c] = rec]
    BY <1>1, <2>1, <2>2
  <2>5. \A o \in Callers \ {c} : v7[o].pc = "de_push" => v7[o].file # f
    BY <1>1, <2>1 DEF WorkApart, Holding
  <2>6. \A t \in Tasks : f \in v2[t] => t = v7[c].task
    BY <1>1, <2>1 DEF WorkFits
  <2> HIDE DEF rec, f
  <2>7. v7'[c] = rec /\ \A o \in Callers \ {c} : v7'[o] = v7[o]
    BY <1>1, <2>4
  <2>8. WorkFits(rec, v2', v3') /\ \A o \in Callers \ {c} : WorkFits(v7[o], v2', v3')
    BY <1>1, <2>1, <2>3, <2>5, <2>6 DEF WorkFits, Work!CallType
  <2>9. WorkListed(v2')
    BY <1>1, <2>1
  <2>10. WorkStored(v2', v3', v7')
    <3>1. ASSUME NEW t \in Tasks, NEW g \in v2[t], g # f
          PROVE  g \in v3' \/ \E o \in Callers : v7'[o].pc = "rm_pull" /\ v7'[o].file = g
      <4>1. CASE g \in v3
        BY <2>1, <3>1, <4>1
      <4>2. ASSUME NEW o \in Callers, v7[o].pc = "rm_pull", v7[o].file = g PROVE v7'[o] = v7[o]
        BY <2>1, <2>7, <4>2
      <4> QED BY <1>1, <3>1, <4>1, <4>2 DEF WorkStored
    <3>2. v7'[c].pc = "rm_pull" /\ v7'[c].file = f
      BY <2>3, <2>7
    <3> QED BY <2>1, <3>1, <3>2 DEF WorkStored
  <2>12. v3' \subseteq Files /\ rec.pc # "de_push"
    BY <1>1, <2>1, <2>3
  <2> QED BY <1>1, <2>1, <2>3, <2>4, <2>5, <2>8, <2>9, <2>10, <2>12, WorkMove
<1>27. CASE Work!RemovePull(c)
  <2> DEFINE rec == IF v7[c].last THEN [v7[c] EXCEPT !.pc = "rm_revert"] ELSE Work!Idle
             f == v7[c].file
             u == v7[c].task
  <2>1. /\ v7[c].pc = "rm_pull" /\ v2' = [v2 EXCEPT ![u] = @ \ {f}] /\ UNCHANGED <<v1, v3, v4, v5, v6>>
        /\ v7' = IF v7[c].last THEN [v7 EXCEPT ![c].pc = "rm_revert"] ELSE [v7 EXCEPT ![c] = Work!Idle]
    BY <1>27 DEF Work!RemovePull, Work!At, Work!Goto, Work!End
  <2>2. v7[c] \in Work!CallType
    BY <1>1
  <2>3. rec \in Work!CallType /\ rec.pc \in {"rm_revert", "idle"}
    BY <1>2, <2>2 DEF Work!CallType, Work!Pc
  <2>4. v7' = [v7 EXCEPT ![c] = rec]
    BY <1>1, <2>1, <2>2
  <2>5. \A t \in Tasks : f \in v2[t] => t = u
    BY <1>1, <2>1 DEF WorkFits
  <2>6. \A t \in Tasks : v2'[t] = IF t = u THEN v2[t] \ {f} ELSE v2[t]
    BY <1>1, <2>1
  <2>7. v2' \in [Tasks -> SUBSET Files]
    BY <1>1, <2>1
  <2>8. \A o \in Callers : v7[o].pc = "rm_pull" /\ v7[o].file # f => v7'[o] = v7[o]
    BY <1>1, <2>4
  <2> HIDE DEF rec, f, u
  <2>9. \A o \in Callers \ {c} : WorkFits(v7[o], v2', v3')
    BY <1>1, <2>1, <2>6 DEF WorkFits
  <2>10. WorkFits(rec, v2', v3') /\ rec.pc \notin Holding /\ rec.pc # "de_push"
    BY <2>3 DEF WorkFits, Holding, Work!CallType
  <2>11. WorkListed(v2')
    BY <1>1, <2>6 DEF WorkListed
  <2>12. \A t \in Tasks : v2'[t] \subseteq v2[t] \ {f}
    BY <2>5, <2>6
  <2>13. WorkStored(v2', v3', v7')
    <3>1. ASSUME NEW t \in Tasks, NEW g \in v2'[t]
          PROVE  g \in v3' \/ \E o \in Callers : v7'[o].pc = "rm_pull" /\ v7'[o].file = g
      <4>1. g \in v2[t] /\ g # f
        BY <2>12, <3>1
      <4>2. ASSUME NEW o \in Callers, v7[o].pc = "rm_pull", v7[o].file = g PROVE v7'[o] = v7[o]
        BY <2>8, <4>1, <4>2
      <4> QED BY <1>1, <2>1, <3>1, <4>1, <4>2 DEF WorkStored
    <3> QED BY <3>1 DEF WorkStored
  <2> QED BY <1>1, <2>1, <2>3, <2>4, <2>7, <2>9, <2>10, <2>11, <2>13, WorkMove
<1>28. CASE Work!RemoveRevert(c)
  <2>1. /\ v7[c].pc = "rm_revert" /\ v7' = [v7 EXCEPT ![c] = Work!Idle]
        /\ UNCHANGED <<v2, v3, v4, v5, v6>>
        /\ v1' = [v1 EXCEPT ![v7[c].task].status = "in_progress"]
    BY <1>28 DEF Work!RemoveRevert, Work!At, Work!End
  <2>3. v1' \in [Tasks -> Work!TaskType]
    BY <1>1, <2>1 DEF Work!TaskType, Work!TaskStatus
  <2> QED BY <1>1, <1>2, <2>1, <2>3, WorkQuiet
<1>29. ASSUME NEW p \in Partners \cup {Nobody}, Work!Hand(c, p) PROVE WorkOK'
  <2>1. v6' = p /\ UNCHANGED <<v1, v2, v3, v4, v5, v7>>
    BY <1>29 DEF Work!Hand
  <2>2. v7[c].pc = "idle"
    BY <1>29 DEF Work!Hand, Work!At
  <2> QED BY <1>1, <1>29, <2>1, <2>2, WorkSame
<1>30. ASSUME NEW f \in Files, NEW p \in Partners \cup {Nobody}, NEW v \in Work!Verdicts,
              Work!ReviewStart(c, f, p, v)
       PROVE  WorkOK'
  <2> DEFINE rec == [Work!Idle EXCEPT !.pc = "rv_write", !.file = f, !.verdict = v]
  <2>1. v7[c].pc = "idle" /\ v7' = [v7 EXCEPT ![c] = rec] /\ UNCHANGED <<v1, v2, v3, v4, v5, v6>>
    BY <1>30 DEF Work!ReviewStart, Work!At
  <2>2. rec \in Work!CallType /\ rec.pc = "rv_write"
    BY <1>2 DEF Work!CallType, Work!Pc
  <2>3. rec.pc \notin Holding /\ rec.pc # "de_save" /\ rec.pc # "de_row" /\ v7[c].pc # "rm_pull"
    BY <2>1, <2>2 DEF Holding
  <2> HIDE DEF rec
  <2> QED BY <1>1, <2>1, <2>2, <2>3, WorkQuiet
<1>31. CASE Work!ReviewWrite(c)
  <2>1. /\ v7[c].pc = "rv_write" /\ v7' = [v7 EXCEPT ![c] = Work!Idle]
        /\ UNCHANGED <<v1, v2, v3, v5, v6>>
        /\ v4' = [v4 EXCEPT ![v7[c].file].status = IF @ = "none" THEN @ ELSE v7[c].verdict]
    BY <1>31 DEF Work!ReviewWrite, Work!At, Work!End
  <2>3. v7[c].verdict \in Work!DocStatus
    BY <1>1 DEF Work!CallType, Work!Verdicts, Work!DocStatus
  <2> DEFINE f == v7[c].file
             row == [v4[f] EXCEPT !.status = IF v4[f].status = "none" THEN "none" ELSE v7[c].verdict]
  <2>4. v4' \in [Files -> Work!RowType]
    <3>1. CASE f \in Files
      <4>1. row \in Work!RowType
        BY <1>1, <2>3, <3>1 DEF Work!RowType
      <4>2. v4' = [v4 EXCEPT ![f] = row]
        BY <1>1, <2>1, <3>1
      <4> HIDE DEF f, row
      <4> QED BY <1>1, <4>1, <4>2
    <3>2. CASE f \notin Files
      BY <1>1, <2>1, <3>2
    <3> QED BY <3>1, <3>2
  <2>5. v7[c].pc # "rm_pull" /\ Work!Idle.pc \notin Holding /\ Work!Idle.pc # "de_save" /\ Work!Idle.pc # "de_row"
    BY <1>2, <2>1
  <2> HIDE DEF f, row
  <2> QED BY <1>1, <1>2, <2>1, <2>4, <2>5, WorkQuiet
<1> QED BY <1>10, <1>11, <1>12, <1>13, <1>14, <1>15, <1>16, <1>17, <1>18, <1>19, <1>20, <1>21, <1>22, <1>23,
           <1>24, <1>25, <1>26, <1>27, <1>28, <1>29, <1>30, <1>31 DEF Work!Step

-----------------------------------------------------------------------------
\* The doors that open a case: v1 and v2 are the status and the case of the
\* request, v3 the stages, v4 to v6 the documents, v7 the calls at door d.  How a
\* call moves on keeps the type of the calls.

LEMMA DoorIdle ==
  ASSUME NEW d, Door(d)!CaseOpeningAssumption PROVE Door(d)!Idle \in Door(d)!CallType
  BY DEF Door!CaseOpeningAssumption, Door!Idle, Door!CallType, Door!Pc, Door!Written, Door!RequestStatus

LEMMA DoorGoto ==
  ASSUME NEW d, Door(d)!TypeOK, NEW c \in CallersAt[d], NEW pc \in Door(d)!Pc, Door(d)!Goto(c, pc)
  PROVE  v7' \in [CallersAt[d] -> Door(d)!CallType]
<1>1. [v7[c] EXCEPT !.pc = pc] \in Door(d)!CallType
  BY DEF Door!TypeOK, Door!CallType
<1> QED BY <1>1 DEF Door!Goto, Door!TypeOK

LEMMA DoorEnd ==
  ASSUME NEW d, Door(d)!CaseOpeningAssumption, Door(d)!TypeOK, NEW c \in CallersAt[d], Door(d)!End(c)
  PROVE  v7' \in [CallersAt[d] -> Door(d)!CallType]
  BY DoorIdle DEF Door!TypeOK, Door!End

LEMMA DoorStart ==
  ASSUME NEW d, Door(d)!TypeOK, NEW c \in CallersAt[d], NEW op, NEW rec \in Door(d)!CallType,
         Door(d)!Start(c, op, rec)
  PROVE  v7' \in [CallersAt[d] -> Door(d)!CallType]
  BY DEF Door!TypeOK, Door!Start

LEMMA DoorOpenAt ==
  ASSUME NEW d, Door(d)!CaseOpeningAssumption, Door(d)!TypeOK, NEW c \in CallersAt[d],
         NEW s \in Door(d)!Stages, NEW pc \in Door(d)!Pc, Door(d)!OpenAt(c, s, pc)
  PROVE  /\ v3' \in [Cases -> 0..LastAt[d]]
         /\ v7' \in [CallersAt[d] -> Door(d)!CallType]
<1>1. PICK k \in Cases : /\ v3' = [v3 EXCEPT ![k] = s]
                         /\ v7' = [v7 EXCEPT ![c].case = k, ![c].pc = pc]
  BY DEF Door!OpenAt
<1>a. v7[c] \in Door(d)!CallType
  BY DEF Door!TypeOK
<1>2. [v7[c] EXCEPT !.case = k, !.pc = pc] \in Door(d)!CallType
  BY <1>1, <1>a DEF Door!CallType
<1>3. v7' = [v7 EXCEPT ![c] = [v7[c] EXCEPT !.case = k, !.pc = pc]]
  BY <1>1 DEF Door!TypeOK
<1> QED BY <1>1, <1>2, <1>3 DEF Door!CaseOpeningAssumption, Door!TypeOK, Door!Stages

LEMMA DoorInsert ==
  ASSUME NEW d, Door(d)!TypeOK, NEW x \in DocsAt[d], NEW k \in Cases \cup {NoCase}, Door(d)!Insert(x, k)
  PROVE  /\ v4' \in [DocsAt[d] -> Door(d)!DocumentStatus \cup {"unborn", "gone"}]
         /\ v5' \in [DocsAt[d] -> BOOLEAN]
         /\ v6' \in [DocsAt[d] -> Cases \cup {NoCase}]
  BY DEF Door!TypeOK, Door!Insert, Door!DocumentStatus

\* complete_consultation counts numbers of rows.
LEMMA DoorCount ==
  ASSUME NEW d, Door(d)!CaseOpeningAssumption, NEW S \in SUBSET DocsAt[d]
  PROVE  Door(d)!Cardinality(S) \in Nat
<1>1. IsFiniteSet(DocsAt[d])
  BY DEF Door!CaseOpeningAssumption, Door!IsFiniteSet, IsFiniteSet
<1>2. Cardinality(S) \in Nat
  BY <1>1, FS_Subset, FS_CardinalityType
<1> QED BY <1>2 DEF Door!Cardinality, Cardinality

-----------------------------------------------------------------------------
LEMMA DoorTypeInit ==
  ASSUME NEW d, Door(d)!CaseOpeningAssumption, Door(d)!Init PROVE Door(d)!TypeOK
  BY DoorIdle DEF Door!CaseOpeningAssumption, Door!Init, Door!TypeOK, Door!RequestStatus

LEMMA DoorTypeStep ==
  ASSUME NEW d, Door(d)!CaseOpeningAssumption, Door(d)!TypeOK, Door(d)!Next
  PROVE  Door(d)!TypeOK'
<1> USE DEF Door!docVars
<1>1. ASSUME NEW c \in CallersAt[d],
             Door(d)!RequestStep(c) \/ Door(d)!DoorStep(c) \/ Door(d)!CaseStep(c) \/ Door(d)!CallCut(c)
      PROVE  Door(d)!TypeOK'
  <2>1. ASSUME NEW v \in {"new", "declined"}, Door(d)!AnswerStart(c, v) PROVE Door(d)!TypeOK'
    <3> DEFINE rec == [Door(d)!Idle EXCEPT !.pc = "an_write", !.next = v]
    <3>1. rec \in Door(d)!CallType
      <4>1. "an_write" \in Door(d)!Pc
        BY DEF Door!Pc
      <4>2. v \in Door(d)!Written
        BY DEF Door!Written, Door!RequestStatus
      <4> QED BY <4>1, <4>2, DoorIdle DEF Door!CallType
    <3>2. v7' \in [CallersAt[d] -> Door(d)!CallType]
      <4> HIDE DEF rec
      <4>1. Door(d)!Start(c, "answer", rec)
        BY <2>1 DEF Door!AnswerStart, rec
      <4> QED BY <4>1, <3>1, DoorStart
    <3> QED BY <2>1, <3>2 DEF Door!TypeOK, Door!AnswerStart, Door!DocumentStatus
  <2>2. CASE Door(d)!AnswerWrite(c)
    <3>1. v7' \in [CallersAt[d] -> Door(d)!CallType]
      BY <2>2, DoorEnd DEF Door!AnswerWrite
    <3> QED BY <2>2, <3>1 DEF Door!TypeOK, Door!AnswerWrite, Door!SetRequest, Door!CallType, Door!Written,
               Door!RequestStatus
  <2>3. CASE Door(d)!AskStart(c)
    <3> DEFINE rec == [Door(d)!Idle EXCEPT !.pc = "as_insert", !.case = v2]
    <3>1. rec \in Door(d)!CallType
      <4>1. "as_insert" \in Door(d)!Pc
        BY DEF Door!Pc
      <4>2. v2 \in Cases \cup {NoCase}
        BY DEF Door!TypeOK
      <4> QED BY <4>1, <4>2, DoorIdle DEF Door!CallType
    <3>2. v7' \in [CallersAt[d] -> Door(d)!CallType]
      <4> HIDE DEF rec
      <4>1. Door(d)!Start(c, "ask", rec)
        BY <2>3 DEF Door!AskStart, rec
      <4> QED BY <4>1, <3>1, DoorStart
    <3> QED BY <2>3, <3>2 DEF Door!TypeOK, Door!AskStart, Door!DocumentStatus
  <2>4. CASE Door(d)!AskStatus(c)
    <3>1. v7' \in [CallersAt[d] -> Door(d)!CallType]
      BY <2>4, DoorEnd DEF Door!AskStatus
    <3> QED BY <2>4, <3>1 DEF Door!TypeOK, Door!AskStatus, Door!SetRequest, Door!RequestStatus,
               Door!SyncStatus
  <2>5. ASSUME NEW x \in DocsAt[d], Door(d)!AskInsert(c, x) PROVE Door(d)!TypeOK'
    <3>1. v7' \in [CallersAt[d] -> Door(d)!CallType]
      BY <2>5, DoorGoto DEF Door!AskInsert, Door!Pc
    <3>2. v7[c].case \in Cases \cup {NoCase}
      BY DEF Door!TypeOK, Door!CallType
    <3>3. Door(d)!Insert(x, v7[c].case)
      BY <2>5 DEF Door!AskInsert
    <3> QED BY <2>5, <3>1, <3>2, <3>3, DoorInsert DEF Door!TypeOK, Door!AskInsert, Door!docVars
  <2>6. ASSUME NEW client \in BOOLEAN, Door(d)!WithdrawStart(c, client) PROVE Door(d)!TypeOK'
    <3> DEFINE rec == [Door(d)!Idle EXCEPT !.pc = "wd_rows", !.flag = client]
    <3>1. rec \in Door(d)!CallType
      <4>1. "wd_rows" \in Door(d)!Pc
        BY DEF Door!Pc
      <4> QED BY <4>1, DoorIdle DEF Door!CallType
    <3>2. v7' \in [CallersAt[d] -> Door(d)!CallType]
      <4> HIDE DEF rec
      <4>1. Door(d)!Start(c, "withdraw", rec)
        BY <2>6 DEF Door!WithdrawStart, rec
      <4> QED BY <4>1, <3>1, DoorStart
    <3> QED BY <2>6, <3>2 DEF Door!TypeOK, Door!WithdrawStart, Door!DocumentStatus
  <2>7. CASE Door(d)!WithdrawRows(c)
    <3>1. v7' \in [CallersAt[d] -> Door(d)!CallType]
      BY <2>7, DoorGoto DEF Door!WithdrawRows, Door!Pc
    <3> QED BY <2>7, <3>1 DEF Door!TypeOK, Door!WithdrawRows
  <2>8. CASE Door(d)!WithdrawRequest(c)
    <3>1. v7' \in [CallersAt[d] -> Door(d)!CallType]
      BY <2>8, DoorEnd DEF Door!WithdrawRequest
    <3> QED BY <2>8, <3>1 DEF Door!TypeOK, Door!WithdrawRequest, Door!RequestStatus
  <2>9. CASE Door(d)!OpenStart(c)
    <3> DEFINE rec == [Door(d)!Idle EXCEPT !.pc = "op_insert"]
    <3>1. rec \in Door(d)!CallType
      <4>1. "op_insert" \in Door(d)!Pc
        BY DEF Door!Pc
      <4> QED BY <4>1, DoorIdle DEF Door!CallType
    <3>2. v7' \in [CallersAt[d] -> Door(d)!CallType]
      <4> HIDE DEF rec
      <4>1. Door(d)!Start(c, "open", rec)
        BY <2>9 DEF Door!OpenStart, rec
      <4> QED BY <4>1, <3>1, DoorStart
    <3> QED BY <2>9, <3>2 DEF Door!TypeOK, Door!OpenStart, Door!DocumentStatus
  <2>10. CASE Door(d)!OpenInsert(c)
    <3>1. Door(d)!OpenAt(c, 1, "op_list")
      BY <2>10 DEF Door!OpenInsert
    <3>2. /\ v3' \in [Cases -> 0..LastAt[d]]
          /\ v7' \in [CallersAt[d] -> Door(d)!CallType]
      BY <3>1, DoorOpenAt DEF Door!CaseOpeningAssumption, Door!Stages, Door!Pc
    <3> QED BY <2>10, <3>2 DEF Door!TypeOK, Door!OpenInsert
  <2>11. CASE Door(d)!OpenNoList(c)
    <3>1. v7' \in [CallersAt[d] -> Door(d)!CallType]
      BY <2>11, DoorGoto DEF Door!OpenNoList, Door!Pc
    <3> QED BY <2>11, <3>1 DEF Door!TypeOK, Door!OpenNoList
  <2>12. CASE Door(d)!OpenRequest(c)
    <3>1. v7' \in [CallersAt[d] -> Door(d)!CallType]
      BY <2>12, DoorGoto DEF Door!OpenRequest, Door!Pc
    <3> QED BY <2>12, <3>1 DEF Door!TypeOK, Door!OpenRequest, Door!SetRequest, Door!RequestStatus,
               Door!SyncStatus, Door!CallType
  <2>13. CASE Door(d)!OpenBind(c)
    <3>1. v7' \in [CallersAt[d] -> Door(d)!CallType]
      BY <2>13, DoorEnd DEF Door!OpenBind
    <3> QED BY <2>13, <3>1 DEF Door!TypeOK, Door!OpenBind, Door!BindAll, Door!CallType
  <2>14. ASSUME NEW x \in DocsAt[d], Door(d)!OpenList(c, x) PROVE Door(d)!TypeOK'
    <3>1. v7' \in [CallersAt[d] -> Door(d)!CallType]
      BY <2>14, DoorGoto DEF Door!OpenList, Door!Pc
    <3>2. v7[c].case \in Cases \cup {NoCase}
      BY DEF Door!TypeOK, Door!CallType
    <3>3. Door(d)!Insert(x, v7[c].case)
      BY <2>14 DEF Door!OpenList
    <3> QED BY <2>14, <3>1, <3>2, <3>3, DoorInsert DEF Door!TypeOK, Door!OpenList, Door!docVars
  <2>15. CASE Door(d)!CompleteStart(c)
    <3> DEFINE rec == [Door(d)!Idle EXCEPT !.pc = "co_total"]
    <3>1. rec \in Door(d)!CallType
      <4>1. "co_total" \in Door(d)!Pc
        BY DEF Door!Pc
      <4> QED BY <4>1, DoorIdle DEF Door!CallType
    <3>2. v7' \in [CallersAt[d] -> Door(d)!CallType]
      <4> HIDE DEF rec
      <4>1. Door(d)!Start(c, "complete", rec)
        BY <2>15 DEF Door!CompleteStart, rec
      <4> QED BY <4>1, <3>1, DoorStart
    <3> QED BY <2>15, <3>2 DEF Door!TypeOK, Door!CompleteStart, Door!DocumentStatus
  <2>16. CASE Door(d)!CompleteTotal(c)
    <3> DEFINE rec == [v7[c] EXCEPT !.total = Door(d)!Cardinality(Door(d)!Live), !.pc = "co_approved"]
    <3>1. rec \in Door(d)!CallType
      <4>1. Door(d)!Cardinality(Door(d)!Live) \in Nat
        BY DoorCount DEF Door!Live
      <4>2. "co_approved" \in Door(d)!Pc
        BY DEF Door!Pc
      <4>3. v7[c] \in Door(d)!CallType
        BY <1>1 DEF Door!TypeOK
      <4> QED BY <4>1, <4>2, <4>3 DEF Door!CallType
    <3>2. v7' = [v7 EXCEPT ![c] = rec]
      BY <2>16 DEF Door!CompleteTotal, Door!TypeOK
    <3> QED BY <2>16, <3>1, <3>2 DEF Door!TypeOK, Door!CompleteTotal
  <2>17. CASE Door(d)!CompleteApproved(c)
    <3> DEFINE rec == [v7[c] EXCEPT !.total = 0, !.pc = "co_insert"]
    <3>1. rec \in Door(d)!CallType
      <4>1. v7[c] \in Door(d)!CallType
        BY DEF Door!TypeOK
      <4>2. "co_insert" \in Door(d)!Pc
        BY DEF Door!Pc
      <4> QED BY <4>1, <4>2 DEF Door!CallType
    <3>2. v7' = [v7 EXCEPT ![c] = rec] \/ Door(d)!End(c)
      BY <2>17 DEF Door!CompleteApproved, Door!TypeOK
    <3>3. v7' \in [CallersAt[d] -> Door(d)!CallType]
      BY <3>1, <3>2, DoorEnd DEF Door!TypeOK
    <3> QED BY <2>17, <3>3 DEF Door!TypeOK, Door!CompleteApproved
  <2>18. CASE Door(d)!CompleteInsert(c)
    <3>1. Door(d)!OpenAt(c, IF LastAt[d] > 1 THEN 2 ELSE 1, "co_request")
      BY <2>18 DEF Door!CompleteInsert
    <3>2. /\ v3' \in [Cases -> 0..LastAt[d]]
          /\ v7' \in [CallersAt[d] -> Door(d)!CallType]
      BY <3>1, DoorOpenAt DEF Door!CaseOpeningAssumption, Door!Stages, Door!Pc
    <3> QED BY <2>18, <3>2 DEF Door!TypeOK, Door!CompleteInsert
  <2>19. CASE Door(d)!CompleteRequest(c)
    <3>1. v7' \in [CallersAt[d] -> Door(d)!CallType]
      BY <2>19, DoorGoto DEF Door!CompleteRequest, Door!Pc
    <3> QED BY <2>19, <3>1 DEF Door!TypeOK, Door!CompleteRequest, Door!SetRequest, Door!RequestStatus,
               Door!CallType
  <2>20. CASE Door(d)!CompleteBind(c)
    <3>1. v7' \in [CallersAt[d] -> Door(d)!CallType]
      BY <2>20, DoorEnd DEF Door!CompleteBind
    <3> QED BY <2>20, <3>1 DEF Door!TypeOK, Door!CompleteBind, Door!BindAll, Door!CallType
  <2>21. CASE Door(d)!CreateStart(c)
    <3> DEFINE rec == [Door(d)!Idle EXCEPT !.pc = "cr_insert"]
    <3>1. rec \in Door(d)!CallType
      <4>1. "cr_insert" \in Door(d)!Pc
        BY DEF Door!Pc
      <4> QED BY <4>1, DoorIdle DEF Door!CallType
    <3>2. v7' \in [CallersAt[d] -> Door(d)!CallType]
      <4> HIDE DEF rec
      <4>1. Door(d)!Start(c, "create", rec)
        BY <2>21 DEF Door!CreateStart, rec
      <4> QED BY <4>1, <3>1, DoorStart
    <3> QED BY <2>21, <3>2 DEF Door!TypeOK, Door!CreateStart, Door!DocumentStatus
  <2>22. CASE Door(d)!CreateInsert(c)
    <3>1. Door(d)!OpenAt(c, 1, "cr_request")
      BY <2>22 DEF Door!CreateInsert
    <3>2. /\ v3' \in [Cases -> 0..LastAt[d]]
          /\ v7' \in [CallersAt[d] -> Door(d)!CallType]
      BY <3>1, DoorOpenAt DEF Door!CaseOpeningAssumption, Door!Stages, Door!Pc
    <3> QED BY <2>22, <3>2 DEF Door!TypeOK, Door!CreateInsert
  <2>23. CASE Door(d)!CreateRequest(c)
    <3>1. v7' \in [CallersAt[d] -> Door(d)!CallType]
      BY <2>23, DoorGoto DEF Door!CreateRequest, Door!Pc
    <3> QED BY <2>23, <3>1 DEF Door!TypeOK, Door!CreateRequest, Door!CallType
  <2>24. CASE Door(d)!CreateBind(c)
    <3>1. v7' \in [CallersAt[d] -> Door(d)!CallType]
      BY <2>24, DoorGoto DEF Door!CreateBind, Door!Pc
    <3> QED BY <2>24, <3>1 DEF Door!TypeOK, Door!CreateBind, Door!BindAll, Door!CallType
  <2>25. CASE Door(d)!CreateNoList(c)
    <3>1. v7' \in [CallersAt[d] -> Door(d)!CallType]
      BY <2>25, DoorEnd DEF Door!CreateNoList
    <3> QED BY <2>25, <3>1 DEF Door!TypeOK, Door!CreateNoList
  <2>26. ASSUME NEW x \in DocsAt[d], Door(d)!CreateList(c, x) PROVE Door(d)!TypeOK'
    <3>1. v7' \in [CallersAt[d] -> Door(d)!CallType]
      <4>1. "sy_count" \in Door(d)!Pc
        BY DEF Door!Pc
      <4>2. [Door(d)!Idle EXCEPT !.pc = "sy_count"] \in Door(d)!CallType
        BY <4>1, DoorIdle DEF Door!CallType
      <4> QED BY <2>26, <4>2 DEF Door!CreateList, Door!TypeOK
    <3>2. v7[c].case \in Cases \cup {NoCase}
      BY DEF Door!TypeOK, Door!CallType
    <3>3. Door(d)!Insert(x, v7[c].case)
      BY <2>26 DEF Door!CreateList
    <3> QED BY <2>26, <3>1, <3>2, <3>3, DoorInsert DEF Door!TypeOK, Door!CreateList, Door!docVars
  <2>27. ASSUME NEW k \in Cases, NEW t \in Door(d)!Stages, NEW force \in BOOLEAN,
                Door(d)!AdvanceStart(c, k, t, force)
         PROVE Door(d)!TypeOK'
    <3> DEFINE rec == [Door(d)!Idle EXCEPT !.case = k, !.target = t, !.flag = force,
          !.pc = IF t = LastAt[d] /\ ~force THEN "ad_count" ELSE "ad_write"]
    <3>1. rec \in Door(d)!CallType
      <4>1. "ad_count" \in Door(d)!Pc /\ "ad_write" \in Door(d)!Pc
        BY DEF Door!Pc
      <4>2. t \in 0..LastAt[d]
        BY DEF Door!CaseOpeningAssumption, Door!Stages
      <4> QED BY <4>1, <4>2, DoorIdle DEF Door!CallType
    <3>2. v7' \in [CallersAt[d] -> Door(d)!CallType]
      <4> HIDE DEF rec
      <4>1. Door(d)!Start(c, "advance", rec)
        BY <2>27 DEF Door!AdvanceStart, Door!Advanced, rec
      <4> QED BY <4>1, <3>1, DoorStart
    <3> QED BY <2>27, <3>2 DEF Door!TypeOK, Door!AdvanceStart, Door!DocumentStatus
  <2>28. CASE Door(d)!AdvanceCount(c)
    <3>1. Door(d)!Goto(c, "ad_write") \/ Door(d)!End(c)
      BY <2>28 DEF Door!AdvanceCount
    <3>2. v7' \in [CallersAt[d] -> Door(d)!CallType]
      BY <3>1, DoorGoto, DoorEnd DEF Door!Pc
    <3> QED BY <2>28, <3>2 DEF Door!TypeOK, Door!AdvanceCount
  <2>29. CASE Door(d)!AdvanceWrite(c)
    <3>1. v7' \in [CallersAt[d] -> Door(d)!CallType]
      BY <2>29, DoorEnd DEF Door!AdvanceWrite
    <3> QED BY <2>29, <3>1 DEF Door!TypeOK, Door!AdvanceWrite, Door!CallType
  <2>30. ASSUME NEW k \in Cases, Door(d)!View(c, k) PROVE Door(d)!TypeOK'
    <3> DEFINE rec == [Door(d)!Idle EXCEPT !.pc = "vw_stamp", !.case = k,
                                 !.docs = {x \in Door(d)!Live : v6[x] = NoCase}]
    <3>1. rec \in Door(d)!CallType
      <4>1. "vw_stamp" \in Door(d)!Pc
        BY DEF Door!Pc
      <4>2. {e \in Door(d)!Live : v6[e] = NoCase} \in SUBSET DocsAt[d]
        BY DEF Door!Live
      <4> QED BY <4>1, <4>2, DoorIdle DEF Door!CallType
    <3>2. v7' \in [CallersAt[d] -> Door(d)!CallType]
      <4> HIDE DEF rec
      <4>1. Door(d)!Start(c, "view", rec)
        BY <2>30 DEF Door!View, rec
      <4> QED BY <4>1, <3>1, DoorStart
    <3> QED BY <2>30, <3>2 DEF Door!TypeOK, Door!View, Door!DocumentStatus
  <2>31. CASE Door(d)!ViewStamp(c)
    <3>1. v7' \in [CallersAt[d] -> Door(d)!CallType]
      BY <2>31, DoorEnd DEF Door!ViewStamp
    <3> QED BY <2>31, <3>1 DEF Door!TypeOK, Door!ViewStamp, Door!CallType
  <2>32. ASSUME NEW x \in DocsAt[d], NEW s \in Door(d)!DocumentStatus, Door(d)!Review(c, x, s)
         PROVE Door(d)!TypeOK'
    <3> DEFINE rec == [Door(d)!Idle EXCEPT !.pc = "sy_count"]
    <3>1. rec \in Door(d)!CallType
      <4>1. "sy_count" \in Door(d)!Pc
        BY DEF Door!Pc
      <4> QED BY <4>1, DoorIdle DEF Door!CallType
    <3>2. v7' \in [CallersAt[d] -> Door(d)!CallType]
      <4> HIDE DEF rec
      <4>1. Door(d)!Start(c, "review", rec)
        BY <2>32 DEF Door!Review, rec
      <4> QED BY <4>1, <3>1, DoorStart
    <3> QED BY <2>32, <3>2 DEF Door!TypeOK, Door!Review, Door!DocumentStatus
  <2>33. ASSUME NEW x \in DocsAt[d], Door(d)!Strike(c, x) PROVE Door(d)!TypeOK'
    <3> DEFINE rec == [Door(d)!Idle EXCEPT !.pc = "sy_count"]
    <3>1. rec \in Door(d)!CallType
      <4>1. "sy_count" \in Door(d)!Pc
        BY DEF Door!Pc
      <4> QED BY <4>1, DoorIdle DEF Door!CallType
    <3>2. v7' \in [CallersAt[d] -> Door(d)!CallType]
      <4> HIDE DEF rec
      <4>1. Door(d)!Start(c, "strike", rec)
        BY <2>33 DEF Door!Strike, rec
      <4> QED BY <4>1, <3>1, DoorStart
    <3> QED BY <2>33, <3>2 DEF Door!TypeOK, Door!Strike, Door!DocumentStatus
  <2>34. CASE Door(d)!SyncCount(c)
    <3> DEFINE to == IF Door(d)!At(c, "op_sync") THEN "op_syncwrite" ELSE "sy_write"
               rec == [v7[c] EXCEPT !.next = Door(d)!Derived, !.pc = to]
    <3>1. Door(d)!Derived \in Door(d)!Written
      BY DEF Door!Derived, Door!Written, Door!RequestStatus, Door!SyncStatus
    <3>2. to \in Door(d)!Pc
      BY DEF Door!Pc
    <3>3. rec \in Door(d)!CallType
      <4> HIDE DEF to
      <4>1. v7[c] \in Door(d)!CallType
        BY <1>1 DEF Door!TypeOK
      <4> QED BY <3>1, <3>2, <4>1 DEF Door!CallType
    <3>4. v7' = [v7 EXCEPT ![c] = rec]
      BY <2>34 DEF Door!SyncCount, Door!TypeOK
    <3> QED BY <2>34, <3>3, <3>4 DEF Door!TypeOK, Door!SyncCount
  <2>35. CASE Door(d)!SyncWrite(c)
    <3> DEFINE rec == [v7[c] EXCEPT !.pc = "op_request", !.next = "new"]
    <3>1. rec \in Door(d)!CallType /\ v7[c].next \in Door(d)!Written
      <4>1. "op_request" \in Door(d)!Pc /\ "new" \in Door(d)!Written
        BY DEF Door!Pc, Door!Written, Door!RequestStatus
      <4> QED BY <4>1 DEF Door!TypeOK, Door!CallType
    <3>2. v7' = [v7 EXCEPT ![c] = rec] \/ Door(d)!End(c)
      BY <2>35 DEF Door!SyncWrite, Door!TypeOK
    <3>3. v7' \in [CallersAt[d] -> Door(d)!CallType]
      BY <3>1, <3>2, DoorEnd DEF Door!TypeOK
    <3> QED BY <2>35, <3>1, <3>3 DEF Door!TypeOK, Door!SyncWrite, Door!SetRequest, Door!Written,
               Door!RequestStatus
  <2>36. CASE Door(d)!CallCut(c)
    <3>1. v7' \in [CallersAt[d] -> Door(d)!CallType]
      BY <2>36, DoorEnd DEF Door!CallCut
    <3> QED BY <2>36, <3>1 DEF Door!TypeOK, Door!CallCut
  <2> QED BY <1>1, <2>1, <2>2, <2>3, <2>4, <2>5, <2>6, <2>7, <2>8, <2>9, <2>10, <2>11, <2>12, <2>13, <2>14,
             <2>15, <2>16, <2>17, <2>18, <2>19, <2>20, <2>21, <2>22, <2>23, <2>24, <2>25, <2>26, <2>27,
             <2>28, <2>29, <2>30, <2>31, <2>32, <2>33, <2>34, <2>35, <2>36
        DEF Door!RequestStep, Door!DoorStep, Door!CaseStep
<1> QED BY <1>1 DEF Door!Next

-----------------------------------------------------------------------------
\* A request nobody has accepted yet is asked nothing and has no case.  The
\* invariant that carries the proof, PendingInv, also says where the calls in
\* flight can be: every call a pending request refuses is before its guard.
\* POST /cases asks for no approval, so the claim is about the other doors.

LEMMA PendingInit ==
  ASSUME NEW d, Door(d)!CaseOpeningAssumption, Door(d)!Init PROVE Door(d)!PendingInv
  BY DEF Door!CaseOpeningAssumption, Door!Init, Door!PendingInv, Door!Live, Door!DocumentStatus,
         Door!Opened, Door!WorkPc, Door!Idle, Door!At

\* No step makes a request pending again.
LEMMA NeverPendingAgain ==
  ASSUME NEW d, Door(d)!TypeOK, Door(d)!Next, v1' = "pending_approval"
  PROVE  v1 = "pending_approval"
<1> SUFFICES ASSUME NEW c \in CallersAt[d],
                    Door(d)!RequestStep(c) \/ Door(d)!DoorStep(c) \/ Door(d)!CaseStep(c) \/ Door(d)!CallCut(c)
             PROVE  v1 = "pending_approval"
  BY DEF Door!Next, Door!vars
<1>1. v7[c].next # "pending_approval"
  BY DEF Door!TypeOK, Door!CallType, Door!Written
<1>2. CASE Door(d)!RequestStep(c)
  BY <1>1, <1>2 DEF Door!RequestStep, Door!AnswerStart, Door!AnswerWrite, Door!AskStart, Door!AskStatus,
     Door!AskInsert,
     Door!WithdrawStart, Door!WithdrawRows, Door!WithdrawRequest, Door!SetRequest
<1>3. CASE Door(d)!DoorStep(c)
  BY <1>3 DEF Door!DoorStep, Door!OpenStart, Door!OpenInsert, Door!OpenNoList, Door!OpenRequest,
     Door!OpenBind, Door!OpenList,
     Door!CompleteStart, Door!CompleteTotal, Door!CompleteApproved, Door!CompleteInsert,
     Door!CompleteRequest,
     Door!CompleteBind, Door!CreateStart, Door!CreateInsert, Door!CreateRequest, Door!CreateBind,
     Door!CreateNoList,
     Door!CreateList, Door!SetRequest
<1>4. CASE Door(d)!CaseStep(c)
  BY <1>1, <1>4 DEF Door!CaseStep, Door!AdvanceStart, Door!AdvanceCount, Door!AdvanceWrite, Door!View,
     Door!ViewStamp,
     Door!Review, Door!Strike, Door!SyncCount, Door!SyncWrite, Door!SetRequest
<1>5. CASE Door(d)!CallCut(c)
  BY <1>5 DEF Door!CallCut
<1> QED BY <1>1, <1>2, <1>3, <1>4, <1>5

\* A call that moves to a step a pending request allows.
LEMMA Waiting ==
  ASSUME NEW d, Door(d)!TypeOK, Door(d)!PendingInv, v1 = "pending_approval",
         NEW c \in CallersAt[d], NEW r, v7' = [v7 EXCEPT ![c] = r],
         r.pc \notin Door(d)!WorkPc, r.pc = "co_approved" => r.total = 0,
         Door(d)!Live' = {}, v2' = NoCase, v3' = v3
  PROVE  Door(d)!PendingInv'
<1>1. \A e \in CallersAt[d] : v7'[e] = IF e = c THEN r ELSE v7[e]
  BY DEF Door!TypeOK
<1>2. Door(d)!WorkPc' = Door(d)!WorkPc
  BY DEF Door!WorkPc, Door!Pc
<1> QED BY <1>1, <1>2 DEF Door!PendingInv, Door!At, Door!Opened

LEMMA PendingStep ==
  ASSUME NEW d, Door(d)!CaseOpeningAssumption, Door(d)!TypeOK, Door(d)!PendingInv, Door(d)!Next
  PROVE  Door(d)!PendingInv'
<1> SUFFICES ASSUME v1' = "pending_approval", "create" \notin OpsAt[d] PROVE Door(d)!PendingInv'
  BY DEF Door!PendingInv
<1>1. v1 = "pending_approval"
  BY NeverPendingAgain
<1>2. Door(d)!Live = {} /\ v2 = NoCase /\ Door(d)!Opened = {}
  BY <1>1 DEF Door!PendingInv
<1>3. ASSUME NEW c \in CallersAt[d] PROVE v7[c].pc \notin Door(d)!WorkPc
  BY <1>1, <1>3 DEF Door!PendingInv
<1>4. Door(d)!Idle.pc \notin Door(d)!WorkPc /\ Door(d)!Idle.pc # "co_approved"
  BY DEF Door!Idle, Door!WorkPc, Door!Pc
<1>5. ASSUME NEW c \in CallersAt[d],
             Door(d)!RequestStep(c) \/ Door(d)!DoorStep(c) \/ Door(d)!CaseStep(c) \/ Door(d)!CallCut(c)
      PROVE  Door(d)!PendingInv'
  <2> DEFINE p == v7[c].pc
  <2>1. p \in {"idle", "an_write", "wd_rows", "wd_request", "co_total", "co_approved"}
    BY <1>3 DEF Door!TypeOK, Door!CallType, Door!WorkPc
  <2>2. ASSUME Door(d)!End(c), Door(d)!Live' = {}, v2' = NoCase, v3' = v3 PROVE Door(d)!PendingInv'
    BY <2>2, <1>1, <1>4, Waiting DEF Door!End
  <2>3. CASE Door(d)!RequestStep(c)
    <3>1. ASSUME NEW v \in {"new", "declined"}, Door(d)!AnswerStart(c, v) PROVE Door(d)!PendingInv'
      <4> DEFINE r == [Door(d)!Idle EXCEPT !.pc = "an_write", !.next = v]
      <4>1. v7' = [v7 EXCEPT ![c] = r] /\ Door(d)!Live' = {} /\ v2' = NoCase /\ v3' = v3
        BY <3>1, <1>2 DEF Door!AnswerStart, Door!Start, Door!Live, Door!docVars
      <4>2. r.pc = "an_write"
        BY DEF Door!Idle
      <4>3. "an_write" \notin Door(d)!WorkPc
        BY DEF Door!WorkPc
      <4> HIDE DEF r
      <4> QED BY <4>1, <4>2, <4>3, <1>1, Waiting
    <3>2. CASE Door(d)!AnswerWrite(c)
      <4>1. Door(d)!Live' = {} /\ v2' = NoCase /\ v3' = v3 /\ Door(d)!End(c)
        BY <3>2, <1>2 DEF Door!AnswerWrite, Door!Live, Door!docVars
      <4> QED BY <4>1, <2>2
    <3>3. ASSUME NEW client \in BOOLEAN, Door(d)!WithdrawStart(c, client) PROVE Door(d)!PendingInv'
      <4> DEFINE r == [Door(d)!Idle EXCEPT !.pc = "wd_rows", !.flag = client]
      <4>1. v7' = [v7 EXCEPT ![c] = r] /\ Door(d)!Live' = {} /\ v2' = NoCase /\ v3' = v3
        BY <3>3, <1>2 DEF Door!WithdrawStart, Door!Start, Door!Live, Door!docVars
      <4>2. r.pc = "wd_rows"
        BY DEF Door!Idle
      <4>3. "wd_rows" \notin Door(d)!WorkPc
        BY DEF Door!WorkPc
      <4> HIDE DEF r
      <4> QED BY <4>1, <4>2, <4>3, <1>1, Waiting
    <3>4. CASE Door(d)!WithdrawRows(c)
      <4> DEFINE r == [v7[c] EXCEPT !.pc = "wd_request"]
      <4>1. v7' = [v7 EXCEPT ![c] = r]
        BY <3>4 DEF Door!WithdrawRows, Door!Goto, Door!TypeOK
      <4>2. Door(d)!Live' = {} /\ v2' = NoCase /\ v3' = v3
        BY <3>4, <1>2 DEF Door!WithdrawRows, Door!Live, Door!TypeOK
      <4>3. r.pc = "wd_request"
        BY DEF Door!TypeOK, Door!CallType
      <4>4. "wd_request" \notin Door(d)!WorkPc
        BY DEF Door!WorkPc
      <4> HIDE DEF r
      <4> QED BY <4>1, <4>2, <4>3, <4>4, <1>1, Waiting
    <3>5. ~Door(d)!WithdrawRequest(c)
      BY <1>1 DEF Door!WithdrawRequest
    <3>6. ~Door(d)!AskStart(c) /\ ~Door(d)!AskStatus(c) /\ \A x \in DocsAt[d] : ~Door(d)!AskInsert(c, x)
      BY <1>1, <2>1 DEF Door!AskStart, Door!AskStatus, Door!AskInsert, Door!At
    <3> QED BY <2>3, <3>1, <3>2, <3>3, <3>4, <3>5, <3>6 DEF Door!RequestStep
  <2>4. CASE Door(d)!DoorStep(c)
    <3>1. CASE Door(d)!CompleteStart(c)
      <4> DEFINE r == [Door(d)!Idle EXCEPT !.pc = "co_total"]
      <4>1. v7' = [v7 EXCEPT ![c] = r] /\ Door(d)!Live' = {} /\ v2' = NoCase /\ v3' = v3
        BY <3>1, <1>2 DEF Door!CompleteStart, Door!Start, Door!Live, Door!docVars
      <4>2. r.pc = "co_total"
        BY DEF Door!Idle
      <4>3. "co_total" \notin Door(d)!WorkPc
        BY DEF Door!WorkPc
      <4> HIDE DEF r
      <4> QED BY <4>1, <4>2, <4>3, <1>1, Waiting
    <3>2. CASE Door(d)!CompleteTotal(c)
      <4> DEFINE r == [v7[c] EXCEPT !.total = Door(d)!Cardinality(Door(d)!Live), !.pc = "co_approved"]
      <4>1. v7' = [v7 EXCEPT ![c] = r]
        BY <3>2 DEF Door!CompleteTotal, Door!TypeOK
      <4>2. Door(d)!Live' = {} /\ v2' = NoCase /\ v3' = v3
        BY <3>2, <1>2 DEF Door!CompleteTotal, Door!Live, Door!docVars
      <4>3. r.pc = "co_approved" /\ r.total = Door(d)!Cardinality(Door(d)!Live)
        BY DEF Door!TypeOK, Door!CallType
      <4>4. "co_approved" \notin Door(d)!WorkPc /\ Door(d)!Cardinality(Door(d)!Live) = 0
        <5>1. Door(d)!Cardinality(Door(d)!Live) = 0
          BY <1>2, FS_EmptySet DEF Door!Cardinality, Cardinality
        <5> QED BY <5>1 DEF Door!WorkPc
      <4> HIDE DEF r
      <4> QED BY <4>1, <4>2, <4>3, <4>4, <1>1, Waiting
    <3>3. CASE Door(d)!CompleteApproved(c)
      <4>1. v7[c].total = 0
        BY <3>3, <1>1 DEF Door!CompleteApproved, Door!PendingInv
      <4>2. Door(d)!Live' = {} /\ v2' = NoCase /\ v3' = v3 /\ Door(d)!End(c)
        BY <3>3, <4>1, <1>2 DEF Door!CompleteApproved, Door!Live, Door!docVars
      <4> QED BY <4>2, <2>2
    <3>4. ~Door(d)!OpenStart(c) /\ ~Door(d)!CreateStart(c)
      BY <1>1 DEF Door!OpenStart, Door!CreateStart, Door!Start
    <3>5. /\ ~Door(d)!OpenInsert(c) /\ ~Door(d)!OpenNoList(c) /\ ~Door(d)!OpenRequest(c) /\ ~Door(d)!OpenBind(c)
          /\ ~Door(d)!CompleteInsert(c) /\ ~Door(d)!CompleteRequest(c) /\ ~Door(d)!CompleteBind(c)
          /\ ~Door(d)!CreateInsert(c) /\ ~Door(d)!CreateRequest(c) /\ ~Door(d)!CreateBind(c) /\ ~Door(d)!CreateNoList(c)
          /\ \A x \in DocsAt[d] : ~Door(d)!OpenList(c, x) /\ ~Door(d)!CreateList(c, x)
      BY <2>1 DEF Door!OpenInsert, Door!OpenNoList, Door!OpenRequest, Door!OpenBind, Door!OpenList,
         Door!CompleteInsert,
         Door!CompleteRequest, Door!CompleteBind, Door!CreateInsert, Door!CreateRequest, Door!CreateBind,
         Door!CreateNoList, Door!CreateList, Door!At
    <3> QED BY <2>4, <3>1, <3>2, <3>3, <3>4, <3>5 DEF Door!DoorStep
  <2>5. CASE Door(d)!CaseStep(c)
    <3>1. /\ \A k \in Cases, t \in Door(d)!Stages, force \in BOOLEAN : ~Door(d)!AdvanceStart(c, k, t, force)
          /\ \A k \in Cases : ~Door(d)!View(c, k)
          /\ \A x \in DocsAt[d], s \in Door(d)!DocumentStatus : ~Door(d)!Review(c, x, s)
          /\ \A x \in DocsAt[d] : ~Door(d)!Strike(c, x)
      BY <1>2 DEF Door!AdvanceStart, Door!View, Door!Review, Door!Strike
    <3>2. ~Door(d)!AdvanceCount(c) /\ ~Door(d)!AdvanceWrite(c) /\ ~Door(d)!ViewStamp(c) /\ ~Door(d)!SyncCount(c) /\ ~Door(d)!SyncWrite(c)
      BY <2>1 DEF Door!AdvanceCount, Door!AdvanceWrite, Door!ViewStamp, Door!SyncCount, Door!SyncWrite,
         Door!At
    <3> QED BY <2>5, <3>1, <3>2 DEF Door!CaseStep
  <2>6. CASE Door(d)!CallCut(c)
    <3>1. Door(d)!Live' = {} /\ v2' = NoCase /\ v3' = v3 /\ Door(d)!End(c)
      BY <2>6, <1>2 DEF Door!CallCut, Door!Live, Door!docVars
    <3> QED BY <3>1, <2>2
  <2> QED BY <1>5, <2>3, <2>4, <2>5, <2>6
<1> QED BY <1>5 DEF Door!Next

-----------------------------------------------------------------------------
\* Where a step leaves the call that makes it.
LEMMA WhereGoto ==
  ASSUME NEW d, Door(d)!TypeOK, NEW c \in CallersAt[d], NEW pc, Door(d)!Goto(c, pc)
  PROVE  v7'[c] = [v7[c] EXCEPT !.pc = pc] /\ v7'[c].pc = pc
  BY DEF Door!TypeOK, Door!Goto, Door!CallType

LEMMA WhereEnd ==
  ASSUME NEW d, Door(d)!TypeOK, NEW c \in CallersAt[d], Door(d)!End(c)
  PROVE  v7'[c] = Door(d)!Idle /\ v7'[c].pc = "idle"
<1>1. v7'[c] = Door(d)!Idle
  BY DEF Door!TypeOK, Door!End
<1> QED BY <1>1 DEF Door!Idle

LEMMA WhereStart ==
  ASSUME NEW d, Door(d)!TypeOK, NEW c \in CallersAt[d], NEW op, NEW rec, Door(d)!Start(c, op, rec)
  PROVE  v7[c].pc = "idle" /\ op \in OpsAt[d] /\ v7'[c] = rec
  BY DEF Door!TypeOK, Door!Start

LEMMA WhereOpenAt ==
  ASSUME NEW d, Door(d)!TypeOK, NEW c \in CallersAt[d], NEW s, NEW pc, Door(d)!OpenAt(c, s, pc)
  PROVE  v7'[c].pc = pc
<1>1. v7 \in [CallersAt[d] -> Door(d)!CallType] /\ v7[c] \in Door(d)!CallType
  BY DEF Door!TypeOK
<1>2. PICK k : v7' = [v7 EXCEPT ![c].case = k, ![c].pc = pc]
  BY DEF Door!OpenAt
<1>3. v7'[c] = [v7[c] EXCEPT !.case = k, !.pc = pc]
  BY <1>1, <1>2
<1> QED BY <1>1, <1>3 DEF Door!CallType

\* One call at a time, a door that found no case writes over none.
LEMMA FirstStep ==
  ASSUME NEW d, CallersAt[d] = {Clerk}, Door(d)!TypeOK, Door(d)!FirstInv, Door(d)!Next
  PROVE  Door(d)!FirstInv' /\ Door(d)!KeepsFirstCase
<1> DEFINE Kept == (v7'[Clerk].pc \in Door(d)!LinkPc => v2' = NoCase) /\ (v2 # NoCase => v2' = v2)
<1>1. v7[Clerk] \in Door(d)!CallType /\ (v7[Clerk].pc \in Door(d)!LinkPc => v2 = NoCase)
  BY DEF Door!TypeOK, Door!FirstInv
<1>2. SUFFICES Kept
  BY DEF Door!FirstInv, Door!KeepsFirstCase, Door!LinkPc
<1>3. Clerk \in CallersAt[d]
  OBVIOUS
<1>4. CASE Door(d)!RequestStep(Clerk)
  <2>1. v2' = v2
    BY <1>4 DEF Door!RequestStep, Door!AnswerStart, Door!AnswerWrite, Door!AskStart, Door!AskStatus,
       Door!AskInsert, Door!WithdrawStart, Door!WithdrawRows, Door!WithdrawRequest
  <2>2. ASSUME NEW op, NEW rec, Door(d)!Start(Clerk, op, rec),
               rec.pc \in {"an_write", "as_insert", "wd_rows"}
        PROVE  v7'[Clerk].pc \notin Door(d)!LinkPc
    BY <1>3, <2>2, WhereStart DEF Door!LinkPc
  <2>3. ASSUME NEW v \in {"new", "declined"}, Door(d)!AnswerStart(Clerk, v)
        PROVE v7'[Clerk].pc \notin Door(d)!LinkPc
    BY <2>2, <2>3 DEF Door!AnswerStart, Door!Idle
  <2>4. CASE Door(d)!AskStart(Clerk)
    BY <2>1, <2>2, <2>4 DEF Door!AskStart, Door!Idle
  <2>5. ASSUME NEW client \in BOOLEAN, Door(d)!WithdrawStart(Clerk, client)
        PROVE v7'[Clerk].pc \notin Door(d)!LinkPc
    BY <2>2, <2>5 DEF Door!WithdrawStart, Door!Idle
  <2>6. CASE \/ Door(d)!AnswerWrite(Clerk) \/ Door(d)!AskStatus(Clerk) \/ Door(d)!WithdrawRequest(Clerk)
             \/ Door(d)!WithdrawRows(Clerk) \/ \E x \in DocsAt[d] : Door(d)!AskInsert(Clerk, x)
    <3>1. v7'[Clerk].pc \in {"idle", "wd_request", "as_status"}
      BY <1>3, <2>6, WhereGoto, WhereEnd, WhereOpenAt DEF Door!AnswerWrite, Door!AskStatus,
         Door!WithdrawRequest, Door!WithdrawRows, Door!AskInsert
    <3> QED BY <2>1, <3>1 DEF Door!LinkPc
  <2> QED BY <1>4, <2>1, <2>3, <2>4, <2>5, <2>6 DEF Door!RequestStep
<1>5. CASE Door(d)!DoorStep(Clerk)
  <2>1. CASE \/ Door(d)!OpenInsert(Clerk) \/ Door(d)!OpenNoList(Clerk)
             \/ \E x \in DocsAt[d] : Door(d)!OpenList(Clerk, x)
             \/ Door(d)!CompleteTotal(Clerk) \/ Door(d)!CompleteApproved(Clerk) \/ Door(d)!CompleteInsert(Clerk)
    <3>1. v2' = v2 /\ v7[Clerk].pc \in {"op_insert", "op_list", "co_total", "co_approved", "co_insert"}
      BY <2>1 DEF Door!OpenInsert, Door!OpenNoList, Door!OpenList, Door!CompleteTotal,
         Door!CompleteApproved,
         Door!CompleteInsert, Door!At
    <3> QED BY <1>1, <3>1 DEF Door!LinkPc
  <2>2. CASE Door(d)!OpenStart(Clerk) \/ Door(d)!CompleteStart(Clerk)
    BY <2>2 DEF Door!OpenStart, Door!CompleteStart
  <2>3. CASE Door(d)!OpenRequest(Clerk) \/ Door(d)!CompleteRequest(Clerk) \/ Door(d)!CreateRequest(Clerk)
    <3>1. v7'[Clerk].pc \in {"op_bind", "co_bind", "cr_bind"}
      BY <1>3, <2>3, WhereGoto, WhereEnd, WhereOpenAt DEF Door!OpenRequest, Door!CompleteRequest,
         Door!CreateRequest
    <3>2. v2 # NoCase => v2' = v2
      BY <1>1, <2>3 DEF Door!OpenRequest, Door!CompleteRequest, Door!CreateRequest, Door!At, Door!LinkPc
    <3> QED BY <3>1, <3>2 DEF Door!LinkPc
  <2>4. CASE \/ Door(d)!OpenBind(Clerk) \/ Door(d)!CompleteBind(Clerk) \/ Door(d)!CreateBind(Clerk)
             \/ Door(d)!CreateNoList(Clerk) \/ Door(d)!CreateInsert(Clerk)
    <3>1. v2' = v2
      BY <2>4 DEF Door!OpenBind, Door!CompleteBind, Door!CreateBind, Door!CreateNoList, Door!CreateInsert
    <3>2. CASE Door(d)!CreateInsert(Clerk)
      <4>1. v7'[Clerk].pc = "cr_request"
        BY <1>3, <3>2, WhereOpenAt DEF Door!CreateInsert
      <4> QED BY <3>1, <4>1 DEF Door!LinkPc
    <3>3. CASE \/ Door(d)!OpenBind(Clerk) \/ Door(d)!CompleteBind(Clerk) \/ Door(d)!CreateBind(Clerk)
               \/ Door(d)!CreateNoList(Clerk)
      <4>1. v7'[Clerk].pc \in {"idle", "cr_list"}
        BY <1>3, <3>3, WhereGoto, WhereEnd DEF Door!OpenBind, Door!CompleteBind, Door!CreateBind,
           Door!CreateNoList
      <4> QED BY <3>1, <4>1 DEF Door!LinkPc
    <3> QED BY <2>4, <3>2, <3>3
  <2>5. CASE Door(d)!CreateStart(Clerk)
    <3>1. v2' = v2 /\ v7'[Clerk] = [Door(d)!Idle EXCEPT !.pc = "cr_insert"]
      BY <1>3, <2>5, WhereStart DEF Door!CreateStart
    <3>2. v7'[Clerk].pc = "cr_insert"
      BY <3>1 DEF Door!Idle
    <3> QED BY <3>1, <3>2 DEF Door!LinkPc
  <2>6. ASSUME NEW x \in DocsAt[d], Door(d)!CreateList(Clerk, x) PROVE Kept
    <3>1. v2' = v2 /\ v7'[Clerk] = [Door(d)!Idle EXCEPT !.pc = "sy_count"]
      BY <1>3, <2>6 DEF Door!CreateList, Door!TypeOK
    <3>2. v7'[Clerk].pc = "sy_count"
      BY <3>1 DEF Door!Idle
    <3> QED BY <3>1, <3>2 DEF Door!LinkPc
  <2> QED BY <1>5, <2>1, <2>2, <2>3, <2>4, <2>5, <2>6 DEF Door!DoorStep
<1>6. CASE Door(d)!CaseStep(Clerk)
  <2>1. v2' = v2
    BY <1>6 DEF Door!CaseStep, Door!AdvanceStart, Door!AdvanceCount, Door!AdvanceWrite, Door!View,
       Door!ViewStamp,
       Door!Review, Door!Strike, Door!SyncCount, Door!SyncWrite
  <2>2. ASSUME NEW op, NEW rec, Door(d)!Start(Clerk, op, rec),
               rec.pc \in {"ad_count", "ad_write", "vw_stamp", "sy_count"}
        PROVE  Kept
    <3>1. v7'[Clerk].pc = rec.pc
      BY <1>3, <2>2, WhereStart
    <3> QED BY <2>1, <2>2, <3>1 DEF Door!LinkPc
  <2>3. ASSUME NEW k \in Cases, NEW t \in Door(d)!Stages, NEW force \in BOOLEAN,
               Door(d)!AdvanceStart(Clerk, k, t, force)
        PROVE  Kept
    BY <2>2, <2>3 DEF Door!AdvanceStart, Door!Advanced, Door!Idle
  <2>4. ASSUME NEW k \in Cases, Door(d)!View(Clerk, k) PROVE Kept
    BY <2>2, <2>4 DEF Door!View, Door!Idle
  <2>5. ASSUME NEW x \in DocsAt[d], NEW s \in Door(d)!DocumentStatus, Door(d)!Review(Clerk, x, s) PROVE Kept
    BY <2>2, <2>5 DEF Door!Review, Door!Idle
  <2>6. ASSUME NEW x \in DocsAt[d], Door(d)!Strike(Clerk, x) PROVE Kept
    BY <2>2, <2>6 DEF Door!Strike, Door!Idle
  <2>7. CASE Door(d)!AdvanceCount(Clerk) \/ Door(d)!AdvanceWrite(Clerk) \/ Door(d)!ViewStamp(Clerk)
    <3>1. v7'[Clerk].pc \in {"idle", "ad_write"}
      BY <1>3, <2>7, WhereGoto, WhereEnd, WhereOpenAt DEF Door!AdvanceCount, Door!AdvanceWrite,
         Door!ViewStamp
    <3> QED BY <2>1, <3>1 DEF Door!LinkPc
  <2>8. CASE Door(d)!SyncCount(Clerk) \/ Door(d)!SyncWrite(Clerk)
    <3>1. CASE v7[Clerk].pc \in {"op_sync", "op_syncwrite"}
      BY <1>1, <2>1, <3>1 DEF Door!LinkPc
    <3>2. CASE v7[Clerk].pc = "sy_count" /\ Door(d)!SyncCount(Clerk)
      <4>1. v7' = [v7 EXCEPT ![Clerk].next = Door(d)!Derived, ![Clerk].pc = "sy_write"]
        BY <3>2 DEF Door!SyncCount, Door!At
      <4>2. v7'[Clerk].pc = "sy_write"
        BY <1>1, <1>3, <4>1 DEF Door!TypeOK, Door!CallType
      <4> QED BY <2>1, <4>2 DEF Door!LinkPc
    <3>3. CASE v7[Clerk].pc = "sy_write" /\ Door(d)!SyncWrite(Clerk)
      <4>1. v7'[Clerk].pc = "idle"
        BY <1>3, <3>3, WhereGoto, WhereEnd, WhereOpenAt DEF Door!SyncWrite, Door!At
      <4> QED BY <2>1, <4>1 DEF Door!LinkPc
    <3> QED BY <2>8, <3>1, <3>2, <3>3 DEF Door!SyncCount, Door!SyncWrite
  <2> QED BY <1>6, <2>3, <2>4, <2>5, <2>6, <2>7, <2>8 DEF Door!CaseStep
<1>7. CASE Door(d)!CallCut(Clerk)
  <2>1. v2' = v2 /\ v7'[Clerk].pc = "idle"
    BY <1>3, <1>7, WhereGoto, WhereEnd, WhereOpenAt DEF Door!CallCut
  <2> QED BY <2>1 DEF Door!LinkPc
<1> QED BY <1>4, <1>5, <1>6, <1>7 DEF Door!Next

-----------------------------------------------------------------------------
\* One call at a time, with no worker dying and no POST /cases: what the call in
\* flight knows of the request, its cases and its documents.
DoorLive(d, papers) == {x \in DocsAt[d] : papers[x] \in Door(d)!DocumentStatus}
DoorOpened(stages) == {k \in Cases : stages[k] # 0}
DoorBound(d, papers, links, k) == \A x \in DoorLive(d, papers) : links[x] = k
DoorCleared(d, papers, needed) == \A x \in DoorLive(d, papers) : needed[x] => papers[x] = "approved"
DoorApproved(d, papers) ==
  DoorLive(d, papers) # {} /\ \A x \in DoorLive(d, papers) : papers[x] = "approved"

SerialFits(d, call, status, named, stages, papers, needed, links) ==
  /\ call.pc \notin Door(d)!CreatePc /\ call.next \notin {"completed", "deleted"}
  /\ call.pc \in Door(d)!LinkPc => status # "deleted" /\ named = NoCase
  /\ call.pc \in Door(d)!BindPc => named = call.case /\ named # NoCase
  /\ call.pc = "as_insert" => call.case = named
  /\ call.pc \in {"ad_count", "ad_write", "vw_stamp"} => call.case \in DoorOpened(stages)
  /\ call.pc \in {"ad_count", "ad_write"} => call.target # 0
  /\ DoorOpened(stages) = IF named # NoCase THEN {named}
                          ELSE IF call.pc \in Door(d)!OpeningPc THEN {call.case} ELSE {}
  /\ named # NoCase /\ call.pc \notin Door(d)!BindPc => DoorBound(d, papers, links, named)
  /\ call.pc = "ad_write" /\ call.target = LastAt[d] /\ ~call.flag => DoorCleared(d, papers, needed)
  /\ call.pc = "co_approved" => call.total = Cardinality(DoorLive(d, papers))
  /\ call.pc \in {"co_insert", "co_request"} => DoorApproved(d, papers)

LEMMA SerialFacts ==
  ASSUME NEW d, CallersAt[d] = {Clerk}
  PROVE  Door(d)!FirstInv /\ Door(d)!SerialInv <=> SerialFits(d, v7[Clerk], v1, v2, v3, v4, v5, v6)
<1>1. /\ Door(d)!Live = DoorLive(d, v4) /\ Door(d)!Opened = DoorOpened(v3)
      /\ Door(d)!Cardinality(DoorLive(d, v4)) = Cardinality(DoorLive(d, v4))
  BY DEF Door!Live, DoorLive, Door!Opened, DoorOpened, Door!Cardinality, Cardinality
<1>2. DoorLive(d, v4) # {} /\ Door(d)!With("approved") = DoorLive(d, v4) <=> DoorApproved(d, v4)
  BY <1>1 DEF Door!With, DoorApproved
<1> QED BY <1>1, <1>2 DEF Door!FirstInv, Door!SerialInv, Door!At, SerialFits, DoorBound, DoorCleared

LEMMA SerialAgain ==
  ASSUME NEW d, CallersAt[d] = {Clerk}, SerialFits(d, v7'[Clerk], v1', v2', v3', v4', v5', v6')
  PROVE  Door(d)!FirstInv' /\ Door(d)!SerialInv'
<1>1. /\ Door(d)!Live' = DoorLive(d, v4') /\ Door(d)!Opened' = DoorOpened(v3')
      /\ Door(d)!Cardinality(DoorLive(d, v4')) = Cardinality(DoorLive(d, v4'))
  BY DEF Door!Live, DoorLive, Door!Opened, DoorOpened, Door!Cardinality, Cardinality
<1>2. DoorLive(d, v4') # {} /\ Door(d)!With("approved")' = DoorLive(d, v4') <=> DoorApproved(d, v4')
  BY <1>1 DEF Door!With, DoorApproved
<1> QED BY <1>1, <1>2 DEF Door!FirstInv, Door!SerialInv, Door!At, SerialFits, DoorBound, DoorCleared

\* A call that leaves the cases and the documents alone and goes where it need
\* know nothing of them.
LEMMA SerialPlain ==
  ASSUME NEW d, NEW call, NEW rec, SerialFits(d, call, v1, v2, v3, v4, v5, v6),
         call.pc \notin Door(d)!OpeningPc \cup Door(d)!BindPc, UNCHANGED <<v2, v3, v4, v5, v6>>,
         rec.pc \in {"idle", "an_write", "as_status", "sy_count", "sy_write", "wd_rows", "wd_request"},
         rec.next \notin {"completed", "deleted"}
  PROVE  SerialFits(d, rec, v1', v2', v3', v4', v5', v6')
  BY DEF SerialFits, Door!OpeningPc, Door!BindPc, Door!LinkPc, Door!CreatePc

LEMMA SerialInit ==
  ASSUME NEW d, CallersAt[d] = {Clerk}, Door(d)!CaseOpeningAssumption, Door(d)!Init
  PROVE  Door(d)!FirstInv /\ Door(d)!SerialInv
<1>1. v7[Clerk] = Door(d)!Idle /\ v2 = NoCase /\ v3 = [k \in Cases |-> 0]
  BY DEF Door!Init
<1>2. v7[Clerk].pc = "idle" /\ v7[Clerk].next = "new" /\ DoorOpened(v3) = {}
  BY <1>1 DEF Door!Idle, DoorOpened
<1>3. SerialFits(d, v7[Clerk], v1, v2, v3, v4, v5, v6)
  BY <1>1, <1>2 DEF SerialFits, Door!CreatePc, Door!LinkPc, Door!BindPc, Door!OpeningPc
<1> QED BY <1>3, SerialFacts

LEMMA SerialStep ==
  ASSUME NEW d, CallersAt[d] = {Clerk}, "create" \notin OpsAt[d], ~CrashAt[d],
         Door(d)!CaseOpeningAssumption, Door(d)!TypeOK,
         SerialFits(d, v7[Clerk], v1, v2, v3, v4, v5, v6), Door(d)!Next
  PROVE  SerialFits(d, v7'[Clerk], v1', v2', v3', v4', v5', v6')
<1> DEFINE call == v7[Clerk]
           Fits == SerialFits(d, v7'[Clerk], v1', v2', v3', v4', v5', v6')
<1> USE DEF Door!CreatePc, Door!LinkPc, Door!OpeningPc, Door!BindPc
<1>1. Clerk \in CallersAt[d] /\ call \in Door(d)!CallType /\ SerialFits(d, call, v1, v2, v3, v4, v5, v6)
  BY DEF Door!TypeOK
<1>2. /\ v2 \in Cases \cup {NoCase} /\ v3 \in [Cases -> 0..LastAt[d]]
      /\ v4 \in [DocsAt[d] -> Door(d)!DocumentStatus \cup {"unborn", "gone"}]
      /\ v5 \in [DocsAt[d] -> BOOLEAN] /\ v6 \in [DocsAt[d] -> Cases \cup {NoCase}]
      /\ v7 \in [CallersAt[d] -> Door(d)!CallType] /\ NoCase \notin Cases
      /\ LastAt[d] \in Nat /\ LastAt[d] # 0
  BY DEF Door!TypeOK, Door!CaseOpeningAssumption
<1>3. Door(d)!Live = DoorLive(d, v4) /\ Door(d)!Opened = DoorOpened(v3)
  BY DEF Door!Live, DoorLive, Door!Opened, DoorOpened
<1>4. /\ Door(d)!Idle.pc = "idle" /\ Door(d)!Idle.next = "new"
      /\ Door(d)!Idle = [pc |-> "idle", case |-> NoCase, docs |-> {}, next |-> "new",
                         target |-> 0, total |-> 0, flag |-> FALSE]
  BY DEF Door!Idle
\* Starting, going on and ending where nothing need be known.
<1>5. ASSUME NEW op, NEW rec, Door(d)!Start(Clerk, op, rec), UNCHANGED <<v2, v3, v4, v5, v6>>,
             rec.pc \in {"an_write", "sy_count", "wd_rows"}, rec.next \notin {"completed", "deleted"}
      PROVE  Fits
  <2>1. v7'[Clerk] = rec /\ call.pc = "idle"
    BY <1>1, <1>5, WhereStart
  <2> QED BY <1>1, <1>5, <2>1, SerialPlain
<1>6. ASSUME Door(d)!End(Clerk), UNCHANGED <<v2, v3, v4, v5, v6>>,
             call.pc \notin Door(d)!OpeningPc \cup Door(d)!BindPc
      PROVE  Fits
  <2>1. v7'[Clerk] = Door(d)!Idle
    BY <1>1, <1>6, WhereEnd
  <2> QED BY <1>1, <1>4, <1>6, <2>1, SerialPlain
\* A document is asked for.
<1>7. ASSUME NEW x \in DocsAt[d], NEW k, Door(d)!Insert(x, k)
      PROVE  /\ DoorLive(d, v4') = DoorLive(d, v4) \cup {x}
             /\ v6'[x] = k /\ \A y \in DoorLive(d, v4) : v6'[y] = v6[y]
  <2>1. /\ v4 \in [DocsAt[d] -> Door(d)!DocumentStatus \cup {"unborn", "gone"}]
        /\ v4' = [v4 EXCEPT ![x] = "upload_needed"] /\ v6' = [v6 EXCEPT ![x] = k]
        /\ v4[x] = "unborn" /\ v6 \in [DocsAt[d] -> Cases \cup {NoCase}]
    BY <1>2, <1>7 DEF Door!Insert, Door!Unborn
  <2>2. "unborn" \notin Door(d)!DocumentStatus /\ "upload_needed" \in Door(d)!DocumentStatus
    BY DEF Door!DocumentStatus
  <2>3. \A y \in DocsAt[d] : v4'[y] = IF y = x THEN "upload_needed" ELSE v4[y]
    BY <2>1
  <2>4. DoorLive(d, v4') = DoorLive(d, v4) \cup {x}
    BY <2>2, <2>3, <2>1 DEF DoorLive
  <2>5. v6'[x] = k /\ \A y \in DoorLive(d, v4) : v6'[y] = v6[y]
    BY <2>1, <2>2 DEF DoorLive
  <2> QED BY <2>4, <2>5
\* A case is opened where there was none.
<1>8. ASSUME NEW s \in 1..LastAt[d], NEW pc \in {"op_list", "co_request"}, Door(d)!OpenAt(Clerk, s, pc),
             call.pc \in {"op_insert", "co_insert"}, UNCHANGED <<v1, v2, v4, v5, v6>>,
             pc = "co_request" => DoorApproved(d, v4)
      PROVE  Fits
  <2>a. PICK k \in Cases \ Door(d)!Opened :
          v3' = [v3 EXCEPT ![k] = s] /\ v7' = [v7 EXCEPT ![Clerk].case = k, ![Clerk].pc = pc]
    BY <1>8 DEF Door!OpenAt
  <2>1. v3' = [v3 EXCEPT ![k] = s] /\ v7'[Clerk] = [call EXCEPT !.case = k, !.pc = pc]
    BY <1>1, <1>2, <2>a
  <2> DEFINE rec == [call EXCEPT !.case = k, !.pc = pc]
  <2>2. rec.pc = pc /\ rec.case = k /\ rec.next = call.next
    BY <1>1 DEF Door!CallType
  <2>3. v2 = NoCase /\ v1 # "deleted" /\ DoorOpened(v3) = {} /\ call.next \notin {"completed", "deleted"}
    BY <1>1, <1>8 DEF SerialFits
  <2>4. \A j \in Cases : v3'[j] = IF j = k THEN s ELSE v3[j]
    BY <1>2, <2>1
  <2>5. \A j \in Cases : v3[j] = 0
    BY <2>3 DEF DoorOpened
  <2>6. s # 0
    BY <1>2, <1>8
  <2>7. DoorOpened(v3') = {k}
    BY <2>1, <2>4, <2>5, <2>6 DEF DoorOpened
  <2> HIDE DEF rec, call
  <2>8. SerialFits(d, rec, v1', v2', v3', v4', v5', v6')
    BY <1>8, <2>2, <2>3, <2>7 DEF SerialFits
  <2> QED BY <2>1, <2>8 DEF rec
<1>9. CASE Door(d)!RequestStep(Clerk)
  <2>1. ASSUME NEW v \in {"new", "declined"}, Door(d)!AnswerStart(Clerk, v) PROVE Fits
    <3>1. [Door(d)!Idle EXCEPT !.pc = "an_write", !.next = v].pc = "an_write"
      BY <1>4
    <3>2. [Door(d)!Idle EXCEPT !.pc = "an_write", !.next = v].next \notin {"completed", "deleted"}
      BY <1>4, <2>1
    <3> QED BY <1>5, <2>1, <3>1, <3>2 DEF Door!AnswerStart, Door!docVars
  <2>2. CASE Door(d)!AnswerWrite(Clerk)
    BY <1>6, <2>2 DEF Door!AnswerWrite, Door!docVars, Door!At
  <2>3. CASE Door(d)!AskStart(Clerk)
    <3>1. v7'[Clerk] = [Door(d)!Idle EXCEPT !.pc = "as_insert", !.case = v2] /\ call.pc = "idle"
      BY <1>1, <2>3, WhereStart DEF Door!AskStart
    <3>2. v7'[Clerk].pc = "as_insert" /\ v7'[Clerk].case = v2 /\ v7'[Clerk].next = "new"
      BY <1>4, <3>1
    <3>3. UNCHANGED <<v1, v2, v3, v4, v5, v6>>
      BY <2>3 DEF Door!AskStart, Door!docVars
    <3> QED BY <1>1, <3>1, <3>2, <3>3 DEF SerialFits
  <2>4. CASE Door(d)!AskStatus(Clerk)
    BY <1>6, <2>4 DEF Door!AskStatus, Door!docVars, Door!At
  <2>5. ASSUME NEW x \in DocsAt[d], Door(d)!AskInsert(Clerk, x) PROVE Fits
    <3>1. /\ call.pc = "as_insert" /\ Door(d)!Insert(x, call.case) /\ UNCHANGED <<v1, v2, v3>>
          /\ v7'[Clerk] = [call EXCEPT !.pc = "as_status"]
      BY <1>1, <2>5, WhereGoto DEF Door!AskInsert, Door!At
    <3>2. v7'[Clerk].pc = "as_status" /\ v7'[Clerk].next = call.next
      BY <1>1, <3>1 DEF Door!CallType
    <3>3. call.case = v2 /\ (v2 # NoCase => DoorBound(d, v4, v6, v2))
      BY <1>1, <3>1 DEF SerialFits
    <3>4. v2 # NoCase => DoorBound(d, v4', v6', v2)
      BY <1>7, <3>1, <3>3 DEF DoorBound
    <3> HIDE DEF call
    <3> QED BY <1>1, <3>1, <3>2, <3>4 DEF SerialFits
  <2>6. ASSUME NEW client \in BOOLEAN, Door(d)!WithdrawStart(Clerk, client) PROVE Fits
    <3>1. [Door(d)!Idle EXCEPT !.pc = "wd_rows", !.flag = client].pc = "wd_rows"
      BY <1>4
    <3>2. [Door(d)!Idle EXCEPT !.pc = "wd_rows", !.flag = client].next \notin {"completed", "deleted"}
      BY <1>4
    <3> QED BY <1>5, <2>6, <3>1, <3>2 DEF Door!WithdrawStart, Door!docVars
  <2>7. CASE Door(d)!WithdrawRows(Clerk)
    <3>1. /\ call.pc = "wd_rows" /\ UNCHANGED <<v1, v2, v3, v5, v6>>
          /\ v4' = [x \in DocsAt[d] |-> IF x \in Door(d)!Live THEN "gone" ELSE v4[x]]
          /\ v7'[Clerk] = [call EXCEPT !.pc = "wd_request"]
      BY <1>1, <2>7, WhereGoto DEF Door!WithdrawRows, Door!At
    <3>2. v7'[Clerk].pc = "wd_request" /\ v7'[Clerk].next = call.next
      BY <1>1, <3>1 DEF Door!CallType
    <3>3. DoorLive(d, v4') = {}
      BY <1>3, <3>1 DEF DoorLive, Door!DocumentStatus
    <3>4. DoorBound(d, v4', v6', v2')
      BY <3>3 DEF DoorBound
    <3> HIDE DEF call
    <3> QED BY <1>1, <3>1, <3>2, <3>4 DEF SerialFits
  <2>8. CASE Door(d)!WithdrawRequest(Clerk)
    BY <1>6, <2>8 DEF Door!WithdrawRequest, Door!docVars, Door!At
  <2> QED BY <1>9, <2>1, <2>2, <2>3, <2>4, <2>5, <2>6, <2>7, <2>8 DEF Door!RequestStep

<1>10. CASE Door(d)!DoorStep(Clerk)
  <2>1. CASE Door(d)!OpenStart(Clerk) \/ Door(d)!CompleteStart(Clerk)
    <3>1. PICK pc \in {"op_insert", "co_total"} :
            v7'[Clerk] = [Door(d)!Idle EXCEPT !.pc = pc] /\ call.pc = "idle"
      BY <1>1, <2>1, WhereStart DEF Door!OpenStart, Door!CompleteStart
    <3>2. v7'[Clerk].pc = pc /\ v7'[Clerk].next = "new"
      BY <1>4, <3>1
    <3>3. UNCHANGED <<v1, v2, v3, v4, v5, v6>> /\ v1 # "deleted" /\ v2 = NoCase
      BY <2>1 DEF Door!OpenStart, Door!CompleteStart, Door!docVars
    <3> QED BY <1>1, <3>1, <3>2, <3>3 DEF SerialFits
  <2>2. CASE Door(d)!OpenInsert(Clerk)
    <3>1. /\ call.pc = "op_insert" /\ Door(d)!OpenAt(Clerk, 1, "op_list")
          /\ UNCHANGED <<v1, v2, v4, v5, v6>>
          /\ 1 \in 1..LastAt[d]
      BY <1>2, <2>2 DEF Door!OpenInsert, Door!At, Door!docVars
    <3> QED BY <1>8, <3>1
  <2>3. ASSUME NEW x \in DocsAt[d], Door(d)!OpenList(Clerk, x) PROVE Fits
    <3>1. /\ call.pc = "op_list" /\ UNCHANGED <<v1, v2, v3>>
          /\ v7'[Clerk] = [call EXCEPT !.pc = "op_sync"]
      BY <1>1, <2>3, WhereGoto DEF Door!OpenList, Door!At
    <3>2. v7'[Clerk].pc = "op_sync" /\ v7'[Clerk].next = call.next /\ v7'[Clerk].case = call.case
      BY <1>1, <3>1 DEF Door!CallType
    <3> HIDE DEF call
    <3> QED BY <1>1, <3>1, <3>2 DEF SerialFits
  <2>4. CASE Door(d)!OpenNoList(Clerk)
    <3>1. /\ call.pc = "op_list" /\ UNCHANGED <<v1, v2, v3>>
          /\ v7'[Clerk] = [call EXCEPT !.pc = "op_request"]
      BY <1>1, <2>4, WhereGoto DEF Door!OpenNoList, Door!At
    <3>2. v7'[Clerk].pc = "op_request" /\ v7'[Clerk].next = call.next /\ v7'[Clerk].case = call.case
      BY <1>1, <3>1 DEF Door!CallType
    <3> HIDE DEF call
    <3> QED BY <1>1, <3>1, <3>2 DEF SerialFits
  \* A door ends: the request names the case it opened.
  <2>5. CASE Door(d)!OpenRequest(Clerk) \/ Door(d)!CompleteRequest(Clerk)
    <3>1. PICK pc \in {"op_bind", "co_bind"} : v7'[Clerk] = [call EXCEPT !.pc = pc]
      BY <1>1, <2>5, WhereGoto DEF Door!OpenRequest, Door!CompleteRequest
    <3>2. /\ call.pc \in {"op_request", "co_request"} /\ UNCHANGED <<v3, v4, v5, v6>>
          /\ v2' = IF v1 = "deleted" THEN v2 ELSE call.case
      BY <2>5 DEF Door!OpenRequest, Door!CompleteRequest, Door!At, Door!docVars
    <3>3. v1 # "deleted" /\ v2 = NoCase /\ DoorOpened(v3) = {call.case} /\ call.next \notin {"completed", "deleted"}
      BY <1>1, <3>2 DEF SerialFits
    <3>4. call.case # NoCase
      BY <1>2, <3>3 DEF DoorOpened
    <3>5. v7'[Clerk].pc = pc /\ v7'[Clerk].next = call.next /\ v7'[Clerk].case = call.case
      BY <1>1, <3>1 DEF Door!CallType
    <3> HIDE DEF call
    <3> QED BY <3>1, <3>2, <3>3, <3>4, <3>5 DEF SerialFits
  \* The documents follow.
  <2>6. CASE Door(d)!OpenBind(Clerk) \/ Door(d)!CompleteBind(Clerk)
    <3>1. v7'[Clerk] = Door(d)!Idle
      BY <1>1, <2>6, WhereEnd DEF Door!OpenBind, Door!CompleteBind
    <3>2. /\ call.pc \in {"op_bind", "co_bind"} /\ UNCHANGED <<v1, v2, v3, v4, v5>>
          /\ v6' = [x \in DocsAt[d] |-> IF x \in DoorLive(d, v4) THEN call.case ELSE v6[x]]
      BY <1>3, <2>6 DEF Door!OpenBind, Door!CompleteBind, Door!BindAll, Door!At
    <3>3. v2 = call.case /\ v2 # NoCase /\ DoorOpened(v3) = {v2}
      BY <1>1, <3>2 DEF SerialFits
    <3>4. DoorBound(d, v4', v6', v2')
      BY <3>2, <3>3 DEF DoorBound, DoorLive
    <3> HIDE DEF call
    <3> QED BY <1>4, <3>1, <3>2, <3>3, <3>4 DEF SerialFits
  <2>7. CASE Door(d)!CompleteTotal(Clerk)
    <3>1. /\ call.pc = "co_total" /\ UNCHANGED <<v1, v2, v3, v4, v5, v6>>
          /\ v7' = [v7 EXCEPT ![Clerk].total = Door(d)!Cardinality(Door(d)!Live), ![Clerk].pc = "co_approved"]
      BY <2>7 DEF Door!CompleteTotal, Door!At, Door!docVars
    <3>2. v7'[Clerk] = [call EXCEPT !.total = Door(d)!Cardinality(Door(d)!Live), !.pc = "co_approved"]
      BY <1>1, <1>2, <3>1
    <3>3. /\ v7'[Clerk].pc = "co_approved" /\ v7'[Clerk].next = call.next
          /\ v7'[Clerk].total = Door(d)!Cardinality(DoorLive(d, v4))
      BY <1>1, <1>3, <3>2 DEF Door!CallType
    <3>4. v7'[Clerk].total = Cardinality(DoorLive(d, v4))
      BY <3>3 DEF Door!Cardinality, Cardinality
    <3> HIDE DEF call
    <3> QED BY <1>1, <3>1, <3>3, <3>4 DEF SerialFits
  <2>8. CASE Door(d)!CompleteApproved(Clerk)
    <3>1. call.pc = "co_approved" /\ UNCHANGED <<v1, v2, v3, v4, v5, v6>>
      BY <2>8 DEF Door!CompleteApproved, Door!At, Door!docVars
    <3>2. CASE Door(d)!End(Clerk)
      BY <1>6, <3>1, <3>2
    <3>3. CASE /\ call.total # 0 /\ Door(d)!Cardinality(Door(d)!With("approved")) = call.total
               /\ v7' = [v7 EXCEPT ![Clerk].total = 0, ![Clerk].pc = "co_insert"]
      <4> DEFINE W == {x \in DoorLive(d, v4) : v4[x] = "approved"}
      <4>1. Door(d)!With("approved") = W
        BY <1>3 DEF Door!With
      <4>2. Cardinality(W) = call.total
        BY <3>3, <4>1 DEF Door!Cardinality, Cardinality
      <4>3. call.total = Cardinality(DoorLive(d, v4))
        BY <1>1, <3>1 DEF SerialFits
      <4>4. IsFiniteSet(DocsAt[d]) /\ DoorLive(d, v4) \subseteq DocsAt[d]
        BY DEF Door!CaseOpeningAssumption, Door!IsFiniteSet, IsFiniteSet, DoorLive
      <4>5. IsFiniteSet(DoorLive(d, v4))
        BY <4>4, FS_Subset
      <4>6. W = DoorLive(d, v4)
        BY <4>2, <4>3, <4>5, FS_Subset
      <4>7. DoorLive(d, v4) # {}
        BY <3>3, <4>3, FS_EmptySet
      <4>8. DoorApproved(d, v4)
        BY <4>6, <4>7 DEF DoorApproved
      <4>9. v7'[Clerk] = [call EXCEPT !.total = 0, !.pc = "co_insert"]
        BY <1>1, <1>2, <3>3
      <4>10. v7'[Clerk].pc = "co_insert" /\ v7'[Clerk].next = call.next
        BY <1>1, <4>9 DEF Door!CallType
      <4> HIDE DEF call
      <4> QED BY <1>1, <3>1, <4>8, <4>10 DEF SerialFits
    <3> QED BY <2>8, <3>2, <3>3 DEF Door!CompleteApproved
  <2>9. CASE Door(d)!CompleteInsert(Clerk)
    <3>1. /\ call.pc = "co_insert" /\ UNCHANGED <<v1, v2, v4, v5, v6>>
          /\ Door(d)!OpenAt(Clerk, IF LastAt[d] > 1 THEN 2 ELSE 1, "co_request")
      BY <2>9 DEF Door!CompleteInsert, Door!At, Door!docVars
    <3>2. DoorApproved(d, v4)
      BY <1>1, <3>1 DEF SerialFits
    <3>3. (IF LastAt[d] > 1 THEN 2 ELSE 1) \in 1..LastAt[d]
      BY <1>2
    <3> QED BY <1>8, <3>1, <3>2, <3>3
  <2>10. ~Door(d)!CreateStart(Clerk)
    BY <1>1, WhereStart DEF Door!CreateStart
  <2>11. /\ ~Door(d)!CreateInsert(Clerk) /\ ~Door(d)!CreateRequest(Clerk) /\ ~Door(d)!CreateBind(Clerk)
         /\ ~Door(d)!CreateNoList(Clerk) /\ \A x \in DocsAt[d] : ~Door(d)!CreateList(Clerk, x)
    BY <1>1 DEF SerialFits, Door!CreateInsert, Door!CreateRequest, Door!CreateBind, Door!CreateNoList,
       Door!CreateList, Door!At
  <2> QED BY <1>10, <2>1, <2>2, <2>3, <2>4, <2>5, <2>6, <2>7, <2>8, <2>9, <2>10, <2>11 DEF Door!DoorStep
<1>11. CASE Door(d)!CaseStep(Clerk)
  <2>1. ASSUME NEW k \in Cases, NEW t \in Door(d)!Stages, NEW force \in BOOLEAN,
               Door(d)!AdvanceStart(Clerk, k, t, force)
        PROVE  Fits
    <3> DEFINE pc == IF t = LastAt[d] /\ ~force THEN "ad_count" ELSE "ad_write"
    <3>1. /\ call.pc = "idle"
          /\ v7'[Clerk] = [Door(d)!Idle EXCEPT !.case = k, !.target = t, !.flag = force, !.pc = pc]
      BY <1>1, <2>1, WhereStart DEF Door!AdvanceStart, Door!Advanced
    <3>2. /\ v7'[Clerk].pc = pc /\ v7'[Clerk].next = "new" /\ v7'[Clerk].case = k
          /\ v7'[Clerk].target = t /\ v7'[Clerk].flag = force
      <4> HIDE DEF pc
      <4> QED BY <1>4, <3>1
    <3>3. UNCHANGED <<v1, v2, v3, v4, v5, v6>> /\ k \in DoorOpened(v3)
      BY <1>3, <2>1 DEF Door!AdvanceStart, Door!docVars
    <3>4. t # 0
      BY DEF Door!Stages
    <3> HIDE DEF call
    <3> QED BY <1>1, <3>1, <3>2, <3>3, <3>4 DEF SerialFits
  <2>2. CASE Door(d)!AdvanceCount(Clerk)
    <3>1. call.pc = "ad_count" /\ UNCHANGED <<v1, v2, v3, v4, v5, v6>>
      BY <2>2 DEF Door!AdvanceCount, Door!At, Door!docVars
    <3>2. CASE Door(d)!End(Clerk)
      BY <1>6, <3>1, <3>2
    <3>3. CASE Door(d)!Outstanding(call.case) = {} /\ Door(d)!Goto(Clerk, "ad_write")
      <4>1. call.case \in DoorOpened(v3) /\ call.target # 0
        BY <1>1, <3>1 DEF SerialFits
      <4>2. v2 # NoCase /\ call.case = v2 /\ DoorBound(d, v4, v6, v2)
        BY <1>1, <3>1, <4>1 DEF SerialFits
      <4>3. DoorCleared(d, v4, v5)
        BY <1>3, <3>3, <4>2 DEF Door!Outstanding, DoorBound, DoorCleared
      <4>4. v7'[Clerk] = [call EXCEPT !.pc = "ad_write"]
        BY <1>1, <3>3, WhereGoto
      <4>5. /\ v7'[Clerk].pc = "ad_write" /\ v7'[Clerk].next = call.next /\ v7'[Clerk].case = call.case
            /\ v7'[Clerk].target = call.target
        BY <1>1, <4>4 DEF Door!CallType
      <4> HIDE DEF call
      <4> QED BY <1>1, <3>1, <4>1, <4>3, <4>5 DEF SerialFits
    <3> QED BY <2>2, <3>2, <3>3 DEF Door!AdvanceCount
  <2>3. CASE Door(d)!AdvanceWrite(Clerk)
    <3>1. /\ call.pc = "ad_write" /\ v3' = [v3 EXCEPT ![call.case] = call.target]
          /\ v7'[Clerk] = Door(d)!Idle /\ UNCHANGED <<v1, v2, v4, v5, v6>>
      BY <1>1, <2>3, WhereEnd DEF Door!AdvanceWrite, Door!At, Door!docVars
    <3>2. call.case \in DoorOpened(v3) /\ call.target # 0
      BY <1>1, <3>1 DEF SerialFits
    <3>3. DoorOpened(v3') = DoorOpened(v3)
      BY <1>2, <3>1, <3>2 DEF DoorOpened
    <3> HIDE DEF call
    <3> QED BY <1>1, <1>4, <3>1, <3>3 DEF SerialFits
  <2>4. ASSUME NEW k \in Cases, Door(d)!View(Clerk, k) PROVE Fits
    <3> DEFINE seen == {x \in Door(d)!Live : v6[x] = NoCase}
    <3>1. call.pc = "idle" /\ v7'[Clerk] = [Door(d)!Idle EXCEPT !.pc = "vw_stamp", !.case = k, !.docs = seen]
      BY <1>1, <2>4, WhereStart DEF Door!View
    <3>2. v7'[Clerk].pc = "vw_stamp" /\ v7'[Clerk].next = "new" /\ v7'[Clerk].case = k
      <4> HIDE DEF seen
      <4> QED BY <1>4, <3>1
    <3>3. UNCHANGED <<v1, v2, v3, v4, v5, v6>> /\ k \in DoorOpened(v3)
      BY <1>3, <2>4 DEF Door!View, Door!docVars
    <3> HIDE DEF call
    <3> QED BY <1>1, <3>1, <3>2, <3>3 DEF SerialFits
  <2>5. CASE Door(d)!ViewStamp(Clerk)
    <3>1. /\ call.pc = "vw_stamp" /\ v7'[Clerk] = Door(d)!Idle /\ UNCHANGED <<v1, v2, v3, v4, v5>>
          /\ v6' = [x \in DocsAt[d] |-> IF x \in call.docs \cap Door(d)!Live THEN call.case ELSE v6[x]]
      BY <1>1, <2>5, WhereEnd DEF Door!ViewStamp, Door!At
    <3>2. call.case \in DoorOpened(v3)
      BY <1>1, <3>1 DEF SerialFits
    <3>3. v2 # NoCase /\ call.case = v2 /\ DoorBound(d, v4, v6, v2)
      BY <1>1, <3>1, <3>2 DEF SerialFits
    <3>4. DoorBound(d, v4', v6', v2')
      BY <3>1, <3>3 DEF DoorBound, DoorLive
    <3> HIDE DEF call
    <3> QED BY <1>1, <1>4, <3>1, <3>4 DEF SerialFits
  <2>6. ASSUME NEW op, Door(d)!Start(Clerk, op, [Door(d)!Idle EXCEPT !.pc = "sy_count"]),
               DoorLive(d, v4') \subseteq DoorLive(d, v4), UNCHANGED <<v1, v2, v3, v5, v6>>
        PROVE  Fits
    <3>1. call.pc = "idle" /\ v7'[Clerk] = [Door(d)!Idle EXCEPT !.pc = "sy_count"]
      BY <1>1, <2>6, WhereStart
    <3>2. v7'[Clerk].pc = "sy_count" /\ v7'[Clerk].next = "new"
      BY <1>4, <3>1
    <3>3. v2 # NoCase => DoorBound(d, v4', v6', v2')
      BY <1>1, <2>6, <3>1 DEF SerialFits, DoorBound
    <3> HIDE DEF call
    <3> QED BY <1>1, <2>6, <3>1, <3>2, <3>3 DEF SerialFits
  <2>7. ASSUME NEW x \in DocsAt[d], NEW s \in Door(d)!DocumentStatus, Door(d)!Review(Clerk, x, s) PROVE Fits
    <3>1. DoorLive(d, v4') \subseteq DoorLive(d, v4)
      BY <1>2, <1>3, <2>7 DEF Door!Review, DoorLive
    <3> QED BY <2>6, <2>7, <3>1 DEF Door!Review
  <2>8. ASSUME NEW x \in DocsAt[d], Door(d)!Strike(Clerk, x) PROVE Fits
    <3>1. DoorLive(d, v4') \subseteq DoorLive(d, v4)
      BY <1>2, <1>3, <2>8 DEF Door!Strike, DoorLive
    <3> QED BY <2>6, <2>8, <3>1 DEF Door!Strike
  <2>9. CASE Door(d)!SyncCount(Clerk)
    <3> DEFINE pc == IF call.pc = "op_sync" THEN "op_syncwrite" ELSE "sy_write"
    <3>1. /\ call.pc \in {"sy_count", "op_sync"} /\ UNCHANGED <<v1, v2, v3, v4, v5, v6>>
          /\ v7' = [v7 EXCEPT ![Clerk].next = Door(d)!Derived, ![Clerk].pc = pc]
      BY <2>9 DEF Door!SyncCount, Door!At, Door!docVars
    <3>2. Door(d)!Derived \notin {"completed", "deleted"}
      BY DEF Door!Derived
    <3> HIDE DEF pc
    <3>3. v7'[Clerk] = [call EXCEPT !.next = Door(d)!Derived, !.pc = pc]
      BY <1>1, <1>2, <3>1
    <3>4. v7'[Clerk].pc = pc /\ v7'[Clerk].next = Door(d)!Derived /\ v7'[Clerk].case = call.case
      BY <1>1, <3>3 DEF Door!CallType
    <3>5. call.pc = "sy_count" => pc = "sy_write"
      BY DEF pc
    <3>6. call.pc = "op_sync" => pc = "op_syncwrite"
      BY DEF pc
    <3> HIDE DEF call
    <3> QED BY <1>1, <3>1, <3>2, <3>4, <3>5, <3>6 DEF SerialFits
  <2>10. CASE Door(d)!SyncWrite(Clerk)
    <3>1. CASE call.pc = "sy_write"
      BY <1>6, <2>10, <3>1 DEF Door!SyncWrite, Door!At, Door!docVars
    <3>2. CASE call.pc = "op_syncwrite"
      <4>1. /\ v1' = (IF v1 = "deleted" THEN "deleted" ELSE call.next) /\ UNCHANGED <<v2, v3, v4, v5, v6>>
            /\ v7' = [v7 EXCEPT ![Clerk].pc = "op_request", ![Clerk].next = "new"]
        BY <2>10, <3>2 DEF Door!SyncWrite, Door!At, Door!docVars, Door!SetRequest
      <4>2. v7'[Clerk] = [call EXCEPT !.pc = "op_request", !.next = "new"]
        BY <1>1, <1>2, <4>1
      <4>3. v7'[Clerk].pc = "op_request" /\ v7'[Clerk].next = "new" /\ v7'[Clerk].case = call.case
        BY <1>1, <4>2 DEF Door!CallType
      <4> HIDE DEF call
      <4> QED BY <1>1, <3>2, <4>1, <4>3 DEF SerialFits
    <3> QED BY <2>10, <3>1, <3>2 DEF Door!SyncWrite
  <2> QED BY <1>11, <2>1, <2>2, <2>3, <2>4, <2>5, <2>7, <2>8, <2>9, <2>10 DEF Door!CaseStep
<1>12. ~Door(d)!CallCut(Clerk)
  BY DEF Door!CallCut
<1> QED BY <1>9, <1>10, <1>11, <1>12 DEF Door!Next

\* What the call knows makes the promises of the door good.
LEMMA SerialPromises ==
  ASSUME NEW d, CallersAt[d] = {Clerk}, Door(d)!TypeOK, SerialFits(d, v7[Clerk], v1, v2, v3, v4, v5, v6)
  PROVE  Door(d)!OneCase /\ Door(d)!DocumentsFollowCase
<1>1. Door(d)!Live = DoorLive(d, v4) /\ Door(d)!Opened = DoorOpened(v3)
  BY DEF Door!Live, DoorLive, Door!Opened, DoorOpened
<1>2. DoorOpened(v3) = {} \/ \E k : DoorOpened(v3) = {k}
  BY DEF SerialFits
<1>3. Cardinality(DoorOpened(v3)) \in {0, 1}
  BY <1>2, FS_EmptySet, FS_Singleton
<1>4. Door(d)!OneCase
  BY <1>1, <1>3 DEF Door!OneCase, Door!Cardinality, Cardinality
<1>5. Door(d)!DocumentsFollowCase
  BY <1>1 DEF Door!DocumentsFollowCase, Door!Quiet, SerialFits, DoorBound, Door!BindPc
<1> QED BY <1>4, <1>5

LEMMA SerialSteps ==
  ASSUME NEW d, CallersAt[d] = {Clerk}, "create" \notin OpsAt[d], ~CrashAt[d], Door(d)!TypeOK,
         SerialFits(d, v7[Clerk], v1, v2, v3, v4, v5, v6), Door(d)!Next
  PROVE  Door(d)!ClosesOnApproved /\ Door(d)!CompletesOnApproved
<1>1. Door(d)!Live = DoorLive(d, v4) /\ Door(d)!With("approved") = {x \in DoorLive(d, v4) : v4[x] = "approved"}
  BY DEF Door!Live, DoorLive, Door!With
<1>2. Door(d)!ClosesOnApproved
  BY <1>1 DEF Door!ClosesOnApproved, Door!AdvanceWrite, Door!At, SerialFits, DoorCleared
<1>3. ASSUME v1 # "completed", v1' = "completed" PROVE DoorApproved(d, v4)
  <2>1. v7[Clerk].next # "completed"
    BY DEF SerialFits
  <2>2. ~Door(d)!RequestStep(Clerk)
    BY <1>3, <2>1 DEF Door!RequestStep, Door!AnswerStart, Door!AnswerWrite, Door!AskStart, Door!AskStatus,
       Door!AskInsert, Door!WithdrawStart, Door!WithdrawRows, Door!WithdrawRequest, Door!SetRequest
  <2>3. ~Door(d)!CaseStep(Clerk)
    BY <1>3, <2>1 DEF Door!CaseStep, Door!AdvanceStart, Door!AdvanceCount, Door!AdvanceWrite, Door!View,
       Door!ViewStamp, Door!Review, Door!Strike, Door!SyncCount, Door!SyncWrite, Door!SetRequest
  <2>4. ~Door(d)!CallCut(Clerk)
    BY DEF Door!CallCut
  <2>5. Door(d)!DoorStep(Clerk)
    BY <2>2, <2>3, <2>4 DEF Door!Next
  <2>6. v7[Clerk].pc = "co_request"
    BY <1>3, <2>5 DEF Door!DoorStep, Door!OpenStart, Door!OpenInsert, Door!OpenNoList, Door!OpenRequest,
       Door!OpenBind, Door!OpenList, Door!CompleteStart, Door!CompleteTotal, Door!CompleteApproved,
       Door!CompleteInsert, Door!CompleteRequest, Door!CompleteBind, Door!CreateStart, Door!CreateInsert,
       Door!CreateRequest, Door!CreateBind, Door!CreateNoList, Door!CreateList, Door!SetRequest, Door!At
  <2> QED BY <2>6 DEF SerialFits
<1>4. Door(d)!CompletesOnApproved
  BY <1>1, <1>3 DEF Door!CompletesOnApproved, DoorApproved
<1> QED BY <1>2, <1>4

-----------------------------------------------------------------------------
\* What holds of any door, and of the two that take one call at a time.
DoorOK(d) == Door(d)!TypeOK /\ Door(d)!PendingInv
FirstOK(d) == DoorOK(d) /\ Door(d)!FirstInv
SerialOK(d) == FirstOK(d) /\ Door(d)!SerialInv

LEMMA DoorInit ==
  ASSUME NEW d, Door(d)!CaseOpeningAssumption, Door(d)!Init PROVE DoorOK(d)
  BY DoorTypeInit, PendingInit DEF DoorOK

LEMMA DoorStep ==
  ASSUME NEW d, Door(d)!CaseOpeningAssumption, DoorOK(d), Door(d)!Next PROVE DoorOK(d)'
  BY DoorTypeStep, PendingStep DEF DoorOK

LEMMA DoorStay ==
  ASSUME NEW d, UNCHANGED <<v1, v2, v3, v4, v5, v6, v7>>
  PROVE  /\ DoorOK(d) => DoorOK(d)'
         /\ FirstOK(d) => FirstOK(d)'
         /\ SerialOK(d) => SerialOK(d)'
<1>1. Door(d)!TypeOK => Door(d)!TypeOK'
  BY DEF Door!TypeOK
<1>2. Door(d)!PendingInv => Door(d)!PendingInv'
  BY DEF Door!PendingInv, Door!Live, Door!Opened, Door!At
<1>3. Door(d)!FirstInv => Door(d)!FirstInv'
  BY DEF Door!FirstInv
<1>4. Door(d)!SerialInv => Door(d)!SerialInv'
  BY DEF Door!SerialInv, Door!Live, Door!Opened, Door!At, Door!With
<1> QED BY <1>1, <1>2, <1>3, <1>4 DEF DoorOK, FirstOK, SerialOK

-----------------------------------------------------------------------------
\* The desks together.
DesksOK ==
  /\ desk = "pending" => DoorOK("pending")
  /\ desk = "beside" => FirstOK("beside")
  /\ desk = "serial" => SerialOK("serial")
  /\ desk = "deliveries" => WorkOK
  /\ desk = "file" => FileOK
  /\ desk = "areas" => AreasOK

LEMMA DesksConstants ==
  /\ Door("pending")!CaseOpeningAssumption /\ "create" \notin OpsAt["pending"]
  /\ Door("beside")!CaseOpeningAssumption /\ CallersAt["beside"] = {Clerk}
  /\ Door("serial")!CaseOpeningAssumption /\ CallersAt["serial"] = {Clerk}
  /\ "create" \notin OpsAt["serial"] /\ ~CrashAt["serial"]
  /\ Work!PartnerWorkAssumption
<1>1. CallersAt["beside"] = {Clerk} /\ CallersAt["serial"] = {Clerk}
  BY DEF CallersAt
<1> QED BY <1>1, DesksAssumption

LEMMA DesksInit == CaseworkInit => DesksOK
<1> SUFFICES ASSUME CaseworkInit PROVE DesksOK
  OBVIOUS
<1>1. CASE desk = "pending"
  BY <1>1, DoorInit, DesksConstants DEF CaseworkInit, DesksOK
<1>2. CASE desk = "beside"
  <2>1. DoorOK("beside") /\ Door("beside")!Init
    BY <1>2, DoorInit, DesksConstants DEF CaseworkInit
  <2>2. Door("beside")!FirstInv
    BY <2>1 DEF Door!Init, Door!FirstInv
  <2> QED BY <1>2, <2>1, <2>2 DEF DesksOK, FirstOK
<1>3. CASE desk = "serial"
  <2>1. DoorOK("serial") /\ Door("serial")!Init
    BY <1>3, DoorInit, DesksConstants DEF CaseworkInit
  <2>2. Door("serial")!FirstInv /\ Door("serial")!SerialInv
    BY <2>1, SerialInit, DesksConstants
  <2> QED BY <1>3, <2>1, <2>2 DEF DesksOK, FirstOK, SerialOK
<1>4. CASE desk = "deliveries"
  BY <1>4, WorkInit, DesksConstants DEF CaseworkInit, DesksOK
<1>6. CASE desk = "file"
  BY <1>6, FileInit DEF CaseworkInit, DesksOK
<1>7. CASE desk = "areas"
  BY <1>7, AreasInit DEF CaseworkInit, DesksOK
<1>8. desk \in {"pending", "beside", "serial", "deliveries", "file", "areas"}
  BY DEF CaseworkInit
<1> QED BY <1>1, <1>2, <1>3, <1>4, <1>6, <1>7, <1>8

LEMMA DesksStep == DesksOK /\ [CaseworkNext]_caseworkVars => DesksOK'
<1> SUFFICES ASSUME DesksOK, [CaseworkNext]_caseworkVars PROVE DesksOK'
  OBVIOUS
<1>1. CASE AtPending
  <2>1. DoorOK("pending")'
    BY <1>1, DoorStep, DesksConstants DEF AtPending, DesksOK
  <2> QED BY <1>1, <2>1 DEF AtPending, DesksOK
<1>2. CASE AtBeside
  <2>1. FirstOK("beside") /\ Door("beside")!Next
    BY <1>2 DEF AtBeside, DesksOK
  <2>2. DoorOK("beside")'
    BY <2>1, DoorStep, DesksConstants DEF FirstOK
  <2>3. Door("beside")!FirstInv'
    BY <2>1, FirstStep, DesksConstants DEF FirstOK, DoorOK
  <2> QED BY <1>2, <2>2, <2>3 DEF AtBeside, DesksOK, FirstOK
<1>3. CASE AtSerial
  <2>1. SerialOK("serial") /\ Door("serial")!Next
    BY <1>3 DEF AtSerial, DesksOK
  <2>2. DoorOK("serial")'
    BY <2>1, DoorStep, DesksConstants DEF SerialOK, FirstOK
  <2>3. SerialFits("serial", v7[Clerk], v1, v2, v3, v4, v5, v6)
    BY <2>1, SerialFacts, DesksConstants DEF SerialOK, FirstOK
  <2>4. SerialFits("serial", v7'[Clerk], v1', v2', v3', v4', v5', v6')
    BY <2>1, <2>3, SerialStep, DesksConstants DEF SerialOK, FirstOK, DoorOK
  <2>5. Door("serial")!FirstInv' /\ Door("serial")!SerialInv'
    BY <2>4, SerialAgain, DesksConstants
  <2> QED BY <1>3, <2>2, <2>5 DEF AtSerial, DesksOK, SerialOK, FirstOK
<1>4. CASE AtDeliveries
  <2>1. WorkOK'
    BY <1>4, WorkStep, DesksConstants DEF AtDeliveries, DesksOK, Work!Next
  <2> QED BY <1>4, <2>1 DEF AtDeliveries, DesksOK
<1>6. CASE AtFile
  <2>1. FileOK'
    BY <1>6, FileStep DEF AtFile, DesksOK
  <2> QED BY <1>6, <2>1 DEF AtFile, DesksOK
<1>7. CASE AtAreas
  <2>1. AreasOK'
    BY <1>7, AreasStep DEF AtAreas, DesksOK
  <2> QED BY <1>7, <2>1 DEF AtAreas, DesksOK
<1>8. CASE UNCHANGED caseworkVars
  <2>1. desk' = desk /\ UNCHANGED <<v1, v2, v3, v4, v5, v6, v7>> /\ UNCHANGED <<v1, v2, v3, v4, v5, v6>>
    BY <1>8 DEF caseworkVars, atDesk
  <2>2. /\ desk = "pending" => DoorOK("pending")'
        /\ desk = "beside" => FirstOK("beside")'
        /\ desk = "serial" => SerialOK("serial")'
    BY <2>1, DoorStay DEF DesksOK
  <2>3. desk = "deliveries" => WorkOK'
    BY <2>1, WorkStay DEF DesksOK
  <2>4. desk = "file" => FileOK'
    BY <2>1, FileStay DEF DesksOK
  <2>5. desk = "areas" => AreasOK'
    BY <2>1, AreasStay DEF DesksOK
  <2> QED BY <2>1, <2>2, <2>3, <2>4, <2>5 DEF DesksOK
<1> QED BY <1>1, <1>2, <1>3, <1>4, <1>6, <1>7, <1>8 DEF CaseworkNext

LEMMA DesksAlways == CaseworkSpec => []DesksOK
  BY DesksInit, DesksStep, PTL DEF CaseworkSpec

\* The variables of every desk keep their types: the request, its cases and
\* documents, the tasks and what is delivered on them, the record of a case, the
\* rows of the catalogue, and the calls in flight on each.
THEOREM CaseworkKeepsTypes == CaseworkSpec => []CaseworkTyped
<1>1. DesksOK => CaseworkTyped
  BY DEF DesksOK, CaseworkTyped, SerialOK, FirstOK, DoorOK, WorkOK, FileOK, AreasOK
<1> QED BY <1>1, DesksAlways, PTL

\* With open_case and complete_consultation as the only doors, a request nobody
\* has accepted yet is asked for no document and has no case, whatever calls are
\* in flight and wherever a worker dies (requests/service.py:802, 873).
THEOREM PendingIsUntouched == CaseworkSpec => []PendingUntouched
<1>1. DesksOK => PendingUntouched
  BY DesksConstants DEF DesksOK, PendingUntouched, DoorOK, Door!PendingInv, Door!PendingUntouched
<1> QED BY <1>1, DesksAlways, PTL

\* One call at a time, a request is turned into one case by either door, and once
\* it names its case every document of it, those on the case's checklist and those
\* asked for later included, is bound to that case (requests/service.py:802, 873).
THEOREM CaseAlwaysFollows == CaseworkSpec => []CaseFollowsRequest
<1>1. DesksOK => CaseFollowsRequest
  <2> SUFFICES ASSUME DesksOK, desk = "serial"
               PROVE  Door("serial")!OneCase /\ Door("serial")!DocumentsFollowCase
    BY DEF CaseFollowsRequest
  <2>1. SerialOK("serial")
    BY DEF DesksOK
  <2>2. SerialFits("serial", v7[Clerk], v1, v2, v3, v4, v5, v6)
    BY <2>1, SerialFacts, DesksConstants DEF SerialOK, FirstOK
  <2> QED BY <2>1, <2>2, SerialPromises, DesksConstants DEF SerialOK, FirstOK, DoorOK
<1> QED BY <1>1, DesksAlways, PTL

\* However deliveries and removals interleave, a file a task lists as delivered is
\* stored, or the call that is removing it has only the entry left to take away
\* (tasks/service.py:207, 250).
THEOREM DeliveredIsStored == CaseworkSpec => []DeliverableStored
<1>1. DesksOK => DeliverableStored
  BY DEF DesksOK, DeliverableStored, WorkOK, Work!DeliverInv
<1> QED BY <1>1, DesksAlways, PTL

\* With one change of stage at a time the calendar chases the stage the case is
\* in (cases/service.py:386), and however attachments are added and removed one
\* the request lists opens, but for one that a PATCH put back, from a list read
\* before it was taken off (requests/service.py:685, 637).
THEOREM FileIsKept == CaseworkSpec => []FileKept
<1>1. DesksOK => FileKept
  BY DEF DesksOK, FileKept, FileOK, File!FileInv
<1> QED BY <1>1, DesksAlways, PTL

\* However many first readers race to seed the catalogue, whoever is served finds
\* one row for each default area, and an area for every procedure that is listed
\* (catalog/service.py:74).
THEOREM AreasAreOnce == CaseworkSpec => []AreasOnce
<1>1. DesksOK => AreasOnce
  BY AreasServed DEF DesksOK, AreasOnce
<1> QED BY <1>1, DesksAlways, PTL

\* No step takes over a request that has its case by POST /cases
\* (cases/service.py:169), closes a case or completes a consultation over an
\* unapproved document when calls come one at a time (cases/service.py:357,
\* requests/service.py:905), or writes a guess over what a person answered
\* (cases/service.py:478).
THEOREM CaseStepsAreKept == CaseworkSpec => CaseStepsKept
<1> DEFINE StepsKept == /\ desk = "beside" => Door("beside")!KeepsFirstCase
                        /\ desk = "serial" => Door("serial")!ClosesOnApproved /\ Door("serial")!CompletesOnApproved
                        /\ desk = "file" => File!KeepsAnswers
<1>1. DesksOK /\ CaseworkNext => StepsKept
  <2> SUFFICES ASSUME DesksOK, CaseworkNext PROVE StepsKept
    OBVIOUS
  <2>1. ASSUME desk = "beside" PROVE Door("beside")!KeepsFirstCase
    <3>1. FirstOK("beside") /\ Door("beside")!Next
      BY <2>1 DEF DesksOK, CaseworkNext, AtPending, AtBeside, AtSerial, AtDeliveries, AtFile,
         AtAreas
    <3> QED BY <3>1, FirstStep, DesksConstants DEF FirstOK, DoorOK
  <2>2. ASSUME desk = "serial"
        PROVE  Door("serial")!ClosesOnApproved /\ Door("serial")!CompletesOnApproved
    <3>1. SerialOK("serial") /\ Door("serial")!Next
      BY <2>2 DEF DesksOK, CaseworkNext, AtPending, AtBeside, AtSerial, AtDeliveries, AtFile,
         AtAreas
    <3>2. SerialFits("serial", v7[Clerk], v1, v2, v3, v4, v5, v6)
      BY <3>1, SerialFacts, DesksConstants DEF SerialOK, FirstOK
    <3> QED BY <3>1, <3>2, SerialSteps, DesksConstants DEF SerialOK, FirstOK, DoorOK
  <2>3. ASSUME desk = "file" PROVE File!KeepsAnswers
    <3>1. FileOK /\ File!Next
      BY <2>3 DEF DesksOK, CaseworkNext, AtPending, AtBeside, AtSerial, AtDeliveries, AtFile,
         AtAreas
    <3> QED BY <3>1, FileAnswers
  <2> QED BY <2>1, <2>2, <2>3
<1>2. DesksOK /\ [CaseworkNext]_caseworkVars => [StepsKept]_caseworkVars
  BY <1>1
<1> HIDE DEF StepsKept
<1>3. CaseworkSpec => [][StepsKept]_caseworkVars
  BY <1>2, DesksAlways, PTL DEF CaseworkSpec
<1> QED BY <1>3 DEF CaseStepsKept, StepsKept

=============================================================================
