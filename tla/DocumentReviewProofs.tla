------------------------ MODULE DocumentReviewProofs ------------------------
(***************************************************************************)
(* Theorems about DocumentReview, for any number of documents, files and   *)
(* calls in flight, with refused uploads and worker deaths included; the   *)
(* last two, about orphans and the abstract desk, are about one call at a  *)
(* time and no worker that dies.                                           *)
(***************************************************************************)
EXTENDS DocumentReview, FiniteSetTheorems, TLAPS

-----------------------------------------------------------------------------
\* How a call moves on keeps the type of the calls.

LEMMA IdleType == Idle \in CallType
  BY DEF Idle, CallType, CallFields, StoringPc, Pc, SyncStatus

LEMMA GotoType ==
  ASSUME TypeOK, NEW c \in Calls, NEW pc \in Pc, Goto(c, pc),
         pc \in StoringPc => calls[c].pc \in StoringPc
  PROVE  calls' \in [Calls -> CallType]
<1>1. calls \in [Calls -> CallType]
  BY DEF TypeOK
<1>2. [calls[c] EXCEPT !.pc = pc] \in CallType
  BY <1>1 DEF CallType, CallFields
<1> QED BY <1>1, <1>2 DEF Goto

LEMMA EndType ==
  ASSUME TypeOK, NEW c \in Calls, End(c)
  PROVE  calls' \in [Calls -> CallType]
  BY IdleType DEF TypeOK, End

LEMMA ToSyncType ==
  ASSUME TypeOK, NEW c \in Calls, ToSync(c)
  PROVE  calls' \in [Calls -> CallType]
  BY DEF TypeOK, ToSync, Idle, CallType, CallFields, StoringPc, Pc, SyncPc, SyncStatus

LEMMA StartType ==
  ASSUME TypeOK, NEW c \in Calls, NEW op, NEW rec \in CallType, Start(c, op, rec)
  PROVE  calls' \in [Calls -> CallType]
  BY DEF TypeOK, Start

LEMMA JobGotoType ==
  ASSUME TypeOK, NEW b \in Blobs, NEW pc \in JobPc, JobGoto(b, pc)
  PROVE  job' \in [Blobs -> JobType]
  BY DEF TypeOK, JobGoto, JobType

LEMMA AnalysisType ==
  ASSUME TypeOK, NEW d, NEW s \in AnalysisState, NEW b \in Blobs \cup {NoFile},
         WriteAnalysis(d, s, b)
  PROVE  analysis' \in [Docs -> [state: AnalysisState, of: Blobs \cup {NoFile}]]
  BY DEF TypeOK, WriteAnalysis

\* _sync_request_status counts numbers of rows.
LEMMA CountType == ASSUME NEW S \in SUBSET Docs PROVE Cardinality(S) \in Nat
  BY DocsAssumption, FS_Subset, FS_CardinalityType

-----------------------------------------------------------------------------
LEMMA TypeInit == Init => TypeOK
  BY IdleType, DocsAssumption
  DEF Init, TypeOK, DocumentStatus, AnalysisState, RequestStatus, SyncStatus, JobType, JobPc

LEMMA TypeStep == TypeOK /\ [Next]_vars => TypeOK'
<1> SUFFICES ASSUME TypeOK, [Next]_vars PROVE TypeOK'
  OBVIOUS
<1> USE DEF rowVars, deadlineVars
<1>1. ASSUME NEW c \in Calls, CallStep(c) PROVE TypeOK'
  <2>1. ASSUME NEW d \in Docs, NEW b \in Blobs, UploadStart(c, d, b) PROVE TypeOK'
    <3> DEFINE rec == [Idle EXCEPT !.pc = IF file[d] = NoFile THEN "up_save" ELSE "up_drop",
                                   !.doc = d, !.old = file[d], !.new = b]
    <3>1. rec \in CallType
      BY DEF Idle, CallType, CallFields, StoringPc, Pc, UploadPc, SyncStatus, TypeOK
    <3>2. calls' \in [Calls -> CallType]
      <4> HIDE DEF rec
      <4>1. Start(c, "upload", rec)
        BY <2>1 DEF UploadStart, rec
      <4> QED BY <4>1, <3>1, StartType
    <3> QED BY <2>1, <3>2 DEF TypeOK, UploadStart
  <2>2. CASE UploadDrop(c)
    <3>1. calls' \in [Calls -> CallType]
      BY <2>2, GotoType DEF UploadDrop, StoringPc, Pc, UploadPc
    <3> QED BY <2>2, <3>1 DEF TypeOK, UploadDrop
  <2>3. CASE UploadSave(c)
    <3>1. calls' \in [Calls -> CallType]
      BY <2>3, GotoType DEF UploadSave, StoringPc, Pc, UploadPc
    <3>2. blobs' \subseteq Blobs
      BY <2>3, BlobsAssumption DEF UploadSave, TypeOK, CallType, StoringPc
    <3> QED BY <2>3, <3>1, <3>2 DEF TypeOK, UploadSave
  <2>4. CASE UploadRefused(c)
    <3>1. calls' \in [Calls -> CallType]
      BY <2>4, EndType DEF UploadRefused
    <3> QED BY <2>4, <3>1 DEF TypeOK, UploadRefused, Hands
  <2>5. CASE UploadWrite(c)
    <3>1. calls' \in [Calls -> CallType]
      BY <2>5, GotoType DEF UploadWrite, StoringPc, Pc, UploadPc
    <3>2. calls[c] \in CallType
      BY DEF TypeOK
    <3>3. /\ status' \in [Docs -> DocumentStatus]
          /\ file' \in [Docs -> Blobs \cup {NoFile}]
          /\ lost' \subseteq Docs
      BY <2>5, <3>2 DEF TypeOK, UploadWrite, CallType, CallFields, StoringPc, DocumentStatus
    <3>4. analysis' \in [Docs -> [state: AnalysisState, of: Blobs \cup {NoFile}]]
      BY <2>5, <3>2 DEF TypeOK, UploadWrite, CallType, CallFields, StoringPc, AnalysisState
    <3>5. job' \in [Blobs -> JobType]
      BY <2>5, <3>2 DEF TypeOK, UploadWrite, CallType, CallFields, JobType, JobPc
    <3> QED BY <2>5, <3>1, <3>3, <3>4, <3>5 DEF TypeOK, UploadWrite
  <2>6. CASE UploadClear(c)
    <3>1. calls' \in [Calls -> CallType]
      BY <2>6, ToSyncType DEF UploadClear
    <3> QED BY <2>6, <3>1 DEF TypeOK, UploadClear
  <2>7. ASSUME NEW d \in Docs, ApproveStart(c, d) PROVE TypeOK'
    <3> DEFINE rec == [Idle EXCEPT !.pc = "ap_write", !.doc = d]
    <3>1. rec \in CallType
      BY DEF Idle, CallType, CallFields, StoringPc, Pc, DecidePc, SyncStatus, TypeOK
    <3>2. calls' \in [Calls -> CallType]
      <4> HIDE DEF rec
      <4>1. Start(c, "approve", rec)
        BY <2>7 DEF ApproveStart, rec
      <4> QED BY <4>1, <3>1, StartType
    <3> QED BY <2>7, <3>2 DEF TypeOK, ApproveStart
  <2>8. ASSUME NEW d \in Docs, RejectStart(c, d) PROVE TypeOK'
    <3> DEFINE rec == [Idle EXCEPT !.pc = "rj_write", !.doc = d]
    <3>1. rec \in CallType
      BY DEF Idle, CallType, CallFields, StoringPc, Pc, DecidePc, SyncStatus, TypeOK
    <3>2. calls' \in [Calls -> CallType]
      <4> HIDE DEF rec
      <4>1. Start(c, "reject", rec)
        BY <2>8 DEF RejectStart, rec
      <4> QED BY <4>1, <3>1, StartType
    <3> QED BY <2>8, <3>2 DEF TypeOK, RejectStart
  <2>9. CASE ApproveWrite(c)
    <3>1. calls' \in [Calls -> CallType]
      BY <2>9, ToSyncType DEF ApproveWrite, Decide, DocumentStatus
    <3> QED BY <2>9, <3>1 DEF TypeOK, ApproveWrite, Decide, DocumentStatus
  <2>10. CASE RejectWrite(c)
    <3>1. calls' \in [Calls -> CallType]
      BY <2>10, ToSyncType DEF RejectWrite, Decide, DocumentStatus
    <3> QED BY <2>10, <3>1 DEF TypeOK, RejectWrite, Decide, DocumentStatus
  <2>11. CASE SyncTotal(c)
    <3> DEFINE rec == [calls[c] EXCEPT !.total = Cardinality(Live), !.pc = "sy_approved"]
    <3>1. calls[c] \in CallType
      BY DEF TypeOK
    <3>2. rec \in CallType
      BY <3>1, CountType DEF CallType, CallFields, StoringPc, Pc, SyncPc, Live, SyncStatus, TypeOK
    <3>3. calls' = [calls EXCEPT ![c] = rec]
      BY <2>11 DEF SyncTotal, TypeOK
    <3> QED BY <2>11, <3>2, <3>3 DEF TypeOK, SyncTotal
  <2>12. CASE SyncApproved(c)
    <3> DEFINE full == calls[c].total # 0 /\ Cardinality(LiveWith("approved")) = calls[c].total
               rec == [calls[c] EXCEPT !.all = full, !.total = 0, !.pc = "sy_awaiting"]
    <3>1. calls[c] \in CallType /\ full \in BOOLEAN
      BY DEF TypeOK
    <3>2. calls' = [calls EXCEPT ![c] = rec]
      BY <2>12 DEF SyncApproved, TypeOK
    <3>3. rec \in CallType
      <4> HIDE DEF full
      <4> QED BY <3>1 DEF CallType, CallFields, StoringPc, Pc, SyncPc
    <3> QED BY <2>12, <3>2, <3>3 DEF TypeOK, SyncApproved
  <2>13. CASE SyncAwaiting(c)
    <3> DEFINE sum == IF calls[c].all THEN "under_review"
                      ELSE IF LiveWith("with_consultant") # {} THEN "documents_received"
                      ELSE "waiting_for_client"
               rec == [calls[c] EXCEPT !.next = sum, !.all = FALSE, !.pc = "sy_write"]
    <3>1. calls[c] \in CallType
      BY DEF TypeOK
    <3>2. sum \in SyncStatus
      BY Zenon DEF SyncStatus
    <3>3. calls' = [calls EXCEPT ![c] = rec]
      BY <2>13 DEF SyncAwaiting, TypeOK
    <3>4. rec \in CallType
      <4> HIDE DEF sum
      <4> QED BY <3>1, <3>2 DEF CallType, CallFields, StoringPc, Pc, SyncPc
    <3>5. calls' \in [Calls -> CallType]
      <4> HIDE DEF rec
      <4> QED BY <3>3, <3>4 DEF TypeOK
    <3> QED BY <2>13, <3>5 DEF TypeOK, SyncAwaiting
  <2>14. CASE SyncWrite(c)
    <3>1. calls' \in [Calls -> CallType]
      BY <2>14, EndType DEF SyncWrite
    <3>2. calls[c].next \in RequestStatus
      BY DEF TypeOK, CallType, CallFields, RequestStatus
    <3> QED BY <2>14, <3>1, <3>2 DEF TypeOK, SyncWrite, SetRequest, RequestStatus
  <2>15. ASSUME NEW d \in Docs, ReanalyzeStart(c, d) PROVE TypeOK'
    <3> DEFINE rec == [Idle EXCEPT !.pc = "re_read", !.doc = d, !.old = file[d]]
    <3>1. rec \in CallType
      BY DEF Idle, CallType, CallFields, StoringPc, Pc, ReanalyzePc, SyncStatus, TypeOK
    <3>2. calls' \in [Calls -> CallType]
      <4> HIDE DEF rec
      <4>1. Start(c, "reanalyze", rec)
        BY <2>15 DEF ReanalyzeStart, rec
      <4> QED BY <4>1, <3>1, StartType
    <3> QED BY <2>15, <3>2 DEF TypeOK, ReanalyzeStart
  <2>16. CASE ReanalyzeRead(c)
    <3>1. calls' \in [Calls -> CallType]
      BY <2>16, GotoType, EndType DEF ReanalyzeRead, StoringPc, Pc, ReanalyzePc
    <3> QED BY <2>16, <3>1 DEF TypeOK, ReanalyzeRead
  <2>17. CASE ReanalyzeAnswer(c)
    <3>1. calls' \in [Calls -> CallType]
      BY <2>17, GotoType DEF ReanalyzeAnswer, StoringPc, Pc, ReanalyzePc
    <3>2. analysis' \in [Docs -> [state: AnalysisState, of: Blobs \cup {NoFile}]]
      BY <2>17, AnalysisType DEF ReanalyzeAnswer, TypeOK, CallType, CallFields, AnalysisState
    <3> QED BY <2>17, <3>1, <3>2 DEF TypeOK, ReanalyzeAnswer
  <2>18. CASE ReanalyzeTrack(c)
    <3>1. calls' \in [Calls -> CallType]
      BY <2>18, EndType DEF ReanalyzeTrack
    <3>2. expiry' \in [Docs -> Blobs \cup {NoFile}]
      BY <2>18 DEF ReanalyzeTrack, TrackExpiry, TypeOK, CallType, CallFields
    <3> QED BY <2>18, <3>1, <3>2 DEF TypeOK, ReanalyzeTrack
  <2>19. ASSUME NEW d \in Docs, DeleteStart(c, d) PROVE TypeOK'
    <3> DEFINE rec == [Idle EXCEPT !.pc = IF file[d] = NoFile THEN "de_row" ELSE "de_drop",
                                   !.doc = d, !.old = file[d]]
    <3>1. rec \in CallType
      BY DEF Idle, CallType, CallFields, StoringPc, Pc, DeletePc, SyncStatus, TypeOK
    <3>2. calls' \in [Calls -> CallType]
      <4> HIDE DEF rec
      <4>1. Start(c, "delete", rec)
        BY <2>19 DEF DeleteStart, rec
      <4> QED BY <4>1, <3>1, StartType
    <3> QED BY <2>19, <3>2 DEF TypeOK, DeleteStart
  <2>20. CASE DeleteDrop(c)
    <3>1. calls' \in [Calls -> CallType]
      BY <2>20, GotoType DEF DeleteDrop, StoringPc, Pc, DeletePc
    <3> QED BY <2>20, <3>1 DEF TypeOK, DeleteDrop
  <2>21. CASE DeleteRow(c)
    <3>1. calls' \in [Calls -> CallType]
      BY <2>21, GotoType DEF DeleteRow, StoringPc, Pc, DeletePc
    <3> QED BY <2>21, <3>1 DEF TypeOK, DeleteRow
  <2>22. CASE DeleteDeadlines(c)
    <3>1. calls' \in [Calls -> CallType]
      BY <2>22, ToSyncType DEF DeleteDeadlines
    <3> QED BY <2>22, <3>1 DEF TypeOK, DeleteDeadlines
  <2>23. ASSUME NEW d \in Docs, AskStart(c, d) PROVE TypeOK'
    <3> DEFINE rec == [Idle EXCEPT !.pc = "as_insert", !.doc = d]
    <3>1. rec \in CallType
      BY DEF Idle, CallType, CallFields, StoringPc, Pc, AskPc, SyncStatus, TypeOK
    <3>2. calls' \in [Calls -> CallType]
      <4> HIDE DEF rec
      <4>1. Start(c, "ask", rec)
        BY <2>23 DEF AskStart, rec
      <4> QED BY <4>1, <3>1, StartType
    <3> QED BY <2>23, <3>2 DEF TypeOK, AskStart
  <2>24. CASE AskInsert(c)
    <3>1. calls' \in [Calls -> CallType]
      BY <2>24, GotoType DEF AskInsert, StoringPc, Pc, AskPc
    <3> QED BY <2>24, <3>1 DEF TypeOK, AskInsert
  <2>25. CASE AskDeadline(c)
    <3>1. calls' \in [Calls -> CallType]
      BY <2>25, GotoType DEF AskDeadline, StoringPc, Pc, AskPc
    <3> QED BY <2>25, <3>1 DEF TypeOK, AskDeadline
  <2>26. CASE AskStatus(c)
    <3>1. calls' \in [Calls -> CallType]
      BY <2>26, EndType DEF AskStatus
    <3> QED BY <2>26, <3>1 DEF TypeOK, AskStatus, SetRequest, RequestStatus, SyncStatus
  <2>27. CASE WithdrawStart(c)
    <3> DEFINE rec == [Idle EXCEPT !.pc = "wd_find"]
    <3>1. rec \in CallType
      BY DEF Idle, CallType, CallFields, StoringPc, Pc, WithdrawPc, SyncStatus, TypeOK
    <3>2. calls' \in [Calls -> CallType]
      <4> HIDE DEF rec
      <4>1. Start(c, "withdraw", rec)
        BY <2>27 DEF WithdrawStart, rec
      <4> QED BY <4>1, <3>1, StartType
    <3> QED BY <2>27, <3>2 DEF TypeOK, WithdrawStart
  <2>28. CASE WithdrawFind(c)
    <3> DEFINE rec == [calls[c] EXCEPT !.drop = {file[e] : e \in Live} \ {NoFile}, !.pc = "wd_drop"]
    <3>0. {file[e] : e \in Live} \ {NoFile} \subseteq Blobs
      BY DEF Live, TypeOK
    <3>1. calls[c] \in CallType
      BY DEF TypeOK
    <3>2. rec \in CallType
      BY <3>1, <3>0 DEF CallType, CallFields, StoringPc, Pc, WithdrawPc, Live, SyncStatus, TypeOK
    <3>3. calls' = [calls EXCEPT ![c] = rec]
      BY <2>28 DEF WithdrawFind, TypeOK
    <3> QED BY <2>28, <3>2, <3>3 DEF TypeOK, WithdrawFind
  <2>29. ASSUME NEW b \in Blobs, WithdrawDrop(c, b) PROVE TypeOK'
    <3> DEFINE rec == [calls[c] EXCEPT !.drop = calls[c].drop \ {b}]
    <3>1. calls[c] \in CallType
      BY DEF TypeOK
    <3>2. rec \in CallType
      BY <3>1 DEF CallType, CallFields
    <3>3. calls' = [calls EXCEPT ![c] = rec]
      BY <2>29 DEF WithdrawDrop, TypeOK
    <3> QED BY <2>29, <3>2, <3>3 DEF TypeOK, WithdrawDrop
  <2>30. CASE WithdrawRows(c)
    <3>1. calls' \in [Calls -> CallType]
      BY <2>30, GotoType DEF WithdrawRows, StoringPc, Pc, WithdrawPc
    <3> QED BY <2>30, <3>1 DEF TypeOK, WithdrawRows
  <2>31. CASE WithdrawRequest(c)
    <3>1. calls' \in [Calls -> CallType]
      BY <2>31, EndType DEF WithdrawRequest
    <3> QED BY <2>31, <3>1 DEF TypeOK, WithdrawRequest, RequestStatus
  <2>32. CASE CallCut(c)
    <3>1. calls' \in [Calls -> CallType]
      BY <2>32, EndType DEF CallCut
    <3> QED BY <2>32, <3>1 DEF TypeOK, CallCut, Hands
  <2> QED BY <1>1, <2>1, <2>2, <2>3, <2>4, <2>5, <2>6, <2>7, <2>8, <2>9, <2>10, <2>11, <2>12, <2>13, <2>14, <2>15, <2>16, <2>17, <2>18, <2>19, <2>20, <2>21, <2>22, <2>23, <2>24, <2>25, <2>26, <2>27, <2>28, <2>29, <2>30, <2>31, <2>32 DEF CallStep
<1>2. ASSUME NEW b \in Blobs, JobStep(b) \/ JobCut(b) PROVE TypeOK'
  <2>1. job[b] \in JobType
    BY DEF TypeOK
  <2>2. CASE JobRead(b)
    BY <2>2, JobGotoType DEF TypeOK, JobRead, JobPc
  <2>3. CASE JobAnswer(b)
    <3>1. analysis' \in [Docs -> [state: AnalysisState, of: Blobs \cup {NoFile}]]
      BY <2>3 DEF JobAnswer, WriteAnalysis, AnalysisState, TypeOK
    <3> QED BY <2>3, <3>1, JobGotoType DEF TypeOK, JobAnswer, JobPc
  <2>4. CASE JobTrack(b)
    <3>1. expiry' \in [Docs -> Blobs \cup {NoFile}]
      <4>1. PICK x \in {b, NoFile} : expiry' = [expiry EXCEPT ![job[b].doc] = x]
        BY <2>4 DEF JobTrack, TrackExpiry
      <4> QED BY <4>1 DEF TypeOK
    <3> QED BY <2>4, <3>1, JobGotoType DEF TypeOK, JobTrack, JobPc
  <2>5. CASE JobGarbled(b)
    BY <2>5, JobGotoType DEF TypeOK, JobGarbled, JobPc
  <2>6. CASE JobFail(b)
    <3>1. analysis' \in [Docs -> [state: AnalysisState, of: Blobs \cup {NoFile}]]
      BY <2>6 DEF JobFail, WriteAnalysis, AnalysisState, TypeOK
    <3> QED BY <2>6, <3>1, JobGotoType DEF TypeOK, JobFail, JobPc
  <2>7. CASE JobCut(b)
    BY <2>7, JobGotoType DEF TypeOK, JobCut, JobPc
  <2> QED BY <1>2, <2>2, <2>3, <2>4, <2>5, <2>6, <2>7 DEF JobStep
<1>3. CASE UNCHANGED vars
  BY <1>3 DEF vars, TypeOK
<1> QED BY <1>1, <1>2, <1>3 DEF Next

\* Every value stays in its type, the counts of the status sync included.
THEOREM TypeCorrect == Spec => []TypeOK
<1>1. Init => TypeOK
  BY TypeInit
<1>2. TypeOK /\ [Next]_vars => TypeOK'
  BY TypeStep
<1> QED BY <1>1, <1>2, PTL DEF Spec
-----------------------------------------------------------------------------
\* Files.

LEMMA NewIsFile ==
  ASSUME TypeOK, NEW c \in Calls, Storing(c)
  PROVE  calls[c].new \in Blobs /\ calls[c].new # NoFile
  BY BlobsAssumption DEF TypeOK, Storing, CallType

LEMMA FileInit == Init => FileInv
  BY DEF Init, FileInv, FilesDrawn, NewFilePrivate, NewFileSaved, SnapshotOwn, UnbornEmpty,
         FilesNotShared, FilesKept, Dangling, Idle, Storing, StoringPc

\* A call that moves on without touching rows or files, and lets go of no
\* document it has in hand, disturbs nothing.
LEMMA FileHarmless ==
  ASSUME TypeOK, FileInv, NEW c \in Calls,
         \A o \in Calls : o # c => calls'[o] = calls[o],
         calls'[c].pc \notin StoringPc \cup {"as_insert", "de_drop", "de_row"},
         calls'[c].drop \subseteq calls[c].drop,
         calls'[c].old = NoFile \/ (calls'[c].old = calls[c].old /\ calls'[c].doc = calls[c].doc),
         UNCHANGED <<row, file, blobs, minted>>,
         lost \subseteq lost', Hands(c) \subseteq lost' \cup Hands(c)'
  PROVE  FileInv'
<1>1. FilesDrawn'
  BY DEF FileInv, FilesDrawn, Storing
<1>2. NewFilePrivate'
  BY NewIsFile DEF FileInv, NewFilePrivate, Storing
<1>3. NewFileSaved'
  BY DEF FileInv, NewFileSaved, StoringPc
<1>4. SnapshotOwn'
  BY DEF FileInv, SnapshotOwn
<1>5. UnbornEmpty'
  BY DEF FileInv, UnbornEmpty
<1>6. FilesNotShared'
  BY DEF FileInv, FilesNotShared
<1>7. FilesKept'
  <2>1. \A o \in Calls : o # c => Hands(o)' = Hands(o)
    BY DEF Hands
  <2> QED BY <2>1 DEF FileInv, FilesKept, Dangling
<1> QED BY <1>1, <1>2, <1>3, <1>4, <1>5, <1>6, <1>7 DEF FileInv

\* The three ways a call moves on without touching rows or files: to its end or
\* to the counting, to a step that has no file in hand, and into such a step.
LEMMA CallTyped == ASSUME TypeOK, NEW c \in Calls PROVE calls[c] \in CallFields
  BY DEF TypeOK, CallType

LEMMA EndMoves ==
  ASSUME TypeOK, NEW c \in Calls, End(c) \/ ToSync(c)
  PROVE  /\ \A o \in Calls : o # c => calls'[o] = calls[o]
         /\ calls'[c].pc \in {"idle", "sy_total"}
         /\ calls'[c].drop = {} /\ calls'[c].old = NoFile
  BY DEF TypeOK, End, ToSync, Idle

LEMMA GotoMoves ==
  ASSUME TypeOK, NEW c \in Calls, NEW pc, Goto(c, pc)
  PROVE  /\ \A o \in Calls : o # c => calls'[o] = calls[o]
         /\ calls'[c].pc = pc
         /\ calls'[c].drop = calls[c].drop
         /\ calls'[c].old = calls[c].old /\ calls'[c].doc = calls[c].doc
  BY CallTyped DEF TypeOK, Goto, CallFields

LEMMA StartMoves ==
  ASSUME TypeOK, NEW c \in Calls, NEW op, NEW rec, Start(c, op, rec)
  PROVE  /\ \A o \in Calls : o # c => calls'[o] = calls[o]
         /\ calls[c].pc = "idle" /\ calls'[c] = rec
  BY DEF TypeOK, Start

LEMMA FileEnd ==
  ASSUME TypeOK, FileInv, NEW c \in Calls, End(c) \/ ToSync(c),
         UNCHANGED <<row, file, blobs, minted>>,
         lost \subseteq lost', Hands(c) \subseteq lost'
  PROVE  FileInv'
<1>1. calls'[c].pc \notin StoringPc \cup {"as_insert", "de_drop", "de_row"}
  BY EndMoves DEF StoringPc
<1>2. calls'[c].drop \subseteq calls[c].drop
  BY EndMoves
<1> QED BY <1>1, <1>2, EndMoves, FileHarmless

LEMMA FileGoto ==
  ASSUME TypeOK, FileInv, NEW c \in Calls, NEW pc, Goto(c, pc),
         pc \notin StoringPc \cup {"as_insert", "de_drop", "de_row"},
         UNCHANGED <<row, file, blobs, minted, lost>>, Hands(c) = {}
  PROVE  FileInv'
  BY GotoMoves, FileHarmless

LEMMA FileStart ==
  ASSUME TypeOK, FileInv, NEW c \in Calls, NEW op, NEW rec, Start(c, op, rec),
         rec.pc \notin StoringPc \cup {"as_insert", "de_drop", "de_row"},
         rec.drop = {}, rec.old = NoFile,
         UNCHANGED <<row, file, blobs, minted, lost>>
  PROVE  FileInv'
<1>1. Hands(c) = {}
  BY StartMoves DEF Hands
<1> QED BY <1>1, StartMoves, FileHarmless

LEMMA FileStep == TypeOK /\ TypeOK' /\ FileInv /\ [Next]_vars => FileInv'
<1> SUFFICES ASSUME TypeOK, TypeOK', FileInv, [Next]_vars PROVE FileInv'
  OBVIOUS
<1> USE DEF rowVars, deadlineVars
<1>1. ASSUME NEW c \in Calls, CallStep(c) PROVE FileInv'
  <2>1. CASE UploadRefused(c)
    BY <2>1, FileEnd DEF UploadRefused
  <2>2. CASE UploadClear(c)
    BY <2>2, FileEnd DEF UploadClear, Hands
  <2>3. ASSUME NEW d \in Docs, ApproveStart(c, d) PROVE FileInv'
    <3> DEFINE rec == [Idle EXCEPT !.pc = "ap_write", !.doc = d]
    <3>1. rec.pc = "ap_write" /\ rec.drop = {} /\ rec.old = NoFile
      BY DEF Idle
    <3> HIDE DEF rec
    <3>2. Start(c, "approve", rec) /\ UNCHANGED <<row, file, blobs, minted, lost>>
      BY <2>3 DEF ApproveStart, rec
    <3> QED BY <3>1, <3>2, FileStart DEF StoringPc
  <2>4. ASSUME NEW d \in Docs, RejectStart(c, d) PROVE FileInv'
    <3> DEFINE rec == [Idle EXCEPT !.pc = "rj_write", !.doc = d]
    <3>1. rec.pc = "rj_write" /\ rec.drop = {} /\ rec.old = NoFile
      BY DEF Idle
    <3> HIDE DEF rec
    <3>2. Start(c, "reject", rec) /\ UNCHANGED <<row, file, blobs, minted, lost>>
      BY <2>4 DEF RejectStart, rec
    <3> QED BY <3>1, <3>2, FileStart DEF StoringPc
  <2>5. CASE ApproveWrite(c)
    BY <2>5, FileEnd DEF ApproveWrite, Decide, Hands
  <2>6. CASE RejectWrite(c)
    BY <2>6, FileEnd DEF RejectWrite, Decide, Hands
  <2>7. CASE SyncTotal(c)
    <3> DEFINE sum == Cardinality(Live)
    <3>1. calls' = [calls EXCEPT ![c].total = sum, ![c].pc = "sy_approved"]
      BY <2>7 DEF SyncTotal
    <3> HIDE DEF sum
    <3>2. /\ \A o \in Calls : o # c => calls'[o] = calls[o]
          /\ calls'[c].pc = "sy_approved" /\ calls'[c].drop = calls[c].drop
          /\ calls'[c].old = calls[c].old /\ calls'[c].doc = calls[c].doc
      BY <3>1, CallTyped DEF CallFields, TypeOK
    <3>3. Hands(c) = {} /\ UNCHANGED <<row, file, blobs, minted, lost>>
      BY <2>7 DEF SyncTotal, Hands
    <3> QED BY <3>2, <3>3, FileHarmless DEF StoringPc
  <2>8. CASE SyncApproved(c)
    <3> DEFINE sum == calls[c].total # 0 /\ Cardinality(LiveWith("approved")) = calls[c].total
    <3>1. calls' = [calls EXCEPT ![c].all = sum, ![c].total = 0, ![c].pc = "sy_awaiting"]
      BY <2>8 DEF SyncApproved
    <3> HIDE DEF sum
    <3>2. /\ \A o \in Calls : o # c => calls'[o] = calls[o]
          /\ calls'[c].pc = "sy_awaiting" /\ calls'[c].drop = calls[c].drop
          /\ calls'[c].old = calls[c].old /\ calls'[c].doc = calls[c].doc
      BY <3>1, CallTyped DEF CallFields, TypeOK
    <3>3. Hands(c) = {} /\ UNCHANGED <<row, file, blobs, minted, lost>>
      BY <2>8 DEF SyncApproved, Hands
    <3> QED BY <3>2, <3>3, FileHarmless DEF StoringPc
  <2>9. CASE SyncAwaiting(c)
    <3> DEFINE sum == IF calls[c].all THEN "under_review"
                      ELSE IF LiveWith("with_consultant") # {} THEN "documents_received"
                      ELSE "waiting_for_client"
    <3>1. calls' = [calls EXCEPT ![c].next = sum, ![c].all = FALSE, ![c].pc = "sy_write"]
      BY <2>9 DEF SyncAwaiting
    <3> HIDE DEF sum
    <3>2. /\ \A o \in Calls : o # c => calls'[o] = calls[o]
          /\ calls'[c].pc = "sy_write" /\ calls'[c].drop = calls[c].drop
          /\ calls'[c].old = calls[c].old /\ calls'[c].doc = calls[c].doc
      BY <3>1, CallTyped DEF CallFields, TypeOK
    <3>3. Hands(c) = {} /\ UNCHANGED <<row, file, blobs, minted, lost>>
      BY <2>9 DEF SyncAwaiting, Hands
    <3> QED BY <3>2, <3>3, FileHarmless DEF StoringPc
  <2>10. CASE SyncWrite(c)
    BY <2>10, FileEnd DEF SyncWrite, Hands
  <2>11. CASE ReanalyzeRead(c)
    <3>1. Hands(c) = {} /\ UNCHANGED <<row, file, blobs, minted, lost>>
      BY <2>11 DEF ReanalyzeRead, Hands
    <3>2. Goto(c, "re_answer") \/ End(c)
      BY <2>11 DEF ReanalyzeRead
    <3> QED BY <3>1, <3>2, FileGoto, FileEnd DEF StoringPc
  <2>12. CASE ReanalyzeAnswer(c)
    BY <2>12, FileGoto DEF ReanalyzeAnswer, StoringPc, Hands
  <2>13. CASE ReanalyzeTrack(c)
    BY <2>13, FileEnd DEF ReanalyzeTrack, Hands
  <2>14. CASE DeleteDeadlines(c)
    BY <2>14, FileEnd DEF DeleteDeadlines, Hands
  <2>15. CASE AskDeadline(c)
    BY <2>15, FileGoto DEF AskDeadline, StoringPc, Hands
  <2>16. CASE AskStatus(c)
    BY <2>16, FileEnd DEF AskStatus, Hands
  <2>17. CASE WithdrawStart(c)
    <3> DEFINE rec == [Idle EXCEPT !.pc = "wd_find"]
    <3>1. rec.pc = "wd_find" /\ rec.drop = {} /\ rec.old = NoFile
      BY DEF Idle
    <3> HIDE DEF rec
    <3>2. Start(c, "withdraw", rec) /\ UNCHANGED <<row, file, blobs, minted, lost>>
      BY <2>17 DEF WithdrawStart, rec
    <3> QED BY <3>1, <3>2, FileStart DEF StoringPc
  <2>18. CASE WithdrawRequest(c)
    BY <2>18, FileEnd DEF WithdrawRequest, Hands
  <2>19. CASE CallCut(c)
    BY <2>19, FileEnd DEF CallCut
  <2>20. ASSUME NEW d \in Docs, NEW b \in Blobs, UploadStart(c, d, b) PROVE FileInv'
    <3>0. /\ \A o \in Calls : o # c => calls'[o] = calls[o]
          /\ calls[c].pc = "idle" /\ calls'[c].pc \in {"up_save", "up_drop"}
          /\ calls'[c].pc = "up_save" => file[d] = NoFile
          /\ calls'[c].doc = d /\ calls'[c].old = file[d] /\ calls'[c].new = b /\ calls'[c].drop = {}
          /\ b # NoFile /\ b \notin minted /\ minted' = minted \cup {b}
          /\ UNCHANGED <<row, file, blobs, lost>>
      BY <2>20, BlobsAssumption DEF UploadStart, Start, Idle, Live, TypeOK, CallType, CallFields
    <3>1. FilesDrawn'
      BY <3>0 DEF FileInv, FilesDrawn, Storing, StoringPc
    <3>2. NewFilePrivate'
      BY <3>0, NewIsFile DEF FileInv, NewFilePrivate, Storing, StoringPc, FilesDrawn
    <3>3. NewFileSaved'
      BY <3>0 DEF FileInv, NewFileSaved
    <3>4. SnapshotOwn'
      BY <3>0 DEF FileInv, SnapshotOwn, FilesNotShared
    <3>5. UnbornEmpty'
      BY <3>0 DEF FileInv, UnbornEmpty
    <3>6. FilesNotShared'
      BY <3>0 DEF FileInv, FilesNotShared
    <3>7. FilesKept'
      BY <3>0 DEF FileInv, FilesKept, Dangling, Hands
    <3> QED BY <3>1, <3>2, <3>3, <3>4, <3>5, <3>6, <3>7 DEF FileInv
  <2>21. CASE UploadDrop(c)
    <3>0. /\ \A o \in Calls : o # c => calls'[o] = calls[o]
          /\ calls[c].pc = "up_drop" /\ calls'[c].pc = "up_save"
          /\ calls'[c].old = calls[c].old /\ calls'[c].new = calls[c].new
          /\ calls'[c].doc = calls[c].doc /\ calls'[c].drop = calls[c].drop
          /\ blobs' = blobs \ {calls[c].old}
          /\ UNCHANGED <<row, file, minted, lost>>
      BY <2>21 DEF UploadDrop, Goto, TypeOK, CallType, CallFields
    <3>1. FilesDrawn'
      BY <3>0 DEF FileInv, FilesDrawn, Storing, StoringPc
    <3>2. NewFilePrivate'
      BY <3>0, NewIsFile DEF FileInv, NewFilePrivate, Storing, StoringPc, FilesDrawn
    <3>3. NewFileSaved'
      BY <3>0 DEF FileInv, NewFileSaved, NewFilePrivate, Storing, StoringPc
    <3>4. SnapshotOwn'
      BY <3>0 DEF FileInv, SnapshotOwn
    <3>5. UnbornEmpty'
      BY <3>0 DEF FileInv, UnbornEmpty
    <3>6. FilesNotShared'
      BY <3>0 DEF FileInv, FilesNotShared
    <3>7. FilesKept'
      BY <3>0 DEF FileInv, FilesKept, Dangling, Hands, SnapshotOwn
    <3> QED BY <3>1, <3>2, <3>3, <3>4, <3>5, <3>6, <3>7 DEF FileInv
  <2>22. CASE UploadSave(c)
    <3>0. /\ \A o \in Calls : o # c => calls'[o] = calls[o]
          /\ calls[c].pc = "up_save" /\ calls'[c].pc = "up_write"
          /\ calls'[c].old = calls[c].old /\ calls'[c].new = calls[c].new
          /\ calls'[c].doc = calls[c].doc /\ calls'[c].drop = calls[c].drop
          /\ blobs' = blobs \cup {calls[c].new}
          /\ UNCHANGED <<row, file, minted, lost>>
      BY <2>22 DEF UploadSave, Goto, TypeOK, CallType, CallFields
    <3>1. FilesDrawn'
      BY <3>0 DEF FileInv, FilesDrawn, Storing, StoringPc
    <3>2. NewFilePrivate'
      BY <3>0, NewIsFile DEF FileInv, NewFilePrivate, Storing, StoringPc, FilesDrawn
    <3>3. NewFileSaved'
      BY <3>0 DEF FileInv, NewFileSaved
    <3>4. SnapshotOwn'
      BY <3>0 DEF FileInv, SnapshotOwn
    <3>5. UnbornEmpty'
      BY <3>0 DEF FileInv, UnbornEmpty
    <3>6. FilesNotShared'
      BY <3>0 DEF FileInv, FilesNotShared
    <3>7. FilesKept'
      BY <3>0 DEF FileInv, FilesKept, Dangling, Hands
    <3> QED BY <3>1, <3>2, <3>3, <3>4, <3>5, <3>6, <3>7 DEF FileInv
  <2>23. CASE UploadWrite(c)
    <3>0. /\ \A o \in Calls : o # c => calls'[o] = calls[o]
          /\ calls[c].pc = "up_write" /\ calls'[c].pc = "up_clear"
          /\ calls'[c].old = calls[c].old /\ calls'[c].new = calls[c].new
          /\ calls'[c].doc = calls[c].doc /\ calls'[c].drop = calls[c].drop
          /\ calls[c].new \in Blobs
          /\ \A d \in Docs : file'[d] = IF row[d] = "live" /\ d = calls[c].doc THEN calls[c].new ELSE file[d]
          /\ \A d \in lost : d \in lost' \/ (row[d] = "live" /\ d = calls[c].doc) 
          /\ UNCHANGED <<row, blobs, minted>>
      BY <2>23 DEF UploadWrite, Goto, StoringPc, TypeOK, CallType, CallFields
    <3>1. FilesDrawn'
      BY <3>0 DEF FileInv, FilesDrawn, Storing, StoringPc
    <3>2. NewFilePrivate'
      BY <3>0, NewIsFile DEF FileInv, NewFilePrivate, Storing, StoringPc, FilesDrawn
    <3>3. NewFileSaved'
      BY <3>0 DEF FileInv, NewFileSaved
    <3>4. SnapshotOwn'
      BY <3>0 DEF FileInv, SnapshotOwn, NewFilePrivate, Storing, StoringPc
    <3>5. UnbornEmpty'
      BY <3>0 DEF FileInv, UnbornEmpty
    <3>6. FilesNotShared'
      BY <3>0 DEF FileInv, FilesNotShared, NewFilePrivate, Storing, StoringPc
    <3>7. FilesKept'
      BY <3>0 DEF FileInv, FilesKept, Dangling, Hands, NewFileSaved
    <3> QED BY <3>1, <3>2, <3>3, <3>4, <3>5, <3>6, <3>7 DEF FileInv
  <2>24. ASSUME NEW d \in Docs, ReanalyzeStart(c, d) PROVE FileInv'
    <3>0. /\ \A o \in Calls : o # c => calls'[o] = calls[o]
          /\ calls[c].pc = "idle" /\ calls'[c].pc = "re_read"
          /\ calls'[c].doc = d /\ calls'[c].old = file[d] /\ calls'[c].drop = {}
          /\ UNCHANGED <<row, file, blobs, minted, lost>>
      BY <2>24 DEF ReanalyzeStart, Start, Idle, Live, TypeOK, CallType, CallFields
    <3>1. FilesDrawn'
      BY <3>0 DEF FileInv, FilesDrawn, Storing, StoringPc
    <3>2. NewFilePrivate'
      BY <3>0, NewIsFile DEF FileInv, NewFilePrivate, Storing, StoringPc, FilesDrawn
    <3>3. NewFileSaved'
      BY <3>0 DEF FileInv, NewFileSaved
    <3>4. SnapshotOwn'
      BY <3>0 DEF FileInv, SnapshotOwn, FilesNotShared
    <3>5. UnbornEmpty'
      BY <3>0 DEF FileInv, UnbornEmpty
    <3>6. FilesNotShared'
      BY <3>0 DEF FileInv, FilesNotShared
    <3>7. FilesKept'
      BY <3>0 DEF FileInv, FilesKept, Dangling, Hands
    <3> QED BY <3>1, <3>2, <3>3, <3>4, <3>5, <3>6, <3>7 DEF FileInv
  <2>25. ASSUME NEW d \in Docs, DeleteStart(c, d) PROVE FileInv'
    <3>0. /\ \A o \in Calls : o # c => calls'[o] = calls[o]
          /\ calls[c].pc = "idle" /\ calls'[c].pc \in {"de_drop", "de_row"}
          /\ row[d] = "live" /\ (calls'[c].pc = "de_row" => file[d] = NoFile)
          /\ calls'[c].doc = d /\ calls'[c].old = file[d] /\ calls'[c].drop = {}
          /\ UNCHANGED <<row, file, blobs, minted, lost>>
      BY <2>25 DEF DeleteStart, Start, Idle, Live, TypeOK, CallType, CallFields
    <3>1. FilesDrawn'
      BY <3>0 DEF FileInv, FilesDrawn, Storing, StoringPc
    <3>2. NewFilePrivate'
      BY <3>0, NewIsFile DEF FileInv, NewFilePrivate, Storing, StoringPc, FilesDrawn
    <3>3. NewFileSaved'
      BY <3>0 DEF FileInv, NewFileSaved
    <3>4. SnapshotOwn'
      BY <3>0 DEF FileInv, SnapshotOwn, FilesNotShared
    <3>5. UnbornEmpty'
      BY <3>0 DEF FileInv, UnbornEmpty
    <3>6. FilesNotShared'
      BY <3>0 DEF FileInv, FilesNotShared
    <3>7. FilesKept'
      BY <3>0 DEF FileInv, FilesKept, Dangling, Hands
    <3> QED BY <3>1, <3>2, <3>3, <3>4, <3>5, <3>6, <3>7 DEF FileInv
  <2>26. CASE DeleteDrop(c)
    <3>0. /\ \A o \in Calls : o # c => calls'[o] = calls[o]
          /\ calls[c].pc = "de_drop" /\ calls'[c].pc = "de_row"
          /\ calls'[c].old = calls[c].old /\ calls'[c].new = calls[c].new
          /\ calls'[c].doc = calls[c].doc /\ calls'[c].drop = calls[c].drop
          /\ blobs' = blobs \ {calls[c].old}
          /\ UNCHANGED <<row, file, minted, lost>>
      BY <2>26 DEF DeleteDrop, Goto, TypeOK, CallType, CallFields
    <3>1. FilesDrawn'
      BY <3>0 DEF FileInv, FilesDrawn, Storing, StoringPc
    <3>2. NewFilePrivate'
      BY <3>0, NewIsFile DEF FileInv, NewFilePrivate, Storing, StoringPc, FilesDrawn
    <3>3. NewFileSaved'
      BY <3>0 DEF FileInv, NewFileSaved, NewFilePrivate, Storing, StoringPc
    <3>4. SnapshotOwn'
      BY <3>0 DEF FileInv, SnapshotOwn
    <3>5. UnbornEmpty'
      BY <3>0 DEF FileInv, UnbornEmpty
    <3>6. FilesNotShared'
      BY <3>0 DEF FileInv, FilesNotShared
    <3>7. FilesKept'
      BY <3>0 DEF FileInv, FilesKept, Dangling, Hands, SnapshotOwn
    <3> QED BY <3>1, <3>2, <3>3, <3>4, <3>5, <3>6, <3>7 DEF FileInv
  <2>27. CASE DeleteRow(c)
    <3>0. /\ \A o \in Calls : o # c => calls'[o] = calls[o]
          /\ calls[c].pc = "de_row" /\ calls'[c].pc = "de_deadlines"
          /\ calls'[c].old = calls[c].old /\ calls'[c].new = calls[c].new
          /\ calls'[c].doc = calls[c].doc /\ calls'[c].drop = calls[c].drop
          /\ \A d \in Docs : row'[d] = IF d = calls[c].doc THEN "gone" ELSE row[d]
          /\ UNCHANGED <<file, blobs, minted, lost>>
      BY <2>27 DEF DeleteRow, Goto, TypeOK, CallType, CallFields
    <3>1. FilesDrawn'
      BY <3>0 DEF FileInv, FilesDrawn, Storing, StoringPc
    <3>2. NewFilePrivate'
      BY <3>0, NewIsFile DEF FileInv, NewFilePrivate, Storing, StoringPc, FilesDrawn
    <3>3. NewFileSaved'
      BY <3>0 DEF FileInv, NewFileSaved
    <3>4. SnapshotOwn'
      BY <3>0 DEF FileInv, SnapshotOwn
    <3>5. UnbornEmpty'
      BY <3>0 DEF FileInv, UnbornEmpty
    <3>6. FilesNotShared'
      BY <3>0 DEF FileInv, FilesNotShared
    <3>7. FilesKept'
      BY <3>0 DEF FileInv, FilesKept, Dangling, Hands
    <3> QED BY <3>1, <3>2, <3>3, <3>4, <3>5, <3>6, <3>7 DEF FileInv
  <2>28. ASSUME NEW d \in Docs, AskStart(c, d) PROVE FileInv'
    <3>0. /\ \A o \in Calls : o # c => calls'[o] = calls[o]
          /\ calls[c].pc = "idle" /\ calls'[c].pc = "as_insert"
          /\ row[d] = "unborn" /\ \A o \in Calls : calls[o].doc # d
          /\ calls'[c].doc = d /\ calls'[c].old = NoFile /\ calls'[c].drop = {}
          /\ UNCHANGED <<row, file, blobs, minted, lost>>
      BY <2>28 DEF AskStart, Start, Idle, TypeOK, CallType, CallFields
    <3>1. FilesDrawn'
      BY <3>0 DEF FileInv, FilesDrawn, Storing, StoringPc
    <3>2. NewFilePrivate'
      BY <3>0, NewIsFile DEF FileInv, NewFilePrivate, Storing, StoringPc, FilesDrawn
    <3>3. NewFileSaved'
      BY <3>0 DEF FileInv, NewFileSaved
    <3>4. SnapshotOwn'
      BY <3>0 DEF FileInv, SnapshotOwn
    <3>5. UnbornEmpty'
      BY <3>0 DEF FileInv, UnbornEmpty
    <3>6. FilesNotShared'
      BY <3>0 DEF FileInv, FilesNotShared
    <3>7. FilesKept'
      BY <3>0 DEF FileInv, FilesKept, Dangling, Hands
    <3> QED BY <3>1, <3>2, <3>3, <3>4, <3>5, <3>6, <3>7 DEF FileInv
  <2>29. CASE AskInsert(c)
    <3>0. /\ \A o \in Calls : o # c => calls'[o] = calls[o]
          /\ calls[c].pc = "as_insert" /\ calls'[c].pc = "as_deadline"
          /\ calls'[c].old = calls[c].old /\ calls'[c].new = calls[c].new
          /\ calls'[c].doc = calls[c].doc /\ calls'[c].drop = calls[c].drop
          /\ \A d \in Docs : row'[d] = IF d = calls[c].doc THEN "live" ELSE row[d]
          /\ UNCHANGED <<file, blobs, minted, lost>>
      BY <2>29 DEF AskInsert, Goto, TypeOK, CallType, CallFields
    <3>1. FilesDrawn'
      BY <3>0 DEF FileInv, FilesDrawn, Storing, StoringPc
    <3>2. NewFilePrivate'
      BY <3>0, NewIsFile DEF FileInv, NewFilePrivate, Storing, StoringPc, FilesDrawn
    <3>3. NewFileSaved'
      BY <3>0 DEF FileInv, NewFileSaved
    <3>4. SnapshotOwn'
      BY <3>0 DEF FileInv, SnapshotOwn
    <3>5. UnbornEmpty'
      BY <3>0 DEF FileInv, UnbornEmpty
    <3>6. FilesNotShared'
      BY <3>0 DEF FileInv, FilesNotShared
    <3>7. FilesKept'
      BY <3>0 DEF FileInv, FilesKept, Dangling, Hands, UnbornEmpty
    <3> QED BY <3>1, <3>2, <3>3, <3>4, <3>5, <3>6, <3>7 DEF FileInv
  <2>30. CASE WithdrawFind(c)
    <3>0. /\ \A o \in Calls : o # c => calls'[o] = calls[o]
          /\ calls[c].pc = "wd_find" /\ calls'[c].pc = "wd_drop"
          /\ calls'[c].old = calls[c].old /\ calls'[c].doc = calls[c].doc
          /\ \A b \in calls'[c].drop : b # NoFile /\ \E d \in Docs : file[d] = b
          /\ UNCHANGED <<row, file, blobs, minted, lost>>
      <4>1. calls' = [calls EXCEPT ![c] = [calls[c] EXCEPT !.drop = {file[d] : d \in Live} \ {NoFile},
                                                          !.pc = "wd_drop"]]
        BY <2>30 DEF WithdrawFind, TypeOK
      <4>2. calls[c] \in CallFields
        BY DEF TypeOK, CallType
      <4>3. /\ calls'[c].old = calls[c].old /\ calls'[c].doc = calls[c].doc
            /\ calls'[c].drop = {file[d] : d \in Live} \ {NoFile} /\ calls'[c].pc = "wd_drop"
        BY <4>1, <4>2 DEF CallFields, TypeOK
      <4>4. \A b \in calls'[c].drop : b # NoFile /\ \E d \in Docs : file[d] = b
        BY <4>3 DEF Live
      <4>5. calls[c].pc = "wd_find" /\ UNCHANGED <<row, file, blobs, minted, lost>>
        BY <2>30 DEF WithdrawFind
      <4> QED BY <4>1, <4>3, <4>4, <4>5 DEF TypeOK
    <3>1. FilesDrawn'
      BY <3>0 DEF FileInv, FilesDrawn, Storing, StoringPc
    <3>2. NewFilePrivate'
      BY <3>0, NewIsFile DEF FileInv, NewFilePrivate, Storing, StoringPc, FilesDrawn
    <3>3. NewFileSaved'
      BY <3>0 DEF FileInv, NewFileSaved
    <3>4. SnapshotOwn'
      BY <3>0 DEF FileInv, SnapshotOwn
    <3>5. UnbornEmpty'
      BY <3>0 DEF FileInv, UnbornEmpty
    <3>6. FilesNotShared'
      BY <3>0 DEF FileInv, FilesNotShared
    <3>7. FilesKept'
      BY <3>0 DEF FileInv, FilesKept, Dangling, Hands
    <3> QED BY <3>1, <3>2, <3>3, <3>4, <3>5, <3>6, <3>7 DEF FileInv
  <2>31. ASSUME NEW b \in Blobs, WithdrawDrop(c, b) PROVE FileInv'
    <3>0. /\ \A o \in Calls : o # c => calls'[o] = calls[o]
          /\ calls[c].pc = "wd_drop" /\ calls'[c].pc = "wd_drop"
          /\ calls'[c].old = calls[c].old /\ calls'[c].doc = calls[c].doc
          /\ b \in calls[c].drop /\ calls'[c].drop = calls[c].drop \ {b}
          /\ blobs' = blobs \ {b}
          /\ UNCHANGED <<row, file, minted, lost>>
      BY <2>31 DEF WithdrawDrop, TypeOK, CallType, CallFields
    <3>1. FilesDrawn'
      BY <3>0 DEF FileInv, FilesDrawn, Storing, StoringPc
    <3>2. NewFilePrivate'
      BY <3>0, NewIsFile DEF FileInv, NewFilePrivate, Storing, StoringPc, FilesDrawn
    <3>3. NewFileSaved'
      BY <3>0 DEF FileInv, NewFileSaved, NewFilePrivate, Storing, StoringPc
    <3>4. SnapshotOwn'
      BY <3>0 DEF FileInv, SnapshotOwn
    <3>5. UnbornEmpty'
      BY <3>0 DEF FileInv, UnbornEmpty
    <3>6. FilesNotShared'
      BY <3>0 DEF FileInv, FilesNotShared
    <3>7. FilesKept'
      BY <3>0 DEF FileInv, FilesKept, Dangling, Hands
    <3> QED BY <3>1, <3>2, <3>3, <3>4, <3>5, <3>6, <3>7 DEF FileInv
  <2>32. CASE WithdrawRows(c)
    <3>0. /\ \A o \in Calls : o # c => calls'[o] = calls[o]
          /\ calls[c].pc = "wd_drop" /\ calls'[c].pc = "wd_request"
          /\ calls'[c].old = calls[c].old /\ calls'[c].new = calls[c].new
          /\ calls'[c].doc = calls[c].doc /\ calls'[c].drop = calls[c].drop
          /\ \A d \in Docs : row'[d] = IF row[d] = "live" THEN "gone" ELSE row[d]
          /\ UNCHANGED <<file, blobs, minted, lost>>
      BY <2>32 DEF WithdrawRows, Goto, TypeOK, CallType, CallFields
    <3>1. FilesDrawn'
      BY <3>0 DEF FileInv, FilesDrawn, Storing, StoringPc
    <3>2. NewFilePrivate'
      BY <3>0, NewIsFile DEF FileInv, NewFilePrivate, Storing, StoringPc, FilesDrawn
    <3>3. NewFileSaved'
      BY <3>0 DEF FileInv, NewFileSaved
    <3>4. SnapshotOwn'
      BY <3>0 DEF FileInv, SnapshotOwn
    <3>5. UnbornEmpty'
      BY <3>0 DEF FileInv, UnbornEmpty
    <3>6. FilesNotShared'
      BY <3>0 DEF FileInv, FilesNotShared
    <3>7. FilesKept'
      BY <3>0 DEF FileInv, FilesKept, Dangling, Hands
    <3> QED BY <3>1, <3>2, <3>3, <3>4, <3>5, <3>6, <3>7 DEF FileInv
  <2> QED BY <1>1, <2>1, <2>2, <2>3, <2>4, <2>5, <2>6, <2>7, <2>8, <2>9, <2>10, <2>11, <2>12, <2>13, <2>14, <2>15, <2>16, <2>17, <2>18, <2>19, <2>20, <2>21, <2>22, <2>23, <2>24, <2>25, <2>26, <2>27, <2>28, <2>29, <2>30, <2>31, <2>32 DEF CallStep
<1>2. ASSUME NEW b \in Blobs, JobStep(b) \/ JobCut(b) PROVE FileInv'
  <2>1. UNCHANGED <<row, file, blobs, minted, calls, lost>>
    BY <1>2 DEF JobStep, JobRead, JobAnswer, JobTrack, JobGarbled, JobFail, JobCut
  <2> QED BY <2>1 DEF FileInv, FilesDrawn, NewFilePrivate, NewFileSaved, SnapshotOwn,
                      UnbornEmpty, FilesNotShared, FilesKept, Dangling, Hands, Storing
<1>3. CASE UNCHANGED vars
  BY <1>3 DEF vars, FileInv, FilesDrawn, NewFilePrivate, NewFileSaved, SnapshotOwn,
              UnbornEmpty, FilesNotShared, FilesKept, Dangling, Hands, Storing
<1> QED BY <1>1, <1>2, <1>3 DEF Next

THEOREM FileInvariant == Spec => []FileInv
<1>1. Init => FileInv
  BY FileInit
<1>2. TypeOK /\ TypeOK' /\ FileInv /\ [Next]_vars => FileInv'
  BY FileStep
<1> QED BY <1>1, <1>2, TypeCorrect, PTL DEF Spec

\* The file a document names is in GridFS, or a call that deleted it is still
\* on its way to repoint or delete the row, or such a call was cut short.
THEOREM FilesAreKept == Spec => []FilesKept
<1>1. FileInv => FilesKept
  BY DEF FileInv
<1> QED BY <1>1, FileInvariant, PTL

\* No two documents ever name the same file.
THEOREM FilesAreNotShared == Spec => []FilesNotShared
<1>1. FileInv => FilesNotShared
  BY DEF FileInv
<1> QED BY <1>1, FileInvariant, PTL
-----------------------------------------------------------------------------
\* Decisions.

LEMMA ReviewInit == Init => ReviewInv
  BY DEF Init, ReviewInv, ReviewedHasFile, Idle

\* Only a call about to approve adds to what the invariant asks.
LEMMA ReviewHarmless ==
  ASSUME ReviewInv, NEW c \in Calls,
         \A o \in Calls : o # c => calls'[o] = calls[o],
         calls'[c].pc # "ap_write",
         UNCHANGED <<status, file>>
  PROVE  ReviewInv'
  BY DEF ReviewInv, ReviewedHasFile

LEMMA ReviewStep == TypeOK /\ ReviewInv /\ [Next]_vars => ReviewInv'
<1> SUFFICES ASSUME TypeOK, ReviewInv, [Next]_vars PROVE ReviewInv'
  OBVIOUS
<1> USE DEF rowVars, deadlineVars
<1>1. ASSUME NEW c \in Calls, CallStep(c) PROVE ReviewInv'
  <2>1. ASSUME NEW d \in Docs, NEW b \in Blobs, UploadStart(c, d, b) PROVE ReviewInv'
    BY <2>1, ReviewHarmless DEF UploadStart, Start, Idle, TypeOK, CallType, CallFields
  <2>2. CASE UploadDrop(c)
    BY <2>2, ReviewHarmless DEF UploadDrop, Goto, TypeOK, CallType, CallFields
  <2>3. CASE UploadSave(c)
    BY <2>3, ReviewHarmless DEF UploadSave, Goto, TypeOK, CallType, CallFields
  <2>4. CASE UploadRefused(c)
    BY <2>4, ReviewHarmless DEF UploadRefused, End, Idle, TypeOK, CallType, CallFields
  <2>5. CASE UploadClear(c)
    BY <2>5, ReviewHarmless DEF UploadClear, ToSync, Idle, TypeOK, CallType, CallFields
  <2>6. ASSUME NEW d \in Docs, RejectStart(c, d) PROVE ReviewInv'
    BY <2>6, ReviewHarmless DEF RejectStart, Start, Idle, TypeOK, CallType, CallFields
  <2>7. CASE SyncTotal(c)
    BY <2>7, ReviewHarmless DEF SyncTotal, TypeOK, CallType, CallFields
  <2>8. CASE SyncApproved(c)
    BY <2>8, ReviewHarmless DEF SyncApproved, TypeOK, CallType, CallFields
  <2>9. CASE SyncAwaiting(c)
    <3> DEFINE sum == IF calls[c].all THEN "under_review"
                      ELSE IF LiveWith("with_consultant") # {} THEN "documents_received"
                      ELSE "waiting_for_client"
    <3>1. calls' = [calls EXCEPT ![c].next = sum, ![c].all = FALSE, ![c].pc = "sy_write"]
      BY <2>9 DEF SyncAwaiting
    <3> HIDE DEF sum
    <3>2. (\A o \in Calls : o # c => calls'[o] = calls[o]) /\ calls'[c].pc = "sy_write"
      BY <3>1 DEF TypeOK, CallType, CallFields
    <3> QED BY <2>9, <3>2, ReviewHarmless DEF SyncAwaiting
  <2>10. CASE SyncWrite(c)
    BY <2>10, ReviewHarmless DEF SyncWrite, End, Idle, TypeOK, CallType, CallFields
  <2>11. ASSUME NEW d \in Docs, ReanalyzeStart(c, d) PROVE ReviewInv'
    BY <2>11, ReviewHarmless DEF ReanalyzeStart, Start, Idle, TypeOK, CallType, CallFields
  <2>12. CASE ReanalyzeRead(c)
    BY <2>12, ReviewHarmless DEF ReanalyzeRead, Goto, End, Idle, TypeOK, CallType, CallFields
  <2>13. CASE ReanalyzeAnswer(c)
    BY <2>13, ReviewHarmless DEF ReanalyzeAnswer, Goto, TypeOK, CallType, CallFields
  <2>14. CASE ReanalyzeTrack(c)
    BY <2>14, ReviewHarmless DEF ReanalyzeTrack, End, Idle, TypeOK, CallType, CallFields
  <2>15. ASSUME NEW d \in Docs, DeleteStart(c, d) PROVE ReviewInv'
    BY <2>15, ReviewHarmless DEF DeleteStart, Start, Idle, TypeOK, CallType, CallFields
  <2>16. CASE DeleteDrop(c)
    BY <2>16, ReviewHarmless DEF DeleteDrop, Goto, TypeOK, CallType, CallFields
  <2>17. CASE DeleteRow(c)
    BY <2>17, ReviewHarmless DEF DeleteRow, Goto, TypeOK, CallType, CallFields
  <2>18. CASE DeleteDeadlines(c)
    BY <2>18, ReviewHarmless DEF DeleteDeadlines, ToSync, Idle, TypeOK, CallType, CallFields
  <2>19. ASSUME NEW d \in Docs, AskStart(c, d) PROVE ReviewInv'
    BY <2>19, ReviewHarmless DEF AskStart, Start, Idle, TypeOK, CallType, CallFields
  <2>20. CASE AskInsert(c)
    BY <2>20, ReviewHarmless DEF AskInsert, Goto, TypeOK, CallType, CallFields
  <2>21. CASE AskDeadline(c)
    BY <2>21, ReviewHarmless DEF AskDeadline, Goto, TypeOK, CallType, CallFields
  <2>22. CASE AskStatus(c)
    BY <2>22, ReviewHarmless DEF AskStatus, End, Idle, TypeOK, CallType, CallFields
  <2>23. CASE WithdrawStart(c)
    BY <2>23, ReviewHarmless DEF WithdrawStart, Start, Idle, TypeOK, CallType, CallFields
  <2>24. CASE WithdrawFind(c)
    <3> DEFINE found == {file[d] : d \in Live} \ {NoFile}
    <3>1. calls' = [calls EXCEPT ![c].drop = found, ![c].pc = "wd_drop"]
      BY <2>24 DEF WithdrawFind
    <3> HIDE DEF found
    <3>2. (\A o \in Calls : o # c => calls'[o] = calls[o]) /\ calls'[c].pc = "wd_drop"
      BY <3>1, CallTyped DEF TypeOK, CallFields
    <3> QED BY <2>24, <3>2, ReviewHarmless DEF WithdrawFind
  <2>25. ASSUME NEW b \in Blobs, WithdrawDrop(c, b) PROVE ReviewInv'
    BY <2>25, ReviewHarmless DEF WithdrawDrop, TypeOK, CallType, CallFields
  <2>26. CASE WithdrawRows(c)
    BY <2>26, ReviewHarmless DEF WithdrawRows, Goto, TypeOK, CallType, CallFields
  <2>27. CASE WithdrawRequest(c)
    BY <2>27, ReviewHarmless DEF WithdrawRequest, End, Idle, TypeOK, CallType, CallFields
  <2>28. CASE CallCut(c)
    BY <2>28, ReviewHarmless DEF CallCut, End, Idle, TypeOK, CallType, CallFields
  <2>29. ASSUME NEW d \in Docs, ApproveStart(c, d) PROVE ReviewInv'
    BY <2>29 DEF ApproveStart, Start, Idle, ReviewInv, ReviewedHasFile, TypeOK
  <2>30. CASE UploadWrite(c)
    <3>1. /\ \A o \in Calls : o # c => calls'[o] = calls[o]
          /\ calls'[c].pc = "up_clear"
          /\ \A d \in Docs : /\ file'[d] \in {file[d], calls[c].new}
                             /\ status'[d] # status[d] => file'[d] = calls[c].new
      BY <2>30 DEF UploadWrite, Goto, TypeOK, CallType, CallFields
    <3>2. calls[c].new # NoFile
      BY <2>30, NewIsFile DEF UploadWrite, Storing, StoringPc
    <3> QED BY <3>1, <3>2 DEF ReviewInv, ReviewedHasFile
  <2>31. CASE ApproveWrite(c)
    <3>1. /\ \A o \in Calls : o # c => calls'[o] = calls[o]
          /\ calls[c].pc = "ap_write" /\ calls'[c].pc = "sy_total"
          /\ UNCHANGED file
          /\ \A d \in Docs : status'[d] # status[d] => d = calls[c].doc
      BY <2>31 DEF ApproveWrite, Decide, ToSync, Idle, TypeOK
    <3> QED BY <3>1 DEF ReviewInv, ReviewedHasFile
  <2>32. CASE RejectWrite(c)
    <3>1. /\ \A o \in Calls : o # c => calls'[o] = calls[o]
          /\ calls'[c].pc = "sy_total"
          /\ UNCHANGED file
          /\ \A d \in Docs : status'[d] \in {status[d], "needs_reupload"}
      BY <2>32 DEF RejectWrite, Decide, ToSync, Idle, TypeOK
    <3> QED BY <3>1 DEF ReviewInv, ReviewedHasFile
  <2> QED BY <1>1, <2>1, <2>2, <2>3, <2>4, <2>5, <2>6, <2>7, <2>8, <2>9, <2>10, <2>11, <2>12, <2>13, <2>14, <2>15, <2>16, <2>17, <2>18, <2>19, <2>20, <2>21, <2>22, <2>23, <2>24, <2>25, <2>26, <2>27, <2>28, <2>29, <2>30, <2>31, <2>32 DEF CallStep
<1>2. ASSUME NEW b \in Blobs, JobStep(b) \/ JobCut(b) PROVE ReviewInv'
  <2>1. UNCHANGED <<status, file, calls>>
    BY <1>2 DEF JobStep, JobRead, JobAnswer, JobTrack, JobGarbled, JobFail, JobCut
  <2> QED BY <2>1 DEF ReviewInv, ReviewedHasFile
<1>3. CASE UNCHANGED vars
  BY <1>3 DEF vars, ReviewInv, ReviewedHasFile
<1> QED BY <1>1, <1>2, <1>3 DEF Next

\* A document waiting for the consultant or approved has a file, although the
\* check and the write of an approval are apart and the write is unconditional.
THEOREM ReviewedDocumentsHaveFiles == Spec => []ReviewedHasFile
<1>1. Init => ReviewInv
  BY ReviewInit
<1>2. TypeOK /\ ReviewInv /\ [Next]_vars => ReviewInv'
  BY ReviewStep
<1>3. ReviewInv => ReviewedHasFile
  BY DEF ReviewInv
<1> QED BY <1>1, <1>2, <1>3, TypeCorrect, PTL DEF Spec
-----------------------------------------------------------------------------
\* One call at a time, no file is stored that no document names.

LEMMA SerialFilesInit == Init => SerialFiles
  BY DEF Init, SerialFiles, Filing, Idle

\* A call that is neither filing nor clearing the bucket leaves the files alone.
LEMMA SerialFilesHarmless ==
  ASSUME OneCall, SerialFiles, NEW c \in Calls,
         calls[c].pc # "up_write",
         calls'[c].pc \notin {"up_drop", "up_save", "up_write", "de_drop", "de_row", "wd_drop"},
         UNCHANGED <<row, file, blobs>>
  PROVE  SerialFiles'
  BY DEF OneCall, SerialFiles, Filing, Live

LEMMA SerialFilesStep ==
  ASSUME OneCall, ~MayCrash, TypeOK, FileInv, SerialFiles, [Next]_vars
  PROVE  SerialFiles'
<1> USE DEF rowVars, deadlineVars
<1>1. ASSUME NEW c \in Calls, CallStep(c) PROVE SerialFiles'
  <2>1. CASE UploadRefused(c)
    BY <2>1, SerialFilesHarmless DEF UploadRefused, End, Idle, TypeOK, CallType, CallFields
  <2>2. CASE UploadClear(c)
    BY <2>2, SerialFilesHarmless DEF UploadClear, ToSync, Idle, TypeOK, CallType, CallFields
  <2>3. ASSUME NEW d \in Docs, ApproveStart(c, d) PROVE SerialFiles'
    BY <2>3, SerialFilesHarmless DEF ApproveStart, Start, Idle, TypeOK, CallType, CallFields
  <2>4. ASSUME NEW d \in Docs, RejectStart(c, d) PROVE SerialFiles'
    BY <2>4, SerialFilesHarmless DEF RejectStart, Start, Idle, TypeOK, CallType, CallFields
  <2>5. CASE ApproveWrite(c)
    BY <2>5, SerialFilesHarmless DEF ApproveWrite, Decide, ToSync, Idle, TypeOK, CallType, CallFields
  <2>6. CASE RejectWrite(c)
    BY <2>6, SerialFilesHarmless DEF RejectWrite, Decide, ToSync, Idle, TypeOK, CallType, CallFields
  <2>7. CASE SyncTotal(c)
    BY <2>7, SerialFilesHarmless DEF SyncTotal, TypeOK, CallType, CallFields
  <2>8. CASE SyncApproved(c)
    BY <2>8, SerialFilesHarmless DEF SyncApproved, TypeOK, CallType, CallFields
  <2>9. CASE SyncAwaiting(c)
    <3>1. calls[c].pc = "sy_awaiting" /\ calls'[c].pc = "sy_write" /\ UNCHANGED <<row, file, blobs>>
      BY <2>9, CallTyped DEF SyncAwaiting, TypeOK, CallFields
    <3> QED BY <3>1, SerialFilesHarmless
  <2>10. CASE SyncWrite(c)
    BY <2>10, SerialFilesHarmless DEF SyncWrite, End, Idle, TypeOK, CallType, CallFields
  <2>11. ASSUME NEW d \in Docs, ReanalyzeStart(c, d) PROVE SerialFiles'
    BY <2>11, SerialFilesHarmless DEF ReanalyzeStart, Start, Idle, TypeOK, CallType, CallFields
  <2>12. CASE ReanalyzeRead(c)
    BY <2>12, SerialFilesHarmless DEF ReanalyzeRead, Goto, End, Idle, TypeOK, CallType, CallFields
  <2>13. CASE ReanalyzeAnswer(c)
    BY <2>13, SerialFilesHarmless DEF ReanalyzeAnswer, Goto, TypeOK, CallType, CallFields
  <2>14. CASE ReanalyzeTrack(c)
    BY <2>14, SerialFilesHarmless DEF ReanalyzeTrack, End, Idle, TypeOK, CallType, CallFields
  <2>15. CASE DeleteDeadlines(c)
    BY <2>15, SerialFilesHarmless DEF DeleteDeadlines, ToSync, Idle, TypeOK, CallType, CallFields
  <2>16. ASSUME NEW d \in Docs, AskStart(c, d) PROVE SerialFiles'
    BY <2>16, SerialFilesHarmless DEF AskStart, Start, Idle, TypeOK, CallType, CallFields
  <2>17. CASE AskDeadline(c)
    BY <2>17, SerialFilesHarmless DEF AskDeadline, Goto, TypeOK, CallType, CallFields
  <2>18. CASE AskStatus(c)
    BY <2>18, SerialFilesHarmless DEF AskStatus, End, Idle, TypeOK, CallType, CallFields
  <2>19. CASE WithdrawStart(c)
    BY <2>19, SerialFilesHarmless DEF WithdrawStart, Start, Idle, TypeOK, CallType, CallFields
  <2>20. CASE WithdrawRequest(c)
    BY <2>20, SerialFilesHarmless DEF WithdrawRequest, End, Idle, TypeOK, CallType, CallFields
  <2>21. ASSUME NEW d \in Docs, NEW b \in Blobs, UploadStart(c, d, b) PROVE SerialFiles'
    <3>1. /\ calls[c].pc = "idle" /\ calls'[c].pc \in {"up_drop", "up_save"}
          /\ row[d] = "live" /\ calls'[c].doc = d /\ calls'[c].old = file[d]
          /\ calls'[c].pc = "up_save" => file[d] = NoFile
          /\ UNCHANGED <<row, file, blobs>>
      BY <2>21 DEF UploadStart, Start, Idle, Live, TypeOK, CallType, CallFields
    <3> QED BY <3>1, BlobsAssumption DEF OneCall, SerialFiles, Filing, Live, TypeOK
  <2>22. CASE UploadDrop(c)
    <3>1. /\ calls[c].pc = "up_drop" /\ calls'[c].pc = "up_save"
          /\ calls'[c].doc = calls[c].doc /\ blobs' = blobs \ {calls[c].old}
          /\ UNCHANGED <<row, file>>
      BY <2>22 DEF UploadDrop, Goto, TypeOK, CallType, CallFields
    <3> QED BY <3>1 DEF OneCall, SerialFiles, Filing, Live
  <2>23. CASE UploadSave(c)
    <3>1. /\ calls[c].pc = "up_save" /\ calls'[c].pc = "up_write"
          /\ calls'[c].doc = calls[c].doc /\ calls'[c].new = calls[c].new
          /\ blobs' = blobs \cup {calls[c].new} /\ UNCHANGED <<row, file>>
      BY <2>23 DEF UploadSave, Goto, TypeOK, CallType, CallFields
    <3> QED BY <3>1 DEF OneCall, SerialFiles, Filing, Live, FileInv, NewFilePrivate, Storing, StoringPc
  <2>24. CASE UploadWrite(c)
    <3>1. /\ calls[c].pc = "up_write" /\ calls'[c].pc = "up_clear"
          /\ \A d \in Docs : file'[d] = IF row[d] = "live" /\ d = calls[c].doc THEN calls[c].new ELSE file[d]
          /\ UNCHANGED <<row, blobs>>
      BY <2>24 DEF UploadWrite, Goto, TypeOK, CallType, CallFields
    <3> QED BY <3>1 DEF OneCall, SerialFiles, Filing, Live
  <2>25. ASSUME NEW d \in Docs, DeleteStart(c, d) PROVE SerialFiles'
    <3>1. /\ calls[c].pc = "idle" /\ calls'[c].pc \in {"de_drop", "de_row"}
          /\ row[d] = "live" /\ calls'[c].doc = d /\ calls'[c].old = file[d]
          /\ calls'[c].pc = "de_row" => file[d] = NoFile
          /\ UNCHANGED <<row, file, blobs>>
      BY <2>25 DEF DeleteStart, Start, Idle, Live, TypeOK, CallType, CallFields
    <3> QED BY <3>1, BlobsAssumption DEF OneCall, SerialFiles, Filing, Live, TypeOK
  <2>26. CASE DeleteDrop(c)
    <3>1. /\ calls[c].pc = "de_drop" /\ calls'[c].pc = "de_row"
          /\ calls'[c].doc = calls[c].doc /\ blobs' = blobs \ {calls[c].old}
          /\ UNCHANGED <<row, file>>
      BY <2>26 DEF DeleteDrop, Goto, TypeOK, CallType, CallFields
    <3> QED BY <3>1 DEF OneCall, SerialFiles, Filing, Live
  <2>27. CASE DeleteRow(c)
    <3>1. /\ calls[c].pc = "de_row" /\ calls'[c].pc = "de_deadlines"
          /\ \A d \in Docs : row'[d] = IF d = calls[c].doc THEN "gone" ELSE row[d]
          /\ UNCHANGED <<file, blobs>>
      BY <2>27 DEF DeleteRow, Goto, TypeOK, CallType, CallFields
    <3> QED BY <3>1 DEF OneCall, SerialFiles, Filing, Live
  <2>28. CASE AskInsert(c)
    <3>1. /\ calls[c].pc = "as_insert" /\ calls'[c].pc = "as_deadline"
          /\ \A d \in Docs : row'[d] = IF d = calls[c].doc THEN "live" ELSE row[d]
          /\ UNCHANGED <<file, blobs>>
      BY <2>28 DEF AskInsert, Goto, TypeOK, CallType, CallFields
    <3> QED BY <3>1 DEF OneCall, SerialFiles, Filing, Live
  <2>29. ASSUME NEW b \in Blobs, WithdrawDrop(c, b) PROVE SerialFiles'
    <3>1. /\ calls[c].pc = "wd_drop" /\ calls'[c].pc = "wd_drop"
          /\ calls'[c].drop = calls[c].drop \ {b} /\ blobs' = blobs \ {b}
          /\ UNCHANGED <<row, file>>
      BY <2>29 DEF WithdrawDrop, TypeOK, CallType, CallFields
    <3> QED BY <3>1 DEF OneCall, SerialFiles, Filing, Live
  <2>30. CASE WithdrawRows(c)
    <3>1. /\ calls[c].pc = "wd_drop" /\ calls[c].drop = {} /\ calls'[c].pc = "wd_request"
          /\ UNCHANGED <<file, blobs>>
      BY <2>30 DEF WithdrawRows, Goto, TypeOK, CallType, CallFields
    <3> QED BY <3>1 DEF OneCall, SerialFiles, Filing, Live
  <2>31. CASE WithdrawFind(c)
    <3> DEFINE found == {file[d] : d \in Live} \ {NoFile}
    <3>1. calls' = [calls EXCEPT ![c].drop = found, ![c].pc = "wd_drop"]
      BY <2>31 DEF WithdrawFind
    <3> HIDE DEF found
    <3>2. calls[c].pc = "wd_find" /\ calls'[c].pc = "wd_drop" /\ calls'[c].drop = found
          /\ UNCHANGED <<row, file, blobs>>
      BY <2>31, <3>1, CallTyped DEF WithdrawFind, TypeOK, CallFields
    <3>3. \A b \in blobs : b \in {file[d] : d \in Live}
      BY <3>2 DEF OneCall, SerialFiles
    <3>4. blobs \subseteq found
      BY <3>3, BlobsAssumption DEF found, TypeOK
    <3> QED BY <3>2, <3>3, <3>4 DEF OneCall, SerialFiles, Filing, Live
  <2>32. CASE CallCut(c)
    BY <2>32 DEF CallCut
  <2> QED BY <1>1, <2>1, <2>2, <2>3, <2>4, <2>5, <2>6, <2>7, <2>8, <2>9, <2>10, <2>11, <2>12, <2>13, <2>14, <2>15, <2>16, <2>17, <2>18, <2>19, <2>20, <2>21, <2>22, <2>23, <2>24, <2>25, <2>26, <2>27, <2>28, <2>29, <2>30, <2>31, <2>32 DEF CallStep
<1>2. ASSUME NEW b \in Blobs, JobStep(b) \/ JobCut(b) PROVE SerialFiles'
  <2>1. UNCHANGED <<row, file, blobs, calls>>
    BY <1>2 DEF JobStep, JobRead, JobAnswer, JobTrack, JobGarbled, JobFail, JobCut
  <2> QED BY <2>1 DEF SerialFiles, Filing, Live
<1>3. CASE UNCHANGED vars
  BY <1>3 DEF vars, SerialFiles, Filing, Live
<1> QED BY <1>1, <1>2, <1>3 DEF Next

\* README: replacing an upload deletes the previous blob, so GridFS does not
\* accumulate orphans.  With one call at a time and no crash, whenever nothing
\* runs every stored file is named by a document of the checklist.
THEOREM NoFileIsOrphaned == ASSUME OneCall, ~MayCrash PROVE Spec => []NoOrphans
<1>1. Init => SerialFiles
  BY SerialFilesInit
<1>2. TypeOK /\ FileInv /\ SerialFiles /\ [Next]_vars => SerialFiles'
  BY SerialFilesStep
<1>3. SerialFiles => NoOrphans
  BY DEF SerialFiles, NoOrphans, Quiet
<1> QED BY <1>1, <1>2, <1>3, TypeCorrect, FileInvariant, PTL DEF Spec
-----------------------------------------------------------------------------
\* One call at a time, the checklist is the one ReviewDesk promises.

LEMMA SerialReviewInit == Asked # {} /\ Init => SerialReview
  BY DocsAssumption DEF Init, SerialReview, Filing, Idle, Live, DecidePc, AskPc

\* A call that neither writes a row nor settles the request's status, and does
\* not begin or end a step the invariant is about.
LEMMA SerialReviewHarmless ==
  ASSUME OneCall, SerialReview, NEW c \in Calls,
         UNCHANGED <<row, status, reqStatus>>,
         calls'[c].pc \in {"idle", "up_clear", "de_deadlines", "sy_total", "re_read", "re_answer",
                           "re_track", "wd_find", "wd_drop"},
         calls[c].pc # "idle" \/ Live # {} \/ reqStatus # "deleted"
  PROVE  SerialReview'
  BY DEF OneCall, SerialReview, Filing, DecidePc, AskPc, Live

\* The same, for a call at work on a document that stays.
LEMMA SerialReviewFiling ==
  ASSUME OneCall, SerialReview, NEW c \in Calls,
         UNCHANGED <<row, status, reqStatus>>,
         calls'[c].pc \in {"up_drop", "up_save", "up_write", "de_drop", "de_row", "ap_write", "rj_write"},
         calls'[c].doc \in Live,
         calls'[c].pc \notin DecidePc => status[calls'[c].doc] # "approved"
  PROVE  SerialReview'
  BY DEF OneCall, SerialReview, Filing, DecidePc, AskPc, Live

\* Counting the approved documents against all of them tells whether all are.
LEMMA CountsTell ==
  /\ Cardinality(Live) # 0 /\ Cardinality(LiveWith("approved")) = Cardinality(Live)
  <=> AllApproved
<1>1. IsFiniteSet(Live)
  BY DocsAssumption, FS_Subset DEF Live
<1>2. LiveWith("approved") \subseteq Live
  BY DEF LiveWith
<1>3. Cardinality(LiveWith("approved")) = Cardinality(Live) <=> LiveWith("approved") = Live
  BY <1>1, <1>2, FS_Subset
<1>4. Cardinality(Live) = 0 <=> Live = {}
  BY <1>1, FS_EmptySet
<1> QED BY <1>3, <1>4 DEF AllApproved

LEMMA SerialReviewStep ==
  ASSUME OneCall, ~MayCrash, "ask" \notin Ops, TypeOK, SerialReview, [Next]_vars
  PROVE  SerialReview'
<1> USE DEF rowVars, deadlineVars
<1>1. ASSUME NEW c \in Calls, CallStep(c) PROVE SerialReview'
  <2>1. CASE UploadRefused(c)
    BY <2>1, SerialReviewHarmless DEF UploadRefused, End, Idle, TypeOK, CallType, CallFields
  <2>2. CASE UploadClear(c)
    BY <2>2, SerialReviewHarmless DEF UploadClear, ToSync, Idle, TypeOK, CallType, CallFields
  <2>3. ASSUME NEW d \in Docs, ReanalyzeStart(c, d) PROVE SerialReview'
    BY <2>3, SerialReviewHarmless DEF ReanalyzeStart, Start, Idle, Live, TypeOK, CallType, CallFields
  <2>4. CASE ReanalyzeRead(c)
    BY <2>4, SerialReviewHarmless DEF ReanalyzeRead, Goto, End, Idle, TypeOK, CallType, CallFields
  <2>5. CASE ReanalyzeAnswer(c)
    BY <2>5, SerialReviewHarmless DEF ReanalyzeAnswer, Goto, TypeOK, CallType, CallFields
  <2>6. CASE ReanalyzeTrack(c)
    BY <2>6, SerialReviewHarmless DEF ReanalyzeTrack, End, Idle, TypeOK, CallType, CallFields
  <2>7. CASE DeleteDeadlines(c)
    BY <2>7, SerialReviewHarmless DEF DeleteDeadlines, ToSync, Idle, TypeOK, CallType, CallFields
  <2>8. CASE WithdrawStart(c)
    BY <2>8, SerialReviewHarmless DEF WithdrawStart, Start, Idle, TypeOK, CallType, CallFields
  <2>9. ASSUME NEW b \in Blobs, WithdrawDrop(c, b) PROVE SerialReview'
    BY <2>9, SerialReviewHarmless DEF WithdrawDrop, TypeOK, CallType, CallFields
  <2>10. ASSUME NEW d \in Docs, NEW b \in Blobs, UploadStart(c, d, b) PROVE SerialReview'
    BY <2>10, SerialReviewFiling DEF UploadStart, Start, Idle, Live, DecidePc, TypeOK, CallType, CallFields
  <2>11. CASE UploadDrop(c)
    BY <2>11, SerialReviewFiling DEF UploadDrop, Goto, SerialReview, Filing, DecidePc, TypeOK, CallType, CallFields
  <2>12. CASE UploadSave(c)
    BY <2>12, SerialReviewFiling DEF UploadSave, Goto, SerialReview, Filing, DecidePc, TypeOK, CallType, CallFields
  <2>13. ASSUME NEW d \in Docs, ApproveStart(c, d) PROVE SerialReview'
    BY <2>13, SerialReviewFiling DEF ApproveStart, Start, Idle, Live, DecidePc, TypeOK, CallType, CallFields
  <2>14. ASSUME NEW d \in Docs, RejectStart(c, d) PROVE SerialReview'
    BY <2>14, SerialReviewFiling DEF RejectStart, Start, Idle, Live, DecidePc, TypeOK, CallType, CallFields
  <2>15. ASSUME NEW d \in Docs, DeleteStart(c, d) PROVE SerialReview'
    BY <2>15, SerialReviewFiling DEF DeleteStart, Start, Idle, Live, DecidePc, TypeOK, CallType, CallFields
  <2>16. CASE DeleteDrop(c)
    BY <2>16, SerialReviewFiling DEF DeleteDrop, Goto, SerialReview, Filing, DecidePc, TypeOK, CallType, CallFields
  <2>17. CASE UploadWrite(c)
    <3>1. /\ calls[c].pc = "up_write" /\ calls'[c].pc = "up_clear"
          /\ UNCHANGED <<row, reqStatus>>
      BY <2>17 DEF UploadWrite, Goto, TypeOK, CallType, CallFields
    <3>2. reqStatus # "deleted"
      BY <3>1 DEF SerialReview
    <3> QED BY <3>1, <3>2 DEF OneCall, SerialReview, Filing, DecidePc, AskPc
  <2>18. CASE ApproveWrite(c)
    <3>1. /\ calls[c].pc = "ap_write" /\ calls'[c].pc = "sy_total"
          /\ UNCHANGED <<row, reqStatus>>
      BY <2>18 DEF ApproveWrite, Decide, ToSync, Idle, TypeOK, CallType, CallFields
    <3>2. reqStatus # "deleted"
      BY <3>1 DEF SerialReview
    <3> QED BY <3>1, <3>2 DEF OneCall, SerialReview, Filing, DecidePc, AskPc
  <2>19. CASE RejectWrite(c)
    <3>1. /\ calls[c].pc = "rj_write" /\ calls'[c].pc = "sy_total"
          /\ UNCHANGED <<row, reqStatus>>
      BY <2>19 DEF RejectWrite, Decide, ToSync, Idle, TypeOK, CallType, CallFields
    <3>2. reqStatus # "deleted"
      BY <3>1 DEF SerialReview
    <3> QED BY <3>1, <3>2 DEF OneCall, SerialReview, Filing, DecidePc, AskPc
  <2>20. CASE DeleteRow(c)
    <3>1. /\ calls[c].pc = "de_row" /\ calls'[c].pc = "de_deadlines"
          /\ UNCHANGED <<status, reqStatus>>
      BY <2>20 DEF DeleteRow, Goto, TypeOK, CallType, CallFields
    <3>2. reqStatus # "deleted"
      BY <3>1 DEF SerialReview
    <3> QED BY <3>1, <3>2 DEF OneCall, SerialReview, Filing, DecidePc, AskPc
  <2>21. CASE WithdrawRows(c)
    <3>1. /\ calls[c].pc = "wd_drop" /\ calls'[c].pc = "wd_request" /\ UNCHANGED reqStatus
          /\ \A d \in Docs : row'[d] # "live"
      BY <2>21 DEF WithdrawRows, Goto, TypeOK, CallType, CallFields
    <3> QED BY <3>1 DEF OneCall, SerialReview, Filing, DecidePc, AskPc, Live
  <2>22. CASE WithdrawRequest(c)
    <3>1. calls[c].pc = "wd_request" /\ calls'[c].pc = "idle" /\ UNCHANGED <<row, status>>
      BY <2>22 DEF WithdrawRequest, End, Idle, TypeOK, CallType, CallFields
    <3> QED BY <3>1 DEF OneCall, SerialReview, Filing, DecidePc, AskPc, Live
  <2>23. CASE WithdrawFind(c)
    <3> DEFINE found == {file[d] : d \in Live} \ {NoFile}
    <3>1. calls' = [calls EXCEPT ![c].drop = found, ![c].pc = "wd_drop"]
      BY <2>23 DEF WithdrawFind
    <3> HIDE DEF found
    <3>2. calls'[c].pc = "wd_drop"
      BY <3>1, CallTyped DEF TypeOK, CallFields
    <3> QED BY <2>23, <3>2, SerialReviewHarmless DEF WithdrawFind
  <2>24. CASE SyncTotal(c)
    <3> DEFINE n == Cardinality(Live)
    <3>1. calls' = [calls EXCEPT ![c].total = n, ![c].pc = "sy_approved"]
      BY <2>24 DEF SyncTotal
    <3> HIDE DEF n
    <3>2. calls'[c].pc = "sy_approved" /\ calls'[c].total = n
      BY <3>1, CallTyped DEF TypeOK, CallFields
    <3>3. n' = n /\ UNCHANGED <<row, status, reqStatus>> /\ reqStatus # "deleted"
      BY <2>24 DEF SyncTotal, n, Live, SerialReview
    <3>4. \A o \in Calls : o = c
      BY DEF OneCall
    <3>5. reqStatus' = "deleted" => Live' = {}
      BY <3>3
    <3> QED BY <3>2, <3>3, <3>4, <3>5 DEF SerialReview, Filing, DecidePc, AskPc, n
  <2>25. CASE SyncApproved(c)
    <3> DEFINE all == calls[c].total # 0 /\ Cardinality(LiveWith("approved")) = calls[c].total
    <3>1. calls' = [calls EXCEPT ![c].all = all, ![c].total = 0, ![c].pc = "sy_awaiting"]
      BY <2>25 DEF SyncApproved
    <3>2. calls[c].total = Cardinality(Live) /\ reqStatus # "deleted"
      BY <2>25 DEF SyncApproved, SerialReview
    <3>3. all = AllApproved
      BY <3>2, CountsTell DEF AllApproved
    <3> HIDE DEF all
    <3>4. calls'[c].pc = "sy_awaiting" /\ calls'[c].all = all
      BY <3>1, CallTyped DEF TypeOK, CallFields
    <3>5. AllApproved' = AllApproved /\ UNCHANGED <<row, status, reqStatus>>
      BY <2>25 DEF SyncApproved, AllApproved, Live, LiveWith
    <3>6. calls'[c].all = AllApproved'
      BY <3>3, <3>4, <3>5
    <3>7. \A o \in Calls : o = c
      BY DEF OneCall
    <3> HIDE DEF AllApproved
    <3> QED BY <3>2, <3>4, <3>5, <3>6, <3>7 DEF SerialReview, Filing, DecidePc, AskPc
  <2>26. CASE SyncAwaiting(c)
    <3> DEFINE sum == IF calls[c].all THEN "under_review"
                      ELSE IF LiveWith("with_consultant") # {} THEN "documents_received"
                      ELSE "waiting_for_client"
    <3>1. calls' = [calls EXCEPT ![c].next = sum, ![c].all = FALSE, ![c].pc = "sy_write"]
      BY <2>26 DEF SyncAwaiting
    <3>2. calls[c].all = AllApproved /\ reqStatus # "deleted"
      BY <2>26 DEF SyncAwaiting, SerialReview
    <3>3. sum = Derived
      BY <3>2 DEF Derived, AllApproved
    <3> HIDE DEF sum
    <3>4. calls'[c].pc = "sy_write" /\ calls'[c].next = sum
      BY <3>1, CallTyped DEF TypeOK, CallFields
    <3>5. Derived' = Derived /\ UNCHANGED <<row, status, reqStatus>>
      BY <2>26 DEF SyncAwaiting, Derived, Live, LiveWith
    <3>6. calls'[c].next = Derived'
      BY <3>3, <3>4, <3>5
    <3>7. \A o \in Calls : o = c
      BY DEF OneCall
    <3> QED BY <3>2, <3>4, <3>5, <3>6, <3>7 DEF SerialReview, Filing, DecidePc, AskPc
  <2>27. CASE SyncWrite(c)
    <3>1. calls'[c].pc = "idle" /\ reqStatus' # "deleted" /\ UNCHANGED <<row, status>>
      BY <2>27, CallTyped DEF SyncWrite, SetRequest, End, Idle, SerialReview, TypeOK, CallFields, SyncStatus
    <3> QED BY <3>1 DEF OneCall, SerialReview, Filing, DecidePc, AskPc
  <2>28. ASSUME NEW d \in Docs, AskStart(c, d) PROVE SerialReview'
    BY <2>28 DEF AskStart, Start
  <2>29. CASE AskInsert(c)
    BY <2>29 DEF AskInsert, SerialReview, AskPc
  <2>30. CASE AskDeadline(c)
    BY <2>30 DEF AskDeadline, SerialReview, AskPc
  <2>31. CASE AskStatus(c)
    BY <2>31 DEF AskStatus, SerialReview, AskPc
  <2>32. CASE CallCut(c)
    BY <2>32 DEF CallCut
  <2> QED BY <1>1, <2>1, <2>2, <2>3, <2>4, <2>5, <2>6, <2>7, <2>8, <2>9, <2>10, <2>11, <2>12, <2>13, <2>14, <2>15, <2>16, <2>17, <2>18, <2>19, <2>20, <2>21, <2>22, <2>23, <2>24, <2>25, <2>26, <2>27, <2>28, <2>29, <2>30, <2>31, <2>32 DEF CallStep
<1>2. ASSUME NEW b \in Blobs, JobStep(b) \/ JobCut(b) PROVE SerialReview'
  <2>1. UNCHANGED <<row, status, reqStatus, calls>>
    BY <1>2 DEF JobStep, JobRead, JobAnswer, JobTrack, JobGarbled, JobFail, JobCut
  <2> QED BY <2>1 DEF SerialReview, Filing, Live, LiveWith, AllApproved, Derived
<1>3. CASE UNCHANGED vars
  BY <1>3 DEF vars, SerialReview, Filing, Live, LiveWith, AllApproved, Derived
<1> QED BY <1>1, <1>2, <1>3 DEF Next
-----------------------------------------------------------------------------
\* The refinement: each step of the one call is a step of ReviewDesk or none.

SaysRight == Desk!Says(sheetBar) = Derived

LEMMA SaysDerived == TypeOK => SaysRight
<1> SUFFICES ASSUME TypeOK PROVE Desk!Says(sheetBar) = Derived
  BY DEF SaysRight
<1>1. \A d \in Docs : status[d] # "absent"
  BY DEF TypeOK, DocumentStatus
<1>2. {d \in Docs : sheetBar[d] # "absent"} = Live
  BY <1>1 DEF sheetBar, Live
<1>3. (\A d \in Live : sheetBar[d] = "approved") <=> LiveWith("approved") = Live
  BY DEF sheetBar, Live, LiveWith
<1>4. (\E d \in Docs : sheetBar[d] = "with_consultant") <=> LiveWith("with_consultant") # {}
  BY DEF sheetBar, Live, LiveWith
<1> QED BY <1>2, <1>3, <1>4 DEF Desk!Says, Derived

CountingPc == {"up_clear", "de_deadlines"} \cup SyncPc

LEMMA SaidOne ==
  ASSUME OneCall, NEW c \in Calls
  PROVE  saidBar = IF calls[c].pc = "wd_request" THEN "deleted"
                   ELSE IF calls[c].pc \in CountingPc THEN Derived ELSE reqStatus
  BY DEF OneCall, saidBar, Counting, CountingPc

LEMMA SaidOneNext ==
  ASSUME OneCall, NEW c \in Calls
  PROVE  saidBar' = IF calls'[c].pc = "wd_request" THEN "deleted"
                    ELSE IF calls'[c].pc \in CountingPc THEN Derived' ELSE reqStatus'
  BY DEF OneCall, saidBar, Counting, CountingPc

\* The rows say the same, and so does the request.
LEMMA DeskStutters ==
  ASSUME UNCHANGED <<row, status, file>>, saidBar' = saidBar
  PROVE  UNCHANGED Desk!deskVars
  BY DEF Desk!deskVars, sheetBar, filedBar, Live

\* A call that has written no row yet, or is ending without one.
LEMMA BeforeTheWrite ==
  ASSUME OneCall, NEW c \in Calls, UNCHANGED <<row, status, file, reqStatus>>,
         calls[c].pc \notin CountingPc \cup {"wd_request"},
         calls'[c].pc \notin CountingPc \cup {"wd_request"}
  PROVE  UNCHANGED Desk!deskVars
  BY SaidOne, SaidOneNext, DeskStutters DEF CountingPc

\* A call that has, and is on its way to the request's status.
LEMMA AfterTheWrite ==
  ASSUME OneCall, NEW c \in Calls, UNCHANGED <<row, status, file, reqStatus>>,
         calls[c].pc \in CountingPc, calls'[c].pc \in CountingPc
  PROVE  UNCHANGED Desk!deskVars
<1>1. Derived' = Derived
  BY DEF Derived, Live, LiveWith
<1>2. calls[c].pc # "wd_request" /\ calls'[c].pc # "wd_request"
  BY DEF CountingPc, SyncPc
<1> QED BY <1>1, <1>2, SaidOne, SaidOneNext, DeskStutters

\* The write of one row, and the count it sets off, are a turn of the desk.
LEMMA RowTurns ==
  ASSUME OneCall, NEW c \in Calls, NEW d \in Live, NEW s, NEW f,
         SaysRight',
         calls'[c].pc \in CountingPc,
         \A e \in Docs : e # d => UNCHANGED <<row[e], status[e], file[e]>>,
         s = IF row'[d] = "live" THEN status'[d] ELSE "absent",
         f = (row'[d] = "live" /\ file'[d] # NoFile)
  PROVE  Desk!Turn(d, s, f)
<1>1. sheetBar' = [sheetBar EXCEPT ![d] = s]
  BY DEF sheetBar, Live
<1>2. filedBar' = [filedBar EXCEPT ![d] = f]
  BY DEF filedBar, Live
<1>3. calls'[c].pc # "wd_request"
  BY DEF CountingPc, SyncPc
<1>4. saidBar' = Desk!Says(sheetBar)'
  BY <1>3, SaidOneNext DEF SaysRight
<1> QED BY <1>1, <1>2, <1>4 DEF Desk!Turn, Desk!Says

LEMMA DeskStep ==
  ASSUME OneCall, ~MayCrash, "ask" \notin Ops, TypeOK, TypeOK', ReviewInv, SerialReview,
         SaysRight', [Next]_vars
  PROVE  [Desk!DeskNext]_(Desk!deskVars)
<1> USE DEF rowVars, deadlineVars
<1>1. ASSUME NEW c \in Calls, CallStep(c) PROVE [Desk!DeskNext]_(Desk!deskVars)
  <2>1. ASSUME NEW d \in Docs, NEW b \in Blobs, UploadStart(c, d, b)
       PROVE [Desk!DeskNext]_(Desk!deskVars)
    BY <2>1, BeforeTheWrite DEF UploadStart, Start, Idle, CountingPc, SyncPc, TypeOK, CallType, CallFields
  <2>2. CASE UploadDrop(c)
    BY <2>2, BeforeTheWrite DEF UploadDrop, Goto, CountingPc, SyncPc, TypeOK, CallType, CallFields
  <2>3. CASE UploadSave(c)
    BY <2>3, BeforeTheWrite DEF UploadSave, Goto, CountingPc, SyncPc, TypeOK, CallType, CallFields
  <2>4. CASE UploadRefused(c)
    BY <2>4, BeforeTheWrite DEF UploadRefused, End, Idle, CountingPc, SyncPc, TypeOK, CallType, CallFields
  <2>5. ASSUME NEW d \in Docs, ApproveStart(c, d)
       PROVE [Desk!DeskNext]_(Desk!deskVars)
    BY <2>5, BeforeTheWrite DEF ApproveStart, Start, Idle, CountingPc, SyncPc, TypeOK, CallType, CallFields
  <2>6. ASSUME NEW d \in Docs, RejectStart(c, d)
       PROVE [Desk!DeskNext]_(Desk!deskVars)
    BY <2>6, BeforeTheWrite DEF RejectStart, Start, Idle, CountingPc, SyncPc, TypeOK, CallType, CallFields
  <2>7. ASSUME NEW d \in Docs, ReanalyzeStart(c, d)
       PROVE [Desk!DeskNext]_(Desk!deskVars)
    BY <2>7, BeforeTheWrite DEF ReanalyzeStart, Start, Idle, CountingPc, SyncPc, TypeOK, CallType, CallFields
  <2>8. CASE ReanalyzeAnswer(c)
    BY <2>8, BeforeTheWrite DEF ReanalyzeAnswer, Goto, CountingPc, SyncPc, TypeOK, CallType, CallFields
  <2>9. CASE ReanalyzeTrack(c)
    BY <2>9, BeforeTheWrite DEF ReanalyzeTrack, End, Idle, CountingPc, SyncPc, TypeOK, CallType, CallFields
  <2>10. ASSUME NEW d \in Docs, DeleteStart(c, d)
       PROVE [Desk!DeskNext]_(Desk!deskVars)
    BY <2>10, BeforeTheWrite DEF DeleteStart, Start, Idle, CountingPc, SyncPc, TypeOK, CallType, CallFields
  <2>11. CASE DeleteDrop(c)
    BY <2>11, BeforeTheWrite DEF DeleteDrop, Goto, CountingPc, SyncPc, TypeOK, CallType, CallFields
  <2>12. CASE WithdrawStart(c)
    BY <2>12, BeforeTheWrite DEF WithdrawStart, Start, Idle, CountingPc, SyncPc, TypeOK, CallType, CallFields
  <2>13. ASSUME NEW b \in Blobs, WithdrawDrop(c, b)
       PROVE [Desk!DeskNext]_(Desk!deskVars)
    BY <2>13, BeforeTheWrite DEF WithdrawDrop, CountingPc, SyncPc, TypeOK, CallType, CallFields
  <2>14. CASE ReanalyzeRead(c)
    <3>1. /\ calls[c].pc = "re_read" /\ calls'[c].pc \in {"re_answer", "idle"}
          /\ UNCHANGED <<row, status, file, reqStatus>>
      BY <2>14 DEF ReanalyzeRead, Goto, End, Idle, TypeOK, CallType, CallFields
    <3> QED BY <3>1, BeforeTheWrite DEF CountingPc, SyncPc
  <2>15. CASE WithdrawFind(c)
    <3> DEFINE found == {file[d] : d \in Live} \ {NoFile}
    <3>1. calls' = [calls EXCEPT ![c].drop = found, ![c].pc = "wd_drop"]
      BY <2>15 DEF WithdrawFind
    <3> HIDE DEF found
    <3>2. calls'[c].pc = "wd_drop"
      BY <3>1, CallTyped DEF TypeOK, CallFields
    <3> QED BY <2>15, <3>2, BeforeTheWrite DEF WithdrawFind, CountingPc, SyncPc
  <2>16. CASE UploadClear(c)
    BY <2>16, AfterTheWrite DEF UploadClear, ToSync, Idle, CountingPc, SyncPc, TypeOK, CallType, CallFields
  <2>17. CASE DeleteDeadlines(c)
    BY <2>17, AfterTheWrite DEF DeleteDeadlines, ToSync, Idle, CountingPc, SyncPc, TypeOK, CallType, CallFields
  <2>18. CASE SyncTotal(c)
    <3>1. calls[c].pc = "sy_total" /\ calls'[c].pc = "sy_approved"
      BY <2>18, CallTyped DEF SyncTotal, TypeOK, CallFields
    <3> QED BY <2>18, <3>1, AfterTheWrite DEF SyncTotal, CountingPc, SyncPc
  <2>19. CASE SyncApproved(c)
    <3>1. calls[c].pc = "sy_approved" /\ calls'[c].pc = "sy_awaiting"
      BY <2>19, CallTyped DEF SyncApproved, TypeOK, CallFields
    <3> QED BY <2>19, <3>1, AfterTheWrite DEF SyncApproved, CountingPc, SyncPc
  <2>20. CASE SyncAwaiting(c)
    <3> DEFINE sum == IF calls[c].all THEN "under_review"
                      ELSE IF LiveWith("with_consultant") # {} THEN "documents_received"
                      ELSE "waiting_for_client"
    <3>1. calls' = [calls EXCEPT ![c].next = sum, ![c].all = FALSE, ![c].pc = "sy_write"]
      BY <2>20 DEF SyncAwaiting
    <3> HIDE DEF sum
    <3>2. calls'[c].pc = "sy_write"
      BY <3>1, CallTyped DEF TypeOK, CallFields
    <3> QED BY <2>20, <3>2, AfterTheWrite DEF SyncAwaiting, CountingPc, SyncPc
  <2>21. CASE SyncWrite(c)
    <3>1. /\ calls[c].pc = "sy_write" /\ calls'[c].pc = "idle" /\ UNCHANGED <<row, status, file>>
          /\ reqStatus' = calls[c].next
      BY <2>21, CallTyped DEF SyncWrite, SetRequest, End, Idle, SerialReview, TypeOK, CallFields
    <3>2. calls[c].next = Derived
      BY <3>1 DEF SerialReview
    <3>3. saidBar = Derived
      BY <3>1, SaidOne DEF CountingPc, SyncPc
    <3>4. saidBar' = reqStatus'
      BY <3>1, SaidOneNext DEF CountingPc, SyncPc
    <3> QED BY <3>1, <3>2, <3>3, <3>4, DeskStutters
  <2>22. CASE WithdrawRequest(c)
    <3>1. /\ calls[c].pc = "wd_request" /\ calls'[c].pc = "idle" /\ UNCHANGED <<row, status, file>>
          /\ reqStatus' = "deleted"
      BY <2>22 DEF WithdrawRequest, End, Idle, TypeOK, CallType, CallFields
    <3> QED BY <3>1, SaidOne, SaidOneNext, DeskStutters DEF CountingPc, SyncPc
  <2>23. CASE UploadWrite(c)
    <3> DEFINE d == calls[c].doc
    <3>1. d \in Live /\ status[d] # "approved"
      BY <2>23 DEF UploadWrite, SerialReview, Filing
    <3>2. calls[c].new # NoFile
      BY <2>23, NewIsFile DEF UploadWrite, Storing, StoringPc
    <3>3. /\ calls'[c].pc = "up_clear" /\ row' = row
          /\ \A e \in Docs : e # d => status'[e] = status[e] /\ file'[e] = file[e]
          /\ status'[d] = "with_consultant" /\ file'[d] = calls[c].new
      BY <2>23, <3>1 DEF UploadWrite, Goto, Live, TypeOK, CallType, CallFields
    <3> HIDE DEF d
    <3>4. Desk!Turn(d, "with_consultant", TRUE)
      BY <3>1, <3>2, <3>3, RowTurns DEF CountingPc, SyncPc, Live
    <3>5. sheetBar[d] = status[d] /\ status[d] \in DocumentStatus /\ d \in Docs
      BY <3>1 DEF sheetBar, Live, TypeOK
    <3>6. Desk!Receive(d)
      BY <3>1, <3>4, <3>5 DEF Desk!Receive, DocumentStatus
    <3> QED BY <3>5, <3>6 DEF Desk!DeskNext
  <2>24. CASE ApproveWrite(c)
    <3> DEFINE d == calls[c].doc
    <3>1. d \in Live /\ file[d] # NoFile
      BY <2>24 DEF ApproveWrite, Decide, SerialReview, DecidePc, ReviewInv
    <3>2. /\ calls'[c].pc = "sy_total" /\ row' = row /\ file' = file
          /\ \A e \in Docs : e # d => status'[e] = status[e]
          /\ status'[d] = "approved"
      BY <2>24, <3>1 DEF ApproveWrite, Decide, ToSync, Idle, Live, TypeOK, CallType, CallFields
    <3> HIDE DEF d
    <3>3. Desk!Turn(d, "approved", TRUE)
      BY <3>1, <3>2, RowTurns DEF CountingPc, SyncPc, Live
    <3>4. sheetBar[d] # "absent" /\ filedBar[d] /\ d \in Docs
      BY <3>1 DEF sheetBar, filedBar, Live, TypeOK, DocumentStatus
    <3>5. Desk!Approve(d)
      BY <3>3, <3>4 DEF Desk!Approve
    <3> QED BY <3>4, <3>5 DEF Desk!DeskNext
  <2>25. CASE RejectWrite(c)
    <3> DEFINE d == calls[c].doc
    <3>1. d \in Live
      BY <2>25 DEF RejectWrite, Decide, SerialReview, DecidePc
    <3>2. /\ calls'[c].pc = "sy_total" /\ row' = row /\ file' = file
          /\ \A e \in Docs : e # d => status'[e] = status[e]
          /\ status'[d] = "needs_reupload"
      BY <2>25, <3>1 DEF RejectWrite, Decide, ToSync, Idle, Live, TypeOK, CallType, CallFields
    <3> HIDE DEF d
    <3>3. sheetBar[d] # "absent" /\ filedBar[d] = (file[d] # NoFile) /\ d \in Docs
      BY <3>1 DEF sheetBar, filedBar, Live, TypeOK, DocumentStatus
    <3>4. Desk!Turn(d, "needs_reupload", filedBar[d])
      BY <3>1, <3>2, <3>3, RowTurns DEF CountingPc, SyncPc, Live
    <3>5. Desk!Return(d)
      BY <3>3, <3>4 DEF Desk!Return
    <3> QED BY <3>3, <3>5 DEF Desk!DeskNext
  <2>26. CASE DeleteRow(c)
    <3> DEFINE d == calls[c].doc
    <3>1. d \in Live /\ status[d] # "approved"
      BY <2>26 DEF DeleteRow, SerialReview, Filing
    <3>2. /\ calls'[c].pc = "de_deadlines" /\ status' = status /\ file' = file
          /\ \A e \in Docs : e # d => row'[e] = row[e]
          /\ row'[d] = "gone"
      BY <2>26, <3>1 DEF DeleteRow, Goto, Live, TypeOK, CallType, CallFields
    <3> HIDE DEF d
    <3>3. Desk!Turn(d, "absent", FALSE)
      BY <3>1, <3>2, RowTurns DEF CountingPc, SyncPc
    <3>4. sheetBar[d] = status[d] /\ status[d] \in DocumentStatus /\ d \in Docs
      BY <3>1 DEF sheetBar, Live, TypeOK
    <3>5. Desk!Strike(d)
      BY <3>1, <3>3, <3>4 DEF Desk!Strike, DocumentStatus
    <3> QED BY <3>4, <3>5 DEF Desk!DeskNext
  <2>27. CASE WithdrawRows(c)
    <3>1. /\ calls[c].pc = "wd_drop" /\ calls'[c].pc = "wd_request"
          /\ \A d \in Docs : row'[d] # "live"
      BY <2>27 DEF WithdrawRows, Goto, TypeOK, CallType, CallFields
    <3>2. saidBar # "deleted"
      BY <3>1, SaidOne DEF CountingPc, SyncPc, SerialReview
    <3>3. saidBar' = "deleted"
      BY <3>1, SaidOneNext
    <3>4. sheetBar' = [d \in Docs |-> "absent"] /\ filedBar' = [d \in Docs |-> FALSE]
      BY <3>1 DEF sheetBar, filedBar, Live
    <3> QED BY <3>2, <3>3, <3>4 DEF Desk!WithdrawAll, Desk!DeskNext
  <2>28. ASSUME NEW d \in Docs, AskStart(c, d)
       PROVE [Desk!DeskNext]_(Desk!deskVars)
    BY <2>28 DEF AskStart, Start
  <2>29. CASE AskInsert(c)
    BY <2>29 DEF AskInsert, SerialReview, AskPc
  <2>30. CASE AskDeadline(c)
    BY <2>30 DEF AskDeadline, SerialReview, AskPc
  <2>31. CASE AskStatus(c)
    BY <2>31 DEF AskStatus, SerialReview, AskPc
  <2>32. CASE CallCut(c)
    BY <2>32 DEF CallCut
  <2> QED BY <1>1, <2>1, <2>2, <2>3, <2>4, <2>5, <2>6, <2>7, <2>8, <2>9, <2>10, <2>11, <2>12, <2>13, <2>14, <2>15, <2>16, <2>17, <2>18, <2>19, <2>20, <2>21, <2>22, <2>23, <2>24, <2>25, <2>26, <2>27, <2>28, <2>29, <2>30, <2>31, <2>32 DEF CallStep
<1>2. ASSUME NEW b \in Blobs, JobStep(b) \/ JobCut(b) PROVE UNCHANGED Desk!deskVars
  <2>1. UNCHANGED <<row, status, file, reqStatus, calls>>
    BY <1>2 DEF JobStep, JobRead, JobAnswer, JobTrack, JobGarbled, JobFail, JobCut
  <2>2. saidBar' = saidBar
    BY <2>1 DEF saidBar, Counting, Derived, Live, LiveWith
  <2> QED BY <2>1, <2>2, DeskStutters
<1>3. CASE UNCHANGED vars
  <2>1. saidBar' = saidBar
    BY <1>3 DEF vars, saidBar, Counting, Derived, Live, LiveWith
  <2> QED BY <1>3, <2>1, DeskStutters DEF vars
<1> QED BY <1>1, <1>2, <1>3 DEF Next

LEMMA DeskStart == Asked # {} /\ Init => Desk!DeskInit
<1> SUFFICES ASSUME Asked # {}, Init PROVE Desk!DeskInit
  OBVIOUS
<1>1. \A d \in Docs : sheetBar[d] = IF d \in Asked THEN "upload_needed" ELSE "absent"
  BY DEF Init, sheetBar, Live
<1>2. sheetBar \in [Docs -> {"absent", "upload_needed"}]
  BY <1>1 DEF sheetBar
<1>3. filedBar = [d \in Docs |-> FALSE]
  BY DEF Init, filedBar
<1>4. saidBar = "waiting_for_client"
  BY DEF Init, saidBar, Counting, Idle, SyncPc
<1>5. Desk!Says(sheetBar) = "waiting_for_client"
  BY <1>1, DocsAssumption DEF Desk!Says
<1> QED BY <1>2, <1>3, <1>4, <1>5 DEF Desk!DeskInit

\* With one call at a time, no crash, and the documents asked for at the start,
\* what the service does to a checklist is what the desk allows: a document is
\* approved on a file, an approved one is neither replaced nor struck, and each
\* status the request reports is the one its documents add up to.
THEOREM ServiceIsADesk ==
  ASSUME OneCall, ~MayCrash, "ask" \notin Ops, Asked # {}
  PROVE  Spec => ImplementsDesk
<1>1. Init => SerialReview /\ Desk!DeskInit
  BY SerialReviewInit, DeskStart
<1>2. TypeOK /\ SerialReview /\ [Next]_vars => SerialReview'
  BY SerialReviewStep
<1>3. TypeOK' => SaysRight'
  BY SaysDerived, PTL
<1>4. TypeOK /\ TypeOK' /\ ReviewInv /\ SerialReview /\ [Next]_vars
      => [Desk!DeskNext]_(Desk!deskVars)
  BY <1>3, DeskStep
<1>5. Spec => []ReviewInv
  BY ReviewInit, ReviewStep, TypeCorrect, PTL DEF Spec
<1> QED BY <1>1, <1>2, <1>4, <1>5, TypeCorrect, PTL DEF Spec, ImplementsDesk, Desk!DeskSpec
=============================================================================
