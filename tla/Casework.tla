------------------------------ MODULE Casework ------------------------------
(***************************************************************************)
(* The modules about a client's case: how it is opened and closed, what    *)
(* partners do on it, its own record, and the catalogue it is opened from. *)
(* Each instance is a desk, and a behaviour stays at the desk it begins    *)
(* at: the desks share no step, so what is said of all of them is said of  *)
(* each as if it stood alone.  v1 to v7 are the variables of the module at *)
(* the desk.                                                               *)
(***************************************************************************)
EXTENDS Naturals, FiniteSets

CONSTANTS
  Nobody, Nothing,                              \* placeholders
  Callers, Clerk,                               \* calls at once, and one at a time
  Cases, DocsAt, LastAt, OpsAt, DraftsAt, CrashAt, NoCase,     \* CaseOpening, at each desk
  Tasks, Files, Partners, Client,               \* PartnerWork
  Last, FilingStage, ResponseStage, FixedLadder, Fields, Papers, Attachments, \* CaseFile
  Keys, Defaults, MaxRows, Names, Procedures, MaxEdits, Copies, Workers, Readers \* Catalogue

VARIABLES desk, v1, v2, v3, v4, v5, v6, v7
atDesk == <<v1, v2, v3, v4, v5, v6, v7>>
caseworkVars == <<desk, atDesk>>
Away == "away"

-----------------------------------------------------------------------------
\* The doors that open a case: with several callers every door but POST /cases;
\* then POST /cases beside open_case, and everything one call at a time.
CallersAt == [pending |-> Callers, beside |-> {Clerk}, serial |-> {Clerk}]

Door(d) == INSTANCE CaseOpening WITH
  reqStatus <- v1, reqCase <- v2, stage <- v3, sheet <- v4, required <- v5, boundTo <- v6, calls <- v7,
  Docs <- DocsAt[d], Calls <- CallersAt[d], LastStage <- LastAt[d], Ops <- OpsAt[d],
  Drafts <- DraftsAt[d], MayCrash <- CrashAt[d]

\* Partners: what they deliver and remove, beside tasks and reviews.
Work == INSTANCE PartnerWork WITH
  tasks <- v1, entries <- v2, blobs <- v3, rows <- v4, chased <- v5, handed <- v6, calls <- v7,
  NoOne <- Nobody, NoTask <- Nothing, NoFile <- Nothing, Calls <- Callers

\* The case's own record, and the practice's catalogue.
File == INSTANCE CaseFile WITH
  case <- v1, dues <- v2, answers <- v3, docs <- v4, files <- v5, working <- v6,
  Docs <- Papers, Files <- Attachments, Calls <- Callers,
  Alone <- {"advance", "fill", "field"}
Areas == INSTANCE Catalogue WITH
  areas <- v1, hidden <- v2, unique <- v3, procedures <- v4, opened <- v5, seeded <- v6, reading <- v7,
  Cases <- Copies, NoKey <- Nobody, Removed <- Nothing, NoName <- Nobody, NoProcedure <- Nobody

ASSUME DesksAssumption ==
  /\ Door("pending")!CaseOpeningAssumption /\ "create" \notin OpsAt.pending
  /\ Door("beside")!CaseOpeningAssumption
  /\ Door("serial")!CaseOpeningAssumption /\ "create" \notin OpsAt.serial /\ ~CrashAt.serial
  /\ Work!PartnerWorkAssumption /\ File!CaseFileAssumption /\ Areas!CatalogueAssumption

-----------------------------------------------------------------------------
CaseworkInit ==
  \/ desk = "pending" /\ Door("pending")!Init
  \/ desk = "beside" /\ Door("beside")!Init
  \/ desk = "serial" /\ Door("serial")!Init
  \/ desk = "deliveries" /\ Work!Init
  \/ desk = "file" /\ File!Init /\ v7 = Away
  \/ desk = "areas" /\ Areas!Init

AtPending == desk = "pending" /\ Door("pending")!Next /\ UNCHANGED desk
AtBeside == desk = "beside" /\ Door("beside")!Next /\ UNCHANGED desk
AtSerial == desk = "serial" /\ Door("serial")!Next /\ UNCHANGED desk
AtDeliveries == desk = "deliveries" /\ Work!Next /\ UNCHANGED desk
AtFile == desk = "file" /\ File!Next /\ UNCHANGED <<desk, v7>>
AtAreas == desk = "areas" /\ Areas!Next /\ UNCHANGED desk

CaseworkNext ==
  AtPending \/ AtBeside \/ AtSerial \/ AtDeliveries \/ AtFile \/ AtAreas

CaseworkSpec == CaseworkInit /\ [][CaseworkNext]_caseworkVars

-----------------------------------------------------------------------------
\* The properties of the modules, each at its desk.

\* Every desk's variables keep their types.
CaseworkTyped ==
  /\ desk = "pending" => Door("pending")!TypeOK
  /\ desk = "beside" => Door("beside")!TypeOK
  /\ desk = "serial" => Door("serial")!TypeOK
  /\ desk = "deliveries" => Work!TypeOK
  /\ desk = "file" => File!TypeOK
  /\ desk = "areas" => Areas!TypeOK

\* A request nobody has accepted yet has no case and asks the client for nothing,
\* whatever calls are in flight (requests/service.py:802, 873).
PendingUntouched == desk = "pending" => Door("pending")!PendingUntouched

\* One call at a time a request has one case, and its documents are that case's
\* (requests/service.py:802, 873).
CaseFollowsRequest ==
  desk = "serial" => Door("serial")!OneCase /\ Door("serial")!DocumentsFollowCase

\* A file a task lists as delivered is stored (tasks/service.py:207).
DeliverableStored == desk = "deliveries" => Work!DeliverableStored

\* With one stage change at a time the calendar chases the stage the case is in
\* (cases/service.py:386), and a file the request lists opens, but for one that
\* a PATCH put back (requests/service.py:685, 637).
FileKept == desk = "file" => File!StageChased /\ File!AttachmentsOpen

\* The seeding, raced by every first reader, leaves one row per area and an area
\* for every procedure that is listed (catalog/service.py:74).
AreasOnce == desk = "areas" => Areas!AreasOnce

\* What no step does: take over a request that has its case by POST /cases
\* (cases/service.py:169); one call at a time, close a case or complete a
\* consultation over an unapproved document (cases/service.py:357,
\* requests/service.py:905); replace a person's answer by a guess
\* (cases/service.py:478).
CaseStepsKept ==
  [][/\ desk = "beside" => Door("beside")!KeepsFirstCase
     /\ desk = "serial" => Door("serial")!ClosesOnApproved /\ Door("serial")!CompletesOnApproved
     /\ desk = "file" => File!KeepsAnswers]_caseworkVars
=============================================================================
