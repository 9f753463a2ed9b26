------------------------------- MODULE Caseload -------------------------------
(***************************************************************************)
(* Who owns a piece of work and who sees it: the consultant of a client,   *)
(* the partner a client or one case was handed to, the lists each screen   *)
(* is filled from and the check that opens one row of them.                *)
(*                                                                         *)
(* Source: app/services/ownership.py, app/modules/consultants/router.py    *)
(* and the list and get functions of app/modules/requests, cases,          *)
(* documents, tasks, users, partners, messages and search.                 *)
(*                                                                         *)
(* The handlers that open a case, ask for a document or delegate a task    *)
(* are one step each (CaseOpening, DocumentReview and PartnerWork take     *)
(* them apart); the move of a client from one consultant to another, which *)
(* rewrites one collection after the other, is a step per collection.  A   *)
(* request asks for one document.  Filters a caller adds (status, search,  *)
(* paging) narrow a list and are left out.                                 *)
(***************************************************************************)
EXTENDS Naturals, FiniteSets

CONSTANTS
  Clients, Requests, Cases, Tasks, Consultants, Partners,
  Nobody,    \* placeholder: no client, no partner, no assignee
  NoRequest, NoCase,
  Calls,     \* bound: moves of a client in flight at once
  Doors,     \* which ways into a case are used: "open" a request, or "create" a case
  Alone      \* the operations that run with no other beside them

\* What the constants satisfy: assumed wherever the module is instantiated.
CaseloadAssumption ==
  /\ Consultants # {}
  /\ Nobody \notin Clients \cup Partners
  /\ NoRequest \notin Requests /\ NoCase \notin Cases
  /\ Doors \subseteq {"open", "create"} /\ Alone \subseteq {"move"}

VARIABLES
  clients, \* each client's consultant and partner, and (history) whether it was moved
  links,   \* links[p]: consultant_ids of a partner
  works,   \* the requests
  files,   \* the cases
  papers,  \* papers[r]: the document request r asks for
  chores,  \* the tasks
  moving   \* the moves in flight

cvars == <<clients, links, works, files, papers, chores, moving>>

TaskStates == {"open", "submitted", "completed", "cancelled"}

TypeOK ==
  /\ clients \in [Clients -> [consultant: Consultants, partner: Partners \cup {Nobody},
                              moved: BOOLEAN]]
  /\ links \in [Partners -> SUBSET Consultants]
  /\ works \in [Requests -> [status: {"none", "open", "completed"}, case: Cases \cup {NoCase},
                             client: Clients \cup {Nobody}, consultant: Consultants]]
  /\ files \in [Cases -> [stage: {"none", "open", "completed"}, client: Clients \cup {Nobody},
                          request: Requests \cup {NoRequest}, consultant: Consultants]]
  /\ papers \in [Requests -> [status: {"none", "wanted", "held", "approved"},
                              case: Cases \cup {NoCase}, consultant: Consultants]]
  /\ chores \in [Tasks -> [status: TaskStates \cup {"none"}, case: Cases \cup {NoCase},
                           assignee: Partners \cup {Nobody}, consultant: Consultants]]
  /\ moving \in [Calls -> [pc: {"idle", "mv_requests", "mv_cases", "mv_documents", "mv_tasks"},
                           client: Clients \cup {Nobody}, to: Consultants]]

AnyConsultant == CHOOSE s \in Consultants : TRUE

Init ==
  /\ clients \in [Clients -> [consultant: Consultants, partner: {Nobody}, moved: {FALSE}]]
  /\ links \in [Partners -> {{s} : s \in Consultants}]
  /\ works = [r \in Requests |-> [status |-> "none", case |-> NoCase, client |-> Nobody,
                                  consultant |-> AnyConsultant]]
  /\ files = [x \in Cases |-> [stage |-> "none", client |-> Nobody, request |-> NoRequest,
                               consultant |-> AnyConsultant]]
  /\ papers = [r \in Requests |-> [status |-> "none", case |-> NoCase,
                                   consultant |-> AnyConsultant]]
  /\ chores = [t \in Tasks |-> [status |-> "none", case |-> NoCase, assignee |-> Nobody,
                                consultant |-> AnyConsultant]]
  /\ moving = [c \in Calls |-> [pc |-> "idle", client |-> Nobody, to |-> AnyConsultant]]

\* The rows that exist.
Raised == {r \in Requests : works[r].status # "none"}
Opened == {x \in Cases : files[x].stage # "none"}
Given == {t \in Tasks : chores[t].status # "none"}
Asked == {r \in Requests : papers[r].status # "none"}
ClientOfTask(t) == files[chores[t].case].client

-----------------------------------------------------------------------------
\* Whose work it is.

\* The open tasks of a partner on a case, and the clients handed over whole.
HoldsCase(p, x) ==
  \E t \in Given : chores[t].assignee = p /\ chores[t].case = x /\ chores[t].status # "cancelled"
Delegated(p) == {x \in Opened : HoldsCase(p, x)}
Handed(p) == {k \in Clients : clients[k].partner = p}
EverDelegated(p) == {x \in Opened : \E t \in Given : chores[t].assignee = p /\ chores[t].case = x}

ClientAccess(p, k, x) == k \in Handed(p) \/ x \in Delegated(p)

CaseBehind(r) ==
  IF works[r].case # NoCase THEN {works[r].case} ELSE {x \in Opened : files[x].request = r}

RequestAccess(p, r) ==
  \/ works[r].client \in Handed(p)
  \/ \E x \in CaseBehind(r) : x \in Delegated(p)

CaseAccess(p, x) == ClientAccess(p, files[x].client, x)

\* partner_is_delegated: work of any status on any case of the client.
TouchesClient(p, k) ==
  k \in Handed(p) \/ \E t \in Given : chores[t].assignee = p /\ ClientOfTask(t) = k

-----------------------------------------------------------------------------
\* What a partner is listed, and what opens.

\* Mutant: the list leaves out the request behind a delegated case.
RequestsListedByClient(p) == {r \in Raised : works[r].client \in Handed(p)}

RequestsListed(p) ==
  {r \in Raised : \/ works[r].client \in Handed(p)
                  \/ works[r].case \in Delegated(p)
                  \/ \E x \in Delegated(p) : files[x].request = r}

RequestOpens(p, r) == RequestAccess(p, r)

CasesListed(p) == {x \in Opened : files[x].client \in Handed(p) \/ x \in EverDelegated(p)}

CasesCounted(p) == {x \in Opened : files[x].client \in Handed(p) \/ x \in EverDelegated(p)}

CaseOpens(p, x) == x \in EverDelegated(p) \/ CaseAccess(p, x)

HistoryOpens(p, x) == x \in EverDelegated(p) \/ CaseAccess(p, x)

DocumentsListed(p) ==
  {r \in Asked : works[r].client \in Handed(p) \/ papers[r].case \in Delegated(p)}

DocumentOpens(p, r) == ClientAccess(p, works[r].client, papers[r].case)

\* The documents shown inside the requests that open.
DocumentsShown(p) == {r \in Asked : RequestOpens(p, r)}

TasksListed(p) == {t \in Given : chores[t].assignee = p}
TaskOpens(p, t) == chores[t].assignee = p
DeliverableOpens(p, t) == chores[t].assignee = p

\* The work on a partner's home screen.
ActiveTasks(p) == {t \in TasksListed(p) : chores[t].status \in {"open", "submitted"}}

\* The profile of a client: the cases a partner reads in it.
ProfileCases(p, k) ==
  IF k \in Handed(p) THEN {x \in Opened : files[x].client = k}
  ELSE {chores[t].case : t \in {t \in TasksListed(p) : ClientOfTask(t) = k}}

-----------------------------------------------------------------------------
\* What a client sees of its own, and what a consultant sees of a caseload.

OwnRequests(k) == {r \in Raised : works[r].client = k}
OwnCases(k) == {x \in Opened : files[x].client = k}

\* The home screen of a client: the request worked on, and the next step of it.
Hero(k) ==
  LET live == {r \in OwnRequests(k) : works[r].status # "completed"}
  IN IF live # {} THEN live ELSE OwnRequests(k)
NextStep(r) ==
  IF papers[r].status = "wanted" THEN "upload_documents"
  ELSE IF works[r].status = "completed" THEN "view_outcome" ELSE "wait"
StepsDone(r) ==
  {"submitted"} \cup (IF r \in Asked THEN {"documents_requested"} ELSE {})
  \cup (IF papers[r].status \in {"held", "approved"} THEN {"documents_reviewed"} ELSE {})
  \cup (IF works[r].status = "completed" THEN {"consultation_complete"} ELSE {})

Roster(s) ==
  [clients |-> {k \in Clients : clients[k].consultant = s},
   partners |-> {p \in Partners : s \in links[p]},
   requests |-> {r \in Raised : works[r].consultant = s},
   cases |-> {x \in Opened : files[x].consultant = s}]

Workload(s) ==
  [clients |-> Cardinality(Roster(s).clients),
   partners |-> Cardinality(Roster(s).partners),
   requests |-> Cardinality({r \in Roster(s).requests : works[r].status # "completed"}),
   cases |-> Cardinality({x \in Roster(s).cases : files[x].stage # "completed"}),
   tasks |-> Cardinality({t \in Given : chores[t].consultant = s /\ chores[t].status = "open"})]

\* The people an account may hold a conversation with.
ContactsOfClient(k) == {clients[k].consultant} \cup ({clients[k].partner} \ {Nobody})
ContactsOfPartner(p) == links[p] \cup Handed(p)
ContactsOfConsultant(s) == Roster(s).clients \cup Roster(s).partners

-----------------------------------------------------------------------------
\* The work.

Quiet == \A c \in Calls : moving[c].pc = "idle"
Free == "move" \in Alone => Quiet

RaiseRequest(r, k, s) ==
  /\ Free
  /\ works[r].status = "none"
  /\ works' = [works EXCEPT ![r] = [status |-> "open", case |-> NoCase, client |-> k,
                                    consultant |-> s]]
  /\ UNCHANGED <<clients, links, files, papers, chores, moving>>

\* request_documents, by a consultant or by the partner the request opens for.
Ask(r) ==
  /\ Free
  /\ r \in Raised \ Asked
  /\ papers' = [papers EXCEPT ![r] = [status |-> "wanted", case |-> works[r].case,
                                      consultant |-> works[r].consultant]]
  /\ works' = [works EXCEPT ![r].status = "open"]
  /\ UNCHANGED <<clients, links, files, chores, moving>>

\* The client uploads, the reviewer decides.
Handle(r, s) ==
  /\ Free
  /\ r \in Asked
  /\ papers' = [papers EXCEPT ![r].status = s]
  /\ UNCHANGED <<clients, links, works, files, chores, moving>>

NewCase(x, r, k, s) ==
  files' = [files EXCEPT ![x] = [stage |-> "open", client |-> k, request |-> r, consultant |-> s]]

Stamp(r, x) == papers' = [papers EXCEPT ![r].case = IF r \in Asked THEN x ELSE @]

OpenCase(x, r) ==
  /\ Free
  /\ "open" \in Doors
  /\ files[x].stage = "none" /\ works[r].status = "open" /\ works[r].case = NoCase
  /\ NewCase(x, r, works[r].client, works[r].consultant)
  /\ works' = [works EXCEPT ![r].case = x]
  /\ Stamp(r, x)
  /\ UNCHANGED <<clients, links, chores, moving>>

CompleteConsultation(x, r) ==
  /\ Free
  /\ "open" \in Doors
  /\ files[x].stage = "none" /\ r \in Raised /\ works[r].case = NoCase
  /\ papers[r].status = "approved"
  /\ NewCase(x, r, works[r].client, works[r].consultant)
  /\ works' = [works EXCEPT ![r].case = x, ![r].status = "completed"]
  /\ Stamp(r, x)
  /\ UNCHANGED <<clients, links, chores, moving>>

\* POST /cases, naming a request whether or not it has a case.
CreateCase(x, r) ==
  /\ Free
  /\ "create" \in Doors
  /\ files[x].stage = "none" /\ r \in Raised
  /\ NewCase(x, r, works[r].client, clients[works[r].client].consultant)
  /\ works' = [works EXCEPT ![r].case = IF @ = NoCase THEN x ELSE @]
  /\ Stamp(r, x)
  /\ UNCHANGED <<clients, links, chores, moving>>

\* advance_stage: to any stage of the case, the last one or back from it.
Advance(x, s) ==
  /\ Free
  /\ x \in Opened
  /\ files' = [files EXCEPT ![x].stage = s]
  /\ UNCHANGED <<clients, links, works, papers, chores, moving>>

\* Mutant: a delegated task does not enter the partner's consultants.
LinkedNot(p, s) == links

Linked(p, s) == [links EXCEPT ![p] = @ \cup {s}]

Delegate(t, x, p) ==
  /\ Free
  /\ chores[t].status = "none" /\ x \in Opened
  /\ chores' = [chores EXCEPT ![t] = [status |-> "open", case |-> x, assignee |-> p,
                                      consultant |-> files[x].consultant]]
  /\ links' = Linked(p, files[x].consultant)
  /\ UNCHANGED <<clients, works, files, papers, moving>>

SetTask(t, s) ==
  /\ Free
  /\ t \in Given
  /\ chores' = [chores EXCEPT ![t].status = s]
  /\ UNCHANGED <<clients, links, works, files, papers, moving>>

\* assign_partner and unassign_partner.
Hand(k, p) ==
  /\ Free
  /\ clients' = [clients EXCEPT ![k].partner = p]
  /\ links' = Linked(p, clients[k].consultant)
  /\ UNCHANGED <<works, files, papers, chores, moving>>

Unhand(k) ==
  /\ Free
  /\ clients' = [clients EXCEPT ![k].partner = Nobody]
  /\ UNCHANGED <<links, works, files, papers, chores, moving>>

\* assign_client: the client first, then its open work, a collection at a time.
Goto(c, pc) == moving' = [moving EXCEPT ![c].pc = pc]

MoveStart(c, k, s, withWork) ==
  /\ Free /\ moving[c].pc = "idle"
  /\ clients' = [clients EXCEPT ![k].consultant = s, ![k].moved = TRUE]
  /\ moving' = [moving EXCEPT ![c] = [pc |-> IF withWork THEN "mv_requests" ELSE "idle",
                                      client |-> k, to |-> s]]
  /\ UNCHANGED <<links, works, files, papers, chores>>

MoveRequests(c) ==
  /\ moving[c].pc = "mv_requests"
  /\ works' = [r \in Requests |->
       IF r \in OwnRequests(moving[c].client) /\ works[r].status # "completed"
       THEN [works[r] EXCEPT !.consultant = moving[c].to] ELSE works[r]]
  /\ Goto(c, "mv_cases")
  /\ UNCHANGED <<clients, links, files, papers, chores>>

\* Mutant: only the cases of the requests that just moved are moved.
MovedCasesByRequest(k) ==
  {x \in OwnCases(k) : files[x].stage # "completed" /\ files[x].request \in Requests
                       /\ works[files[x].request].status # "completed"}

MovedCases(k) == {x \in OwnCases(k) : files[x].stage # "completed"}

MoveCases(c) ==
  /\ moving[c].pc = "mv_cases"
  /\ files' = [x \in Cases |->
       IF x \in MovedCases(moving[c].client)
       THEN [files[x] EXCEPT !.consultant = moving[c].to] ELSE files[x]]
  /\ Goto(c, "mv_documents")
  /\ UNCHANGED <<clients, links, works, papers, chores>>

MoveDocuments(c) ==
  /\ moving[c].pc = "mv_documents"
  /\ papers' = [r \in Requests |->
       IF r \in Asked /\ works[r].client = moving[c].client
       THEN [papers[r] EXCEPT !.consultant = moving[c].to] ELSE papers[r]]
  /\ Goto(c, "mv_tasks")
  /\ UNCHANGED <<clients, links, works, files, chores>>

MoveTasks(c) ==
  /\ moving[c].pc = "mv_tasks"
  /\ chores' = [t \in Tasks |->
       IF t \in Given /\ ClientOfTask(t) = moving[c].client /\ chores[t].status = "open"
       THEN [chores[t] EXCEPT !.consultant = moving[c].to] ELSE chores[t]]
  /\ Goto(c, "idle")
  /\ UNCHANGED <<clients, links, works, files, papers>>

-----------------------------------------------------------------------------
Next ==
  \/ \E r \in Requests : \/ Ask(r)
                         \/ \E s \in {"wanted", "held", "approved"} : Handle(r, s)
                         \/ \E k \in Clients, s \in Consultants : RaiseRequest(r, k, s)
                         \/ \E x \in Cases : OpenCase(x, r) \/ CompleteConsultation(x, r)
                                             \/ CreateCase(x, r)
  \/ \E x \in Cases, s \in {"open", "completed"} : Advance(x, s)
  \/ \E t \in Tasks : \/ \E s \in TaskStates : SetTask(t, s)
                      \/ \E x \in Cases, p \in Partners : Delegate(t, x, p)
  \/ \E k \in Clients : Unhand(k) \/ \E p \in Partners : Hand(k, p)
  \/ \E c \in Calls : \/ \E k \in Clients, s \in Consultants, w \in BOOLEAN : MoveStart(c, k, s, w)
                      \/ MoveRequests(c) \/ MoveCases(c) \/ MoveDocuments(c) \/ MoveTasks(c)

Spec == Init /\ [][Next]_cvars

-----------------------------------------------------------------------------
\* The home screen of a client: an upload is asked for only where the request's
\* own screen still waits for the document, an outcome shown only when nothing
\* of the client's is being worked on.
HomeAgrees(k) ==
  \A r \in Hero(k) :
    /\ NextStep(r) = "upload_documents" => "documents_reviewed" \notin StepsDone(r)
    /\ NextStep(r) = "view_outcome" => \A q \in OwnRequests(k) : works[q].status = "completed"

\* Whatever a partner is listed opens for them, and what opens is listed: the
\* filters of the lists and the checks of the single rows are written apart
\* (requests/service.py:41 and ownership.py:114; documents/service.py:45 and 72).
\* A document shown inside a request that opens can itself be opened, the work
\* on the home screen leads to its case and its request, and
\* a case a partner reads in a client's profile is on their own list.
ListedOpens ==
  /\ \A k \in Clients : HomeAgrees(k)
  /\ \A p \in Partners :
      /\ RequestsListed(p) = {r \in Raised : RequestOpens(p, r)}
      /\ CasesListed(p) = {x \in Opened : CaseOpens(p, x) /\ HistoryOpens(p, x)}
      /\ CasesCounted(p) = CasesListed(p)
      /\ DocumentsListed(p) = {r \in Asked : DocumentOpens(p, r)}
      /\ DocumentsShown(p) \subseteq DocumentsListed(p)
      /\ \A t \in ActiveTasks(p) :
           /\ TaskOpens(p, t) /\ DeliverableOpens(p, t)
           /\ chores[t].case \in Delegated(p) \cap CasesListed(p)
           /\ files[chores[t].case].request \in RequestsListed(p)
      /\ \A k \in Clients : TouchesClient(p, k) => ProfileCases(p, k) \subseteq CasesListed(p)

\* A partner with live work, or a client handed over, of a consultant's own
\* caseload is on that consultant's roster and may be written to, unless the
\* client changed hands since (ownership.py:60, consultants/router.py:145).
WorkIsLinked ==
  \A p \in Partners :
    /\ \A k \in Handed(p) : ~clients[k].moved => clients[k].consultant \in ContactsOfPartner(p)
    /\ \A t \in TasksListed(p) :
         ~clients[ClientOfTask(t)].moved => p \in ContactsOfConsultant(chores[t].consultant)

\* With a move running alone, it ends with every open request and every open case
\* of the client under the consultant it was moved to, however the two were
\* opened, closed and opened again before (consultants/router.py:148).
MovesWhole ==
  \A c \in Calls : moving[c].pc = "mv_tasks" /\ moving'[c].pc = "idle" =>
    LET k == moving[c].client IN
    /\ \A r \in OwnRequests(k) : works[r].status = "open" => works'[r].consultant = moving[c].to
    /\ \A x \in OwnCases(k) : files[x].stage = "open" => files'[x].consultant = moving[c].to
MovedWhole == [][MovesWhole]_cvars

\* What the rows say of each other, whoever runs: inductive with TypeOK.
WorkInv ==
  /\ \A r \in Raised : works[r].client \in Clients
  /\ \A r \in Requests : works[r].case \in Opened \cup {NoCase}
  /\ \A x \in Opened : files[x].request \in Raised /\ files[x].client \in Clients
  /\ \A t \in Given : chores[t].case \in Opened
  /\ Asked \subseteq Raised

\* Where POST /cases is closed a request has one case, its documents are of it,
\* and ListedOpens follows.
OneCaseInv ==
  "create" \notin Doors =>
    /\ \A x \in Opened : works[files[x].request].case = x
    /\ \A r \in Asked : papers[r].case = works[r].case

\* WorkIsLinked as an inductive invariant.
LinkedInv ==
  /\ \A c \in Calls : moving[c].pc # "idle" => moving[c].client \in Clients /\ clients[moving[c].client].moved
  /\ \A p \in Partners :
       /\ \A k \in Handed(p) : ~clients[k].moved => clients[k].consultant \in links[p]
       /\ \A t \in TasksListed(p) : ~clients[ClientOfTask(t)].moved => chores[t].consultant \in links[p]

\* What a move that runs alone has done so far.
MoveInv ==
  "move" \in Alone =>
    \A c \in Calls : moving[c].pc # "idle" =>
      /\ \A o \in Calls \ {c} : moving[o].pc = "idle"
      /\ moving[c].pc # "mv_requests" =>
           \A r \in OwnRequests(moving[c].client) :
             works[r].status = "open" => works[r].consultant = moving[c].to
      /\ moving[c].pc \in {"mv_documents", "mv_tasks"} =>
           \A x \in OwnCases(moving[c].client) :
             files[x].stage = "open" => files[x].consultant = moving[c].to
=============================================================================
