------------------------------ MODULE Worklist ------------------------------
(***************************************************************************)
(* Appointments, the worklist they are mirrored onto and the calendar that *)
(* reads it: what is overdue, due today, this week and this month, for the *)
(* consultant who holds the workspace, the partner and the client.         *)
(*                                                                         *)
(* Source: app/modules/agenda/router.py and the readers of                 *)
(* app/modules/deadlines/service.py.  Time runs in half days from a        *)
(* Monday; a month is Month days.  A call's steps are interleaved and may  *)
(* be cut by a crash.                                                      *)
(***************************************************************************)
EXTENDS Naturals, FiniteSets

CONSTANTS
  Appointments,
  People,      \* clients and partners
  Consultants,
  Owners,      \* the consultants who own the workspace
  Horizon,     \* bound on the clock, in half days
  Month,       \* the days of a month
  Calls,
  Alone        \* the operations that run with no other call beside them

\* What the constants satisfy: assumed wherever the module is instantiated.
WorklistAssumption ==
  Appointments # {} /\ Owners \subseteq Consultants /\ Horizon \in Nat /\ Month \in Nat \ {0}
  /\ Alone \subseteq {"create", "cancel"}

VARIABLES
  now,
  agenda,    \* appointments: who it is with and by, when, how it stands
  mirrored,  \* the worklist: appointment |-> the date mirrored and how the row stands
  lost,      \* history: the appointments whose mirror a crash cost
  planning   \* the calls in flight

wvars == <<now, agenda, mirrored, lost, planning>>

Time == 0..Horizon
NoMirror == [at |-> 0, status |-> "none"]
NoRow == [client |-> "none", consultant |-> "none", at |-> 0, status |-> "none"]
Idle == [pc |-> "idle", op |-> "create", x |-> CHOOSE x \in Appointments : TRUE]

TypeOK ==
  /\ now \in Time
  /\ agenda \in [Appointments -> [client: People \cup {"none"}, consultant: Consultants \cup {"none"},
                                  at: Time, status: {"none", "scheduled", "cancelled"}]]
  /\ mirrored \in [Appointments -> [at: Time, status: {"none", "open", "dismissed"}]]
  /\ lost \subseteq Appointments
  /\ planning \in [Calls -> [pc: {"idle", "cr_mirror", "ca_clear"}, op: {"create", "cancel"}, x: Appointments]]

Init ==
  /\ now = 0
  /\ agenda = [x \in Appointments |-> NoRow]
  /\ mirrored = [x \in Appointments |-> NoMirror]
  /\ lost = {}
  /\ planning = [c \in Calls |-> Idle]

At(c, pc) == planning[c].pc = pc
End(c) == planning' = [planning EXCEPT ![c] = Idle]
Start(c, op, pc, x) ==
  /\ At(c, "idle")
  /\ \A o \in Calls : At(o, "idle") \/ (op \notin Alone /\ planning[o].op \notin Alone)
  /\ planning' = [planning EXCEPT ![c] = [pc |-> pc, op |-> op, x |-> x]]

-----------------------------------------------------------------------------
\* create_appointment: the row, its mirror, and then the client is told.
Create(c, x, k, s, at) ==
  /\ agenda[x].status = "none"
  /\ Start(c, "create", "cr_mirror", x)
  /\ agenda' = [agenda EXCEPT ![x] = [client |-> k, consultant |-> s, at |-> at, status |-> "scheduled"]]
  /\ UNCHANGED <<now, mirrored, lost>>

CreateMirror(c) ==
  /\ At(c, "cr_mirror")
  /\ mirrored' = [mirrored EXCEPT ![planning[c].x] =
       [at |-> agenda[planning[c].x].at, status |-> "open"]]
  /\ End(c)
  /\ UNCHANGED <<now, agenda, lost>>

\* cancel: by any consultant, of an appointment already cancelled too.
Cancel(c, x) ==
  /\ agenda[x].status # "none"
  /\ Start(c, "cancel", "ca_clear", x)
  /\ agenda' = [agenda EXCEPT ![x].status = "cancelled"]
  /\ UNCHANGED <<now, mirrored, lost>>

\* Mutant: the row of a cancelled appointment is left on the calendar.
ClearNothing(c) == mirrored

Cleared(c) == [mirrored EXCEPT ![planning[c].x] = NoMirror]

CancelClear(c) ==
  /\ At(c, "ca_clear")
  /\ mirrored' = Cleared(c)
  /\ End(c)
  /\ UNCHANGED <<now, agenda, lost>>

\* dismiss: the owner of the workspace, or the consultant the row names.
Dismiss(s, x) ==
  /\ mirrored[x].status # "none"
  /\ s \in Owners \/ agenda[x].consultant = s
  /\ mirrored' = [mirrored EXCEPT ![x].status = "dismissed"]
  /\ UNCHANGED <<now, agenda, lost, planning>>

Crash(c) ==
  /\ ~At(c, "idle")
  /\ lost' = lost \cup {planning[c].x}
  /\ End(c)
  /\ UNCHANGED <<now, agenda, mirrored>>

Tick ==
  /\ now < Horizon
  /\ now' = now + 1
  /\ UNCHANGED <<agenda, mirrored, lost, planning>>

-----------------------------------------------------------------------------
Next ==
  \/ \E c \in Calls, x \in Appointments :
       \/ \E k \in People, s \in Consultants, at \in Time : Create(c, x, k, s, at)
       \/ Cancel(c, x)
  \/ \E c \in Calls : CreateMirror(c) \/ CancelClear(c) \/ Crash(c)
  \/ \E x \in Appointments, s \in Consultants : Dismiss(s, x)
  \/ Tick

Spec == Init /\ [][Next]_wvars

-----------------------------------------------------------------------------
\* list_deadlines and _scope: consultants the workspace, a client their own, a
\* partner what they own, which an appointment never is.
Rows == {x \in Appointments : mirrored[x].status # "none"}
Scope(u) == IF u \in Consultants THEN Rows ELSE {x \in Rows : agenda[x].client = u}
OpenRows(u) == {x \in Scope(u) : mirrored[x].status = "open"}
Agenda(u) == {x \in Appointments : u \in {agenda[x].client, agenda[x].consultant}}
Within(u, from, to) == {x \in OpenRows(u) : from <= mirrored[x].at /\ mirrored[x].at <= to}

\* summary: the last half day of today, of this week and, a second short of the
\* same hour on the first of the next month, of this month.
Day == now \div 2
TodayEnd == 2 * Day + 1
WeekEnd == TodayEnd + 2 * (6 - (Day % 7))
MonthEnd == (2 * ((Day \div Month) + 1) * Month) + (now % 2) - 1
Overdue(u) == {x \in OpenRows(u) : mirrored[x].at < now}
Today(u) == Within(u, now, TodayEnd)
ThisWeek(u) == Within(u, now, WeekEnd)
ThisMonth(u) == Within(u, now, MonthEnd)

\* Between calls the calendar holds an appointment at its hour for as long as
\* it stands, and everybody who finds it in their agenda finds it there, unless
\* a crash cost its mirror (agenda/router.py:48-50, 89-90); what is due today
\* is counted this week and this month, and what is overdue in none of them
\* (deadlines/service.py:172).
CalendarFollows ==
  /\ \A x \in Appointments \ lost :
       (\A c \in Calls : At(c, "idle") \/ planning[c].x # x) =>
         /\ agenda[x].status = "scheduled" <=> x \in Rows
         /\ x \in Rows => mirrored[x].at = agenda[x].at
         /\ \A u \in People \cup Consultants : x \in Rows \cap Agenda(u) => x \in Scope(u)
  /\ \A u \in People \cup Consultants :
       /\ Today(u) \subseteq ThisWeek(u) \cap ThisMonth(u)
       /\ Overdue(u) \cap (ThisWeek(u) \cup ThisMonth(u)) = {}

\* The agenda and its mirror, call by call: inductive with TypeOK.
CalendarInv ==
  /\ \A c \in Calls :
       /\ At(c, "cr_mirror") => /\ agenda[planning[c].x].status = "scheduled"
                                /\ planning[c].op = "create"
                                /\ \A o \in Calls \ {c} : At(o, "idle")
       /\ At(c, "ca_clear") => agenda[planning[c].x].status = "cancelled" /\ planning[c].op = "cancel"
  /\ \A x \in Appointments :
       agenda[x].status # "none" => agenda[x].consultant \in Consultants /\ agenda[x].client \in People
  /\ \A x \in Appointments \ lost :
       (\A c \in Calls : At(c, "idle") \/ planning[c].x # x) =>
         /\ agenda[x].status = "scheduled" <=> x \in Rows
         /\ x \in Rows => mirrored[x].at = agenda[x].at
=============================================================================
