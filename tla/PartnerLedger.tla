---------------------------- MODULE PartnerLedger ----------------------------
(***************************************************************************)
(* What partners are owed: one earning per task, approved by a consultant, *)
(* and payouts that gather the approved ones and mark them paid.           *)
(*                                                                         *)
(* Source: app/modules/earnings/router.py.  An amount is one unit, so a    *)
(* sum is a count.  A payout's row is inserted before the earnings it      *)
(* lists are marked, and a worker may die between the two.                 *)
(***************************************************************************)
EXTENDS Naturals, FiniteSets

CONSTANTS
  Tasks,      \* tasks of partners; every one exists
  Partners,
  Earnings, Payouts, \* ids of rows: they bound the inserts
  NoTask, NoPayout,
  Calls,
  MayCrash

\* What the constants satisfy: assumed wherever the module is instantiated.
LedgerAssumption ==
  /\ NoTask \notin Tasks /\ NoPayout \notin Payouts
  /\ MayCrash \in BOOLEAN /\ IsFiniteSet(Earnings)

VARIABLES
  earnings, \* earnings[e]: the row: its task, its partner, its status, its payout
  payouts,  \* payouts[y]: the earnings listed, and whose they are
  ledger    \* ledger[c]: what call c is doing

vars == <<earnings, payouts, ledger>>

PayoutStatus == {"accrued", "approved", "paid"}
EarningType == [state: PayoutStatus \cup {"none"}, task: Tasks \cup {NoTask},
                who: Partners, payout: Payouts \cup {NoPayout}]
CallType == [pc: {"idle", "ac_insert", "pa_insert", "pa_mark"}, task: Tasks \cup {NoTask},
             who: Partners, read: SUBSET Earnings, payout: Payouts \cup {NoPayout}]
Idle(p) == [pc |-> "idle", task |-> NoTask, who |-> p, read |-> {}, payout |-> NoPayout]

TypeOK ==
  /\ earnings \in [Earnings -> EarningType]
  /\ payouts \in [Payouts -> [lists: SUBSET Earnings, who: Partners]]
  /\ ledger \in [Calls -> CallType]

Init ==
  \E p \in Partners :
    /\ earnings = [e \in Earnings |->
                     [state |-> "none", task |-> NoTask, who |-> p, payout |-> NoPayout]]
    /\ payouts = [y \in Payouts |-> [lists |-> {}, who |-> p]]
    /\ ledger = [c \in Calls |-> Idle(p)]

At(c, pc) == ledger[c].pc = pc
End(c) == ledger' = [ledger EXCEPT ![c] = Idle(ledger[c].who)]
With(st) == {e \in Earnings : earnings[e].state = st}
Recorded(t) == \E e \in Earnings : earnings[e].task = t

\* accrue: refused when the task has an earning; the task need not be done.
AccrueStart(c, t, p) ==
  /\ At(c, "idle")
  /\ ~Recorded(t)
  /\ ledger' = [ledger EXCEPT ![c].pc = "ac_insert", ![c].task = t, ![c].who = p]
  /\ UNCHANGED <<earnings, payouts>>

AccrueInsert(c, e) ==
  /\ At(c, "ac_insert")
  /\ earnings[e].state = "none"
  /\ earnings' = [earnings EXCEPT ![e] = [state |-> "accrued", task |-> ledger[c].task,
                                           who |-> ledger[c].who, payout |-> NoPayout]]
  /\ End(c)
  /\ UNCHANGED payouts

\* approve: one conditional write.
Approve(e) ==
  /\ earnings[e].state = "accrued"
  /\ earnings' = [earnings EXCEPT ![e].state = "approved"]
  /\ UNCHANGED <<payouts, ledger>>

\* Mutant: everything not yet paid is gathered, approved or not.
GatheredUnpaid(p) == {e \in With("approved") \cup With("accrued") : earnings[e].who = p}

Gathered(p) == {e \in With("approved") : earnings[e].who = p}

\* create_payout: the rows are read, the payout inserted, the rows marked.
PayStart(c, p) ==
  /\ At(c, "idle")
  /\ Gathered(p) # {}
  /\ ledger' = [ledger EXCEPT ![c].pc = "pa_insert", ![c].who = p, ![c].read = Gathered(p)]
  /\ UNCHANGED <<earnings, payouts>>

PayInsert(c, y) ==
  /\ At(c, "pa_insert")
  /\ payouts[y].lists = {}
  /\ payouts' = [payouts EXCEPT ![y] = [lists |-> ledger[c].read, who |-> ledger[c].who]]
  /\ ledger' = [ledger EXCEPT ![c].pc = "pa_mark", ![c].payout = y]
  /\ UNCHANGED earnings

PayMark(c) ==
  /\ At(c, "pa_mark")
  /\ earnings' = [e \in Earnings |->
       IF e \in ledger[c].read
         THEN [earnings[e] EXCEPT !.state = "paid", !.payout = ledger[c].payout]
         ELSE earnings[e]]
  /\ End(c)
  /\ UNCHANGED payouts

Die(c) ==
  /\ MayCrash /\ ~At(c, "idle")
  /\ End(c)
  /\ UNCHANGED <<earnings, payouts>>

Next ==
  \/ \E c \in Calls, t \in Tasks, p \in Partners : AccrueStart(c, t, p)
  \/ \E c \in Calls, e \in Earnings : AccrueInsert(c, e)
  \/ \E e \in Earnings : Approve(e)
  \/ \E c \in Calls, p \in Partners : PayStart(c, p)
  \/ \E c \in Calls, y \in Payouts : PayInsert(c, y)
  \/ \E c \in Calls : PayMark(c) \/ Die(c)

Spec == Init /\ [][Next]_vars

-----------------------------------------------------------------------------
\* list_earnings and summary: a partner's rows, and how much is in each state.
ListedTo(p) == {e \in Earnings : earnings[e].state # "none" /\ earnings[e].who = p}
Total(p, st) == Cardinality({e \in ListedTo(p) : earnings[e].state = st})

\* Whatever runs at once or is cut short, money goes out for approved
\* earnings only, to the partner who earned them; a row that says paid names
\* the payout that lists it, and the header of a partner's screen never says
\* more was paid than her payouts list (earnings/router.py:6).
PayoutsHonest ==
  /\ \A y \in Payouts : \A e \in payouts[y].lists :
       earnings[e].state \in {"approved", "paid"} /\ earnings[e].who = payouts[y].who
  /\ \A e \in With("paid") : e \in payouts[earnings[e].payout].lists
  /\ \A p \in Partners :
       Total(p, "paid") <= Cardinality(UNION {payouts[y].lists : y \in {y \in Payouts : payouts[y].who = p}})

\* "Every number on the screen is traceable to a task"
\* (earnings/router.py:6): a task earns once, and an earning is in one payout.
\* No run checks it, and TLC refutes it with two calls at once: each accrual
\* finds no earning yet, each payout gathers the same approved ones.
Traceable ==
  /\ \A e, o \in Earnings : earnings[e].task = earnings[o].task /\ earnings[e].task # NoTask
                              => e = o
  /\ \A y, z \in Payouts : payouts[y].lists \cap payouts[z].lists # {} => y = z
=============================================================================
