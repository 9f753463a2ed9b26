---------------------------- MODULE OfficeProofs ----------------------------
(***************************************************************************)
(* Theorems about PartnerLedger and about Office, for any values of their  *)
(* constants and any number of calls.  A behaviour of Office               *)
(* stays at its desk, so each desk has a section to itself: XOK is the     *)
(* type invariant of the module at desk X with the invariant that makes it *)
(* inductive, XInit and XStep are its two halves, and the section's        *)
(* theorem is what the run of Office checks at that desk.                  *)
(***************************************************************************)
EXTENDS Office, FiniteSetTheorems, SequenceTheorems, TLAPS

-----------------------------------------------------------------------------
\* Earnings and payouts, PartnerLedger alone.
LEMMA TypeInit == LedgerAssumption /\ Init => TypeOK
  BY DEF LedgerAssumption, Init, Idle, TypeOK, EarningType, CallType, PayoutStatus

LEMMA IdleType ==
  ASSUME LedgerAssumption, NEW p \in Partners PROVE Idle(p) \in CallType
  BY DEF LedgerAssumption, Idle, CallType

LEMMA EndType ==
  ASSUME LedgerAssumption, TypeOK, NEW c \in Calls, End(c)
  PROVE  ledger' \in [Calls -> CallType]
<1>1. ledger[c].who \in Partners
  BY DEF TypeOK, CallType
<1> QED BY <1>1, IdleType DEF End, TypeOK

LEMMA TypeStep == LedgerAssumption /\ TypeOK /\ [Next]_vars => TypeOK'
<1> SUFFICES ASSUME LedgerAssumption, TypeOK, [Next]_vars PROVE TypeOK'
  OBVIOUS
<1>1. ASSUME NEW c \in Calls, NEW t \in Tasks, NEW p \in Partners, AccrueStart(c, t, p)
      PROVE  TypeOK'
  <2>1. [ledger[c] EXCEPT !.pc = "ac_insert", !.task = t, !.who = p] \in CallType
    BY DEF TypeOK, CallType
  <2> QED BY <1>1, <2>1 DEF AccrueStart, TypeOK
<1>2. ASSUME NEW c \in Calls, NEW e \in Earnings, AccrueInsert(c, e) PROVE TypeOK'
  <2>1. [state |-> "accrued", task |-> ledger[c].task, who |-> ledger[c].who,
         payout |-> NoPayout] \in EarningType
    BY DEF TypeOK, CallType, EarningType, PayoutStatus
  <2> QED BY <1>2, <2>1, EndType DEF AccrueInsert, TypeOK
<1>3. ASSUME NEW e \in Earnings, Approve(e) PROVE TypeOK'
  <2>1. [earnings[e] EXCEPT !.state = "approved"] \in EarningType
    BY DEF TypeOK, EarningType, PayoutStatus
  <2> QED BY <1>3, <2>1 DEF Approve, TypeOK
<1>4. ASSUME NEW c \in Calls, NEW p \in Partners, PayStart(c, p) PROVE TypeOK'
  <2>1. [ledger[c] EXCEPT !.pc = "pa_insert", !.who = p, !.read = Gathered(p)] \in CallType
    BY DEF TypeOK, CallType, Gathered, With
  <2> QED BY <1>4, <2>1 DEF PayStart, TypeOK
<1>5. ASSUME NEW c \in Calls, NEW y \in Payouts, PayInsert(c, y) PROVE TypeOK'
  <2>1. [ledger[c] EXCEPT !.pc = "pa_mark", !.payout = y] \in CallType
    BY DEF TypeOK, CallType
  <2> QED BY <1>5, <2>1 DEF PayInsert, TypeOK, CallType
<1>6. ASSUME NEW c \in Calls, PayMark(c) PROVE TypeOK'
  <2>1. ASSUME NEW e \in Earnings
        PROVE  [earnings[e] EXCEPT !.state = "paid", !.payout = ledger[c].payout] \in EarningType
    <3>1. earnings[e] \in EarningType /\ ledger[c].payout \in Payouts \cup {NoPayout}
      BY DEF TypeOK, CallType
    <3> QED BY <3>1 DEF EarningType, PayoutStatus
  <2> QED BY <1>6, <2>1, EndType DEF PayMark, TypeOK
<1>7. ASSUME NEW c \in Calls, Die(c) PROVE TypeOK'
  BY <1>7, EndType DEF Die, TypeOK
<1> QED BY <1>1, <1>2, <1>3, <1>4, <1>5, <1>6, <1>7 DEF Next, vars, TypeOK

\* The rows and the calls keep their types (earnings/router.py:55).
THEOREM TypeCorrect == ASSUME LedgerAssumption PROVE Spec => []TypeOK
  BY TypeInit, TypeStep, PTL DEF Spec

-----------------------------------------------------------------------------
\* PayoutsHonest is kept by steps that know what the calls in flight know: the
\* rows a payout under way has read are as good as when it read them, and one
\* that is about to mark them has inserted the payout that lists them.

Due(e, p) == earnings[e].state \in {"approved", "paid"} /\ earnings[e].who = p

ReadIsDue == \A c \in Calls : ledger[c].pc \in {"pa_insert", "pa_mark"} =>
  ledger[c].read # {} /\ \A e \in ledger[c].read : Due(e, ledger[c].who)
ReadIsListed == \A c \in Calls : At(c, "pa_mark") =>
  ledger[c].payout \in Payouts /\ payouts[ledger[c].payout].lists = ledger[c].read
ListedIsDue == \A y \in Payouts : \A e \in payouts[y].lists : Due(e, payouts[y].who)
PaidIsListed == \A e \in With("paid") :
  earnings[e].payout \in Payouts /\ e \in payouts[earnings[e].payout].lists

PayInv == ReadIsDue /\ ReadIsListed /\ ListedIsDue /\ PaidIsListed

LEMMA PayInit == Init => PayInv
  BY DEF Init, Idle, PayInv, ReadIsDue, ReadIsListed, ListedIsDue, PaidIsListed, At, With

\* A step that leaves the due rows due, the paid ones as they are, and the
\* payouts alone.
LEMMA DueKept ==
  ASSUME TypeOK, PayInv, UNCHANGED payouts,
         \A e \in Earnings, p \in Partners : Due(e, p) => Due(e, p)',
         \A e \in Earnings : e \in With("paid")' => e \in With("paid")
                                                      /\ earnings'[e].payout = earnings[e].payout,
         \A c \in Calls : ledger'[c].pc \in {"pa_insert", "pa_mark"} => ledger'[c] = ledger[c]
  PROVE  PayInv'
<1>1. \A c \in Calls : ledger[c].read \subseteq Earnings /\ ledger[c].who \in Partners
  BY DEF TypeOK, CallType
<1>2. \A y \in Payouts : payouts[y].lists \subseteq Earnings /\ payouts[y].who \in Partners
  BY DEF TypeOK
<1>3. ReadIsDue'
  BY <1>1 DEF PayInv, ReadIsDue
<1>4. ReadIsListed'
  BY DEF PayInv, ReadIsListed, At
<1>5. ListedIsDue'
  BY <1>2 DEF PayInv, ListedIsDue
<1>6. PaidIsListed'
  BY DEF PayInv, PaidIsListed, With
<1> QED BY <1>3, <1>4, <1>5, <1>6 DEF PayInv

LEMMA PayStep == LedgerAssumption /\ TypeOK /\ PayInv /\ [Next]_vars => PayInv'
<1> SUFFICES ASSUME LedgerAssumption, TypeOK, PayInv, [Next]_vars PROVE PayInv'
  OBVIOUS
<1>1. ASSUME NEW c \in Calls, NEW t \in Tasks, NEW p \in Partners, AccrueStart(c, t, p)
      PROVE  PayInv'
  BY <1>1, DueKept DEF AccrueStart, TypeOK, CallType, Due, With
<1>2. ASSUME NEW c \in Calls, NEW e \in Earnings, AccrueInsert(c, e) PROVE PayInv'
  BY <1>2, DueKept DEF AccrueInsert, End, Idle, TypeOK, CallType, EarningType, Due, With
<1>3. ASSUME NEW e \in Earnings, Approve(e) PROVE PayInv'
  BY <1>3, DueKept DEF Approve, TypeOK, EarningType, Due, With
<1>4. ASSUME NEW c \in Calls, NEW p \in Partners, PayStart(c, p) PROVE PayInv'
  <2>1. \A e \in Gathered(p) : Due(e, p)
    BY DEF Gathered, With, Due
  <2>2. /\ ledger'[c].pc = "pa_insert" /\ ledger'[c].who = p /\ ledger'[c].read = Gathered(p)
        /\ \A o \in Calls \ {c} : ledger'[o] = ledger[o]
    BY <1>4 DEF PayStart, TypeOK, CallType
  <2>3. ReadIsDue'
    <3> SUFFICES ASSUME NEW o \in Calls, ledger'[o].pc \in {"pa_insert", "pa_mark"}
                 PROVE  (ledger[o].read # {} /\ \A e \in ledger[o].read : Due(e, ledger[o].who))'
      BY DEF ReadIsDue
    <3>1. CASE o = c
      BY <1>4, <2>1, <2>2, <3>1 DEF PayStart, Due
    <3>2. CASE o # c
      <4>1. ledger'[o] = ledger[o] /\ earnings' = earnings
        BY <1>4, <2>2, <3>2 DEF PayStart
      <4> QED BY <4>1 DEF PayInv, ReadIsDue, Due
    <3> QED BY <3>1, <3>2
  <2>4. ReadIsListed'
    BY <1>4, <2>2 DEF PayStart, PayInv, ReadIsListed, At
  <2> QED BY <1>4, <2>3, <2>4 DEF PayStart, PayInv, ListedIsDue, PaidIsListed, Due, With
<1>5. ASSUME NEW c \in Calls, NEW y \in Payouts, PayInsert(c, y) PROVE PayInv'
  <2>1. /\ ledger'[c].pc = "pa_mark" /\ ledger'[c].payout = y
        /\ ledger'[c].who = ledger[c].who /\ ledger'[c].read = ledger[c].read
        /\ \A o \in Calls \ {c} : ledger'[o] = ledger[o]
    BY <1>5 DEF PayInsert, TypeOK, CallType
  <2>2. /\ payouts'[y].lists = ledger[c].read /\ payouts'[y].who = ledger[c].who
        /\ \A z \in Payouts \ {y} : payouts'[z] = payouts[z]
    BY <1>5 DEF PayInsert, TypeOK
  <2>3. ReadIsDue'
    <3> SUFFICES ASSUME NEW o \in Calls, ledger'[o].pc \in {"pa_insert", "pa_mark"}
                 PROVE  (ledger[o].read # {} /\ \A e \in ledger[o].read : Due(e, ledger[o].who))'
      BY DEF ReadIsDue
    <3>1. ledger[o].pc \in {"pa_insert", "pa_mark"} /\ earnings' = earnings
      BY <1>5, <2>1 DEF PayInsert, At
    <3>2. ledger'[o].read = ledger[o].read /\ ledger'[o].who = ledger[o].who
      BY <2>1
    <3> QED BY <3>1, <3>2 DEF PayInv, ReadIsDue, Due
  <2>4. ReadIsListed'
    <3> SUFFICES ASSUME NEW o \in Calls, ledger'[o].pc = "pa_mark"
                 PROVE  /\ ledger'[o].payout \in Payouts
                        /\ payouts'[ledger'[o].payout].lists = ledger'[o].read
      BY DEF ReadIsListed, At
    <3>1. CASE o = c
      BY <2>1, <2>2, <3>1
    <3>2. CASE o # c \* its payout is another one: the list of this was empty
      <4>1. ledger[o] = ledger'[o]
        BY <2>1, <3>2
      <4>2. payouts[ledger[o].payout].lists # {} /\ ledger[o].payout \in Payouts
        BY <4>1 DEF PayInv, ReadIsDue, ReadIsListed, At
      <4>3. ledger[o].payout # y
        BY <1>5, <4>2 DEF PayInsert
      <4> QED BY <2>2, <4>1, <4>2, <4>3 DEF PayInv, ReadIsListed, At
    <3> QED BY <3>1, <3>2
  <2>5. ListedIsDue'
    BY <1>5, <2>2 DEF PayInsert, At, PayInv, ReadIsDue, ListedIsDue, Due
  <2>6. PaidIsListed'
    BY <1>5, <2>2 DEF PayInsert, PayInv, PaidIsListed, With
  <2> QED BY <2>3, <2>4, <2>5, <2>6 DEF PayInv
<1>6. ASSUME NEW c \in Calls, PayMark(c) PROVE PayInv'
  <2>1. /\ ledger'[c].pc = "idle" /\ \A o \in Calls \ {c} : ledger'[o] = ledger[o]
    BY <1>6 DEF PayMark, End, Idle, TypeOK, CallType
  <2>2. \A e \in Earnings : /\ earnings'[e].who = earnings[e].who
                            /\ e \in ledger[c].read => earnings'[e].state = "paid"
                                                       /\ earnings'[e].payout = ledger[c].payout
                            /\ e \notin ledger[c].read => earnings'[e] = earnings[e]
    BY <1>6 DEF PayMark, TypeOK, EarningType
  <2>3. \A e \in Earnings, p \in Partners : Due(e, p) => Due(e, p)'
    BY <2>2 DEF Due
  <2>4. ReadIsDue' /\ ReadIsListed' /\ ListedIsDue'
    BY <1>6, <2>1, <2>3
    DEF PayMark, PayInv, ReadIsDue, ReadIsListed, ListedIsDue, At, TypeOK, CallType
  <2>5. PaidIsListed'
    <3> SUFFICES ASSUME NEW e \in Earnings, earnings'[e].state = "paid"
                 PROVE  /\ earnings'[e].payout \in Payouts
                        /\ e \in payouts'[earnings'[e].payout].lists
      BY DEF PaidIsListed, With
    <3>1. payouts' = payouts
      BY <1>6 DEF PayMark
    <3>2. CASE e \in ledger[c].read
      BY <1>6, <2>2, <3>1, <3>2 DEF PayMark, At, PayInv, ReadIsListed
    <3>3. CASE e \notin ledger[c].read
      BY <2>2, <3>1, <3>3 DEF PayInv, PaidIsListed, With
    <3> QED BY <3>2, <3>3
  <2> QED BY <2>4, <2>5 DEF PayInv
<1>7. ASSUME NEW c \in Calls, Die(c) PROVE PayInv'
  BY <1>7, DueKept DEF Die, End, Idle, TypeOK, CallType, Due, With
<1> QED
  BY <1>1, <1>2, <1>3, <1>4, <1>5, <1>6, <1>7
  DEF Next, vars, PayInv, ReadIsDue, ReadIsListed, ListedIsDue, PaidIsListed, Due, At, With

\* What the partner's header says is paid is a part of what her payouts list.
LEMMA PayIsHonest == LedgerAssumption /\ TypeOK /\ PayInv => PayoutsHonest
<1> SUFFICES ASSUME LedgerAssumption, TypeOK, PayInv PROVE PayoutsHonest
  OBVIOUS
<1>1. ASSUME NEW p \in Partners
      PROVE  Total(p, "paid")
               <= Cardinality(UNION {payouts[y].lists : y \in {y \in Payouts : payouts[y].who = p}})
  <2> DEFINE lists == UNION {payouts[y].lists : y \in {y \in Payouts : payouts[y].who = p}}
             paid == {e \in ListedTo(p) : earnings[e].state = "paid"}
  <2>1. lists \in SUBSET Earnings
    BY DEF TypeOK
  <2>2. IsFiniteSet(lists)
    BY <2>1, FS_Subset DEF LedgerAssumption
  <2>3. paid \in SUBSET lists
    BY DEF PayInv, PaidIsListed, ListedIsDue, Due, With, ListedTo
  <2>4. Cardinality(paid) <= Cardinality(lists)
    <3> HIDE DEF lists, paid
    <3> QED BY <2>2, <2>3, FS_Subset
  <2> QED BY <2>4 DEF Total
<1>2. \A y \in Payouts : \A e \in payouts[y].lists :
        earnings[e].state \in {"approved", "paid"} /\ earnings[e].who = payouts[y].who
  BY DEF PayInv, ListedIsDue, Due
<1>3. \A e \in With("paid") : e \in payouts[earnings[e].payout].lists
  BY DEF PayInv, PaidIsListed
<1> QED BY <1>1, <1>2, <1>3 DEF PayoutsHonest

LEMMA PayInvariant == ASSUME LedgerAssumption PROVE Spec => []PayInv
  BY TypeCorrect, PayInit, PayStep, PTL DEF Spec

\* Whatever runs at once or is cut short, payouts list earnings that were
\* approved, of the partner they go to, and a row that says paid is listed by the
\* payout it names (create_payout, earnings/router.py:150).
THEOREM PayoutsAreHonest == ASSUME LedgerAssumption PROVE Spec => []PayoutsHonest
  BY TypeCorrect, PayInvariant, PayIsHonest, PTL

-----------------------------------------------------------------------------
\* A behaviour stays at its desk, and what moves there is the desk's module.
LEMMA DeskMoves ==
  ASSUME [OfficeNext]_officeVars
  PROVE  /\ desk' = desk
         /\ desk = "wallet" => Wallet!Next \/ UNCHANGED atDesk
         /\ desk = "prices" => PriceList!Next \/ UNCHANGED atDesk
         /\ desk = "plans" => PlanList!Next \/ UNCHANGED atDesk
         /\ desk = "billing" => Billing!Next \/ UNCHANGED atDesk
         /\ desk = "talk" => Talk!Next \/ UNCHANGED atDesk
         /\ desk = "chats" => Chats!Next \/ UNCHANGED atDesk
         /\ desk = "push" => Push!Next \/ UNCHANGED atDesk
         /\ desk = "news" => Bulletin!Next \/ UNCHANGED atDesk
         /\ desk = "calendar" => Calendar!Next \/ UNCHANGED atDesk
         /\ desk = "help" => Desk!Next \/ UNCHANGED atDesk
         /\ desk = "consents" => Consents!Next \/ UNCHANGED atDesk
         /\ desk = "texts" => Policy!Next \/ UNCHANGED atDesk
  BY DEF OfficeNext, officeVars, AtLedger, AtWallet, AtPrices, AtPlans, AtBilling, AtTalk, AtChats, AtPush, AtNews, AtCalendar, AtHelp, AtConsents, AtTexts
-----------------------------------------------------------------------------
\* Bills of a practice: bills, counter, notices, sent and issuing are v1 to v5.
BillsOK == Billing!TypeOK /\ Billing!BillsInv

LEMMA BillsIdle == Billing!Idle \in [pc: {"idle", "bi_number", "bi_insert", "se_tell"},
                     number: 0..MaxNumber, bill: Bills, client: Clients \cup {Billing!NoClient}]
<1>1. (CHOOSE b \in Bills : TRUE) \in Bills
  BY DesksAssumption DEF Billing!ClientBillsAssumption
<1> QED BY <1>1, DesksAssumption DEF Billing!ClientBillsAssumption, Billing!Idle

LEMMA BillsInit == Billing!Init => BillsOK
<1> SUFFICES ASSUME Billing!Init PROVE BillsOK
  OBVIOUS
<1>1. Billing!TypeOK
  BY BillsIdle, DesksAssumption
     DEF Billing!ClientBillsAssumption, Billing!Init, Billing!TypeOK, Billing!NoRow, Billing!Statuses
<1>2. Billing!BillsInv
  BY DEF Billing!Init, Billing!BillsInv, Billing!NoRow, Billing!At, Billing!Idle
<1> QED BY <1>1, <1>2 DEF BillsOK

LEMMA BillsEnd ==
  ASSUME BillsOK, NEW c \in Calls, Billing!End(c), UNCHANGED <<v1, v2, v4>>,
         v3' = v3 \/ (Billing!At(c, "se_tell") /\ v3' = [v3 EXCEPT ![v5[c].bill] = 1])
  PROVE  BillsOK'
<1>1. v5'[c] = Billing!Idle /\ \A o \in Calls \ {c} : v5'[o] = v5[o]
  BY DEF BillsOK, Billing!TypeOK, Billing!End
<1>2. v5'[c].pc = "idle"
  BY <1>1 DEF Billing!Idle
<1>3. Billing!TypeOK'
  BY <1>1, BillsIdle DEF BillsOK, Billing!TypeOK, Billing!End
<1>4. \A o \in Calls : v5'[o].pc # "idle" => o # c /\ v5'[o] = v5[o]
  BY <1>1, <1>2
<1>5. CASE v3' = v3
  BY <1>3, <1>4, <1>5 DEF BillsOK, Billing!BillsInv, Billing!At
<1>6. CASE Billing!At(c, "se_tell") /\ v3' = [v3 EXCEPT ![v5[c].bill] = 1]
  <2>1. v5[c].bill \in Bills /\ v5[c].bill \in v4
    BY <1>6 DEF BillsOK, Billing!BillsInv, Billing!TypeOK
  <2>2. v3'[v5[c].bill] = 1 /\ \A b \in Bills \ {v5[c].bill} : v3'[b] = v3[b]
    BY <1>6, <2>1 DEF BillsOK, Billing!TypeOK
  <2>3. \A o \in Calls \ {c} : v5[o].pc = "se_tell" => v5[o].bill \in Bills /\ v5[o].bill # v5[c].bill
    BY <1>6 DEF BillsOK, Billing!BillsInv, Billing!At, Billing!TypeOK
  <2>4. \A b \in Bills : v3'[b] <= 1 /\ (b \notin v4 => v3'[b] = 0)
    BY <2>1, <2>2 DEF BillsOK, Billing!BillsInv
  <2> QED BY <1>3, <1>4, <2>2, <2>3, <2>4 DEF BillsOK, Billing!BillsInv, Billing!At
<1> QED BY <1>5, <1>6

LEMMA BillsStep == BillsOK /\ Billing!Next => BillsOK'
<1> SUFFICES ASSUME BillsOK, Billing!Next PROVE BillsOK'
  OBVIOUS
<1> USE DesksAssumption DEF Billing!ClientBillsAssumption
<1>1. ASSUME NEW c \in Calls, NEW k \in Clients, Billing!CreateStart(c, k) PROVE BillsOK'
  <2> DEFINE rec == [Billing!Idle EXCEPT !.pc = "bi_number", !.client = k]
  <2>1. rec.pc = "bi_number" /\ rec \in [pc: {"idle", "bi_number", "bi_insert", "se_tell"},
                     number: 0..MaxNumber, bill: Bills, client: Clients \cup {Billing!NoClient}]
    BY BillsIdle
  <2> HIDE DEF rec
  <2>2. v5' = [v5 EXCEPT ![c] = rec] /\ UNCHANGED <<v1, v2, v3, v4>>
    BY <1>1 DEF Billing!CreateStart, rec
  <2>3. v5'[c] = rec /\ \A o \in Calls \ {c} : v5'[o] = v5[o]
    BY <2>2 DEF BillsOK, Billing!TypeOK
  <2>4. Billing!TypeOK'
    BY <2>1, <2>2 DEF BillsOK, Billing!TypeOK
  <2>5. Billing!BillsInv'
    BY <2>1, <2>2, <2>3 DEF BillsOK, Billing!BillsInv, Billing!At
  <2> QED BY <2>4, <2>5 DEF BillsOK
<1>2. ASSUME NEW c \in Calls, NEW b \in Bills, Billing!Send(c, b) PROVE BillsOK'
  <2> DEFINE rec == [Billing!Idle EXCEPT !.pc = "se_tell", !.bill = b]
  <2>1. rec.pc = "se_tell" /\ rec.bill = b /\ rec \in [pc: {"idle", "bi_number", "bi_insert", "se_tell"},
                     number: 0..MaxNumber, bill: Bills, client: Clients \cup {Billing!NoClient}]
    BY BillsIdle
  <2> HIDE DEF rec
  <2>2. /\ v5' = [v5 EXCEPT ![c] = rec] /\ v1[b].status = "draft"
        /\ v1' = [v1 EXCEPT ![b].status = "sent"] /\ v4' = v4 \cup {b} /\ UNCHANGED <<v2, v3>>
    BY <1>2 DEF Billing!Send, Billing!Sendable, rec
  <2>3. v5'[c] = rec /\ \A o \in Calls \ {c} : v5'[o] = v5[o]
    BY <2>2 DEF BillsOK, Billing!TypeOK
  <2>4. /\ v1'[b].status = "sent" /\ \A a \in Bills : v1'[a].number = v1[a].number
        /\ \A a \in Bills \ {b} : v1'[a] = v1[a]
    BY <2>2 DEF BillsOK, Billing!TypeOK
  <2>5. Billing!TypeOK'
    <3>1. [v1[b] EXCEPT !.status = "sent"] \in
            [number: 0..MaxNumber, client: Clients \cup {Billing!NoClient}, status: Billing!Statuses, late: BOOLEAN]
      BY DEF BillsOK, Billing!TypeOK, Billing!Statuses
    <3> QED BY <2>1, <2>2, <3>1 DEF BillsOK, Billing!TypeOK
  <2>6. b \notin v4 /\ v3[b] = 0 /\ \A o \in Calls : v5[o].pc = "se_tell" => v5[o].bill # b
    BY <2>2 DEF BillsOK, Billing!BillsInv, Billing!At
  <2>7. Billing!BillsInv'
    BY <2>1, <2>2, <2>3, <2>4, <2>6 DEF BillsOK, Billing!BillsInv, Billing!At
  <2> QED BY <2>5, <2>7 DEF BillsOK
<1>3. ASSUME NEW c \in Calls, Billing!Number(c) PROVE BillsOK'
  <2> DEFINE rec == [v5[c] EXCEPT !.pc = "bi_insert", !.number = v2 + 1]
  <2>1. v2 \in 0..MaxNumber /\ v2 < MaxNumber /\ v2 + 1 \in 0..MaxNumber
    BY <1>3 DEF Billing!Number, BillsOK, Billing!TypeOK
  <2>2. rec.pc = "bi_insert" /\ rec.number = v2 + 1 /\ rec \in [pc: {"idle", "bi_number", "bi_insert", "se_tell"},
                     number: 0..MaxNumber, bill: Bills, client: Clients \cup {Billing!NoClient}]
    BY <2>1 DEF BillsOK, Billing!TypeOK
  <2> HIDE DEF rec
  <2>3. v5' = [v5 EXCEPT ![c] = rec] /\ v2' = v2 + 1 /\ UNCHANGED <<v1, v3, v4>>
    BY <1>3 DEF Billing!Number, rec
  <2>4. v5'[c] = rec /\ \A o \in Calls \ {c} : v5'[o] = v5[o]
    BY <2>3 DEF BillsOK, Billing!TypeOK
  <2>5. Billing!TypeOK'
    BY <2>1, <2>2, <2>3 DEF BillsOK, Billing!TypeOK
  <2>6. /\ \A b \in Bills : v1[b].number \in Nat /\ v1[b].number <= v2
        /\ \A o \in Calls : v5[o].number \in Nat
    BY DEF BillsOK, Billing!BillsInv, Billing!TypeOK
  <2>7. Billing!BillsInv'
    BY <2>1, <2>2, <2>3, <2>4, <2>6 DEF BillsOK, Billing!BillsInv, Billing!At
  <2> QED BY <2>5, <2>7 DEF BillsOK
<1>4. ASSUME NEW c \in Calls, Billing!Insert(c) PROVE BillsOK'
  <2> DEFINE row == [number |-> v5[c].number, client |-> v5[c].client, status |-> "draft", late |-> FALSE]
  <2>1. PICK b \in Bills : v1[b].status = "none" /\ v1' = [v1 EXCEPT ![b] = row]
    BY <1>4 DEF Billing!Insert
  <2>2. /\ v5[c].pc = "bi_insert" /\ Billing!End(c) /\ UNCHANGED <<v2, v3, v4>>
    BY <1>4 DEF Billing!Insert, Billing!At
  <2>3. row.number = v5[c].number /\ row.status = "draft"
        /\ row \in [number: 0..MaxNumber, client: Clients \cup {Billing!NoClient}, status: Billing!Statuses, late: BOOLEAN]
    BY DEF BillsOK, Billing!TypeOK, Billing!Statuses
  <2> HIDE DEF row
  <2>4. v5'[c] = Billing!Idle /\ \A o \in Calls \ {c} : v5'[o] = v5[o]
    BY <2>2 DEF BillsOK, Billing!TypeOK, Billing!End
  <2>5. v5'[c].pc = "idle"
    BY <2>4 DEF Billing!Idle
  <2>6. v1'[b] = row /\ \A a \in Bills \ {b} : v1'[a] = v1[a]
    BY <2>1 DEF BillsOK, Billing!TypeOK
  <2>7. Billing!TypeOK'
    BY <2>1, <2>2, <2>3, BillsIdle DEF BillsOK, Billing!TypeOK, Billing!End
  <2>8. \A o \in Calls : v5'[o].pc # "idle" => o # c /\ v5'[o] = v5[o]
    BY <2>4, <2>5
  <2>9. /\ v5[c].number # 0 /\ v5[c].number <= v2 /\ b \notin v4
        /\ \A a \in Bills : v1[a].number # v5[c].number
        /\ \A o \in Calls \ {c} : v5[o].pc = "bi_insert" => v5[o].number # v5[c].number
    BY <2>1, <2>2 DEF BillsOK, Billing!BillsInv, Billing!At
  <2>10. Billing!BillsInv'
    BY <2>2, <2>3, <2>6, <2>8, <2>9 DEF BillsOK, Billing!BillsInv, Billing!At
  <2> QED BY <2>7, <2>10 DEF BillsOK
<1>5. ASSUME NEW c \in Calls, Billing!SendTell(c) PROVE BillsOK'
  <2>1. v5[c].bill \in Bills /\ v3[v5[c].bill] = 0
    BY <1>5 DEF Billing!SendTell, BillsOK, Billing!BillsInv, Billing!TypeOK
  <2>2. v3' = [v3 EXCEPT ![v5[c].bill] = 1]
    BY <1>5, <2>1 DEF Billing!SendTell, BillsOK, Billing!TypeOK
  <2> QED BY <1>5, <2>2, BillsEnd DEF Billing!SendTell
<1>6. ASSUME NEW c \in Calls, Billing!Crash(c) PROVE BillsOK'
  BY <1>6, BillsEnd DEF Billing!Crash
<1>7. ASSUME NEW b \in Bills, Billing!MarkPaid(b) \/ Billing!VoidInvoice(b) \/ Billing!Late(b) PROVE BillsOK'
  <2>1. PICK st \in Billing!Statuses, l \in BOOLEAN :
          /\ v1' = [v1 EXCEPT ![b].status = st, ![b].late = l]
          /\ st \in {v1[b].status, "void"} \/ (st = "paid" /\ v1[b].status \in {"sent", "overdue"})
          /\ v1[b].status # "none"
    <3>1. v1[b] \in [number: 0..MaxNumber, client: Clients \cup {Billing!NoClient}, status: Billing!Statuses, late: BOOLEAN]
      BY DEF BillsOK, Billing!TypeOK
    <3>2. CASE Billing!MarkPaid(b)
      <4>1. v1' = [v1 EXCEPT ![b].status = "paid", ![b].late = v1[b].late]
        BY <3>1, <3>2 DEF Billing!MarkPaid, BillsOK, Billing!TypeOK
      <4> QED BY <3>1, <3>2, <4>1 DEF Billing!MarkPaid, Billing!Statuses
    <3>3. CASE Billing!VoidInvoice(b)
      <4>1. v1' = [v1 EXCEPT ![b].status = "void", ![b].late = v1[b].late]
        BY <3>1, <3>3 DEF Billing!VoidInvoice, BillsOK, Billing!TypeOK
      <4> QED BY <3>1, <3>3, <4>1 DEF Billing!VoidInvoice, Billing!Statuses
    <3>4. CASE Billing!Late(b)
      <4>1. v1' = [v1 EXCEPT ![b].status = v1[b].status, ![b].late = TRUE]
        BY <3>1, <3>4 DEF Billing!Late, BillsOK, Billing!TypeOK
      <4> QED BY <3>1, <3>4, <4>1 DEF Billing!Late, Billing!Statuses
    <3> QED BY <1>7, <3>2, <3>3, <3>4
  <2>2. UNCHANGED <<v2, v3, v4, v5>>
    BY <1>7 DEF Billing!MarkPaid, Billing!VoidInvoice, Billing!Late
  <2>3. /\ v1'[b].status = st /\ \A a \in Bills : v1'[a].number = v1[a].number
        /\ \A a \in Bills \ {b} : v1'[a] = v1[a]
    BY <2>1 DEF BillsOK, Billing!TypeOK
  <2>4. Billing!TypeOK'
    <3>1. /\ v1 \in [Bills -> [number: 0..MaxNumber, client: Clients \cup {Billing!NoClient},
                            status: Billing!Statuses, late: BOOLEAN]]
          /\ Billing!TypeOK
      BY DEF BillsOK, Billing!TypeOK
    <3>2. [v1[b] EXCEPT !.status = st, !.late = l]
            \in [number: 0..MaxNumber, client: Clients \cup {Billing!NoClient},
                status: Billing!Statuses, late: BOOLEAN]
      BY <3>1
    <3>3. v1' = [v1 EXCEPT ![b] = [v1[b] EXCEPT !.status = st, !.late = l]]
      BY <2>1, <3>1
    <3>4. v1' \in [Bills -> [number: 0..MaxNumber, client: Clients \cup {Billing!NoClient},
                            status: Billing!Statuses, late: BOOLEAN]]
      BY <3>1, <3>2, <3>3
    <3> QED BY <2>2, <3>1, <3>4 DEF Billing!TypeOK
  <2>5. \A a \in Bills :
          /\ v1'[a].status = "none" <=> v1'[a].number = 0
          /\ v1'[a].status \in {"none", "draft"} => a \notin v4
          /\ v1'[a].status \in {"sent", "overdue", "paid"} => a \in v4
    <3> SUFFICES ASSUME NEW a \in Bills
                 PROVE  /\ v1'[a].status = "none" <=> v1'[a].number = 0
                        /\ v1'[a].status \in {"none", "draft"} => a \notin v4
                        /\ v1'[a].status \in {"sent", "overdue", "paid"} => a \in v4
      OBVIOUS
    <3>1. /\ v1[a].status = "none" <=> v1[a].number = 0
          /\ v1[a].status \in {"none", "draft"} => a \notin v4
          /\ v1[a].status \in {"sent", "overdue", "paid"} => a \in v4
      BY DEF BillsOK, Billing!BillsInv
    <3>2. CASE a = b
      BY <2>1, <2>3, <3>1, <3>2
    <3>3. CASE a # b
      BY <2>3, <3>1, <3>3
    <3> QED BY <3>2, <3>3
  <2>6. Billing!BillsInv'
    BY <2>2, <2>3, <2>5 DEF BillsOK, Billing!BillsInv, Billing!At
  <2> QED BY <2>4, <2>6 DEF BillsOK
<1> QED BY <1>1, <1>2, <1>3, <1>4, <1>5, <1>6, <1>7 DEF Billing!Next

LEMMA BillsStay == BillsOK /\ UNCHANGED atDesk => BillsOK'
  BY DEF BillsOK, atDesk, Billing!TypeOK, Billing!BillsInv, Billing!At

LEMMA BillsGood == BillsOK => Billing!BillsTold
<1> SUFFICES ASSUME BillsOK PROVE Billing!BillsTold
  OBVIOUS
<1>1. \A b \in Bills : v3[b] <= 1 /\ (v1[b].status = "paid" => b \in v4)
  BY DEF BillsOK, Billing!BillsInv
<1>2. \A a, b \in Bills : v1[a].status # "none" /\ v1[a].number = v1[b].number => a = b
  BY DEF BillsOK, Billing!BillsInv
<1>3. \A k \in Clients, b \in Bills : b \in Billing!OverdueNow(k) \cup Billing!Totals(k, "paid")
        => b \in Billing!Listed(k) /\ Billing!InvoiceOpens(k, b)
  BY DEF Billing!OverdueNow, Billing!Totals, Billing!Listed, Billing!Of, Billing!InvoiceOpens
<1> QED BY <1>1, <1>2, <1>3 DEF Billing!BillsTold

\* A client is told once of a bill and pays only what was sent, no two bills bear
\* one number, whatever calls run side by side or are cut
\* (billing/router.py:156, 177, 192).
THEOREM ClientsToldOnce == OfficeSpec => []BillsTold
<1> DEFINE Inv == desk = "billing" => BillsOK
<1>1. OfficeInit => Inv
  BY BillsInit DEF OfficeInit
<1>2. Inv /\ [OfficeNext]_officeVars => Inv'
  BY BillsStep, BillsStay, DeskMoves
<1>3. Inv => BillsTold
  BY BillsGood DEF BillsTold
<1> QED BY <1>1, <1>2, <1>3, PTL DEF OfficeSpec
-----------------------------------------------------------------------------
\* Pushes: feed, devices, muted, access and pushing are v1 to v5.
PushOK == Push!TypeOK /\ Push!AskedOnce

LEMMA PushInit == Push!Init => PushOK
<1> SUFFICES ASSUME Push!Init PROVE PushOK
  OBVIOUS
<1>1. Push!Done \in Push!TaskType /\ Push!Done.pc = "idle"
  BY DEF Push!Done, Push!TaskType, Push!Pc
<1>2. v1 \in [Owners -> 0..MaxUnread]
  BY DesksAssumption DEF Push!PushAssumption, Push!Init
<1>3. Push!TypeOK
  BY <1>1, <1>2 DEF Push!Init, Push!TypeOK
<1>4. Push!AskedOnce
  BY <1>1 DEF Push!Init, Push!AskedOnce, Push!At
<1> QED BY <1>3, <1>4 DEF PushOK

\* A task that neither takes the lock nor gives it up.
LEMMA PushMoves ==
  ASSUME PushOK, NEW k \in Calls, NEW rec \in Push!TaskType,
         v5' = [v5 EXCEPT ![k] = rec], UNCHANGED <<v3, v4>>,
         v5[k].pc # "exchange", rec.pc # "exchange",
         v1' \in [Owners -> 0..MaxUnread], v2' \in [Devices -> Owners \cup {Nobody}]
  PROVE  PushOK'
<1>1. v5'[k] = rec /\ \A o \in Calls \ {k} : v5'[o] = v5[o]
  BY DEF PushOK, Push!TypeOK
<1>2. Push!TypeOK'
  BY DEF PushOK, Push!TypeOK
<1>3. \A o \in Calls : v5'[o].pc = "exchange" <=> v5[o].pc = "exchange"
  BY <1>1
<1>4. Push!AskedOnce'
  BY <1>3 DEF PushOK, Push!AskedOnce, Push!At
<1> QED BY <1>2, <1>4 DEF PushOK

\* What the people do: no task moves.
LEMMA PushQuiet ==
  ASSUME PushOK, UNCHANGED <<v4, v5>>, v3' \subseteq Owners,
         v1' \in [Owners -> 0..MaxUnread], v2' \in [Devices -> Owners \cup {Nobody}]
  PROVE  PushOK'
  BY DEF PushOK, Push!TypeOK, Push!AskedOnce, Push!At

LEMMA PushTask == ASSUME PushOK, NEW k \in Calls, Push!Push(k) PROVE PushOK'
<1> USE DEF PushOK
<1>1. v5[k] \in Push!TaskType /\ Push!Done \in Push!TaskType /\ Push!Done.pc = "idle"
  BY DEF Push!TypeOK, Push!Done, Push!TaskType, Push!Pc
<1>2. \A pc \in Push!Pc : [v5[k] EXCEPT !.pc = pc] \in Push!TaskType /\ [v5[k] EXCEPT !.pc = pc].pc = pc
  BY <1>1 DEF Push!TaskType
<1>3. ASSUME UNCHANGED <<v1, v2>> PROVE v1' \in [Owners -> 0..MaxUnread] /\ v2' \in [Devices -> Owners \cup {Nobody}]
  BY <1>3 DEF Push!TypeOK
<1>4. CASE Push!Dispatch(k)
  BY <1>2, <1>3, <1>4, PushMoves DEF Push!Dispatch, Push!At, Push!Goto, Push!Pc
<1>5. CASE Push!PrefsRead(k)
  <2> DEFINE us == v5[k].users \ v3
             rec == [v5[k] EXCEPT !.pc = "devices", !.users = us]
  <2>1. us \subseteq Owners
    BY <1>1 DEF Push!TaskType
  <2>2. rec \in Push!TaskType /\ rec.pc = "devices"
    BY <1>1, <2>1 DEF Push!TaskType, Push!Pc
  <2>3. v5' = [v5 EXCEPT ![k] = rec] \/ v5' = [v5 EXCEPT ![k] = Push!Done]
    BY <1>5 DEF Push!PrefsRead, Push!End
  <2> HIDE DEF rec
  <2> QED BY <1>1, <1>3, <1>5, <2>2, <2>3, PushMoves DEF Push!PrefsRead, Push!At
<1>6. CASE Push!DevicesRead(k)
  <2> DEFINE found == {r \in Devices \X v5[k].users : v2[r[1]] = r[2]}
             rec == [v5[k] EXCEPT !.pc = "token", !.todo = found]
  <2>1. found \subseteq Devices \X Owners
    BY <1>1 DEF Push!TaskType
  <2>2. v5' = [v5 EXCEPT ![k] = rec] \/ v5' = [v5 EXCEPT ![k] = Push!Done]
    BY <1>6 DEF Push!DevicesRead, Push!End
  <2> HIDE DEF found
  <2>3. rec \in Push!TaskType /\ rec.pc = "token"
    BY <1>1, <2>1 DEF Push!TaskType, Push!Pc
  <2> HIDE DEF rec
  <2> QED BY <1>1, <1>3, <1>6, <2>2, <2>3, PushMoves DEF Push!DevicesRead, Push!At
<1>7. CASE Push!TokenCached(k)
  BY <1>2, <1>3, <1>7, PushMoves DEF Push!TokenCached, Push!At, Push!Goto, Push!Pc
<1>8. CASE Push!TokenLock(k) /\ v4.valid
  BY <1>2, <1>3, <1>8, PushMoves DEF Push!TokenLock, Push!At, Push!Goto, Push!Pc
<1>9. CASE Push!TokenLock(k) /\ ~v4.valid
  <2> DEFINE rec == [v5[k] EXCEPT !.pc = "exchange"]
  <2>1. rec \in Push!TaskType /\ rec.pc = "exchange"
    BY <1>2 DEF Push!Pc
  <2>2. v5' = [v5 EXCEPT ![k] = rec] /\ ~v4.locked /\ v4' = [v4 EXCEPT !.locked = TRUE] /\ UNCHANGED <<v1, v2, v3>>
    BY <1>9 DEF Push!TokenLock, Push!Goto
  <2> HIDE DEF rec
  <2>3. v5'[k] = rec /\ \A o \in Calls \ {k} : v5'[o] = v5[o]
    BY <2>2 DEF Push!TypeOK
  <2>4. v4' \in [valid: BOOLEAN, locked: BOOLEAN] /\ v4'.locked /\ ~v4'.valid
    BY <1>9, <2>2 DEF Push!TypeOK
  <2>5. Push!TypeOK'
    BY <2>1, <2>2, <2>4 DEF Push!TypeOK
  <2>6. \A o \in Calls : v5[o].pc # "exchange"
    BY <2>2 DEF Push!AskedOnce, Push!At
  <2> QED BY <2>1, <2>3, <2>4, <2>5, <2>6 DEF Push!AskedOnce, Push!At
<1>10. CASE Push!TokenExchange(k)
  <2>1. PICK rec \in {[v5[k] EXCEPT !.pc = "send"], Push!Done} : v5' = [v5 EXCEPT ![k] = rec]
    BY <1>10 DEF Push!TokenExchange, Push!Goto, Push!End
  <2>2. rec \in Push!TaskType /\ rec.pc # "exchange"
    BY <1>1, <1>2 DEF Push!Pc
  <2>3. v5'[k] = rec /\ \A o \in Calls \ {k} : v5'[o] = v5[o]
    BY <2>1 DEF Push!TypeOK
  <2>4. v4' \in [valid: BOOLEAN, locked: BOOLEAN] /\ ~v4'.locked /\ UNCHANGED <<v1, v2, v3>> /\ v5[k].pc = "exchange"
    <3>1. [v4 EXCEPT !.locked = FALSE] \in [valid: BOOLEAN, locked: BOOLEAN] /\ ~[v4 EXCEPT !.locked = FALSE].locked
      BY DEF Push!TypeOK
    <3>2. v4' = [valid |-> TRUE, locked |-> FALSE] \/ v4' = [v4 EXCEPT !.locked = FALSE]
      BY <1>10 DEF Push!TokenExchange
    <3>3. CASE v4' = [valid |-> TRUE, locked |-> FALSE]
      BY <1>10, <3>3 DEF Push!TokenExchange, Push!At
    <3>4. CASE v4' = [v4 EXCEPT !.locked = FALSE]
      BY <1>10, <3>1, <3>4 DEF Push!TokenExchange, Push!At
    <3> QED BY <3>2, <3>3, <3>4
  <2>5. Push!TypeOK'
    BY <2>1, <2>2, <2>4 DEF Push!TypeOK
  <2>6. \A o \in Calls : v5[o].pc = "exchange" => o = k
    BY <2>4 DEF Push!AskedOnce, Push!At
  <2>7. \A o \in Calls : v5'[o].pc # "exchange"
    BY <2>2, <2>3, <2>6
  <2> QED BY <2>4, <2>5, <2>7 DEF Push!AskedOnce, Push!At
<1>11. ASSUME NEW d \in Devices, NEW u \in Owners, NEW dead \in BOOLEAN, Push!Send(k, d, u, dead)
       PROVE PushOK'
  <2> DEFINE rest == v5[k].todo \ {<<d, u>>}
             gone == IF dead THEN v5[k].dead \cup {d} ELSE v5[k].dead
             next == IF v5[k].todo = {<<d, u>>} THEN "drop" ELSE "send"
             rec == [v5[k] EXCEPT !.todo = rest, !.dead = gone, !.pc = next]
  <2>1. rest \subseteq Devices \X Owners /\ gone \subseteq Devices /\ next \in {"drop", "send"}
    BY <1>1 DEF Push!TaskType
  <2>2. v5' = [v5 EXCEPT ![k] = rec] /\ v5[k].pc = "send" /\ UNCHANGED <<v1, v2, v3, v4>>
    <3>1. v5' = [v5 EXCEPT ![k].todo = rest, ![k].dead = gone, ![k].pc = next]
      BY <1>1, <1>11 DEF Push!Send, Push!TypeOK, Push!TaskType
    <3> HIDE DEF rest, gone, next
    <3> QED BY <1>11, <3>1 DEF Push!Send, Push!At, Push!TypeOK, Push!TaskType
  <2> HIDE DEF rest, gone, next
  <2>3. rec \in Push!TaskType /\ rec.pc = next
    BY <1>1, <2>1 DEF Push!TaskType, Push!Pc
  <2> HIDE DEF rec
  <2> QED BY <1>3, <2>1, <2>2, <2>3, PushMoves
<1>12. CASE Push!Drop(k)
  <2>1. v2' \in [Devices -> Owners \cup {Nobody}]
    BY <1>12 DEF Push!Drop, Push!TypeOK
  <2>2. v1' \in [Owners -> 0..MaxUnread]
    BY <1>12 DEF Push!Drop, Push!TypeOK
  <2> QED BY <1>1, <1>12, <2>1, <2>2, PushMoves DEF Push!Drop, Push!At, Push!End
<1> QED BY <1>4, <1>5, <1>6, <1>7, <1>8, <1>9, <1>10, <1>11, <1>12 DEF Push!Push

LEMMA PushStep == PushOK /\ Push!Next => PushOK'
<1> SUFFICES ASSUME PushOK, Push!Next PROVE PushOK'
  OBVIOUS
<1> USE DEF PushOK
<1>1. /\ v1 \in [Owners -> 0..MaxUnread] /\ v2 \in [Devices -> Owners \cup {Nobody}] /\ v3 \subseteq Owners
      /\ MaxUnread \in Nat
  BY DesksAssumption DEF Push!TypeOK, Push!PushAssumption
<1>2. Push!Done \in Push!TaskType
  BY DEF Push!Done, Push!TaskType, Push!Pc
<1>3. ASSUME NEW k \in Calls, NEW us \in SUBSET Owners, Push!Notify(k, us) PROVE PushOK'
  <2> DEFINE rec == [Push!Done EXCEPT !.pc = "dispatch", !.users = us]
  <2>1. rec \in Push!TaskType /\ rec.pc = "dispatch"
    BY <1>2 DEF Push!TaskType, Push!Pc
  <2>2. v5' = [v5 EXCEPT ![k] = rec]
    BY <1>3 DEF Push!Notify
  <2> HIDE DEF rec
  <2>3. v1' \in [Owners -> 0..MaxUnread]
    BY <1>1, <1>3 DEF Push!Notify
  <2> QED BY <1>1, <1>3, <2>1, <2>2, <2>3, PushMoves DEF Push!Notify, Push!At
<1>4. ASSUME NEW k \in Calls, NEW u \in Owners, Push!TestPush(k, u) PROVE PushOK'
  <2> DEFINE rec == [Push!Done EXCEPT !.pc = "prefs", !.users = {u}]
  <2>1. rec \in Push!TaskType /\ rec.pc = "prefs"
    BY <1>2 DEF Push!TaskType, Push!Pc
  <2>2. v5' = [v5 EXCEPT ![k] = rec]
    BY <1>4 DEF Push!TestPush
  <2> HIDE DEF rec
  <2> QED BY <1>1, <1>4, <2>1, <2>2, PushMoves DEF Push!TestPush, Push!At
<1>5. ASSUME NEW u \in Owners, Push!MarkRead(u) \/ Push!MarkAllRead(u) PROVE PushOK'
  <2>1. v1' \in [Owners -> 0..MaxUnread]
    BY <1>1, <1>5 DEF Push!MarkRead, Push!MarkAllRead
  <2> QED BY <1>1, <1>5, <2>1, PushQuiet DEF Push!MarkRead, Push!MarkAllRead
<1>6. ASSUME NEW u \in Owners, Push!SetPreferences(u) PROVE PushOK'
  BY <1>1, <1>6, PushQuiet DEF Push!SetPreferences
<1>7. ASSUME NEW u \in Owners, NEW d \in Devices,
             Push!Register(u, d) \/ Push!Unregister(u, d) \/ Push!UnregisterAll(u) PROVE PushOK'
  <2>1. v2' \in [Devices -> Owners \cup {Nobody}]
    BY <1>1, <1>7 DEF Push!Register, Push!Unregister, Push!UnregisterAll
  <2> QED BY <1>1, <1>7, <2>1, PushQuiet DEF Push!Register, Push!Unregister, Push!UnregisterAll
<1>8. ASSUME NEW u \in Owners, Push!UnregisterAll(u) PROVE PushOK'
  <2>1. v2' \in [Devices -> Owners \cup {Nobody}]
    BY <1>1, <1>8 DEF Push!UnregisterAll
  <2> QED BY <1>1, <1>8, <2>1, PushQuiet DEF Push!UnregisterAll
<1>9. CASE Push!TokenExpires
  <2>1. v4' \in [valid: BOOLEAN, locked: BOOLEAN] /\ ~v4'.valid /\ v4'.locked = v4.locked
    BY <1>9 DEF Push!TokenExpires, Push!TypeOK
  <2> QED BY <1>9, <2>1 DEF Push!TokenExpires, Push!TypeOK, Push!AskedOnce, Push!At
<1> QED BY <1>3, <1>4, <1>5, <1>6, <1>7, <1>8, <1>9, PushTask DEF Push!Next

LEMMA PushStay == PushOK /\ UNCHANGED atDesk => PushOK'
  BY DEF PushOK, atDesk, Push!TypeOK, Push!AskedOnce, Push!At
-----------------------------------------------------------------------------
\* Announcements: posts, open, told, walks and bell are v1 to v5.
NewsOK == Bulletin!TypeOK /\ Bulletin!NewsInv

LEMMA NewsInit == Bulletin!Init => NewsOK
<1> SUFFICES ASSUME Bulletin!Init PROVE NewsOK
  OBVIOUS
<1>1. /\ Bulletin!NoWalk.pc = "none" /\ Bulletin!NoWalk.done = {}
      /\ Bulletin!NoWalk \in [pc: {"none", "audit", "walk", "done", "cut"}, audience: Bulletin!Audiences,
                              began: SUBSET Firms, done: SUBSET Firms]
  BY DEF Bulletin!NoWalk, Bulletin!Audiences
<1>2. v3 \in [News -> [Audience -> 0..MaxTold]]
  BY DesksAssumption DEF Bulletin!Init, Bulletin!AnnouncementsAssumption
<1>3. Bulletin!TypeOK
  BY <1>1, <1>2 DEF Bulletin!Init, Bulletin!TypeOK, Bulletin!Audiences
<1>4. Bulletin!NewsInv
  BY <1>1 DEF Bulletin!Init, Bulletin!NewsInv
<1> QED BY <1>3, <1>4 DEF NewsOK

WalkType == [pc: {"none", "audit", "walk", "done", "cut"}, audience: Bulletin!Audiences,
             began: SUBSET Firms, done: SUBSET Firms]

\* A walk that tells nobody: its own row moves, and what was told does not.
LEMMA NewsWalks ==
  ASSUME NewsOK, NEW n \in News, NEW rec \in WalkType, NEW row \in [state: {"none", "draft", "published", "deleted"}, audience: Bulletin!Audiences],
         v4' = [v4 EXCEPT ![n] = rec], v1' = [v1 EXCEPT ![n] = row], UNCHANGED <<v2, v3, v5>>,
         rec.done = v4[n].done, rec.audience = v4[n].audience \/ v4[n].done = {},
         row.state = "none" => rec.pc = "none",
         rec.pc \in {"none", "audit"} => rec.done = {},
         rec.pc = "done" => rec.began \subseteq rec.done
  PROVE  NewsOK'
<1>1. v4'[n] = rec /\ v1'[n] = row /\ \A m \in News \ {n} : v4'[m] = v4[m] /\ v1'[m] = v1[m]
  BY DEF NewsOK, Bulletin!TypeOK
<1>2. Bulletin!TypeOK'
  BY DEF NewsOK, Bulletin!TypeOK, WalkType
<1>3. Bulletin!NewsInv'
  <2> SUFFICES ASSUME NEW m \in News
               PROVE  /\ v1'[m].state = "none" => v4'[m].pc = "none"
                      /\ v4'[m].pc \in {"none", "audit"} => v4'[m].done = {}
                      /\ v4'[m].pc = "done" => v4'[m].began \subseteq v4'[m].done
                      /\ \A p \in Audience : v3'[m][p] =
                           IF FirmOf[p] \in v4'[m].done /\ Bulletin!For(p, v4'[m].audience) THEN 1 ELSE 0
    BY DEF Bulletin!NewsInv, Bulletin!For
  <2>1. CASE m = n
    BY <1>1, <2>1 DEF NewsOK, Bulletin!NewsInv
  <2>2. CASE m # n
    BY <1>1, <2>2 DEF NewsOK, Bulletin!NewsInv
  <2> QED BY <2>1, <2>2
<1> QED BY <1>2, <1>3 DEF NewsOK

LEMMA NewsStep == NewsOK /\ Bulletin!Next => NewsOK'
<1> SUFFICES ASSUME NewsOK, Bulletin!Next PROVE NewsOK'
  OBVIOUS
<1> DEFINE Row == [state: {"none", "draft", "published", "deleted"}, audience: Bulletin!Audiences]
<1>1. \A n \in News : v4[n] \in WalkType /\ v1[n] \in Row
  BY DEF NewsOK, Bulletin!TypeOK, WalkType
<1>2. /\ \A n \in News : v1 = [v1 EXCEPT ![n] = v1[n]] /\ v4 = [v4 EXCEPT ![n] = v4[n]]
      /\ MaxTold \in Nat \ {0} /\ FirmOf \in [Audience -> Firms] /\ RoleOf \in [Audience -> Bulletin!Roles]
  BY DesksAssumption DEF NewsOK, Bulletin!TypeOK, Bulletin!AnnouncementsAssumption
<1>3. \A n \in News :
        /\ v1[n].state = "none" => v4[n].pc = "none"
        /\ v4[n].pc \in {"none", "audit"} => v4[n].done = {}
        /\ v4[n].pc = "done" => v4[n].began \subseteq v4[n].done
  BY DEF NewsOK, Bulletin!NewsInv
<1>4. ASSUME NEW n \in News, NEW a \in Bulletin!Audiences, NEW b \in BOOLEAN, Bulletin!Create(n, a, b)
      PROVE  NewsOK'
  <2> DEFINE st == IF b THEN "published" ELSE "draft"
             pc == IF b THEN "audit" ELSE "none"
             row == [state |-> st, audience |-> a]
             rec == [v4[n] EXCEPT !.pc = pc, !.audience = a]
  <2>1. st \in {"draft", "published"} /\ pc \in {"audit", "none"}
    OBVIOUS
  <2>2. /\ v1' = [v1 EXCEPT ![n] = row] /\ v4' = [v4 EXCEPT ![n].pc = pc, ![n].audience = a]
        /\ UNCHANGED <<v2, v3, v5>> /\ v1[n].state = "none"
    BY <1>4 DEF Bulletin!Create
  <2> HIDE DEF st, pc
  <2>3. v4' = [v4 EXCEPT ![n] = rec]
    BY <2>2 DEF NewsOK, Bulletin!TypeOK
  <2>4. /\ rec \in WalkType /\ rec.pc = pc /\ rec.done = v4[n].done
        /\ row \in Row /\ row.state = st
    BY <1>1, <2>1 DEF WalkType
  <2>5. v4[n].done = {}
    BY <1>3, <2>2
  <2> HIDE DEF row, rec
  <2> QED BY <2>1, <2>2, <2>3, <2>4, <2>5, NewsWalks
<1>5. ASSUME NEW n \in News, NEW a \in Bulletin!Audiences, NEW b \in BOOLEAN, Bulletin!Update(n, a, b)
      PROVE  NewsOK'
  <2> DEFINE st == IF b THEN "published" ELSE "draft"
             row == [state |-> st, audience |-> a]
  <2>1. v1' = [v1 EXCEPT ![n] = row] /\ UNCHANGED <<v2, v3, v4, v5>> /\ st \in {"draft", "published"}
    BY <1>5 DEF Bulletin!Update
  <2> HIDE DEF st
  <2>2. row \in Row /\ row.state = st
    BY <2>1
  <2> HIDE DEF row
  <2> QED BY <1>1, <1>2, <1>3, <2>1, <2>2, NewsWalks
<1>6. ASSUME NEW n \in News, Bulletin!Begin(n) \/ Bulletin!Told(n) \/ Bulletin!Cut(n) PROVE NewsOK'
  <2>1. PICK pc \in {"walk", "done", "cut"}, s \in {v2, v4[n].began} :
          /\ v4' = [v4 EXCEPT ![n] = [v4[n] EXCEPT !.pc = pc, !.began = s]]
          /\ pc = "done" => s = v4[n].began /\ v4[n].began \subseteq v4[n].done
    <3>1. CASE Bulletin!Begin(n)
      BY <3>1 DEF Bulletin!Begin, NewsOK, Bulletin!TypeOK
    <3>2. CASE Bulletin!Told(n)
      <4>1. v4' = [v4 EXCEPT ![n] = [v4[n] EXCEPT !.pc = "done", !.began = v4[n].began]]
        BY <3>2 DEF Bulletin!Told, NewsOK, Bulletin!TypeOK
      <4> QED BY <3>2, <4>1 DEF Bulletin!Told
    <3>3. CASE Bulletin!Cut(n)
      <4>1. v4' = [v4 EXCEPT ![n] = [v4[n] EXCEPT !.pc = "cut", !.began = v4[n].began]]
        BY <3>3 DEF Bulletin!Cut, NewsOK, Bulletin!TypeOK
      <4> QED BY <4>1
    <3> QED BY <1>6, <3>1, <3>2, <3>3
  <2> DEFINE rec == [v4[n] EXCEPT !.pc = pc, !.began = s]
  <2>2. s \subseteq Firms
    BY <1>1 DEF NewsOK, Bulletin!TypeOK, WalkType
  <2>3. rec \in WalkType /\ rec.pc = pc /\ rec.began = s /\ rec.done = v4[n].done /\ rec.audience = v4[n].audience
    BY <1>1, <2>2 DEF WalkType
  <2>4. UNCHANGED <<v1, v2, v3, v5>> /\ v1[n].state # "none"
    BY <1>3, <1>6 DEF Bulletin!Begin, Bulletin!Told, Bulletin!Cut
  <2> HIDE DEF rec
  <2>5. v4' = [v4 EXCEPT ![n] = rec]
    BY <2>1 DEF rec
  <2>6. v1[n] \in Row /\ v1' = [v1 EXCEPT ![n] = v1[n]]
    BY <1>1, <1>2, <2>4
  <2>7. rec.pc \notin {"none", "audit"} /\ (rec.pc = "done" => rec.began \subseteq rec.done)
    BY <2>1, <2>3
  <2> QED BY <2>3, <2>4, <2>5, <2>6, <2>7, NewsWalks
<1>7. ASSUME NEW n \in News, Bulletin!Delete(n) PROVE NewsOK'
  <2> DEFINE row == [v1[n] EXCEPT !.state = "deleted"]
  <2>1. row \in Row /\ row.state = "deleted" /\ v1' = [v1 EXCEPT ![n] = row] /\ UNCHANGED <<v2, v3, v4, v5>>
    BY <1>1, <1>7 DEF Bulletin!Delete, NewsOK, Bulletin!TypeOK
  <2> HIDE DEF row
  <2> QED BY <1>1, <1>2, <1>3, <2>1, NewsWalks
<1>8. ASSUME NEW n \in News, NEW f \in Firms, Bulletin!Tell(n, f) PROVE NewsOK'
  <2> DEFINE to == {p \in Audience : FirmOf[p] = f /\ RoleOf[p] \in Bulletin!TargetRoles(v4[n].audience)}
             row == [p \in Audience |-> IF p \in to /\ v3[n][p] < MaxTold THEN v3[n][p] + 1 ELSE v3[n][p]]
             rec == [v4[n] EXCEPT !.done = v4[n].done \cup {f}]
  <2>1. /\ v3' = [v3 EXCEPT ![n] = row] /\ v4' = [v4 EXCEPT ![n] = rec] /\ UNCHANGED <<v1, v2, v5>>
        /\ v4[n].pc = "walk" /\ f \notin v4[n].done
    BY <1>8 DEF Bulletin!Tell
  <2>2. \A p \in Audience : p \in to <=> FirmOf[p] = f /\ Bulletin!For(p, v4[n].audience)
    BY <1>1, <1>2 DEF Bulletin!TargetRoles, Bulletin!For, Bulletin!Roles, Bulletin!Audiences, WalkType
  <2>3. \A p \in Audience : v3[n][p] = IF FirmOf[p] \in v4[n].done /\ Bulletin!For(p, v4[n].audience) THEN 1 ELSE 0
    BY DEF NewsOK, Bulletin!NewsInv
  <2> HIDE DEF to
  <2>4. \A p \in Audience : row[p] =
          IF FirmOf[p] \in v4[n].done \cup {f} /\ Bulletin!For(p, v4[n].audience) THEN 1 ELSE 0
    BY <1>2, <2>1, <2>2, <2>3
  <2>5. row \in [Audience -> 0..MaxTold]
    BY <1>2, <2>4
  <2>6. rec \in WalkType /\ rec.pc = "walk" /\ rec.done = v4[n].done \cup {f} /\ rec.audience = v4[n].audience
    BY <1>1, <2>1 DEF WalkType
  <2> HIDE DEF row, rec
  <2>7. v4'[n] = rec /\ v3'[n] = row /\ \A m \in News \ {n} : v4'[m] = v4[m] /\ v3'[m] = v3[m]
    BY <2>1 DEF NewsOK, Bulletin!TypeOK
  <2>8. Bulletin!TypeOK'
    BY <2>1, <2>5, <2>6 DEF NewsOK, Bulletin!TypeOK, WalkType
  <2>9. Bulletin!NewsInv'
    <3> SUFFICES ASSUME NEW m \in News
                 PROVE  /\ v1'[m].state = "none" => v4'[m].pc = "none"
                        /\ v4'[m].pc \in {"none", "audit"} => v4'[m].done = {}
                        /\ v4'[m].pc = "done" => v4'[m].began \subseteq v4'[m].done
                        /\ \A p \in Audience : v3'[m][p] =
                             IF FirmOf[p] \in v4'[m].done /\ Bulletin!For(p, v4'[m].audience) THEN 1 ELSE 0
      BY DEF Bulletin!NewsInv, Bulletin!For
    <3>1. CASE m = n
      BY <1>3, <2>1, <2>4, <2>6, <2>7, <3>1
    <3>2. CASE m # n
      BY <2>1, <2>7, <3>2 DEF NewsOK, Bulletin!NewsInv
    <3> QED BY <3>1, <3>2
  <2> QED BY <2>8, <2>9 DEF NewsOK
<1>9. ASSUME UNCHANGED <<v1, v3, v4>>, v2' \subseteq Firms,
             v5' \in [Staffers -> [Notes -> {"none", "unread", "read"}]]
      PROVE  NewsOK'
  BY <1>9 DEF NewsOK, Bulletin!TypeOK, Bulletin!NewsInv, Bulletin!For
<1>10. ASSUME NEW f \in Firms, Bulletin!OpenFirm(f) PROVE NewsOK'
  BY <1>9, <1>10 DEF Bulletin!OpenFirm, NewsOK, Bulletin!TypeOK
<1>11. ASSUME NEW m \in Notes, NEW to \in SUBSET Staffers, Bulletin!NotifyStaff(m, to) PROVE NewsOK'
  <2>1. v5' \in [Staffers -> [Notes -> {"none", "unread", "read"}]]
    BY <1>11 DEF Bulletin!NotifyStaff, NewsOK, Bulletin!TypeOK
  <2> QED BY <1>9, <1>11, <2>1 DEF Bulletin!NotifyStaff, NewsOK, Bulletin!TypeOK
<1>12. ASSUME NEW s \in Staffers, NEW m \in Notes, Bulletin!ReadOne(s, m) PROVE NewsOK'
  <2>1. v5' \in [Staffers -> [Notes -> {"none", "unread", "read"}]]
    BY <1>12 DEF Bulletin!ReadOne, NewsOK, Bulletin!TypeOK
  <2> QED BY <1>9, <1>12, <2>1 DEF Bulletin!ReadOne, NewsOK, Bulletin!TypeOK
<1>13. ASSUME NEW s \in Staffers, Bulletin!ReadAll(s) PROVE NewsOK'
  <2>1. v5' \in [Staffers -> [Notes -> {"none", "unread", "read"}]]
    BY <1>13 DEF Bulletin!ReadAll, NewsOK, Bulletin!TypeOK
  <2> QED BY <1>9, <1>13, <2>1 DEF Bulletin!ReadAll, NewsOK, Bulletin!TypeOK
<1> QED BY <1>4, <1>5, <1>6, <1>7, <1>8, <1>10, <1>11, <1>12, <1>13 DEF Bulletin!Next

LEMMA NewsStay == NewsOK /\ UNCHANGED atDesk => NewsOK'
  BY DEF NewsOK, atDesk, Bulletin!TypeOK, Bulletin!NewsInv, Bulletin!For

LEMMA NewsGood == NewsOK => Bulletin!ToldOnce
<1> SUFFICES ASSUME NewsOK, NEW n \in News, NEW p \in Audience
             PROVE  /\ v3[n][p] <= 1
                    /\ v3[n][p] > 0 => Bulletin!For(p, v4[n].audience)
                    /\ v4[n].pc = "done" /\ FirmOf[p] \in v4[n].began /\ Bulletin!For(p, v4[n].audience)
                         => v3[n][p] = 1
  BY DEF Bulletin!ToldOnce
<1>1. /\ v4[n].pc = "done" => v4[n].began \subseteq v4[n].done
      /\ v3[n][p] = IF FirmOf[p] \in v4[n].done /\ Bulletin!For(p, v4[n].audience) THEN 1 ELSE 0
  BY DEF NewsOK, Bulletin!NewsInv
<1> QED BY <1>1

\* Pushes at once ask for one access token, and an announcement is told once, to
\* its audience and nobody else, whatever is edited, deleted, opened or cut while
\* the walk goes on (push.py:221, announcements.py:78).
THEOREM NoticesGoOutOnce == OfficeSpec => []NoticesOnce
<1> DEFINE Inv == (desk = "push" => PushOK) /\ (desk = "news" => NewsOK)
<1>1. OfficeInit => Inv
  BY PushInit, NewsInit DEF OfficeInit
<1>2. Inv /\ [OfficeNext]_officeVars => Inv'
  BY PushStep, PushStay, NewsStep, NewsStay, DeskMoves
<1>3. Inv => NoticesOnce
  BY NewsGood DEF NoticesOnce, PushOK
<1> QED BY <1>1, <1>2, <1>3, PTL DEF OfficeSpec
-----------------------------------------------------------------------------
\* The help desk: ticket, said and replying are v1, v2 and v3.
HelpOK == Desk!TypeOK /\ Desk!TicketInv

LEMMA HelpInit == Desk!Init => HelpOK
<1> SUFFICES ASSUME Desk!Init PROVE HelpOK
  OBVIOUS
<1>1. Desk!Idle \in Desk!CallType /\ Desk!Idle.pc = "idle"
  BY DEF Desk!Idle, Desk!CallType, Desk!Actors
<1>2. /\ v1 \in [status: Desk!Statuses, agent: Agents \cup {Nobody}, byHand: BOOLEAN] /\ v1.status = "none"
      /\ v2 \in Seq(Desk!Actors) /\ Len(v2) <= MaxReplies
  BY DesksAssumption DEF Desk!HelpdeskAssumption, Desk!Init, Desk!Statuses
<1>3. Desk!TypeOK
  BY <1>1, <1>2 DEF Desk!Init, Desk!TypeOK
<1>4. Desk!TicketInv
  BY <1>1, <1>2 DEF Desk!Init, Desk!TicketInv, Desk!WaitsOnTheOther, Desk!At
<1> QED BY <1>3, <1>4 DEF HelpOK

\* A call that begins, moves on or ends, alone, with what the rest must satisfy.
LEMMA HelpMoves ==
  ASSUME HelpOK, NEW c \in Calls, NEW rec \in Desk!CallType, v3' = [v3 EXCEPT ![c] = rec],
         \A o \in Calls \ {c} : v3[o].pc = "idle",
         v1' \in [status: Desk!Statuses, agent: Agents \cup {Nobody}, byHand: BOOLEAN],
         v2' \in Seq(Desk!Actors), Len(v2') <= MaxReplies,
         rec.pc = "cr_message" => v1'.status # "waiting_on_customer" \/ v1'.byHand,
         rec.pc = "re_status" => v2' # <<>> /\ v2'[Len(v2')] = rec.actor,
         v1'.status = "waiting_on_customer" /\ ~v1'.byHand /\ rec.pc # "re_status" =>
           v2' # <<>> /\ v2'[Len(v2')] = "agent"
  PROVE  HelpOK'
<1>1. v3'[c] = rec /\ \A o \in Calls \ {c} : v3'[o] = v3[o]
  BY DEF HelpOK, Desk!TypeOK
<1>2. Desk!TypeOK'
  BY DEF HelpOK, Desk!TypeOK
<1>3. \A o \in Calls : v3'[o].pc # "idle" => o = c
  BY <1>1
<1>4. Desk!TicketInv'
  BY <1>1, <1>3 DEF HelpOK, Desk!TicketInv, Desk!WaitsOnTheOther, Desk!At
<1> QED BY <1>2, <1>4 DEF HelpOK

LEMMA HelpStep == HelpOK /\ Desk!Next => HelpOK'
<1> SUFFICES ASSUME HelpOK, Desk!Next PROVE HelpOK'
  OBVIOUS
<1> DEFINE Ticket == [status: Desk!Statuses, agent: Agents \cup {Nobody}, byHand: BOOLEAN]
<1>1. /\ v1 \in Ticket /\ v2 \in Seq(Desk!Actors) /\ Len(v2) <= MaxReplies
      /\ \A c \in Calls : v3[c] \in Desk!CallType
      /\ MaxReplies \in Nat
  BY DesksAssumption DEF Desk!HelpdeskAssumption, HelpOK, Desk!TypeOK
<1>2. Desk!Idle \in Desk!CallType /\ Desk!Idle.pc = "idle"
  BY DEF Desk!Idle, Desk!CallType, Desk!Actors
<1>3. /\ \A c, d \in Calls : v3[c].pc = "idle" \/ v3[d].pc = "idle" \/ c = d
      /\ \A c \in Calls :
           /\ v3[c].pc = "cr_message" => v1.status # "waiting_on_customer" \/ v1.byHand
           /\ v3[c].pc = "re_status" => v2 # <<>> /\ v2[Len(v2)] = v3[c].actor
      /\ v1.status = "waiting_on_customer" /\ ~v1.byHand /\ (\A c \in Calls : v3[c].pc # "re_status") =>
           v2 # <<>> /\ v2[Len(v2)] = "agent"
  BY DEF HelpOK, Desk!TicketInv, Desk!WaitsOnTheOther, Desk!At
<1>4. ASSUME NEW c \in Calls, NEW op \in {"create", "reply"}, NEW pc, NEW x, Desk!Start(c, op, pc, x)
      PROVE  /\ \A o \in Calls : v3[o].pc = "idle"
             /\ v3' = [v3 EXCEPT ![c] = [pc |-> pc, op |-> op, actor |-> x]]
  BY <1>1, <1>4 DEF Desk!Start, Desk!At, Desk!CallType
<1>5. ASSUME NEW a \in Desk!Actors
      PROVE /\ Append(v2, a) \in Seq(Desk!Actors) /\ Len(Append(v2, a)) = Len(v2) + 1 /\ Append(v2, a) # <<>>
            /\ Append(v2, a)[Len(Append(v2, a))] = a
  BY <1>1, AppendProperties
<1>6. Len(v2) \in Nat
  BY <1>1
<1>7. ASSUME NEW c \in Calls, Desk!Create(c) PROVE HelpOK'
  <2> DEFINE rec == [pc |-> "cr_message", op |-> "create", actor |-> "customer"]
  <2>1. Desk!Start(c, "create", "cr_message", "customer") /\ v1' = [v1 EXCEPT !.status = "open"] /\ v2' = v2
    BY <1>7 DEF Desk!Create
  <2>2. v3' = [v3 EXCEPT ![c] = rec] /\ \A o \in Calls : v3[o].pc = "idle"
    BY <1>4, <2>1
  <2>3. rec \in Desk!CallType /\ rec.pc = "cr_message"
    BY DEF Desk!CallType, Desk!Actors
  <2> HIDE DEF rec
  <2>4. v1' \in Ticket /\ v1'.status = "open"
    BY <1>1, <2>1 DEF Desk!Statuses
  <2> QED BY <1>1, <2>1, <2>2, <2>3, <2>4, HelpMoves
<1>8. ASSUME NEW c \in Calls, Desk!CreateMessage(c) PROVE HelpOK'
  <2>1. /\ v3[c].pc = "cr_message" /\ Len(v2) < MaxReplies /\ v2' = Append(v2, "customer")
        /\ v3' = [v3 EXCEPT ![c] = Desk!Idle] /\ v1' = v1
    BY <1>8 DEF Desk!CreateMessage, Desk!At, Desk!End
  <2>2. "customer" \in Desk!Actors
    BY DEF Desk!Actors
  <2>3. v2' \in Seq(Desk!Actors) /\ Len(v2') <= MaxReplies
    BY <1>1, <1>5, <1>6, <2>1, <2>2
  <2> QED BY <1>1, <1>2, <1>3, <2>1, <2>3, HelpMoves
<1>9. ASSUME NEW c \in Calls, NEW x \in Desk!Actors, Desk!ReplyStart(c, x) PROVE HelpOK'
  <2> DEFINE rec == [pc |-> "re_message", op |-> "reply", actor |-> x]
  <2>1. Desk!Start(c, "reply", "re_message", x) /\ v1' = v1 /\ v2' = v2
    BY <1>9 DEF Desk!ReplyStart
  <2>2. v3' = [v3 EXCEPT ![c] = rec] /\ \A o \in Calls : v3[o].pc = "idle"
    BY <1>4, <2>1
  <2>3. rec \in Desk!CallType /\ rec.pc = "re_message"
    BY DEF Desk!CallType
  <2> HIDE DEF rec
  <2> QED BY <1>1, <1>3, <2>1, <2>2, <2>3, HelpMoves
<1>10. ASSUME NEW c \in Calls, Desk!ReplyMessage(c) PROVE HelpOK'
  <2> DEFINE rec == [v3[c] EXCEPT !.pc = "re_status"]
  <2>1. /\ v3[c].pc = "re_message" /\ Len(v2) < MaxReplies /\ v2' = Append(v2, v3[c].actor)
        /\ v3' = [v3 EXCEPT ![c] = rec] /\ v1' = v1
    BY <1>10 DEF Desk!ReplyMessage, Desk!At, Desk!Goto
  <2>2. v3[c].actor \in Desk!Actors /\ rec \in Desk!CallType /\ rec.pc = "re_status" /\ rec.actor = v3[c].actor
    BY <1>1 DEF Desk!CallType
  <2> HIDE DEF rec
  <2>3. v2' \in Seq(Desk!Actors) /\ Len(v2') <= MaxReplies /\ v2' # <<>> /\ v2'[Len(v2')] = v3[c].actor
    BY <1>1, <1>5, <1>6, <2>1, <2>2
  <2> QED BY <1>1, <1>3, <2>1, <2>2, <2>3, HelpMoves
<1>11. ASSUME NEW c \in Calls, Desk!ReplyStatus(c) PROVE HelpOK'
  <2>1. /\ v3[c].pc = "re_status" /\ v2' = v2 /\ v3' = [v3 EXCEPT ![c] = Desk!Idle]
        /\ v1' = [v1 EXCEPT !.status = Desk!StatusAfter(v3[c].actor), !.byHand = FALSE]
    BY <1>11 DEF Desk!ReplyStatus, Desk!At, Desk!End
  <2>2. v3[c].actor \in {"agent", "customer"}
    BY <1>1 DEF Desk!CallType, Desk!Actors
  <2>3. /\ v1' \in Ticket
        /\ v1'.status = "waiting_on_customer" => v3[c].actor = "agent"
    BY <1>1, <2>1, <2>2 DEF Desk!StatusAfter, Desk!Statuses
  <2> QED BY <1>1, <1>2, <1>3, <2>1, <2>3, HelpMoves
<1>12. ASSUME UNCHANGED <<v2, v3>>, v1' \in Ticket, v1'.status # "waiting_on_customer" \/ v1'.byHand PROVE HelpOK'
  BY <1>12 DEF HelpOK, Desk!TypeOK, Desk!TicketInv, Desk!WaitsOnTheOther, Desk!At
<1>13. ASSUME NEW s \in Desk!Statuses, Desk!SetStatus(s) PROVE HelpOK'
  <2>1. v1' = [v1 EXCEPT !.status = s, !.byHand = TRUE] /\ UNCHANGED <<v2, v3>>
    BY <1>13 DEF Desk!SetStatus
  <2>2. v1' \in Ticket /\ v1'.byHand
    BY <1>1, <2>1
  <2> QED BY <1>12, <2>1, <2>2
<1>14. ASSUME NEW a \in Agents \cup {Nobody}, Desk!Assign(a) PROVE HelpOK'
  <2>1. v1' = [v1 EXCEPT !.agent = a, !.status = "in_progress", !.byHand = FALSE] /\ UNCHANGED <<v2, v3>>
    BY <1>14 DEF Desk!Assign
  <2>2. v1' \in Ticket /\ v1'.status = "in_progress"
    BY <1>1, <2>1 DEF Desk!Statuses
  <2> QED BY <1>12, <2>1, <2>2
<1> QED BY <1>7, <1>8, <1>9, <1>10, <1>11, <1>13, <1>14 DEF Desk!Next

LEMMA HelpStay == HelpOK /\ UNCHANGED atDesk => HelpOK'
  BY DEF HelpOK, atDesk, Desk!TypeOK, Desk!TicketInv, Desk!WaitsOnTheOther, Desk!At

\* With one reply at a time, a ticket waits on the customer only after an agent's
\* words, whatever is said and set by however many hands (support/service.py:145).
THEOREM TicketWaitsOnTheOther == OfficeSpec => []WaitsOnTheOther
<1> DEFINE Inv == desk = "help" => HelpOK
<1>1. OfficeInit => Inv
  BY HelpInit DEF OfficeInit
<1>2. Inv /\ [OfficeNext]_officeVars => Inv'
  BY HelpStep, HelpStay, DeskMoves
<1>3. Inv => WaitsOnTheOther
  BY DEF WaitsOnTheOther, HelpOK, Desk!TicketInv
<1> QED BY <1>1, <1>2, <1>3, PTL DEF OfficeSpec
-----------------------------------------------------------------------------
\* Consents and requests: consents, trail, requests and granting are v1 to v4.
\* The answer that stands for a type, in the trail or with a call.
InTrail(t) == \E i \in DOMAIN v2[t] : v2[t][i] = v1[t]
Bears(c, t) == v4[c].pc = "history" /\ v4[c].type = t /\ v4[c].answer = v1[t]
Typed(call) == call \in Consents!CallType
               /\ IF call.pc \in {"state", "history"} THEN call.type \in Types ELSE call.type = Nothing
Standing == \A t \in Types : v1[t] # "unset" => InTrail(t) \/ \E c \in Calls : Bears(c, t)
ConsentsOK ==
  /\ v1 \in [Types -> Consents!Answers \cup {"unset"}]
  /\ v2 \in [Types -> Seq(Consents!Answers)] /\ \A t \in Types : Len(v2[t]) <= MaxTrail
  /\ v3 \in [Requests -> [kind: Kinds \cup {Nothing}, status: Consents!Statuses]]
  /\ v4 \in [Calls -> Consents!CallType] /\ \A c \in Calls : Typed(v4[c])
  /\ Standing

LEMMA ConsentsMean == ConsentsOK => Consents!TypeOK /\ Consents!TrailInv
  BY DEF Consents!TypeOK, Consents!TrailInv, Consents!At, ConsentsOK, Typed, Standing, InTrail, Bears

LEMMA ConsentsInit == Consents!Init => ConsentsOK
<1> SUFFICES ASSUME Consents!Init PROVE ConsentsOK
  OBVIOUS
<1>1. Typed(Consents!Idle)
  BY DEF Typed, Consents!Idle, Consents!CallType, Consents!Pc, Consents!AllOps, Consents!Answers
<1>2. <<>> \in Seq(Consents!Answers) /\ Len(<<>>) = 0 /\ MaxTrail \in Nat
  BY DesksAssumption DEF Consents!PrivacyAssumption
<1>3. Consents!NoRequest \in [kind: Kinds \cup {Nothing}, status: Consents!Statuses]
  BY DEF Consents!NoRequest, Consents!Statuses
<1>4. Standing
  BY DEF Consents!Init, Standing
<1>5. v2 \in [Types -> Seq(Consents!Answers)] /\ \A t \in Types : Len(v2[t]) <= MaxTrail
  BY <1>2 DEF Consents!Init
<1>6. Consents!Idle \in Consents!CallType
  BY <1>1 DEF Typed
<1>7. v4 \in [Calls -> Consents!CallType] /\ \A c \in Calls : v4[c] = Consents!Idle
  BY <1>6 DEF Consents!Init
<1>8. \A c \in Calls : Typed(v4[c])
  BY <1>1, <1>7
<1>9. /\ v1 \in [Types -> Consents!Answers \cup {"unset"}]
      /\ v3 \in [Requests -> [kind: Kinds \cup {Nothing}, status: Consents!Statuses]]
  BY <1>3 DEF Consents!Init
<1> QED BY <1>4, <1>5, <1>7, <1>8, <1>9 DEF ConsentsOK

\* A call moves and no answer with it.
LEMMA ConsentsMove ==
  ASSUME ConsentsOK, NEW c \in Calls, NEW rec, Typed(rec), v4' = [v4 EXCEPT ![c] = rec],
         UNCHANGED <<v1, v2>>, v3' \in [Requests -> [kind: Kinds \cup {Nothing}, status: Consents!Statuses]],
         v4[c].pc # "history"
  PROVE  ConsentsOK'
<1>1. v4'[c] = rec /\ \A o \in Calls \ {c} : v4'[o] = v4[o]
  BY DEF ConsentsOK
<1>2. \A o \in Calls, t \in Types : Bears(o, t) => Bears(o, t)'
  BY <1>1 DEF Bears
<1>3. \A t \in Types : InTrail(t) => InTrail(t)'
  BY DEF InTrail
<1>4. Standing'
  BY <1>2, <1>3 DEF ConsentsOK, Standing
<1>5. \A o \in Calls : Typed(v4[o])'
  BY <1>1 DEF ConsentsOK, Typed
<1>6. v4' \in [Calls -> Consents!CallType]
  BY DEF ConsentsOK, Typed
<1> QED BY <1>4, <1>5, <1>6 DEF ConsentsOK

LEMMA ConsentsStep == ConsentsOK /\ Consents!Next => ConsentsOK'
<1> SUFFICES ASSUME ConsentsOK, Consents!Next PROVE ConsentsOK'
  OBVIOUS
<1>1. \A c \in Calls : Typed(v4[c])
  BY DEF ConsentsOK
<1>2. Typed(Consents!Idle)
  BY DEF Typed, Consents!Idle, Consents!CallType, Consents!Pc, Consents!AllOps, Consents!Answers
<1>3. v3 \in [Requests -> [kind: Kinds \cup {Nothing}, status: Consents!Statuses]]
  BY DEF ConsentsOK
<1>4. Asked \subseteq Types /\ MaxTrail \in Nat
  BY DesksAssumption DEF Consents!PrivacyAssumption
<1>5. ASSUME NEW c \in Calls, NEW fs \in SUBSET Asked, Consents!SignUpStart(c, fs) PROVE ConsentsOK'
  <2> DEFINE rec == [[Consents!Idle EXCEPT !.pc = "choose", !.left = fs] EXCEPT !.op = "signup"]
  <2>1. Typed(rec)
    BY DEF Typed, Consents!Idle, Consents!CallType, Consents!Pc, Consents!AllOps, Consents!Answers
  <2>2. v4[c].pc = "idle" /\ v4' = [v4 EXCEPT ![c] = rec] /\ UNCHANGED <<v1, v2, v3>>
    BY <1>5 DEF Consents!SignUpStart, Consents!Start, Consents!At
  <2> HIDE DEF rec
  <2> QED BY <1>3, <2>1, <2>2, ConsentsMove
<1>6. ASSUME NEW c \in Calls, NEW t \in Types, NEW a \in Consents!Answers, Consents!SignUpNext(c, t, a) PROVE ConsentsOK'
  <2> DEFINE rest == v4[c].left \ {t}
             rec == [v4[c] EXCEPT !.pc = "state", !.type = t, !.answer = a, !.left = rest]
  <2>1. Typed(rec)
    BY <1>1 DEF Typed, Consents!CallType, Consents!Pc
  <2>2. v4[c].pc = "choose" /\ v4' = [v4 EXCEPT ![c] = rec] /\ UNCHANGED <<v1, v2, v3>>
    <3>1. v4' = [v4 EXCEPT ![c].pc = "state", ![c].type = t, ![c].answer = a, ![c].left = rest]
      BY <1>1, <1>6 DEF Consents!SignUpNext, ConsentsOK, Typed, Consents!CallType
    <3> HIDE DEF rest
    <3> QED BY <1>1, <1>6, <3>1 DEF Consents!SignUpNext, Consents!At, ConsentsOK, Typed, Consents!CallType
  <2> HIDE DEF rec
  <2> QED BY <1>3, <2>1, <2>2, ConsentsMove
<1>7. ASSUME NEW c \in Calls, Consents!SignUpEnd(c) PROVE ConsentsOK'
  BY <1>2, <1>3, <1>7, ConsentsMove DEF Consents!SignUpEnd, Consents!At, Consents!End
<1>8. ASSUME NEW c \in Calls, NEW t \in Types, NEW a \in Consents!Answers, Consents!ToggleStart(c, t, a) PROVE ConsentsOK'
  <2> DEFINE rec == [[Consents!Idle EXCEPT !.pc = "state", !.type = t, !.answer = a] EXCEPT !.op = "consent"]
  <2>1. Typed(rec)
    BY DEF Typed, Consents!Idle, Consents!CallType, Consents!Pc, Consents!AllOps
  <2>2. v4[c].pc = "idle" /\ v4' = [v4 EXCEPT ![c] = rec] /\ UNCHANGED <<v1, v2, v3>>
    BY <1>8 DEF Consents!ToggleStart, Consents!Start, Consents!At
  <2> HIDE DEF rec
  <2> QED BY <1>3, <2>1, <2>2, ConsentsMove
<1>9. ASSUME NEW c \in Calls, Consents!WriteState(c) PROVE ConsentsOK'
  <2>0. PICK k \in Types : k = v4[c].type
    BY <1>1, <1>9 DEF Consents!WriteState, Consents!At, Typed
  <2> DEFINE rec == [v4[c] EXCEPT !.pc = "history"]
  <2>1. /\ v4[c].pc = "state" /\ v1' = [v1 EXCEPT ![k] = v4[c].answer] /\ v4' = [v4 EXCEPT ![c] = rec]
        /\ UNCHANGED <<v2, v3>>
    BY <1>9, <2>0 DEF Consents!WriteState, Consents!At
  <2>2. k \in Types /\ v4[c].answer \in Consents!Answers
    BY <1>1, <2>1 DEF Typed, Consents!CallType
  <2>3. Typed(rec) /\ rec.pc = "history" /\ rec.type = k /\ rec.answer = v4[c].answer
    BY <1>1, <2>0, <2>2 DEF Typed, Consents!CallType, Consents!Pc
  <2> HIDE DEF rec
  <2>4. v4'[c] = rec /\ \A o \in Calls \ {c} : v4'[o] = v4[o]
    BY <2>1 DEF ConsentsOK
  <2>5. v1'[k] = v4[c].answer /\ \A t \in Types \ {k} : v1'[t] = v1[t]
    BY <2>1, <2>2 DEF ConsentsOK
  <2>6. Bears(c, k)'
    BY <2>3, <2>4, <2>5 DEF Bears
  <2>7. \A t \in Types \ {k} : /\ InTrail(t) => InTrail(t)'
                               /\ \A o \in Calls : Bears(o, t) => Bears(o, t)'
    BY <2>1, <2>4, <2>5 DEF InTrail, Bears
  <2>8. Standing'
    <3> SUFFICES ASSUME NEW t \in Types, v1'[t] # "unset" PROVE InTrail(t)' \/ \E o \in Calls : Bears(o, t)'
      BY DEF Standing
    <3>1. CASE t = k
      BY <2>6, <3>1
    <3>2. CASE t # k
      BY <2>5, <2>7, <3>2 DEF ConsentsOK, Standing
    <3> QED BY <3>1, <3>2
  <2>9. \A o \in Calls : Typed(v4[o])'
    BY <1>1, <2>3, <2>4 DEF Typed
  <2>10. v1' \in [Types -> Consents!Answers \cup {"unset"}]
    BY <2>1, <2>2 DEF ConsentsOK
  <2> QED BY <2>1, <2>3, <2>8, <2>9, <2>10 DEF ConsentsOK, Typed
<1>10. ASSUME NEW c \in Calls, Consents!WriteHistory(c) PROVE ConsentsOK'
  <2>0. PICK k \in Types, a \in Consents!Answers : k = v4[c].type /\ a = v4[c].answer
    BY <1>1, <1>10 DEF Consents!WriteHistory, Consents!At, Typed, Consents!CallType
  <2> DEFINE over == [v4[c] EXCEPT !.pc = "choose", !.type = Nothing]
  <2>1. /\ v4[c].pc = "history" /\ v2' = [v2 EXCEPT ![k] = v2[k] \o <<a>>] /\ UNCHANGED <<v1, v3>>
        /\ Len(v2[k]) < MaxTrail
    BY <1>10, <2>0 DEF Consents!WriteHistory, Consents!At, Consents!RowOf
  <2>2. k \in Types /\ a \in Consents!Answers
    BY <1>1, <2>1 DEF Typed, Consents!CallType
  <2>3. PICK rec \in {over, Consents!Idle} : v4' = [v4 EXCEPT ![c] = rec]
    <3>1. v4' = [v4 EXCEPT ![c].pc = "choose", ![c].type = Nothing] \/ v4' = [v4 EXCEPT ![c] = Consents!Idle]
      BY <1>10 DEF Consents!WriteHistory, Consents!Written, Consents!End
    <3> QED BY <1>1, <3>1 DEF ConsentsOK, Typed, Consents!CallType
  <2>4. Typed(rec)
    <3>1. Typed(over)
      BY <1>1 DEF Typed, Consents!CallType, Consents!Pc
    <3> QED BY <1>2, <3>1
  <2>5. v4'[c] = rec /\ \A o \in Calls \ {c} : v4'[o] = v4[o]
    BY <2>3 DEF ConsentsOK
  <2>6. /\ v2[k] \in Seq(Consents!Answers) /\ <<a>> \in Seq(Consents!Answers) /\ Len(<<a>>) = 1 /\ <<a>>[1] = a
        /\ Len(v2[k]) \in Nat
    BY <2>2 DEF ConsentsOK
  <2>7. /\ v2'[k] \in Seq(Consents!Answers) /\ Len(v2'[k]) = Len(v2[k]) + 1
        /\ \A i \in 1..Len(v2[k]) : v2'[k][i] = v2[k][i]
        /\ v2'[k][Len(v2[k]) + 1] = a
    <3>1. v2'[k] = v2[k] \o <<a>>
      BY <2>1, <2>2 DEF ConsentsOK
    <3> QED BY <2>6, <3>1, ConcatProperties
  <2>8. DOMAIN v2[k] = 1..Len(v2[k]) /\ DOMAIN v2'[k] = 1..(Len(v2[k]) + 1)
    BY <2>6, <2>7
  <2>9. \A t \in Types \ {k} : v2'[t] = v2[t]
    BY <2>1 DEF ConsentsOK
  <2>10. \A t \in Types : InTrail(t) => InTrail(t)'
    <3> SUFFICES ASSUME NEW t \in Types, InTrail(t) PROVE InTrail(t)'
      OBVIOUS
    <3>1. CASE t = k
      <4>1. PICK i \in 1..Len(v2[k]) : v2[k][i] = v1[k]
        BY <2>8, <3>1 DEF InTrail
      <4>2. v2'[k][i] = v1'[k] /\ i \in DOMAIN v2'[k]
        BY <2>1, <2>6, <2>7, <2>8, <4>1
      <4> QED BY <3>1, <4>2 DEF InTrail
    <3>2. CASE t # k
      BY <2>1, <2>9, <3>2 DEF InTrail
    <3> QED BY <3>1, <3>2
  <2>11. \A t \in Types, o \in Calls : Bears(o, t) => InTrail(t)' \/ Bears(o, t)'
    <3> SUFFICES ASSUME NEW t \in Types, NEW o \in Calls, Bears(o, t) PROVE InTrail(t)' \/ Bears(o, t)'
      OBVIOUS
    <3>1. CASE o = c
      <4>1. t = k /\ v1'[t] = a /\ Len(v2[k]) + 1 \in DOMAIN v2'[k]
        BY <2>0, <2>1, <2>6, <2>8, <3>1 DEF Bears
      <4> QED BY <2>7, <4>1 DEF InTrail
    <3>2. CASE o # c
      BY <2>1, <2>5, <3>2 DEF Bears
    <3> QED BY <3>1, <3>2
  <2>12. Standing'
    BY <2>1, <2>10, <2>11 DEF ConsentsOK, Standing
  <2>13. \A o \in Calls : Typed(v4[o])'
    BY <1>1, <2>4, <2>5 DEF Typed
  <2>14. v2' \in [Types -> Seq(Consents!Answers)]
    BY <2>1, <2>2, <2>7, <2>9 DEF ConsentsOK
  <2>15. \A t \in Types : Len(v2'[t]) <= MaxTrail
    BY <1>4, <2>1, <2>6, <2>7, <2>9 DEF ConsentsOK
  <2> QED BY <2>1, <2>3, <2>4, <2>12, <2>13, <2>14, <2>15 DEF ConsentsOK, Typed
<1>11. ASSUME NEW c \in Calls, NEW k \in Kinds, Consents!RequestStart(c, k) PROVE ConsentsOK'
  <2> DEFINE rec == [[Consents!Idle EXCEPT !.pc = "insert", !.kind = k] EXCEPT !.op = "request"]
  <2>1. Typed(rec)
    BY DEF Typed, Consents!Idle, Consents!CallType, Consents!Pc, Consents!AllOps, Consents!Answers
  <2>2. v4[c].pc = "idle" /\ v4' = [v4 EXCEPT ![c] = rec] /\ UNCHANGED <<v1, v2, v3>>
    BY <1>11 DEF Consents!RequestStart, Consents!Start, Consents!At
  <2> HIDE DEF rec
  <2> QED BY <1>3, <2>1, <2>2, ConsentsMove
<1>12. ASSUME NEW c \in Calls, NEW r \in Requests, Consents!RequestInsert(c, r) PROVE ConsentsOK'
  <2>1. v4[c].kind \in Kinds \cup {Nothing}
    BY <1>1 DEF Typed, Consents!CallType
  <2>2. v3' \in [Requests -> [kind: Kinds \cup {Nothing}, status: Consents!Statuses]]
    BY <1>3, <1>12, <2>1 DEF Consents!RequestInsert
  <2> QED BY <1>2, <1>12, <2>2, ConsentsMove DEF Consents!RequestInsert, Consents!At, Consents!End
<1>13. ASSUME NEW r \in Requests, NEW s \in Consents!Statuses, Consents!SetRequestStatus(r, s) PROVE ConsentsOK'
  <2>1. v3' \in [Requests -> [kind: Kinds \cup {Nothing}, status: Consents!Statuses]]
    BY <1>3, <1>13 DEF Consents!SetRequestStatus
  <2> QED BY <1>13, <2>1 DEF Consents!SetRequestStatus, ConsentsOK, Typed, Standing, InTrail, Bears
<1> QED BY <1>5, <1>6, <1>7, <1>8, <1>9, <1>10, <1>11, <1>12, <1>13
       DEF Consents!Next, Consents!Step, Consents!HistoryFails

LEMMA ConsentsStay == ConsentsOK /\ UNCHANGED atDesk => ConsentsOK'
<1> SUFFICES ASSUME ConsentsOK, UNCHANGED atDesk PROVE ConsentsOK'
  OBVIOUS
<1> QED BY DEF atDesk, ConsentsOK, Typed, Standing, InTrail, Bears

\* While no write fails, a consent is one its history holds once no answer is on
\* its way, whoever wrote it and however many wrote at once (consents.py:19).
THEOREM ConsentsTraced == OfficeSpec => []ConsentTraced
<1> DEFINE Inv == desk = "consents" => ConsentsOK
<1>1. OfficeInit => Inv
  BY ConsentsInit DEF OfficeInit
<1>2. Inv /\ [OfficeNext]_officeVars => Inv'
  BY ConsentsStep, ConsentsStay, DeskMoves
<1>3. Inv => ConsentTraced
  BY DEF ConsentTraced, Consents!ConsentTraced, ConsentsOK, Standing, InTrail, Bears
<1> QED BY <1>1, <1>2, <1>3, PTL DEF OfficeSpec
-----------------------------------------------------------------------------
\* Saved cards: held, charged, began, mishap and asking are v1 to v5.
WalletOK == Wallet!TypeOK /\ Wallet!CardsInv

AskType == [pc: Wallet!Pcs, op: {"save", "choose", "detach"}, card: CardIds \cup {Nothing},
            flag: BOOLEAN, seen: SUBSET CardIds, default: CardIds \cup {Nothing}]

\* What a call must satisfy where it stands, as CardsInv says it, with these
\* cards saved and this mishap behind.
Ours(cards) == {k \in CardIds : cards[k] = "ours"}
CardCall(call, saved, mishap) ==
  /\ call \in AskType
  /\ call.pc # "idle" => call.card \in CardIds
  /\ call.pc = "idle" => call.op = "save"
  /\ call.pc \in {"de_list", "de_detach", "de_next"} => call.op = "detach"
  /\ call.pc = "de_detach" =>
       call.seen \ {call.card} # {} /\ (mishap # "taken" => call.seen \subseteq saved)
Names(call) == call.op = "detach" /\ call.pc \in {"de_next", "ch_attach", "ch_default"}

LEMMA WalletIdle == /\ Wallet!Idle \in AskType /\ Wallet!Idle.op = "save" /\ ~Names(Wallet!Idle)
                    /\ \A s, m : CardCall(Wallet!Idle, s, m)
  BY DEF Wallet!Idle, AskType, Wallet!Pcs, CardCall, Names

LEMMA WalletInit == Wallet!Init => WalletOK
<1> SUFFICES ASSUME Wallet!Init PROVE WalletOK
  OBVIOUS
<1>1. Wallet!TypeOK
  BY WalletIdle DEF Wallet!Init, Wallet!TypeOK, Wallet!Holder, Wallet!Mishaps, AskType
<1>2. Wallet!Idle.pc = "idle"
  BY DEF Wallet!Idle
<1>3. Wallet!CardsInv
  BY <1>2, WalletIdle DEF Wallet!Init, Wallet!CardsInv, Wallet!At
<1> QED BY <1>1, <1>3 DEF WalletOK

LEMMA WalletFacts ==
  ASSUME WalletOK
  PROVE  /\ v1 \in [CardIds -> Wallet!Holder] /\ v2 \in CardIds \cup {Nothing}
         /\ v3 \in BOOLEAN /\ v4 \in Wallet!Mishaps /\ v5 \in [Calls -> AskType]
         /\ v2 # Nothing => v2 \in Ours(v1)
         /\ v3 /\ v4 # "taken" => Ours(v1) # {}
         /\ v3 /\ v4 = "none" /\ v2 = Nothing => \E c \in Calls : Names(v5[c])
         /\ \A c, d \in Calls : v5[c].op = "detach" /\ v5[d].op = "detach" => c = d
         /\ \A c \in Calls : CardCall(v5[c], Ours(v1), v4)
<1>1. Wallet!Saved = Ours(v1)
  BY DEF Wallet!Saved, Ours
<1>2. \A c \in Calls : Wallet!Naming(c) <=> Names(v5[c])
  BY DEF Wallet!Naming, Wallet!At, Names
<1> QED BY <1>1, <1>2 DEF WalletOK, Wallet!TypeOK, AskType, Wallet!CardsInv, Wallet!At, Wallet!Card, CardCall

\* The facts, put together again.
LEMMA WalletAgain ==
  ASSUME v1' \in [CardIds -> Wallet!Holder], v2' \in CardIds \cup {Nothing},
         v3' \in BOOLEAN, v4' \in Wallet!Mishaps, v5' \in [Calls -> AskType],
         v2' # Nothing => v2' \in Ours(v1'),
         v3' /\ v4' # "taken" => Ours(v1') # {},
         v3' /\ v4' = "none" /\ v2' = Nothing => \E c \in Calls : Names(v5'[c]),
         \A c, d \in Calls : v5'[c].op = "detach" /\ v5'[d].op = "detach" => c = d,
         \A c \in Calls : CardCall(v5'[c], Ours(v1'), v4')
  PROVE  WalletOK'
<1>1. Wallet!Saved' = Ours(v1')
  BY DEF Wallet!Saved, Ours
<1>2. \A c \in Calls : Wallet!Naming(c)' <=> Names(v5'[c])
  BY DEF Wallet!Naming, Wallet!At, Names
<1>3. Wallet!TypeOK'
  BY DEF Wallet!TypeOK, AskType
<1>4. Wallet!CardsInv'
  BY <1>1, <1>2 DEF Wallet!CardsInv, Wallet!At, Wallet!Card, CardCall
<1> QED BY <1>3, <1>4 DEF WalletOK

\* A call moves to rec: only a removal takes a card off, one call removes, and the
\* default is gone only while the next is being named.
LEMMA WalletMoves ==
  ASSUME WalletOK, NEW c \in Calls, NEW rec, CardCall(rec, Ours(v1'), v4'), v5' = [v5 EXCEPT ![c] = rec],
         v1' \in [CardIds -> Wallet!Holder], v2' \in CardIds \cup {Nothing},
         v3' \in BOOLEAN, v4' \in Wallet!Mishaps, v4' = "taken" <=> v4 = "taken",
         Ours(v1) \subseteq Ours(v1') \/ v5[c].op = "detach",
         rec.op = "detach" => v5[c].op = "detach" \/ \A o \in Calls : v5[o].op # "detach",
         v2' # Nothing => v2' \in Ours(v1'),
         v3' /\ v4' # "taken" => Ours(v1') # {},
         v3' /\ v4' = "none" /\ v2' = Nothing =>
           Names(rec) \/ (v3 /\ v4 = "none" /\ v2 = Nothing /\ ~Names(v5[c]))
  PROVE  WalletOK'
<1>1. v5'[c] = rec /\ (\A o \in Calls \ {c} : v5'[o] = v5[o]) /\ rec \in AskType
  BY WalletFacts DEF CardCall
<1>2. v5' \in [Calls -> AskType]
  BY <1>1, WalletFacts
<1>3. \A o, d \in Calls : v5'[o].op = "detach" /\ v5'[d].op = "detach" => o = d
  BY <1>1, WalletFacts
<1>4. \A o \in Calls : CardCall(v5'[o], Ours(v1'), v4')
  <2> SUFFICES ASSUME NEW o \in Calls, o # c PROVE CardCall(v5[o], Ours(v1'), v4')
    BY <1>1
  <2>1. CardCall(v5[o], Ours(v1), v4)
    BY WalletFacts
  <2>2. v5[o].pc = "de_detach" => Ours(v1) \subseteq Ours(v1')
    BY <2>1, WalletFacts DEF CardCall
  <2> QED BY <2>1, <2>2 DEF CardCall
<1>5. v3' /\ v4' = "none" /\ v2' = Nothing => \E o \in Calls : Names(v5'[o])
  BY <1>1, WalletFacts
<1> QED BY <1>2, <1>3, <1>4, <1>5, WalletAgain

\* A saved card is named, and the call is over.
LEMMA WalletNames ==
  ASSUME WalletOK, NEW c \in Calls, NEW k, Wallet!NameDefault(k), Wallet!End(c), UNCHANGED <<v1, v4>>
  PROVE  WalletOK'
<1>1. v2' = k /\ v3' = TRUE /\ k \in Ours(v1)
  BY DEF Wallet!NameDefault, Wallet!Saved, Ours
<1>2. Nothing \notin CardIds /\ k \in CardIds
  BY <1>1, DesksAssumption DEF Wallet!CardsAssumption, Ours
<1>3. v5' = [v5 EXCEPT ![c] = Wallet!Idle]
  BY DEF Wallet!End
<1> QED BY <1>1, <1>2, <1>3, WalletFacts, WalletMoves, WalletIdle

\* A call begins: no other removal is under way when it is one.
LEMMA WalletStarts ==
  ASSUME WalletOK, NEW c \in Calls, NEW op \in {"save", "choose", "detach"}, NEW pc, NEW k \in CardIds,
         NEW f \in BOOLEAN, NEW d \in CardIds \cup {Nothing},
         pc \in {"sv_attach", "ch_attach", "ch_default", "de_list"}, pc = "de_list" => op = "detach",
         Wallet!Start(c, op, pc, k, f, d), UNCHANGED <<v1, v2, v3, v4>>
  PROVE  WalletOK'
<1> DEFINE rec == [pc |-> pc, op |-> op, card |-> k, flag |-> f, seen |-> {}, default |-> d]
<1>1. /\ v5[c].pc = "idle" /\ v5' = [v5 EXCEPT ![c] = rec]
      /\ op = "detach" => \A o \in Calls : v5[o].pc = "idle" \/ v5[o].op # "detach"
  BY DEF Wallet!Start, Wallet!At
<1>2. op = "detach" => \A o \in Calls : v5[o].op # "detach"
  BY <1>1, WalletFacts DEF CardCall
<1>3. CardCall(rec, Ours(v1'), v4') /\ rec.op = op
  BY DEF CardCall, AskType, Wallet!Pcs
<1>4. ~Names(v5[c])
  BY <1>1 DEF Names
<1> HIDE DEF rec
<1> QED BY <1>1, <1>2, <1>3, <1>4, WalletFacts, WalletMoves

LEMMA WalletStep == WalletOK /\ Wallet!Next => WalletOK'
<1> SUFFICES ASSUME WalletOK, Wallet!Next PROVE WalletOK'
  OBVIOUS
<1>1. /\ v1 \in [CardIds -> Wallet!Holder] /\ v2 \in CardIds \cup {Nothing}
      /\ v3 \in BOOLEAN /\ v4 \in Wallet!Mishaps /\ v5 \in [Calls -> AskType]
      /\ v2 # Nothing => v2 \in Ours(v1)
      /\ v3 /\ v4 # "taken" => Ours(v1) # {}
      /\ v3 /\ v4 = "none" /\ v2 = Nothing => \E c \in Calls : Names(v5[c])
      /\ \A c, d \in Calls : v5[c].op = "detach" /\ v5[d].op = "detach" => c = d
      /\ \A c \in Calls : CardCall(v5[c], Ours(v1), v4) /\ v5[c] \in AskType
  BY WalletFacts
<1>2. Nothing \notin CardIds /\ Wallet!Holder = {"ours", "theirs", "nobody"}
      /\ Wallet!Mishaps = {"none", "unnamed", "taken"}
  BY DesksAssumption DEF Wallet!CardsAssumption, Wallet!Holder, Wallet!Mishaps
<1>3. Wallet!Saved = Ours(v1)
  BY DEF Wallet!Saved, Ours
<1>4. ASSUME NEW c \in Calls, NEW k \in CardIds, NEW f \in BOOLEAN, Wallet!SaveStart(c, k, f) PROVE WalletOK'
  BY <1>4, WalletStarts DEF Wallet!SaveStart
<1>5. ASSUME NEW c \in Calls, NEW k \in CardIds, Wallet!ChooseStart(c, k) PROVE WalletOK'
  <2>1. Wallet!ToName(k) \in {"ch_default", "ch_attach"}
    BY DEF Wallet!ToName
  <2> QED BY <1>5, <2>1, WalletStarts DEF Wallet!ChooseStart
<1>6. ASSUME NEW c \in Calls, Wallet!SaveAttach(c) \/ Wallet!ChooseAttach(c) PROVE WalletOK'
  <2>1. PICK k : k = v5[c].card
    OBVIOUS
  <2>2. v5[c].pc \in {"sv_attach", "ch_attach"} /\ v1' = [v1 EXCEPT ![k] = "ours"] /\ UNCHANGED <<v2, v3, v4>>
    BY <1>6, <2>1 DEF Wallet!SaveAttach, Wallet!ChooseAttach, Wallet!Attach, Wallet!At, Wallet!Card
  <2>3. k \in CardIds
    BY <1>1, <2>1, <2>2 DEF CardCall
  <2>4. /\ v1' \in [CardIds -> Wallet!Holder]
        /\ Ours(v1) \subseteq Ours(v1') /\ k \in Ours(v1')
    BY <1>1, <1>2, <2>2, <2>3 DEF Ours
  <2>5. PICK rec \in {Wallet!Idle, [v5[c] EXCEPT !.pc = "sv_default"], [v5[c] EXCEPT !.pc = "ch_default"]} :
          v5' = [v5 EXCEPT ![c] = rec] /\ (v5[c].pc = "ch_attach" => rec = [v5[c] EXCEPT !.pc = "ch_default"])
    BY <1>6 DEF Wallet!SaveAttach, Wallet!ChooseAttach, Wallet!Goto, Wallet!End, Wallet!At
  <2>6. /\ CardCall(rec, Ours(v1'), v4') /\ (rec.op = "detach" => v5[c].op = "detach")
        /\ Names(v5[c]) => Names(rec)
    <3>1. CASE rec = Wallet!Idle
      <4>1. v5[c].pc = "sv_attach"
        BY <2>2, <2>5, <3>1 DEF Wallet!Idle
      <4> QED BY <3>1, <4>1, WalletIdle DEF Names
    <3>2. CASE rec # Wallet!Idle
      <4>1. PICK pc \in {"sv_default", "ch_default"} :
              rec = [v5[c] EXCEPT !.pc = pc] /\ (v5[c].pc = "ch_attach" => pc = "ch_default")
        BY <2>5, <3>2
      <4>2. rec \in AskType /\ rec.pc = pc /\ rec.card = k /\ rec.op = v5[c].op
        BY <1>1, <2>1, <4>1 DEF AskType, Wallet!Pcs
      <4> QED BY <2>2, <2>3, <4>1, <4>2 DEF CardCall, Names
    <3> QED BY <3>1, <3>2
  <2> QED BY <1>1, <2>2, <2>4, <2>5, <2>6, WalletMoves
<1>7. ASSUME NEW c \in Calls, Wallet!SaveDefault(c) \/ Wallet!ChooseDefault(c) PROVE WalletOK'
  BY <1>7, WalletNames DEF Wallet!SaveDefault, Wallet!ChooseDefault
<1>8. ASSUME NEW c \in Calls, NEW k \in CardIds, Wallet!DetachStart(c, k) PROVE WalletOK'
  BY <1>1, <1>8, WalletStarts DEF Wallet!DetachStart
<1>9. ASSUME NEW c \in Calls, Wallet!DetachList(c) PROVE WalletOK'
  <2>1. v5[c].pc = "de_list" /\ UNCHANGED <<v1, v2, v3, v4>> /\ ~Names(v5[c])
    BY <1>9 DEF Wallet!DetachList, Wallet!At, Names
  <2>2. CASE Wallet!MayDetach(Ours(v1))
    <3> DEFINE rec == [v5[c] EXCEPT !.pc = "de_detach", !.seen = Ours(v1)]
    <3>1. v5' = [v5 EXCEPT ![c] = rec]
      BY <1>3, <1>9, <2>2 DEF Wallet!DetachList
    <3>2. Ours(v1) \subseteq CardIds /\ v5[c].op = "detach" /\ v5[c].card \in CardIds
      BY <1>1, <2>1 DEF Ours, CardCall
    <3>6. v5[c] \in AskType
      BY <1>1
    <3>7. rec \in AskType
      BY <3>2, <3>6 DEF AskType, Wallet!Pcs
    <3>3. rec.pc = "de_detach" /\ rec.seen = Ours(v1) /\ rec.card = v5[c].card /\ rec.op = "detach"
      BY <3>2, <3>6 DEF AskType
    <3>4. Ours(v1) \ {v5[c].card} # {}
      <4> SUFFICES ASSUME Ours(v1) = {} \/ Ours(v1) = {v5[c].card} PROVE FALSE
        OBVIOUS
      <4>1. Wallet!Cardinality(Ours(v1)) = Cardinality(Ours(v1))
        BY DEF Wallet!Cardinality, Cardinality
      <4>2. Cardinality(Ours(v1)) > 1
        BY <2>2, <4>1 DEF Wallet!MayDetach
      <4>3. Cardinality(Ours(v1)) \in {0, 1}
        BY FS_EmptySet, FS_Singleton
      <4> QED BY <4>2, <4>3
    <3> HIDE DEF rec
    <3>5. CardCall(rec, Ours(v1'), v4')
      BY <2>1, <3>2, <3>3, <3>4, <3>7 DEF CardCall
    <3>8. /\ v1' \in [CardIds -> Wallet!Holder] /\ v2' \in CardIds \cup {Nothing}
          /\ v3' \in BOOLEAN /\ v4' \in Wallet!Mishaps /\ (v4' = "taken" <=> v4 = "taken")
          /\ Ours(v1') = Ours(v1)
          /\ v2' # Nothing => v2' \in Ours(v1')
          /\ v3' /\ v4' # "taken" => Ours(v1') # {}
          /\ v3' /\ v4' = "none" /\ v2' = Nothing => v3 /\ v4 = "none" /\ v2 = Nothing
      BY <1>1, <2>1
    <3> QED BY <2>1, <3>1, <3>2, <3>3, <3>5, <3>8, WalletMoves
  <2>3. CASE ~Wallet!MayDetach(Ours(v1))
    <3>1. v5' = [v5 EXCEPT ![c] = Wallet!Idle]
      BY <1>3, <1>9, <2>3 DEF Wallet!DetachList, Wallet!End
    <3> QED BY <1>1, <2>1, <3>1, WalletMoves, WalletIdle
  <2> QED BY <2>2, <2>3
<1>10. ASSUME NEW c \in Calls, Wallet!DetachCard(c) PROVE WalletOK'
  <2>1. PICK k : k = v5[c].card
    OBVIOUS
  <2> DEFINE over == [v5[c] EXCEPT !.pc = "de_next"]
             rec == IF v5[c].default = k THEN over ELSE Wallet!Idle
  <2>2. /\ v5[c].pc = "de_detach" /\ v1' = [v1 EXCEPT ![k] = "nobody"] /\ v3' = v3
        /\ v2' = IF v2 = k THEN Nothing ELSE v2
        /\ v5' = [v5 EXCEPT ![c] = rec]
        /\ IF v2 = k /\ v5[c].default # k THEN v4' = IF v4 = "none" THEN "unnamed" ELSE v4 ELSE v4' = v4
    BY <1>10, <2>1 DEF Wallet!DetachCard, Wallet!Detach, Wallet!At, Wallet!Card, Wallet!TakesOver, Wallet!Goto,
                       Wallet!End, Wallet!Unnamed
  <2>3. /\ k \in CardIds /\ v5[c].seen \ {k} # {} /\ v5[c].op = "detach" /\ ~Names(v5[c])
        /\ v4 # "taken" => v5[c].seen \subseteq Ours(v1)
    BY <1>1, <2>1, <2>2 DEF CardCall, Names
  <2>4. /\ v1' \in [CardIds -> Wallet!Holder] /\ Ours(v1') = Ours(v1) \ {k}
    BY <1>1, <1>2, <2>2, <2>3 DEF Ours
  <2>5. over \in AskType /\ over.pc = "de_next" /\ over.card = k /\ over.op = "detach"
    BY <1>1, <2>1, <2>3 DEF AskType, Wallet!Pcs
  <2> HIDE DEF over
  <2>6. CardCall(over, Ours(v1'), v4') /\ Names(over)
    BY <2>3, <2>5 DEF CardCall, Names
  <2>7. CardCall(rec, Ours(v1'), v4') /\ (v5[c].default = k => Names(rec))
    BY <2>6, WalletIdle
  <2> HIDE DEF rec
  <2>8. v3' /\ v4' = "none" /\ v2' = Nothing => Names(rec)
    <3> SUFFICES ASSUME v3', v4' = "none", v2' = Nothing PROVE v5[c].default = k
      BY <2>7
    <3>1. v4 = "none"
      BY <1>1, <1>2, <2>2
    <3>2. v2 # Nothing
      <4> SUFFICES ASSUME v2 = Nothing PROVE FALSE
        OBVIOUS
      <4>1. PICK o \in Calls : Names(v5[o])
        BY <1>1, <2>2, <3>1
      <4>2. o = c
        BY <1>1, <2>3, <4>1 DEF Names
      <4> QED BY <2>3, <4>1, <4>2
    <3> QED BY <2>2, <3>1, <3>2
  <2>9. v4' \in Wallet!Mishaps /\ (v4' = "taken" <=> v4 = "taken")
    BY <1>1, <1>2, <2>2
  <2>10. v2' \in CardIds \cup {Nothing} /\ (v2' # Nothing => v2' \in Ours(v1'))
    BY <1>1, <2>2, <2>4
  <2>11. v4' # "taken" => Ours(v1') # {}
    BY <2>3, <2>4, <2>9
  <2> QED BY <1>1, <2>2, <2>3, <2>4, <2>7, <2>8, <2>9, <2>10, <2>11, WalletMoves
<1>11. ASSUME NEW c \in Calls, Wallet!DetachNext(c) PROVE WalletOK'
  <2>1. PICK k \in v5[c].seen \ {v5[c].card} :
          v5' = [v5 EXCEPT ![c] = [v5[c] EXCEPT !.pc = Wallet!ToName(k), !.card = k, !.seen = {}, !.default = Nothing]]
    BY <1>11 DEF Wallet!DetachNext, Wallet!Card
  <2> DEFINE rec == [v5[c] EXCEPT !.pc = Wallet!ToName(k), !.card = k, !.seen = {}, !.default = Nothing]
  <2>2. v5[c].pc = "de_next" /\ UNCHANGED <<v1, v2, v3, v4>>
    BY <1>11 DEF Wallet!DetachNext, Wallet!At
  <2>3. k \in CardIds /\ v5[c].op = "detach" /\ Wallet!ToName(k) \in {"ch_attach", "ch_default"}
    BY <1>1, <2>2 DEF AskType, CardCall, Wallet!ToName
  <2>7. v5[c] \in AskType
    BY <1>1
  <2>8. rec \in AskType
    BY <2>3, <2>7 DEF AskType, Wallet!Pcs
  <2>4. rec.pc \in {"ch_attach", "ch_default"} /\ rec.card = k /\ rec.op = "detach"
    BY <2>3, <2>7 DEF AskType
  <2> HIDE DEF rec
  <2>5. CardCall(rec, Ours(v1'), v4') /\ Names(rec)
    BY <2>2, <2>3, <2>4, <2>8 DEF CardCall, Names
  <2>6. v5' = [v5 EXCEPT ![c] = rec]
    BY <2>1 DEF rec
  <2>9. /\ v1' \in [CardIds -> Wallet!Holder] /\ v2' \in CardIds \cup {Nothing}
        /\ v3' \in BOOLEAN /\ v4' \in Wallet!Mishaps /\ (v4' = "taken" <=> v4 = "taken")
        /\ Ours(v1') = Ours(v1)
        /\ v2' # Nothing => v2' \in Ours(v1')
        /\ v3' /\ v4' # "taken" => Ours(v1') # {}
        /\ v3' /\ v4' = "none" /\ v2' = Nothing => v3 /\ v4 = "none" /\ v2 = Nothing
    BY <1>1, <2>2
  <2> QED BY <2>3, <2>4, <2>5, <2>6, <2>9, WalletMoves
<1>12. ASSUME NEW c \in Calls, Wallet!Refuse(c) PROVE WalletOK'
  <2>1. /\ v5[c].pc # "idle" /\ v5' = [v5 EXCEPT ![c] = Wallet!Idle] /\ UNCHANGED <<v1, v2, v3>>
        /\ IF Names(v5[c]) THEN v4' = IF v4 = "none" THEN "unnamed" ELSE v4 ELSE v4' = v4
    BY <1>12 DEF Wallet!Refuse, Wallet!At, Wallet!End, Wallet!Naming, Wallet!Unnamed, Names
  <2>2. /\ v4' \in Wallet!Mishaps /\ (v4' = "taken" <=> v4 = "taken")
        /\ v4' = "none" => v4 = "none" /\ ~Names(v5[c])
    BY <1>1, <1>2, <2>1
  <2> QED BY <1>1, <2>1, <2>2, WalletMoves, WalletIdle
<1>13. ASSUME NEW k \in CardIds, Wallet!OthersSave(k) PROVE WalletOK'
  <2>1. v1[k] = "nobody" /\ v1' = [v1 EXCEPT ![k] = "theirs"] /\ UNCHANGED <<v2, v3, v4, v5>>
    BY <1>13 DEF Wallet!OthersSave
  <2>2. v1' \in [CardIds -> Wallet!Holder] /\ Ours(v1') = Ours(v1)
    BY <1>1, <1>2, <2>1 DEF Ours
  <2> QED BY <1>1, <2>1, <2>2, WalletAgain
<1>14. ASSUME NEW k \in CardIds, Wallet!OthersDetach(k) PROVE WalletOK'
  <2>1. /\ v1' = [v1 EXCEPT ![k] = "nobody"] /\ v2' = IF v2 = k THEN Nothing ELSE v2
        /\ v4' = IF k \in Ours(v1) THEN "taken" ELSE v4
        /\ UNCHANGED <<v3, v5>>
    BY <1>3, <1>14 DEF Wallet!OthersDetach, Wallet!Detach
  <2>2. v1' \in [CardIds -> Wallet!Holder] /\ Ours(v1') = Ours(v1) \ {k}
    BY <1>1, <1>2, <2>1 DEF Ours
  <2>3. v4' \in Wallet!Mishaps /\ (v4 = "taken" => v4' = "taken")
    BY <1>1, <1>2, <2>1
  <2>4. v4' # "taken" => Ours(v1') = Ours(v1) /\ v4' = v4 /\ v2' = v2
    BY <1>1, <2>1, <2>2
  <2>5. v2' \in CardIds \cup {Nothing} /\ (v2' # Nothing => v2' \in Ours(v1'))
    BY <1>1, <2>1, <2>2
  <2>6. \A c \in Calls : CardCall(v5'[c], Ours(v1'), v4')
    BY <1>1, <2>1, <2>3, <2>4 DEF CardCall
  <2>7. /\ v3' /\ v4' # "taken" => Ours(v1') # {}
        /\ v3' /\ v4' = "none" /\ v2' = Nothing => \E c \in Calls : Names(v5'[c])
    BY <1>1, <2>1, <2>4
  <2> QED BY <1>1, <2>1, <2>2, <2>3, <2>5, <2>6, <2>7, WalletAgain
<1> QED BY <1>4, <1>5, <1>6, <1>7, <1>8, <1>9, <1>10, <1>11, <1>12, <1>13, <1>14 DEF Wallet!Next

LEMMA WalletStay == WalletOK /\ UNCHANGED atDesk => WalletOK'
<1> SUFFICES ASSUME WalletOK, UNCHANGED atDesk PROVE WalletOK'
  OBVIOUS
<1>1. UNCHANGED <<v1, v2, v3, v4, v5>>
  BY DEF atDesk
<1> QED BY <1>1, WalletFacts, WalletAgain

LEMMA WalletGood == WalletOK => Wallet!SomethingToCharge
<1> SUFFICES ASSUME WalletOK, v3
             PROVE  /\ v4 # "taken" => Ours(v1) # {}
                    /\ v4 = "none" /\ (\A c \in Calls : v5[c].pc = "idle") => v2 \in Ours(v1)
  BY DEF Wallet!SomethingToCharge, Wallet!At, Wallet!Saved, Ours
<1>1. \A c \in Calls : v5[c].pc = "idle" => ~Names(v5[c])
  BY DEF Names
<1> QED BY <1>1, WalletFacts

\* The last card is kept: with one removal of its own at a time, beside cards saved
\* and chosen and whatever the other customers' calls do, a workspace that had a card
\* to charge has one still, unless another's call took one off; between calls it is
\* the one named, unless a mishap came between (stripe_service.py:502, 522).
THEOREM CardToCharge == OfficeSpec => []SomethingToCharge
<1> DEFINE Inv == desk = "wallet" => WalletOK
<1>1. OfficeInit => Inv
  BY WalletInit DEF OfficeInit
<1>2. Inv /\ [OfficeNext]_officeVars => Inv'
  BY WalletStep, WalletStay, DeskMoves
<1>3. Inv => SomethingToCharge
  BY WalletGood DEF SomethingToCharge
<1> QED BY <1>1, <1>2, <1>3, PTL DEF OfficeSpec
-----------------------------------------------------------------------------
\* Prices: config, made, cached and pricing are v1 to v4.
PricesOK == PriceList!TypeOK /\ PriceList!PricesInv

\* PricesInv, of these objects and this call.
MadeIn(objects, id, s) ==
  \E m \in objects : m.id = id /\ m.request = s /\ m.account = AccountOf[s[1]] /\ m.thing = s[2]
Own(objects) == \A m \in objects : m.account = AccountOf[m.request[1]] /\ m.thing = m.request[2]
OneEach(objects) ==
  \A m, n \in objects : m.request = n.request => m = n \/ m.life = "lost" \/ n.life = "lost"
Misses(call, key, s) ==
  \/ call.pc = "en_make" /\ <<key, Nothing>> = s
  \/ call.pc \in {"en_product", "en_make", "en_keep_product", "en_price"} /\ <<key, call.amount>> = s
PriceCall(call, key, pins, objects) ==
  /\ call \in PriceList!CallType
  /\ call.pc = "en_keep_product" => MadeIn(objects, call.product, <<key, Nothing>>)
  /\ call.pc = "en_keep_price" => MadeIn(objects, call.id, <<key, call.amount>>)
  /\ call.pc = "done" => (pins /\ call.id = Nobody) \/ MadeIn(objects, call.id, <<key, call.amount>>)

LEMMA PricesIdle == /\ PriceList!Idle.pc = "idle" /\ \A k, p, s : PriceCall(PriceList!Idle, k, p, s)
                    /\ \A k, s : ~Misses(PriceList!Idle, k, s)
<1>1. (CHOOSE n \in Amounts : TRUE) \in Amounts
  BY DesksAssumption DEF PriceList!PricesAssumption
<1> QED BY <1>1 DEF PriceList!Idle, PriceList!CallType, PriceList!Pcs, PriceCall, Misses

LEMMA PricesFacts ==
  ASSUME PricesOK
  PROVE  /\ v1 \in [key: ApiKeys, pins: BOOLEAN] /\ v2 \subseteq PriceList!Made
         /\ v3 \in [PriceList!Scopes -> PriceIds \cup {Nothing}] /\ v4 \in [Calls -> PriceList!CallType]
         /\ Own(v2) /\ OneEach(v2)
         /\ \A m \in v2 : m.life = "kept" =>
              v3[m.request] # Nothing /\ \A c \in Calls : ~Misses(v4[c], v1.key, m.request)
         /\ \A s \in PriceList!Scopes : v3[s] # Nothing => MadeIn(v2, v3[s], s)
         /\ \A c \in Calls : PriceCall(v4[c], v1.key, v1.pins, v2)
<1>1. \A s : \A c \in Calls : PriceList!Missed(c, s) <=> Misses(v4[c], v1.key, s)
  BY DEF PriceList!Missed, Misses, PriceList!At, PriceList!Scope, PriceList!Amount
<1>2. \A id, s : PriceList!MadeFor(id, s) <=> MadeIn(v2, id, s)
  BY DEF PriceList!MadeFor, MadeIn
<1>3. \A t : PriceList!Scope(t) = <<v1.key, t>>
  BY DEF PriceList!Scope
<1>4. /\ v1 \in [key: ApiKeys, pins: BOOLEAN] /\ v2 \subseteq PriceList!Made
      /\ v3 \in [PriceList!Scopes -> PriceIds \cup {Nothing}] /\ v4 \in [Calls -> PriceList!CallType]
  BY DEF PricesOK, PriceList!TypeOK
<1>5. /\ Own(v2) /\ OneEach(v2)
      /\ \A m \in v2 : m.life = "kept" =>
           v3[m.request] # Nothing /\ \A c \in Calls : ~Misses(v4[c], v1.key, m.request)
      /\ \A s \in PriceList!Scopes : v3[s] # Nothing => MadeIn(v2, v3[s], s)
  BY <1>1, <1>2 DEF PricesOK, PriceList!PricesInv, Own, OneEach
<1>6. \A c \in Calls : PriceCall(v4[c], v1.key, v1.pins, v2)
  BY <1>2, <1>3, <1>4 DEF PricesOK, PriceList!PricesInv, PriceList!At, PriceList!Amount, PriceCall
<1> QED BY <1>4, <1>5, <1>6

\* The facts, put together again.
LEMMA PricesAgain ==
  ASSUME v1' \in [key: ApiKeys, pins: BOOLEAN], v2' \subseteq PriceList!Made,
         v3' \in [PriceList!Scopes -> PriceIds \cup {Nothing}], v4' \in [Calls -> PriceList!CallType],
         Own(v2'), OneEach(v2'),
         \A m \in v2' : m.life = "kept" =>
           v3'[m.request] # Nothing /\ \A c \in Calls : ~Misses(v4'[c], v1'.key, m.request),
         \A s \in PriceList!Scopes : v3'[s] # Nothing => MadeIn(v2', v3'[s], s),
         \A c \in Calls : PriceCall(v4'[c], v1'.key, v1'.pins, v2')
  PROVE  PricesOK'
<1>1. \A s : \A c \in Calls : PriceList!Missed(c, s)' <=> Misses(v4'[c], v1'.key, s)
  BY DEF PriceList!Missed, Misses, PriceList!At, PriceList!Scope, PriceList!Amount
<1>2. \A id, s : PriceList!MadeFor(id, s)' <=> MadeIn(v2', id, s)
  BY DEF PriceList!MadeFor, MadeIn
<1>3. PriceList!TypeOK'
  BY DEF PriceList!TypeOK
<1>4. \A c \in Calls :
        /\ v4'[c].pc = "en_keep_product" => MadeIn(v2', v4'[c].product, <<v1'.key, Nothing>>)
        /\ v4'[c].pc = "en_keep_price" => MadeIn(v2', v4'[c].id, <<v1'.key, v4'[c].amount>>)
        /\ v4'[c].pc = "done" => \/ v1'.pins /\ v4'[c].id = Nobody
                                 \/ MadeIn(v2', v4'[c].id, <<v1'.key, v4'[c].amount>>)
  BY DEF PriceCall
<1>5. /\ \A m \in v2' : m.account = AccountOf[m.request[1]] /\ m.thing = m.request[2]
      /\ \A m, n \in v2' : m.request = n.request => m = n \/ m.life = "lost" \/ n.life = "lost"
  BY DEF Own, OneEach
<1>6. PriceList!PricesInv'
  BY <1>1, <1>2, <1>4, <1>5 DEF PriceList!PricesInv, PriceList!At, PriceList!Scope, PriceList!Amount
<1> QED BY <1>3, <1>6 DEF PricesOK

LEMMA PricesInit == PriceList!Init => PricesOK
<1> SUFFICES ASSUME PriceList!Init PROVE PricesOK
  OBVIOUS
<1>1. PriceList!Idle \in PriceList!CallType
  BY PricesIdle DEF PriceCall
<1>2. PriceList!TypeOK
  BY <1>1 DEF PriceList!Init, PriceList!TypeOK
<1>3. PriceList!PricesInv
  BY PricesIdle DEF PriceList!Init, PriceList!PricesInv, PriceList!At
<1> QED BY <1>2, <1>3 DEF PricesOK

LEMMA StillMade ==
  ASSUME NEW S, NEW T, \A m \in S : \E n \in T : /\ n.id = m.id /\ n.request = m.request
                                                  /\ n.account = m.account /\ n.thing = m.thing
  PROVE  /\ \A id, s : MadeIn(S, id, s) => MadeIn(T, id, s)
         /\ \A call, k, p : PriceCall(call, k, p, S) => PriceCall(call, k, p, T)
<1>1. \A id, s : MadeIn(S, id, s) => MadeIn(T, id, s)
  BY DEF MadeIn
<1> QED BY <1>1 DEF PriceCall

\* A call moves to rec, and looks for nothing that was kept; objects are made, or
\* remembered, and none is forgotten.
LEMMA PricesMove ==
  ASSUME PricesOK, NEW c \in Calls, NEW rec, PriceCall(rec, v1.key, v1.pins, v2'),
         v4' = [v4 EXCEPT ![c] = rec], v1' = v1,
         v2 \subseteq v2', v2' \subseteq PriceList!Made, Own(v2'), OneEach(v2'),
         \A m \in v2' \ v2 : m.life = "answered",
         \A m \in v2 : m.life = "kept" => ~Misses(rec, v1.key, m.request),
         v3' \in [PriceList!Scopes -> PriceIds \cup {Nothing}],
         \A s \in PriceList!Scopes : v3[s] # Nothing => v3'[s] # Nothing,
         \A s \in PriceList!Scopes : v3'[s] # Nothing => MadeIn(v2', v3'[s], s)
  PROVE  PricesOK'
<1>1. v4'[c] = rec /\ (\A o \in Calls \ {c} : v4'[o] = v4[o]) /\ rec \in PriceList!CallType
  BY PricesFacts DEF PriceCall
<1>2. \A o \in Calls : PriceCall(v4'[o], v1.key, v1.pins, v2')
  BY <1>1, PricesFacts, StillMade
<1>3. v4' \in [Calls -> PriceList!CallType]
  BY <1>1, PricesFacts
<1>4. ASSUME NEW m \in v2', m.life = "kept"
      PROVE  v3'[m.request] # Nothing /\ \A o \in Calls : ~Misses(v4'[o], v1.key, m.request)
  <2>1. m \in v2 /\ m.request \in PriceList!Scopes
    BY <1>4, PricesFacts DEF PriceList!Made
  <2> QED BY <1>1, <1>4, <2>1, PricesFacts
<1> QED BY <1>2, <1>3, <1>4, PricesFacts, PricesAgain

\* A call that has looked for the thing in vain is answered by the provider.
LEMMA PricesCreate ==
  ASSUME PricesOK, NEW c \in Calls, NEW t \in PriceList!Things, NEW of \in PriceIds \cup {Nothing},
         NEW i \in PriceIds, PriceList!Create(t, of, i), Misses(v4[c], v1.key, <<v1.key, t>>)
  PROVE  /\ v2 \subseteq v2' /\ v2' \subseteq PriceList!Made /\ Own(v2') /\ OneEach(v2')
         /\ \A m \in v2' \ v2 : m.life = "answered"
         /\ MadeIn(v2', i, <<v1.key, t>>)
<1>1. PICK s : s = <<v1.key, t>>
  OBVIOUS
<1>2. /\ s \in PriceList!Scopes /\ s[1] = v1.key /\ s[2] = t /\ AccountOf[v1.key] \in Accounts
      /\ PriceList!Scope(t) = s
  BY <1>1, PricesFacts, DesksAssumption DEF PriceList!Scopes, PriceList!PricesAssumption, PriceList!Scope
<1>3. CASE PriceList!Answered(s) # {}
  <2>1. v2' = v2 /\ \E m \in PriceList!Answered(s) : m.id = i
    BY <1>2, <1>3 DEF PriceList!Create
  <2>2. MadeIn(v2', i, s)
    BY <2>1, PricesFacts DEF PriceList!Answered, MadeIn, Own
  <2> QED BY <1>1, <2>1, <2>2, PricesFacts
<1>4. CASE PriceList!Answered(s) = {}
  <2> DEFINE new == [id |-> i, account |-> AccountOf[v1.key], thing |-> t, of |-> of,
                     request |-> s, life |-> "answered"]
  <2>1. v2' = v2 \cup {new}
    BY <1>2, <1>4 DEF PriceList!Create, PriceList!Account
  <2>2. /\ new \in PriceList!Made /\ new.id = i /\ new.request = s /\ new.life = "answered"
        /\ new.account = AccountOf[s[1]] /\ new.thing = s[2]
    BY <1>2 DEF PriceList!Made, PriceList!Life
  <2> HIDE DEF new
  <2>3. \A m \in v2 : m.request = s => m.life = "lost"
    <3> SUFFICES ASSUME NEW m \in v2, m.request = s, m.life # "lost" PROVE FALSE
      OBVIOUS
    <3>1. m.life \in {"answered", "kept"}
      BY PricesFacts DEF PriceList!Made, PriceList!Life
    <3>2. m.life # "answered"
      BY <1>2, <1>4, PricesFacts DEF PriceList!Answered, PriceList!Account, Own
    <3>3. m.life # "kept"
      BY <1>1, PricesFacts
    <3> QED BY <3>1, <3>2, <3>3
  <2>4. OneEach(v2')
    <3>1. OneEach(v2)
      BY PricesFacts
    <3> QED BY <2>1, <2>2, <2>3, <3>1 DEF OneEach
  <2>5. Own(v2') /\ v2' \subseteq PriceList!Made
    BY <2>1, <2>2, PricesFacts DEF Own
  <2>6. MadeIn(v2', i, s)
    BY <2>1, <2>2 DEF MadeIn
  <2> QED BY <1>1, <2>1, <2>2, <2>4, <2>5, <2>6
<1> QED BY <1>3, <1>4

LEMMA PricesStep == PricesOK /\ PriceList!Next => PricesOK'
<1> SUFFICES ASSUME PricesOK, PriceList!Next PROVE PricesOK'
  OBVIOUS
<1>1. /\ v1 \in [key: ApiKeys, pins: BOOLEAN] /\ v2 \subseteq PriceList!Made
      /\ v3 \in [PriceList!Scopes -> PriceIds \cup {Nothing}] /\ v4 \in [Calls -> PriceList!CallType]
      /\ Own(v2) /\ OneEach(v2)
      /\ \A m \in v2 : m.life = "kept" =>
           v3[m.request] # Nothing /\ \A c \in Calls : ~Misses(v4[c], v1.key, m.request)
      /\ \A s \in PriceList!Scopes : v3[s] # Nothing => MadeIn(v2, v3[s], s)
      /\ \A c \in Calls : PriceCall(v4[c], v1.key, v1.pins, v2) /\ v4[c] \in PriceList!CallType
  BY PricesFacts
<1>2. PriceList!Pcs = {"idle", "en_product", "en_make", "en_keep_product", "en_price", "en_keep_price", "done"}
  BY DEF PriceList!Pcs
<1>3. \A t \in PriceList!Things : <<v1.key, t>> \in PriceList!Scopes /\ PriceList!Scope(t) = <<v1.key, t>>
  BY <1>1 DEF PriceList!Scopes, PriceList!Scope
<1>4. Nothing \in PriceList!Things /\ Amounts \subseteq PriceList!Things /\ Nothing \notin Amounts
  BY DesksAssumption DEF PriceList!Things, PriceList!PricesAssumption
<1>5. \A m \in v2 : m.request \in PriceList!Scopes
  BY <1>1 DEF PriceList!Made
<1>6. ASSUME NEW c \in Calls, NEW n \in Amounts, PriceList!Ensure(c, n) PROVE PricesOK'
  <2>1. PICK s : s = <<v1.key, n>>
    OBVIOUS
  <2>2. PICK hit : hit = IF v1.pins THEN Nobody ELSE v3[s]
    OBVIOUS
  <2> DEFINE rec == [pc |-> IF hit # Nothing THEN "done" ELSE "en_product",
                     amount |-> n, product |-> Nothing, id |-> hit]
  <2>3. v4' = [v4 EXCEPT ![c] = rec] /\ UNCHANGED <<v1, v2, v3>>
    BY <1>3, <1>4, <1>6, <2>1, <2>2 DEF PriceList!Ensure
  <2>4. s \in PriceList!Scopes
    BY <1>3, <1>4, <2>1
  <2>8. Nobody # Nothing
    BY DesksAssumption DEF PriceList!PricesAssumption
  <2>5. /\ hit \in PriceIds \cup {Nothing, Nobody}
        /\ hit # Nothing => (v1.pins /\ hit = Nobody) \/ MadeIn(v2, hit, s)
        /\ hit = Nothing => v3[s] = Nothing
    BY <1>1, <2>2, <2>4, <2>8
  <2>6. /\ rec \in PriceList!CallType /\ rec.amount = n /\ rec.id = hit
        /\ rec.pc = IF hit # Nothing THEN "done" ELSE "en_product"
    BY <1>2, <2>5 DEF PriceList!CallType
  <2> HIDE DEF rec
  <2>7. PriceCall(rec, v1.key, v1.pins, v2')
    BY <2>1, <2>3, <2>5, <2>6 DEF PriceCall
  <2>9. \A m \in v2 : m.life = "kept" => ~Misses(rec, v1.key, m.request)
    BY <1>1, <2>1, <2>5, <2>6 DEF Misses
  <2> QED BY <1>1, <2>3, <2>7, <2>9, PricesMove
<1>7. ASSUME NEW c \in Calls, PriceList!EnsureProduct(c) PROVE PricesOK'
  <2>1. PICK hit : hit = v3[<<v1.key, Nothing>>]
    OBVIOUS
  <2>2. PICK pc : pc = IF hit # Nothing THEN "en_price" ELSE "en_make"
    OBVIOUS
  <2> DEFINE rec == [v4[c] EXCEPT !.pc = pc, !.product = hit]
  <2>3. v4[c].pc = "en_product" /\ UNCHANGED <<v1, v2, v3>>
    BY <1>7 DEF PriceList!EnsureProduct, PriceList!At
  <2>4. v4' = [v4 EXCEPT ![c] = rec]
    BY <1>1, <1>3, <1>4, <1>7, <2>1, <2>2 DEF PriceList!EnsureProduct, PriceList!CallType
  <2>5. hit \in PriceIds \cup {Nothing}
    BY <1>1, <1>3, <1>4, <2>1
  <2>6. rec \in PriceList!CallType /\ rec.amount = v4[c].amount /\ rec.pc = pc
    BY <1>1, <1>2, <2>2, <2>5 DEF PriceList!CallType
  <2> HIDE DEF rec
  <2>7. PriceCall(rec, v1.key, v1.pins, v2')
    BY <2>2, <2>6 DEF PriceCall
  <2>8. \A m \in v2 : m.life = "kept" => ~Misses(rec, v1.key, m.request)
    BY <1>1, <2>1, <2>2, <2>3, <2>6 DEF Misses
  <2> QED BY <1>1, <2>3, <2>4, <2>7, <2>8, PricesMove
<1>8. ASSUME NEW c \in Calls, PriceList!MakeProduct(c) PROVE PricesOK'
  <2>1. PICK i \in PriceIds :
          /\ PriceList!Create(Nothing, Nothing, i)
          /\ v4' = [v4 EXCEPT ![c] = [v4[c] EXCEPT !.pc = "en_keep_product", !.product = i]]
    BY <1>1, <1>8 DEF PriceList!MakeProduct, PriceList!CallType
  <2> DEFINE rec == [v4[c] EXCEPT !.pc = "en_keep_product", !.product = i]
  <2>2. v4[c].pc = "en_make" /\ v1' = v1 /\ v3' = v3
    BY <1>8 DEF PriceList!MakeProduct, PriceList!At
  <2>3. /\ v2 \subseteq v2' /\ v2' \subseteq PriceList!Made /\ Own(v2') /\ OneEach(v2')
        /\ \A m \in v2' \ v2 : m.life = "answered"
        /\ MadeIn(v2', i, <<v1.key, Nothing>>)
    BY <1>4, <2>1, <2>2, PricesCreate DEF Misses
  <2>4. rec \in PriceList!CallType /\ rec.amount = v4[c].amount /\ rec.pc = "en_keep_product" /\ rec.product = i
    BY <1>1, <1>2 DEF PriceList!CallType
  <2>5. v4' = [v4 EXCEPT ![c] = rec]
    BY <2>1
  <2> HIDE DEF rec
  <2>6. PriceCall(rec, v1.key, v1.pins, v2')
    BY <2>3, <2>4 DEF PriceCall
  <2>7. \A m \in v2 : m.life = "kept" => ~Misses(rec, v1.key, m.request)
    BY <1>1, <2>2, <2>4 DEF Misses
  <2>8. \A s \in PriceList!Scopes : v3'[s] # Nothing => MadeIn(v2', v3'[s], s)
    BY <1>1, <2>2, <2>3, StillMade
  <2> QED BY <1>1, <2>2, <2>3, <2>5, <2>6, <2>7, <2>8, PricesMove
<1>9. ASSUME NEW c \in Calls, PriceList!KeepProduct(c) PROVE PricesOK'
  <2>1. PICK s, i : s = <<v1.key, Nothing>> /\ i = v4[c].product
    OBVIOUS
  <2> DEFINE rec == [v4[c] EXCEPT !.pc = "en_price"]
  <2>2. /\ v4[c].pc = "en_keep_product" /\ v3' = [v3 EXCEPT ![s] = i]
        /\ v4' = [v4 EXCEPT ![c] = rec] /\ UNCHANGED <<v1, v2>>
    BY <1>3, <1>4, <1>9, <2>1 DEF PriceList!KeepProduct, PriceList!At, PriceList!Goto
  <2>3. s \in PriceList!Scopes /\ i \in PriceIds \cup {Nothing} /\ MadeIn(v2, i, s)
    BY <1>1, <1>3, <1>4, <2>1, <2>2 DEF PriceCall, PriceList!CallType
  <2>4. i \in PriceIds /\ Nothing \notin PriceIds
    BY <1>1, <2>3, DesksAssumption DEF MadeIn, PriceList!Made, PriceList!PricesAssumption
  <2>5. rec \in PriceList!CallType /\ rec.amount = v4[c].amount /\ rec.pc = "en_price"
    BY <1>1, <1>2 DEF PriceList!CallType
  <2> HIDE DEF rec
  <2>6. PriceCall(rec, v1.key, v1.pins, v2')
    BY <2>5 DEF PriceCall
  <2>7. \A m \in v2 : m.life = "kept" => ~Misses(rec, v1.key, m.request)
    BY <1>1, <2>2, <2>5 DEF Misses
  <2>8. /\ v3' \in [PriceList!Scopes -> PriceIds \cup {Nothing}]
        /\ \A x \in PriceList!Scopes : v3[x] # Nothing => v3'[x] # Nothing
        /\ \A x \in PriceList!Scopes : v3'[x] # Nothing => MadeIn(v2, v3'[x], x)
    BY <1>1, <2>2, <2>3, <2>4
  <2> QED BY <1>1, <2>2, <2>6, <2>7, <2>8, PricesMove
<1>10. ASSUME NEW c \in Calls, PriceList!MakePrice(c) PROVE PricesOK'
  <2>1. PICK n, p : n = v4[c].amount /\ p = v4[c].product
    OBVIOUS
  <2>2. PICK i \in PriceIds :
          /\ PriceList!Create(n, p, i)
          /\ v4' = [v4 EXCEPT ![c] = [v4[c] EXCEPT !.pc = "en_keep_price", !.id = i]]
    BY <1>1, <1>10, <2>1 DEF PriceList!MakePrice, PriceList!CallType, PriceList!Amount
  <2> DEFINE rec == [v4[c] EXCEPT !.pc = "en_keep_price", !.id = i]
  <2>3. v4[c].pc = "en_price" /\ v1' = v1 /\ v3' = v3
    BY <1>10 DEF PriceList!MakePrice, PriceList!At
  <2>4. n \in PriceList!Things /\ p \in PriceIds \cup {Nothing}
    BY <1>1, <1>4, <2>1 DEF PriceList!CallType
  <2>5. Misses(v4[c], v1.key, <<v1.key, n>>)
    BY <2>1, <2>3 DEF Misses
  <2>6. /\ v2 \subseteq v2' /\ v2' \subseteq PriceList!Made /\ Own(v2') /\ OneEach(v2')
        /\ \A m \in v2' \ v2 : m.life = "answered"
        /\ MadeIn(v2', i, <<v1.key, n>>)
    BY <2>2, <2>4, <2>5, PricesCreate
  <2>7. rec \in PriceList!CallType /\ rec.amount = n /\ rec.pc = "en_keep_price" /\ rec.id = i
    BY <1>1, <1>2, <2>1 DEF PriceList!CallType
  <2>8. v4' = [v4 EXCEPT ![c] = rec]
    BY <2>2
  <2> HIDE DEF rec
  <2>9. PriceCall(rec, v1.key, v1.pins, v2')
    BY <2>6, <2>7 DEF PriceCall
  <2>10. \A m \in v2 : m.life = "kept" => ~Misses(rec, v1.key, m.request)
    BY <2>7 DEF Misses
  <2>11. \A s \in PriceList!Scopes : v3'[s] # Nothing => MadeIn(v2', v3'[s], s)
    BY <1>1, <2>3, <2>6, StillMade
  <2> QED BY <1>1, <2>3, <2>6, <2>8, <2>9, <2>10, <2>11, PricesMove
<1>11. ASSUME NEW c \in Calls, PriceList!KeepPrice(c) PROVE PricesOK'
  <2>1. PICK s, i : s = <<v1.key, v4[c].amount>> /\ i = v4[c].id
    OBVIOUS
  <2> DEFINE rec == [v4[c] EXCEPT !.pc = "done"]
  <2>2. v4[c].amount \in Amounts
    BY <1>1 DEF PriceList!CallType
  <2>3. /\ v4[c].pc = "en_keep_price" /\ v3' = [v3 EXCEPT ![s] = i]
        /\ v4' = [v4 EXCEPT ![c] = rec] /\ UNCHANGED <<v1, v2>>
    BY <1>3, <1>4, <1>11, <2>1, <2>2 DEF PriceList!KeepPrice, PriceList!At, PriceList!Goto, PriceList!Amount
  <2>4. s \in PriceList!Scopes /\ MadeIn(v2, i, s)
    BY <1>1, <1>3, <1>4, <2>1, <2>2, <2>3 DEF PriceCall
  <2>5. i \in PriceIds /\ Nothing \notin PriceIds
    BY <1>1, <2>4, DesksAssumption DEF MadeIn, PriceList!Made, PriceList!PricesAssumption
  <2>6. rec \in PriceList!CallType /\ rec.amount = v4[c].amount /\ rec.pc = "done" /\ rec.id = i
    BY <1>1, <1>2, <2>1 DEF PriceList!CallType
  <2> HIDE DEF rec
  <2>7. PriceCall(rec, v1.key, v1.pins, v2')
    BY <2>1, <2>3, <2>4, <2>6 DEF PriceCall
  <2>8. \A m \in v2 : m.life = "kept" => ~Misses(rec, v1.key, m.request)
    BY <2>6 DEF Misses
  <2>9. /\ v3' \in [PriceList!Scopes -> PriceIds \cup {Nothing}]
        /\ \A x \in PriceList!Scopes : v3[x] # Nothing => v3'[x] # Nothing
        /\ \A x \in PriceList!Scopes : v3'[x] # Nothing => MadeIn(v2, v3'[x], x)
    BY <1>1, <2>3, <2>4, <2>5
  <2> QED BY <1>1, <2>3, <2>7, <2>8, <2>9, PricesMove
<1>12. ASSUME NEW c \in Calls, PriceList!Sell(c) PROVE PricesOK'
  BY <1>1, <1>12, PricesIdle, PricesMove DEF PriceList!Sell
<1>13. ASSUME NEW k \in ApiKeys, NEW p \in BOOLEAN, PriceList!Restart(k, p) PROVE PricesOK'
  <2>1. v1' \in [key: ApiKeys, pins: BOOLEAN] /\ v4' = [c \in Calls |-> PriceList!Idle] /\ UNCHANGED <<v2, v3>>
    BY <1>13 DEF PriceList!Restart
  <2>2. PriceList!Idle \in PriceList!CallType
    BY PricesIdle DEF PriceCall
  <2>3. \A c \in Calls : v4'[c] = PriceList!Idle
    BY <2>1
  <2>4. \A c \in Calls : PriceCall(v4'[c], v1'.key, v1'.pins, v2')
    BY <2>3, PricesIdle
  <2> QED BY <1>1, <2>1, <2>2, <2>3, <2>4, PricesIdle, PricesAgain
<1>14. ASSUME NEW m \in v2, PriceList!Forget(m) PROVE PricesOK'
  <2>1. PICK kept \in BOOLEAN :
          kept <=> v3[m.request] # Nothing /\ \A c \in Calls : ~PriceList!Missed(c, m.request)
    OBVIOUS
  <2>2. PICK life : life = IF kept THEN "kept" ELSE "lost"
    OBVIOUS
  <2> DEFINE gone == [m EXCEPT !.life = life]
  <2>3. m.life = "answered" /\ v2' = (v2 \ {m}) \cup {gone} /\ UNCHANGED <<v1, v3, v4>>
    BY <1>14, <2>1, <2>2 DEF PriceList!Forget
  <2>4. /\ gone \in PriceList!Made /\ gone.life = life /\ gone.id = m.id /\ gone.request = m.request
        /\ gone.account = m.account /\ gone.thing = m.thing
    BY <1>1, <2>2 DEF PriceList!Made, PriceList!Life
  <2>5. life = "kept" => v3[m.request] # Nothing /\ \A c \in Calls : ~Misses(v4[c], v1.key, m.request)
    BY <2>1, <2>2 DEF PriceList!Missed, Misses, PriceList!At, PriceList!Scope, PriceList!Amount
  <2> HIDE DEF gone
  <2>6. \A x \in v2 : \E n \in v2' : /\ n.id = x.id /\ n.request = x.request
                                     /\ n.account = x.account /\ n.thing = x.thing
    BY <2>3, <2>4
  <2>7. /\ \A id, s : MadeIn(v2, id, s) => MadeIn(v2', id, s)
        /\ \A call, k, p : PriceCall(call, k, p, v2) => PriceCall(call, k, p, v2')
    BY <2>6, StillMade
  <2>8. v2' \subseteq PriceList!Made /\ Own(v2')
    BY <1>1, <2>3, <2>4 DEF Own
  <2>9. OneEach(v2')
    BY <1>1, <2>3, <2>4 DEF OneEach
  <2>10. \A x \in v2' : x.life = "kept" =>
           v3[x.request] # Nothing /\ \A c \in Calls : ~Misses(v4[c], v1.key, x.request)
    BY <1>1, <2>3, <2>4, <2>5
  <2>11. /\ \A s \in PriceList!Scopes : v3[s] # Nothing => MadeIn(v2', v3[s], s)
         /\ \A c \in Calls : PriceCall(v4[c], v1.key, v1.pins, v2')
    BY <1>1, <2>7
  <2> QED BY <1>1, <2>3, <2>8, <2>9, <2>10, <2>11, PricesAgain
<1> QED BY <1>6, <1>7, <1>8, <1>9, <1>10, <1>11, <1>12, <1>13, <1>14 DEF PriceList!Next

LEMMA PricesStay == PricesOK /\ UNCHANGED atDesk => PricesOK'
<1> SUFFICES ASSUME PricesOK, UNCHANGED atDesk PROVE PricesOK'
  OBVIOUS
<1>1. UNCHANGED <<v1, v2, v3, v4>>
  BY DEF atDesk
<1> QED BY <1>1, PricesFacts, PricesAgain

LEMMA PricesGood == PricesOK => PriceList!PriceFits
<1> SUFFICES ASSUME PricesOK PROVE PriceList!PriceFits
  OBVIOUS
<1>1. ASSUME NEW c \in Calls, v4[c].pc = "done"
      PROVE  \/ v1.pins /\ v4[c].id = Nobody
             \/ \E m \in v2 : m.id = v4[c].id /\ m.account = AccountOf[v1.key] /\ m.thing = v4[c].amount
  BY <1>1, PricesFacts DEF PriceCall, MadeIn
<1>2. OneEach(v2)
  BY PricesFacts
<1> QED BY <1>1, <1>2 DEF PriceList!PriceFits, PriceList!At, PriceList!Account, PriceList!Amount, OneEach

\* A subscription is sold at the price the operator pinned or at one made for its
\* amount, in the account whose key is in force, whatever calls, failures and
\* changes of key came between (stripe_service.py:181); and a key makes a second
\* price of an amount only when the provider forgot the first before it was kept
\* (stripe_service.py:111).
THEOREM PriceSoldFits == OfficeSpec => []PriceFits
<1> DEFINE Inv == desk = "prices" => PricesOK
<1>1. OfficeInit => Inv
  BY PricesInit DEF OfficeInit
<1>2. Inv /\ [OfficeNext]_officeVars => Inv'
  BY PricesStep, PricesStay, DeskMoves
<1>3. Inv => PriceFits
  BY PricesGood DEF PriceFits
<1> QED BY <1>1, <1>2, <1>3, PTL DEF OfficeSpec
-----------------------------------------------------------------------------
\* Plans: older, newer and setting are v1, v2 and v3; one editor is at work.
PlansOK == PlanList!TypeOK /\ PlanList!TariffInv

Row == [Cycles -> PlanAmounts \cup {Nothing}]

LEMMA PlansIdle == PlanList!Idle.pc = "idle" /\ PlanList!Idle \in PlanList!CallType /\ PlanList!Empty \in PlanList!Document
<1>1. PlanList!Unnamed \in PlanList!Change /\ PlanList!Empty \in PlanList!Document
  BY DEF PlanList!Unnamed, PlanList!Change, PlanList!Empty, PlanList!Document
<1>2. (CHOOSE p \in PlanNames : TRUE) \in PlanNames
  BY DesksAssumption DEF PlanList!TariffAssumption
<1> QED BY <1>1, <1>2 DEF PlanList!Idle, PlanList!CallType, PlanList!Pc

LEMMA PlansInit == PlanList!Init => PlansOK
<1> SUFFICES ASSUME PlanList!Init PROVE PlansOK
  OBVIOUS
<1>1. ASSUME NEW p \in PlanNames, NEW y \in Cycles, NEW n \in PlanAmounts
      PROVE  [PlanList!Empty EXCEPT ![p][y] = n] \in PlanList!Document
  BY PlansIdle DEF PlanList!Document
<1>2. v1 \in PlanList!Document
  BY <1>1, PlansIdle DEF PlanList!Init
<1>3. PlanList!TypeOK
  BY <1>2, PlansIdle DEF PlanList!Init, PlanList!TypeOK
<1>4. PlanList!TariffInv
  BY PlansIdle DEF PlanList!Init, PlanList!TariffInv, PlanList!At
<1> QED BY <1>3, <1>4 DEF PlansOK

\* The editor moves to rec, having read what there is.
LEMMA PlansMove ==
  ASSUME PlansOK, NEW c \in {"c"}, NEW rec \in PlanList!CallType, v3' = [v3 EXCEPT ![c] = rec],
         v1' \in PlanList!Document, v2' \in PlanList!Document,
         rec.pc = "save" => rec.read = PlanList!Overrides',
         rec.pc = "pr_older" => rec.read = v1'
  PROVE  PlansOK'
<1>1. v3'[c] = rec /\ \A o \in {"c"} : o = c
  BY DEF PlansOK, PlanList!TypeOK
<1>2. PlanList!TypeOK'
  BY DEF PlansOK, PlanList!TypeOK
<1>3. PlanList!TariffInv'
  BY <1>1 DEF PlanList!TariffInv, PlanList!At
<1> QED BY <1>2, <1>3 DEF PlansOK

LEMMA PlansFacts ==
  ASSUME PlansOK
  PROVE  /\ v1 \in PlanList!Document /\ v2 \in PlanList!Document /\ PlanList!Overrides \in PlanList!Document
         /\ v3 \in [{"c"} -> PlanList!CallType]
         /\ \A c \in {"c"} : /\ v3[c] \in PlanList!CallType
                             /\ v3[c].pc = "save" => v3[c].read = PlanList!Overrides
                             /\ v3[c].pc = "pr_older" => v3[c].read = v1
  BY DEF PlansOK, PlanList!TypeOK, PlanList!TariffInv, PlanList!At, PlanList!Overrides, PlanList!Document

\* What a document becomes: the row of one plan is laid over.
LEMMA PlansSaved ==
  ASSUME PlansOK, NEW c \in {"c"}
  PROVE  /\ PlanList!Saved(c) \in PlanList!Document
         /\ \A p \in PlanNames : PlanList!Saved(c)[p] =
              IF p = v3[c].plan THEN PlanList!Over(v3[c].change, v3[c].read[p]) ELSE v3[c].read[p]
<1>1. v3[c].plan \in PlanNames /\ v3[c].change \in PlanList!Change /\ v3[c].read \in [PlanNames -> Row]
  BY PlansFacts DEF PlanList!CallType, PlanList!Document, Row
<1>2. ASSUME NEW row \in Row PROVE PlanList!Over(v3[c].change, row) \in Row
  BY <1>1 DEF PlanList!Over, PlanList!Change, Row
<1>3. v3[c].read[v3[c].plan] \in Row
  BY <1>1
<1> DEFINE over == PlanList!Over(v3[c].change, v3[c].read[v3[c].plan])
<1>4. over \in Row /\ PlanList!Saved(c) = [v3[c].read EXCEPT ![v3[c].plan] = over]
  BY <1>2, <1>3 DEF PlanList!Saved
<1>5. over = PlanList!Over(v3[c].change, v3[c].read[v3[c].plan])
  OBVIOUS
<1> HIDE DEF over
<1> QED BY <1>1, <1>4, <1>5 DEF PlanList!Document, Row

LEMMA PlansStep == PlansOK /\ PlanList!Next => PlansOK'
<1> SUFFICES ASSUME PlansOK, NEW c \in {"c"},
                    \/ \E p \in PlanNames, change \in PlanList!Change :
                         PlanList!EditStart(c, p, change) \/ PlanList!PriceStart(c, p, change)
                    \/ PlanList!Save(c) \/ PlanList!PriceOlder(c) \/ PlanList!PriceRead(c)
             PROVE  PlansOK'
  BY DEF PlanList!Next
<1>1. /\ v1 \in PlanList!Document /\ v2 \in PlanList!Document /\ PlanList!Overrides \in PlanList!Document
      /\ v3 \in [{"c"} -> PlanList!CallType] /\ v3[c] \in PlanList!CallType
  BY PlansFacts
<1>2. ASSUME NEW call \in PlanList!CallType, PlanList!Start(c, call)
      PROVE  \E rec \in PlanList!CallType : v3' = [v3 EXCEPT ![c] = rec] /\ rec.pc = call.pc /\ rec.read = call.read
  <2> DEFINE named == [y \in Cycles |-> call.change[y] # Nobody]
             rec == [call EXCEPT !.named = named]
  <2>2. v3' = [v3 EXCEPT ![c] = rec]
    BY <1>2 DEF PlanList!Start
  <2>3. named \in [Cycles -> BOOLEAN]
    OBVIOUS
  <2> HIDE DEF named
  <2>4. rec \in PlanList!CallType /\ rec.pc = call.pc /\ rec.read = call.read
    BY <2>3 DEF PlanList!CallType
  <2> HIDE DEF rec
  <2> QED BY <2>2, <2>4
<1>3. "save" \in PlanList!Pc /\ "pr_older" \in PlanList!Pc /\ "pr_read" \in PlanList!Pc
  BY DEF PlanList!Pc
<1>4. ASSUME NEW p \in PlanNames, NEW change \in PlanList!Change, PlanList!EditStart(c, p, change) PROVE PlansOK'
  <2>1. UNCHANGED <<v1, v2>> /\ PlanList!Overrides' = PlanList!Overrides
    BY <1>4 DEF PlanList!EditStart, PlanList!Overrides
  <2>2. PICK doc \in PlanList!Document : doc = PlanList!Overrides
    BY <1>1
  <2>3. PICK call : call = [PlanList!Idle EXCEPT !.pc = "save", !.plan = p, !.change = change, !.read = doc]
    OBVIOUS
  <2>4. call \in PlanList!CallType /\ call.pc = "save" /\ call.read = doc
    BY <1>3, <2>3, PlansIdle DEF PlanList!CallType
  <2>5. PlanList!Start(c, call)
    BY <1>4, <2>2, <2>3, Zenon DEF PlanList!EditStart
  <2>6. PICK rec \in PlanList!CallType : v3' = [v3 EXCEPT ![c] = rec] /\ rec.pc = "save" /\ rec.read = doc
    BY <1>2, <2>5, <2>4
  <2> QED BY <1>1, <2>1, <2>2, <2>6, PlansMove
<1>5. ASSUME NEW p \in PlanNames, NEW change \in PlanList!Change, PlanList!PriceStart(c, p, change) PROVE PlansOK'
  <2>1. UNCHANGED <<v1, v2>>
    BY <1>5 DEF PlanList!PriceStart
  <2>2. PICK doc \in PlanList!Document : doc = v1
    BY <1>1
  <2>3. PICK call : call = [PlanList!Idle EXCEPT !.pc = "pr_older", !.plan = p, !.change = change, !.read = doc]
    OBVIOUS
  <2>4. call \in PlanList!CallType /\ call.pc = "pr_older" /\ call.read = doc
    BY <1>3, <2>3, PlansIdle DEF PlanList!CallType
  <2>5. PlanList!Start(c, call)
    BY <1>5, <2>2, <2>3, Zenon DEF PlanList!PriceStart
  <2>6. PICK rec \in PlanList!CallType : v3' = [v3 EXCEPT ![c] = rec] /\ rec.pc = "pr_older" /\ rec.read = doc
    BY <1>2, <2>5, <2>4
  <2> QED BY <1>1, <2>1, <2>2, <2>6, PlansMove
<1>6. ASSUME PlanList!Save(c) PROVE PlansOK'
  <2>1. v2' \in PlanList!Document /\ v1' = v1 /\ v3' = [v3 EXCEPT ![c] = PlanList!Idle]
    BY <1>6, PlansSaved DEF PlanList!Save
  <2> QED BY <1>1, <2>1, PlansIdle, PlansMove
<1>7. ASSUME PlanList!PriceOlder(c) PROVE PlansOK'
  <2> DEFINE change == [y \in Cycles |-> IF PlanList!Saved(c)[v3[c].plan][y] = Nothing THEN Nobody
                                         ELSE PlanList!Saved(c)[v3[c].plan][y]]
             rec == [v3[c] EXCEPT !.pc = "pr_read", !.change = change]
  <2>1. v1' = PlanList!Saved(c) /\ v2' = v2 /\ v3' = [v3 EXCEPT ![c].pc = "pr_read", ![c].change = change]
    BY <1>7 DEF PlanList!PriceOlder
  <2>2. v3[c].plan \in PlanNames
    BY <1>1 DEF PlanList!CallType
  <2>3. change \in PlanList!Change
    BY <2>2, PlansSaved DEF PlanList!Change, PlanList!Document
  <2> HIDE DEF change
  <2>4. v3' = [v3 EXCEPT ![c] = rec] /\ rec \in PlanList!CallType /\ rec.pc = "pr_read"
    BY <1>1, <1>3, <2>1, <2>3 DEF PlanList!CallType
  <2> HIDE DEF rec
  <2> QED BY <1>1, <2>1, <2>4, PlansSaved, PlansMove
<1>8. ASSUME PlanList!PriceRead(c) PROVE PlansOK'
  <2>1. PICK doc \in PlanList!Document : doc = PlanList!Overrides
    BY <1>1
  <2>2. UNCHANGED <<v1, v2>> /\ PlanList!Overrides' = PlanList!Overrides
    BY <1>8 DEF PlanList!PriceRead, PlanList!Overrides
  <2> DEFINE rec == [v3[c] EXCEPT !.pc = "save", !.read = doc]
  <2>3. v3' = [v3 EXCEPT ![c].pc = "save", ![c].read = doc]
    BY <1>8, <2>1 DEF PlanList!PriceRead
  <2>4. v3' = [v3 EXCEPT ![c] = rec] /\ rec \in PlanList!CallType /\ rec.pc = "save" /\ rec.read = doc
    BY <1>1, <1>3, <2>3 DEF PlanList!CallType
  <2> HIDE DEF rec
  <2> QED BY <1>1, <2>1, <2>2, <2>4, PlansMove
<1> QED BY <1>4, <1>5, <1>6, <1>7, <1>8

LEMMA PlansStay == PlansOK /\ UNCHANGED atDesk => PlansOK'
  BY DEF PlansOK, atDesk, PlanList!TypeOK, PlanList!TariffInv, PlanList!At, PlanList!Overrides

\* A price is the amount laid over the plan, or the built-in one.
LEMMA PlansPrice ==
  ASSUME NEW p \in PlanNames, NEW y \in Cycles, PlanList!Overrides'[p][y] = PlanList!Overrides[p][y]
  PROVE  PlanList!Price(p, y)' = PlanList!Price(p, y)
  BY DEF PlanList!Price

LEMMA PlansQuiet ==
  ASSUME PlansOK, UNCHANGED <<v1, v2>>, \A c \in {"c"} : v3[c].pc = "save" => v3'[c].pc # "idle"
  PROVE  PlanList!KeepsTariff
  BY DEF PlanList!KeepsTariff, PlanList!Price, PlanList!Overrides, PlanList!At

LEMMA PlansKeep == PlansOK /\ (PlanList!Next \/ UNCHANGED atDesk) => PlanList!KeepsTariff
<1> SUFFICES ASSUME PlansOK, PlanList!Next \/ UNCHANGED atDesk PROVE PlanList!KeepsTariff
  OBVIOUS
<1>1. v3 \in [{"c"} -> PlanList!CallType]
  BY PlansFacts
<1>2. CASE UNCHANGED atDesk
  BY <1>2, PlansQuiet DEF atDesk
<1>3. ASSUME NEW c \in {"c"}, v3[c].pc # "save", UNCHANGED <<v1, v2>> PROVE PlanList!KeepsTariff
  BY <1>3, PlansQuiet
<1>4. ASSUME NEW c \in {"c"}, NEW p \in PlanNames, NEW change \in PlanList!Change,
             PlanList!EditStart(c, p, change) \/ PlanList!PriceStart(c, p, change) PROVE PlanList!KeepsTariff
  BY <1>3, <1>4 DEF PlanList!EditStart, PlanList!PriceStart, PlanList!Start, PlanList!At
<1>5. ASSUME NEW c \in {"c"}, PlanList!PriceRead(c) PROVE PlanList!KeepsTariff
  BY <1>3, <1>5 DEF PlanList!PriceRead, PlanList!At
<1>6. ASSUME NEW c \in {"c"}, PlanList!PriceOlder(c) PROVE PlanList!KeepsTariff
  <2>1. v3[c].pc = "pr_older" /\ v1' = PlanList!Saved(c) /\ v2' = v2 /\ v3[c].read = v1
    BY <1>6, PlansFacts DEF PlanList!PriceOlder, PlanList!At
  <2>2. \A p \in PlanNames : p # v3[c].plan => v1'[p] = v1[p]
    BY <2>1, PlansSaved
  <2>3. ASSUME NEW p \in PlanNames, NEW y \in Cycles, p # v3[c].plan
        PROVE  PlanList!Price(p, y)' = PlanList!Price(p, y)
    <3>1. PlanList!Overrides'[p][y] = PlanList!Overrides[p][y]
      BY <2>1, <2>2, <2>3 DEF PlanList!Overrides
    <3> QED BY <3>1, PlansPrice
  <2> QED BY <2>1, <2>3 DEF PlanList!KeepsTariff, PlanList!At
<1>7. ASSUME NEW c \in {"c"}, PlanList!Save(c) PROVE PlanList!KeepsTariff
  <2>1. v3[c].pc = "save" /\ v2' = PlanList!Saved(c) /\ v1' = v1 /\ v3[c].read = PlanList!Overrides
    BY <1>7, PlansFacts DEF PlanList!Save, PlanList!At
  <2>2. \A p \in PlanNames : v2'[p] = IF p = v3[c].plan THEN PlanList!Over(v3[c].change, v3[c].read[p]) ELSE v3[c].read[p]
    BY <2>1, PlansSaved
  <2>3. ASSUME NEW p \in PlanNames, NEW y \in Cycles, p # v3[c].plan
        PROVE  PlanList!Price(p, y)' = PlanList!Price(p, y)
    <3>1. v2'[p] = PlanList!Overrides[p]
      BY <2>1, <2>2, <2>3
    <3>2. PlanList!Overrides'[p][y] = IF v2'[p][y] # Nothing THEN v2'[p][y] ELSE v1[p][y]
      BY <2>1 DEF PlanList!Overrides
    <3>3. PlanList!Overrides[p][y] = IF v2[p][y] # Nothing THEN v2[p][y] ELSE v1[p][y]
      BY DEF PlanList!Overrides
    <3>4. PlanList!Overrides'[p][y] = PlanList!Overrides[p][y]
      BY <3>1, <3>2, <3>3
    <3> QED BY <3>4, PlansPrice
  <2>4. ASSUME NEW p \in PlanNames, NEW y \in Cycles, NEW n \in PlanAmounts, v3[c].plan = p, v3[c].change[y] = n
        PROVE  PlanList!Price(p, y)' = n
    <3>1. n # Nothing /\ n # Nobody
      BY DesksAssumption DEF PlanList!TariffAssumption
    <3>2. v2'[p][y] = n
      BY <2>2, <2>4, <3>1 DEF PlanList!Over
    <3>3. PlanList!Overrides'[p][y] = n
      BY <3>1, <3>2 DEF PlanList!Overrides
    <3> QED BY <3>1, <3>3 DEF PlanList!Price
  <2> QED BY <2>1, <2>3, <2>4 DEF PlanList!KeepsTariff, PlanList!At
<1> QED BY <1>2, <1>4, <1>5, <1>6, <1>7 DEF PlanList!Next

\* With one editor at a time a plan's price moves only under an edit of that plan,
\* and to the amount the edit named: the two documents are written one after the
\* other, and each is whole (billing.py:235).
THEOREM TariffIsKept == OfficeSpec => TariffKept
<1> DEFINE Inv == desk = "plans" => PlansOK
<1>1. OfficeInit => Inv
  BY PlansInit DEF OfficeInit
<1>2. Inv /\ [OfficeNext]_officeVars => Inv'
  BY PlansStep, PlansStay, DeskMoves
<1>3. Inv /\ [OfficeNext]_officeVars => [desk = "plans" => PlanList!KeepsTariff]_officeVars
  BY PlansKeep, DeskMoves
<1> QED BY <1>1, <1>2, <1>3, PTL DEF OfficeSpec, TariffKept
-----------------------------------------------------------------------------
\* Legal texts: policies, accepted and drafting are v1, v2 and v3.
TextsOK == Policy!TypeOK /\ Policy!PolicyInv

Version == [version: Versions \cup {0}, text: Wordings \cup {0}, live: BOOLEAN]
Shelf == [Policies -> Version]
RowsIn(ps) == {p \in Policies : ps[p] # Policy!NoPolicy}
LiveIn(ps) == {p \in RowsIn(ps) : ps[p].live}
OneOf(S) == \A p, q \in S : p = q

\* What a call must satisfy where it stands, with these versions on the shelf.
DraftCall(call, ps) ==
  /\ call \in Policy!CallType
  /\ call.pc \in {"pb_live", "retire"} \/ call.publish => call.op = "publish"
  /\ call.pc \in {"cr_insert", "ed_write"} => call.version \in Versions
  /\ call.pc = "pb_live" => call.row \in RowsIn(ps)
  /\ call.pc = "retire" => call.row \in LiveIn(ps) /\ OneOf(LiveIn(ps) \ {call.row})
  /\ call.pc = "ed_write" => call.row \in Policies
  /\ call.pc = "di_delete" => call.row \in Policies \ LiveIn(ps)
Publishing(call) == call.pc # "idle" /\ call.op = "publish"

LEMMA TextsIdle == /\ Policy!Idle \in Policy!CallType /\ Policy!Idle.pc = "idle" /\ ~Policy!Idle.publish
                   /\ \A ps : DraftCall(Policy!Idle, ps)
  BY DEF Policy!Idle, Policy!CallType, Policy!Pc, Policy!AllOps, DraftCall

LEMMA TextsFacts ==
  ASSUME TextsOK
  PROVE  /\ v1 \in Shelf /\ v2 \in [Readers -> [version: Versions \cup {0}, text: Wordings \cup {0}]]
         /\ v3 \in [Calls -> Policy!CallType]
         /\ \A c \in Calls : DraftCall(v3[c], v1) /\ (Publishing(v3[c]) => \A o \in Calls \ {c} : v3[o].pc = "idle")
         /\ (\A c \in Calls : v3[c].pc # "retire") => OneOf(LiveIn(v1))
         /\ Policy!Live = LiveIn(v1) /\ Policy!Rows = RowsIn(v1)
<1>1. Policy!Live = LiveIn(v1) /\ Policy!Rows = RowsIn(v1)
  BY DEF LiveIn, RowsIn, Policy!Live, Policy!Rows
<1>2. v1 \in Shelf /\ v3 \in [Calls -> Policy!CallType]
      /\ v2 \in [Readers -> [version: Versions \cup {0}, text: Wordings \cup {0}]]
  BY DEF TextsOK, Policy!TypeOK, Shelf, Version
<1>3. \A c \in Calls : v3[c] \in Policy!CallType
  BY <1>2
<1> QED BY <1>1, <1>2, <1>3 DEF TextsOK, Policy!PolicyInv, Policy!At, DraftCall, Publishing, OneOf

\* A call moves to rec and the rest find the shelf as they need it.
LEMMA TextsMove ==
  ASSUME TextsOK, NEW c \in Calls, NEW rec, DraftCall(rec, v1'), v3' = [v3 EXCEPT ![c] = rec],
         v1' \in Shelf, v2' \in [Readers -> [version: Versions \cup {0}, text: Wordings \cup {0}]],
         Publishing(rec) => \A o \in Calls \ {c} : v3[o].pc = "idle",
         \A o \in Calls \ {c} : DraftCall(v3[o], v1') /\ (Publishing(v3[o]) => rec.pc = "idle"),
         rec.pc # "retire" /\ (\A o \in Calls \ {c} : v3[o].pc # "retire") => OneOf(LiveIn(v1'))
  PROVE  TextsOK'
<1>1. v3'[c] = rec /\ (\A o \in Calls \ {c} : v3'[o] = v3[o]) /\ rec \in Policy!CallType
  BY TextsFacts DEF DraftCall
<1>2. Policy!Live' = LiveIn(v1') /\ Policy!Rows' = RowsIn(v1')
  BY DEF LiveIn, RowsIn, Policy!Live, Policy!Rows
<1>3. Policy!TypeOK'
  BY <1>1, TextsFacts DEF Policy!TypeOK, Shelf, Version
<1>4. \A o \in Calls : DraftCall(v3'[o], v1')
  BY <1>1
<1>5. \A o \in Calls : Publishing(v3'[o]) => \A x \in Calls \ {o} : v3'[x].pc = "idle"
  BY <1>1, TextsFacts
<1>6. (\A o \in Calls : v3'[o].pc # "retire") => OneOf(LiveIn(v1'))
  BY <1>1
<1>7. Policy!PolicyInv'
  BY <1>2, <1>4, <1>5, <1>6 DEF Policy!PolicyInv, Policy!At, DraftCall, Publishing, OneOf
<1> QED BY <1>3, <1>7 DEF TextsOK

LEMMA TextsInit == Policy!Init => TextsOK
<1> SUFFICES ASSUME Policy!Init PROVE TextsOK
  OBVIOUS
<1>1. Policy!TypeOK
  BY TextsIdle DEF Policy!Init, Policy!TypeOK, Policy!NoPolicy
<1>2. Policy!Live = {}
  BY DEF Policy!Init, Policy!Live, Policy!Rows
<1>3. Policy!PolicyInv
  BY <1>2, TextsIdle DEF Policy!Init, Policy!PolicyInv, Policy!At
<1> QED BY <1>1, <1>3 DEF TextsOK

\* A call begins, and the shelf stands as it was.
LEMMA TextsStart ==
  ASSUME TextsOK, NEW c \in Calls, NEW op \in Policy!AllOps, NEW call, Policy!Start(c, op, call), UNCHANGED <<v1, v2>>,
         call \in Policy!CallType, DraftCall([call EXCEPT !.op = op], v1), call.pc # "retire"
  PROVE  TextsOK'
<1>1. PICK rec : rec = [call EXCEPT !.op = op]
  OBVIOUS
<1>2. rec.pc = call.pc /\ rec.op = op
  BY <1>1 DEF Policy!CallType
<1>3. /\ v3' = [v3 EXCEPT ![c] = rec]
      /\ \A o \in Calls : v3[o].pc = "idle" \/ (op # "publish" /\ v3[o].op # "publish")
      /\ v3[c].pc = "idle"
  BY <1>1 DEF Policy!Start, Policy!At
<1>4. \A o \in Calls : v3[o].pc = "retire" => v3[o].op = "publish"
  BY TextsFacts DEF DraftCall
<1>5. OneOf(LiveIn(v1))
  BY <1>3, <1>4, TextsFacts
<1>6. Publishing(rec) => \A o \in Calls \ {c} : v3[o].pc = "idle"
  BY <1>2, <1>3 DEF Publishing
<1>7. \A o \in Calls \ {c} : DraftCall(v3[o], v1') /\ ~Publishing(v3[o])
  BY <1>3, TextsFacts DEF Publishing
<1> QED BY <1>1, <1>3, <1>5, <1>6, <1>7, TextsFacts, TextsMove

LEMMA TextsShown == ASSUME TextsOK PROVE Policy!Shown \in [version: Versions \cup {0}, text: Wordings \cup {0}]
<1>1. 1 \in Versions
  BY DesksAssumption DEF Policy!LegalAssumption
<1>2. CASE LiveIn(v1) = {}
  BY <1>1, <1>2, TextsFacts DEF Policy!Shown
<1>3. CASE LiveIn(v1) # {}
  <2>a. Versions \cup {0} \subseteq Nat
    BY DesksAssumption DEF Policy!LegalAssumption
  <2>b. \A p \in LiveIn(v1) : p \in Policies /\ v1[p] \in Version
    BY TextsFacts DEF LiveIn, RowsIn, Shelf
  <2>1. \A p \in LiveIn(v1) : p \in Policies /\ v1[p] \in Version /\ v1[p].version \in Nat
    BY <2>a, <2>b DEF Version
  <2>2. PICK a, b \in LiveIn(v1) : LiveIn(v1) \subseteq {a, b}
    <3>1. CASE \A c \in Calls : v3[c].pc # "retire"
      BY <1>3, <3>1, TextsFacts DEF OneOf
    <3>2. CASE \E c \in Calls : v3[c].pc = "retire"
      <4>1. PICK r \in LiveIn(v1) : OneOf(LiveIn(v1) \ {r})
        BY <3>2, TextsFacts DEF DraftCall
      <4>2. CASE LiveIn(v1) = {r}
        BY <4>2
      <4>3. CASE LiveIn(v1) # {r}
        <5>1. PICK s \in LiveIn(v1) : s # r
          BY <4>1, <4>3
        <5>2. LiveIn(v1) \subseteq {r, s}
          BY <4>1, <5>1 DEF OneOf
        <5> QED BY <5>1, <5>2
      <4> QED BY <4>2, <4>3
    <3> QED BY <3>1, <3>2
  <2>3. \E p \in LiveIn(v1) : \A q \in LiveIn(v1) : v1[q].version <= v1[p].version
    <3>1. v1[a].version <= v1[b].version \/ v1[b].version <= v1[a].version
      BY <2>1, <2>2
    <3>2. CASE v1[a].version <= v1[b].version
      BY <2>1, <2>2, <3>2
    <3>3. CASE v1[b].version <= v1[a].version
      BY <2>1, <2>2, <3>3
    <3> QED BY <3>1, <3>2, <3>3
  <2> DEFINE top == CHOOSE p \in LiveIn(v1) : \A q \in LiveIn(v1) : v1[q].version <= v1[p].version
  <2>4. top \in LiveIn(v1)
    BY <2>3
  <2>5. Policy!Shown = [version |-> v1[top].version, text |-> v1[top].text]
    BY <1>3, TextsFacts DEF Policy!Shown
  <2> HIDE DEF top
  <2> QED BY <2>1, <2>4, <2>5 DEF Version
<1> QED BY <1>2, <1>3

\* A call ends and the same versions are live: no other call was publishing.
LEMMA TextsEnd ==
  ASSUME TextsOK, NEW c \in Calls, v3[c].pc \notin {"idle", "retire"}, Policy!End(c), v1' \in Shelf,
         v2' \in [Readers -> [version: Versions \cup {0}, text: Wordings \cup {0}]], LiveIn(v1') = LiveIn(v1)
  PROVE  TextsOK'
<1>1. v3' = [v3 EXCEPT ![c] = Policy!Idle]
  BY DEF Policy!End
<1>2. \A o \in Calls : DraftCall(v3[o], v1) /\ ~(o # c /\ Publishing(v3[o]))
  BY TextsFacts
<1>3. \A o \in Calls \ {c} : v3[o].pc \notin {"pb_live", "retire"}
  BY <1>2 DEF DraftCall, Publishing
<1>4. \A o \in Calls \ {c} : DraftCall(v3[o], v1')
  BY <1>2, <1>3 DEF DraftCall
<1>5. OneOf(LiveIn(v1'))
  BY <1>3, TextsFacts
<1>6. DraftCall(Policy!Idle, v1') /\ ~Publishing(Policy!Idle) /\ Policy!Idle.pc = "idle"
  BY TextsIdle DEF Publishing
<1> QED BY <1>1, <1>2, <1>4, <1>5, <1>6, TextsMove

LEMMA TextsStep == TextsOK /\ Policy!Next => TextsOK' /\ (LiveIn(v1) # {} => LiveIn(v1') # {})
<1> SUFFICES ASSUME TextsOK, NEW c \in Calls, Policy!Step(c)
             PROVE  TextsOK' /\ (LiveIn(v1) # {} => LiveIn(v1') # {})
  BY DEF Policy!Next
<1>1. /\ v1 \in Shelf /\ v2 \in [Readers -> [version: Versions \cup {0}, text: Wordings \cup {0}]]
      /\ v3 \in [Calls -> Policy!CallType]
      /\ \A o \in Calls : /\ DraftCall(v3[o], v1) /\ v3[o] \in Policy!CallType
                          /\ Publishing(v3[o]) => \A x \in Calls \ {o} : v3[x].pc = "idle"
      /\ (\A o \in Calls : v3[o].pc # "retire") => OneOf(LiveIn(v1))
      /\ Policy!Live = LiveIn(v1) /\ Policy!Rows = RowsIn(v1)
  BY TextsFacts
<1>2. Versions \subseteq Nat \ {0} /\ Wordings \subseteq Nat \ {0} /\ 0 \notin Versions /\ 0 \notin Wordings
  BY DesksAssumption DEF Policy!LegalAssumption
<1>3. \A p \in RowsIn(v1) : p \in Policies /\ v1[p] \in Version
  BY <1>1 DEF RowsIn, Shelf
<1>4. ASSUME NEW v \in Versions, NEW x \in Wordings, NEW b \in BOOLEAN, Policy!CreateStart(c, v, x, b) PROVE TextsOK' /\ v1' = v1
  <2> DEFINE op == IF b THEN "publish" ELSE "draft"
  <2>1. PICK call : call = [Policy!Idle EXCEPT !.pc = "cr_insert", !.version = v, !.text = x, !.publish = b]
    OBVIOUS
  <2>2. Policy!Start(c, op, call) /\ UNCHANGED <<v1, v2>>
    BY <1>4, <2>1, Zenon DEF Policy!CreateStart
  <2>3. call \in Policy!CallType /\ call.pc = "cr_insert" /\ call.version = v /\ call.text = x /\ call.publish = b
    BY <2>1, TextsIdle DEF Policy!CallType, Policy!Pc
  <2>4. op \in Policy!AllOps /\ (b => op = "publish")
    BY DEF Policy!AllOps
  <2> HIDE DEF op
  <2>5. DraftCall([call EXCEPT !.op = op], v1)
    BY <1>2, <2>3, <2>4 DEF DraftCall, Policy!CallType
  <2> QED BY <2>2, <2>3, <2>4, <2>5, TextsStart
<1>5. ASSUME NEW p \in Policies, NEW v \in Versions, Policy!DuplicateStart(c, p, v) PROVE TextsOK' /\ v1' = v1
  <2>1. PICK x : x = v1[p].text
    OBVIOUS
  <2>2. PICK call : call = [Policy!Idle EXCEPT !.pc = "cr_insert", !.version = v, !.text = x]
    OBVIOUS
  <2>3. Policy!Start(c, "draft", call) /\ UNCHANGED <<v1, v2>> /\ p \in RowsIn(v1)
    BY <1>1, <1>5, <2>1, <2>2, Zenon DEF Policy!DuplicateStart
  <2>4. x \in Wordings \cup {0}
    BY <1>3, <2>1, <2>3 DEF Version
  <2>5. call \in Policy!CallType /\ call.pc = "cr_insert" /\ call.version = v /\ call.text = x /\ ~call.publish
    BY <2>2, <2>4, TextsIdle DEF Policy!CallType, Policy!Pc
  <2>6. DraftCall([call EXCEPT !.op = "draft"], v1)
    BY <1>2, <2>4, <2>5 DEF DraftCall, Policy!CallType, Policy!AllOps
  <2> QED BY <2>3, <2>5, <2>6, TextsStart DEF Policy!AllOps
<1>6. ASSUME NEW p \in Policies, Policy!CreateInsert(c, p)
      PROVE  TextsOK' /\ LiveIn(v1) \subseteq LiveIn(v1')
  <2>1. PICK call \in Policy!CallType : call = v3[c]
    BY <1>1
  <2>2. call.pc = "cr_insert" /\ call.version \in Versions /\ DraftCall(call, v1)
    BY <1>1, <1>6, <2>1 DEF Policy!CreateInsert, Policy!At, DraftCall
  <2>3. PICK row : row = [version |-> call.version, text |-> call.text, live |-> call.publish]
    OBVIOUS
  <2>4. row \in Version /\ row # Policy!NoPolicy /\ row.live = call.publish
    BY <1>2, <2>2, <2>3 DEF Version, Policy!NoPolicy, Policy!CallType
  <2>5. v1' = [v1 EXCEPT ![p] = row] /\ p \notin RowsIn(v1) /\ v2' = v2
    BY <1>1, <1>6, <2>1, <2>3 DEF Policy!CreateInsert
  <2>6. v1' \in Shelf
    BY <1>1, <2>4, <2>5 DEF Shelf
  <2>7. LiveIn(v1') = IF call.publish THEN LiveIn(v1) \cup {p} ELSE LiveIn(v1)
    BY <1>1, <2>4, <2>5 DEF LiveIn, RowsIn, Shelf
  <2>8. CASE ~call.publish
    BY <1>1, <1>6, <2>1, <2>2, <2>5, <2>6, <2>7, <2>8, TextsEnd DEF Policy!CreateInsert
  <2>9. CASE call.publish
    <3>1. call.op = "publish"
      BY <2>2, <2>9 DEF DraftCall
    <3>2. PICK rec : rec = [call EXCEPT !.pc = "retire", !.row = p]
      OBVIOUS
    <3>3. rec \in Policy!CallType /\ rec.pc = "retire" /\ rec.row = p /\ rec.op = "publish"
      BY <2>1, <3>1, <3>2 DEF Policy!CallType, Policy!Pc
    <3>4. v3' = [v3 EXCEPT ![c] = rec]
      <4>1. v3' = [v3 EXCEPT ![c].pc = "retire", ![c].row = p]
        BY <1>6, <2>1, <2>9 DEF Policy!CreateInsert
      <4> QED BY <1>1, <2>1, <3>2, <4>1
    <3>5. \A o \in Calls \ {c} : v3[o].pc = "idle" /\ ~Publishing(v3[o])
      BY <1>1, <2>1, <2>2, <3>1 DEF Publishing
    <3>6. OneOf(LiveIn(v1)) /\ p \notin LiveIn(v1)
      BY <1>1, <2>1, <2>2, <2>5, <3>5 DEF LiveIn
    <3>7. LiveIn(v1') \ {p} = LiveIn(v1) /\ p \in LiveIn(v1')
      BY <2>7, <2>9, <3>6
    <3>8. DraftCall(rec, v1')
      BY <3>3, <3>6, <3>7 DEF DraftCall
    <3>9. \A o \in Calls \ {c} : DraftCall(v3[o], v1')
      BY <1>1, <3>5 DEF DraftCall
    <3> QED BY <1>1, <2>5, <2>6, <3>3, <3>4, <3>5, <3>7, <3>8, <3>9, TextsMove
  <2> QED BY <2>7, <2>8, <2>9
<1>7. ASSUME NEW p \in Policies, Policy!PublishStart(c, p) PROVE TextsOK' /\ v1' = v1
  <2>1. PICK call : call = [Policy!Idle EXCEPT !.pc = "pb_live", !.row = p]
    OBVIOUS
  <2>2. Policy!Start(c, "publish", call) /\ UNCHANGED <<v1, v2>> /\ p \in RowsIn(v1)
    BY <1>1, <1>7, <2>1, Zenon DEF Policy!PublishStart
  <2>3. call \in Policy!CallType /\ call.pc = "pb_live" /\ call.row = p /\ ~call.publish
    BY <2>1, TextsIdle DEF Policy!CallType, Policy!Pc
  <2>4. DraftCall([call EXCEPT !.op = "publish"], v1)
    BY <2>2, <2>3 DEF DraftCall, Policy!CallType, Policy!AllOps
  <2> QED BY <2>2, <2>3, <2>4, TextsStart DEF Policy!AllOps
<1>8. ASSUME NEW p \in Policies, Policy!DiscardStart(c, p) PROVE TextsOK' /\ v1' = v1
  <2>1. PICK call : call = [Policy!Idle EXCEPT !.pc = "di_delete", !.row = p]
    OBVIOUS
  <2>2. Policy!Start(c, "discard", call) /\ UNCHANGED <<v1, v2>> /\ p \in RowsIn(v1) /\ ~v1[p].live
    BY <1>1, <1>8, <2>1, Zenon DEF Policy!DiscardStart, Policy!Changeable
  <2>3. call \in Policy!CallType /\ call.pc = "di_delete" /\ call.row = p /\ ~call.publish
    BY <2>1, TextsIdle DEF Policy!CallType, Policy!Pc
  <2>4. DraftCall([call EXCEPT !.op = "discard"], v1)
    BY <2>2, <2>3 DEF DraftCall, Policy!CallType, Policy!AllOps, LiveIn
  <2> QED BY <2>2, <2>3, <2>4, TextsStart DEF Policy!AllOps
<1>9. ASSUME NEW p \in Policies, NEW v \in Versions, NEW x \in Wordings, Policy!EditStart(c, p, v, x) PROVE TextsOK' /\ v1' = v1
  <2>1. PICK call : call = [Policy!Idle EXCEPT !.pc = "ed_write", !.row = p, !.version = v, !.text = x]
    OBVIOUS
  <2>2. Policy!Start(c, "edit", call) /\ UNCHANGED <<v1, v2>>
    BY <1>9, <2>1, Zenon DEF Policy!EditStart
  <2>3. call \in Policy!CallType /\ call.pc = "ed_write" /\ call.row = p /\ call.version = v /\ ~call.publish
    BY <2>1, TextsIdle DEF Policy!CallType, Policy!Pc
  <2>4. DraftCall([call EXCEPT !.op = "edit"], v1)
    BY <2>2, <2>3 DEF DraftCall, Policy!CallType, Policy!AllOps
  <2> QED BY <2>2, <2>3, <2>4, TextsStart DEF Policy!AllOps
<1>10. ASSUME Policy!AcceptStart(c) PROVE TextsOK' /\ v1' = v1
  <2>1. PICK s : s = Policy!Shown
    OBVIOUS
  <2>2. s.version \in Versions \cup {0} /\ s.text \in Wordings \cup {0}
    BY <2>1, TextsShown
  <2>3. PICK call : call = [Policy!Idle EXCEPT !.pc = "ac_write", !.version = s.version, !.text = s.text]
    OBVIOUS
  <2>4. Policy!Start(c, "accept", call) /\ UNCHANGED <<v1, v2>>
    BY <1>10, <2>1, <2>3, Zenon DEF Policy!AcceptStart
  <2>5. call \in Policy!CallType /\ call.pc = "ac_write" /\ ~call.publish
    BY <2>2, <2>3, TextsIdle DEF Policy!CallType, Policy!Pc
  <2>6. DraftCall([call EXCEPT !.op = "accept"], v1)
    BY <2>5 DEF DraftCall, Policy!CallType, Policy!AllOps
  <2> QED BY <2>4, <2>5, <2>6, TextsStart DEF Policy!AllOps
<1>11. ASSUME Policy!PublishLive(c) PROVE TextsOK' /\ LiveIn(v1) \subseteq LiveIn(v1')
  <2>1. PICK call \in Policy!CallType : call = v3[c]
    BY <1>1
  <2>2. PICK r : r = call.row
    OBVIOUS
  <2>3. call.pc = "pb_live" /\ call.op = "publish" /\ r \in RowsIn(v1)
    BY <1>1, <1>11, <2>1, <2>2 DEF Policy!PublishLive, Policy!At, DraftCall
  <2>4. v1' = [v1 EXCEPT ![r].live = TRUE] /\ v2' = v2
    BY <1>1, <1>11, <2>1, <2>2, <2>3 DEF Policy!PublishLive
  <2>5. PICK row : row = [v1[r] EXCEPT !.live = TRUE]
    OBVIOUS
  <2>6. row \in Version /\ row # Policy!NoPolicy /\ row.live
    BY <1>3, <2>3, <2>5 DEF Version, Policy!NoPolicy
  <2>7. v1' = [v1 EXCEPT ![r] = row]
    BY <1>1, <2>4, <2>5 DEF Shelf
  <2>8. v1' \in Shelf /\ LiveIn(v1') = LiveIn(v1) \cup {r}
    BY <1>1, <1>3, <2>3, <2>6, <2>7 DEF LiveIn, RowsIn, Shelf
  <2>9. \A o \in Calls \ {c} : v3[o].pc = "idle" /\ ~Publishing(v3[o])
    BY <1>1, <2>1, <2>3 DEF Publishing
  <2>10. OneOf(LiveIn(v1))
    BY <1>1, <2>1, <2>3, <2>9
  <2>11. OneOf(LiveIn(v1') \ {r}) /\ r \in LiveIn(v1')
    BY <2>8, <2>10 DEF OneOf
  <2>12. PICK rec : rec = [call EXCEPT !.pc = "retire"]
    OBVIOUS
  <2>13. rec \in Policy!CallType /\ rec.pc = "retire" /\ rec.row = r /\ rec.op = "publish"
    BY <2>2, <2>3, <2>12 DEF Policy!CallType, Policy!Pc
  <2>14. v3' = [v3 EXCEPT ![c] = rec]
    BY <1>1, <1>11, <2>1, <2>12 DEF Policy!PublishLive, Policy!Goto
  <2>15. DraftCall(rec, v1')
    BY <2>11, <2>13 DEF DraftCall
  <2>16. \A o \in Calls \ {c} : DraftCall(v3[o], v1')
    BY <1>1, <2>9 DEF DraftCall
  <2> QED BY <1>1, <2>4, <2>8, <2>9, <2>13, <2>14, <2>15, <2>16, TextsMove
<1>12. ASSUME Policy!Retire(c) PROVE TextsOK' /\ LiveIn(v1') # {}
  <2>1. PICK r : r = v3[c].row
    OBVIOUS
  <2>2. v3[c].pc = "retire" /\ v3[c].op = "publish" /\ r \in LiveIn(v1)
    BY <1>1, <1>12, <2>1 DEF Policy!Retire, Policy!At, DraftCall
  <2>3. /\ v1' = [p \in Policies |-> IF p \in RowsIn(v1) \ {r} THEN [v1[p] EXCEPT !.live = FALSE] ELSE v1[p]]
        /\ v2' = v2 /\ v3' = [v3 EXCEPT ![c] = Policy!Idle]
    BY <1>1, <1>12, <2>1 DEF Policy!Retire, Policy!Retired, Policy!End
  <2>4. r \in Policies /\ r \in RowsIn(v1) /\ v1[r].live
    BY <2>2 DEF LiveIn, RowsIn
  <2>5. \A p \in Policies : v1'[p] \in Version /\ (p # r => ~(p \in RowsIn(v1) /\ v1'[p].live))
    <3> SUFFICES ASSUME NEW p \in Policies PROVE v1'[p] \in Version /\ (p # r => ~(p \in RowsIn(v1) /\ v1'[p].live))
      OBVIOUS
    <3>1. v1[p] \in Version
      BY <1>1 DEF Shelf
    <3>2. CASE p \in RowsIn(v1) \ {r}
      BY <2>3, <3>1, <3>2 DEF Version
    <3>3. CASE p \notin RowsIn(v1) \ {r}
      BY <2>3, <3>1, <3>3 DEF Version
    <3> QED BY <3>2, <3>3
  <2>6. v1' \in Shelf
    BY <2>3, <2>5 DEF Shelf
  <2>7. \A p \in Policies : p \notin RowsIn(v1) => v1'[p] = Policy!NoPolicy
    BY <2>3 DEF RowsIn
  <2>8. v1'[r] = v1[r]
    BY <2>3, <2>4
  <2>9. LiveIn(v1') = {r}
    BY <2>4, <2>5, <2>7, <2>8 DEF LiveIn, RowsIn
  <2>10. \A o \in Calls \ {c} : v3[o].pc = "idle" /\ ~Publishing(v3[o])
    BY <1>1, <2>2 DEF Publishing
  <2>11. \A o \in Calls \ {c} : DraftCall(v3[o], v1')
    BY <1>1, <2>10 DEF DraftCall
  <2>12. DraftCall(Policy!Idle, v1') /\ ~Publishing(Policy!Idle) /\ OneOf(LiveIn(v1'))
    BY <2>9, TextsIdle DEF Publishing, OneOf
  <2> QED BY <1>1, <2>3, <2>6, <2>9, <2>10, <2>11, <2>12, TextsMove
<1>13. ASSUME Policy!EditWrite(c) PROVE TextsOK' /\ LiveIn(v1') = LiveIn(v1)
  <2>1. PICK call \in Policy!CallType : call = v3[c]
    BY <1>1
  <2>2. PICK r : r = call.row
    OBVIOUS
  <2>3. call.pc = "ed_write" /\ call.version \in Versions /\ v2' = v2 /\ Policy!End(c)
    BY <1>1, <1>13, <2>1 DEF Policy!EditWrite, Policy!At, DraftCall
  <2>4. CASE r \in RowsIn(v1)
    <3>1. v1' = [v1 EXCEPT ![r].version = call.version, ![r].text = call.text]
      BY <1>1, <1>13, <2>1, <2>2, <2>4 DEF Policy!EditWrite
    <3>2. PICK row : row = [v1[r] EXCEPT !.version = call.version, !.text = call.text]
      OBVIOUS
    <3>3. row \in Version /\ row # Policy!NoPolicy /\ row.live = v1[r].live
      BY <1>2, <1>3, <2>3, <2>4, <3>2 DEF Version, Policy!NoPolicy, Policy!CallType
    <3>4. v1' = [v1 EXCEPT ![r] = row]
      BY <1>1, <1>3, <2>4, <3>1, <3>2 DEF Shelf
    <3>5. v1' \in Shelf
      BY <1>1, <3>3, <3>4 DEF Shelf
    <3>6. LiveIn(v1') = LiveIn(v1)
      BY <1>1, <1>3, <2>4, <3>3, <3>4 DEF LiveIn, RowsIn, Shelf
    <3> QED BY <1>1, <2>1, <2>3, <3>5, <3>6, TextsEnd
  <2>5. CASE r \notin RowsIn(v1)
    <3>1. v1' = v1
      BY <1>1, <1>13, <2>1, <2>2, <2>5 DEF Policy!EditWrite
    <3> QED BY <1>1, <2>1, <2>3, <3>1, TextsEnd
  <2> QED BY <2>4, <2>5
<1>14. ASSUME Policy!DiscardDelete(c) PROVE TextsOK' /\ LiveIn(v1') = LiveIn(v1)
  <2>1. PICK r : r = v3[c].row
    OBVIOUS
  <2>2. v3[c].pc = "di_delete" /\ r \in Policies \ LiveIn(v1) /\ v2' = v2 /\ Policy!End(c)
    BY <1>1, <1>14, <2>1 DEF Policy!DiscardDelete, Policy!At, DraftCall
  <2>3. v1' = [v1 EXCEPT ![r] = Policy!NoPolicy]
    BY <1>14, <2>1 DEF Policy!DiscardDelete
  <2>4. Policy!NoPolicy \in Version
    BY DEF Version, Policy!NoPolicy
  <2>5. v1' \in Shelf
    BY <1>1, <2>3, <2>4 DEF Shelf
  <2>6. LiveIn(v1') = LiveIn(v1)
    BY <1>1, <2>2, <2>3 DEF LiveIn, RowsIn, Shelf
  <2> QED BY <1>1, <2>2, <2>5, <2>6, TextsEnd
<1>15. ASSUME NEW u \in Readers, Policy!AcceptWrite(c, u) PROVE TextsOK' /\ v1' = v1
  <2>1. PICK call \in Policy!CallType : call = v3[c]
    BY <1>1
  <2>2. call.pc = "ac_write" /\ v1' = v1 /\ Policy!End(c)
    BY <1>15, <2>1 DEF Policy!AcceptWrite, Policy!At
  <2>3. v2' = [v2 EXCEPT ![u] = [version |-> call.version, text |-> call.text]]
    BY <1>15, <2>1 DEF Policy!AcceptWrite
  <2>4. v2' \in [Readers -> [version: Versions \cup {0}, text: Wordings \cup {0}]]
    BY <1>1, <2>3 DEF Policy!CallType
  <2> QED BY <1>1, <2>1, <2>2, <2>4, TextsEnd
<1> QED BY <1>4, <1>5, <1>6, <1>7, <1>8, <1>9, <1>10, <1>11, <1>12, <1>13, <1>14, <1>15 DEF Policy!Step

LEMMA TextsStay == TextsOK /\ UNCHANGED atDesk => TextsOK' /\ v1' = v1
<1> SUFFICES ASSUME TextsOK, UNCHANGED atDesk PROVE TextsOK' /\ v1' = v1
  OBVIOUS
<1>1. v1' = v1 /\ v2' = v2 /\ v3' = v3
  BY DEF atDesk
<1> QED BY <1>1 DEF TextsOK, Policy!TypeOK, Policy!PolicyInv, Policy!At, Policy!Live, Policy!Rows

LEMMA TextsLive == /\ Policy!StaysLive <=> (LiveIn(v1) # {} => LiveIn(v1') # {})
  BY DEF Policy!StaysLive, Policy!Live, Policy!Rows, LiveIn, RowsIn

\* With one publication at a time, once a version of a policy has been published
\* some version of it is live at every moment: the new one goes up before the old
\* ones are retired, and the live one is neither edited nor deleted
\* (legal/router.py:273).
THEOREM TermsStayUp == OfficeSpec => AlwaysLive
<1> DEFINE Inv == desk = "texts" => TextsOK
<1>1. OfficeInit => Inv
  BY TextsInit DEF OfficeInit
<1>2. Inv /\ [OfficeNext]_officeVars => Inv'
  BY TextsStep, TextsStay, DeskMoves
<1>3. Inv /\ [OfficeNext]_officeVars => [desk = "texts" => Policy!StaysLive]_officeVars
  BY TextsStep, TextsStay, TextsLive, DeskMoves
<1> QED BY <1>1, <1>2, <1>3, PTL DEF OfficeSpec, AlwaysLive
-----------------------------------------------------------------------------
\* The calendar: now, agenda, mirrored, lost and planning are v1 to v5.
CalendarOK == Calendar!TypeOK /\ Calendar!CalendarInv

AgendaRow == [client: Guests \cup {"none"}, consultant: Consultants \cup {"none"},
              at: Calendar!Time, status: {"none", "scheduled", "cancelled"}]
MirrorRow == [at: Calendar!Time, status: {"none", "open", "dismissed"}]
PlanCall == [pc: {"idle", "cr_mirror", "ca_clear"}, op: {"create", "cancel"}, x: Appointments]

\* What a call must satisfy where it stands, and an appointment nobody is at.
PlanAt(call, ag) ==
  /\ call \in PlanCall
  /\ call.pc = "cr_mirror" => ag[call.x].status = "scheduled" /\ call.op = "create"
  /\ call.pc = "ca_clear" => ag[call.x].status = "cancelled" /\ call.op = "cancel"
Settled(row, mirror) ==
  /\ row.status = "scheduled" <=> mirror.status # "none"
  /\ mirror.status # "none" => mirror.at = row.at
Attended(row) == row.status # "none" => row.consultant \in Consultants /\ row.client \in Guests
Off(call, x) == call.pc = "idle" \/ call.x # x

LEMMA CalendarFacts ==
  ASSUME CalendarOK
  PROVE  /\ v1 \in Calendar!Time /\ v2 \in [Appointments -> AgendaRow] /\ v3 \in [Appointments -> MirrorRow]
         /\ v4 \subseteq Appointments /\ v5 \in [Calls -> PlanCall]
         /\ \A c \in Calls : PlanAt(v5[c], v2) /\ (v5[c].pc = "cr_mirror" => \A o \in Calls \ {c} : v5[o].pc = "idle")
         /\ \A x \in Appointments : Attended(v2[x])
         /\ \A x \in Appointments \ v4 : (\A c \in Calls : Off(v5[c], x)) => Settled(v2[x], v3[x])
<1>1. /\ v1 \in Calendar!Time /\ v2 \in [Appointments -> AgendaRow] /\ v3 \in [Appointments -> MirrorRow]
      /\ v4 \subseteq Appointments /\ v5 \in [Calls -> PlanCall]
  BY DEF CalendarOK, Calendar!TypeOK, AgendaRow, MirrorRow, PlanCall
<1>2. \A x : x \in Calendar!Rows <=> x \in Appointments /\ v3[x].status # "none"
  BY DEF Calendar!Rows
<1>3. \A c \in Calls : v5[c] \in PlanCall
  BY <1>1
<1> QED BY <1>1, <1>2, <1>3 DEF CalendarOK, Calendar!CalendarInv, Calendar!At, PlanAt, Settled, Attended, Off

\* A call moves to rec and the rest find the agenda as they need it.
LEMMA CalendarMove ==
  ASSUME CalendarOK, NEW c \in Calls, NEW rec, PlanAt(rec, v2'), v5' = [v5 EXCEPT ![c] = rec],
         v1' \in Calendar!Time, v2' \in [Appointments -> AgendaRow], v3' \in [Appointments -> MirrorRow],
         v4' \subseteq Appointments, \A x \in Appointments : Attended(v2'[x]),
         rec.pc = "cr_mirror" => \A o \in Calls \ {c} : v5[o].pc = "idle",
         \A o \in Calls \ {c} : PlanAt(v5[o], v2') /\ (v5[o].pc = "cr_mirror" => rec.pc = "idle"),
         \A x \in Appointments \ v4' :
            Off(rec, x) /\ (\A o \in Calls \ {c} : Off(v5[o], x)) => Settled(v2'[x], v3'[x])
  PROVE  CalendarOK'
<1>1. v5'[c] = rec /\ (\A o \in Calls \ {c} : v5'[o] = v5[o]) /\ rec \in PlanCall
  BY CalendarFacts DEF PlanAt
<1>2. \A x : x \in Calendar!Rows' <=> x \in Appointments /\ v3'[x].status # "none"
  BY DEF Calendar!Rows
<1>3. Calendar!TypeOK'
  BY <1>1, CalendarFacts DEF Calendar!TypeOK, AgendaRow, MirrorRow, PlanCall
<1>4. \A o \in Calls : PlanAt(v5'[o], v2')
  BY <1>1
<1>5. \A o \in Calls : v5'[o].pc = "cr_mirror" => \A x \in Calls \ {o} : v5'[x].pc = "idle"
  BY <1>1, CalendarFacts
<1>6. \A x \in Appointments \ v4' : (\A o \in Calls : Off(v5'[o], x)) => Settled(v2'[x], v3'[x])
  BY <1>1
<1>7. Calendar!CalendarInv'
  BY <1>2, <1>4, <1>5, <1>6 DEF Calendar!CalendarInv, Calendar!At, PlanAt, Settled, Attended, Off
<1> QED BY <1>3, <1>7 DEF CalendarOK

LEMMA PlanIdle == Calendar!Idle \in PlanCall /\ Calendar!Idle.pc = "idle" /\ \A ag : PlanAt(Calendar!Idle, ag)
<1> DEFINE x0 == CHOOSE x \in Appointments : TRUE
<1>1. x0 \in Appointments
  BY DesksAssumption DEF Calendar!WorklistAssumption
<1>2. Calendar!Idle = [pc |-> "idle", op |-> "create", x |-> x0]
  BY DEF Calendar!Idle
<1> HIDE DEF x0
<1> QED BY <1>1, <1>2 DEF PlanCall, PlanAt

LEMMA CalendarTimes == 0 \in Calendar!Time /\ Calendar!Time \subseteq Nat
  BY DesksAssumption DEF Calendar!WorklistAssumption, Calendar!Time

LEMMA CalendarInit == Calendar!Init => CalendarOK
<1> SUFFICES ASSUME Calendar!Init PROVE CalendarOK
  OBVIOUS
<1>1. Calendar!TypeOK
  BY CalendarTimes, PlanIdle DEF Calendar!Init, Calendar!TypeOK, Calendar!NoMirror, Calendar!NoRow, PlanCall
<1>2. Calendar!Rows = {}
  BY DEF Calendar!Init, Calendar!Rows, Calendar!NoMirror
<1>3. Calendar!CalendarInv
  BY <1>2, PlanIdle DEF Calendar!Init, Calendar!CalendarInv, Calendar!At, Calendar!NoRow
<1> QED BY <1>1, <1>3 DEF CalendarOK

LEMMA CalendarStep == CalendarOK /\ Calendar!Next => CalendarOK'
<1> SUFFICES ASSUME CalendarOK, Calendar!Next PROVE CalendarOK'
  OBVIOUS
<1>1. /\ v1 \in Calendar!Time /\ v2 \in [Appointments -> AgendaRow] /\ v3 \in [Appointments -> MirrorRow]
      /\ v4 \subseteq Appointments /\ v5 \in [Calls -> PlanCall]
      /\ \A c \in Calls : PlanAt(v5[c], v2) /\ v5[c] \in PlanCall
      /\ \A c \in Calls : v5[c].pc = "cr_mirror" => \A o \in Calls \ {c} : v5[o].pc = "idle"
      /\ \A x \in Appointments : Attended(v2[x]) /\ v2[x] \in AgendaRow /\ v3[x] \in MirrorRow
      /\ \A x \in Appointments \ v4 : (\A c \in Calls : Off(v5[c], x)) => Settled(v2[x], v3[x])
  BY CalendarFacts
<1>2. ASSUME NEW c \in Calls, NEW x \in Appointments, NEW k \in Guests, NEW s \in Consultants,
             NEW at \in Calendar!Time, Calendar!Create(c, x, k, s, at)
      PROVE  CalendarOK'
  <2>1. PICK rec : rec = [pc |-> "cr_mirror", op |-> "create", x |-> x]
    OBVIOUS
  <2>2. PICK row : row = [client |-> k, consultant |-> s, at |-> at, status |-> "scheduled"]
    OBVIOUS
  <2>3. Calendar!Start(c, "create", "cr_mirror", x) /\ v2' = [v2 EXCEPT ![x] = row] /\ UNCHANGED <<v1, v3, v4>>
    BY <1>2, <2>2 DEF Calendar!Create
  <2>4. v5' = [v5 EXCEPT ![c] = rec] /\ \A o \in Calls : v5[o].pc = "idle"
    BY <2>1, <2>3 DEF Calendar!Start, Calendar!At
  <2>5. rec \in PlanCall /\ rec.pc = "cr_mirror" /\ rec.op = "create" /\ rec.x = x
    BY <2>1 DEF PlanCall
  <2>6. row \in AgendaRow /\ row.status = "scheduled" /\ Attended(row)
    BY <2>2 DEF AgendaRow, Attended
  <2>7. v2' \in [Appointments -> AgendaRow] /\ v2'[x] = row /\ \A y \in Appointments \ {x} : v2'[y] = v2[y]
    BY <1>1, <2>3, <2>6
  <2>8. PlanAt(rec, v2') /\ \A o \in Calls \ {c} : PlanAt(v5[o], v2')
    BY <1>1, <2>4, <2>5, <2>6, <2>7 DEF PlanAt
  <2>9. \A y \in Appointments \ v4' : Off(rec, y) => Settled(v2'[y], v3'[y])
    BY <1>1, <2>3, <2>4, <2>5, <2>7 DEF Off
  <2>10. \A y \in Appointments : Attended(v2'[y])
    BY <1>1, <2>6, <2>7
  <2>11. \A o \in Calls \ {c} : PlanAt(v5[o], v2') /\ v5[o].pc # "cr_mirror"
    BY <2>4, <2>8
  <2>12. v1' \in Calendar!Time /\ v3' \in [Appointments -> MirrorRow] /\ v4' \subseteq Appointments
    BY <1>1, <2>3
  <2> QED BY <2>4, <2>7, <2>8, <2>9, <2>10, <2>11, <2>12, CalendarMove
<1>3. ASSUME NEW c \in Calls, NEW x \in Appointments, Calendar!Cancel(c, x) PROVE CalendarOK'
  <2>1. PICK rec : rec = [pc |-> "ca_clear", op |-> "cancel", x |-> x]
    OBVIOUS
  <2>2. PICK row : row = [v2[x] EXCEPT !.status = "cancelled"]
    OBVIOUS
  <2>3. Calendar!Start(c, "cancel", "ca_clear", x) /\ v2' = [v2 EXCEPT ![x] = row] /\ UNCHANGED <<v1, v3, v4>>
        /\ v2[x].status # "none"
    BY <1>1, <1>3, <2>2 DEF Calendar!Cancel
  <2>4. v5' = [v5 EXCEPT ![c] = rec] /\ v5[c].pc = "idle" /\ \A o \in Calls : v5[o].pc # "cr_mirror"
    BY <1>1, <2>1, <2>3 DEF Calendar!Start, Calendar!At, PlanAt
  <2>5. rec \in PlanCall /\ rec.pc = "ca_clear" /\ rec.op = "cancel" /\ rec.x = x
    BY <2>1 DEF PlanCall
  <2>6. row \in AgendaRow /\ row.status = "cancelled" /\ Attended(row)
    BY <1>1, <2>2, <2>3 DEF AgendaRow, Attended
  <2>7. v2' \in [Appointments -> AgendaRow] /\ v2'[x] = row /\ \A y \in Appointments \ {x} : v2'[y] = v2[y]
    BY <1>1, <2>3, <2>6
  <2>8. PlanAt(rec, v2') /\ \A o \in Calls \ {c} : PlanAt(v5[o], v2')
    <3>1. PlanAt(rec, v2')
      BY <2>5, <2>6, <2>7 DEF PlanAt
    <3>2. ASSUME NEW o \in Calls PROVE PlanAt(v5[o], v2')
      <4>1. PlanAt(v5[o], v2) /\ v5[o].x \in Appointments /\ v5[o].pc # "cr_mirror"
        BY <1>1, <2>4 DEF PlanCall
      <4>2. CASE v5[o].x = x
        BY <2>6, <2>7, <4>1, <4>2 DEF PlanAt
      <4>3. CASE v5[o].x # x
        BY <2>7, <4>1, <4>3 DEF PlanAt
      <4> QED BY <4>2, <4>3
    <3> QED BY <3>1, <3>2
  <2>9. \A y \in Appointments \ v4' :
           Off(rec, y) /\ (\A o \in Calls \ {c} : Off(v5[o], y)) => Settled(v2'[y], v3'[y])
    BY <1>1, <2>3, <2>4, <2>5, <2>7 DEF Off
  <2>10. \A y \in Appointments : Attended(v2'[y])
    BY <1>1, <2>6, <2>7
  <2>11. \A o \in Calls \ {c} : PlanAt(v5[o], v2') /\ v5[o].pc # "cr_mirror"
    BY <2>4, <2>8
  <2>12. v1' \in Calendar!Time /\ v3' \in [Appointments -> MirrorRow] /\ v4' \subseteq Appointments
    BY <1>1, <2>3
  <2> QED BY <2>4, <2>5, <2>7, <2>8, <2>9, <2>10, <2>11, <2>12, CalendarMove
<1>4. ASSUME NEW c \in Calls, Calendar!CreateMirror(c) PROVE CalendarOK'
  <2>1. PICK x \in Appointments : x = v5[c].x
    BY <1>1 DEF PlanCall
  <2>2. PICK row : row = [at |-> v2[x].at, status |-> "open"]
    OBVIOUS
  <2>3. v3' = [v3 EXCEPT ![x] = row] /\ UNCHANGED <<v1, v2, v4>> /\ v5' = [v5 EXCEPT ![c] = Calendar!Idle]
        /\ v5[c].pc = "cr_mirror"
    BY <1>4, <2>1, <2>2 DEF Calendar!CreateMirror, Calendar!End, Calendar!At
  <2>4. row \in MirrorRow /\ Settled(v2[x], row)
    BY <1>1, <2>1, <2>2, <2>3 DEF MirrorRow, AgendaRow, Settled, PlanAt
  <2>5. v3' \in [Appointments -> MirrorRow] /\ v3'[x] = row /\ \A y \in Appointments \ {x} : v3'[y] = v3[y]
    BY <1>1, <2>3, <2>4
  <2>6. \A y \in Appointments \ v4' : (\A o \in Calls \ {c} : Off(v5[o], y)) => Settled(v2'[y], v3'[y])
    BY <1>1, <2>1, <2>3, <2>4, <2>5 DEF Off
  <2> QED BY <1>1, <2>3, <2>5, <2>6, PlanIdle, CalendarMove
<1>5. ASSUME NEW c \in Calls, Calendar!CancelClear(c) PROVE CalendarOK'
  <2>1. PICK x \in Appointments : x = v5[c].x
    BY <1>1 DEF PlanCall
  <2>2. v3' = [v3 EXCEPT ![x] = Calendar!NoMirror] /\ UNCHANGED <<v1, v2, v4>>
        /\ v5' = [v5 EXCEPT ![c] = Calendar!Idle] /\ v5[c].pc = "ca_clear"
    BY <1>5, <2>1 DEF Calendar!CancelClear, Calendar!Cleared, Calendar!End, Calendar!At
  <2>3. Calendar!NoMirror \in MirrorRow /\ Settled(v2[x], Calendar!NoMirror)
    BY <1>1, <2>1, <2>2, CalendarTimes DEF MirrorRow, Calendar!NoMirror, Settled, PlanAt
  <2>4. v3' \in [Appointments -> MirrorRow] /\ v3'[x] = Calendar!NoMirror /\ \A y \in Appointments \ {x} : v3'[y] = v3[y]
    BY <1>1, <2>2, <2>3
  <2>5. \A y \in Appointments \ v4' : (\A o \in Calls \ {c} : Off(v5[o], y)) => Settled(v2'[y], v3'[y])
    BY <1>1, <2>1, <2>2, <2>3, <2>4 DEF Off
  <2> QED BY <1>1, <2>2, <2>4, <2>5, PlanIdle, CalendarMove
<1>6. ASSUME NEW c \in Calls, Calendar!Crash(c) PROVE CalendarOK'
  <2>1. PICK x \in Appointments : x = v5[c].x
    BY <1>1 DEF PlanCall
  <2>2. v4' = v4 \cup {x} /\ UNCHANGED <<v1, v2, v3>> /\ v5' = [v5 EXCEPT ![c] = Calendar!Idle]
    BY <1>6, <2>1 DEF Calendar!Crash, Calendar!End
  <2>3. \A y \in Appointments \ v4' : (\A o \in Calls \ {c} : Off(v5[o], y)) => Settled(v2'[y], v3'[y])
    BY <1>1, <2>1, <2>2 DEF Off
  <2> QED BY <1>1, <2>2, <2>3, PlanIdle, CalendarMove
<1>7. ASSUME NEW x \in Appointments, NEW s \in Consultants, Calendar!Dismiss(s, x) PROVE CalendarOK'
  <2>1. PICK row : row = [v3[x] EXCEPT !.status = "dismissed"]
    OBVIOUS
  <2>2. v3' = [v3 EXCEPT ![x] = row] /\ UNCHANGED <<v1, v2, v4, v5>> /\ v3[x].status # "none"
    BY <1>1, <1>7, <2>1 DEF Calendar!Dismiss
  <2>3. row \in MirrorRow /\ row.status # "none" /\ row.at = v3[x].at
    BY <1>1, <2>1 DEF MirrorRow
  <2>4. v3' \in [Appointments -> MirrorRow] /\ v3'[x] = row /\ \A y \in Appointments \ {x} : v3'[y] = v3[y]
    BY <1>1, <2>2, <2>3
  <2>5. \A y \in Appointments \ v4 : (\A o \in Calls : Off(v5[o], y)) => Settled(v2[y], v3'[y])
    BY <1>1, <2>2, <2>3, <2>4 DEF Settled
  <2>6. Calendar!TypeOK'
    BY <1>1, <2>2, <2>4 DEF Calendar!TypeOK, AgendaRow, MirrorRow, PlanCall
  <2>7. \A y : y \in Calendar!Rows' <=> y \in Appointments /\ v3'[y].status # "none"
    BY DEF Calendar!Rows
  <2>8. Calendar!CalendarInv'
    BY <1>1, <2>2, <2>5, <2>7 DEF Calendar!CalendarInv, Calendar!At, PlanAt, Settled, Attended, Off
  <2> QED BY <2>6, <2>8 DEF CalendarOK
<1>8. ASSUME Calendar!Tick PROVE CalendarOK'
  <2>1. v1' \in Calendar!Time /\ UNCHANGED <<v2, v3, v4, v5>>
    BY <1>1, <1>8, DesksAssumption DEF Calendar!Tick, Calendar!Time, Calendar!WorklistAssumption
  <2> QED BY <2>1 DEF CalendarOK, Calendar!TypeOK, Calendar!CalendarInv, Calendar!At, Calendar!Rows
<1> QED BY <1>2, <1>3, <1>4, <1>5, <1>6, <1>7, <1>8 DEF Calendar!Next

LEMMA CalendarStay == CalendarOK /\ UNCHANGED atDesk => CalendarOK'
  BY DEF CalendarOK, atDesk, Calendar!TypeOK, Calendar!CalendarInv, Calendar!At, Calendar!Rows

\* The ends of today, of the week and of the month, from any half day on.
LEMMA CalendarEnds ==
  ASSUME Calendar!Time \subseteq Nat, v1 \in Calendar!Time
  PROVE  /\ Calendar!TodayEnd \in Nat
         /\ Calendar!TodayEnd <= Calendar!WeekEnd /\ Calendar!TodayEnd <= Calendar!MonthEnd
<1>1. PICK t \in Nat : t = v1
  OBVIOUS
<1>2. PICK d \in Nat : d = t \div 2
  OBVIOUS
<1>3. PICK m \in Nat \ {0} : m = Month
  BY DesksAssumption DEF Calendar!WorklistAssumption
<1>4. t % 2 \in {0, 1} /\ d % 7 \in 0..6
  BY <1>2
<1>5. Calendar!TodayEnd = 2 * d + 1 /\ Calendar!WeekEnd = (2 * d + 1) + 2 * (6 - (d % 7))
  BY <1>1, <1>2 DEF Calendar!TodayEnd, Calendar!WeekEnd, Calendar!Day
<1>6. PICK q \in Nat : q = d \div m
  BY <1>2, <1>3
<1>7. Calendar!MonthEnd = (2 * (q + 1) * m) + (t % 2) - 1
  BY <1>1, <1>2, <1>3, <1>6 DEF Calendar!MonthEnd, Calendar!Day
<1>8. d < (q + 1) * m
  BY <1>2, <1>3, <1>6
<1>9. PICK e \in Nat : e = (q + 1) * m
  BY <1>3, <1>6
<1>10. 2 * (q + 1) * m = 2 * e
  BY <1>3, <1>6, <1>9
<1>11. d + 1 <= e
  BY <1>2, <1>8, <1>9
<1> QED BY <1>4, <1>5, <1>7, <1>9, <1>10, <1>11

\* An appointment that stands, and that no call is at, is on the calendar of everyone
\* it concerns at its hour, unless a crash cost its mirror; and whatever the clock
\* and the length of the month, what is due today is counted this week and this
\* month and nothing overdue is (agenda/router.py:48, deadlines/service.py:172).
THEOREM CalendarIsTrue == OfficeSpec => []CalendarFollows
<1> DEFINE Inv == desk = "calendar" => CalendarOK
<1>1. OfficeInit => Inv
  BY CalendarInit DEF OfficeInit
<1>2. Inv /\ [OfficeNext]_officeVars => Inv'
  BY CalendarStep, CalendarStay, DeskMoves
<1>3. Inv => CalendarFollows
  <2> SUFFICES ASSUME CalendarOK PROVE Calendar!CalendarFollows
    BY DEF CalendarFollows
  <2>1. /\ v1 \in Nat /\ v2 \in [Appointments -> AgendaRow] /\ v3 \in [Appointments -> MirrorRow]
        /\ v5 \in [Calls -> PlanCall] /\ v4 \subseteq Appointments
        /\ \A x \in Appointments : Attended(v2[x])
        /\ \A x \in Appointments \ v4 : (\A c \in Calls : Off(v5[c], x)) => Settled(v2[x], v3[x])
    BY CalendarFacts, CalendarTimes
  <2>2. \A x \in Appointments : v3[x].at \in Nat /\ v2[x] \in AgendaRow
    BY <2>1, CalendarTimes DEF MirrorRow
  <2>3. /\ Calendar!TodayEnd \in Nat
        /\ Calendar!TodayEnd <= Calendar!WeekEnd /\ Calendar!TodayEnd <= Calendar!MonthEnd
    BY CalendarFacts, CalendarTimes, CalendarEnds
  <2>4. ASSUME NEW x \in Appointments \ v4, \A c \in Calls : v5[c].pc = "idle" \/ v5[c].x # x
        PROVE  /\ v2[x].status = "scheduled" <=> x \in Calendar!Rows
               /\ x \in Calendar!Rows => v3[x].at = v2[x].at
               /\ \A u \in Guests \cup Consultants : x \in Calendar!Rows \cap Calendar!Agenda(u) => x \in Calendar!Scope(u)
    <3>1. Settled(v2[x], v3[x]) /\ Attended(v2[x])
      BY <2>1, <2>4 DEF Off
    <3>2. x \in Calendar!Rows <=> v3[x].status # "none"
      BY DEF Calendar!Rows
    <3>3. ASSUME NEW u \in Guests \cup Consultants, x \in Calendar!Rows \cap Calendar!Agenda(u) PROVE x \in Calendar!Scope(u)
      BY <3>1, <3>2, <3>3 DEF Calendar!Agenda, Calendar!Scope, Settled, Attended
    <3> QED BY <3>1, <3>2, <3>3 DEF Settled
  <2>5. ASSUME NEW u \in Guests \cup Consultants
        PROVE  /\ Calendar!Today(u) \subseteq Calendar!ThisWeek(u) \cap Calendar!ThisMonth(u)
               /\ Calendar!Overdue(u) \cap (Calendar!ThisWeek(u) \cup Calendar!ThisMonth(u)) = {}
    <3>1. \A x \in Calendar!OpenRows(u) : x \in Appointments
      BY DEF Calendar!OpenRows, Calendar!Scope, Calendar!Rows
    <3>2. Calendar!WeekEnd \in Int /\ Calendar!MonthEnd \in Int
      BY <2>1, DesksAssumption DEF Calendar!WeekEnd, Calendar!MonthEnd, Calendar!TodayEnd, Calendar!Day, Calendar!WorklistAssumption
    <3>3. Calendar!Today(u) \subseteq Calendar!ThisWeek(u) \cap Calendar!ThisMonth(u)
      BY <2>2, <2>3, <3>1, <3>2 DEF Calendar!Today, Calendar!ThisWeek, Calendar!ThisMonth, Calendar!Within
    <3>4. Calendar!Overdue(u) \cap (Calendar!ThisWeek(u) \cup Calendar!ThisMonth(u)) = {}
      BY <2>1, <2>2, <3>1 DEF Calendar!Overdue, Calendar!ThisWeek, Calendar!ThisMonth, Calendar!Within
    <3> QED BY <3>3, <3>4
  <2> QED BY <2>4, <2>5 DEF Calendar!CalendarFollows, Calendar!At
<1> QED BY <1>1, <1>2, <1>3, PTL DEF OfficeSpec
-----------------------------------------------------------------------------
\* Conversations: threads, messages, sockets and talking are v1 to v4.
TalkOK == Talk!TypeOK /\ Talk!ThreadsInv

\* What a call must satisfy where it stands, with these threads and messages.
InThread == {"se_insert", "se_count", "se_publish", "re_zero"}
TalkCall(call, th, ms) ==
  /\ call \in Talk!CallType
  /\ call.pc = "op_insert" => call.with # {}
  /\ call.pc \in InThread => call.thread \in Threads /\ call.who \in th[call.thread].who
  /\ call.pc \in {"se_count", "se_publish"} => call.message \in Messages /\ ms[call.message].thread = call.thread
RowKept(row) == row \in Talk!ThreadType /\ (row.who = {} => row = Talk!NoRow)
MailKept(mail, th) ==
  /\ mail \in Talk!MessageType
  /\ mail.thread \in Threads => th[mail.thread].who # {} /\ mail.sender \in People
SocketKept(sock, th, ms) ==
  /\ sock \in Talk!SocketType
  /\ sock.who = Nobody => sock = Talk!Closed
  /\ \A t \in sock.rooms : sock.who \in th[t].who
  /\ \A m \in sock.heard : ms[m].thread \in Threads /\ sock.who \in th[ms[m].thread].who

\* What a person has not read of a thread, the calls about to count it, and the badge.
Fresh(ms, t, u) == {m \in Messages : ms[m].thread = t /\ u \notin ms[m].read}
Pending(calls, t, u) == {c \in Calls : calls[c].pc = "se_count" /\ calls[c].thread = t /\ calls[c].who # u}
Zeroing(call, t, u) == call.pc = "re_zero" /\ call.thread = t /\ call.who = u
Tallied(th, ms, calls, t, u) ==
  IF \E c \in Calls : Zeroing(calls[c], t, u)
  THEN Fresh(ms, t, u) = {} /\ Pending(calls, t, u) = {}
  ELSE u \in th[t].who =>
         th[t].unread[u] + Talk!Cardinality(Pending(calls, t, u)) = Talk!Cardinality(Fresh(ms, t, u))
Lone(calls) == \A c \in Calls : calls[c].pc = "re_zero" => \A o \in Calls \ {c} : calls[o].pc = "idle"

LEMMA TalkAssumption ==
  /\ Contacts \subseteq People \X People /\ Nothing \notin Threads /\ Nothing \notin Messages
  /\ Nobody \notin People /\ Nothing \notin Sockets /\ IsFiniteSet(Messages) /\ IsFiniteSet(Calls)
<1>1. Talk!IsFiniteSet(Messages) = IsFiniteSet(Messages) /\ Talk!IsFiniteSet(Calls) = IsFiniteSet(Calls)
  BY DEF Talk!IsFiniteSet, IsFiniteSet
<1> QED BY <1>1, DesksAssumption DEF Talk!ConversationsAssumption

LEMMA TalkSizes == \A S : Talk!Cardinality(S) = Cardinality(S)
  BY DEF Talk!Cardinality, Cardinality

LEMMA TalkSets ==
  /\ \A t, u : Talk!Unread(t, u) = Fresh(v2, t, u) /\ Talk!Uncounted(t, u) = Pending(v4, t, u)
  /\ \A t, u : Talk!Badge(t, u) = v1[t].unread[u]
  BY DEF Talk!Unread, Talk!Uncounted, Talk!Badge, Talk!At, Fresh, Pending

\* Everything that is kept, in these words.
LEMMA TalkFacts ==
  ASSUME TalkOK
  PROVE  /\ v1 \in [Threads -> Talk!ThreadType] /\ v2 \in [Messages -> Talk!MessageType]
         /\ v3 \in [Sockets -> Talk!SocketType] /\ v4 \in [Calls -> Talk!CallType]
         /\ \A c \in Calls : TalkCall(v4[c], v1, v2)
         /\ Lone(v4)
         /\ \A t \in Threads : RowKept(v1[t])
         /\ \A m \in Messages : MailKept(v2[m], v1)
         /\ \A s \in Sockets : SocketKept(v3[s], v1, v2)
         /\ \A t \in Threads, u \in People : Tallied(v1, v2, v4, t, u)
<1>1. /\ v1 \in [Threads -> Talk!ThreadType] /\ v2 \in [Messages -> Talk!MessageType]
      /\ v3 \in [Sockets -> Talk!SocketType] /\ v4 \in [Calls -> Talk!CallType]
  BY DEF TalkOK, Talk!TypeOK
<1>2. (\A c \in Calls : TalkCall(v4[c], v1, v2)) /\ Lone(v4)
  <2>1. \A c \in Calls : v4[c] \in Talk!CallType
    BY <1>1
  <2> QED BY <2>1 DEF TalkOK, Talk!ThreadsInv, Talk!At, TalkCall, InThread, Lone
<1>3. (\A t \in Threads : RowKept(v1[t])) /\ \A m \in Messages : MailKept(v2[m], v1)
  BY <1>1 DEF TalkOK, Talk!ThreadsInv, RowKept, MailKept
<1>4. \A s \in Sockets : SocketKept(v3[s], v1, v2)
  BY <1>1 DEF TalkOK, Talk!ThreadsInv, Talk!HeardByThread, SocketKept
<1>5. \A t \in Threads, u \in People : Tallied(v1, v2, v4, t, u)
  BY TalkSets DEF TalkOK, Talk!ThreadsInv, Talk!At, Tallied, Zeroing
<1> QED BY <1>1, <1>2, <1>3, <1>4, <1>5

LEMMA TalkKept ==
  ASSUME v1' \in [Threads -> Talk!ThreadType], v2' \in [Messages -> Talk!MessageType],
         v3' \in [Sockets -> Talk!SocketType], v4' \in [Calls -> Talk!CallType],
         \A c \in Calls : TalkCall(v4'[c], v1', v2'), Lone(v4'),
         \A t \in Threads : RowKept(v1'[t]),
         \A m \in Messages : MailKept(v2'[m], v1'),
         \A s \in Sockets : SocketKept(v3'[s], v1', v2'),
         \A t \in Threads, u \in People : Tallied(v1', v2', v4', t, u)
  PROVE  TalkOK'
<1>1. /\ \A t, u : Talk!Unread(t, u)' = Fresh(v2', t, u) /\ Talk!Uncounted(t, u)' = Pending(v4', t, u)
      /\ \A t, u : Talk!Badge(t, u)' = v1'[t].unread[u]
  BY DEF Talk!Unread, Talk!Uncounted, Talk!Badge, Talk!At, Fresh, Pending
<1>2. Talk!TypeOK'
  BY DEF Talk!TypeOK
<1>3. \A c \in Calls :
        /\ v4'[c].pc = "op_insert" => v4'[c].with # {}
        /\ v4'[c].pc = "se_insert" \/ v4'[c].pc = "se_count" \/ v4'[c].pc = "se_publish" \/ v4'[c].pc = "re_zero" =>
             v4'[c].thread \in Threads /\ v4'[c].who \in v1'[v4'[c].thread].who
        /\ v4'[c].pc = "se_count" \/ v4'[c].pc = "se_publish" =>
             v4'[c].message \in Messages /\ v2'[v4'[c].message].thread = v4'[c].thread
        /\ v4'[c].pc = "re_zero" => \A o \in Calls \ {c} : v4'[o].pc = "idle"
  BY DEF TalkCall, InThread, Lone
<1>4. /\ \A t \in Threads : v1'[t].who = {} => v1'[t] = Talk!NoRow
      /\ \A m \in Messages : v2'[m].thread \in Threads => v1'[v2'[m].thread].who # {} /\ v2'[m].sender \in People
  BY DEF RowKept, MailKept
<1>5. \A s \in Sockets :
        /\ v3'[s].who = Nobody => v3'[s] = Talk!Closed
        /\ \A t \in v3'[s].rooms : v3'[s].who \in v1'[t].who
        /\ \A m \in v3'[s].heard : v2'[m].thread \in Threads /\ v3'[s].who \in v1'[v2'[m].thread].who
  BY DEF SocketKept
<1>6. \A u \in People, t \in Threads :
        IF \E c \in Calls : v4'[c].pc = "re_zero" /\ v4'[c].thread = t /\ v4'[c].who = u
        THEN Fresh(v2', t, u) = {} /\ Pending(v4', t, u) = {}
        ELSE u \in v1'[t].who =>
               v1'[t].unread[u] + Talk!Cardinality(Pending(v4', t, u)) = Talk!Cardinality(Fresh(v2', t, u))
  BY DEF Tallied, Zeroing
<1>7. Talk!HeardByThread'
  BY <1>5 DEF Talk!HeardByThread
<1>8. Talk!ThreadsInv'
  BY <1>1, <1>3, <1>4, <1>5, <1>6, <1>7 DEF Talk!ThreadsInv, Talk!At
<1> QED BY <1>2, <1>8 DEF TalkOK

LEMMA TalkIdle ==
  /\ Talk!Idle \in Talk!CallType /\ Talk!Idle.pc = "idle" /\ \A th, ms : TalkCall(Talk!Idle, th, ms)
  /\ Talk!NoRow \in Talk!ThreadType /\ RowKept(Talk!NoRow) /\ Talk!NoRow.who = {}
  /\ Talk!NoRow.unread = [u \in People |-> 0]
  /\ Talk!NoMail \in Talk!MessageType /\ Talk!NoMail.thread \notin Threads /\ \A th : MailKept(Talk!NoMail, th)
  /\ Talk!Closed \in Talk!SocketType /\ \A th, ms : SocketKept(Talk!Closed, th, ms)
<1>1. Talk!Idle \in Talk!CallType /\ Talk!Idle.pc = "idle"
  BY DEF Talk!Idle, Talk!CallType, Talk!Pc
<1>2. Talk!NoRow \in Talk!ThreadType /\ Talk!NoRow.who = {} /\ Talk!NoRow.unread = [u \in People |-> 0]
  BY DEF Talk!NoRow, Talk!ThreadType
<1>3. Talk!NoMail \in Talk!MessageType /\ Talk!NoMail.thread \notin Threads
  BY TalkAssumption DEF Talk!NoMail, Talk!MessageType
<1>4. Talk!Closed \in Talk!SocketType /\ Talk!Closed.rooms = {} /\ Talk!Closed.heard = {}
  BY DEF Talk!Closed, Talk!SocketType
<1> QED BY <1>1, <1>2, <1>3, <1>4 DEF TalkCall, InThread, RowKept, MailKept, SocketKept

LEMMA TalkInit == Talk!Init => TalkOK
<1> SUFFICES ASSUME Talk!Init PROVE TalkOK
  OBVIOUS
<1>1. /\ \A t \in Threads : v1[t] = Talk!NoRow
      /\ \A m \in Messages : v2[m] = Talk!NoMail
      /\ \A s \in Sockets : v3[s] = Talk!Closed
      /\ \A c \in Calls : v4[c] = Talk!Idle
  BY DEF Talk!Init
<1>2. Talk!TypeOK
  BY TalkIdle DEF Talk!Init, Talk!TypeOK
<1>3. \A t \in Threads, u \in People :
        v1[t].who = {} /\ Talk!Unread(t, u) = {} /\ Talk!Uncounted(t, u) = {}
  BY <1>1, TalkIdle DEF Talk!Unread, Talk!Uncounted, Talk!At
<1>4. \A s \in Sockets : v3[s].rooms = {} /\ v3[s].heard = {}
  BY <1>1 DEF Talk!Closed
<1>5. Talk!HeardByThread
  BY <1>4 DEF Talk!HeardByThread
<1>6. \A c \in Calls : v4[c].pc = "idle"
  BY <1>1, TalkIdle
<1>7. \A m \in Messages : v2[m].thread \notin Threads
  BY <1>1, TalkIdle
<1>8. Talk!ThreadsInv
  BY <1>1, <1>3, <1>4, <1>5, <1>6, <1>7 DEF Talk!ThreadsInv, Talk!At
<1> QED BY <1>2, <1>8 DEF TalkOK

\* A call moves between two places that count nothing: threads and messages stand.
LEMMA TalkQuiet ==
  ASSUME TalkOK, NEW c \in Calls, NEW rec, TalkCall(rec, v1, v2), v4' = [v4 EXCEPT ![c] = rec], UNCHANGED <<v1, v2>>,
         v3' \in [Sockets -> Talk!SocketType], \A s \in Sockets : SocketKept(v3'[s], v1, v2),
         v4[c].pc \notin {"se_count", "re_zero"}, rec.pc \notin {"se_count", "re_zero"},
         rec.pc # "idle" => \A o \in Calls \ {c} : v4[o].pc # "re_zero"
  PROVE  TalkOK'
<1>1. v4'[c] = rec /\ (\A o \in Calls \ {c} : v4'[o] = v4[o]) /\ v4' \in [Calls -> Talk!CallType]
  BY TalkFacts DEF TalkCall
<1>2. Lone(v4')
  BY <1>1, TalkFacts DEF Lone
<1>3. \A t, u : Pending(v4', t, u) = Pending(v4, t, u)
  BY <1>1 DEF Pending
<1>4. \A t, u : (\E o \in Calls : Zeroing(v4'[o], t, u)) <=> (\E o \in Calls : Zeroing(v4[o], t, u))
  BY <1>1 DEF Zeroing
<1>5. \A t \in Threads, u \in People : Tallied(v1', v2', v4', t, u)
  BY <1>3, <1>4, TalkFacts DEF Tallied
<1>6. \A o \in Calls : TalkCall(v4'[o], v1', v2')
  BY <1>1, TalkFacts
<1> QED BY <1>1, <1>2, <1>5, <1>6, TalkFacts, TalkKept

\* The sockets change and nothing else does.
LEMMA TalkSockets ==
  ASSUME TalkOK, UNCHANGED <<v1, v2, v4>>, v3' \in [Sockets -> Talk!SocketType],
         \A s \in Sockets : SocketKept(v3'[s], v1, v2)
  PROVE  TalkOK'
  BY TalkFacts, TalkKept

LEMMA TalkFree ==
  ASSUME TalkOK, NEW c \in Calls, NEW op \in {"open", "send", "read"}, Talk!Free(c, op)
  PROVE  /\ v4[c].pc = "idle" /\ \A o \in Calls : v4[o].pc # "re_zero"
         /\ op = "read" => \A o \in Calls : v4[o].pc = "idle"
<1>1. Talk!OpOf("re_zero") = "read"
  BY DEF Talk!OpOf
<1> QED BY <1>1 DEF Talk!Free, Talk!At

\* Nobody is in a thread that is not there, nothing was said in it, nothing is being said.
LEMMA TalkNoThread ==
  ASSUME TalkOK, NEW t \in Threads, v1[t].who = {}
  PROVE  /\ \A u : Fresh(v2, t, u) = {} /\ Pending(v4, t, u) = {} /\ \A c \in Calls : ~Zeroing(v4[c], t, u)
         /\ \A c \in Calls : v4[c].pc \in InThread => v4[c].thread # t
         /\ \A m \in Messages : v2[m].thread # t
<1>1. \A c \in Calls : v4[c].pc \in InThread => v4[c].thread # t
  BY TalkFacts DEF TalkCall
<1>2. \A m \in Messages : v2[m].thread # t
  BY TalkFacts DEF MailKept
<1> QED BY <1>1, <1>2 DEF Fresh, Pending, Zeroing, InThread

\* What is said of threads is said of who is in them.
LEMMA TalkSameWho ==
  ASSUME TalkOK, v1' \in [Threads -> Talk!ThreadType], \A t \in Threads : v1'[t].who = v1[t].who
  PROVE  /\ \A c \in Calls : TalkCall(v4[c], v1', v2)
         /\ \A m \in Messages : MailKept(v2[m], v1')
         /\ \A s \in Sockets : SocketKept(v3[s], v1', v2)
         /\ \A call, ms : TalkCall(call, v1, ms) => TalkCall(call, v1', ms)
<1>1. \A call, ms : TalkCall(call, v1, ms) => TalkCall(call, v1', ms)
  BY DEF TalkCall
<1>2. \A m \in Messages : MailKept(v2[m], v1')
  BY TalkFacts DEF MailKept
<1>3. ASSUME NEW s \in Sockets PROVE SocketKept(v3[s], v1', v2)
  <2>1. SocketKept(v3[s], v1, v2) /\ v3[s].rooms \subseteq Threads
    BY TalkFacts DEF Talk!SocketType
  <2> QED BY <2>1 DEF SocketKept
<1> QED BY <1>1, <1>2, <1>3, TalkFacts

\* A set of one more, and of one less.
LEMMA TalkCount ==
  /\ \A t, u : /\ IsFiniteSet(Fresh(v2, t, u)) /\ Cardinality(Fresh(v2, t, u)) \in Nat
               /\ IsFiniteSet(Pending(v4, t, u)) /\ Cardinality(Pending(v4, t, u)) \in Nat
<1> SUFFICES ASSUME NEW t, NEW u
             PROVE  /\ IsFiniteSet(Fresh(v2, t, u)) /\ Cardinality(Fresh(v2, t, u)) \in Nat
                    /\ IsFiniteSet(Pending(v4, t, u)) /\ Cardinality(Pending(v4, t, u)) \in Nat
  OBVIOUS
<1>1. Fresh(v2, t, u) \in SUBSET Messages /\ Pending(v4, t, u) \in SUBSET Calls
  BY DEF Fresh, Pending
<1>2. IsFiniteSet(Fresh(v2, t, u)) /\ IsFiniteSet(Pending(v4, t, u))
  BY <1>1, TalkAssumption, FS_Subset
<1> QED BY <1>2, FS_CardinalityType

LEMMA TalkStart ==
  ASSUME TalkOK, NEW c \in Calls
  PROVE  /\ \A u \in People, others \in SUBSET People : Talk!OpenStart(c, u, others) => TalkOK'
         /\ \A u \in People, t \in Threads, s \in Sockets \cup {Nothing} : Talk!SendStart(c, u, t, s) => TalkOK'
<1>1. ASSUME NEW u \in People, NEW others \in SUBSET People, Talk!OpenStart(c, u, others) PROVE TalkOK'
  <2>1. PICK with \in SUBSET People : with = others \cup {u} /\ with # {}
    OBVIOUS
  <2>2. PICK rec : rec = [Talk!Idle EXCEPT !.pc = "op_insert", !.who = u, !.with = with]
    OBVIOUS
  <2>3. Talk!Free(c, "open") /\ v4' = [v4 EXCEPT ![c] = rec] /\ UNCHANGED <<v1, v2, v3>>
    BY <1>1, <2>1, <2>2 DEF Talk!OpenStart
  <2>4. TalkCall(rec, v1, v2) /\ rec.pc = "op_insert"
    BY <2>1, <2>2, TalkIdle DEF TalkCall, InThread, Talk!CallType, Talk!Pc
  <2>5. v4[c].pc = "idle" /\ \A o \in Calls : v4[o].pc # "re_zero"
    BY <2>3, TalkFree
  <2> QED BY <2>3, <2>4, <2>5, TalkFacts, TalkQuiet
<1>2. ASSUME NEW u \in People, NEW t \in Threads, NEW s \in Sockets \cup {Nothing}, Talk!SendStart(c, u, t, s) PROVE TalkOK'
  <2>1. PICK rec : rec = [Talk!Idle EXCEPT !.pc = "se_insert", !.who = u, !.thread = t, !.socket = s]
    OBVIOUS
  <2>2. Talk!Free(c, "send") /\ v4' = [v4 EXCEPT ![c] = rec] /\ UNCHANGED <<v1, v2, v3>> /\ u \in v1[t].who
    BY <1>2, <2>1 DEF Talk!SendStart
  <2>3. TalkCall(rec, v1, v2) /\ rec.pc = "se_insert"
    BY <2>1, <2>2, TalkIdle DEF TalkCall, InThread, Talk!CallType, Talk!Pc
  <2>4. v4[c].pc = "idle" /\ \A o \in Calls : v4[o].pc # "re_zero"
    BY <2>2, TalkFree
  <2> QED BY <2>2, <2>3, <2>4, TalkFacts, TalkQuiet
<1> QED BY <1>1, <1>2

LEMMA TalkOpen == ASSUME TalkOK, NEW c \in Calls, NEW t \in Threads, Talk!OpenInsert(c, t) PROVE TalkOK'
<1>1. PICK who : who = v4[c].with
  OBVIOUS
<1>2. v4[c].pc = "op_insert" /\ v1[t] = Talk!NoRow /\ v4' = [v4 EXCEPT ![c] = Talk!Idle] /\ UNCHANGED <<v2, v3>>
      /\ v1' = [v1 EXCEPT ![t].who = who]
  BY <1>1 DEF Talk!OpenInsert, Talk!At, Talk!End
<1>3. who \in SUBSET People /\ who # {}
  <2>1. TalkCall(v4[c], v1, v2)
    BY TalkFacts
  <2> QED BY <1>1, <1>2, <2>1 DEF TalkCall, Talk!CallType
<1>4. PICK row : row = [v1[t] EXCEPT !.who = who]
  OBVIOUS
<1>5. row \in Talk!ThreadType /\ row.who = who /\ row.unread = [u \in People |-> 0] /\ RowKept(row)
  BY <1>2, <1>3, <1>4, TalkIdle DEF Talk!ThreadType, RowKept
<1>6. v1' = [v1 EXCEPT ![t] = row] /\ v1' \in [Threads -> Talk!ThreadType] /\ v1'[t] = row
      /\ \A x \in Threads \ {t} : v1'[x] = v1[x]
  BY <1>2, <1>4, <1>5, TalkFacts
<1>7. v1[t].who = {}
  BY <1>2, TalkIdle
<1>8. v4'[c] = Talk!Idle /\ (\A o \in Calls \ {c} : v4'[o] = v4[o]) /\ v4' \in [Calls -> Talk!CallType]
  BY <1>2, TalkFacts, TalkIdle
<1>9. \A o \in Calls : TalkCall(v4'[o], v1', v2')
  <2> SUFFICES ASSUME NEW o \in Calls \ {c} PROVE TalkCall(v4[o], v1', v2)
    BY <1>2, <1>8, TalkIdle
  <2>1. TalkCall(v4[o], v1, v2) /\ (v4[o].pc \in InThread => v4[o].thread # t)
    BY <1>7, TalkFacts, TalkNoThread
  <2> QED BY <1>6, <2>1 DEF TalkCall
<1>10. \A m \in Messages : MailKept(v2[m], v1')
  <2> SUFFICES ASSUME NEW m \in Messages PROVE MailKept(v2[m], v1')
    OBVIOUS
  <2>1. MailKept(v2[m], v1) /\ v2[m].thread # t
    BY <1>7, TalkFacts, TalkNoThread
  <2> QED BY <1>6, <2>1 DEF MailKept
<1>11. \A s \in Sockets : SocketKept(v3[s], v1', v2)
  <2> SUFFICES ASSUME NEW s \in Sockets PROVE SocketKept(v3[s], v1', v2)
    OBVIOUS
  <2>1. SocketKept(v3[s], v1, v2) /\ v3[s].rooms \subseteq Threads
    BY TalkFacts DEF Talk!SocketType
  <2>2. \A x \in Threads : v3[s].who \in v1[x].who => v1'[x] = v1[x]
    BY <1>6, <1>7
  <2> QED BY <2>1, <2>2 DEF SocketKept
<1>12. ASSUME NEW x \in Threads, NEW u \in People PROVE Tallied(v1', v2', v4', x, u)
  <2>1. Fresh(v2', x, u) = Fresh(v2, x, u) /\ Pending(v4', x, u) = Pending(v4, x, u)
    BY <1>2, <1>8, TalkIdle DEF Fresh, Pending
  <2>2. (\E o \in Calls : Zeroing(v4'[o], x, u)) <=> (\E o \in Calls : Zeroing(v4[o], x, u))
    BY <1>2, <1>8, TalkIdle DEF Zeroing
  <2>3. CASE x # t
    BY <1>6, <2>1, <2>2, <2>3, TalkFacts DEF Tallied
  <2>4. CASE x = t
    <3>1. Talk!Cardinality({}) = 0
      BY TalkSizes, FS_EmptySet
    <3>2. v1'[x].unread[u] = 0
      BY <1>5, <1>6, <2>4
    <3>3. Fresh(v2', x, u) = {} /\ Pending(v4', x, u) = {} /\ ~\E o \in Calls : Zeroing(v4'[o], x, u)
      BY <1>7, <2>1, <2>2, <2>4, TalkNoThread
    <3> QED BY <3>1, <3>2, <3>3 DEF Tallied
  <2> QED BY <2>3, <2>4
<1>13. Lone(v4')
  BY <1>8, TalkFacts, TalkIdle DEF Lone
<1>14. \A x \in Threads : RowKept(v1'[x])
  BY <1>5, <1>6, TalkFacts
<1> QED BY <1>2, <1>6, <1>8, <1>9, <1>10, <1>11, <1>12, <1>13, <1>14, TalkFacts, TalkKept

LEMMA TalkInsert == ASSUME TalkOK, NEW c \in Calls, NEW m \in Messages, Talk!SendInsert(c, m) PROVE TalkOK'
<1>1. PICK call : call = v4[c]
  OBVIOUS
<1>2. PICK w, x : w = call.who /\ x = call.thread
  OBVIOUS
<1>3. call.pc = "se_insert" /\ v2[m] = Talk!NoMail /\ UNCHANGED <<v1, v3>>
      /\ v4' = [v4 EXCEPT ![c].pc = "se_count", ![c].message = m]
      /\ v2' = [v2 EXCEPT ![m] = [thread |-> x, sender |-> w, read |-> {w}]]
  BY <1>1, <1>2 DEF Talk!SendInsert, Talk!At
<1>4. call \in Talk!CallType /\ x \in Threads /\ w \in v1[x].who /\ w \in People
  <2>1. TalkCall(call, v1, v2)
    BY <1>1, TalkFacts
  <2>2. x \in Threads /\ w \in v1[x].who /\ call \in Talk!CallType
    BY <1>2, <1>3, <2>1 DEF TalkCall, InThread
  <2>3. v1[x].who \subseteq People
    BY <2>2, TalkFacts DEF Talk!ThreadType
  <2> QED BY <2>2, <2>3
<1>5. PICK mail : mail = [thread |-> x, sender |-> w, read |-> {w}]
  OBVIOUS
<1>6. MailKept(mail, v1) /\ mail.thread = x /\ mail.read = {w}
  BY <1>4, <1>5 DEF MailKept, Talk!MessageType
<1>7. v2' \in [Messages -> Talk!MessageType] /\ v2'[m] = mail /\ \A o \in Messages \ {m} : v2'[o] = v2[o]
  BY <1>3, <1>5, <1>6, TalkFacts DEF MailKept
<1>8. v2[m].thread \notin Threads
  BY <1>3, TalkIdle
<1>9. PICK rec : rec = [call EXCEPT !.pc = "se_count", !.message = m]
  OBVIOUS
<1>10. rec \in Talk!CallType /\ rec.pc = "se_count" /\ rec.message = m /\ rec.thread = x /\ rec.who = w
  BY <1>2, <1>4, <1>9 DEF Talk!CallType, Talk!Pc
<1>11. v4' = [v4 EXCEPT ![c] = rec]
  BY <1>1, <1>3, <1>9, TalkFacts
<1>12. v4'[c] = rec /\ (\A o \in Calls \ {c} : v4'[o] = v4[o]) /\ v4' \in [Calls -> Talk!CallType]
  BY <1>10, <1>11, TalkFacts
<1>13. \A o \in Calls : v4[o].pc # "re_zero" /\ v4'[o].pc # "re_zero"
  BY <1>1, <1>3, <1>10, <1>12, TalkFacts DEF Lone
<1>14. \A o \in Calls : TalkCall(v4'[o], v1', v2')
  <2>1. TalkCall(rec, v1, v2')
    BY <1>4, <1>6, <1>7, <1>10 DEF TalkCall, InThread
  <2>2. ASSUME NEW o \in Calls \ {c} PROVE TalkCall(v4[o], v1, v2')
    <3>1. TalkCall(v4[o], v1, v2)
      BY TalkFacts
    <3>2. v4[o].pc \in {"se_count", "se_publish"} => v4[o].message \in Messages \ {m}
      BY <1>8, <3>1 DEF TalkCall, InThread
    <3> QED BY <1>7, <3>1, <3>2 DEF TalkCall
  <2> QED BY <1>3, <1>12, <2>1, <2>2
<1>15. \A o \in Messages : MailKept(v2'[o], v1')
  BY <1>3, <1>6, <1>7, TalkFacts
<1>16. \A s \in Sockets : SocketKept(v3'[s], v1', v2')
  <2> SUFFICES ASSUME NEW s \in Sockets PROVE SocketKept(v3[s], v1, v2')
    BY <1>3
  <2>1. SocketKept(v3[s], v1, v2) /\ v3[s].heard \subseteq Messages
    BY TalkFacts DEF Talk!SocketType
  <2>2. \A o \in v3[s].heard : v2'[o] = v2[o]
    BY <1>7, <1>8, <2>1 DEF SocketKept
  <2> QED BY <2>1, <2>2 DEF SocketKept
<1>17. ASSUME NEW t \in Threads, NEW u \in People PROVE Tallied(v1', v2', v4', t, u)
  <2>1. ~\E o \in Calls : Zeroing(v4[o], t, u) \/ Zeroing(v4'[o], t, u)
    BY <1>13 DEF Zeroing
  <2>2. m \notin Fresh(v2, t, u) /\ c \notin Pending(v4, t, u)
    BY <1>1, <1>3, <1>8 DEF Fresh, Pending
  <2>3. CASE t = x /\ u # w
    <3>1. Fresh(v2', t, u) = Fresh(v2, t, u) \cup {m}
      BY <1>6, <1>7, <2>3 DEF Fresh
    <3>2. Pending(v4', t, u) = Pending(v4, t, u) \cup {c}
      BY <1>10, <1>12, <2>3 DEF Pending
    <3>3. Cardinality(Fresh(v2', t, u)) = Cardinality(Fresh(v2, t, u)) + 1
      BY <2>2, <3>1, TalkCount, FS_AddElement
    <3>4. Cardinality(Pending(v4', t, u)) = Cardinality(Pending(v4, t, u)) + 1
      BY <2>2, <3>2, TalkCount, FS_AddElement
    <3>5. u \in v1[t].who => v1[t].unread[u] + Cardinality(Pending(v4, t, u)) = Cardinality(Fresh(v2, t, u))
      BY <2>1, TalkFacts, TalkSizes DEF Tallied
    <3>6. v1[t].unread[u] \in Nat
      BY TalkFacts DEF Talk!ThreadType
    <3>7. u \in v1[t].who => v1[t].unread[u] + Cardinality(Pending(v4', t, u)) = Cardinality(Fresh(v2', t, u))
      BY <3>3, <3>4, <3>5, <3>6, TalkCount
    <3> QED BY <1>3, <2>1, <3>7, TalkSizes DEF Tallied
  <2>4. CASE ~(t = x /\ u # w)
    <3>1. Fresh(v2', t, u) = Fresh(v2, t, u)
      BY <1>6, <1>7, <1>8, <2>4 DEF Fresh
    <3>2. Pending(v4', t, u) = Pending(v4, t, u)
      BY <1>1, <1>3, <1>10, <1>12, <2>4 DEF Pending
    <3> QED BY <1>3, <2>1, <3>1, <3>2, TalkFacts DEF Tallied
  <2> QED BY <2>3, <2>4
<1>18. Lone(v4')
  BY <1>13 DEF Lone
<1> QED BY <1>3, <1>7, <1>12, <1>14, <1>15, <1>16, <1>17, <1>18, TalkFacts, TalkKept

LEMMA TalkCounted == ASSUME TalkOK, NEW c \in Calls, Talk!SendCount(c) PROVE TalkOK'
<1>1. PICK call : call = v4[c]
  OBVIOUS
<1>2. PICK w, x : w = call.who /\ x = call.thread
  OBVIOUS
<1>3. PICK unread : unread = [u \in People |-> IF u \in v1[x].who \ {w} THEN v1[x].unread[u] + 1 ELSE v1[x].unread[u]]
  OBVIOUS
<1>4. call.pc = "se_count" /\ UNCHANGED <<v2, v3>> /\ v4' = [v4 EXCEPT ![c].pc = "se_publish"]
  BY <1>1 DEF Talk!SendCount, Talk!At, Talk!Goto
<1>5. x \in Threads /\ w \in v1[x].who /\ call \in Talk!CallType /\ v1[x] \in Talk!ThreadType /\ TalkCall(call, v1, v2)
  <2>1. TalkCall(call, v1, v2)
    BY <1>1, TalkFacts
  <2> QED BY <1>2, <1>4, <2>1, TalkFacts DEF TalkCall, InThread
<1>6. PICK row : row = [v1[x] EXCEPT !.unread = unread]
  OBVIOUS
<1>7. v1' = [v1 EXCEPT ![x] = row]
  <2>1. v1' = [v1 EXCEPT ![x].unread =
                 [u \in People |-> IF u \in v1[x].who \ {w} THEN @[u] + 1 ELSE @[u]]]
    BY <1>1, <1>2 DEF Talk!SendCount, Talk!Recipients
  <2> QED BY <1>3, <1>5, <1>6, <2>1, TalkFacts
<1>8. unread \in [People -> Nat]
  BY <1>3, <1>5 DEF Talk!ThreadType
<1>9. row \in Talk!ThreadType /\ row.who = v1[x].who /\ row.unread = unread /\ RowKept(row)
  BY <1>5, <1>6, <1>8 DEF Talk!ThreadType, RowKept
<1>10. /\ v1' \in [Threads -> Talk!ThreadType] /\ v1'[x] = row /\ \A t \in Threads \ {x} : v1'[t] = v1[t]
       /\ \A t \in Threads : v1'[t].who = v1[t].who
  BY <1>5, <1>7, <1>9, TalkFacts
<1>11. PICK rec : rec = [call EXCEPT !.pc = "se_publish"]
  OBVIOUS
<1>12. TalkCall(rec, v1, v2) /\ rec.pc = "se_publish"
  BY <1>4, <1>5, <1>11 DEF TalkCall, InThread, Talk!CallType, Talk!Pc
<1>13. v4'[c] = rec /\ (\A o \in Calls \ {c} : v4'[o] = v4[o]) /\ v4' \in [Calls -> Talk!CallType]
  BY <1>1, <1>4, <1>11, <1>12, TalkFacts DEF TalkCall
<1>14. \A o \in Calls : v4[o].pc # "re_zero" /\ v4'[o].pc # "re_zero"
  BY <1>1, <1>4, <1>12, <1>13, TalkFacts DEF Lone
<1>15. \A o \in Calls : TalkCall(v4'[o], v1', v2)
  BY <1>10, <1>12, <1>13, TalkSameWho
<1>16. ASSUME NEW t \in Threads, NEW u \in People PROVE Tallied(v1', v2', v4', t, u)
  <2>1. ~\E o \in Calls : Zeroing(v4[o], t, u) \/ Zeroing(v4'[o], t, u)
    BY <1>14 DEF Zeroing
  <2>2. u \in v1[t].who => v1[t].unread[u] + Cardinality(Pending(v4, t, u)) = Cardinality(Fresh(v2, t, u))
    BY <2>1, TalkFacts, TalkSizes DEF Tallied
  <2>3. v1[t].unread[u] \in Nat
    BY TalkFacts DEF Talk!ThreadType
  <2>4. CASE t = x /\ u # w /\ u \in v1[x].who
    <3>1. v1'[t].unread[u] = v1[t].unread[u] + 1
      BY <1>3, <1>9, <1>10, <2>4
    <3>2. c \in Pending(v4, t, u) /\ Pending(v4', t, u) = Pending(v4, t, u) \ {c}
      BY <1>1, <1>2, <1>4, <1>12, <1>13, <2>4 DEF Pending
    <3>3. Cardinality(Pending(v4', t, u)) = Cardinality(Pending(v4, t, u)) - 1
      BY <3>2, TalkCount, FS_RemoveElement
    <3>4. v1'[t].unread[u] + Cardinality(Pending(v4', t, u)) = Cardinality(Fresh(v2, t, u))
      BY <2>2, <2>3, <2>4, <3>1, <3>3, TalkCount
    <3> QED BY <1>4, <2>1, <3>4, TalkSizes DEF Tallied
  <2>5. CASE t = x /\ u = w
    <3>1. v1'[t].unread[u] = v1[t].unread[u]
      BY <1>3, <1>9, <1>10, <2>5
    <3>2. Pending(v4', t, u) = Pending(v4, t, u)
      BY <1>1, <1>2, <1>12, <1>13, <2>5 DEF Pending
    <3> QED BY <1>4, <1>10, <2>1, <2>2, <3>1, <3>2, TalkSizes DEF Tallied
  <2>6. CASE t = x /\ u \notin v1[x].who
    BY <1>10, <2>1, <2>6 DEF Tallied
  <2>7. CASE t # x
    <3>1. Pending(v4', t, u) = Pending(v4, t, u)
      BY <1>1, <1>2, <1>12, <1>13, <2>7 DEF Pending
    <3> QED BY <1>4, <1>10, <2>1, <2>2, <2>7, <3>1, TalkSizes DEF Tallied
  <2> QED BY <2>4, <2>5, <2>6, <2>7
<1>17. Lone(v4')
  BY <1>14 DEF Lone
<1>18. \A t \in Threads : RowKept(v1'[t])
  BY <1>9, <1>10, TalkFacts
<1>19. (\A m \in Messages : MailKept(v2[m], v1')) /\ \A s \in Sockets : SocketKept(v3[s], v1', v2)
  BY <1>10, TalkSameWho
<1> QED BY <1>4, <1>10, <1>13, <1>15, <1>16, <1>17, <1>18, <1>19, TalkFacts, TalkKept

LEMMA TalkPublish ==
  ASSUME TalkOK, NEW c \in Calls, Talk!SendPublish(c) \/ Talk!SendUnheard(c) PROVE TalkOK'
<1>1. PICK call : call = v4[c]
  OBVIOUS
<1>2. call.pc = "se_publish" /\ UNCHANGED <<v1, v2>> /\ v4' = [v4 EXCEPT ![c] = Talk!Idle]
  BY <1>1 DEF Talk!SendPublish, Talk!SendUnheard, Talk!At, Talk!End
<1>3. /\ call.thread \in Threads /\ call.message \in Messages /\ v2[call.message].thread = call.thread
  <2>1. TalkCall(call, v1, v2)
    BY <1>1, TalkFacts
  <2> QED BY <1>2, <2>1 DEF TalkCall, InThread
<1>4. PICK m, x : m = call.message /\ x = call.thread
  OBVIOUS
<1>5. v3' \in [Sockets -> Talk!SocketType] /\ \A s \in Sockets : SocketKept(v3'[s], v1, v2)
  <2>1. CASE Talk!SendUnheard(c)
    BY <2>1, TalkFacts DEF Talk!SendUnheard
  <2>2. CASE Talk!SendPublish(c)
    <3>1. v3' = [s \in Sockets |-> IF s \in Talk!Hearers(c) THEN [v3[s] EXCEPT !.heard = @ \cup {m}] ELSE v3[s]]
      BY <1>1, <1>4, <2>2 DEF Talk!SendPublish
    <3>2. ASSUME NEW s \in Sockets, s \in Talk!Hearers(c) PROVE v3[s].who \in v1[x].who
      <4>1. x \in v3[s].rooms \/ v3[s].who \in v1[x].who
        BY <1>1, <1>4, <3>2 DEF Talk!Hearers, Talk!Recipients
      <4>2. SocketKept(v3[s], v1, v2)
        BY TalkFacts
      <4> QED BY <4>1, <4>2 DEF SocketKept
    <3>3. ASSUME NEW s \in Sockets PROVE v3'[s] \in Talk!SocketType /\ SocketKept(v3'[s], v1, v2)
      <4>1. SocketKept(v3[s], v1, v2) /\ v3[s] \in Talk!SocketType
        BY TalkFacts
      <4>2. CASE s \in Talk!Hearers(c)
        <5>1. PICK sock : sock = [v3[s] EXCEPT !.heard = v3[s].heard \cup {m}]
          OBVIOUS
        <5>2. /\ sock \in Talk!SocketType /\ sock.who = v3[s].who /\ sock.rooms = v3[s].rooms
              /\ sock.heard = v3[s].heard \cup {m}
          BY <1>3, <1>4, <4>1, <5>1 DEF Talk!SocketType
        <5>3. v3'[s] = sock
          BY <3>1, <4>2, <5>1
        <5>4. sock.who # Nobody
          <6>1. v1[x].who \subseteq People
            BY <1>3, <1>4, TalkFacts DEF Talk!ThreadType
          <6> QED BY <3>2, <4>2, <5>2, <6>1, TalkAssumption
        <5> QED BY <1>3, <1>4, <3>2, <4>1, <4>2, <5>2, <5>3, <5>4 DEF SocketKept
      <4>3. CASE s \notin Talk!Hearers(c)
        BY <3>1, <4>1, <4>3
      <4> QED BY <4>2, <4>3
    <3>4. \A s \in Sockets : v3'[s] \in Talk!SocketType
      BY <3>3
    <3> QED BY <3>1, <3>3, <3>4
  <2> QED BY <2>1, <2>2
<1> QED BY <1>1, <1>2, <1>5, TalkIdle, TalkQuiet

LEMMA TalkMark ==
  ASSUME TalkOK, NEW c \in Calls, NEW u \in People, NEW t \in Threads, Talk!ReadMark(c, u, t) PROVE TalkOK'
<1>1. PICK rec : rec = [Talk!Idle EXCEPT !.pc = "re_zero", !.who = u, !.thread = t]
  OBVIOUS
<1>2. /\ Talk!Free(c, "read") /\ u \in v1[t].who /\ UNCHANGED <<v1, v3>> /\ v4' = [v4 EXCEPT ![c] = rec]
      /\ v2' = [m \in Messages |-> IF v2[m].thread = t THEN [v2[m] EXCEPT !.read = @ \cup {u}] ELSE v2[m]]
  BY <1>1 DEF Talk!ReadMark, Talk!Marked
<1>3. TalkCall(rec, v1, v2') /\ rec.pc = "re_zero" /\ rec.who = u /\ rec.thread = t
  BY <1>1, <1>2, TalkIdle DEF TalkCall, InThread, Talk!CallType, Talk!Pc
<1>4. \A o \in Calls : v4[o].pc = "idle"
  BY <1>2, TalkFree
<1>5. v4'[c] = rec /\ (\A o \in Calls \ {c} : v4'[o] = v4[o]) /\ v4' \in [Calls -> Talk!CallType]
  BY <1>2, <1>3, TalkFacts DEF TalkCall
<1>6. ASSUME NEW m \in Messages
      PROVE  /\ v2'[m] \in Talk!MessageType /\ v2'[m].thread = v2[m].thread /\ v2'[m].sender = v2[m].sender
             /\ v2'[m].read = IF v2[m].thread = t THEN v2[m].read \cup {u} ELSE v2[m].read
  <2>1. v2[m] \in Talk!MessageType
    BY TalkFacts
  <2>2. CASE v2[m].thread = t
    BY <1>2, <2>1, <2>2 DEF Talk!MessageType
  <2>3. CASE v2[m].thread # t
    BY <1>2, <2>1, <2>3 DEF Talk!MessageType
  <2> QED BY <2>2, <2>3
<1>7. v2' \in [Messages -> Talk!MessageType]
  BY <1>2, <1>6
<1>8. \A m \in Messages : MailKept(v2'[m], v1)
  BY <1>6, TalkFacts DEF MailKept
<1>9. \A o \in Calls : TalkCall(v4'[o], v1, v2')
  <2>1. ASSUME NEW o \in Calls \ {c} PROVE TalkCall(v4[o], v1, v2')
    BY <1>4, TalkFacts DEF TalkCall, InThread
  <2> QED BY <1>3, <1>5, <2>1
<1>10. \A s \in Sockets : SocketKept(v3[s], v1, v2')
  <2> SUFFICES ASSUME NEW s \in Sockets PROVE SocketKept(v3[s], v1, v2')
    OBVIOUS
  <2>1. SocketKept(v3[s], v1, v2) /\ v3[s].heard \subseteq Messages
    BY TalkFacts DEF Talk!SocketType
  <2>2. \A m \in v3[s].heard : v2'[m].thread = v2[m].thread
    BY <1>6, <2>1
  <2> QED BY <2>1, <2>2 DEF SocketKept
<1>11. \A x, y : Pending(v4', x, y) = {} /\ Pending(v4, x, y) = {}
  BY <1>3, <1>4, <1>5 DEF Pending
<1>12. ASSUME NEW x \in Threads, NEW y \in People PROVE Tallied(v1', v2', v4', x, y)
  <2>1. CASE x = t /\ y = u
    <3>1. Fresh(v2', x, y) = {}
      BY <1>6, <2>1 DEF Fresh
    <3>2. Zeroing(v4'[c], x, y)
      BY <1>3, <1>5, <2>1 DEF Zeroing
    <3> QED BY <1>11, <3>1, <3>2 DEF Tallied
  <2>2. CASE ~(x = t /\ y = u)
    <3>1. Fresh(v2', x, y) = Fresh(v2, x, y)
      BY <1>6, <2>2 DEF Fresh
    <3>2. \A o \in Calls : ~Zeroing(v4'[o], x, y) /\ ~Zeroing(v4[o], x, y)
      BY <1>3, <1>4, <1>5, <2>2 DEF Zeroing
    <3>3. Pending(v4', x, y) = Pending(v4, x, y) /\ v1' = v1 /\ Tallied(v1, v2, v4, x, y)
      BY <1>2, <1>11, TalkFacts
    <3> QED BY <3>1, <3>2, <3>3 DEF Tallied
  <2> QED BY <2>1, <2>2
<1>13. Lone(v4')
  BY <1>4, <1>5 DEF Lone
<1> QED BY <1>2, <1>5, <1>7, <1>8, <1>9, <1>10, <1>12, <1>13, TalkFacts, TalkKept

LEMMA TalkZero == ASSUME TalkOK, NEW c \in Calls, Talk!ReadZero(c) PROVE TalkOK'
<1>1. PICK w, x : w = v4[c].who /\ x = v4[c].thread
  OBVIOUS
<1>2. v4[c].pc = "re_zero" /\ UNCHANGED <<v2, v3>> /\ v4' = [v4 EXCEPT ![c] = Talk!Idle]
      /\ v1' = [v1 EXCEPT ![x].unread[w] = 0]
  BY <1>1 DEF Talk!ReadZero, Talk!At, Talk!End
<1>3. x \in Threads /\ w \in v1[x].who /\ v1[x] \in Talk!ThreadType
  <2>1. TalkCall(v4[c], v1, v2)
    BY TalkFacts
  <2> QED BY <1>1, <1>2, <2>1, TalkFacts DEF TalkCall, InThread
<1>4. PICK row : row = [v1[x] EXCEPT !.unread = [v1[x].unread EXCEPT ![w] = 0]]
  OBVIOUS
<1>5. w \in People /\ row \in Talk!ThreadType /\ row.who = v1[x].who /\ row.unread = [v1[x].unread EXCEPT ![w] = 0]
      /\ RowKept(row)
  BY <1>3, <1>4 DEF Talk!ThreadType, RowKept
<1>6. v1' = [v1 EXCEPT ![x] = row]
  BY <1>2, <1>3, <1>4, TalkFacts DEF Talk!ThreadType
<1>7. /\ v1' \in [Threads -> Talk!ThreadType] /\ v1'[x] = row /\ \A t \in Threads \ {x} : v1'[t] = v1[t]
      /\ \A t \in Threads : v1'[t].who = v1[t].who
  BY <1>3, <1>5, <1>6, TalkFacts
<1>8. \A o \in Calls \ {c} : v4[o].pc = "idle"
  BY <1>2, TalkFacts DEF Lone
<1>9. (\A o \in Calls : v4'[o].pc = "idle") /\ v4' \in [Calls -> Talk!CallType] /\ \A o \in Calls : TalkCall(v4'[o], v1', v2)
  <2>1. v4'[c] = Talk!Idle /\ (\A o \in Calls \ {c} : v4'[o] = v4[o]) /\ v4' \in [Calls -> Talk!CallType]
    BY <1>2, TalkFacts, TalkIdle
  <2> QED BY <1>7, <1>8, <2>1, TalkIdle, TalkSameWho
<1>10. \A t, u : Pending(v4', t, u) = {} /\ Pending(v4, t, u) = {}
  BY <1>2, <1>8, <1>9 DEF Pending
<1>11. \A t, u : \A o \in Calls : ~Zeroing(v4'[o], t, u) /\ (Zeroing(v4[o], t, u) => t = x /\ u = w)
  BY <1>1, <1>8, <1>9 DEF Zeroing
<1>12. ASSUME NEW t \in Threads, NEW u \in People PROVE Tallied(v1', v2', v4', t, u)
  <2>1. CASE t = x /\ u = w
    <3>1. Zeroing(v4[c], t, u)
      BY <1>1, <1>2, <2>1 DEF Zeroing
    <3>2. Fresh(v2, t, u) = {}
      BY <3>1, TalkFacts DEF Tallied
    <3>3. v1'[t].unread[u] = 0
      BY <1>3, <1>5, <1>7, <2>1 DEF Talk!ThreadType
    <3>4. Talk!Cardinality({}) = 0
      BY TalkSizes, FS_EmptySet
    <3>5. Fresh(v2', t, u) = {} /\ Pending(v4', t, u) = {} /\ ~\E o \in Calls : Zeroing(v4'[o], t, u)
      BY <1>2, <1>10, <1>11, <3>2
    <3> QED BY <3>3, <3>4, <3>5 DEF Tallied
  <2>2. CASE ~(t = x /\ u = w)
    <3>1. ~\E o \in Calls : Zeroing(v4[o], t, u)
      BY <1>11, <2>2
    <3>2. v1'[t].unread[u] = v1[t].unread[u]
      BY <1>3, <1>5, <1>7, <2>2 DEF Talk!ThreadType
    <3> QED BY <1>2, <1>7, <1>10, <1>11, <3>1, <3>2, TalkFacts DEF Tallied
  <2> QED BY <2>1, <2>2
<1>13. Lone(v4')
  BY <1>9 DEF Lone
<1>14. \A t \in Threads : RowKept(v1'[t])
  BY <1>5, <1>7, TalkFacts
<1>15. (\A m \in Messages : MailKept(v2[m], v1')) /\ \A s \in Sockets : SocketKept(v3[s], v1', v2)
  BY <1>7, TalkSameWho
<1> QED BY <1>2, <1>7, <1>9, <1>12, <1>13, <1>14, <1>15, TalkFacts, TalkKept

\* A connection opens, enters a room it belongs to, leaves one, closes.
LEMMA TalkConnections ==
  ASSUME TalkOK, NEW s \in Sockets,
         \/ Talk!Disconnect(s)
         \/ \E u \in People : Talk!Connect(s, u)
         \/ \E t \in Threads : Talk!Join(s, t) \/ Talk!Leave(s, t)
  PROVE  TalkOK'
<1>1. SocketKept(v3[s], v1, v2) /\ v3[s] \in Talk!SocketType
  BY TalkFacts
<1>2. ASSUME NEW sock, SocketKept(sock, v1, v2), v3' = [v3 EXCEPT ![s] = sock], UNCHANGED <<v1, v2, v4>> PROVE TalkOK'
  <2>1. v3' \in [Sockets -> Talk!SocketType] /\ \A o \in Sockets : SocketKept(v3'[o], v1, v2)
    BY <1>2, TalkFacts DEF SocketKept
  <2> QED BY <1>2, <2>1, TalkSockets
<1>3. CASE Talk!Disconnect(s)
  BY <1>2, <1>3, TalkIdle DEF Talk!Disconnect
<1>4. ASSUME NEW u \in People, Talk!Connect(s, u) PROVE TalkOK'
  <2>1. PICK sock : sock = [Talk!Closed EXCEPT !.who = u]
    OBVIOUS
  <2>2. SocketKept(sock, v1, v2)
    BY <2>1, TalkAssumption DEF SocketKept, Talk!Closed, Talk!SocketType
  <2> QED BY <1>2, <1>4, <2>1, <2>2 DEF Talk!Connect
<1>5. ASSUME NEW t \in Threads, Talk!Join(s, t) PROVE TalkOK'
  <2>1. PICK sock : sock = [v3[s] EXCEPT !.rooms = v3[s].rooms \cup {t}]
    OBVIOUS
  <2>2. /\ sock \in Talk!SocketType /\ sock.who = v3[s].who /\ sock.heard = v3[s].heard
        /\ sock.rooms = v3[s].rooms \cup {t}
    BY <1>1, <2>1 DEF Talk!SocketType
  <2>3. v3[s].who \in v1[t].who /\ v1[t].who \subseteq People
    BY <1>5, TalkFacts DEF Talk!Join, Talk!MayJoin, Talk!ThreadType
  <2>4. SocketKept(sock, v1, v2)
    BY <1>1, <2>2, <2>3, TalkAssumption DEF SocketKept
  <2>5. v3' = [v3 EXCEPT ![s] = sock] /\ UNCHANGED <<v1, v2, v4>>
    BY <1>5, <2>1, TalkFacts DEF Talk!Join
  <2> QED BY <1>2, <2>4, <2>5
<1>6. ASSUME NEW t \in Threads, Talk!Leave(s, t) PROVE TalkOK'
  <2>1. PICK sock : sock = [v3[s] EXCEPT !.rooms = v3[s].rooms \ {t}]
    OBVIOUS
  <2>2. /\ sock \in Talk!SocketType /\ sock.who = v3[s].who /\ sock.heard = v3[s].heard
        /\ sock.rooms = v3[s].rooms \ {t}
    BY <1>1, <2>1 DEF Talk!SocketType
  <2>3. sock.who # Nobody
    <3>1. v3[s].rooms # {}
      BY <1>6 DEF Talk!Leave
    <3> QED BY <1>1, <2>2, <3>1 DEF SocketKept, Talk!Closed
  <2>4. SocketKept(sock, v1, v2)
    BY <1>1, <2>2, <2>3 DEF SocketKept
  <2>5. v3' = [v3 EXCEPT ![s] = sock] /\ UNCHANGED <<v1, v2, v4>>
    BY <1>6, <2>1, TalkFacts DEF Talk!Leave
  <2> QED BY <1>2, <2>4, <2>5
<1> QED BY <1>3, <1>4, <1>5, <1>6

LEMMA TalkStep == TalkOK /\ Talk!Next => TalkOK'
  BY TalkStart, TalkOpen, TalkInsert, TalkCounted, TalkPublish, TalkMark, TalkZero, TalkConnections
     DEF Talk!Next, Talk!Step

LEMMA TalkStay == TalkOK /\ UNCHANGED atDesk => TalkOK'
<1> SUFFICES ASSUME TalkOK, UNCHANGED atDesk PROVE TalkOK'
  OBVIOUS
<1>1. v1' = v1 /\ v2' = v2 /\ v3' = v3 /\ v4' = v4
  BY DEF atDesk
<1> QED BY <1>1, TalkFacts, TalkKept

LEMMA TalkExact == TalkOK => Talk!UnreadExact /\ Talk!HeardByThread
<1> SUFFICES ASSUME TalkOK PROVE Talk!UnreadExact /\ Talk!HeardByThread
  OBVIOUS
<1>1. Talk!HeardByThread
  BY DEF TalkOK, Talk!ThreadsInv
<1>2. Talk!UnreadExact
  BY DEF TalkOK, Talk!ThreadsInv, Talk!UnreadExact, Talk!Listed
<1> QED BY <1>1, <1>2
-----------------------------------------------------------------------------
\* The assistant: convos and asking are v1 and v2.
ChatsOK == Chats!TypeOK /\ Chats!TurnsInv

InTurn(s) == /\ s \in Seq(Chats!Turn) /\ Len(s) % 2 = 0
             /\ \A i \in 1..Len(s) : s[i].role = IF i % 2 = 1 THEN "user" ELSE "assistant"

LEMMA ChatsTurns == \A s \in Seq(Chats!Turn) : InTurn(s) <=> Chats!InTurn(s)
<1> SUFFICES ASSUME NEW s \in Seq(Chats!Turn) PROVE InTurn(s) <=> Chats!InTurn(s)
  OBVIOUS
<1>1. DOMAIN s = 1..Len(s)
  OBVIOUS
<1> QED BY <1>1 DEF InTurn, Chats!InTurn, Chats!Alternates

LEMMA ChatsFacts ==
  ASSUME ChatsOK
  PROVE  /\ v1 \in [Convos -> Chats!ConvoType] /\ v2 \in [Calls -> Chats!CallType]
         /\ \A v \in Convos : InTurn(v1[v].messages) /\ Len(v1[v].messages) <= MaxTurns
         /\ \A c \in Calls : InTurn(v2[c].history)
<1>1. v1 \in [Convos -> Chats!ConvoType] /\ v2 \in [Calls -> Chats!CallType]
  BY DEF ChatsOK, Chats!TypeOK
<1>2. \A v \in Convos : v1[v].messages \in Seq(Chats!Turn) /\ Len(v1[v].messages) <= MaxTurns
  BY <1>1 DEF ChatsOK, Chats!TypeOK, Chats!ConvoType
<1>3. \A c \in Calls : v2[c].history \in Seq(Chats!Turn)
  BY <1>1 DEF Chats!CallType
<1> QED BY <1>1, <1>2, <1>3, ChatsTurns DEF ChatsOK, Chats!TurnsInv

LEMMA ChatsKept ==
  ASSUME v1' \in [Convos -> Chats!ConvoType], v2' \in [Calls -> Chats!CallType],
         \A v \in Convos : InTurn(v1'[v].messages) /\ Len(v1'[v].messages) <= MaxTurns,
         \A c \in Calls : InTurn(v2'[c].history)
  PROVE  ChatsOK'
<1>1. Chats!TypeOK'
  BY DEF Chats!TypeOK
<1>2. ASSUME NEW s, InTurn(s) PROVE Chats!InTurn(s)
  BY <1>2, ChatsTurns DEF InTurn
<1>3. Chats!TurnsInv'
  BY <1>2 DEF Chats!TurnsInv
<1> QED BY <1>1, <1>3 DEF ChatsOK

LEMMA ChatsNothing == /\ InTurn(<<>>) /\ Chats!Idle \in Chats!CallType /\ Chats!Idle.history = <<>>
                      /\ Chats!NoRow \in Chats!ConvoType /\ Chats!NoRow.messages = <<>> /\ MaxTurns \in Nat
<1>1. <<>> \in Seq(Chats!Turn) /\ Len(<<>>) = 0
  BY EmptySeq
<1> QED BY <1>1, DesksAssumption DEF InTurn, Chats!Idle, Chats!CallType, Chats!Words, Chats!NoRow, Chats!ConvoType, Chats!AssistantAssumption

LEMMA ChatsInit == Chats!Init => ChatsOK
<1> SUFFICES ASSUME Chats!Init PROVE ChatsOK
  OBVIOUS
<1>1. v1 \in [Convos -> Chats!ConvoType] /\ v2 \in [Calls -> Chats!CallType]
  BY ChatsNothing DEF Chats!Init
<1>2. (\A v \in Convos : v1[v].messages = <<>>) /\ \A c \in Calls : v2[c].history = <<>>
  BY ChatsNothing DEF Chats!Init
<1>3. Len(<<>>) = 0
  OBVIOUS
<1>4. Chats!TypeOK
  BY <1>1, <1>2, <1>3, ChatsNothing DEF Chats!TypeOK
<1>5. Chats!TurnsInv
  BY <1>2, ChatsNothing, ChatsTurns DEF Chats!TurnsInv, InTurn
<1> QED BY <1>4, <1>5 DEF ChatsOK

LEMMA ChatsStep == ChatsOK /\ Chats!Next => ChatsOK'
<1> SUFFICES ASSUME ChatsOK, Chats!Next PROVE ChatsOK'
  OBVIOUS
<1>1. /\ v1 \in [Convos -> Chats!ConvoType] /\ v2 \in [Calls -> Chats!CallType]
      /\ \A v \in Convos : InTurn(v1[v].messages) /\ Len(v1[v].messages) <= MaxTurns /\ v1[v] \in Chats!ConvoType
      /\ \A c \in Calls : InTurn(v2[c].history) /\ v2[c] \in Chats!CallType
  BY ChatsFacts
<1>2. ASSUME NEW c \in Calls, NEW v \in Convos, NEW h, NEW m \in {"said", "empty"}, InTurn(h), Chats!Ask(c, v, h, m)
      PROVE  v2' \in [Calls -> Chats!CallType] /\ \A o \in Calls : InTurn(v2'[o].history)
  <2>1. PICK rec : rec = [Chats!Idle EXCEPT !.pc = "complete", !.convo = v, !.history = h, !.message = m]
    OBVIOUS
  <2>2. rec \in Chats!CallType /\ rec.history = h
    BY <1>2, <2>1, ChatsNothing DEF Chats!CallType, Chats!Words, InTurn
  <2>3. v2' = [v2 EXCEPT ![c] = rec]
    BY <1>2, <2>1 DEF Chats!Ask
  <2> QED BY <1>1, <1>2, <2>2, <2>3
<1>3. ASSUME NEW c \in Calls, NEW v \in Convos, NEW m \in {"said", "empty"}, Chats!ChatStart(c, v, m) PROVE ChatsOK'
  <2>1. PICK h : h = v1[v].messages
    OBVIOUS
  <2>2. Chats!Ask(c, v, h, m) /\ v1' = v1
    BY <1>3, <2>1, Zenon DEF Chats!ChatStart
  <2> QED BY <1>1, <1>2, <2>1, <2>2, ChatsKept
<1>4. ASSUME NEW c \in Calls, NEW v \in Convos, NEW m \in {"said", "empty"}, Chats!ChatNew(c, v, m) PROVE ChatsOK'
  <2>1. Chats!Ask(c, v, <<>>, m) /\ v1' = [v1 EXCEPT ![v].status = "open"]
    BY <1>4, Zenon DEF Chats!ChatNew
  <2>2. PICK row : row = [v1[v] EXCEPT !.status = "open"]
    OBVIOUS
  <2>3. row \in Chats!ConvoType /\ row.messages = v1[v].messages /\ v1' = [v1 EXCEPT ![v] = row]
    BY <1>1, <2>1, <2>2 DEF Chats!ConvoType
  <2>4. v1' \in [Convos -> Chats!ConvoType] /\ \A x \in Convos : v1'[x].messages = v1[x].messages
    BY <1>1, <2>3
  <2> QED BY <1>1, <1>2, <2>1, <2>4, ChatsNothing, ChatsKept
<1>5. ASSUME NEW c \in Calls, NEW r \in {"said", "apology"}, Chats!Complete(c, r) PROVE ChatsOK'
  <2>1. PICK rec : rec = [v2[c] EXCEPT !.pc = "store", !.reply = r]
    OBVIOUS
  <2>2. rec \in Chats!CallType /\ rec.history = v2[c].history
    BY <1>1, <2>1 DEF Chats!CallType, Chats!Words
  <2>3. v1' = v1 /\ v2' = [v2 EXCEPT ![c].pc = "store", ![c].reply = r]
    BY <1>5 DEF Chats!Complete
  <2>4. v2' = [v2 EXCEPT ![c] = rec]
    BY <1>1, <2>1, <2>3
  <2>5. v2' \in [Calls -> Chats!CallType] /\ \A o \in Calls : v2'[o].history = v2[o].history
    BY <1>1, <2>2, <2>4
  <2> QED BY <1>1, <2>3, <2>5, ChatsKept
<1>6. ASSUME NEW c \in Calls, Chats!Store(c) PROVE ChatsOK'
  <2>1. PICK call \in Chats!CallType : call = v2[c]
    BY <1>1
  <2>2. PICK rec : rec = [call EXCEPT !.pc = "show"]
    OBVIOUS
  <2>3. rec \in Chats!CallType /\ rec.history = call.history /\ v2' = [v2 EXCEPT ![c] = rec]
    BY <1>1, <1>6, <2>1, <2>2 DEF Chats!Store, Chats!CallType
  <2>4. v2' \in [Calls -> Chats!CallType] /\ \A o \in Calls : v2'[o].history = v2[o].history
    BY <1>1, <2>1, <2>3
  <2>5. PICK v : v = call.convo
    OBVIOUS
  <2>6. CASE v1[v].status = "open" /\ v \in Convos
    <3>1. PICK said : said = <<[role |-> "user", words |-> call.message], [role |-> "assistant", words |-> call.reply]>>
      OBVIOUS
    <3>2. v1' = [v1 EXCEPT ![v].messages = v1[v].messages \o said] /\ Len(v1[v].messages) + 2 <= MaxTurns
      BY <1>1, <1>6, <2>1, <2>5, <2>6, <3>1 DEF Chats!Store, Chats!Said
    <3>3. /\ said \in Seq(Chats!Turn) /\ Len(said) = 2
          /\ said[1].role = "user" /\ said[2].role = "assistant"
      BY <2>1, <3>1 DEF Chats!Turn, Chats!Roles, Chats!CallType
    <3>4. PICK h : h = v1[v].messages
      OBVIOUS
    <3>5. InTurn(h)
      BY <1>1, <2>6, <3>4
    <3>a. h \in Seq(Chats!Turn) /\ Len(h) \in Nat
      BY <3>5 DEF InTurn
    <3>b. PICK n \in Nat : n = Len(h) /\ n % 2 = 0
      BY <3>5, <3>a DEF InTurn
    <3>c. (n + 1) % 2 = 1 /\ (n + 2) % 2 = 0
      BY <3>b
    <3>6. PICK g : g = h \o said
      OBVIOUS
    <3>d. /\ g \in Seq(Chats!Turn) /\ Len(g) = n + 2
          /\ \A i \in 1..n + 2 : g[i] = IF i <= n THEN h[i] ELSE said[i - n]
      <4>1. /\ g \in Seq(Chats!Turn) /\ Len(g) = Len(h) + Len(said)
            /\ \A i \in 1..Len(h) + Len(said) : g[i] = IF i <= Len(h) THEN h[i] ELSE said[i - Len(h)]
        BY <3>3, <3>a, <3>6, ConcatProperties
      <4>2. Len(h) = n /\ Len(said) = 2
        BY <3>3, <3>b
      <4> QED BY <4>1, <4>2
    <3>7. /\ g \in Seq(Chats!Turn) /\ Len(g) = n + 2
          /\ \A i \in 1..n : g[i] = h[i]
          /\ g[n + 1] = said[1] /\ g[n + 2] = said[2]
      BY <3>b, <3>d
    <3>8. InTurn(g)
      <4>1. Len(g) % 2 = 0
        BY <3>c, <3>7
      <4>2. ASSUME NEW i \in 1..Len(g) PROVE g[i].role = IF i % 2 = 1 THEN "user" ELSE "assistant"
        <5>1. CASE i \in 1..n
          BY <3>5, <3>b, <3>7, <5>1 DEF InTurn
        <5>2. CASE i = n + 1
          BY <3>3, <3>c, <3>7, <5>2
        <5>3. CASE i = n + 2
          BY <3>3, <3>c, <3>7, <5>3
        <5> QED BY <3>b, <3>7, <5>1, <5>2, <5>3
      <4> QED BY <3>7, <4>1, <4>2 DEF InTurn
    <3>9. PICK row : row = [v1[v] EXCEPT !.messages = g]
      OBVIOUS
    <3>10. row \in Chats!ConvoType /\ row.messages = g /\ v1' = [v1 EXCEPT ![v] = row]
      BY <1>1, <2>6, <3>2, <3>4, <3>6, <3>7, <3>9 DEF Chats!ConvoType
    <3>11. Len(g) <= MaxTurns
      BY <3>2, <3>4, <3>b, <3>7
    <3>12. v1' \in [Convos -> Chats!ConvoType]
           /\ \A x \in Convos : v1'[x].messages = IF x = v THEN g ELSE v1[x].messages
      BY <1>1, <2>6, <3>10
    <3> QED BY <1>1, <2>4, <3>8, <3>11, <3>12, ChatsKept
  <2>7. CASE v1[v].status # "open"
    BY <1>1, <1>6, <2>1, <2>4, <2>5, <2>7, ChatsKept DEF Chats!Store
  <2>8. CASE v \notin Convos
    <3>1. v1' = v1 \/ v1' = [v1 EXCEPT ![v].messages = v1[v].messages \o Chats!Said(c)]
      BY <1>6, <2>1, <2>5, <2>8 DEF Chats!Store
    <3>2. v1' = v1
      BY <1>1, <2>8, <3>1
    <3> QED BY <1>1, <2>4, <3>2, ChatsKept
  <2> QED BY <2>6, <2>7, <2>8
<1>7. ASSUME NEW c \in Calls, Chats!Show(c) PROVE ChatsOK'
  <2>1. v1' = v1 /\ v2' = [v2 EXCEPT ![c] = Chats!Idle]
    BY <1>7 DEF Chats!Show
  <2> QED BY <1>1, <2>1, ChatsNothing, ChatsKept
<1>8. ASSUME NEW v \in Convos, Chats!Delete(v) PROVE ChatsOK'
  <2>1. PICK row : row = [Chats!NoRow EXCEPT !.status = "deleted"]
    OBVIOUS
  <2>2. row \in Chats!ConvoType /\ row.messages = <<>>
    BY <2>1, ChatsNothing DEF Chats!ConvoType
  <2>3. v1' = [v1 EXCEPT ![v] = row] /\ v2' = v2
    BY <1>8, <2>1 DEF Chats!Delete
  <2>4. v1' \in [Convos -> Chats!ConvoType]
        /\ \A x \in Convos : v1'[x].messages = IF x = v THEN <<>> ELSE v1[x].messages
    BY <1>1, <2>2, <2>3
  <2>5. Len(<<>>) = 0
    OBVIOUS
  <2> QED BY <1>1, <2>3, <2>4, <2>5, ChatsNothing, ChatsKept
<1> QED BY <1>3, <1>4, <1>5, <1>6, <1>7, <1>8 DEF Chats!Next

LEMMA ChatsStay == ChatsOK /\ UNCHANGED atDesk => ChatsOK'
  BY DEF ChatsOK, atDesk, Chats!TypeOK, Chats!TurnsInv, Chats!Alternates

\* When everything in it has words, picking the messages with words changes nothing.
LEMMA ChatsAllSpoken ==
  ASSUME NEW h \in Seq(Chats!Turn), \A i \in 1..Len(h) : Chats!Spoken(h[i])
  PROVE  Chats!WithWords(h) = h
<1>1. PICK n \in Nat : n = Len(h) /\ DOMAIN h = 1..n
  OBVIOUS
<1>2. Chats!Worded(h) = 1..n
  BY <1>1 DEF Chats!Worded
<1>3. ASSUME NEW i \in 0..n PROVE Chats!Cardinality(1..i) = i
  <2>1. Cardinality(1..i) = i
    BY <1>1, FS_Interval
  <2>2. Chats!Cardinality(1..i) = Cardinality(1..i)
    BY DEF Chats!Cardinality, Cardinality
  <2> QED BY <2>1, <2>2
<1>4. ASSUME NEW i \in 1..n PROVE Chats!Cardinality({j \in 1..n : j <= i}) = i
  <2>1. {j \in 1..n : j <= i} = 1..i
    BY <1>1
  <2>2. Chats!Cardinality(1..i) = i
    BY <1>1, <1>3
  <2> QED BY <2>1, <2>2
<1>5. ASSUME NEW k \in 1..n PROVE Chats!Nth(1..n, k) = k
  BY <1>4 DEF Chats!Nth
<1>6. Chats!Cardinality(1..n) = n
  BY <1>1, <1>3
<1>7. Chats!WithWords(h) = [k \in 1..n |-> h[Chats!Nth(1..n, k)]]
  BY <1>2, <1>6 DEF Chats!WithWords
<1>8. Chats!WithWords(h) = [k \in 1..n |-> h[k]]
  BY <1>5, <1>7
<1> QED BY <1>1, <1>8

\* The last messages of a history in turn, an even number of them, are in turn.
LEMMA ChatsRecent ==
  ASSUME NEW h, InTurn(h)
  PROVE  /\ InTurn(Chats!Recent(h))
         /\ (\A i \in 1..Len(h) : Chats!Spoken(h[i])) => \A i \in 1..Len(Chats!Recent(h)) : Chats!Spoken(Chats!Recent(h)[i])
<1>1. PICK n \in Nat, w \in Nat \ {0} : n = Len(h) /\ w = Window /\ n % 2 = 0 /\ w % 2 = 0 /\ h \in Seq(Chats!Turn)
  BY DesksAssumption DEF InTurn, Chats!AssistantAssumption
<1>2. PICK a \in Nat \ {0} : a = (IF n > w THEN n - w + 1 ELSE 1) /\ a % 2 = 1 /\ a <= n + 1
  BY <1>1
<1>3. PICK r : r = SubSeq(h, a, n)
  OBVIOUS
<1>4. Chats!Recent(h) = r
  BY <1>1, <1>2, <1>3 DEF Chats!Recent
<1>5. \A i \in a..n : h[i] \in Chats!Turn
  BY <1>1, <1>2, ElementOfSeq
<1>6. /\ r \in Seq(Chats!Turn) /\ Len(r) = (IF a <= n THEN n - a + 1 ELSE 0)
      /\ \A i \in 1..n - a + 1 : r[i] = h[a + i - 1]
  BY <1>1, <1>2, <1>3, <1>5, SubSeqProperties
<1>a. Len(r) = n - a + 1
  <2>1. n \in Nat /\ a \in Nat /\ a <= n + 1
    BY <1>1, <1>2
  <2>2. Len(r) = (IF a <= n THEN n - a + 1 ELSE 0)
    BY <1>6
  <2>3. CASE a <= n
    BY <2>2, <2>3
  <2>4. CASE ~(a <= n)
    <3>1. n - a + 1 = 0
      BY <2>1, <2>4
    <3> QED BY <2>2, <2>4, <3>1
  <2> QED BY <2>3, <2>4
<1>b. (n - a + 1) % 2 = 0
  <2>1. PICK x \in Nat : n = 2 * x
    BY <1>1
  <2>2. PICK y \in Nat : a = 2 * y + 1
    BY <1>2
  <2>3. n - a + 1 = 2 * (x - y)
    BY <2>1, <2>2
  <2> QED BY <2>3
<1>7. Len(r) = n - a + 1 /\ Len(r) % 2 = 0
  BY <1>a, <1>b
<1>8. ASSUME NEW i \in 1..Len(r) PROVE r[i].role = IF i % 2 = 1 THEN "user" ELSE "assistant"
  <2>1. PICK k \in Int : k = a + i - 1
    BY <1>2
  <2>2. i \in 1..n - a + 1
    BY <1>8, <1>7
  <2>3. k \in 1..n /\ r[i] = h[k]
    BY <1>1, <1>2, <1>6, <2>1, <2>2
  <2>4. k % 2 = i % 2
    <3>1. PICK y \in Nat : a = 2 * y + 1
      BY <1>2
    <3>2. k = i + 2 * y
      BY <2>1, <2>2, <3>1
    <3> QED BY <2>2, <2>3, <3>1, <3>2
  <2> QED BY <1>1, <2>3, <2>4 DEF InTurn
<1>9. ASSUME \A i \in 1..Len(h) : Chats!Spoken(h[i]), NEW i \in 1..Len(r) PROVE Chats!Spoken(r[i])
  <2>1. i \in 1..n - a + 1 /\ a + i - 1 \in 1..n
    BY <1>1, <1>2, <1>7, <1>9
  <2>2. r[i] = h[a + i - 1]
    BY <1>6, <2>1
  <2> QED BY <1>1, <1>9, <2>1, <2>2
<1> QED BY <1>4, <1>6, <1>7, <1>8, <1>9 DEF InTurn

LEMMA ChatsPrompts == ChatsOK => Chats!PromptAlternates
<1> SUFFICES ASSUME ChatsOK, NEW c \in Calls, \A i \in DOMAIN v2[c].history : Chats!Spoken(v2[c].history[i])
             PROVE  Chats!Alternates(Chats!Prompt(c)) /\ Len(Chats!Prompt(c)) % 2 = 1
  BY DEF Chats!PromptAlternates
<1>1. PICK h : h = v2[c].history
  OBVIOUS
<1>2. InTurn(h) /\ h \in Seq(Chats!Turn) /\ v2[c] \in Chats!CallType
  BY <1>1, ChatsFacts DEF InTurn
<1>3. \A i \in 1..Len(h) : Chats!Spoken(h[i])
  BY <1>1, <1>2
<1>4. PICK r : r = Chats!Recent(h)
  OBVIOUS
<1>5. InTurn(r) /\ r \in Seq(Chats!Turn) /\ Chats!WithWords(r) = r
  BY <1>2, <1>3, <1>4, ChatsRecent, ChatsAllSpoken DEF InTurn
<1>6. PICK q : q = [role |-> "user", words |-> v2[c].message]
  OBVIOUS
<1>7. q \in Chats!Turn /\ q.role = "user"
  BY <1>2, <1>6 DEF Chats!Turn, Chats!Roles, Chats!CallType
<1>8. Chats!Prompt(c) = Append(r, q)
  BY <1>1, <1>4, <1>5, <1>6 DEF Chats!Prompt
<1>9. PICK g : g = Append(r, q)
  OBVIOUS
<1>10. /\ g \in Seq(Chats!Turn) /\ Len(g) = Len(r) + 1 /\ Len(r) \in Nat /\ Len(r) % 2 = 0
       /\ \A i \in 1..Len(r) : g[i] = r[i]
       /\ g[Len(r) + 1] = q
  BY <1>5, <1>7, <1>9, AppendProperties DEF InTurn
<1>11. \A i \in DOMAIN g : g[i].role = IF i % 2 = 1 THEN "user" ELSE "assistant"
  <2> SUFFICES ASSUME NEW i \in DOMAIN g PROVE g[i].role = IF i % 2 = 1 THEN "user" ELSE "assistant"
    OBVIOUS
  <2>1. i \in 1..Len(r) \/ i = Len(r) + 1
    BY <1>10
  <2>2. CASE i \in 1..Len(r)
    BY <1>5, <1>10, <2>2 DEF InTurn
  <2>3. CASE i = Len(r) + 1
    BY <1>7, <1>10, <2>3
  <2> QED BY <2>1, <2>2, <2>3
<1>12. Len(g) % 2 = 1
  BY <1>10
<1> QED BY <1>8, <1>9, <1>11, <1>12 DEF Chats!Alternates

\* A badge counts what its reader has not read, however many messages are on their
\* way, nobody hears a thread they are not in, and the assistant is shown questions
\* and answers in turn, however long a conversation has grown
\* (messages/service.py:264, realtime.py:78, ai/router.py:123).
THEOREM TalkIsKept == OfficeSpec => []ConversationsKept
<1> DEFINE Inv == (desk = "talk" => TalkOK) /\ (desk = "chats" => ChatsOK)
<1>1. OfficeInit => Inv
  BY TalkInit, ChatsInit DEF OfficeInit
<1>2. Inv /\ [OfficeNext]_officeVars => Inv'
  BY TalkStep, TalkStay, ChatsStep, ChatsStay, DeskMoves
<1>3. Inv => ConversationsKept
  BY TalkExact, ChatsPrompts DEF ConversationsKept
<1> QED BY <1>1, <1>2, <1>3, PTL DEF OfficeSpec

-----------------------------------------------------------------------------
\* Types, at every desk.
LEMMA LedgerMoves ==
  /\ OfficeInit => Init
  /\ [OfficeNext]_officeVars => [Next]_vars
<1>1. OfficeInit => Init
  BY DEF OfficeInit, AwayFromLedger
<1>2. [OfficeNext]_officeVars => [Next]_vars
  BY DEF OfficeNext, officeVars, vars, AtLedger, AtWallet, AtPrices, AtPlans, AtBilling, AtTalk, AtChats, AtPush, AtNews, AtCalendar, AtHelp, AtConsents, AtTexts
<1> QED BY <1>1, <1>2

LEMMA LedgerHolds == LedgerAssumption
  BY DesksAssumption

\* Whatever the desk, the variables keep their types: rows are whole, calls point at
\* rows there may be, amounts and counts stay in their bounds.
THEOREM OfficeTypes == OfficeSpec => []OfficeTyped
<1> DEFINE Money == /\ desk = "wallet" => WalletOK
                    /\ desk = "prices" => PricesOK
                    /\ desk = "plans" => PlansOK
                    /\ desk = "billing" => BillsOK
           Words == /\ desk = "talk" => TalkOK
                    /\ desk = "chats" => ChatsOK
                    /\ desk = "push" => PushOK
                    /\ desk = "news" => NewsOK
           Papers == /\ desk = "calendar" => CalendarOK
                     /\ desk = "help" => HelpOK
                     /\ desk = "consents" => ConsentsOK
                     /\ desk = "texts" => TextsOK
           Inv == TypeOK /\ Money /\ Words /\ Papers
<1>1. OfficeInit => Inv
  <2>1. OfficeInit => TypeOK
    BY LedgerMoves, LedgerHolds, TypeInit
  <2>2. OfficeInit => Money
    BY WalletInit, PricesInit, PlansInit, BillsInit DEF OfficeInit
  <2>3. OfficeInit => Words
    BY TalkInit, ChatsInit, PushInit, NewsInit DEF OfficeInit
  <2>4. OfficeInit => Papers
    BY CalendarInit, HelpInit, ConsentsInit, TextsInit DEF OfficeInit
  <2> QED BY <2>1, <2>2, <2>3, <2>4
<1>2. Inv /\ [OfficeNext]_officeVars => Inv'
  <2>1. TypeOK /\ [OfficeNext]_officeVars => TypeOK'
    BY LedgerMoves, LedgerHolds, TypeStep
  <2>2. Money /\ [OfficeNext]_officeVars => Money'
    BY WalletStep, WalletStay, PricesStep, PricesStay, PlansStep, PlansStay, BillsStep, BillsStay, DeskMoves
  <2>3. Words /\ [OfficeNext]_officeVars => Words'
    BY TalkStep, TalkStay, ChatsStep, ChatsStay, PushStep, PushStay, NewsStep, NewsStay, DeskMoves
  <2>4. Papers /\ [OfficeNext]_officeVars => Papers'
    BY CalendarStep, CalendarStay, HelpStep, HelpStay, ConsentsStep, ConsentsStay, TextsStep, TextsStay, DeskMoves
  <2> QED BY <2>1, <2>2, <2>3, <2>4
<1>3. Inv => OfficeTyped
  BY ConsentsMean DEF OfficeTyped, WalletOK, PricesOK, PlansOK, BillsOK, TalkOK, ChatsOK, PushOK, NewsOK,
                      CalendarOK, HelpOK, TextsOK
<1> HIDE DEF Inv
<1> QED BY <1>1, <1>2, <1>3, PTL DEF OfficeSpec
=============================================================================
