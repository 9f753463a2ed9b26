------------------------- MODULE InvoiceLedgerProofs -------------------------
(***************************************************************************)
(* Theorems about InvoiceLedger, for any number of bills, rows, deliveries *)
(* and administrators at work, with handlers that raise, workers that die  *)
(* and events delivered again before their first answer.                   *)
(***************************************************************************)
EXTENDS InvoiceLedger, TLAPS

-----------------------------------------------------------------------------
LEMMA IdleType == Idle \in CallType
  BY PriceAssumption DEF Idle, CallType, CallFields, Handling, Pc, PlatformInvoiceStatus

LEMMA GotoType ==
  ASSUME TypeOK, NEW c \in Calls, NEW pc \in Pc, Goto(c, pc),
         pc \in Handling => calls[c].event \in Events,
         pc \in {"wh_update", "ad_refund", "ad_settle"} => calls[c].row \in Rows
  PROVE  calls' \in [Calls -> CallType]
<1>1. [calls[c] EXCEPT !.pc = pc] \in CallType
  BY DEF TypeOK, CallType, CallFields
<1> QED BY <1>1 DEF Goto, TypeOK

LEMMA EndType ==
  ASSUME TypeOK, NEW c \in Calls, End(c)
  PROVE  calls' \in [Calls -> CallType]
  BY IdleType DEF TypeOK, End

LEMMA StartType ==
  ASSUME TypeOK, NEW c \in Calls, NEW rec \in CallType, Start(c, rec)
  PROVE  calls' \in [Calls -> CallType]
  BY DEF TypeOK, Start

LEMMA NewRowType ==
  ASSUME TypeOK, NEW r \in Rows, NEW b \in Bills \cup {NoBill},
         NEW s \in PlatformInvoiceStatus, NewRow(r, b, s)
  PROVE  ledger' \in [Rows -> RowType]
<1>1. [bill |-> b, status |-> s, refunded |-> 0] \in RowType
  BY PriceAssumption DEF RowType
<1> QED BY <1>1 DEF NewRow, TypeOK

LEMMA EventBill == ASSUME NEW e \in Events PROVE e[1] \in Bills
  BY DEF Events

LEMMA TypeInit == Init => TypeOK
  BY IdleType, PriceAssumption DEF Init, TypeOK, BillType, RowType

LEMMA TypeStep == TypeOK /\ [Next]_vars => TypeOK'
<1> SUFFICES ASSUME TypeOK, [Next]_vars PROVE TypeOK'
  OBVIOUS
<1> USE DEF stripeVars, claimVars
<1>1. CASE StripeStep
  <2>1. ASSUME NEW b \in Bills, Decline(b) PROVE TypeOK'
    BY <2>1 DEF Decline, TypeOK, Events
  <2>2. ASSUME NEW b \in Bills, Charge(b) PROVE TypeOK'
    <3>1. [bill[b] EXCEPT !.paid = TRUE] \in BillType
      BY DEF TypeOK, BillType
    <3> QED BY <2>2, <3>1 DEF Charge, TypeOK, Events
  <2> QED BY <1>1, <2>1, <2>2 DEF StripeStep
<1>2. ASSUME NEW e \in Events, DeliverDuplicate(e) PROVE TypeOK'
  BY <1>2 DEF DeliverDuplicate, TypeOK
<1>3. ASSUME NEW r \in Rows, NEW s \in PlatformInvoiceStatus, RaiseByHand(r, s) PROVE TypeOK'
  BY <1>3, NewRowType DEF RaiseByHand, TypeOK
<1>4. ASSUME NEW c \in Calls, WebhookStep(c) \/ Raise(c) \/ AdminStep(c) \/ CallCut(c)
      PROVE  TypeOK'
  <2> DEFINE call == calls[c]
  <2>0. call \in CallType
    BY <1>4 DEF TypeOK
  <2>1. ASSUME NEW e \in Events, Deliver(c, e) PROVE TypeOK'
    <3> DEFINE rec == [Idle EXCEPT !.pc = "wh_find", !.event = e]
    <3>1. rec \in CallType
      BY IdleType DEF CallType, CallFields, Pc
    <3>2. calls' \in [Calls -> CallType]
      <4> HIDE DEF rec
      <4>1. Start(c, rec)
        BY <2>1 DEF Deliver, rec
      <4> QED BY <4>1, <3>1, StartType
    <3> QED BY <2>1, <3>2 DEF Deliver, TypeOK
  <2>2. CASE RecordFind(c)
    <3> DEFINE s == StatusOf(call.event)
    <3>1. s \in PlatformInvoiceStatus
      BY DEF StatusOf, PlatformInvoiceStatus
    <3>2. call.pc = "wh_find" /\ call.event \in Events
      BY <2>2, <2>0 DEF RecordFind, At, CallType, Handling
    <3>3. [call EXCEPT !.pc = "wh_insert", !.next = s] \in CallType
      BY <2>0, <3>1, <3>2 DEF CallType, CallFields, Pc
    <3>4. ASSUME NEW r \in Rows
          PROVE  [call EXCEPT !.pc = "wh_update", !.row = r, !.next = s] \in CallType
      BY <2>0, <3>1, <3>2 DEF CallType, CallFields, Pc
    <3> HIDE DEF s
    <3>5. \/ calls' = [calls EXCEPT ![c] = [call EXCEPT !.pc = "wh_insert", !.next = s]]
          \/ \E r \in Rows : calls' = [calls EXCEPT ![c] =
                                 [call EXCEPT !.pc = "wh_update", !.row = r, !.next = s]]
      BY <2>2 DEF RecordFind, RowsOf, Born, TypeOK, s
    <3>6. calls' \in [Calls -> CallType]
      BY <3>3, <3>4, <3>5 DEF TypeOK
    <3> QED BY <2>2, <3>6 DEF RecordFind, TypeOK
  <2>3. CASE RecordUpdate(c)
    <3>1. call.pc = "wh_update" /\ call.event \in Events /\ call.row \in Rows
      BY <2>3, <2>0 DEF RecordUpdate, At, CallType, Handling
    <3>2. calls' \in [Calls -> CallType]
      BY <2>3, <3>1, GotoType DEF RecordUpdate, Pc
    <3>3. [ledger[call.row] EXCEPT !.status = call.next] \in RowType
      BY <3>1, <2>0 DEF TypeOK, RowType, CallType, CallFields
    <3>4. ledger' \in [Rows -> RowType]
      BY <2>3, <3>1, <3>3 DEF RecordUpdate, TypeOK
    <3> QED BY <2>3, <3>2, <3>4 DEF RecordUpdate, TypeOK
  <2>4. CASE RecordInsert(c)
    <3>1. call.pc = "wh_insert" /\ call.event \in Events
      BY <2>4, <2>0 DEF RecordInsert, At, CallType, Handling
    <3>2. calls' \in [Calls -> CallType]
      BY <2>4, <3>1, GotoType DEF RecordInsert, Pc
    <3>3. call.next \in PlatformInvoiceStatus /\ call.event[1] \in Bills
      BY <2>0, <3>1, EventBill DEF CallType, CallFields
    <3>4. ledger' \in [Rows -> RowType]
      BY <2>4, <3>3, NewRowType DEF RecordInsert, TypeOK
    <3> QED BY <2>4, <3>2, <3>4 DEF RecordInsert, TypeOK
  <2>5. CASE Handled(c)
    <3>1. call.event \in Events
      BY <2>5, <2>0 DEF Handled, At, CallType, Handling
    <3>2. calls' \in [Calls -> CallType]
      BY <2>5, EndType DEF Handled
    <3> QED BY <2>5, <3>1, <3>2 DEF Handled, TypeOK
  <2>6. CASE Raise(c)
    <3>1. calls' \in [Calls -> CallType]
      BY <2>6, EndType DEF Raise
    <3>2. faults' \in 0..MaxFaults
      BY <2>6, PriceAssumption DEF Raise, TypeOK
    <3> QED BY <2>6, <3>1, <3>2 DEF Raise, TypeOK
  <2>7. ASSUME NEW r \in Rows, NEW s \in {"paid", "written_off"}, SettleStart(c, r, s)
        PROVE  TypeOK'
    <3> DEFINE rec == [Idle EXCEPT !.pc = "ad_settle", !.row = r, !.next = s]
    <3>1. rec \in CallType
      BY IdleType DEF CallType, CallFields, Pc, Handling, PlatformInvoiceStatus
    <3>2. calls' \in [Calls -> CallType]
      <4> HIDE DEF rec
      <4>1. Start(c, rec)
        BY <2>7 DEF SettleStart, rec
      <4> QED BY <4>1, <3>1, StartType
    <3> QED BY <2>7, <3>2 DEF SettleStart, TypeOK
  <2>8. ASSUME NEW r \in Rows, NEW a \in 0..Price, RefundStart(c, r, a) PROVE TypeOK'
    <3> DEFINE rec == [Idle EXCEPT !.pc = "ad_refund", !.row = r, !.next = "refunded",
                                   !.amount = a]
    <3>1. rec \in CallType
      BY IdleType DEF CallType, CallFields, Pc, Handling, PlatformInvoiceStatus
    <3>2. calls' \in [Calls -> CallType]
      <4> HIDE DEF rec
      <4>1. Start(c, rec)
        BY <2>8 DEF RefundStart, rec
      <4> QED BY <4>1, <3>1, StartType
    <3> QED BY <2>8, <3>2 DEF RefundStart, TypeOK
  <2>9. ASSUME NEW b, Refundable(b, call.amount), Refunded(b, call.amount)
        PROVE  bill' \in [Bills -> BillType]
    <3>1. call.amount \in 0..Price
      BY <2>0 DEF CallType, CallFields
    <3> DEFINE back == IF call.amount = 0 THEN Price ELSE bill[b].returned + call.amount
    <3>2. ASSUME b \in Bills PROVE [bill[b] EXCEPT !.returned = back] \in BillType
      <4>1. bill[b] \in BillType /\ bill[b].returned \in 0..Price
        BY <3>2 DEF TypeOK, BillType
      <4>2. back \in 0..Price
        BY <2>9, <3>1, <4>1, PriceAssumption DEF Refundable, Left
      <4> QED BY <4>1, <4>2 DEF BillType
    <3>3. bill' = [bill EXCEPT ![b] = [bill[b] EXCEPT !.returned = back]]
      BY <2>9 DEF Refunded
    <3> HIDE DEF back
    <3> QED BY <3>2, <3>3 DEF TypeOK
  <2>10. CASE RefundDone(c)
    <3>1. call.row \in Rows
      BY <2>10, <2>0 DEF RefundDone, At, CallType
    <3>2. calls' \in [Calls -> CallType]
      BY <2>10, <3>1, GotoType DEF RefundDone, Pc, Handling
    <3>3. bill' \in [Bills -> BillType]
      BY <2>10, <2>9 DEF RefundDone
    <3> QED BY <2>10, <3>2, <3>3 DEF RefundDone, TypeOK
  <2>11. CASE RefundFailed(c)
    <3>1. calls' \in [Calls -> CallType]
      BY <2>11, EndType DEF RefundFailed
    <3>2. bill' \in [Bills -> BillType]
      BY <2>11, <2>9 DEF RefundFailed, TypeOK
    <3> QED BY <2>11, <3>1, <3>2 DEF RefundFailed, TypeOK
  <2>12. CASE Settle(c)
    <3>1. calls' \in [Calls -> CallType]
      BY <2>12, EndType DEF Settle
    <3>2. call.next \in PlatformInvoiceStatus /\ call.amount \in 0..Price /\ Price \in 0..Price
      BY <2>0, PriceAssumption DEF CallType, CallFields
    <3> DEFINE amount == IF call.next = "refunded"
                         THEN IF call.amount = 0 THEN Price ELSE call.amount
                         ELSE ledger[call.row].refunded
               row == [ledger[call.row] EXCEPT !.status = call.next, !.refunded = amount]
    <3>3. call.row \in Rows
      BY <2>12, <2>0 DEF Settle, At, CallType
    <3>4. row \in RowType
      <4>1. amount \in 0..Price
        BY <3>2, <3>3 DEF TypeOK, RowType
      <4> HIDE DEF amount
      <4> QED BY <3>2, <3>3, <4>1 DEF TypeOK, RowType
    <3>5. ledger' = [ledger EXCEPT ![call.row] = row]
      BY <2>12, <3>3 DEF Settle, TypeOK
    <3>6. ledger' \in [Rows -> RowType]
      <4> HIDE DEF row
      <4> QED BY <3>4, <3>5 DEF TypeOK
    <3> QED BY <2>12, <3>1, <3>6 DEF Settle, TypeOK
  <2>13. CASE CallCut(c)
    BY <2>13, EndType DEF CallCut, TypeOK
  <2> QED BY <1>4, <2>1, <2>2, <2>3, <2>4, <2>5, <2>6, <2>7, <2>8, <2>10, <2>11, <2>12, <2>13
          DEF WebhookStep, AdminStep
<1>5. CASE UNCHANGED vars
  BY <1>5 DEF vars, TypeOK
<1> QED BY <1>1, <1>2, <1>3, <1>4, <1>5 DEF Next

\* Types: every variable keeps its type.
THEOREM TypeCorrect == Spec => []TypeOK
  BY TypeInit, TypeStep, PTL DEF Spec
-----------------------------------------------------------------------------
\* What a step does to the calls.
LEMMA GotoFields ==
  ASSUME TypeOK, NEW c \in Calls, NEW pc, Goto(c, pc)
  PROVE  /\ calls'[c].pc = pc
         /\ calls'[c].event = calls[c].event /\ calls'[c].row = calls[c].row
         /\ calls'[c].next = calls[c].next /\ calls'[c].amount = calls[c].amount
         /\ \A o \in Calls \ {c} : calls'[o] = calls[o]
<1>1. calls[c] \in CallFields
  BY DEF TypeOK, CallType
<1>2. calls' = [calls EXCEPT ![c] = [calls[c] EXCEPT !.pc = pc]]
  BY DEF Goto
<1> QED BY <1>1, <1>2 DEF TypeOK, CallFields

LEMMA EndFields ==
  ASSUME TypeOK, NEW c \in Calls, End(c)
  PROVE  calls'[c].pc = "idle" /\ \A o \in Calls \ {c} : calls'[o] = calls[o]
  BY DEF TypeOK, End, Idle

LEMMA StartFields ==
  ASSUME TypeOK, NEW c \in Calls, NEW rec, Start(c, rec)
  PROVE  calls'[c] = rec /\ \A o \in Calls \ {c} : calls'[o] = calls[o]
  BY DEF TypeOK, Start

\* A call that reads the ledger goes on to write what it found.
LEMMA FindFields ==
  ASSUME TypeOK, NEW c \in Calls, RecordFind(c)
  PROVE  /\ calls'[c].event = calls[c].event
         /\ calls'[c].next \in {"paid", "failed"}
         /\ \/ calls'[c].pc = "wh_insert"
            \/ calls'[c].pc = "wh_update" /\ calls'[c].row \in RowsOf(calls[c].event[1])
         /\ \A o \in Calls \ {c} : calls'[o] = calls[o]
<1> DEFINE s == StatusOf(calls[c].event)
<1>1. calls[c] \in CallFields /\ s \in {"paid", "failed"}
  BY DEF TypeOK, CallType, StatusOf
<1> HIDE DEF s
<1>2. \/ calls' = [calls EXCEPT ![c] = [calls[c] EXCEPT !.pc = "wh_insert", !.next = s]]
      \/ \E r \in RowsOf(calls[c].event[1]) :
           calls' = [calls EXCEPT ![c] = [calls[c] EXCEPT !.pc = "wh_update", !.row = r, !.next = s]]
  BY DEF RecordFind, TypeOK, s
<1>3. CASE calls' = [calls EXCEPT ![c] = [calls[c] EXCEPT !.pc = "wh_insert", !.next = s]]
  BY <1>1, <1>3 DEF TypeOK, CallFields
<1>4. ASSUME NEW r \in RowsOf(calls[c].event[1]),
             calls' = [calls EXCEPT ![c] = [calls[c] EXCEPT !.pc = "wh_update", !.row = r, !.next = s]]
      PROVE  /\ calls'[c].event = calls[c].event /\ calls'[c].next = s
             /\ calls'[c].pc = "wh_update" /\ calls'[c].row = r
             /\ \A o \in Calls \ {c} : calls'[o] = calls[o]
  BY <1>1, <1>4 DEF TypeOK, CallFields
<1> QED BY <1>1, <1>2, <1>3, <1>4

-----------------------------------------------------------------------------
\* The claim: at most one delivery works on an event, and it is the first to
\* finish.
Claims == EventOnce /\ ClaimHeld /\ HandledOnce

LEMMA ClaimsStep == TypeOK /\ Claims /\ [Next]_vars => Claims'
<1> SUFFICES ASSUME TypeOK, Claims, [Next]_vars PROVE Claims'
  OBVIOUS
<1> USE DEF stripeVars, claimVars
<1>1. ASSUME UNCHANGED <<claim, handled>>,
             \A o \in Calls : calls'[o].pc \in Handling =>
                calls[o].pc \in Handling /\ calls'[o].event = calls[o].event
      PROVE  Claims'
  BY <1>1 DEF Claims, EventOnce, ClaimHeld, HandledOnce
<1>2. ASSUME NEW c \in Calls, End(c), UNCHANGED <<claim, handled>> PROVE Claims'
  BY <1>1, <1>2, EndFields DEF Handling
<1>3. ASSUME NEW c \in Calls, NEW pc, Goto(c, pc), UNCHANGED <<claim, handled>>,
             pc \in Handling => calls[c].pc \in Handling
      PROVE  Claims'
  BY <1>1, <1>3, GotoFields
<1>4. ASSUME NEW c \in Calls, NEW rec, Start(c, rec), UNCHANGED <<claim, handled>>,
             rec.pc \notin Handling
      PROVE  Claims'
  BY <1>1, <1>4, StartFields
<1>5. ASSUME NEW c \in Calls, NEW e \in Events, Deliver(c, e) PROVE Claims'
  <2> DEFINE rec == [Idle EXCEPT !.pc = "wh_find", !.event = e]
  <2>1. calls'[c].event = e /\ \A o \in Calls \ {c} : calls'[o] = calls[o]
    <3>1. rec.event = e
      BY DEF Idle
    <3> HIDE DEF rec
    <3>2. Start(c, rec)
      BY <1>5 DEF Deliver, rec
    <3> QED BY <3>1, <3>2, StartFields
  <2>2. claim[e] = "free" /\ handled' = handled /\ claim' = [claim EXCEPT ![e] = "processing"]
    BY <1>5 DEF Deliver
  <2> QED BY <2>1, <2>2 DEF Claims, EventOnce, ClaimHeld, HandledOnce, TypeOK
<1>6. ASSUME NEW c \in Calls, Handled(c) PROVE Claims'
  <2> DEFINE e == calls[c].event
  <2>1. calls[c].pc \in Handling
    BY <1>6 DEF Handled, At, Handling
  <2>2. e \in Events /\ claim[e] = "processing" /\ handled[e] = 0
    BY <2>1 DEF Claims, ClaimHeld, HandledOnce
  <2>3. calls'[c].pc \notin Handling /\ \A o \in Calls \ {c} : calls'[o] = calls[o]
    BY <1>6, EndFields DEF Handled, Handling
  <2>4. /\ claim' = [claim EXCEPT ![e] = "handled"]
        /\ handled' = [handled EXCEPT ![e] = handled[e] + 1]
    BY <1>6 DEF Handled
  <2> HIDE DEF e
  <2>5. handled'[e] = 1 /\ \A f \in Events \ {e} : handled'[f] = handled[f] /\ claim'[f] = claim[f]
    BY <2>2, <2>4 DEF TypeOK
  <2>6. \A o \in Calls : calls'[o].pc \in Handling => o # c /\ calls[o].event # e
    BY <2>1, <2>3 DEF Claims, ClaimHeld, e
  <2>7. EventOnce' /\ HandledOnce'
    BY <2>2, <2>4, <2>5 DEF Claims, EventOnce, HandledOnce, TypeOK
  <2> QED BY <2>3, <2>5, <2>6, <2>7 DEF Claims, ClaimHeld
<1>7. ASSUME NEW c \in Calls, Raise(c) PROVE Claims'
  <2> DEFINE e == calls[c].event
  <2>1. e \in Events /\ claim[e] = "processing" /\ handled[e] = 0
    BY <1>7 DEF Raise, Claims, ClaimHeld, HandledOnce
  <2>2. calls'[c].pc \notin Handling /\ \A o \in Calls \ {c} : calls'[o] = calls[o]
    BY <1>7, EndFields DEF Raise, Handling
  <2>3. handled' = handled /\ claim' = [claim EXCEPT ![e] = "free"]
    BY <1>7 DEF Raise
  <2>4. \A o \in Calls : calls'[o].pc \in Handling => o # c /\ calls[o].event # e
    BY <1>7, <2>2 DEF Claims, ClaimHeld, Raise
  <2> HIDE DEF e
  <2>5. claim'[e] = "free" /\ \A f \in Events \ {e} : claim'[f] = claim[f]
    BY <2>1, <2>3 DEF TypeOK
  <2>6. EventOnce' /\ HandledOnce'
    BY <2>1, <2>3, <2>5 DEF Claims, EventOnce, HandledOnce
  <2> QED BY <2>2, <2>4, <2>5, <2>6 DEF Claims, ClaimHeld
<1>8. CASE StripeStep
  BY <1>1, <1>8 DEF StripeStep, Decline, Charge
<1>9. ASSUME NEW e \in Events, DeliverDuplicate(e) PROVE Claims'
  BY <1>1, <1>9 DEF DeliverDuplicate
<1>10. ASSUME NEW r \in Rows, NEW s \in PlatformInvoiceStatus, RaiseByHand(r, s) PROVE Claims'
  BY <1>1, <1>10 DEF RaiseByHand
<1>11. ASSUME NEW c \in Calls, RecordFind(c) PROVE Claims'
  BY <1>1, <1>11, FindFields DEF RecordFind, At, Handling
<1>12. ASSUME NEW c \in Calls, RecordUpdate(c) \/ RecordInsert(c) PROVE Claims'
  BY <1>3, <1>12 DEF RecordUpdate, RecordInsert, At, Handling
<1>13. ASSUME NEW c \in Calls, NEW r \in Rows, NEW s, SettleStart(c, r, s) PROVE Claims'
  BY <1>4, <1>13 DEF SettleStart, Idle, Handling
<1>14. ASSUME NEW c \in Calls, NEW r \in Rows, NEW a, RefundStart(c, r, a) PROVE Claims'
  BY <1>4, <1>14 DEF RefundStart, Idle, Handling
<1>15. ASSUME NEW c \in Calls, RefundDone(c) PROVE Claims'
  BY <1>3, <1>15 DEF RefundDone, Handling
<1>16. ASSUME NEW c \in Calls, RefundFailed(c) \/ Settle(c) \/ CallCut(c) PROVE Claims'
  BY <1>2, <1>16 DEF RefundFailed, Settle, CallCut
<1>17. CASE UNCHANGED vars
  BY <1>1, <1>17 DEF vars
<1> QED
  BY <1>5, <1>6, <1>7, <1>8, <1>9, <1>10, <1>11, <1>12, <1>13, <1>14, <1>15, <1>16, <1>17
     DEF Next, WebhookStep, AdminStep
-----------------------------------------------------------------------------
\* What a step does to the rows: it adds one or writes on one, and a row keeps
\* the bill it was written for.
LEMMA NewRowFields ==
  ASSUME TypeOK, NEW r \in Rows \ Born, NEW b, NEW s \in PlatformInvoiceStatus, NewRow(r, b, s)
  PROVE  /\ Born' = Born \cup {r}
         /\ ledger'[r].bill = b /\ ledger'[r].status = s
         /\ \A q \in Rows \ {r} : ledger'[q] = ledger[q]
<1>1. ledger'[r] = [bill |-> b, status |-> s, refunded |-> 0]
  BY DEF NewRow, TypeOK
<1>2. \A q \in Rows \ {r} : ledger'[q] = ledger[q]
  BY DEF NewRow, TypeOK
<1>3. s # "unborn"
  BY DEF PlatformInvoiceStatus
<1> QED BY <1>1, <1>2, <1>3 DEF Born

LEMMA WriteFields ==
  ASSUME TypeOK, NEW r \in Born, NEW rec, ledger' = [ledger EXCEPT ![r] = rec],
         rec.status \in PlatformInvoiceStatus, rec.bill = ledger[r].bill
  PROVE  /\ Born' = Born
         /\ ledger'[r] = rec
         /\ \A q \in Rows \ {r} : ledger'[q] = ledger[q]
         /\ \A q \in Rows : ledger'[q].bill = ledger[q].bill
<1>1. r \in Rows /\ ledger'[r] = rec /\ \A q \in Rows \ {r} : ledger'[q] = ledger[q]
  BY DEF TypeOK, Born
<1>2. rec.status # "unborn"
  BY DEF PlatformInvoiceStatus
<1> QED BY <1>1, <1>2 DEF Born

LEMMA UpdateFields ==
  ASSUME TypeOK, RowsRead, NEW c \in Calls, RecordUpdate(c)
  PROVE  /\ Born' = Born
         /\ ledger'[calls[c].row].status = calls[c].next
         /\ \A q \in Rows \ {calls[c].row} : ledger'[q] = ledger[q]
         /\ \A q \in Rows : ledger'[q].bill = ledger[q].bill
<1> DEFINE r == calls[c].row
           rec == [ledger[r] EXCEPT !.status = calls[c].next]
<1>1. r \in Born
  BY DEF RecordUpdate, At, RowsRead
<1>2. /\ rec.status = calls[c].next /\ calls[c].next \in PlatformInvoiceStatus
      /\ rec.bill = ledger[r].bill
  BY <1>1 DEF TypeOK, CallType, CallFields, RowType, Born
<1>3. ledger' = [ledger EXCEPT ![r] = rec]
  BY DEF RecordUpdate
<1> HIDE DEF r, rec
<1>4. /\ Born' = Born /\ ledger'[r] = rec
      /\ \A q \in Rows \ {r} : ledger'[q] = ledger[q]
      /\ \A q \in Rows : ledger'[q].bill = ledger[q].bill
  BY <1>1, <1>2, <1>3, WriteFields
<1> QED BY <1>2, <1>4 DEF r

LEMMA SettleFields ==
  ASSUME TypeOK, RowsRead, NEW c \in Calls, Settle(c)
  PROVE  /\ Born' = Born
         /\ ledger'[calls[c].row].status = calls[c].next
         /\ \A q \in Rows \ {calls[c].row} : ledger'[q] = ledger[q]
         /\ \A q \in Rows : ledger'[q].bill = ledger[q].bill
<1> DEFINE r == calls[c].row
           s == calls[c].next
           amount == IF s = "refunded"
                     THEN IF calls[c].amount = 0 THEN Price ELSE calls[c].amount
                     ELSE ledger[r].refunded
           rec == [ledger[r] EXCEPT !.status = s, !.refunded = amount]
<1>1. r \in Born
  BY DEF Settle, At, RowsRead
<1>2. ledger' = [ledger EXCEPT ![r] = rec]
  BY <1>1 DEF Settle, TypeOK, Born
<1>3. ledger[r] \in RowType /\ s \in PlatformInvoiceStatus
  BY <1>1 DEF TypeOK, CallType, CallFields, Born
<1> HIDE DEF amount
<1>4. rec.status = s /\ rec.bill = ledger[r].bill
  BY <1>3 DEF RowType
<1> HIDE DEF r, rec
<1>5. /\ Born' = Born /\ ledger'[r] = rec
      /\ \A q \in Rows \ {r} : ledger'[q] = ledger[q]
      /\ \A q \in Rows : ledger'[q].bill = ledger[q].bill
  BY <1>1, <1>2, <1>3, <1>4, WriteFields
<1> QED BY <1>4, <1>5 DEF r

\* The new row of a delivery, if the index lets it in.
LEMMA InsertFields ==
  ASSUME TypeOK, NEW c \in Calls, RecordInsert(c)
  PROVE  /\ calls[c].event[1] \in Bills
         /\ \/ ledger' = ledger /\ RowsOf(calls[c].event[1]) # {}
            \/ \E r \in Rows \ Born :
                 /\ RowsOf(calls[c].event[1]) = {}
                 /\ Born' = Born \cup {r}
                 /\ ledger'[r].bill = calls[c].event[1] /\ ledger'[r].status = calls[c].next
                 /\ \A q \in Rows \ {r} : ledger'[q] = ledger[q]
<1>1. calls[c].event \in Events /\ calls[c].next \in PlatformInvoiceStatus
  BY DEF TypeOK, CallType, CallFields, RecordInsert, At, Handling
<1> QED BY <1>1, EventBill, NewRowFields DEF RecordInsert

Stays == Born \subseteq Born' /\ \A r \in Born : ledger'[r].bill = ledger[r].bill

LEMMA RowsStay ==
  ASSUME TypeOK, RowsRead, [Next]_vars
  PROVE  Stays
<1>1. CASE UNCHANGED ledger
  BY <1>1 DEF Stays, Born
<1>2. ASSUME NEW r \in Rows, NEW s \in PlatformInvoiceStatus, RaiseByHand(r, s) PROVE Stays
  <2>1. Born' = Born \cup {r} /\ \A q \in Rows \ {r} : ledger'[q] = ledger[q]
    BY <1>2, NewRowFields DEF RaiseByHand
  <2> QED BY <1>2, <2>1 DEF Stays, RaiseByHand, Born
<1>3. ASSUME NEW c \in Calls, RecordInsert(c) PROVE Stays
  BY <1>1, <1>3, InsertFields DEF Stays, Born
<1>4. ASSUME NEW c \in Calls, RecordUpdate(c) PROVE Stays
  BY <1>4, UpdateFields DEF Stays, Born
<1>5. ASSUME NEW c \in Calls, Settle(c) PROVE Stays
  BY <1>5, SettleFields DEF Stays, Born
<1>6. CASE StripeStep \/ \E e \in Events : DeliverDuplicate(e)
  BY <1>1, <1>6 DEF StripeStep, Decline, Charge, DeliverDuplicate
<1>7. ASSUME NEW c \in Calls,
             \/ (\E e \in Events : Deliver(c, e)) \/ RecordFind(c) \/ Handled(c) \/ Raise(c)
             \/ (\E r \in Rows, s \in {"paid", "written_off"} : SettleStart(c, r, s))
             \/ (\E r \in Rows, a \in 0..Price : RefundStart(c, r, a))
             \/ RefundDone(c) \/ RefundFailed(c) \/ CallCut(c)
      PROVE  Stays
  BY <1>1, <1>7 DEF Deliver, RecordFind, Handled, Raise, SettleStart, RefundStart, RefundDone,
                    RefundFailed, CallCut
<1>8. CASE UNCHANGED vars
  BY <1>1, <1>8 DEF vars
<1> QED
  BY <1>2, <1>3, <1>4, <1>5, <1>6, <1>7, <1>8 DEF Next, WebhookStep, AdminStep
-----------------------------------------------------------------------------
\* The books: one row for a bill, and a row for every event answered for good.
CallBooks(c) ==
  /\ calls[c].pc \in {"wh_update", "ad_refund", "ad_settle"} => calls[c].row \in Born
  /\ calls[c].pc = "wh_update" => ledger[calls[c].row].bill = calls[c].event[1]
  /\ calls[c].pc = "wh_done" => RowsOf(calls[c].event[1]) # {}
  /\ calls[c].pc \in {"wh_update", "wh_insert"} => calls[c].next \in {"paid", "failed"}

Books == OneRow /\ HandledIsRecorded /\ \A c \in Calls : CallBooks(c)

LEMMA BooksByCall == Books <=> OneRow /\ HandledIsRecorded /\ RowsRead /\ RowInHand
  BY DEF Books, CallBooks, RowsRead, RowInHand, At

\* A step that keeps the rows leaves the books of the other calls in order, and
\* an answered event on record.
LEMMA BooksStay ==
  ASSUME TypeOK, Books, Stays
  PROVE  /\ \A o \in Calls : calls'[o] = calls[o] => CallBooks(o)'
         /\ \A e \in Events : RowsOf(e[1]) # {} => RowsOf(e[1])' # {}
         /\ UNCHANGED claim => HandledIsRecorded'
         /\ UNCHANGED <<ledger>> => OneRow'
<1>1. \A b : RowsOf(b) \subseteq RowsOf(b)'
  BY DEF Stays, RowsOf
<1>2. ASSUME NEW o \in Calls, calls'[o] = calls[o] PROVE CallBooks(o)'
  <2>1. CallBooks(o)
    BY DEF Books
  <2>2. calls[o].row \in Born => calls[o].row \in Born' /\ ledger'[calls[o].row].bill = ledger[calls[o].row].bill
    BY DEF Stays
  <2> QED BY <1>1, <1>2, <2>1, <2>2 DEF CallBooks
<1>3. UNCHANGED <<ledger>> => OneRow'
  BY DEF Books, OneRow, Born
<1>4. UNCHANGED claim => HandledIsRecorded'
  BY <1>1 DEF Books, HandledIsRecorded
<1> QED BY <1>1, <1>2, <1>3, <1>4

LEMMA BooksStep == TypeOK /\ Books /\ [Next]_vars => Books'
<1> SUFFICES ASSUME TypeOK, Books, [Next]_vars PROVE Books'
  OBVIOUS
<1> USE DEF stripeVars, claimVars
<1>0. RowsRead /\ Stays
  BY BooksByCall, RowsStay
<1>1. ASSUME UNCHANGED <<ledger, claim, calls>> PROVE Books'
  BY <1>0, <1>1, BooksStay DEF Books
<1>2. ASSUME NEW c \in Calls, UNCHANGED <<ledger, claim>>,
             \A o \in Calls \ {c} : calls'[o] = calls[o], CallBooks(c)'
      PROVE  Books'
  BY <1>0, <1>2, BooksStay DEF Books
<1>3. ASSUME NEW c \in Calls, End(c), UNCHANGED <<ledger, claim>> PROVE Books'
  <2>1. CallBooks(c)' /\ \A o \in Calls \ {c} : calls'[o] = calls[o]
    BY <1>3, EndFields DEF CallBooks
  <2> QED BY <1>2, <1>3, <2>1
<1>4. ASSUME NEW c \in Calls, NEW e \in Events, Deliver(c, e) PROVE Books'
  <2> DEFINE rec == [Idle EXCEPT !.pc = "wh_find", !.event = e]
  <2>1. rec.pc = "wh_find"
    BY DEF Idle
  <2> HIDE DEF rec
  <2>2. Start(c, rec) /\ ledger' = ledger /\ claim' = [claim EXCEPT ![e] = "processing"]
    BY <1>4 DEF Deliver, rec
  <2>3. calls'[c].pc = "wh_find" /\ \A o \in Calls \ {c} : calls'[o] = calls[o]
    BY <2>1, <2>2, StartFields
  <2>4. CallBooks(c)'
    BY <2>3 DEF CallBooks
  <2>5. HandledIsRecorded'
    BY <1>0, <2>2, BooksStay DEF Books, HandledIsRecorded, TypeOK
  <2> QED BY <1>0, <2>2, <2>3, <2>4, <2>5, BooksStay DEF Books
<1>5. ASSUME NEW c \in Calls, RecordFind(c) PROVE Books'
  <2>1. UNCHANGED <<ledger, claim>>
    BY <1>5 DEF RecordFind
  <2>2. CallBooks(c)'
    BY <1>5, <2>1, FindFields DEF CallBooks, RowsOf, Born
  <2> QED BY <1>2, <1>5, <2>1, <2>2, FindFields
<1>6. ASSUME NEW c \in Calls, RecordUpdate(c) PROVE Books'
  <2>1. calls[c].pc = "wh_update" /\ CallBooks(c)
    BY <1>6 DEF RecordUpdate, At, Books
  <2>2. /\ calls'[c].pc = "wh_done" /\ calls'[c].event = calls[c].event
        /\ \A o \in Calls \ {c} : calls'[o] = calls[o]
    BY <1>6, GotoFields DEF RecordUpdate
  <2>3. Born' = Born /\ \A q \in Rows : ledger'[q].bill = ledger[q].bill
    BY <1>0, <1>6, UpdateFields
  <2>4. CallBooks(c)'
    BY <2>1, <2>2, <2>3 DEF CallBooks, RowsOf, Born
  <2>5. OneRow'
    BY <2>3 DEF Books, OneRow, Born
  <2>6. UNCHANGED claim
    BY <1>6 DEF RecordUpdate
  <2> QED BY <1>0, <2>2, <2>4, <2>5, <2>6, BooksStay DEF Books
<1>7. ASSUME NEW c \in Calls, RecordInsert(c) PROVE Books'
  <2> DEFINE b == calls[c].event[1]
  <2>1. /\ calls'[c].pc = "wh_done" /\ calls'[c].event = calls[c].event
        /\ \A o \in Calls \ {c} : calls'[o] = calls[o]
    BY <1>7, GotoFields DEF RecordInsert
  <2>2. RowsOf(b)' # {} /\ OneRow'
    <3>1. CASE ledger' = ledger /\ RowsOf(b) # {}
      BY <2>1, <3>1 DEF Books, OneRow, RowsOf, Born
    <3>2. ASSUME NEW r \in Rows \ Born, RowsOf(b) = {}, Born' = Born \cup {r},
                 ledger'[r].bill = b, \A q \in Rows \ {r} : ledger'[q] = ledger[q]
          PROVE  RowsOf(b)' # {} /\ OneRow'
      <4>1. \A q \in Born : ledger'[q].bill = ledger[q].bill /\ ledger[q].bill # b
        BY <3>2 DEF RowsOf, Born
      <4> QED BY <2>1, <3>2, <4>1 DEF Books, OneRow, RowsOf
    <3> QED BY <1>7, <3>1, <3>2, InsertFields
  <2>3. CallBooks(c)'
    BY <2>1, <2>2 DEF CallBooks, RowsOf
  <2>4. UNCHANGED claim
    BY <1>7 DEF RecordInsert
  <2> QED BY <1>0, <2>1, <2>2, <2>3, <2>4, BooksStay DEF Books
<1>8. ASSUME NEW c \in Calls, Handled(c) PROVE Books'
  <2> DEFINE e == calls[c].event
  <2>1. RowsOf(e[1]) # {}
    BY <1>8 DEF Handled, At, Books, CallBooks
  <2>2. ledger' = ledger /\ claim' = [claim EXCEPT ![e] = "handled"]
    BY <1>8 DEF Handled
  <2>3. CallBooks(c)' /\ \A o \in Calls \ {c} : calls'[o] = calls[o]
    BY <1>8, EndFields DEF Handled, CallBooks
  <2>4. HandledIsRecorded'
    <3> HIDE DEF e
    <3> QED BY <1>0, <2>1, <2>2, BooksStay DEF Books, HandledIsRecorded, TypeOK
  <2> QED BY <1>0, <2>2, <2>3, <2>4, BooksStay DEF Books
<1>9. ASSUME NEW c \in Calls, Raise(c) PROVE Books'
  <2>1. ledger' = ledger /\ claim' = [claim EXCEPT ![calls[c].event] = "free"]
    BY <1>9 DEF Raise
  <2>2. CallBooks(c)' /\ \A o \in Calls \ {c} : calls'[o] = calls[o]
    BY <1>9, EndFields DEF Raise, CallBooks
  <2>3. HandledIsRecorded'
    BY <1>0, <2>1, BooksStay DEF Books, HandledIsRecorded, TypeOK
  <2> QED BY <1>0, <2>1, <2>2, <2>3, BooksStay DEF Books
<1>10. ASSUME NEW r \in Rows, NEW s \in PlatformInvoiceStatus, RaiseByHand(r, s) PROVE Books'
  <2>1. /\ r \notin Born /\ Born' = Born \cup {r} /\ ledger'[r].bill = NoBill
        /\ \A q \in Rows \ {r} : ledger'[q] = ledger[q]
    BY <1>10, NewRowFields DEF RaiseByHand
  <2>2. OneRow'
    BY <2>1 DEF Books, OneRow, Born
  <2>3. UNCHANGED <<claim, calls>>
    BY <1>10 DEF RaiseByHand
  <2> QED BY <1>0, <2>2, <2>3, BooksStay DEF Books
<1>11. ASSUME NEW c \in Calls, NEW r \in Rows, NEW s, SettleStart(c, r, s) PROVE Books'
  <2> DEFINE rec == [Idle EXCEPT !.pc = "ad_settle", !.row = r, !.next = s]
  <2>1. rec.pc = "ad_settle" /\ rec.row = r
    BY DEF Idle
  <2> HIDE DEF rec
  <2>2. Start(c, rec) /\ UNCHANGED <<ledger, claim>> /\ r \in Born
    BY <1>11 DEF SettleStart, rec
  <2>3. CallBooks(c)' /\ \A o \in Calls \ {c} : calls'[o] = calls[o]
    BY <2>1, <2>2, StartFields DEF CallBooks, Born
  <2> QED BY <1>2, <2>2, <2>3
<1>12. ASSUME NEW c \in Calls, NEW r \in Rows, NEW a, RefundStart(c, r, a) PROVE Books'
  <2> DEFINE rec == [Idle EXCEPT !.pc = "ad_refund", !.row = r, !.next = "refunded", !.amount = a]
  <2>1. rec.pc = "ad_refund" /\ rec.row = r
    BY DEF Idle
  <2> HIDE DEF rec
  <2>2. Start(c, rec) /\ UNCHANGED <<ledger, claim>> /\ r \in Born
    BY <1>12 DEF RefundStart, rec
  <2>3. CallBooks(c)' /\ \A o \in Calls \ {c} : calls'[o] = calls[o]
    BY <2>1, <2>2, StartFields DEF CallBooks, Born
  <2> QED BY <1>2, <2>2, <2>3
<1>13. ASSUME NEW c \in Calls, RefundDone(c) PROVE Books'
  <2>1. /\ calls'[c].pc = "ad_settle" /\ calls'[c].row = calls[c].row
        /\ \A o \in Calls \ {c} : calls'[o] = calls[o]
    BY <1>13, GotoFields DEF RefundDone
  <2>2. UNCHANGED <<ledger, claim>> /\ calls[c].row \in Born
    BY <1>13 DEF RefundDone, At, Books, CallBooks
  <2>3. CallBooks(c)'
    BY <2>1, <2>2 DEF CallBooks, Born
  <2> QED BY <1>2, <2>1, <2>2, <2>3
<1>14. ASSUME NEW c \in Calls, Settle(c) PROVE Books'
  <2>1. CallBooks(c)' /\ \A o \in Calls \ {c} : calls'[o] = calls[o]
    BY <1>14, EndFields DEF Settle, CallBooks
  <2>2. OneRow'
    BY <1>0, <1>14, SettleFields DEF Books, OneRow, Born
  <2>3. UNCHANGED claim
    BY <1>14 DEF Settle
  <2> QED BY <1>0, <2>1, <2>2, <2>3, BooksStay DEF Books
<1>15. ASSUME NEW c \in Calls, RefundFailed(c) \/ CallCut(c) PROVE Books'
  BY <1>3, <1>15 DEF RefundFailed, CallCut
<1>16. CASE StripeStep \/ \E e \in Events : DeliverDuplicate(e)
  BY <1>1, <1>16 DEF StripeStep, Decline, Charge, DeliverDuplicate
<1>17. CASE UNCHANGED vars
  BY <1>1, <1>17 DEF vars
<1> QED
  BY <1>4, <1>5, <1>6, <1>7, <1>8, <1>9, <1>10, <1>11, <1>12, <1>13, <1>14, <1>15, <1>16, <1>17
     DEF Next, WebhookStep, AdminStep
-----------------------------------------------------------------------------
\* The money: Stripe has returned some before a row says so.
CallMoney(c) ==
  calls[c].pc = "ad_settle" /\ calls[c].next = "refunded" =>
    (ledger[calls[c].row].bill # NoBill => bill[ledger[calls[c].row].bill].returned > 0)

RowMoney(r) ==
  ledger[r].status = "refunded" /\ ledger[r].bill # NoBill => bill[ledger[r].bill].returned > 0

Money == (\A r \in Rows : RowMoney(r)) /\ \A c \in Calls : CallMoney(c)

LEMMA MoneyByCall == Money <=> RefundedMeansReturned /\ MoneyBack
  BY DEF Money, CallMoney, RowMoney, RefundedMeansReturned, MoneyBack, At

\* What Stripe has returned it does not take back.
Returns == \A b \in Bills : bill[b].returned > 0 => bill'[b].returned > 0

LEMMA RefundReturns ==
  ASSUME TypeOK, NEW b \in Bills \cup {NoBill}, NEW a \in 0..Price, Refundable(b, a), Refunded(b, a)
  PROVE  b \in Bills /\ bill'[b].returned > 0 /\ Returns
<1> DEFINE back == IF a = 0 THEN Price ELSE bill[b].returned + a
<1>1. b \in Bills /\ bill[b] \in BillType
  BY DEF Refundable, TypeOK
<1>2. bill[b].returned \in 0..Price
  BY <1>1 DEF BillType
<1>3. back > 0
  BY <1>2, PriceAssumption
<1>4. bill' = [bill EXCEPT ![b] = [bill[b] EXCEPT !.returned = back]]
  BY DEF Refunded
<1> HIDE DEF back
<1>5. bill'[b].returned = back /\ \A d \in Bills \ {b} : bill'[d] = bill[d]
  BY <1>1, <1>4 DEF TypeOK, BillType
<1> QED BY <1>1, <1>3, <1>5 DEF Returns

LEMMA MoneyReturns ==
  ASSUME TypeOK, [Next]_vars
  PROVE  Returns
<1> USE DEF stripeVars, claimVars
<1>1. CASE UNCHANGED bill
  BY <1>1 DEF Returns
<1>2. ASSUME NEW b \in Bills, Charge(b) PROVE Returns
  <2>1. bill[b] \in BillType /\ bill' = [bill EXCEPT ![b] = [bill[b] EXCEPT !.paid = TRUE]]
    BY <1>2 DEF Charge, TypeOK
  <2>2. \A d \in Bills : bill'[d].returned = bill[d].returned
    BY <2>1 DEF TypeOK, BillType
  <2> QED BY <2>2 DEF Returns
<1>3. ASSUME NEW c \in Calls, RefundDone(c) \/ RefundFailed(c) PROVE Returns
  <2>1. calls[c].amount \in 0..Price /\ calls[c].row \in Rows
    BY <1>3 DEF RefundDone, RefundFailed, At, TypeOK, CallType, CallFields
  <2>2. ledger[calls[c].row].bill \in Bills \cup {NoBill}
    BY <2>1 DEF TypeOK, RowType
  <2> QED BY <1>1, <1>3, <2>1, <2>2, RefundReturns DEF RefundDone, RefundFailed
<1>4. CASE \E b \in Bills : Decline(b)
  BY <1>1, <1>4 DEF Decline
<1>5. CASE \/ \E e \in Events : DeliverDuplicate(e)
           \/ \E r \in Rows, s \in PlatformInvoiceStatus : RaiseByHand(r, s)
  BY <1>1, <1>5 DEF DeliverDuplicate, RaiseByHand
<1>6. ASSUME NEW c \in Calls, WebhookStep(c) \/ Raise(c) \/ Settle(c) \/ CallCut(c) PROVE Returns
  BY <1>1, <1>6 DEF WebhookStep, Deliver, RecordFind, RecordUpdate, RecordInsert, Handled, Raise,
                    Settle, CallCut
<1>7. ASSUME NEW c \in Calls,
             \/ \E r \in Rows, s \in {"paid", "written_off"} : SettleStart(c, r, s)
             \/ \E r \in Rows, a \in 0..Price : RefundStart(c, r, a)
      PROVE  Returns
  BY <1>1, <1>7 DEF SettleStart, RefundStart
<1>8. CASE UNCHANGED vars
  BY <1>1, <1>8 DEF vars
<1> QED BY <1>2, <1>3, <1>4, <1>5, <1>6, <1>7, <1>8 DEF Next, StripeStep, AdminStep

LEMMA MoneyStay ==
  ASSUME TypeOK, Books, Money, Stays, Returns
  PROVE  /\ \A r \in Rows : ledger'[r] = ledger[r] => RowMoney(r)'
         /\ \A o \in Calls : calls'[o] = calls[o] => CallMoney(o)'
<1>1. \A r \in Rows : ledger[r].bill # NoBill => ledger[r].bill \in Bills
  BY DEF TypeOK, RowType
<1>2. ASSUME NEW r \in Rows, ledger'[r] = ledger[r] PROVE RowMoney(r)'
  BY <1>1, <1>2 DEF Money, RowMoney, Returns
<1>3. ASSUME NEW o \in Calls, calls'[o] = calls[o] PROVE CallMoney(o)'
  <2>1. CASE calls[o].pc # "ad_settle"
    BY <1>3, <2>1 DEF CallMoney
  <2>2. CASE calls[o].pc = "ad_settle"
    <3>1. calls[o].row \in Born /\ CallMoney(o)
      BY <2>2 DEF Books, CallBooks, Money
    <3>2. calls[o].row \in Rows /\ ledger'[calls[o].row].bill = ledger[calls[o].row].bill
      BY <3>1 DEF Stays, Born
    <3> QED BY <1>1, <1>3, <3>1, <3>2 DEF CallMoney, Returns
  <2> QED BY <2>1, <2>2
<1> QED BY <1>2, <1>3

LEMMA MoneyStep == TypeOK /\ Books /\ Money /\ [Next]_vars => Money'
<1> SUFFICES ASSUME TypeOK, Books, Money, [Next]_vars PROVE Money'
  OBVIOUS
<1> USE DEF stripeVars, claimVars
<1>0. RowsRead /\ Stays /\ Returns
  BY BooksByCall, RowsStay, MoneyReturns
<1>1. ASSUME UNCHANGED <<ledger, calls>> PROVE Money'
  BY <1>0, <1>1, MoneyStay DEF Money
<1>2. ASSUME NEW c \in Calls, UNCHANGED ledger,
             \A o \in Calls \ {c} : calls'[o] = calls[o], CallMoney(c)'
      PROVE  Money'
  BY <1>0, <1>2, MoneyStay DEF Money
<1>3. ASSUME NEW c \in Calls, End(c), UNCHANGED ledger PROVE Money'
  <2>1. CallMoney(c)' /\ \A o \in Calls \ {c} : calls'[o] = calls[o]
    BY <1>3, EndFields DEF CallMoney
  <2> QED BY <1>2, <1>3, <2>1
<1>4. ASSUME NEW c \in Calls, NEW rec, Start(c, rec), UNCHANGED ledger,
             rec.pc = "ad_settle" => rec.next # "refunded"
      PROVE  Money'
  <2>1. CallMoney(c)' /\ \A o \in Calls \ {c} : calls'[o] = calls[o]
    BY <1>4, StartFields DEF CallMoney
  <2> QED BY <1>2, <1>4, <2>1
<1>5. ASSUME NEW c \in Calls, NEW e \in Events, Deliver(c, e) PROVE Money'
  <2> DEFINE rec == [Idle EXCEPT !.pc = "wh_find", !.event = e]
  <2>1. rec.pc # "ad_settle"
    BY DEF Idle
  <2> HIDE DEF rec
  <2>2. Start(c, rec) /\ UNCHANGED ledger
    BY <1>5 DEF Deliver, rec
  <2> QED BY <1>4, <2>1, <2>2
<1>6. ASSUME NEW c \in Calls, RecordFind(c) PROVE Money'
  <2>1. CallMoney(c)'
    BY <1>6, FindFields DEF CallMoney
  <2> QED BY <1>2, <1>6, <2>1, FindFields DEF RecordFind
<1>7. ASSUME NEW c \in Calls, RecordUpdate(c) PROVE Money'
  <2>0. PICK r : r = calls[c].row
    OBVIOUS
  <2>1. calls[c].next \in {"paid", "failed"}
    BY <1>7 DEF RecordUpdate, At, Books, CallBooks
  <2>2. ledger'[r].status = calls[c].next /\ \A q \in Rows \ {r} : ledger'[q] = ledger[q]
    BY <1>0, <1>7, <2>0, UpdateFields
  <2>3. RowMoney(r)'
    BY <2>1, <2>2 DEF RowMoney
  <2>4. CallMoney(c)' /\ \A o \in Calls \ {c} : calls'[o] = calls[o]
    BY <1>7, GotoFields DEF RecordUpdate, CallMoney
  <2> QED BY <1>0, <2>2, <2>3, <2>4, MoneyStay DEF Money
<1>8. ASSUME NEW c \in Calls, RecordInsert(c) PROVE Money'
  <2>1. calls[c].next \in {"paid", "failed"}
    BY <1>8 DEF RecordInsert, At, Books, CallBooks
  <2>2. CallMoney(c)' /\ \A o \in Calls \ {c} : calls'[o] = calls[o]
    BY <1>8, GotoFields DEF RecordInsert, CallMoney
  <2>3. CASE ledger' = ledger
    BY <1>2, <2>2, <2>3
  <2>4. ASSUME NEW r \in Rows \ Born, ledger'[r].status = calls[c].next,
               \A q \in Rows \ {r} : ledger'[q] = ledger[q]
        PROVE  Money'
    <3>1. RowMoney(r)'
      BY <2>1, <2>4 DEF RowMoney
    <3> QED BY <1>0, <2>2, <2>4, <3>1, MoneyStay DEF Money
  <2> QED BY <1>8, <2>3, <2>4, InsertFields
<1>9. ASSUME NEW r \in Rows, NEW s \in PlatformInvoiceStatus, RaiseByHand(r, s) PROVE Money'
  <2>1. ledger'[r].bill = NoBill /\ \A q \in Rows \ {r} : ledger'[q] = ledger[q]
    BY <1>9, NewRowFields DEF RaiseByHand
  <2>2. RowMoney(r)' /\ UNCHANGED calls
    BY <1>9, <2>1 DEF RowMoney, RaiseByHand
  <2> QED BY <1>0, <2>1, <2>2, MoneyStay DEF Money
<1>10. ASSUME NEW c \in Calls, NEW r \in Rows, NEW s \in {"paid", "written_off"}, SettleStart(c, r, s)
       PROVE  Money'
  <2> DEFINE rec == [Idle EXCEPT !.pc = "ad_settle", !.row = r, !.next = s]
  <2>1. rec.next # "refunded"
    BY DEF Idle
  <2> HIDE DEF rec
  <2>2. Start(c, rec) /\ UNCHANGED ledger
    BY <1>10 DEF SettleStart, rec
  <2> QED BY <1>4, <2>1, <2>2
<1>11. ASSUME NEW c \in Calls, NEW r \in Rows, NEW a, RefundStart(c, r, a) PROVE Money'
  <2> DEFINE rec == [Idle EXCEPT !.pc = "ad_refund", !.row = r, !.next = "refunded", !.amount = a]
  <2>1. rec.pc # "ad_settle"
    BY DEF Idle
  <2> HIDE DEF rec
  <2>2. Start(c, rec) /\ UNCHANGED ledger
    BY <1>11 DEF RefundStart, rec
  <2> QED BY <1>4, <2>1, <2>2
<1>12. ASSUME NEW c \in Calls, RefundDone(c) PROVE Money'
  <2> DEFINE r == calls[c].row
             b == ledger[r].bill
  <2>1. r \in Rows /\ calls[c].amount \in 0..Price
    BY <1>12 DEF RefundDone, At, TypeOK, CallType, CallFields
  <2>2. b \in Bills \cup {NoBill}
    BY <2>1 DEF TypeOK, RowType
  <2>3. bill'[b].returned > 0
    BY <1>12, <2>1, <2>2, RefundReturns DEF RefundDone
  <2>4. calls'[c].row = r /\ \A o \in Calls \ {c} : calls'[o] = calls[o]
    BY <1>12, GotoFields DEF RefundDone
  <2>5. UNCHANGED ledger
    BY <1>12 DEF RefundDone
  <2>6. CallMoney(c)'
    BY <2>3, <2>4, <2>5 DEF CallMoney
  <2> QED BY <1>2, <2>4, <2>5, <2>6
<1>13. ASSUME NEW c \in Calls, Settle(c) PROVE Money'
  <2>0. PICK r : r = calls[c].row
    OBVIOUS
  <2>1. r \in Born /\ CallMoney(c) /\ calls[c].pc = "ad_settle"
    BY <1>13, <2>0 DEF Settle, At, Books, CallBooks, Money
  <2>2. /\ ledger'[r].status = calls[c].next /\ ledger'[r].bill = ledger[r].bill
        /\ \A q \in Rows \ {r} : ledger'[q] = ledger[q]
    BY <1>0, <1>13, <2>0, <2>1, SettleFields DEF Born
  <2>3. bill' = bill
    BY <1>13 DEF Settle
  <2>4. RowMoney(r)'
    BY <2>0, <2>1, <2>2, <2>3 DEF RowMoney, CallMoney
  <2>5. CallMoney(c)' /\ \A o \in Calls \ {c} : calls'[o] = calls[o]
    BY <1>13, EndFields DEF Settle, CallMoney
  <2> QED BY <1>0, <2>2, <2>4, <2>5, MoneyStay DEF Money
<1>14. ASSUME NEW c \in Calls, Handled(c) \/ Raise(c) \/ RefundFailed(c) \/ CallCut(c) PROVE Money'
  BY <1>3, <1>14 DEF Handled, Raise, RefundFailed, CallCut
<1>15. CASE StripeStep \/ \E e \in Events : DeliverDuplicate(e)
  BY <1>1, <1>15 DEF StripeStep, Decline, Charge, DeliverDuplicate
<1>16. CASE UNCHANGED vars
  BY <1>1, <1>16 DEF vars
<1> QED
  BY <1>5, <1>6, <1>7, <1>8, <1>9, <1>10, <1>11, <1>12, <1>13, <1>14, <1>15, <1>16
     DEF Next, WebhookStep, AdminStep

-----------------------------------------------------------------------------
LEMMA InvInit == Init => TypeOK /\ Claims /\ Books /\ Money
<1> SUFFICES ASSUME Init PROVE TypeOK /\ Claims /\ Books /\ Money
  OBVIOUS
<1>1. TypeOK
  BY TypeInit
<1>2. (\A c \in Calls : calls[c].pc = "idle") /\ Born = {} /\ \A r \in Rows : ledger[r].status = "unborn"
  BY DEF Init, Idle, Born
<1>3. \A e \in Events : claim[e] = "free" /\ handled[e] = 0
  BY DEF Init
<1>4. Claims
  BY <1>2, <1>3 DEF Claims, EventOnce, ClaimHeld, HandledOnce, Handling
<1>5. Books
  BY <1>2, <1>3 DEF Books, OneRow, HandledIsRecorded, CallBooks
<1>6. Money
  BY <1>2 DEF Money, RowMoney, CallMoney
<1> QED BY <1>1, <1>4, <1>5, <1>6

LEMMA Invariant == Spec => [](TypeOK /\ Claims /\ Books /\ Money)
<1>1. TypeOK /\ Claims /\ Books /\ Money /\ [Next]_vars => (TypeOK /\ Claims /\ Books /\ Money)'
  BY TypeStep, ClaimsStep, BooksStep, MoneyStep
<1> QED BY <1>1, InvInit, PTL DEF Spec

\* The inductive invariant in the parts InvoiceLedger names: what the calls in
\* flight, the claims and the ledger owe one another.
THEOREM LedgerInvariant == Spec => []LedgerInv
<1>1. Claims /\ Books /\ Money => LedgerInv
  BY BooksByCall, MoneyByCall DEF Claims, LedgerInv
<1> QED BY <1>1, Invariant, PTL

\* record_from_stripe: however often Stripe reports an invoice, and in however
\* many deliveries at once, the organization has one row for it.
THEOREM OneInvoicePerBill == Spec => []OneRow
<1>1. Books => OneRow
  BY DEF Books
<1> QED BY <1>1, Invariant, PTL

\* stripe_webhook: no event is processed twice to the end, whichever handlers
\* raise and whichever workers die.
THEOREM EventsOnce == Spec => []EventOnce
<1>1. Claims => EventOnce
  BY DEF Claims
<1> QED BY <1>1, Invariant, PTL

\* stripe_webhook: what was answered for good is on the books.
THEOREM HandledAreRecorded == Spec => []HandledIsRecorded
<1>1. Books => HandledIsRecorded
  BY DEF Books
<1> QED BY <1>1, Invariant, PTL

\* The three together: the books stay in order whatever Stripe delivers, in
\* whatever order and as often as it likes.
THEOREM BooksAreKept == Spec => []BooksKept
<1>1. OneRow /\ EventOnce /\ HandledIsRecorded => BooksKept
  BY DEF BooksKept
<1> QED BY <1>1, OneInvoicePerBill, EventsOnce, HandledAreRecorded, PTL

\* refund_invoice: a row of a Stripe invoice reads "refunded" only once Stripe
\* has returned money, whatever the deliveries and the other administrators do.
THEOREM RefundsAreReturned == Spec => []RefundedMeansReturned
<1>1. Money => RefundedMeansReturned
  BY MoneyByCall
<1> QED BY <1>1, Invariant, PTL
=============================================================================
