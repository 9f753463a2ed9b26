---------------------------- MODULE InvoiceLedger ----------------------------
(***************************************************************************)
(* The platform's invoices to one organization: what Stripe charges, the   *)
(* events it delivers about it, the claim that makes an event handled      *)
(* once, the rows of `platform_invoices` written from them, and what an    *)
(* administrator does to a row (mark paid, write off, refund, raise one by *)
(* hand).                                                                  *)
(*                                                                         *)
(* Source: app/modules/webhooks/router.py, app/services/invoices.py,       *)
(* app/modules/admin/billing.py and refund_invoice of                      *)
(* app/services/stripe_service.py.  What the same events do to the         *)
(* organization itself is not in this module, and the organization is      *)
(* taken to be on record before its first event.                           *)
(*                                                                         *)
(* Every `await` on the database or on Stripe is a step, and deliveries    *)
(* and administrators' calls interleave.                                   *)
(***************************************************************************)
EXTENDS Naturals, FiniteSets

CONSTANTS
  Bills,     \* the invoices of Stripe
  Rows,      \* ids of platform_invoices rows: they bound the rows written
  Calls,     \* slots for webhook deliveries and API calls in flight
  NoBill, NoRow, NoEvent,   \* placeholders
  Price,     \* what a bill charges, in the units a refund can be split into
  MaxFaults, \* bound on the handlers that raise
  Ops,       \* what administrators do, a subset of AllOps
  MayCrash,  \* a worker may die with the calls it was running
  Redelivers \* Stripe may deliver an event again before the first answer

AllOps == {"settle", "refund", "raise"}
Events == Bills \X {"failed", "paid", "succeeded"}

ASSUME PlaceholdersAssumption == NoBill \notin Bills /\ NoRow \notin Rows /\ NoEvent \notin Events
ASSUME PriceAssumption == Price \in Nat \ {0} /\ MaxFaults \in Nat
ASSUME FlagsAssumption == MayCrash \in BOOLEAN /\ Redelivers \in BOOLEAN

VARIABLES
  bill,     \* bill[b]: whether Stripe has the money, and how much it gave back
  sent,     \* the events Stripe has to deliver
  acked,    \* the events answered with a 2xx: Stripe tries the others again
  claim,    \* claim[e]: the row of stripe_events, "free" when there is none
  handled,  \* history: handled[e], how often the handler of e ran to its end
  ledger,   \* ledger[r]: the platform_invoices row r
  calls,    \* the calls in flight
  faults    \* how many handlers have raised

stripeVars == <<bill, sent, acked>>
claimVars == <<claim, handled, faults>>
vars == <<stripeVars, claimVars, ledger, calls>>

PlatformInvoiceStatus == {"pending", "paid", "failed", "refunded", "written_off"}
OpenStatuses == {"pending", "failed"}

RowType == [bill: Bills \cup {NoBill}, status: PlatformInvoiceStatus \cup {"unborn"},
            refunded: 0..Price]
BillType == [paid: BOOLEAN, returned: 0..Price]

Pc == {"idle", "wh_find", "wh_update", "wh_insert", "wh_done",
       "ad_refund", "ad_settle"}
\* What a call holds: the event it delivers, the row it read, the status it is
\* about to write on it and the amount of a refund (0: the whole invoice).
CallFields == [pc: Pc, event: Events \cup {NoEvent}, row: Rows \cup {NoRow},
               next: PlatformInvoiceStatus, amount: 0..Price]
Handling == {"wh_find", "wh_update", "wh_insert", "wh_done"}
CallType == {r \in CallFields : /\ r.pc \in Handling => r.event \in Events
                                /\ r.pc \in {"wh_update", "ad_refund", "ad_settle"} => r.row \in Rows}
Idle == [pc |-> "idle", event |-> NoEvent, row |-> NoRow, next |-> "pending", amount |-> 0]

Init ==
  /\ bill = [b \in Bills |-> [paid |-> FALSE, returned |-> 0]]
  /\ sent = {}
  /\ acked = {}
  /\ claim = [e \in Events |-> "free"]
  /\ handled = [e \in Events |-> 0]
  /\ ledger = [r \in Rows |-> [bill |-> NoBill, status |-> "unborn", refunded |-> 0]]
  /\ calls = [c \in Calls |-> Idle]
  /\ faults = 0

Born == {r \in Rows : ledger[r].status # "unborn"}
RowsOf(b) == {r \in Born : ledger[r].bill = b}
At(c, pc) == calls[c].pc = pc
Goto(c, pc) == calls' = [calls EXCEPT ![c].pc = pc]
End(c) == calls' = [calls EXCEPT ![c] = Idle]
Start(c, rec) == At(c, "idle") /\ calls' = [calls EXCEPT ![c] = rec]

-----------------------------------------------------------------------------
\* Stripe, as the events it sends show it: an attempt on the card fails and is
\* tried again later; a payment is reported twice, by two events.

Decline(b) ==
  /\ ~bill[b].paid
  /\ sent' = sent \cup {<<b, "failed">>}
  /\ UNCHANGED <<bill, acked, claimVars, ledger, calls>>

Charge(b) ==
  /\ ~bill[b].paid
  /\ bill' = [bill EXCEPT ![b].paid = TRUE]
  /\ sent' = sent \cup {<<b, "paid">>, <<b, "succeeded">>}
  /\ UNCHANGED <<acked, claimVars, ledger, calls>>

-----------------------------------------------------------------------------
\* stripe_webhook.  The claim is an insert on a unique index: one delivery gets
\* it, any other is answered "Already handled" whatever became of the first.

InFlight(e) == \E c \in Calls : calls[c].event = e
Delivers(e) == e \in sent \ acked /\ (Redelivers \/ ~InFlight(e))

\* Mutant: only a finished event counts as claimed.
DeliverUnfinished(c, e) ==
  /\ Delivers(e) /\ claim[e] # "handled"
  /\ Start(c, [Idle EXCEPT !.pc = "wh_find", !.event = e])
  /\ claim' = [claim EXCEPT ![e] = "processing"]
  /\ UNCHANGED <<stripeVars, handled, faults, ledger>>

Deliver(c, e) ==
  /\ Delivers(e) /\ claim[e] = "free"
  /\ Start(c, [Idle EXCEPT !.pc = "wh_find", !.event = e])
  /\ claim' = [claim EXCEPT ![e] = "processing"]
  /\ UNCHANGED <<stripeVars, handled, faults, ledger>>

DeliverDuplicate(e) ==
  /\ Delivers(e) /\ claim[e] # "free"
  /\ acked' = acked \cup {e}
  /\ UNCHANGED <<bill, sent, claimVars, ledger, calls>>

\* record_from_stripe: look for the invoice's row, then update it or insert it.
StatusOf(e) == IF e[2] = "failed" THEN "failed" ELSE "paid"

RecordFind(c) ==
  /\ At(c, "wh_find")
  /\ LET e == calls[c].event IN
     \/ /\ RowsOf(e[1]) = {}
        /\ calls' = [calls EXCEPT ![c].pc = "wh_insert", ![c].next = StatusOf(e)]
     \/ \E r \in RowsOf(e[1]) :
          calls' = [calls EXCEPT ![c].pc = "wh_update", ![c].row = r, ![c].next = StatusOf(e)]
  /\ UNCHANGED <<stripeVars, claimVars, ledger>>

\* Whatever the row says by now: only the status moves.
RecordUpdate(c) ==
  /\ At(c, "wh_update")
  /\ ledger' = [ledger EXCEPT ![calls[c].row].status = calls[c].next]
  /\ Goto(c, "wh_done")
  /\ UNCHANGED <<stripeVars, claimVars>>

NewRow(r, b, s) == ledger' = [ledger EXCEPT ![r] = [bill |-> b, status |-> s, refunded |-> 0]]

\* Mutant: no unique index on stripe_invoice_id.
RecordInsertTwice(c) ==
  /\ At(c, "wh_insert")
  /\ \E r \in Rows \ Born : NewRow(r, calls[c].event[1], calls[c].next)
  /\ Goto(c, "wh_done")
  /\ UNCHANGED <<stripeVars, claimVars>>

\* The index turns a second row away, and with it the status it would have had.
RecordInsert(c) ==
  /\ At(c, "wh_insert")
  /\ IF RowsOf(calls[c].event[1]) = {}
     THEN \E r \in Rows \ Born : NewRow(r, calls[c].event[1], calls[c].next)
     ELSE UNCHANGED ledger
  /\ Goto(c, "wh_done")
  /\ UNCHANGED <<stripeVars, claimVars>>

\* The answer is recorded on the claim and given to Stripe.
Handled(c) ==
  /\ At(c, "wh_done")
  /\ LET e == calls[c].event IN
     /\ claim' = [claim EXCEPT ![e] = "handled"]
     /\ handled' = [handled EXCEPT ![e] = @ + 1]
     /\ acked' = acked \cup {e}
  /\ End(c)
  /\ UNCHANGED <<bill, sent, ledger, faults>>

\* Mutant: the event is answered as handled although its handler raised.
RaiseHandled(c) ==
  /\ calls[c].pc \in Handling /\ faults < MaxFaults
  /\ faults' = faults + 1
  /\ claim' = [claim EXCEPT ![calls[c].event] = "handled"]
  /\ End(c)
  /\ UNCHANGED <<stripeVars, handled, ledger>>

\* Any step of the handler may raise, those after the recording too: the claim
\* is deleted and the 400 makes Stripe deliver the event again.
Raise(c) ==
  /\ calls[c].pc \in Handling /\ faults < MaxFaults
  /\ faults' = faults + 1
  /\ claim' = [claim EXCEPT ![calls[c].event] = "free"]
  /\ End(c)
  /\ UNCHANGED <<stripeVars, handled, ledger>>

-----------------------------------------------------------------------------
\* Administrators.  create_manual_invoice takes any status of the enum.
RaiseByHand(r, s) ==
  /\ "raise" \in Ops
  /\ r \in Rows \ Born
  /\ NewRow(r, NoBill, s)
  /\ UNCHANGED <<stripeVars, claimVars, calls>>

\* mark_invoice_paid, write_off_invoice: checked on the row as it was loaded.
SettleStart(c, r, s) ==
  /\ "settle" \in Ops
  /\ r \in Born /\ ledger[r].status \in OpenStatuses
  /\ Start(c, [Idle EXCEPT !.pc = "ad_settle", !.row = r, !.next = s])
  /\ UNCHANGED <<stripeVars, claimVars, ledger>>

\* Mutant: mark our own row first, then call Stripe.
RefundStartSettled(c, r, a) ==
  /\ "refund" \in Ops
  /\ r \in Born /\ ledger[r].status = "paid"
  /\ Start(c, [Idle EXCEPT !.pc = "ad_refund", !.row = r, !.next = "refunded", !.amount = a])
  /\ ledger' = [ledger EXCEPT ![r].status = "refunded"]
  /\ UNCHANGED <<stripeVars, claimVars>>

RefundStart(c, r, a) ==
  /\ "refund" \in Ops
  /\ r \in Born /\ ledger[r].status = "paid"
  /\ Start(c, [Idle EXCEPT !.pc = "ad_refund", !.row = r, !.next = "refunded", !.amount = a])
  /\ UNCHANGED <<stripeVars, claimVars, ledger>>

\* refund_invoice: Stripe gives back what was asked for, or all that is left (a
\* refund it accepted counts as returned, pending at the bank or not).
Left(b) == Price - bill[b].returned
Refundable(b, a) == b # NoBill /\ bill[b].paid /\ Left(b) > 0 /\ a <= Left(b)
Refunded(b, a) ==
  bill' = [bill EXCEPT ![b].returned = IF a = 0 THEN Price ELSE @ + a]

RefundDone(c) ==
  /\ At(c, "ad_refund")
  /\ LET b == ledger[calls[c].row].bill IN
     /\ Refundable(b, calls[c].amount)
     /\ Refunded(b, calls[c].amount)
  /\ Goto(c, "ad_settle")
  /\ UNCHANGED <<sent, acked, claimVars, ledger>>

\* Stripe refused, or could not be reached before or after it gave the money
\* back: the call ends without a word on the row.
RefundFailed(c) ==
  /\ At(c, "ad_refund")
  /\ LET b == ledger[calls[c].row].bill IN
     \/ UNCHANGED bill
     \/ Refundable(b, calls[c].amount) /\ Refunded(b, calls[c].amount)
  /\ End(c)
  /\ UNCHANGED <<sent, acked, claimVars, ledger>>

\* _settle: unconditional, by the row's id.
Settle(c) ==
  /\ At(c, "ad_settle")
  /\ LET s == calls[c].next
         a == IF calls[c].amount = 0 THEN Price ELSE calls[c].amount IN
     ledger' = [ledger EXCEPT ![calls[c].row].status = s,
                              ![calls[c].row].refunded = IF s = "refunded" THEN a ELSE @]
  /\ End(c)
  /\ UNCHANGED <<stripeVars, claimVars>>

\* A worker dies; a claim it held stays as it is.
CallCut(c) ==
  /\ MayCrash
  /\ ~At(c, "idle")
  /\ End(c)
  /\ UNCHANGED <<stripeVars, claimVars, ledger>>

-----------------------------------------------------------------------------
StripeStep == \E b \in Bills : Decline(b) \/ Charge(b)

WebhookStep(c) ==
  \/ \E e \in Events : Deliver(c, e)
  \/ RecordFind(c) \/ RecordUpdate(c) \/ RecordInsert(c) \/ Handled(c)

AdminStep(c) ==
  \/ \E r \in Rows, s \in {"paid", "written_off"} : SettleStart(c, r, s)
  \/ \E r \in Rows, a \in 0..Price : RefundStart(c, r, a)
  \/ RefundDone(c) \/ RefundFailed(c) \/ Settle(c)

Next ==
  \/ StripeStep
  \/ \E e \in Events : DeliverDuplicate(e)
  \/ \E r \in Rows, s \in PlatformInvoiceStatus : RaiseByHand(r, s)
  \/ \E c \in Calls : WebhookStep(c) \/ Raise(c) \/ AdminStep(c) \/ CallCut(c)

Spec == Init /\ [][Next]_vars

\* Stripe delivers an unanswered event until it is answered (a free slot is not
\* kept from it for ever), and a handler that can move does.
FairSpec ==
  /\ Spec
  /\ \A e \in Events : SF_vars(DeliverDuplicate(e) \/ \E c \in Calls : Deliver(c, e))
  /\ \A c \in Calls : WF_vars(RecordFind(c) \/ RecordUpdate(c) \/ RecordInsert(c) \/ Handled(c))

-----------------------------------------------------------------------------
\* Types.
TypeOK ==
  /\ bill \in [Bills -> BillType]
  /\ sent \subseteq Events
  /\ acked \subseteq Events
  /\ claim \in [Events -> {"free", "processing", "handled"}]
  /\ handled \in [Events -> Nat]
  /\ ledger \in [Rows -> RowType]
  /\ calls \in [Calls -> CallType]
  /\ faults \in 0..MaxFaults

\* record_from_stripe: Stripe reports a payment twice and may deliver each
\* report twice, and the organization still has one invoice for it.
OneRow ==
  \A r, q \in Born : ledger[r].bill # NoBill /\ ledger[r].bill = ledger[q].bill => r = q

\* stripe_webhook, rule 2: an event is processed once, however often Stripe
\* delivers it and whatever the workers that handle it run into.
EventOnce == \A e \in Events : handled[e] <= 1

\* An event answered for good left its invoice on the books.
HandledIsRecorded == \A e \in Events : claim[e] = "handled" => RowsOf(e[1]) # {}

\* The books, whatever is delivered twice or at once: one row per bill, an event
\* finished once, and an event answered as handled on the books
\* (invoices.py:107, webhooks/router.py:314).
BooksKept == OneRow /\ EventOnce /\ HandledIsRecorded

\* refund_invoice: an invoice Stripe charged never reads "refunded" here while
\* Stripe returned nothing.
RefundedMeansReturned ==
  \A r \in Rows : ledger[r].status = "refunded" /\ ledger[r].bill # NoBill
                    => bill[ledger[r].bill].returned > 0

\* What makes these inductive.  A row a call has read is still there; a delivery
\* at work holds the claim of its event, alone, and has the row of its invoice in
\* hand or on the books; it writes "paid" or "failed"; a call about to write
\* "refunded" has had the money back from Stripe.
RowsRead == \A c \in Calls : calls[c].pc \in {"wh_update", "ad_refund", "ad_settle"}
                               => calls[c].row \in Born

ClaimHeld ==
  \A c \in Calls : calls[c].pc \in Handling =>
    /\ calls[c].event \in Events /\ claim[calls[c].event] = "processing"
    /\ \A o \in Calls : calls[o].pc \in Handling /\ calls[o].event = calls[c].event => o = c

HandledOnce == \A e \in Events : claim[e] # "handled" => handled[e] = 0

RowInHand ==
  \A c \in Calls :
    /\ At(c, "wh_update") => ledger[calls[c].row].bill = calls[c].event[1]
    /\ At(c, "wh_done") => RowsOf(calls[c].event[1]) # {}
    /\ calls[c].pc \in {"wh_update", "wh_insert"} => calls[c].next \in {"paid", "failed"}

MoneyBack ==
  \A c \in Calls : At(c, "ad_settle") /\ calls[c].next = "refunded" =>
    LET b == ledger[calls[c].row].bill IN b # NoBill => bill[b].returned > 0

LedgerInv == /\ OneRow /\ EventOnce /\ HandledIsRecorded /\ RefundedMeansReturned
             /\ RowsRead /\ ClaimHeld /\ HandledOnce /\ RowInHand /\ MoneyBack

\* invoices.py: every payment becomes a row.  A delivery that finds the event
\* claimed is answered for good, so the claim must end in a row.
PaymentsRecorded == \A b \in Bills : bill[b].paid ~> RowsOf(b) # {}

\* A closed invoice stays closed.  No run checks it, and TLC refutes it: an
\* event of the same bill that comes late sets the row's status again.
Closed(s) == s \in {"refunded", "written_off"}
ClosedStands ==
  [][\A r \in Rows : Closed(ledger[r].status) => ledger'[r].status = ledger[r].status]_vars
=============================================================================
