----------------------------- MODULE ClientBills -----------------------------
(***************************************************************************)
(* The invoices a consultancy issues to its clients: drafted, sent, paid   *)
(* or voided, and what the client is shown of them.                        *)
(*                                                                         *)
(* Source: app/modules/billing/router.py, with the counter of              *)
(* app/db/indexes.py (next_sequence) that numbers them.  Each change of    *)
(* status is one conditional update; numbering, inserting and telling the  *)
(* client are steps of their own, which a crash may part.                  *)
(***************************************************************************)
EXTENDS Naturals, FiniteSets

CONSTANTS
  Bills,
  Clients,
  MaxNumber, \* bound on the counter
  Calls

\* What the constants satisfy: assumed wherever the module is instantiated.
ClientBillsAssumption == MaxNumber \in Nat /\ Bills # {}

VARIABLES
  bills,   \* the rows: number, client, status, and whether it is past its date
  counter, \* the counter named "invoice"
  notices, \* the number of times the client was told of a bill
  sent,    \* history: the bills that were sent once
  issuing  \* the calls in flight

bvars == <<bills, counter, notices, sent, issuing>>

Statuses == {"none", "draft", "sent", "paid", "overdue", "void"}
NoClient == "nobody"
NoRow == [number |-> 0, client |-> NoClient, status |-> "none", late |-> FALSE]
Idle == [pc |-> "idle", number |-> 0, bill |-> CHOOSE b \in Bills : TRUE, client |-> NoClient]

TypeOK ==
  /\ bills \in [Bills -> [number: 0..MaxNumber, client: Clients \cup {NoClient}, status: Statuses, late: BOOLEAN]]
  /\ counter \in 0..MaxNumber /\ sent \subseteq Bills
  /\ notices \in [Bills -> 0..2]
  /\ issuing \in [Calls -> [pc: {"idle", "bi_number", "bi_insert", "se_tell"}, number: 0..MaxNumber,
                            bill: Bills, client: Clients \cup {NoClient}]]

Init ==
  /\ bills = [b \in Bills |-> NoRow]
  /\ counter = 0 /\ sent = {}
  /\ notices = [b \in Bills |-> 0]
  /\ issuing = [c \in Calls |-> Idle]

At(c, pc) == issuing[c].pc = pc
End(c) == issuing' = [issuing EXCEPT ![c] = Idle]

-----------------------------------------------------------------------------
\* create_invoice: the client is found, the bill is numbered, then inserted.
CreateStart(c, k) ==
  /\ At(c, "idle")
  /\ issuing' = [issuing EXCEPT ![c] = [Idle EXCEPT !.pc = "bi_number", !.client = k]]
  /\ UNCHANGED <<bills, counter, notices, sent>>

\* next_sequence: one increment that answers what it made.
Number(c) ==
  /\ At(c, "bi_number") /\ counter < MaxNumber
  /\ counter' = counter + 1
  /\ issuing' = [issuing EXCEPT ![c].pc = "bi_insert", ![c].number = counter + 1]
  /\ UNCHANGED <<bills, notices, sent>>

Insert(c) ==
  /\ At(c, "bi_insert")
  /\ \E b \in Bills :
       /\ bills[b].status = "none"
       /\ bills' = [bills EXCEPT ![b] = [number |-> issuing[c].number, client |-> issuing[c].client,
                                         status |-> "draft", late |-> FALSE]]
  /\ End(c)
  /\ UNCHANGED <<counter, notices, sent>>

\* Mutant: a bill is sent again whatever became of it.
SendableAny == {"draft", "sent", "overdue", "void"}

Sendable == {"draft"}

\* send_invoice: one conditional update, and then the client is told.
Send(c, b) ==
  /\ At(c, "idle")
  /\ bills[b].status \in Sendable
  /\ bills' = [bills EXCEPT ![b].status = "sent"]
  /\ sent' = sent \cup {b}
  /\ issuing' = [issuing EXCEPT ![c] = [Idle EXCEPT !.pc = "se_tell", !.bill = b]]
  /\ UNCHANGED <<counter, notices>>

SendTell(c) ==
  /\ At(c, "se_tell")
  /\ notices' = [notices EXCEPT ![issuing[c].bill] = IF @ < 2 THEN @ + 1 ELSE @]
  /\ End(c)
  /\ UNCHANGED <<bills, counter, sent>>

\* mark_paid; nothing in the code ever writes "overdue".
MarkPaid(b) ==
  /\ bills[b].status \in {"sent", "overdue"}
  /\ bills' = [bills EXCEPT ![b].status = "paid"]
  /\ UNCHANGED <<counter, notices, sent, issuing>>

VoidInvoice(b) ==
  /\ bills[b].status \in Statuses \ {"none", "paid"}
  /\ bills' = [bills EXCEPT ![b].status = "void"]
  /\ UNCHANGED <<counter, notices, sent, issuing>>

\* due_at passes.
Late(b) ==
  /\ bills[b].status # "none" /\ ~bills[b].late
  /\ bills' = [bills EXCEPT ![b].late = TRUE]
  /\ UNCHANGED <<counter, notices, sent, issuing>>

Crash(c) ==
  /\ ~At(c, "idle")
  /\ End(c)
  /\ UNCHANGED <<bills, counter, notices, sent>>

-----------------------------------------------------------------------------
Next ==
  \/ \E c \in Calls :
       \/ \E k \in Clients : CreateStart(c, k)
       \/ \E b \in Bills : Send(c, b)
       \/ Number(c) \/ Insert(c) \/ SendTell(c) \/ Crash(c)
  \/ \E b \in Bills : MarkPaid(b) \/ VoidInvoice(b) \/ Late(b)

Spec == Init /\ [][Next]_bvars

-----------------------------------------------------------------------------
Of(k) == {b \in Bills : bills[b].client = k}

\* What a client is shown: the list, the totals, one bill.  The list leaves out
\* a draft; get_invoice and the totals do not.
Listed(k) == {b \in Of(k) : bills[b].status # "draft"}
Totals(k, st) == {b \in Of(k) : bills[b].status = st}
OverdueNow(k) == {b \in Of(k) : bills[b].status = "sent" /\ bills[b].late}
InvoiceOpens(k, b) == bills[b].client = k

\* A client is told at most once of a bill and pays only what was sent, no two
\* bills bear one number, and what is owed and late is on the list and opens,
\* whatever calls run side by side or are cut (billing/router.py:156-159,
\* 177-179, 192-193).
BillsTold ==
  /\ \A b \in Bills : notices[b] <= 1 /\ (bills[b].status = "paid" => b \in sent)
  /\ \A a, b \in Bills : bills[a].status # "none" /\ bills[a].number = bills[b].number => a = b
  /\ \A k \in Clients, b \in Bills :
       b \in OverdueNow(k) \cup Totals(k, "paid") => b \in Listed(k) /\ InvoiceOpens(k, b)

\* BillsTold as an inductive invariant: only a bill that was sent is told of, by
\* one call; a number is one bill's, or of one call about to insert.
BillsInv ==
  /\ \A b \in Bills :
       /\ notices[b] <= 1 /\ (b \notin sent => notices[b] = 0)
       /\ bills[b].status \in {"none", "draft"} => b \notin sent
       /\ bills[b].status \in {"sent", "overdue", "paid"} => b \in sent
       /\ bills[b].number <= counter /\ (bills[b].status = "none" <=> bills[b].number = 0)
  /\ \A a, b \in Bills : bills[a].number # 0 /\ bills[a].number = bills[b].number => a = b
  /\ \A c \in Calls :
       /\ At(c, "se_tell") => issuing[c].bill \in sent /\ notices[issuing[c].bill] = 0
       /\ At(c, "bi_insert") =>
            /\ issuing[c].number # 0 /\ issuing[c].number <= counter
            /\ \A b \in Bills : bills[b].number # issuing[c].number
  /\ \A c, o \in Calls :
       /\ At(c, "se_tell") /\ At(o, "se_tell") /\ issuing[c].bill = issuing[o].bill => c = o
       /\ At(c, "bi_insert") /\ At(o, "bi_insert") /\ issuing[c].number = issuing[o].number => c = o
=============================================================================
