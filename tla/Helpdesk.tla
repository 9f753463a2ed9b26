------------------------------- MODULE Helpdesk -------------------------------
(***************************************************************************)
(* Support tickets: raised and answered by a workspace's people, answered, *)
(* assigned and closed by the platform's agents.                           *)
(*                                                                         *)
(* Source: app/modules/support/service.py.  One ticket.  A reply is its    *)
(* message and then the ticket; the notices and the reading of the queue   *)
(* are left out.                                                           *)
(***************************************************************************)
EXTENDS Naturals, Sequences

CONSTANTS
  Agents, NoAgent,
  MaxMessages, \* bound: messages of the ticket
  Calls,
  Alone        \* the operations that run with no other call beside them

\* What the constants satisfy: assumed wherever the module is instantiated.
HelpdeskAssumption == NoAgent \notin Agents /\ MaxMessages \in Nat
                             /\ Alone \subseteq {"reply", "create"}

VARIABLES
  ticket,   \* its status, its agent, whether it was ever resolved
  said,     \* who wrote each of its messages
  replying  \* the calls in flight

hvars == <<ticket, said, replying>>

Statuses == {"none", "open", "in_progress", "waiting_on_customer", "resolved", "closed"}
Actors == {"customer", "agent"}
CallType == [pc: {"idle", "cr_message", "re_message", "re_status"}, op: {"reply", "create"},
             actor: Actors]
Idle == [pc |-> "idle", op |-> "reply", actor |-> "customer"]

TypeOK ==
  /\ ticket \in [status: Statuses, agent: Agents \cup {NoAgent}, byHand: BOOLEAN]
  /\ said \in Seq(Actors) /\ Len(said) <= MaxMessages
  /\ replying \in [Calls -> CallType]

Init ==
  /\ ticket = [status |-> "none", agent |-> NoAgent, byHand |-> FALSE]
  /\ said = <<>>
  /\ replying = [c \in Calls |-> Idle]

At(c, pc) == replying[c].pc = pc
Goto(c, pc) == replying' = [replying EXCEPT ![c].pc = pc]
End(c) == replying' = [replying EXCEPT ![c] = Idle]
Start(c, op, pc, actor) ==
  /\ At(c, "idle")
  /\ \A o \in Calls : At(o, "idle") \/ (op \notin Alone /\ replying[o].op \notin Alone)
  /\ replying' = [replying EXCEPT ![c] = [pc |-> pc, op |-> op, actor |-> actor]]

-----------------------------------------------------------------------------
\* create_ticket: the ticket, then its first message.
Create(c) ==
  /\ ticket.status = "none"
  /\ Start(c, "create", "cr_message", "customer")
  /\ ticket' = [ticket EXCEPT !.status = "open"]
  /\ UNCHANGED said

CreateMessage(c) ==
  /\ At(c, "cr_message") /\ Len(said) < MaxMessages
  /\ said' = Append(said, "customer")
  /\ End(c)
  /\ UNCHANGED ticket

\* reply, to a ticket in any status.
ReplyStart(c, actor) ==
  /\ ticket.status # "none"
  /\ Start(c, "reply", "re_message", actor)
  /\ UNCHANGED <<ticket, said>>

ReplyMessage(c) ==
  /\ At(c, "re_message") /\ Len(said) < MaxMessages
  /\ said' = Append(said, replying[c].actor)
  /\ Goto(c, "re_status")
  /\ UNCHANGED ticket

\* Mutant: a reply always leaves the ticket with the customer.
StatusAfterAny(actor) == "waiting_on_customer"

StatusAfter(actor) == IF actor = "agent" THEN "waiting_on_customer" ELSE "in_progress"

ReplyStatus(c) ==
  /\ At(c, "re_status")
  /\ ticket' = [ticket EXCEPT !.status = StatusAfter(replying[c].actor), !.byHand = FALSE]
  /\ End(c)
  /\ UNCHANGED said

\* set_status and assign: what an agent says of it.
SetStatus(s) ==
  /\ ticket.status # "none" /\ s # "none"
  /\ ticket' = [ticket EXCEPT !.status = s, !.byHand = TRUE]
  /\ UNCHANGED <<said, replying>>

Assign(a) ==
  /\ ticket.status # "none"
  /\ ticket' = [ticket EXCEPT !.agent = a, !.status = "in_progress", !.byHand = FALSE]
  /\ UNCHANGED <<said, replying>>

-----------------------------------------------------------------------------
Next ==
  \/ \E c \in Calls : \/ Create(c) \/ CreateMessage(c) \/ ReplyMessage(c) \/ ReplyStatus(c)
                      \/ \E x \in Actors : ReplyStart(c, x)
  \/ \E s \in Statuses : SetStatus(s)
  \/ \E a \in Agents \cup {NoAgent} : Assign(a)

Spec == Init /\ [][Next]_hvars

-----------------------------------------------------------------------------
\* With one reply at a time, a ticket that waits on the customer and that no
\* agent set so by hand was last spoken in by an agent: nobody is waiting for
\* an answer to the words nobody read (support/service.py:145).
WaitsOnTheOther ==
  ticket.status = "waiting_on_customer" /\ ~ticket.byHand
  /\ (\A c \in Calls : replying[c].pc # "re_status") =>
    said # <<>> /\ said[Len(said)] = "agent"

\* What is kept with one reply at a time: inductive with TypeOK.
TicketInv ==
  /\ \A c, d \in Calls : At(c, "idle") \/ At(d, "idle") \/ c = d
  /\ \A c \in Calls :
       /\ At(c, "cr_message") => ticket.status # "waiting_on_customer" \/ ticket.byHand
       /\ At(c, "re_status") => said # <<>> /\ said[Len(said)] = replying[c].actor
  /\ WaitsOnTheOther
=============================================================================
