----------------------------- MODULE Conversations -----------------------------
(***************************************************************************)
(* Conversations between the people working on a case: threads, messages,  *)
(* the unread counts each thread carries, and the sockets that hear a      *)
(* message as it is sent.                                                  *)
(*                                                                         *)
(* Source: app/modules/messages/service.py and router.py and               *)
(* app/services/realtime.py.  A message is one insert and one counter      *)
(* update; reading is one update of the messages and one of the counter.   *)
(* All threads here are about one case; what a message says, and whether   *)
(* it carries a file already stored, is left out.  The connection a person *)
(* sends from need not be one of Sockets.                                  *)
(***************************************************************************)
EXTENDS Naturals, FiniteSets

CONSTANTS
  People,
  Contacts,  \* pairs <<a, b>>: a may open a conversation with b
  Threads, Messages, \* ids of rows: they bound the inserts
  Sockets,
  NoThread, NoMessage, Nobody, NoSocket,
  Calls,
  Alone      \* the operations that run with no other call beside them

\* What the constants satisfy: assumed wherever the module is instantiated.
ConversationsAssumption ==
  /\ Contacts \subseteq People \X People
  /\ NoThread \notin Threads /\ NoMessage \notin Messages
  /\ Nobody \notin People /\ NoSocket \notin Sockets
  /\ IsFiniteSet(Messages) /\ IsFiniteSet(Calls)

VARIABLES
  threads,  \* threads[t]: who is in it, and how many messages each has unread
  messages, \* messages[m]: its thread, its sender, who read it
  sockets,  \* sockets[s]: whose connection, the thread rooms it is in, what it heard
  talking   \* the calls in flight

vars == <<threads, messages, sockets, talking>>

ThreadType == [who: SUBSET People, unread: [People -> Nat]]
MessageType == [thread: Threads \cup {NoThread}, sender: People \cup {Nobody},
                read: SUBSET People]
SocketType == [who: People \cup {Nobody}, rooms: SUBSET Threads, heard: SUBSET Messages]
Pc == {"idle", "op_insert", "se_insert", "se_count", "se_publish", "re_zero"}
CallType == [pc: Pc, who: People \cup {Nobody}, with: SUBSET People, thread: Threads \cup {NoThread},
             message: Messages \cup {NoMessage}, socket: Sockets \cup {NoSocket}]

NoRow == [who |-> {}, unread |-> [u \in People |-> 0]]
NoMail == [thread |-> NoThread, sender |-> Nobody, read |-> {}]
Closed == [who |-> Nobody, rooms |-> {}, heard |-> {}]
Idle == [pc |-> "idle", who |-> Nobody, with |-> {}, thread |-> NoThread, message |-> NoMessage,
         socket |-> NoSocket]

TypeOK ==
  /\ threads \in [Threads -> ThreadType]
  /\ messages \in [Messages -> MessageType]
  /\ sockets \in [Sockets -> SocketType]
  /\ talking \in [Calls -> CallType]

Init ==
  /\ threads = [t \in Threads |-> NoRow]
  /\ messages = [m \in Messages |-> NoMail]
  /\ sockets = [s \in Sockets |-> Closed]
  /\ talking = [c \in Calls |-> Idle]

At(c, pc) == talking[c].pc = pc
Goto(c, pc) == talking' = [talking EXCEPT ![c].pc = pc]
End(c) == talking' = [talking EXCEPT ![c] = Idle]
OpOf(pc) == CASE pc = "op_insert" -> "open" [] pc = "re_zero" -> "read" [] OTHER -> "send"
Free(c, op) ==
  /\ At(c, "idle")
  /\ \A o \in Calls : \/ At(o, "idle")
                      \/ op \notin Alone /\ OpOf(talking[o].pc) \notin Alone

-----------------------------------------------------------------------------
\* open_thread: everyone named must be someone the caller works with; the
\* thread of exactly these people is looked for, and made when there is none.
OpenStart(c, u, others) ==
  /\ Free(c, "open")
  /\ others # {} /\ u \notin others
  /\ \A o \in others : <<u, o>> \in Contacts
  /\ \A t \in Threads : threads[t].who # others \cup {u}
  /\ talking' = [talking EXCEPT ![c] = [Idle EXCEPT !.pc = "op_insert", !.who = u,
                                          !.with = others \cup {u}]]
  /\ UNCHANGED <<threads, messages, sockets>>

OpenInsert(c, t) ==
  /\ At(c, "op_insert")
  /\ threads[t] = NoRow
  /\ threads' = [threads EXCEPT ![t].who = talking[c].with]
  /\ End(c)
  /\ UNCHANGED <<messages, sockets>>

\* send: the message, which its sender has read, then the counts of the rest.
SendStart(c, u, t, s) ==
  /\ Free(c, "send")
  /\ u \in threads[t].who
  /\ s # NoSocket => sockets[s].who = u
  /\ talking' = [talking EXCEPT ![c] = [Idle EXCEPT !.pc = "se_insert", !.who = u, !.thread = t,
                                          !.socket = s]]
  /\ UNCHANGED <<threads, messages, sockets>>

SendInsert(c, m) ==
  /\ At(c, "se_insert")
  /\ messages[m] = NoMail
  /\ messages' = [messages EXCEPT ![m] = [thread |-> talking[c].thread, sender |-> talking[c].who,
                                           read |-> {talking[c].who}]]
  /\ talking' = [talking EXCEPT ![c].pc = "se_count", ![c].message = m]
  /\ UNCHANGED <<threads, sockets>>

\* Mutant: the sender is counted among those who have it to read.
RecipientsAll(c) == threads[talking[c].thread].who

Recipients(c) == threads[talking[c].thread].who \ {talking[c].who}

SendCount(c) ==
  /\ At(c, "se_count")
  /\ threads' = [threads EXCEPT ![talking[c].thread].unread =
                   [u \in People |-> IF u \in Recipients(c) THEN @[u] + 1 ELSE @[u]]]
  /\ Goto(c, "se_publish")
  /\ UNCHANGED <<messages, sockets>>

\* publish_message: the thread's room but for the sending socket, or for all
\* the sender's when it was not named, and the rooms of the recipients.
Hearers(c) ==
  LET call == talking[c] IN
  {s \in Sockets :
     \/ /\ call.thread \in sockets[s].rooms
        /\ IF call.socket # NoSocket THEN s # call.socket ELSE sockets[s].who # call.who
     \/ sockets[s].who \in Recipients(c)}

SendPublish(c) ==
  /\ At(c, "se_publish")
  /\ sockets' = [s \in Sockets |->
       IF s \in Hearers(c) THEN [sockets[s] EXCEPT !.heard = @ \cup {talking[c].message}]
                           ELSE sockets[s]]
  /\ End(c)
  /\ UNCHANGED <<threads, messages>>

\* A socket that is down costs the live delivery and nothing else.
SendUnheard(c) ==
  /\ At(c, "se_publish")
  /\ End(c)
  /\ UNCHANGED <<threads, messages, sockets>>

-----------------------------------------------------------------------------
\* _mark_read, from opening a thread or asking for it: the messages, then the
\* count.
Marked(t, u, m) == messages[m].thread = t

ReadMark(c, u, t) ==
  /\ Free(c, "read")
  /\ u \in threads[t].who
  /\ messages' = [m \in Messages |->
       IF Marked(t, u, m) THEN [messages[m] EXCEPT !.read = @ \cup {u}] ELSE messages[m]]
  /\ talking' = [talking EXCEPT ![c] = [Idle EXCEPT !.pc = "re_zero", !.who = u, !.thread = t]]
  /\ UNCHANGED <<threads, sockets>>

ReadZero(c) ==
  /\ At(c, "re_zero")
  /\ threads' = [threads EXCEPT ![talking[c].thread].unread[talking[c].who] = 0]
  /\ End(c)
  /\ UNCHANGED <<messages, sockets>>

-----------------------------------------------------------------------------
\* connect, join_thread, leave_thread and disconnect.
Connect(s, u) ==
  /\ sockets[s].who = Nobody
  /\ sockets' = [sockets EXCEPT ![s] = [Closed EXCEPT !.who = u]]
  /\ UNCHANGED <<threads, messages, talking>>

\* Mutant: whoever names a room is let into it.
MayJoinAny(u, t) == u # Nobody

MayJoin(u, t) == u \in threads[t].who

Join(s, t) ==
  /\ MayJoin(sockets[s].who, t)
  /\ sockets' = [sockets EXCEPT ![s].rooms = @ \cup {t}]
  /\ UNCHANGED <<threads, messages, talking>>

Leave(s, t) ==
  /\ t \in sockets[s].rooms
  /\ sockets' = [sockets EXCEPT ![s].rooms = @ \ {t}]
  /\ UNCHANGED <<threads, messages, talking>>

Disconnect(s) ==
  /\ sockets[s].who # Nobody
  /\ \A c \in Calls : talking[c].socket # s
  /\ sockets' = [sockets EXCEPT ![s] = Closed]
  /\ UNCHANGED <<threads, messages, talking>>

-----------------------------------------------------------------------------
Step(c) ==
  \/ \E u \in People, others \in SUBSET People : OpenStart(c, u, others)
  \/ \E t \in Threads : OpenInsert(c, t)
  \/ \E u \in People, t \in Threads : ReadMark(c, u, t)
                                       \/ \E s \in Sockets \cup {NoSocket} : SendStart(c, u, t, s)
  \/ \E m \in Messages : SendInsert(c, m)
  \/ SendCount(c) \/ SendPublish(c) \/ SendUnheard(c) \/ ReadZero(c)

Next ==
  \/ \E c \in Calls : Step(c)
  \/ \E s \in Sockets : \/ Disconnect(s)
                        \/ \E u \in People : Connect(s, u)
                        \/ \E t \in Threads : Join(s, t) \/ Leave(s, t)

Spec == Init /\ [][Next]_vars

-----------------------------------------------------------------------------
\* list_threads: the conversations a person is shown, each with its badge.
Listed(u) == {t \in Threads : u \in threads[t].who}
Badge(t, u) == threads[t].unread[u]

Unread(t, u) == {m \in Messages : messages[m].thread = t /\ u \notin messages[m].read}
Uncounted(t, u) == {c \in Calls : At(c, "se_count") /\ talking[c].thread = t /\ talking[c].who # u}

\* Readers kept to themselves, the badge is the number of messages not read,
\* however many are being sent: each is either counted or about to be
\* (messages/service.py:264).
UnreadExact ==
  \A u \in People : \A t \in Listed(u) :
    (\A c \in Calls : ~(At(c, "re_zero") /\ talking[c].thread = t /\ talking[c].who = u)) =>
      Badge(t, u) + Cardinality(Uncounted(t, u)) = Cardinality(Unread(t, u))

\* Nobody but the people in a thread hears what is said in it (realtime.py:78).
HeardByThread ==
  \A s \in Sockets : \A m \in sockets[s].heard :
    sockets[s].who \in threads[messages[m].thread].who

\* Who is where, and what is counted or about to be: inductive with TypeOK.
ThreadsInv ==
  /\ \A c \in Calls :
       /\ At(c, "op_insert") => talking[c].with # {}
       /\ At(c, "se_insert") \/ At(c, "se_count") \/ At(c, "se_publish") \/ At(c, "re_zero") =>
            /\ talking[c].thread \in Threads
            /\ talking[c].who \in threads[talking[c].thread].who
       /\ At(c, "se_count") \/ At(c, "se_publish") =>
            /\ talking[c].message \in Messages
            /\ messages[talking[c].message].thread = talking[c].thread
       /\ At(c, "re_zero") => \A o \in Calls \ {c} : At(o, "idle")
  /\ \A t \in Threads : threads[t].who = {} => threads[t] = NoRow
  /\ \A m \in Messages : messages[m].thread \in Threads =>
       threads[messages[m].thread].who # {} /\ messages[m].sender \in People
  /\ \A s \in Sockets :
       /\ sockets[s].who = Nobody => sockets[s] = Closed
       /\ \A t \in sockets[s].rooms : sockets[s].who \in threads[t].who
       /\ \A m \in sockets[s].heard : messages[m].thread \in Threads
  /\ \A u \in People, t \in Threads :
       IF \E c \in Calls : At(c, "re_zero") /\ talking[c].thread = t /\ talking[c].who = u
       THEN Unread(t, u) = {} /\ Uncounted(t, u) = {}
       ELSE u \in threads[t].who =>
              Badge(t, u) + Cardinality(Uncounted(t, u)) = Cardinality(Unread(t, u))
  /\ HeardByThread
=============================================================================
