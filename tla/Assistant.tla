------------------------------- MODULE Assistant -------------------------------
(***************************************************************************)
(* The assistant's conversations: a question, the prompt made of what was  *)
(* said before it, the model's answer or the apology that stands for none, *)
(* and the turn written down.                                              *)
(*                                                                         *)
(* Source: app/modules/ai/router.py, and assistant_reply and `_complete`   *)
(* of app/services/ai_service.py.  The conversations are one person's, who *)
(* may ask from several screens.  What is said is left out but for whether *)
(* it is empty, and so are the records the prompt carries.                 *)
(***************************************************************************)
EXTENDS Naturals, Sequences, FiniteSets

CONSTANTS
  Convos,      \* ids of ai_conversations rows
  NoConvo,
  Window,      \* the messages of the history a prompt carries: 10
  MaxMessages, \* bound: messages of a conversation
  Calls

\* What the constants satisfy: assumed wherever the module is instantiated.
AssistantAssumption ==
  NoConvo \notin Convos /\ Window \in Nat \ {0} /\ Window % 2 = 0 /\ MaxMessages \in Nat

VARIABLES
  convos, \* convos[v]: whether it is there, and its messages
  asking  \* the questions in flight

bvars == <<convos, asking>>

Roles == {"user", "assistant"}
Words == {"said", "empty", "apology"}
Turn == [role: Roles, words: Words]
Idle == [pc |-> "idle", convo |-> NoConvo, history |-> <<>>, message |-> "empty",
         reply |-> "empty"]
NoRow == [status |-> "none", messages |-> <<>>]

ConvoType == [status: {"none", "open", "deleted"}, messages: Seq(Turn)]
CallType == [pc: {"idle", "complete", "store", "show"}, convo: Convos \cup {NoConvo},
             history: Seq(Turn), message: Words, reply: Words]

TypeOK ==
  /\ convos \in [Convos -> ConvoType]
  /\ \A v \in Convos : Len(convos[v].messages) <= MaxMessages
  /\ asking \in [Calls -> CallType]

Init ==
  /\ convos = [v \in Convos |-> NoRow]
  /\ asking = [c \in Calls |-> Idle]

At(c, pc) == asking[c].pc = pc
Ask(c, v, history, message) ==
  /\ At(c, "idle")
  /\ asking' = [asking EXCEPT ![c] = [Idle EXCEPT !.pc = "complete", !.convo = v,
                                        !.history = history, !.message = message]]

-----------------------------------------------------------------------------
\* chat: the conversation named, as it stands, or a new one.
ChatStart(c, v, message) ==
  /\ convos[v].status = "open"
  /\ Ask(c, v, convos[v].messages, message)
  /\ UNCHANGED convos

ChatNew(c, v, message) ==
  /\ convos[v].status = "none"
  /\ Ask(c, v, <<>>, message)
  /\ convos' = [convos EXCEPT ![v].status = "open"]

\* Mutant: the window is one message too long.
RecentOneMore(h) == SubSeq(h, IF Len(h) > Window THEN Len(h) - Window ELSE 1, Len(h))

Recent(h) == SubSeq(h, IF Len(h) > Window THEN Len(h) - Window + 1 ELSE 1, Len(h))

Spoken(t) == t.words # "empty"

\* The messages of h that have words, in their order.
Worded(h) == {i \in DOMAIN h : Spoken(h[i])}
Nth(S, k) == CHOOSE i \in S : Cardinality({j \in S : j <= i}) = k
WithWords(h) == [k \in 1..Cardinality(Worded(h)) |-> h[Nth(Worded(h), k)]]

\* assistant_reply: the last of the history that has words, then the question.
Prompt(c) == Append(WithWords(Recent(asking[c].history)),
                    [role |-> "user", words |-> asking[c].message])

\* _complete: an answer, or none for any reason, and then the apology.
Complete(c, reply) ==
  /\ At(c, "complete")
  /\ reply \in {"said", "apology"}
  /\ asking' = [asking EXCEPT ![c].pc = "store", ![c].reply = reply]
  /\ UNCHANGED convos

\* Question and answer in one push; a conversation deleted meanwhile takes none.
Said(c) == <<[role |-> "user", words |-> asking[c].message],
             [role |-> "assistant", words |-> asking[c].reply]>>

Store(c) ==
  /\ At(c, "store")
  /\ LET v == asking[c].convo IN
       IF convos[v].status = "open"
         THEN /\ Len(convos[v].messages) + 2 <= MaxMessages
              /\ convos' = [convos EXCEPT ![v].messages = @ \o Said(c)]
         ELSE UNCHANGED convos
  /\ asking' = [asking EXCEPT ![c].pc = "show"]

\* The conversation is read back for the response, which raises when it is gone.
Show(c) ==
  /\ At(c, "show")
  /\ asking' = [asking EXCEPT ![c] = Idle]
  /\ UNCHANGED convos

\* delete_conversation.
Delete(v) ==
  /\ convos[v].status = "open"
  /\ convos' = [convos EXCEPT ![v] = [NoRow EXCEPT !.status = "deleted"]]
  /\ UNCHANGED asking

-----------------------------------------------------------------------------
Next ==
  \/ \E c \in Calls :
       \/ \E v \in Convos, m \in {"said", "empty"} : ChatStart(c, v, m) \/ ChatNew(c, v, m)
       \/ \E r \in {"said", "apology"} : Complete(c, r)
       \/ Store(c) \/ Show(c)
  \/ \E v \in Convos : Delete(v)

Spec == Init /\ [][Next]_bvars

-----------------------------------------------------------------------------
Alternates(s) == \A i \in DOMAIN s : s[i].role = IF i % 2 = 1 THEN "user" ELSE "assistant"

\* However many questions are asked of a conversation at once, and however long
\* it has grown, the prompt is questions and answers in turn, from a question to
\* the question asked, unless somebody once sent an empty one
\* (ai/router.py:123, ai_service.py:427).
PromptAlternates ==
  \A c \in Calls :
    At(c, "complete") /\ (\A i \in DOMAIN asking[c].history : Spoken(asking[c].history[i])) =>
      Alternates(Prompt(c)) /\ Len(Prompt(c)) % 2 = 1

\* Questions and answers in turn, wherever they are kept: inductive with TypeOK.
InTurn(s) == Alternates(s) /\ Len(s) % 2 = 0
TurnsInv ==
  (\A v \in Convos : InTurn(convos[v].messages)) /\ \A c \in Calls : InTurn(asking[c].history)
=============================================================================
