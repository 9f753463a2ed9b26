-------------------------------- MODULE Cards --------------------------------
(***************************************************************************)
(* The cards a workspace is billed to: saved, chosen, taken off, at the    *)
(* payment provider, which keeps them and the one that is charged.         *)
(*                                                                         *)
(* Source: the cards of app/services/stripe_service.py and the endpoints   *)
(* of app/modules/subscriptions/router.py.  Every call to the provider is  *)
(* a step and may fail.  One customer, with the others around it: a card   *)
(* is saved to this one, to another or to nobody, and only attaching and   *)
(* choosing ask whose it is.                                               *)
(***************************************************************************)
EXTENDS Naturals, FiniteSets

CONSTANTS
  CardIds, NoCard,
  Calls,
  Single     \* the operations of which one at a time is under way

\* What the constants satisfy: assumed wherever the module is instantiated.
CardsAssumption == NoCard \notin CardIds /\ Single \subseteq {"save", "choose", "detach"}

VARIABLES
  held,    \* held[k]: the customer the card is attached to
  charged, \* the customer's default_payment_method
  began,   \* history: the customer had a card to charge once
  mishap,  \* history: how the customer may have come to have no default
  asking   \* the calls in flight

kvars == <<held, charged, began, mishap, asking>>

Holder == {"ours", "theirs", "nobody"}
\* "unnamed": the default was taken off and no other named, for the provider
\* refused, or for it was chosen while the call that takes it off was under way;
\* "taken": another customer's call took off one of this customer's.
Mishaps == {"none", "unnamed", "taken"}
Unnamed == mishap' = IF mishap = "none" THEN "unnamed" ELSE mishap
Pcs == {"idle", "sv_attach", "sv_default", "ch_attach", "ch_default", "de_list", "de_detach", "de_next"}
Idle == [pc |-> "idle", op |-> "save", card |-> NoCard, flag |-> FALSE, seen |-> {}, default |-> NoCard]

TypeOK ==
  /\ held \in [CardIds -> Holder] /\ charged \in CardIds \cup {NoCard}
  /\ began \in BOOLEAN /\ mishap \in Mishaps
  /\ asking \in [Calls -> [pc: Pcs, op: {"save", "choose", "detach"}, card: CardIds \cup {NoCard},
                           flag: BOOLEAN, seen: SUBSET CardIds, default: CardIds \cup {NoCard}]]

Init ==
  /\ held \in [CardIds -> {"theirs", "nobody"}]
  /\ charged = NoCard /\ began = FALSE /\ mishap = "none"
  /\ asking = [c \in Calls |-> Idle]

Saved == {k \in CardIds : held[k] = "ours"}

At(c, pc) == asking[c].pc = pc
Card(c) == asking[c].card
Goto(c, pc) == asking' = [asking EXCEPT ![c].pc = pc]
End(c) == asking' = [asking EXCEPT ![c] = Idle]
Start(c, op, pc, k, flag, default) ==
  /\ At(c, "idle")
  /\ op \in Single => \A o \in Calls : At(o, "idle") \/ asking[o].op # op
  /\ asking' = [asking EXCEPT ![c] = [pc |-> pc, op |-> op, card |-> k, flag |-> flag,
                                      seen |-> {}, default |-> default]]

-----------------------------------------------------------------------------
\* attach_payment_method: the owner of the card is read, then it is attached.
SaveStart(c, k, makeDefault) ==
  /\ held[k] # "theirs"
  /\ Start(c, "save", "sv_attach", k, makeDefault, NoCard)
  /\ UNCHANGED <<held, charged, began, mishap>>

\* The provider attaches a card that is nobody's, or this customer's already.
Attach(k) == held[k] # "theirs" /\ held' = [held EXCEPT ![k] = "ours"]

SaveAttach(c) ==
  /\ At(c, "sv_attach")
  /\ Attach(Card(c))
  /\ IF asking[c].flag THEN Goto(c, "sv_default") ELSE End(c)
  /\ UNCHANGED <<charged, began, mishap>>

\* The provider makes a card the default only while it is attached.
NameDefault(k) == k \in Saved /\ charged' = k /\ began' = TRUE

SaveDefault(c) ==
  /\ At(c, "sv_default")
  /\ NameDefault(Card(c))
  /\ End(c)
  /\ UNCHANGED <<held, mishap>>

\* set_default_payment_method: a card that is nobody's is attached first.
ToName(k) == IF k \in Saved THEN "ch_default" ELSE "ch_attach"

ChooseStart(c, k) ==
  /\ held[k] # "theirs"
  /\ Start(c, "choose", ToName(k), k, TRUE, NoCard)
  /\ UNCHANGED <<held, charged, began, mishap>>

ChooseAttach(c) ==
  /\ At(c, "ch_attach")
  /\ Attach(Card(c))
  /\ Goto(c, "ch_default")
  /\ UNCHANGED <<charged, began, mishap>>

ChooseDefault(c) ==
  /\ At(c, "ch_default")
  /\ NameDefault(Card(c))
  /\ End(c)
  /\ UNCHANGED <<held, mishap>>

\* Mutant: the only card may be removed.
MayDetachAny(cards) == TRUE

MayDetach(cards) == Cardinality(cards) > 1

\* detach_payment_method: the default is read, the cards are listed, the card
\* named is taken off whoever has it, and when it was the default another of the
\* listed ones takes over, as if it were chosen.
DetachStart(c, k) ==
  /\ Start(c, "detach", "de_list", k, FALSE, charged)
  /\ UNCHANGED <<held, charged, began, mishap>>

DetachList(c) ==
  /\ At(c, "de_list")
  /\ IF MayDetach(Saved)
     THEN asking' = [asking EXCEPT ![c] = [asking[c] EXCEPT !.pc = "de_detach", !.seen = Saved]]
     ELSE End(c)
  /\ UNCHANGED <<held, charged, began, mishap>>

\* The provider takes a card off; taking off the default leaves none.
Detach(k) ==
  /\ held[k] # "nobody"
  /\ held' = [held EXCEPT ![k] = "nobody"]
  /\ charged' = IF charged = k THEN NoCard ELSE charged

TakesOver(c) == asking[c].default = Card(c)

DetachCard(c) ==
  /\ At(c, "de_detach")
  /\ Detach(Card(c))
  /\ IF TakesOver(c) THEN Goto(c, "de_next") ELSE End(c)
  /\ IF charged = Card(c) /\ ~TakesOver(c) THEN Unnamed ELSE UNCHANGED mishap
  /\ UNCHANGED began

DetachNext(c) ==
  /\ At(c, "de_next")
  /\ \E k \in asking[c].seen \ {Card(c)} :
       /\ held[k] # "theirs"
       /\ asking' = [asking EXCEPT ![c] =
            [asking[c] EXCEPT !.pc = ToName(k), !.card = k, !.seen = {}, !.default = NoCard]]
  /\ UNCHANGED <<held, charged, began, mishap>>

\* The next default is being named by the call that took the last one off.
Naming(c) == asking[c].op = "detach" /\ (At(c, "de_next") \/ At(c, "ch_attach") \/ At(c, "ch_default"))

\* A call the provider refuses ends where it is; one whose answer is lost ends
\* after its step (a detach of the default: at the naming of the next).
Refuse(c) ==
  /\ ~At(c, "idle")
  /\ IF Naming(c) THEN Unnamed ELSE UNCHANGED mishap
  /\ End(c)
  /\ UNCHANGED <<held, charged, began>>

\* The other customers: they save cards that are nobody's, and their
\* detach_payment_method takes off the card it is given.
OthersSave(k) ==
  /\ held[k] = "nobody"
  /\ held' = [held EXCEPT ![k] = "theirs"]
  /\ UNCHANGED <<charged, began, mishap, asking>>

OthersDetach(k) ==
  /\ Detach(k)
  /\ mishap' = IF k \in Saved THEN "taken" ELSE mishap
  /\ UNCHANGED <<began, asking>>

-----------------------------------------------------------------------------
Next ==
  \/ \E k \in CardIds : OthersSave(k) \/ OthersDetach(k)
  \/ \E c \in Calls :
       \/ \E k \in CardIds : \/ ChooseStart(c, k) \/ DetachStart(c, k)
                             \/ \E f \in BOOLEAN : SaveStart(c, k, f)
       \/ SaveAttach(c) \/ SaveDefault(c) \/ ChooseAttach(c) \/ ChooseDefault(c)
       \/ DetachList(c) \/ DetachCard(c) \/ DetachNext(c) \/ Refuse(c)

Spec == Init /\ [][Next]_kvars

-----------------------------------------------------------------------------
\* "The last card is kept": with one removal of its own at a time, beside cards
\* being saved and chosen, a workspace that had a card to charge has one still,
\* unless another customer's call took one off; and between calls it is the one
\* named, unless a mishap came between (stripe_service.py:502 and 522).
SomethingToCharge ==
  began =>
    /\ mishap # "taken" => Saved # {}
    /\ mishap = "none" /\ (\A c \in Calls : At(c, "idle")) => charged \in Saved

\* What is kept with one removal at a time: inductive with TypeOK.
CardsInv ==
  /\ charged # NoCard => charged \in Saved
  /\ began /\ mishap # "taken" => Saved # {}
  /\ began /\ mishap = "none" /\ charged = NoCard => \E c \in Calls : Naming(c)
  /\ \A c, d \in Calls : asking[c].op = "detach" /\ asking[d].op = "detach" => c = d
  /\ \A c \in Calls :
       /\ ~At(c, "idle") => Card(c) \in CardIds
       /\ At(c, "idle") => asking[c].op = "save"
       /\ At(c, "de_list") \/ At(c, "de_detach") \/ At(c, "de_next") => asking[c].op = "detach"
       /\ At(c, "de_detach") =>
            /\ asking[c].seen \ {Card(c)} # {}
            /\ mishap # "taken" => asking[c].seen \subseteq Saved
=============================================================================
