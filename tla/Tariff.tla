-------------------------------- MODULE Tariff --------------------------------
(***************************************************************************)
(* The prices of the platform's plans, as administrators set them over the *)
(* built-in ones: two documents of platform_settings, the older one of     *)
(* prices alone and the one of whole plans laid over it.                   *)
(*                                                                         *)
(* Source: app/modules/subscriptions/plans.py and the two editors of       *)
(* app/modules/admin/billing.py.  Names, seats and features follow the     *)
(* path of a price and are left out, and so are the prices made at the     *)
(* payment provider afterwards, which Prices models.                       *)
(***************************************************************************)
CONSTANTS
  Plans, Cycles,
  Amounts, BuiltIn, \* amounts, and the one every plan has to begin with
  Unset, Keep,      \* no amount in a document, and a field a request does not name
  Calls             \* the editors at work at once

\* What the constants satisfy: assumed wherever the module is instantiated.
TariffAssumption ==
  BuiltIn \in Amounts /\ Unset \notin Amounts /\ Keep \notin Amounts \cup {Unset} /\ Plans # {}

VARIABLES
  older,   \* plan_price_overrides: an amount or nothing, by plan and cycle
  newer,   \* plan_overrides, the same
  setting  \* the editors in flight

tvars == <<older, newer, setting>>

Document == [Plans -> [Cycles -> Amounts \cup {Unset}]]
Empty == [p \in Plans |-> [y \in Cycles |-> Unset]]
Change == [Cycles -> Amounts \cup {Unset, Keep}]
Unnamed == [y \in Cycles |-> Keep]
Pc == {"idle", "pr_older", "pr_read", "save"}
CallType == [pc: Pc, plan: Plans, change: Change,
             named: [Cycles -> BOOLEAN], read: Document]
Idle == [pc |-> "idle", plan |-> CHOOSE p \in Plans : TRUE, change |-> Unnamed,
         named |-> [y \in Cycles |-> FALSE], read |-> Empty]

TypeOK == older \in Document /\ newer \in Document /\ setting \in [Calls -> CallType]

\* An installation may have prices in the older document already.
Init ==
  /\ older \in {Empty} \cup {[Empty EXCEPT ![p][y] = n] : p \in Plans, y \in Cycles, n \in Amounts}
  /\ newer = Empty
  /\ setting = [c \in Calls |-> Idle]

At(c, pc) == setting[c].pc = pc
Start(c, call) ==
  /\ At(c, "idle")
  /\ setting' = [setting EXCEPT ![c] = [call EXCEPT !.named = [y \in Cycles |-> call.change[y] # Keep]]]

\* What a request names, over what was there; null takes the amount away.
Over(change, row) == [y \in Cycles |-> IF change[y] = Keep THEN row[y] ELSE change[y]]

\* plan_overrides: the newer document, and the older one where it says nothing.
Overrides ==
  [p \in Plans |-> [y \in Cycles |-> IF newer[p][y] # Unset THEN newer[p][y] ELSE older[p][y]]]

\* plan_catalogue and price_for.
Price(p, y) == IF Overrides[p][y] # Unset THEN Overrides[p][y] ELSE BuiltIn

-----------------------------------------------------------------------------
\* update_subscription_plan reads what is laid over the plans and saves it all.
EditStart(c, p, change) ==
  /\ change # Unnamed
  /\ Start(c, [Idle EXCEPT !.pc = "save", !.plan = p, !.change = change, !.read = Overrides])
  /\ UNCHANGED <<older, newer>>

\* Mutant: only the plan that was edited is saved.
SavedAlone(c) == [Empty EXCEPT ![setting[c].plan] = Over(setting[c].change, setting[c].read[setting[c].plan])]

Saved(c) ==
  LET p == setting[c].plan
  IN [setting[c].read EXCEPT ![p] = Over(setting[c].change, @)]

Save(c) ==
  /\ At(c, "save")
  /\ newer' = Saved(c)
  /\ setting' = [setting EXCEPT ![c] = Idle]
  /\ UNCHANGED older

\* update_plan_price writes the older document first, then reads both and puts
\* the plan's whole row of the older one over the newer one.
PriceStart(c, p, change) ==
  /\ change # Unnamed /\ \A y \in Cycles : change[y] # Unset
  /\ Start(c, [Idle EXCEPT !.pc = "pr_older", !.plan = p, !.change = change, !.read = older])
  /\ UNCHANGED <<older, newer>>

PriceOlder(c) ==
  /\ At(c, "pr_older")
  /\ older' = Saved(c)
  /\ setting' = [setting EXCEPT ![c].pc = "pr_read",
       ![c].change = [y \in Cycles |->
          IF Saved(c)[setting[c].plan][y] = Unset THEN Keep ELSE Saved(c)[setting[c].plan][y]]]
  /\ UNCHANGED newer

PriceRead(c) ==
  /\ At(c, "pr_read")
  /\ setting' = [setting EXCEPT ![c].pc = "save", ![c].read = Overrides]
  /\ UNCHANGED <<older, newer>>

-----------------------------------------------------------------------------
Next == \E c \in Calls :
  \/ \E p \in Plans, change \in Change : EditStart(c, p, change) \/ PriceStart(c, p, change)
  \/ Save(c) \/ PriceOlder(c) \/ PriceRead(c)

Spec == Init /\ [][Next]_tvars

-----------------------------------------------------------------------------
\* With one editor at work at a time, a price moves only under an edit of its
\* own plan, and an amount the request named is the price once it is saved
\* (billing.py:235: the two documents are written one after the other).
KeepsTariff ==
  \A p \in Plans, y \in Cycles :
    /\ Price(p, y)' # Price(p, y) =>
         \E c \in Calls : setting[c].plan = p /\ setting[c].pc \in {"pr_older", "save"}
    /\ \A c \in Calls, n \in Amounts :
         At(c, "save") /\ At(c, "idle")' /\ setting[c].plan = p /\ setting[c].change[y] = n
           => Price(p, y)' = n
TariffKept == [][KeepsTariff]_tvars

\* A price moves only when a request names it: naming one of the two cycles is
\* enough (billing.py:41, "at least one of monthly_price or annual_price").
\* No run checks it, and TLC refutes it with one editor: the price endpoint
\* lays all it holds of the plan in the older document, an amount of the other
\* cycle included, over the newer one (billing.py:242).
OnlyNamed ==
  [][\A p \in Plans, y \in Cycles : Price(p, y)' # Price(p, y) =>
       \E c \in Calls : setting[c].plan = p /\ setting[c].named[y]]_tvars

\* What one editor read is what there still is: inductive with TypeOK.
TariffInv ==
  \A c \in Calls : /\ At(c, "save") => setting[c].read = Overrides
                   /\ At(c, "pr_older") => setting[c].read = older
=============================================================================
