--------------------------- MODULE WorkspaceProofs ---------------------------
(***************************************************************************)
(* Theorems about Workspace, for any number of plans, events, rows and     *)
(* calls in flight, with events in any order, handlers that raise and      *)
(* workers that die.  The last two are about one call at a time.           *)
(***************************************************************************)
EXTENDS Workspace, FiniteSetTheorems, TLAPS

-----------------------------------------------------------------------------
\* What a step does to the calls.
LEMMA IdleType == Idle \in CallType
  BY PlanAssumption DEF Idle, CallType, CallFields, Pc, HookPc, Plans, TenantStatus

LEMMA GotoFields ==
  ASSUME TypeOK, NEW c \in Calls, NEW pc \in Pc, Goto(c, pc),
         pc \in HookPc => calls[c].pc \in HookPc
  PROVE  /\ calls' \in [Calls -> CallType]
         /\ calls'[c].pc = pc /\ calls'[c].event = calls[c].event /\ calls'[c].next = calls[c].next
         /\ \A o \in Calls \ {c} : calls'[o] = calls[o]
<1> DEFINE rec == [calls[c] EXCEPT !.pc = pc]
<1>1. calls[c] \in CallFields /\ calls[c].pc \in HookPc => calls[c].event \in EventType
  BY DEF TypeOK, CallType
<1>2. /\ rec \in CallType
      /\ rec.pc = pc /\ rec.event = calls[c].event /\ rec.next = calls[c].next
  BY <1>1 DEF CallType, CallFields, TypeOK
<1>3. calls' = [calls EXCEPT ![c] = rec]
  BY DEF Goto
<1> HIDE DEF rec
<1> QED BY <1>2, <1>3 DEF TypeOK

LEMMA EndFields ==
  ASSUME TypeOK, NEW c \in Calls, End(c)
  PROVE  /\ calls' \in [Calls -> CallType]
         /\ calls'[c].pc = "idle" /\ calls'[c].event = NoEvent
         /\ \A o \in Calls \ {c} : calls'[o] = calls[o]
<1>1. Idle.pc = "idle" /\ Idle.event = NoEvent
  BY DEF Idle
<1> QED BY <1>1, IdleType DEF TypeOK, End

LEMMA StartType ==
  ASSUME NEW pc \in Pc \ HookPc, NEW p \in Plans
  PROVE  LET rec == [Idle EXCEPT !.pc = pc, !.plan = p]
         IN  rec \in CallType /\ rec.pc = pc /\ rec.event = NoEvent
<1> DEFINE rec == [Idle EXCEPT !.pc = pc, !.plan = p]
<1>1. rec.pc = pc /\ rec.event = NoEvent
  BY DEF Idle
<1>2. rec \in CallFields
  BY IdleType DEF CallType, CallFields
<1> HIDE DEF rec
<1>3. rec \in CallType /\ rec.pc = pc /\ rec.event = NoEvent
  BY <1>1, <1>2 DEF CallType
<1> QED BY <1>3 DEF rec

LEMMA StartFields ==
  ASSUME TypeOK, NEW c \in Calls, NEW op, NEW rec \in CallType, Start(c, op, rec)
  PROVE  /\ calls' \in [Calls -> CallType]
         /\ calls'[c] = rec /\ \A o \in Calls \ {c} : calls'[o] = calls[o]
  BY DEF Start, TypeOK

LEMMA DeliverFields ==
  ASSUME TypeOK, NEW c \in Calls, NEW e \in events, Deliver(c, e)
  PROVE  /\ calls' \in [Calls -> CallType]
         /\ calls'[c].pc \in {"wh_plan", "wh_subs", "wh_status"} /\ calls'[c].event = e
         /\ \A o \in Calls \ {c} : calls'[o] = calls[o]
<1> DEFINE pc == CASE e.kind = "updated" /\ e.plan # tenant.plan -> "wh_plan"
                   [] e.kind = "deleted" -> "wh_subs"
                   [] OTHER -> "wh_status"
           rec(q) == [Idle EXCEPT !.event = e, !.seen = tenant.status, !.pc = q]
<1>1. pc \in {"wh_plan", "wh_subs", "wh_status"}
  OBVIOUS
<1>2. calls' = [calls EXCEPT ![c] = rec(pc)]
  BY DEF Deliver
<1> HIDE DEF pc
<1>3. rec(pc).pc = pc /\ rec(pc).event = e
  BY DEF Idle
<1>4. rec(pc) \in CallFields
  BY <1>1, IdleType DEF CallType, CallFields, Pc, HookPc, TypeOK
<1>5. rec(pc) \in CallType
  BY <1>3, <1>4 DEF CallType, TypeOK
<1> HIDE DEF rec
<1> QED BY <1>1, <1>2, <1>3, <1>5 DEF TypeOK

LEMMA SetStatusFields ==
  ASSUME TypeOK, NEW c \in Calls, SetStatus(c)
  PROVE  /\ calls' \in [Calls -> CallType]
         /\ \A o \in Calls \ {c} : calls'[o] = calls[o]
         /\ \/ calls'[c].pc = "idle" /\ calls'[c].event = NoEvent
            \/ /\ calls'[c].pc = "wh_write" /\ calls'[c].event = calls[c].event
               /\ calls'[c].next = Verdict(calls[c].event).to
<1> DEFINE to == Verdict(calls[c].event).to
           rec == [calls[c] EXCEPT !.pc = "wh_write", !.next = to]
<1>1. to \in TenantStatus
  BY DEF Verdict, TenantStatus
<1>2. calls[c] \in CallFields /\ calls[c].event \in EventType
  BY DEF TypeOK, CallType, SetStatus, At, HookPc
<1>3. End(c) \/ calls' = [calls EXCEPT ![c] = rec]
  BY DEF SetStatus
<1> HIDE DEF to
<1>4. rec \in CallType /\ rec.pc = "wh_write" /\ rec.event = calls[c].event /\ rec.next = to
  BY <1>1, <1>2 DEF CallType, CallFields, Pc, HookPc
<1> HIDE DEF rec
<1> QED BY <1>3, <1>4, EndFields DEF TypeOK, to

\* What Stripe's step does to the subscription and to the events.
SubType == [state: SubState, plan: Plans, meta: Plans]

LEMMA WithType ==
  ASSUME TypeOK, NEW s \in SubState, NEW p \in Plans
  PROVE  /\ With(s) \in SubType /\ With(s).state = s
         /\ With(s).plan = sub.plan /\ With(s).meta = sub.meta
         /\ sub \in SubType
         /\ [sub EXCEPT !.plan = p] \in SubType
         /\ [sub EXCEPT !.plan = p].state = sub.state /\ [sub EXCEPT !.plan = p].meta = sub.meta
         /\ [sub EXCEPT !.plan = p, !.meta = p] \in SubType
         /\ [sub EXCEPT !.plan = p, !.meta = p].state = sub.state
  BY DEF TypeOK, With, SubType

LEMMA SendFields ==
  ASSUME TypeOK, NEW kinds \in SUBSET EventKind, IsFiniteSet(kinds),
         NEW s \in SubType, Send(kinds, s)
  PROVE  /\ emitted' \in 0..MaxEvents
         /\ sub' = s /\ sub' \in SubType /\ presumed' = presumed
         /\ events' \subseteq EventType
         /\ \A e \in events' : e \in events \/ e.kind \in kinds
<1>1. Cardinality(kinds) \in Nat
  BY FS_CardinalityType
<1>2. emitted' \in 0..MaxEvents
  BY <1>1, PlanAssumption DEF Send, TypeOK
<1>3. PICK f \in [kinds -> emitted + 1 .. emitted'] :
        events' = events \cup
          {[n |-> f[k], kind |-> k, state |-> s.state, plan |-> s.meta] : k \in kinds}
  BY DEF Send, PlanOf
<1>4. \A k \in kinds : f[k] \in 1..MaxEvents
  <2>1. emitted \in 0..MaxEvents /\ MaxEvents \in Nat
    BY PlanAssumption DEF TypeOK
  <2>2. \A i \in emitted + 1 .. emitted' : i \in 1..MaxEvents
    BY <1>2, <2>1
  <2> QED BY <1>3, <2>2
<1>5. \A k \in kinds : [n |-> f[k], kind |-> k, state |-> s.state, plan |-> s.meta] \in EventType
  BY <1>4 DEF EventType, SubType
<1>6. events' \subseteq EventType
  BY <1>3, <1>5 DEF TypeOK
<1>7. \A e \in events' : e \in events \/ e.kind \in kinds
  BY <1>3
<1> QED BY <1>2, <1>6, <1>7 DEF Send

\* Every way Stripe moves by, in a step of its own or in a call's: a cancelled
\* subscription stays so, and is so when a "deleted" event leaves.
StripeMoves ==
  /\ emitted' \in 0..MaxEvents
  /\ sub' \in SubType
  /\ presumed' \in BOOLEAN /\ (presumed => presumed')
  /\ events' \subseteq EventType
  /\ sub.state = "canceled" => sub'.state = "canceled"
  /\ \A e \in events' : e \in events \/ (e.kind = "deleted" => sub'.state = "canceled")

LEMMA KindsFinite ==
  /\ IsFiniteSet({"updated"}) /\ IsFiniteSet({"invoice_paid"}) /\ IsFiniteSet({"deleted"})
  /\ IsFiniteSet({"invoice_failed", "updated"}) /\ IsFiniteSet({"invoice_paid", "updated"})
<1>1. IsFiniteSet({"updated"}) /\ IsFiniteSet({"invoice_paid"}) /\ IsFiniteSet({"deleted"})
  BY FS_Singleton
<1>2. ASSUME NEW k, NEW l PROVE IsFiniteSet({k, l})
  <2>1. IsFiniteSet({k}) /\ IsFiniteSet({l})
    BY FS_Singleton
  <2>2. IsFiniteSet({k} \cup {l})
    BY <2>1, FS_Union
  <2>3. {k} \cup {l} = {k, l}
    OBVIOUS
  <2> QED BY <2>2, <2>3
<1> QED BY <1>1, <1>2

LEMMA StripeStays == TypeOK /\ UNCHANGED stripeVars => StripeMoves
  BY DEF TypeOK, stripeVars, StripeMoves, SubType

LEMMA MovesMoves == ASSUME TypeOK, NEW p \in Plans, Moves(p) PROVE StripeMoves
<1> DEFINE s == [sub EXCEPT !.plan = p, !.meta = p]
<1>1. s \in SubType /\ s.state = sub.state /\ {"updated"} \in SUBSET EventKind
  BY WithType DEF TypeOK, EventKind, SubType
<1>2. Send({"updated"}, s)
  BY DEF Moves
<1> HIDE DEF s
<1> QED BY <1>1, <1>2, SendFields, KindsFinite DEF StripeMoves, Moves, TypeOK

LEMMA DeletesMoves ==
  ASSUME TypeOK, Send({"deleted"}, With("canceled"))
  PROVE  StripeMoves /\ sub'.state = "canceled"
<1>1. {"deleted"} \in SUBSET EventKind /\ "canceled" \in SubState /\ 1 \in Plans
  BY PlanAssumption DEF EventKind, SubState, Plans
<1>2. With("canceled") \in SubType /\ With("canceled").state = "canceled"
  BY <1>1, WithType
<1> QED BY <1>1, <1>2, SendFields, KindsFinite DEF StripeMoves, TypeOK

LEMMA StripeStepMoves == ASSUME TypeOK, StripeStep PROVE StripeMoves
<1>1. /\ presumed \in BOOLEAN /\ sub \in SubType
      /\ With("active") \in SubType /\ With("past_due") \in SubType
      /\ \A p \in Plans : /\ [sub EXCEPT !.plan = p] \in SubType
                         /\ [sub EXCEPT !.plan = p].state = sub.state
  BY WithType DEF TypeOK, SubState, SubType
<1>2. /\ {"invoice_failed", "updated"} \in SUBSET EventKind
      /\ {"invoice_paid", "updated"} \in SUBSET EventKind
      /\ {"invoice_paid"} \in SUBSET EventKind /\ {"updated"} \in SUBSET EventKind
  BY DEF EventKind
<1>3. CASE CardFails
  BY <1>1, <1>2, <1>3, SendFields, KindsFinite DEF CardFails, StripeMoves
<1>4. CASE CardClears
  BY <1>1, <1>2, <1>4, SendFields, KindsFinite DEF CardClears, StripeMoves
<1>5. CASE Renew
  BY <1>1, <1>2, <1>5, SendFields, KindsFinite DEF Renew, StripeMoves
<1>6. CASE GivesUp
  BY <1>6, DeletesMoves DEF GivesUp
<1>7. ASSUME NEW p \in Plans, Dashboard(p) PROVE StripeMoves
  <2> DEFINE s == [sub EXCEPT !.plan = p]
  <2>1. s \in SubType /\ s.state = sub.state /\ Send({"updated"}, s)
    BY <1>1, <1>7 DEF Dashboard
  <2> HIDE DEF s
  <2> QED BY <1>1, <1>2, <1>7, <2>1, SendFields, KindsFinite DEF Dashboard, StripeMoves
<1> QED BY <1>3, <1>4, <1>5, <1>6, <1>7 DEF StripeStep
-----------------------------------------------------------------------------
\* What a step does to the tenant and to the rows.
RecordsMove ==
  /\ tenant' \in [status: TenantStatus, plan: Plans]
  /\ subs' \in [Rows -> [state: RowStates, plan: Plans]]

LEMMA RecordsStay == TypeOK /\ UNCHANGED <<tenant, subs>> => RecordsMove
  BY DEF TypeOK, RecordsMove

LEMMA PlanMoves ==
  ASSUME TypeOK, NEW p \in Plans, tenant' = [tenant EXCEPT !.plan = p], UNCHANGED subs
  PROVE  RecordsMove /\ tenant'.status = tenant.status
  BY DEF TypeOK, RecordsMove

LEMMA StatusMoves ==
  ASSUME TypeOK, NEW s \in TenantStatus, tenant' = [tenant EXCEPT !.status = s], UNCHANGED subs
  PROVE  RecordsMove /\ tenant'.status = s
  BY DEF TypeOK, RecordsMove

LEMMA PlansMove ==
  ASSUME TypeOK, NEW rs, NEW p \in Plans, SetPlans(rs, p), UNCHANGED tenant
  PROVE  RecordsMove
<1>1. \A r \in Rows : [subs[r] EXCEPT !.plan = p] \in [state: RowStates, plan: Plans]
  BY DEF TypeOK
<1> QED BY <1>1 DEF SetPlans, TypeOK, RecordsMove

LEMMA StatesMove ==
  ASSUME TypeOK, NEW rs, NEW s \in RowStates, SetStates(rs, s), UNCHANGED tenant
  PROVE  RecordsMove
<1>1. \A r \in Rows : [subs[r] EXCEPT !.state = s] \in [state: RowStates, plan: Plans]
  BY DEF TypeOK
<1> QED BY <1>1 DEF SetStates, TypeOK, RecordsMove

LEMMA CallPlan == ASSUME TypeOK, NEW c \in Calls PROVE calls[c].plan \in Plans
  BY DEF TypeOK, CallType, CallFields

-----------------------------------------------------------------------------
\* CancelInv, call by call.
CallCancel(c) ==
  /\ calls[c].event # NoEvent /\ calls[c].event.kind = "deleted" => sub.state = "canceled"
  /\ calls[c].pc = "ca_tenant" => sub.state = "canceled" \/ presumed
  /\ calls[c].pc = "wh_write" /\ calls[c].next = "cancelled" => sub.state = "canceled"

EventsCancel == \A e \in events : e.kind = "deleted" => sub.state = "canceled"

LEMMA CancelByCall ==
  CancelInv <=> CancelledNotBilled /\ EventsCancel /\ \A c \in Calls : CallCancel(c)
  BY DEF CancelInv, CallCancel, EventsCancel, At

\* An order is kept by a step that leaves what Stripe cancelled cancelled, when
\* the call that moves and the tenant keep it.
LEMMA CancelStay ==
  ASSUME CancelInv, StripeMoves
  PROVE  /\ \A o \in Calls : calls'[o] = calls[o] => CallCancel(o)'
         /\ EventsCancel'
         /\ tenant'.status = tenant.status => CancelledNotBilled'
         /\ tenant'.status # "cancelled" => CancelledNotBilled'
  BY CancelByCall DEF CallCancel, EventsCancel, CancelledNotBilled, StripeMoves

LEMMA CancelCall ==
  ASSUME CancelInv, StripeMoves, NEW c \in Calls, \A o \in Calls \ {c} : calls'[o] = calls[o],
         CallCancel(c)', tenant'.status = tenant.status \/ tenant'.status # "cancelled"
  PROVE  CancelInv'
<1>1. \A o \in Calls : CallCancel(o)'
  BY CancelStay
<1>2. EventsCancel' /\ CancelledNotBilled'
  BY CancelStay
<1> QED BY <1>1, <1>2 DEF CancelInv, CallCancel, EventsCancel, At

\* A call that ends, or goes on with the event it has, keeps CancelInv.
LEMMA CancelEnd ==
  ASSUME TypeOK, CancelInv, StripeMoves, NEW c \in Calls, End(c),
         tenant'.status = tenant.status \/ tenant'.status # "cancelled"
  PROVE  CancelInv'
<1>1. CallCancel(c)'
  BY EndFields DEF CallCancel
<1> QED BY <1>1, EndFields, CancelCall

LEMMA CancelGoto ==
  ASSUME TypeOK, CancelInv, StripeMoves, NEW c \in Calls, NEW pc \in Pc \ {"wh_write"}, Goto(c, pc),
         pc \in HookPc => calls[c].pc \in HookPc,
         pc = "ca_tenant" => sub'.state = "canceled" \/ presumed',
         tenant'.status = tenant.status \/ tenant'.status # "cancelled"
  PROVE  CancelInv'
<1>1. /\ calls'[c].pc = pc /\ calls'[c].event = calls[c].event
      /\ \A o \in Calls \ {c} : calls'[o] = calls[o]
  BY GotoFields
<1>2. CallCancel(c)'
  BY <1>1, CancelByCall DEF CallCancel, StripeMoves
<1> QED BY <1>1, <1>2, CancelCall
-----------------------------------------------------------------------------
\* The inductive step, one action at a time: the types, and CancelInv where no
\* administrator writes "cancelled".
NoClose == "close" \notin Ops

Keeps == TypeOK' /\ (NoClose /\ CancelInv => CancelInv')

LEMMA TypeMoves ==
  ASSUME StripeMoves, RecordsMove, calls' \in [Calls -> CallType]
  PROVE  TypeOK'
  BY DEF TypeOK, StripeMoves, RecordsMove, SubType

LEMMA KeepsEnd ==
  ASSUME TypeOK, StripeMoves, RecordsMove, NEW c \in Calls, End(c),
         tenant'.status = tenant.status \/ tenant'.status # "cancelled"
  PROVE  Keeps
  BY CancelEnd, EndFields, TypeMoves DEF Keeps

LEMMA KeepsGoto ==
  ASSUME TypeOK, StripeMoves, RecordsMove, NEW c \in Calls, NEW pc \in Pc \ {"wh_write"},
         Goto(c, pc), pc \in HookPc => calls[c].pc \in HookPc,
         pc = "ca_tenant" => sub'.state = "canceled" \/ presumed',
         tenant'.status = tenant.status \/ tenant'.status # "cancelled"
  PROVE  Keeps
  BY CancelGoto, GotoFields, TypeMoves DEF Keeps

LEMMA KeepsStart ==
  ASSUME TypeOK, UNCHANGED <<tenant, subs, stripeVars>>, NEW c \in Calls, NEW op,
         NEW rec \in CallType, rec.event = NoEvent, rec.pc \notin {"ca_tenant", "wh_write"},
         Start(c, op, rec)
  PROVE  Keeps
<1>1. StripeMoves /\ RecordsMove
  BY StripeStays, RecordsStay
<1>2. /\ calls' \in [Calls -> CallType]
      /\ calls'[c] = rec /\ \A o \in Calls \ {c} : calls'[o] = calls[o]
  BY StartFields
<1>3. CallCancel(c)'
  BY <1>2 DEF CallCancel
<1> QED BY <1>1, <1>2, <1>3, CancelCall, TypeMoves DEF Keeps

\* The deliveries.
LEMMA HookKeeps ==
  ASSUME TypeOK, NEW c \in Calls, HookStep(c)
  PROVE  Keeps
<1> USE DEF stripeVars
<1>1. ASSUME NEW e \in events, Deliver(c, e) PROVE Keeps
  <2>1. StripeMoves /\ RecordsMove
    BY <1>1, RecordsStay DEF Deliver, TypeOK, StripeMoves, SubType
  <2>2. /\ calls' \in [Calls -> CallType]
        /\ calls'[c].pc \in {"wh_plan", "wh_subs", "wh_status"} /\ calls'[c].event = e
        /\ \A o \in Calls \ {c} : calls'[o] = calls[o]
    BY <1>1, DeliverFields
  <2>3. ASSUME CancelInv PROVE CancelInv'
    <3>1. CallCancel(c)'
      BY <1>1, <2>2, <2>3, CancelByCall DEF CallCancel, EventsCancel, Deliver
    <3> QED BY <1>1, <2>1, <2>2, <2>3, <3>1, CancelCall DEF Deliver
  <2> QED BY <2>1, <2>2, <2>3, TypeMoves DEF Keeps
<1>2. CASE SyncPlanTenant(c)
  <2>1. calls[c].event.plan \in Plans /\ calls[c].pc \in HookPc
    BY <1>2 DEF SyncPlanTenant, At, HookPc, TypeOK, CallType, EventType
  <2>2. StripeMoves /\ RecordsMove /\ tenant'.status = tenant.status
    BY <1>2, <2>1, StripeStays, PlanMoves DEF SyncPlanTenant
  <2> QED BY <1>2, <2>1, <2>2, KeepsGoto DEF SyncPlanTenant, Pc, HookPc
<1>3. CASE SyncPlanRows(c)
  <2>1. calls[c].event.plan \in Plans /\ calls[c].pc \in HookPc
    BY <1>3 DEF SyncPlanRows, At, HookPc, TypeOK, CallType, EventType
  <2>2. StripeMoves /\ RecordsMove
    BY <1>3, <2>1, StripeStays, PlansMove DEF SyncPlanRows
  <2> QED BY <1>3, <2>1, <2>2, KeepsGoto DEF SyncPlanRows, Pc, HookPc
<1>4. CASE DeletedRows(c)
  <2>1. calls[c].pc \in HookPc /\ "cancelled" \in RowStates
    BY <1>4 DEF DeletedRows, At, HookPc, RowStates
  <2>2. StripeMoves /\ RecordsMove
    BY <1>4, <2>1, StripeStays, StatesMove DEF DeletedRows
  <2> QED BY <1>4, <2>1, <2>2, KeepsGoto DEF DeletedRows, Pc, HookPc
<1>5. CASE SetStatus(c)
  <2>1. StripeMoves /\ RecordsMove /\ tenant' = tenant
    BY <1>5, StripeStays, RecordsStay DEF SetStatus
  <2>2. ASSUME CancelInv PROVE CallCancel(c)'
    <3>1. calls[c].event \in EventType
      BY <1>5 DEF SetStatus, At, HookPc, TypeOK, CallType
    <3>2. Verdict(calls[c].event).to = "cancelled" => calls[c].event.kind = "deleted"
      BY DEF Verdict
    <3>3. calls[c].event.kind = "deleted" => sub'.state = "canceled"
      BY <2>1, <2>2, <3>1, PlaceholderAssumption, CancelByCall DEF CallCancel, StripeMoves
    <3>4. CASE calls'[c].pc = "idle" /\ calls'[c].event = NoEvent
      BY <3>4 DEF CallCancel
    <3>5. CASE /\ calls'[c].pc = "wh_write" /\ calls'[c].event = calls[c].event
               /\ calls'[c].next = Verdict(calls[c].event).to
      BY <3>2, <3>3, <3>5 DEF CallCancel
    <3> QED BY <1>5, <3>4, <3>5, SetStatusFields
  <2> QED BY <1>5, <2>1, <2>2, SetStatusFields, CancelCall, TypeMoves DEF Keeps
<1>6. CASE SetStatusWrite(c)
  <2>1. calls[c].next \in TenantStatus
    BY DEF TypeOK, CallType, CallFields
  <2>2. StripeMoves /\ RecordsMove /\ tenant'.status = calls[c].next
    BY <1>6, <2>1, StripeStays, StatusMoves DEF SetStatusWrite
  <2>3. TypeOK'
    BY <1>6, <2>2, EndFields, TypeMoves DEF SetStatusWrite
  <2>4. ASSUME CancelInv PROVE CancelInv'
    <3>1. CASE calls[c].next # "cancelled"
      BY <1>6, <2>2, <2>4, <3>1, CancelEnd DEF SetStatusWrite
    <3>2. CASE calls[c].next = "cancelled"
      <4>1. sub.state = "canceled" /\ sub' = sub /\ events' = events
        BY <1>6, <2>4, <3>2, CancelByCall DEF SetStatusWrite, At, CallCancel
      <4> QED BY <4>1 DEF CancelInv, CancelledNotBilled
    <3> QED BY <3>1, <3>2
  <2> QED BY <2>3, <2>4 DEF Keeps
<1>7. CASE Raise(c)
  <2>1. calls[c].event \in EventType
    BY <1>7 DEF Raise, TypeOK, CallType
  <2>2. RecordsMove /\ tenant' = tenant
    BY <1>7, RecordsStay DEF Raise
  <2>3. TypeOK'
    BY <1>7, <2>1, EndFields DEF Raise, TypeOK
  <2>4. ASSUME CancelInv PROVE CancelInv'
    <3>1. calls[c].event.kind = "deleted" => sub.state = "canceled"
      BY <2>1, <2>4, PlaceholderAssumption, CancelByCall DEF CallCancel
    <3>2. StripeMoves
      BY <1>7, <2>3, <3>1 DEF Raise, TypeOK, StripeMoves, SubType
    <3> QED BY <1>7, <2>2, <2>4, <3>2, CancelEnd DEF Raise
  <2> QED BY <2>3, <2>4 DEF Keeps
<1> QED BY <1>1, <1>2, <1>3, <1>4, <1>5, <1>6, <1>7 DEF HookStep
\* The owner's calls.
LEMMA OwnerKeeps ==
  ASSUME TypeOK, NEW c \in Calls, OwnerStep(c)
  PROVE  Keeps
<1>0. calls[c].plan \in Plans
  BY CallPlan
<1>1. ASSUME NEW p \in Plans, ChangeStart(c, p) PROVE Keeps
  <2> DEFINE rec == [Idle EXCEPT !.pc = "cp_live", !.plan = p]
  <2>1. "cp_live" \in Pc \ HookPc
    BY DEF Pc, ChangePc, HookPc
  <2>2. rec \in CallType /\ rec.pc = "cp_live" /\ rec.event = NoEvent
    BY <2>1, StartType
  <2>3. Start(c, "change", rec) /\ UNCHANGED <<tenant, subs, stripeVars>>
    BY <1>1 DEF ChangeStart
  <2> HIDE DEF rec
  <2> QED BY <2>2, <2>3, KeepsStart
<1>2. CASE ChangeLive(c)
  <2>1. StripeMoves /\ RecordsMove /\ tenant' = tenant
    BY <1>2, StripeStays, RecordsStay DEF ChangeLive
  <2>2. "cp_bill" \in Pc \ {"wh_write"} /\ "cp_bill" \notin HookPc
    BY DEF Pc, ChangePc, HookPc
  <2> QED BY <1>2, <2>1, <2>2, KeepsGoto, KeepsEnd DEF ChangeLive
<1>3. CASE ChangeBill(c)
  <2>1. StripeMoves /\ RecordsMove /\ tenant' = tenant
    BY <1>0, <1>3, StripeStays, MovesMoves, RecordsStay DEF ChangeBill
  <2>2. "cp_tenant" \in Pc \ {"wh_write"} /\ "cp_tenant" \notin HookPc
    BY DEF Pc, ChangePc, HookPc
  <2> QED BY <1>3, <2>1, <2>2, KeepsGoto DEF ChangeBill
<1>4. CASE ChangeRefused(c)
  <2>1. StripeMoves /\ RecordsMove /\ tenant' = tenant
    BY <1>0, <1>4, StripeStays, MovesMoves, RecordsStay DEF ChangeRefused
  <2> QED BY <1>4, <2>1, KeepsEnd DEF ChangeRefused
<1>5. CASE ChangeTenant(c)
  <2>1. StripeMoves /\ tenant'.status = "active" /\ RecordsMove
    BY <1>0, <1>5, StripeStays DEF ChangeTenant, TypeOK, RecordsMove, TenantStatus
  <2>2. "cp_supersede" \in Pc \ {"wh_write"} /\ "cp_supersede" \notin HookPc
    BY DEF Pc, ChangePc, HookPc
  <2> QED BY <1>5, <2>1, <2>2, KeepsGoto DEF ChangeTenant
<1>6. CASE ChangeSupersede(c)
  <2>1. StripeMoves /\ RecordsMove /\ tenant' = tenant
    BY <1>6, StripeStays, StatesMove DEF ChangeSupersede, RowStates
  <2>2. "cp_insert" \in Pc \ {"wh_write"} /\ "cp_insert" \notin HookPc
    BY DEF Pc, ChangePc, HookPc
  <2> QED BY <1>6, <2>1, <2>2, KeepsGoto DEF ChangeSupersede
<1>7. CASE ChangeInsert(c)
  <2>0. [state |-> "active", plan |-> calls[c].plan] \in [state: RowStates, plan: Plans]
    BY <1>0 DEF RowStates
  <2>1. RecordsMove
    BY <1>7, <2>0 DEF ChangeInsert, TypeOK, RecordsMove
  <2>2. StripeMoves /\ tenant' = tenant
    BY <1>7, StripeStays DEF ChangeInsert
  <2> QED BY <1>7, <2>1, <2>2, KeepsEnd DEF ChangeInsert
<1>8. CASE CancelStart(c)
  <2> DEFINE rec == [Idle EXCEPT !.pc = "ca_stripe"]
  <2>1. "ca_stripe" \in Pc \ HookPc
    BY DEF Pc, CancelPc, HookPc
  <2>2. rec.pc = "ca_stripe" /\ rec.event = NoEvent
    BY DEF Idle
  <2>3. rec \in CallFields
    BY <2>1, IdleType DEF CallType, CallFields
  <2>4. Start(c, "cancel", rec) /\ UNCHANGED <<tenant, subs, stripeVars>>
    BY <1>8 DEF CancelStart
  <2> HIDE DEF rec
  <2>5. rec \in CallType
    BY <2>1, <2>2, <2>3 DEF CallType
  <2> QED BY <2>2, <2>4, <2>5, KeepsStart
<1>9. CASE CancelStripe(c)
  <2>1. StripeMoves /\ sub'.state = "canceled"
    BY <1>9, StripeStays, DeletesMoves DEF CancelStripe, stripeVars
  <2>2. RecordsMove /\ tenant' = tenant
    BY <1>9, RecordsStay DEF CancelStripe
  <2>3. "ca_tenant" \in Pc \ {"wh_write"} /\ "ca_tenant" \notin HookPc
    BY DEF Pc, CancelPc, HookPc
  <2> QED BY <1>9, <2>1, <2>2, <2>3, KeepsGoto DEF CancelStripe
<1>10. CASE CancelRefused(c)
  <2>1. StripeMoves /\ RecordsMove /\ tenant' = tenant
    BY <1>10, StripeStays, DeletesMoves, RecordsStay DEF CancelRefused
  <2> QED BY <1>10, <2>1, KeepsEnd DEF CancelRefused
<1>11. CASE CancelTenant(c)
  <2>1. "cancelled" \in TenantStatus
    BY DEF TenantStatus
  <2>2. StripeMoves /\ RecordsMove /\ tenant'.status = "cancelled"
    BY <1>11, <2>1, StripeStays, StatusMoves DEF CancelTenant
  <2>3. "ca_subs" \in Pc /\ "ca_subs" \notin HookPc
    BY DEF Pc, CancelPc, HookPc
  <2>4. /\ calls' \in [Calls -> CallType]
        /\ calls'[c].pc = "ca_subs" /\ calls'[c].event = calls[c].event
        /\ \A o \in Calls \ {c} : calls'[o] = calls[o]
    BY <1>11, <2>3, GotoFields DEF CancelTenant
  <2>5. ASSUME CancelInv PROVE CancelInv'
    <3>1. /\ sub.state = "canceled" \/ presumed
          /\ sub' = sub /\ events' = events /\ presumed' = presumed
      BY <1>11, <2>5 DEF CancelTenant, CancelInv, stripeVars
    <3>2. CancelledNotBilled' /\ EventsCancel'
      BY <2>5, <3>1 DEF CancelInv, CancelledNotBilled, EventsCancel
    <3>3. \A o \in Calls : CallCancel(o)'
      BY <2>4, <2>5, <3>1, CancelByCall DEF CallCancel
    <3> QED BY <3>2, <3>3 DEF CancelInv, CallCancel, EventsCancel, At
  <2> QED BY <2>2, <2>4, <2>5, TypeMoves DEF Keeps
<1>12. CASE CancelRows(c)
  <2>1. StripeMoves /\ RecordsMove /\ tenant' = tenant
    BY <1>12, StripeStays, StatesMove DEF CancelRows, RowStates
  <2> QED BY <1>12, <2>1, KeepsEnd DEF CancelRows
<1>13. CASE CancelUnseen(c)
  <2>1. StripeMoves /\ (sub'.state = "canceled" \/ presumed')
    BY <1>13 DEF CancelUnseen, StripeMoves, TypeOK, SubType
  <2>2. RecordsMove /\ tenant' = tenant
    BY <1>13, RecordsStay DEF CancelUnseen
  <2>3. "ca_tenant" \in Pc \ {"wh_write"} /\ "ca_tenant" \notin HookPc
    BY DEF Pc, CancelPc, HookPc
  <2> QED BY <1>13, <2>1, <2>2, <2>3, KeepsGoto DEF CancelUnseen
<1> QED
  BY <1>1, <1>2, <1>3, <1>4, <1>5, <1>6, <1>7, <1>8, <1>9, <1>10, <1>11, <1>12, <1>13 DEF OwnerStep

\* The administrators' calls.
LEMMA AdminKeeps ==
  ASSUME TypeOK, NEW c \in Calls, AdminStep(c)
  PROVE  Keeps
<1>0. calls[c].plan \in Plans
  BY CallPlan
<1>1. ASSUME NEW s \in TenantStatus, AdminStatus(c, s) PROVE Keeps
  <2>1. StripeMoves /\ RecordsMove /\ tenant'.status = s
    BY <1>1, StripeStays, StatusMoves DEF AdminStatus
  <2>2. calls' = calls
    BY <1>1 DEF AdminStatus
  <2>3. TypeOK'
    BY <2>1, <2>2, TypeMoves DEF TypeOK
  <2>4. ASSUME NoClose, CancelInv PROVE CancelInv'
    <3>1. s # "cancelled"
      BY <1>1, <2>4 DEF AdminStatus, NoClose
    <3>2. CallCancel(c)'
      BY <2>2, <2>4, <2>1, CancelStay
    <3> QED BY <2>1, <2>2, <2>4, <3>1, <3>2, CancelCall
  <2> QED BY <2>3, <2>4 DEF Keeps
<1>2. ASSUME NEW p \in Plans, NEW sync \in BOOLEAN, OverrideStart(c, p, sync) PROVE Keeps
  <2> DEFINE pc == IF sync THEN "ov_stripe" ELSE "ov_tenant"
             rec == [Idle EXCEPT !.pc = pc, !.plan = p]
  <2>1. pc \in Pc \ HookPc /\ pc \notin {"ca_tenant", "wh_write"}
    BY DEF Pc, OverridePc, HookPc
  <2>2. Start(c, "override", rec) /\ UNCHANGED <<tenant, subs, stripeVars>>
    BY <1>2 DEF OverrideStart
  <2> HIDE DEF pc
  <2>3. rec \in CallType /\ rec.pc = pc /\ rec.event = NoEvent
    BY <2>1, StartType
  <2> HIDE DEF rec
  <2> QED BY <2>1, <2>2, <2>3, KeepsStart
<1>3. CASE OverrideStripe(c)
  <2>1. StripeMoves /\ RecordsMove /\ tenant' = tenant
    BY <1>0, <1>3, StripeStays, MovesMoves, RecordsStay DEF OverrideStripe
  <2>2. "ov_tenant" \in Pc \ {"wh_write"} /\ "ov_tenant" \notin HookPc
    BY DEF Pc, OverridePc, HookPc
  <2> QED BY <1>3, <2>1, <2>2, KeepsGoto DEF OverrideStripe
<1>4. CASE OverrideRefused(c)
  <2>1. StripeMoves /\ RecordsMove /\ tenant' = tenant
    BY <1>0, <1>4, StripeStays, MovesMoves, RecordsStay DEF OverrideRefused
  <2> QED BY <1>4, <2>1, KeepsEnd DEF OverrideRefused
<1>5. CASE OverrideTenant(c)
  <2>1. StripeMoves /\ RecordsMove /\ tenant'.status = tenant.status
    BY <1>0, <1>5, StripeStays, PlanMoves DEF OverrideTenant
  <2>2. "ov_sub" \in Pc \ {"wh_write"} /\ "ov_sub" \notin HookPc
    BY DEF Pc, OverridePc, HookPc
  <2> QED BY <1>5, <2>1, <2>2, KeepsGoto DEF OverrideTenant
<1>6. CASE OverrideRow(c)
  <2>1. StripeMoves /\ RecordsMove /\ tenant' = tenant
    BY <1>0, <1>6, StripeStays, PlansMove, RecordsStay DEF OverrideRow
  <2> QED BY <1>6, <2>1, KeepsEnd DEF OverrideRow
<1> QED BY <1>1, <1>2, <1>3, <1>4, <1>5, <1>6 DEF AdminStep

LEMMA StepKeeps == ASSUME TypeOK, [Next]_vars PROVE Keeps
<1>1. CASE StripeStep
  <2>1. StripeMoves /\ RecordsMove /\ tenant' = tenant /\ calls' = calls
    BY <1>1, StripeStepMoves, RecordsStay DEF StripeStep
  <2>2. TypeOK'
    BY <2>1, TypeMoves DEF TypeOK
  <2>3. ASSUME CancelInv PROVE CancelInv'
    <3>1. (\A o \in Calls : CallCancel(o)') /\ EventsCancel' /\ CancelledNotBilled'
      BY <2>1, <2>3, CancelStay
    <3> QED BY <3>1 DEF CancelInv, CallCancel, EventsCancel, At
  <2> QED BY <2>2, <2>3 DEF Keeps
<1>2. ASSUME NEW c \in Calls, CallCut(c) PROVE Keeps
  <2>1. StripeMoves /\ RecordsMove /\ tenant' = tenant
    BY <1>2, StripeStays, RecordsStay DEF CallCut
  <2> QED BY <1>2, <2>1, KeepsEnd DEF CallCut
<1>3. CASE UNCHANGED vars
  BY <1>3 DEF vars, stripeVars, Keeps, TypeOK, CancelInv, CancelledNotBilled, At
<1> QED BY <1>1, <1>2, <1>3, HookKeeps, OwnerKeeps, AdminKeeps DEF Next

-----------------------------------------------------------------------------
LEMMA TypeInit == Init => TypeOK
<1> SUFFICES ASSUME Init PROVE TypeOK
  OBVIOUS
<1>1. 1 \in Plans
  BY PlanAssumption DEF Plans
<1>2. tenant \in [status: TenantStatus, plan: Plans]
  BY <1>1 DEF Init, TenantStatus
<1>3. subs \in [Rows -> [state: RowStates, plan: Plans]]
  <2>1. PICK r0 \in Rows :
          subs = [r \in Rows |-> [state |-> IF r = r0 THEN "active" ELSE "unborn", plan |-> 1]]
    BY DEF Init
  <2>2. \A r \in Rows : [state |-> IF r = r0 THEN "active" ELSE "unborn", plan |-> 1]
                         \in [state: RowStates, plan: Plans]
    BY <1>1 DEF RowStates
  <2> QED BY <2>1, <2>2
<1>4. sub \in [state: SubState, plan: Plans, meta: Plans]
  BY <1>1 DEF Init, SubState
<1>5. events \subseteq EventType /\ emitted \in 0..MaxEvents
  BY PlanAssumption DEF Init
<1>7. presumed \in BOOLEAN
  BY DEF Init
<1>6. calls \in [Calls -> CallType]
  BY IdleType DEF Init
<1> QED BY <1>2, <1>3, <1>4, <1>5, <1>6, <1>7 DEF TypeOK

\* Types: every variable keeps its type.
THEOREM TypeCorrect == Spec => []TypeOK
<1>1. TypeOK /\ [Next]_vars => TypeOK'
  BY StepKeeps DEF Keeps
<1> QED BY <1>1, TypeInit, PTL DEF Spec

\* cancel, _on_subscription_deleted: where no administrator writes the word, a
\* workspace that reads "cancelled" is charged no more, unless a subscription that
\* runs was taken for one that is gone, whatever events are late, repeated by a
\* handler that raised, or overtaken by the owner's own calls.
THEOREM CancelledIsNotBilled ==
  ASSUME NoClose
  PROVE  Spec => []CancelledNotBilled
<1>1. Init => CancelInv
  BY DEF Init, CancelInv, CancelledNotBilled, At, Idle
<1>2. TypeOK /\ CancelInv /\ [Next]_vars => CancelInv'
  BY StepKeeps DEF Keeps
<1>3. CancelInv => CancelledNotBilled
  BY DEF CancelInv
<1> QED BY <1>1, <1>2, <1>3, TypeCorrect, PTL DEF Spec
-----------------------------------------------------------------------------
\* One call at a time: the rows and the status.

LEMMA GotoRest ==
  ASSUME TypeOK, NEW c \in Calls, NEW pc, Goto(c, pc)
  PROVE  /\ calls'[c].pc = pc /\ calls'[c].event = calls[c].event
         /\ calls'[c].plan = calls[c].plan /\ calls'[c].seen = calls[c].seen
<1>1. calls[c] \in CallFields
  BY DEF TypeOK, CallType
<1> QED BY <1>1 DEF Goto, TypeOK, CallFields

LEMMA EndRest ==
  ASSUME TypeOK, NEW c \in Calls, End(c)
  PROVE  calls'[c].pc = "idle"
  BY DEF End, Idle, TypeOK

LEMMA StartRest ==
  ASSUME TypeOK, NEW c \in Calls, NEW op, NEW rec, Start(c, op, rec)
  PROVE  calls[c].pc = "idle" /\ calls'[c] = rec
  BY DEF Start, At, TypeOK

\* Where a delivery goes on, and what it has read.
LEMMA DeliverRest ==
  ASSUME TypeOK, NEW c \in Calls, NEW e \in events, Deliver(c, e)
  PROVE  /\ calls[c].pc = "idle" /\ calls'[c].event = e /\ calls'[c].seen = tenant.status
         /\ calls'[c].pc = CASE e.kind = "updated" /\ e.plan # tenant.plan -> "wh_plan"
                             [] e.kind = "deleted" -> "wh_subs"
                             [] OTHER -> "wh_status"
<1> DEFINE pc == CASE e.kind = "updated" /\ e.plan # tenant.plan -> "wh_plan"
                   [] e.kind = "deleted" -> "wh_subs"
                   [] OTHER -> "wh_status"
           rec == [Idle EXCEPT !.event = e, !.seen = tenant.status, !.pc = pc]
<1>1. calls' = [calls EXCEPT ![c] = rec] /\ calls[c].pc = "idle"
  BY DEF Deliver, At
<1> HIDE DEF pc
<1>2. rec.event = e /\ rec.seen = tenant.status /\ rec.pc = pc
  BY DEF Idle
<1> HIDE DEF rec
<1>3. calls'[c] = rec
  BY <1>1 DEF TypeOK
<1> QED BY <1>1, <1>2, <1>3 DEF pc

\* A verdict is asked about a workspace that is open.
LEMMA SetStatusRest ==
  ASSUME TypeOK, NEW c \in Calls, SetStatus(c)
  PROVE  /\ calls[c].pc = "wh_status"
         /\ \/ calls'[c].pc = "idle"
            \/ /\ calls'[c].pc = "wh_write" /\ calls'[c].seen = calls[c].seen
               /\ calls'[c].event = calls[c].event
               /\ calls[c].seen \notin ClosedToPlanChanges
<1> DEFINE v == Verdict(calls[c].event)
           rec == [calls[c] EXCEPT !.pc = "wh_write", !.next = v.to]
<1>1. v.from \in {PaidRestoresFrom, FailureAppliesTo, CancelAppliesTo}
  BY DEF Verdict
<1>2. calls[c] \in CallFields
  BY DEF TypeOK, CallType
<1>3. calls[c].pc = "wh_status" /\ (End(c) \/ (calls[c].seen \in v.from /\ calls' = [calls EXCEPT ![c] = rec]))
  BY DEF SetStatus, At
<1> HIDE DEF v
<1>4. rec.pc = "wh_write" /\ rec.seen = calls[c].seen /\ rec.event = calls[c].event
  BY <1>2 DEF CallFields
<1>5. calls[c].seen \in v.from => calls[c].seen \notin ClosedToPlanChanges
  BY <1>1 DEF PaidRestoresFrom, FailureAppliesTo, CancelAppliesTo, ClosedToPlanChanges
<1> HIDE DEF rec
<1> QED BY <1>3, <1>4, <1>5, EndRest DEF TypeOK

\* A call that adds no active row.
LEMMA RowStays ==
  ASSUME OneCall, RowInv, NEW c \in Calls, ActiveRows' \subseteq ActiveRows,
         calls'[c].pc = "cp_insert" => ActiveRows' = {}
  PROVE  RowInv'
  BY DEF OneCall, RowInv, At

LEMMA SamePlansActive ==
  ASSUME TypeOK, NEW rs, NEW p, SetPlans(rs, p) PROVE ActiveRows' \subseteq ActiveRows
<1>1. \A r \in Rows : subs'[r].state = subs[r].state
  BY DEF SetPlans, TypeOK
<1> QED BY <1>1 DEF ActiveRows

LEMMA NoneActive ==
  ASSUME TypeOK, NEW s, s # "active", SetStates(ActiveRows, s) PROVE ActiveRows' = {}
<1>1. \A r \in Rows : subs'[r].state # "active"
  BY DEF SetStates, TypeOK, ActiveRows
<1> QED BY <1>1 DEF ActiveRows

\* A call with nothing of StatusInv to keep.
LEMMA StatusIdle ==
  ASSUME OneCall, NEW c \in Calls, calls'[c].pc \notin HookPc \cup {"cp_live", "cp_bill", "cp_tenant"}
  PROVE  StatusInv'
  BY DEF OneCall, StatusInv, HookPc

OpenInv == RowInv /\ StatusInv

LEMMA OpenStep ==
  ASSUME OneCall, TypeOK, OpenInv, [Next]_vars
  PROVE  OpenInv'
<1> USE DEF stripeVars
<1>1. ASSUME NEW c \in Calls, HookStep(c) PROVE OpenInv'
  <2>1. ASSUME NEW e \in events, Deliver(c, e) PROVE OpenInv'
    <3>1. /\ calls'[c].pc \in {"wh_plan", "wh_subs", "wh_status"} /\ calls'[c].seen = tenant.status
          /\ UNCHANGED <<tenant, subs>>
      BY <2>1, DeliverRest DEF Deliver
    <3>r. RowInv'
      BY <3>1, RowStays DEF OpenInv, ActiveRows
    <3>s. StatusInv'
      BY <3>1 DEF OneCall, StatusInv, HookPc
    <3> QED BY <3>r, <3>s DEF OpenInv
  <2>2. CASE SyncPlanTenant(c)
    <3>1. /\ calls[c].pc = "wh_plan" /\ calls'[c].pc = "wh_subplan" /\ calls'[c].seen = calls[c].seen
          /\ tenant'.status = tenant.status /\ UNCHANGED subs
      BY <2>2, GotoRest DEF SyncPlanTenant, At, TypeOK
    <3>r. RowInv'
      BY <3>1, RowStays DEF OpenInv, ActiveRows
    <3>s. StatusInv'
      BY <3>1 DEF OneCall, OpenInv, StatusInv, HookPc
    <3> QED BY <3>r, <3>s DEF OpenInv
  <2>3. CASE SyncPlanRows(c)
    <3>1. /\ calls[c].pc = "wh_subplan" /\ calls'[c].pc = "wh_status" /\ calls'[c].seen = calls[c].seen
          /\ UNCHANGED tenant /\ ActiveRows' \subseteq ActiveRows
      BY <2>3, GotoRest, SamePlansActive DEF SyncPlanRows, At
    <3>r. RowInv'
      BY <3>1, RowStays DEF OpenInv
    <3>s. StatusInv'
      BY <3>1 DEF OneCall, OpenInv, StatusInv, HookPc
    <3> QED BY <3>r, <3>s DEF OpenInv
  <2>4. CASE DeletedRows(c)
    <3>1. /\ calls[c].pc = "wh_subs" /\ calls'[c].pc = "wh_status" /\ calls'[c].seen = calls[c].seen
          /\ UNCHANGED tenant /\ ActiveRows' = {}
      BY <2>4, GotoRest, NoneActive DEF DeletedRows, At
    <3>r. RowInv'
      BY <3>1, RowStays DEF OpenInv
    <3>s. StatusInv'
      BY <3>1 DEF OneCall, OpenInv, StatusInv, HookPc
    <3> QED BY <3>r, <3>s DEF OpenInv
  <2>5. CASE SetStatus(c)
    <3>1. UNCHANGED <<tenant, subs>>
      BY <2>5 DEF SetStatus
    <3>r. RowInv'
      BY <2>5, <3>1, SetStatusRest, RowStays DEF OpenInv, ActiveRows
    <3>s. StatusInv'
      BY <2>5, <3>1, SetStatusRest DEF OneCall, OpenInv, StatusInv, HookPc
    <3> QED BY <3>r, <3>s DEF OpenInv
  <2>6. CASE SetStatusWrite(c)
    <3>1. calls'[c].pc = "idle" /\ UNCHANGED subs
      BY <2>6, EndRest DEF SetStatusWrite
    <3>r. RowInv'
      BY <3>1, RowStays DEF OpenInv, ActiveRows
    <3>s. StatusInv'
      BY <3>1, StatusIdle DEF HookPc
    <3> QED BY <3>r, <3>s DEF OpenInv
  <2>7. CASE Raise(c)
    <3>1. calls'[c].pc = "idle" /\ UNCHANGED subs
      BY <2>7, EndRest DEF Raise
    <3>r. RowInv'
      BY <3>1, RowStays DEF OpenInv, ActiveRows
    <3>s. StatusInv'
      BY <3>1, StatusIdle DEF HookPc
    <3> QED BY <3>r, <3>s DEF OpenInv
  <2> QED BY <1>1, <2>1, <2>2, <2>3, <2>4, <2>5, <2>6, <2>7 DEF HookStep
<1>2. ASSUME NEW c \in Calls, OwnerStep(c) PROVE OpenInv'
  <2>1. ASSUME NEW p \in Plans, ChangeStart(c, p) PROVE OpenInv'
    <3>1. /\ calls'[c].pc = "cp_live" /\ tenant.status \notin ClosedToPlanChanges
          /\ UNCHANGED <<tenant, subs>>
      <4> DEFINE rec == [Idle EXCEPT !.pc = "cp_live", !.plan = p]
      <4>1. rec.pc = "cp_live"
        BY DEF Idle
      <4> HIDE DEF rec
      <4>2. Start(c, "change", rec)
        BY <2>1 DEF ChangeStart, rec
      <4> QED BY <2>1, <4>1, <4>2, StartRest DEF ChangeStart
    <3>r. RowInv'
      BY <3>1, RowStays DEF OpenInv, ActiveRows
    <3>s. StatusInv'
      BY <3>1 DEF OneCall, StatusInv, HookPc
    <3> QED BY <3>r, <3>s DEF OpenInv
  <2>2. CASE ChangeLive(c)
    <3>1. calls[c].pc = "cp_live" /\ UNCHANGED <<tenant, subs>>
      BY <2>2 DEF ChangeLive, At
    <3>2. \/ calls'[c].pc = "idle"
          \/ /\ calls'[c].pc = "cp_bill" /\ calls'[c].plan = calls[c].plan
             /\ ActiveRows = {} \/ \E r \in ActiveRows : ~(calls[c].plan < subs[r].plan)
      BY <2>2, GotoRest, EndRest DEF ChangeLive
    <3>3. calls[c].plan \in Nat /\ \A r \in Rows : subs[r].plan \in Nat
      BY PlanAssumption, CallPlan DEF TypeOK, Plans
    <3>4. calls'[c].pc = "cp_bill" => \A r \in ActiveRows : subs[r].plan <= calls'[c].plan
      BY <3>2, <3>3 DEF OpenInv, RowInv, ActiveRows
    <3>r. RowInv'
      BY <3>1, <3>2, RowStays DEF OpenInv, ActiveRows
    <3>s. StatusInv'
      BY <3>1, <3>2, <3>4 DEF OneCall, OpenInv, StatusInv, HookPc, ActiveRows
    <3> QED BY <3>r, <3>s DEF OpenInv
  <2>3. CASE ChangeBill(c)
    <3>1. /\ calls[c].pc = "cp_bill" /\ calls'[c].pc = "cp_tenant" /\ calls'[c].plan = calls[c].plan
          /\ UNCHANGED <<tenant, subs>>
      BY <2>3, GotoRest DEF ChangeBill, At
    <3>r. RowInv'
      BY <3>1, RowStays DEF OpenInv, ActiveRows
    <3>s. StatusInv'
      BY <3>1 DEF OneCall, OpenInv, StatusInv, HookPc, ActiveRows
    <3> QED BY <3>r, <3>s DEF OpenInv
  <2>4. CASE ChangeRefused(c)
    <3>1. calls'[c].pc = "idle" /\ UNCHANGED subs
      BY <2>4, EndRest DEF ChangeRefused
    <3>r. RowInv'
      BY <3>1, RowStays DEF OpenInv, ActiveRows
    <3>s. StatusInv'
      BY <3>1, StatusIdle DEF HookPc
    <3> QED BY <3>r, <3>s DEF OpenInv
  <2>5. CASE ChangeTenant(c)
    <3>1. calls'[c].pc = "cp_supersede" /\ UNCHANGED subs
      BY <2>5, GotoRest DEF ChangeTenant
    <3>r. RowInv'
      BY <3>1, RowStays DEF OpenInv, ActiveRows
    <3>s. StatusInv'
      BY <3>1, StatusIdle DEF HookPc
    <3> QED BY <3>r, <3>s DEF OpenInv
  <2>6. CASE ChangeSupersede(c)
    <3>1. calls'[c].pc = "cp_insert" /\ ActiveRows' = {}
      BY <2>6, GotoRest, NoneActive DEF ChangeSupersede
    <3>r. RowInv'
      BY <3>1, RowStays DEF OpenInv
    <3>s. StatusInv'
      BY <3>1, StatusIdle DEF HookPc
    <3> QED BY <3>r, <3>s DEF OpenInv
  <2>7. CASE ChangeInsert(c)
    <3>1. calls[c].pc = "cp_insert" /\ calls'[c].pc = "idle"
      BY <2>7, EndRest DEF ChangeInsert, At
    <3>2. ActiveRows = {}
      BY <3>1 DEF OpenInv, RowInv, At
    <3>3. PICK r \in Unborn : subs' = [subs EXCEPT ![r] = [state |-> "active", plan |-> calls[c].plan]]
      BY <2>7 DEF ChangeInsert
    <3>4. ActiveRows' \subseteq {r}
      BY <3>2, <3>3 DEF ActiveRows, TypeOK
    <3>r. RowInv'
      BY <3>1, <3>4 DEF OneCall, RowInv, At
    <3>s. StatusInv'
      BY <3>1, StatusIdle DEF HookPc
    <3> QED BY <3>r, <3>s DEF OpenInv
  <2>8. CASE CancelStart(c)
    <3>1. calls'[c].pc = "ca_stripe" /\ UNCHANGED subs
      BY <2>8, StartRest DEF CancelStart, Idle
    <3>r. RowInv'
      BY <3>1, RowStays DEF OpenInv, ActiveRows
    <3>s. StatusInv'
      BY <3>1, StatusIdle DEF HookPc
    <3> QED BY <3>r, <3>s DEF OpenInv
  <2>9. CASE CancelStripe(c)
    <3>1. calls'[c].pc = "ca_tenant" /\ UNCHANGED subs
      BY <2>9, GotoRest DEF CancelStripe
    <3>r. RowInv'
      BY <3>1, RowStays DEF OpenInv, ActiveRows
    <3>s. StatusInv'
      BY <3>1, StatusIdle DEF HookPc
    <3> QED BY <3>r, <3>s DEF OpenInv
  <2>10. CASE CancelRefused(c)
    <3>1. calls'[c].pc = "idle" /\ UNCHANGED subs
      BY <2>10, EndRest DEF CancelRefused
    <3>r. RowInv'
      BY <3>1, RowStays DEF OpenInv, ActiveRows
    <3>s. StatusInv'
      BY <3>1, StatusIdle DEF HookPc
    <3> QED BY <3>r, <3>s DEF OpenInv
  <2>11. CASE CancelTenant(c)
    <3>1. calls'[c].pc = "ca_subs" /\ UNCHANGED subs
      BY <2>11, GotoRest DEF CancelTenant
    <3>r. RowInv'
      BY <3>1, RowStays DEF OpenInv, ActiveRows
    <3>s. StatusInv'
      BY <3>1, StatusIdle DEF HookPc
    <3> QED BY <3>r, <3>s DEF OpenInv
  <2>12. CASE CancelRows(c)
    <3>1. calls'[c].pc = "idle" /\ ActiveRows' = {}
      BY <2>12, EndRest, NoneActive DEF CancelRows
    <3>r. RowInv'
      BY <3>1, RowStays DEF OpenInv
    <3>s. StatusInv'
      BY <3>1, StatusIdle DEF HookPc
    <3> QED BY <3>r, <3>s DEF OpenInv
  <2>13. CASE CancelUnseen(c)
    <3>1. calls'[c].pc = "ca_tenant" /\ UNCHANGED subs
      BY <2>13, GotoRest DEF CancelUnseen
    <3>r. RowInv'
      BY <3>1, RowStays DEF OpenInv, ActiveRows
    <3>s. StatusInv'
      BY <3>1, StatusIdle DEF HookPc
    <3> QED BY <3>r, <3>s DEF OpenInv
  <2> QED BY <1>2, <2>1, <2>2, <2>3, <2>4, <2>5, <2>6, <2>7, <2>8, <2>9, <2>10, <2>11, <2>12, <2>13
      DEF OwnerStep
<1>3. ASSUME NEW c \in Calls, AdminStep(c) PROVE OpenInv'
  <2>1. ASSUME NEW s \in TenantStatus, AdminStatus(c, s) PROVE OpenInv'
    <3>1. calls'[c].pc = "idle" /\ UNCHANGED subs
      BY <2>1 DEF AdminStatus, At
    <3>r. RowInv'
      BY <3>1, RowStays DEF OpenInv, ActiveRows
    <3>s. StatusInv'
      BY <3>1, StatusIdle DEF HookPc
    <3> QED BY <3>r, <3>s DEF OpenInv
  <2>2. ASSUME NEW p \in Plans, NEW sync \in BOOLEAN, OverrideStart(c, p, sync) PROVE OpenInv'
    <3>1. calls'[c].pc \in {"ov_stripe", "ov_tenant"} /\ UNCHANGED subs
      <4> DEFINE pc == IF sync THEN "ov_stripe" ELSE "ov_tenant"
                 rec == [Idle EXCEPT !.pc = pc, !.plan = p]
      <4>1. pc \in {"ov_stripe", "ov_tenant"}
        OBVIOUS
      <4> HIDE DEF pc
      <4>2. rec.pc = pc
        BY DEF Idle
      <4> HIDE DEF rec
      <4>3. Start(c, "override", rec)
        BY <2>2 DEF OverrideStart, rec, pc
      <4> QED BY <2>2, <4>1, <4>2, <4>3, StartRest DEF OverrideStart
    <3>r. RowInv'
      BY <3>1, RowStays DEF OpenInv, ActiveRows
    <3>s. StatusInv'
      BY <3>1, StatusIdle DEF HookPc
    <3> QED BY <3>r, <3>s DEF OpenInv
  <2>3. CASE OverrideStripe(c)
    <3>1. calls'[c].pc = "ov_tenant" /\ UNCHANGED subs
      BY <2>3, GotoRest DEF OverrideStripe
    <3>r. RowInv'
      BY <3>1, RowStays DEF OpenInv, ActiveRows
    <3>s. StatusInv'
      BY <3>1, StatusIdle DEF HookPc
    <3> QED BY <3>r, <3>s DEF OpenInv
  <2>4. CASE OverrideRefused(c)
    <3>1. calls'[c].pc = "idle" /\ UNCHANGED subs
      BY <2>4, EndRest DEF OverrideRefused
    <3>r. RowInv'
      BY <3>1, RowStays DEF OpenInv, ActiveRows
    <3>s. StatusInv'
      BY <3>1, StatusIdle DEF HookPc
    <3> QED BY <3>r, <3>s DEF OpenInv
  <2>5. CASE OverrideTenant(c)
    <3>1. calls'[c].pc = "ov_sub" /\ UNCHANGED subs
      BY <2>5, GotoRest DEF OverrideTenant
    <3>r. RowInv'
      BY <3>1, RowStays DEF OpenInv, ActiveRows
    <3>s. StatusInv'
      BY <3>1, StatusIdle DEF HookPc
    <3> QED BY <3>r, <3>s DEF OpenInv
  <2>6. CASE OverrideRow(c)
    <3>1. calls'[c].pc = "idle" /\ ActiveRows' \subseteq ActiveRows
      BY <2>6, EndRest, SamePlansActive DEF OverrideRow, ActiveRows
    <3>r. RowInv'
      BY <3>1, RowStays DEF OpenInv
    <3>s. StatusInv'
      BY <3>1, StatusIdle DEF HookPc
    <3> QED BY <3>r, <3>s DEF OpenInv
  <2> QED BY <1>3, <2>1, <2>2, <2>3, <2>4, <2>5, <2>6 DEF AdminStep
<1>4. ASSUME NEW c \in Calls, CallCut(c) PROVE OpenInv'
  <2>1. calls'[c].pc = "idle" /\ UNCHANGED subs
    BY <1>4, EndRest DEF CallCut
  <2>2. RowInv'
    BY <2>1, RowStays DEF OpenInv, ActiveRows
  <2>3. StatusInv'
    BY <2>1, StatusIdle DEF HookPc
  <2> QED BY <2>2, <2>3 DEF OpenInv
<1>5. ASSUME UNCHANGED <<tenant, subs, calls>> PROVE OpenInv'
  BY <1>5 DEF OpenInv, RowInv, StatusInv, ActiveRows, At
<1>6. CASE StripeStep
  BY <1>5, <1>6 DEF StripeStep
<1>7. CASE UNCHANGED vars
  BY <1>5, <1>7 DEF vars
<1> QED BY <1>1, <1>2, <1>3, <1>4, <1>6, <1>7 DEF Next

LEMMA OpenInit == Init => OpenInv
<1> SUFFICES ASSUME Init PROVE OpenInv
  OBVIOUS
<1>1. PICK r0 \in Rows :
        subs = [r \in Rows |-> [state |-> IF r = r0 THEN "active" ELSE "unborn", plan |-> 1]]
  BY DEF Init
<1>2. ActiveRows \subseteq {r0}
  BY <1>1 DEF ActiveRows
<1>3. \A c \in Calls : calls[c].pc = "idle"
  BY DEF Init, Idle
<1> QED BY <1>2, <1>3 DEF OpenInv, RowInv, StatusInv, At, HookPc

\* What StatusInv says of a step: nobody but an administrator reopens.
LEMMA StepAllowed ==
  ASSUME OneCall, TypeOK, OpenInv, [Next]_vars
  PROVE  OpensByAdmin /\ MovesUp
<1> USE DEF stripeVars
<1>1. MovesUp
  BY DEF MovesUp, ChangeTenant, At, OpenInv, StatusInv
<1>2. ASSUME tenant.status \in ClosedToPlanChanges, tenant'.status \notin ClosedToPlanChanges
      PROVE  \E c \in Calls, s \in TenantStatus : AdminStatus(c, s)
  <2>1. ASSUME NEW c \in Calls, HookStep(c) PROVE FALSE
    <3>1. ~SetStatusWrite(c)
      BY <1>2 DEF SetStatusWrite, At, OpenInv, StatusInv
    <3>2. tenant'.status = tenant.status
      BY <2>1, <3>1 DEF HookStep, Deliver, SyncPlanTenant, SyncPlanRows, DeletedRows, SetStatus, Raise, TypeOK
    <3> QED BY <1>2, <3>2
  <2>2. ASSUME NEW c \in Calls, OwnerStep(c) PROVE FALSE
    <3>1. ~ChangeTenant(c)
      BY <1>2 DEF ChangeTenant, At, OpenInv, StatusInv
    <3>2. ~CancelTenant(c)
      BY <1>2 DEF CancelTenant, TypeOK, ClosedToPlanChanges
    <3>3. tenant' = tenant
      BY <2>2, <3>1, <3>2 DEF OwnerStep, ChangeStart, ChangeLive, ChangeBill, ChangeRefused,
           ChangeSupersede, ChangeInsert, CancelStart, CancelStripe, CancelUnseen, CancelRefused, CancelRows
    <3> QED BY <1>2, <3>3
  <2>3. ASSUME NEW c \in Calls, AdminStep(c)
        PROVE  \E s \in TenantStatus : AdminStatus(c, s)
    <3>1. ASSUME \A s \in TenantStatus : ~AdminStatus(c, s) PROVE tenant'.status = tenant.status
      BY <2>3, <3>1 DEF AdminStep, OverrideStart, OverrideStripe, OverrideRefused, OverrideTenant,
           OverrideRow, TypeOK
    <3> QED BY <1>2, <3>1
  <2>4. ASSUME NEW c \in Calls, CallCut(c) PROVE FALSE
    BY <1>2, <2>4 DEF CallCut
  <2>5. ~StripeStep /\ ~UNCHANGED vars
    BY <1>2 DEF StripeStep, vars
  <2> QED BY <2>1, <2>2, <2>3, <2>4, <2>5 DEF Next
<1> QED BY <1>1, <1>2 DEF OpensByAdmin

\* One call at a time, a suspended or cancelled workspace is opened by an
\* administrator only, and the owner's change of a running plan is a rise.
THEOREM OnlyAllowedChanges == ASSUME OneCall PROVE Spec => ChangesAllowed
<1>1. TypeOK /\ OpenInv /\ [Next]_vars => OpenInv'
  BY OpenStep
<1>2. TypeOK /\ OpenInv /\ [Next]_vars => OpensByAdmin /\ MovesUp
  BY StepAllowed
<1> QED BY <1>1, <1>2, OpenInit, TypeCorrect, PTL DEF Spec, ChangesAllowed
-----------------------------------------------------------------------------
\* One call at a time, events in order: the plan.

\* What Stripe may add to the queue: events numbered after all others, with the
\* plan it charges from then on, an update among them when that is another one.
Sends ==
  \E new \in SUBSET EventType :
    /\ events' = events \cup new
    /\ \A e \in new : emitted < e.n /\ e.n <= emitted' /\ e.plan = sub'.meta
    /\ \A e, o \in new : e.n = o.n => e = o
    /\ \/ sub'.plan = sub.plan /\ sub'.meta = sub.meta
       \/ \E e \in new : e.kind = "updated"
    /\ emitted <= emitted'

LEMMA SendSends ==
  ASSUME TypeOK, NEW kinds \in SUBSET EventKind, IsFiniteSet(kinds),
         NEW s \in SubType, Send(kinds, s),
         (s.plan = sub.plan /\ s.meta = sub.meta) \/ "updated" \in kinds
  PROVE  Sends
<1>1. Cardinality(kinds) \in Nat
  BY FS_CardinalityType
<1>2. emitted \in 0..MaxEvents /\ MaxEvents \in Nat /\ emitted' = emitted + Cardinality(kinds)
  BY PlanAssumption DEF Send, TypeOK
<1>3. sub' = s
  BY DEF Send
<1>4. PICK f \in [kinds -> emitted + 1 .. emitted'] :
        /\ \A k, l \in kinds : f[k] = f[l] => k = l
        /\ events' = events \cup
             {[n |-> f[k], kind |-> k, state |-> s.state, plan |-> s.meta] : k \in kinds}
  BY DEF Send, PlanOf
<1> DEFINE ev(k) == [n |-> f[k], kind |-> k, state |-> s.state, plan |-> s.meta]
           new == {ev(k) : k \in kinds}
<1>5. \A k \in kinds : f[k] \in Nat /\ emitted < f[k] /\ f[k] <= emitted'
  BY <1>1, <1>2, <1>4
<1>6. \A k \in kinds : ev(k).n = f[k] /\ ev(k).kind = k /\ ev(k).plan = s.meta
  OBVIOUS
<1>7. events' = events \cup new /\ events' \subseteq EventType
  BY <1>4, SendFields
<1> HIDE DEF ev
<1>8. new \in SUBSET EventType
  BY <1>7
<1>9. \A e \in new : emitted < e.n /\ e.n <= emitted' /\ e.plan = sub'.meta
  BY <1>3, <1>5, <1>6
<1>10. \A e, o \in new : e.n = o.n => e = o
  BY <1>4, <1>6
<1>11. \/ sub'.plan = sub.plan /\ sub'.meta = sub.meta
       \/ \E e \in new : e.kind = "updated"
  BY <1>3, <1>6
<1>12. emitted <= emitted'
  BY <1>1, <1>2
<1> QED BY <1>7, <1>8, <1>9, <1>10, <1>11, <1>12 DEF Sends

LEMMA StaysSends == ASSUME TypeOK, UNCHANGED stripeVars PROVE Sends
<1>1. emitted <= emitted
  BY PlanAssumption DEF TypeOK
<1>2. {} \in SUBSET EventType /\ events' = events \cup {} /\ sub' = sub /\ emitted' = emitted
  BY DEF stripeVars
<1> QED BY <1>1, <1>2 DEF Sends

LEMMA MovesSends == ASSUME TypeOK, NEW p \in Plans, Moves(p) PROVE Sends
<1> DEFINE s == [sub EXCEPT !.plan = p, !.meta = p]
<1>1. s \in SubType /\ {"updated"} \in SUBSET EventKind
  BY WithType DEF TypeOK, EventKind, SubType
<1>2. Send({"updated"}, s)
  BY DEF Moves
<1> HIDE DEF s
<1> QED BY <1>1, <1>2, SendSends, KindsFinite

LEMMA MovesUpdates == ASSUME TypeOK, NEW p \in Plans, Moves(p) PROVE Updates' # {}
<1> DEFINE s == [sub EXCEPT !.plan = p, !.meta = p]
<1>1. Send({"updated"}, s)
  BY DEF Moves
<1> HIDE DEF s
<1>2. PICK f \in [{"updated"} -> emitted + 1 .. emitted'] :
        events' = events \cup
          {[n |-> f[k], kind |-> k, state |-> s.state, plan |-> s.meta] : k \in {"updated"}}
  BY <1>1 DEF Send, PlanOf
<1>3. [n |-> f["updated"], kind |-> "updated", state |-> s.state, plan |-> s.meta] \in events'
  BY <1>2
<1> QED BY <1>3 DEF Updates

LEMMA DeletesSends == ASSUME TypeOK, Send({"deleted"}, With("canceled")) PROVE Sends
<1>1. {"deleted"} \in SUBSET EventKind /\ "canceled" \in SubState /\ 1 \in Plans
  BY PlanAssumption DEF EventKind, SubState, Plans
<1>2. /\ With("canceled") \in SubType
      /\ With("canceled").plan = sub.plan /\ With("canceled").meta = sub.meta
  BY <1>1, WithType
<1> QED BY <1>1, <1>2, SendSends, KindsFinite

\* A cancellation presumed sends nothing.
LEMMA PresumedSends == ASSUME TypeOK, UNCHANGED <<sub, events, emitted>> PROVE Sends
<1>1. emitted <= emitted
  BY PlanAssumption DEF TypeOK
<1>2. {} \in SUBSET EventType /\ events' = events \cup {} /\ sub' = sub /\ emitted' = emitted
  OBVIOUS
<1> QED BY <1>1, <1>2 DEF Sends

LEMMA StripeStepSends == ASSUME TypeOK, StripeStep PROVE Sends
<1>1. /\ sub \in SubType
      /\ \A t \in {"active", "past_due"} : /\ With(t) \in SubType
                                         /\ With(t).plan = sub.plan /\ With(t).meta = sub.meta
      /\ \A p \in Plans : [sub EXCEPT !.plan = p] \in SubType
  BY WithType DEF TypeOK, SubState, SubType
<1>2. /\ {"invoice_failed", "updated"} \in SUBSET EventKind
      /\ {"invoice_paid", "updated"} \in SUBSET EventKind
      /\ {"invoice_paid"} \in SUBSET EventKind /\ {"updated"} \in SUBSET EventKind
  BY DEF EventKind
<1>3. CASE CardFails
  BY <1>1, <1>2, <1>3, SendSends, KindsFinite DEF CardFails
<1>4. CASE CardClears
  BY <1>1, <1>2, <1>4, SendSends, KindsFinite DEF CardClears
<1>5. CASE Renew
  BY <1>1, <1>2, <1>5, SendSends, KindsFinite DEF Renew
<1>6. CASE GivesUp
  BY <1>6, DeletesSends DEF GivesUp
<1>7. ASSUME NEW p \in Plans, Dashboard(p) PROVE Sends
  <2> DEFINE s == [sub EXCEPT !.plan = p]
  <2>1. s \in SubType /\ Send({"updated"}, s)
    BY <1>1, <1>7 DEF Dashboard
  <2> HIDE DEF s
  <2> QED BY <1>2, <2>1, SendSends, KindsFinite
<1> QED BY <1>3, <1>4, <1>5, <1>6, <1>7 DEF StripeStep

\* The numbers of events.
LEMMA EventNumbers ==
  ASSUME TypeOK
  PROVE  /\ emitted \in Nat /\ \A e \in events : e \in EventType /\ e.n \in Nat
         /\ \A c \in Calls : calls[c].pc \in HookPc
              => calls[c].event \in EventType /\ calls[c].event.n \in Nat
<1>1. MaxEvents \in Nat /\ \A e \in EventType : e.n \in Nat
  BY PlanAssumption DEF EventType
<1> QED BY <1>1 DEF TypeOK, CallType

\* A call that goes on with the event it has.
SameEvent(c) ==
  calls'[c].pc \in HookPc => calls[c].pc \in HookPc /\ calls'[c].event = calls[c].event

LEMMA SendsQueue ==
  ASSUME TypeOK, TypeOK', QueueInv, Sends, \A c \in Calls : SameEvent(c)
  PROVE  QueueInv'
<1>1. PICK new \in SUBSET EventType :
        /\ events' = events \cup new
        /\ \A e \in new : emitted < e.n /\ e.n <= emitted'
        /\ \A e, o \in new : e.n = o.n => e = o
        /\ emitted <= emitted'
  BY DEF Sends
<1>2. emitted \in Nat /\ emitted' \in Nat /\ \A e \in events' : e.n \in Nat
  BY EventNumbers, PlanAssumption DEF TypeOK, EventType
<1>3. \A e \in events' : e.n <= emitted'
  BY <1>1, <1>2 DEF QueueInv
<1>4. \A e, o \in events' : e.n = o.n => e = o
  BY <1>1, <1>2 DEF QueueInv
<1>5. ASSUME NEW c \in Calls, calls'[c].pc \in HookPc
      PROVE  calls'[c].event.n <= emitted' /\ \A o \in events' : calls'[c].event.n < o.n
  <2>1. calls[c].pc \in HookPc /\ calls'[c].event = calls[c].event /\ calls[c].event.n \in Nat
    BY <1>5, EventNumbers DEF SameEvent
  <2>2. calls[c].event.n <= emitted /\ \A o \in events : calls[c].event.n < o.n
    BY <2>1 DEF QueueInv
  <2> QED BY <1>1, <1>2, <2>1, <2>2
<1> QED BY <1>3, <1>4, <1>5 DEF QueueInv

LEMMA SendsPlan ==
  ASSUME TypeOK, TypeOK', QueueInv, PlanInv, Sends, \A c \in Calls : SameEvent(c),
         \A c \in Calls : calls'[c].pc = "wh_plan" => calls[c].pc = "wh_plan",
         Updates' = {} /\ (\A c \in Calls : calls'[c].pc # "wh_plan")
           => tenant'.plan \in {sub.plan, sub.meta},
         \A c \in Calls : calls'[c].pc \in {"cp_tenant", "ov_tenant"} /\ Updates' = {}
           => calls'[c].plan = sub.plan
  PROVE  PlanInv'
<1>1. PICK new \in SUBSET EventType :
        /\ events' = events \cup new
        /\ \A e \in new : emitted < e.n /\ e.plan = sub'.meta
        /\ \/ sub'.plan = sub.plan /\ sub'.meta = sub.meta
           \/ \E e \in new : e.kind = "updated"
  BY DEF Sends
<1>2. emitted \in Nat /\ \A e \in events' : e.n \in Nat
  BY EventNumbers, PlanAssumption DEF TypeOK, EventType
<1>3. ASSUME NEW e \in Updates', \A o \in Updates' : o.n <= e.n
      PROVE  e.plan = sub'.meta
  <2>1. CASE e \in new
    BY <1>1, <2>1
  <2>2. CASE e \notin new
    <3>1. e \in Updates /\ e.n <= emitted
      BY <1>1, <2>2 DEF Updates, QueueInv
    <3>2. \A o \in new : o.kind # "updated"
      BY <1>1, <1>2, <1>3, <3>1 DEF Updates
    <3>3. \A o \in Updates : o.n <= e.n
      BY <1>1, <1>3 DEF Updates
    <3> QED BY <1>1, <3>1, <3>2, <3>3 DEF PlanInv, PlanOf
  <2> QED BY <2>1, <2>2
<1>4. Updates' = {} => Updates = {} /\ sub'.plan = sub.plan /\ sub'.meta = sub.meta
  BY <1>1 DEF Updates
<1>5. Updates' = {} /\ (\A c \in Calls : ~At(c, "wh_plan")')
        => tenant'.plan \in {sub'.plan, sub'.meta}
  BY <1>4 DEF At
<1>6. ASSUME NEW c \in Calls
      PROVE  /\ At(c, "wh_plan")' => calls'[c].event.kind = "updated"
             /\ calls'[c].pc \in HookPc /\ calls'[c].event.kind = "updated" /\ Updates' = {}
                  => calls'[c].event.plan = sub'.meta
             /\ calls'[c].pc \in {"cp_tenant", "ov_tenant"} /\ Updates' = {}
                  => calls'[c].plan = sub'.plan
  BY <1>4 DEF PlanInv, PlanOf, SameEvent, At, HookPc
<1> QED BY <1>3, <1>5, <1>6 DEF PlanInv, PlanOf

FollowInv == QueueInv /\ PlanInv

\* A call that leaves the plan alone and is not about to write it.
LEMMA FollowQuiet ==
  ASSUME OneCall, TypeOK, TypeOK', FollowInv, Sends, NEW c \in Calls, SameEvent(c),
         tenant'.plan = tenant.plan, calls[c].pc # "wh_plan",
         calls'[c].pc \notin {"wh_plan", "cp_tenant", "ov_tenant"}
  PROVE  FollowInv'
<1>1. \A o \in Calls : o = c
  BY DEF OneCall
<1>2. Updates' = {} => Updates = {}
  BY DEF Sends, Updates
<1>3. Updates' = {} => tenant'.plan \in {sub.plan, sub.meta}
  BY <1>1, <1>2 DEF FollowInv, PlanInv, PlanOf, At
<1> QED BY <1>1, <1>3, SendsQueue, SendsPlan DEF FollowInv

\* A call that has made Stripe charge the plan it wants.
LEMMA FollowBilled ==
  ASSUME OneCall, TypeOK, TypeOK', FollowInv, NEW c \in Calls,
         tenant'.plan = tenant.plan, calls[c].pc \in {"cp_bill", "ov_stripe"},
         calls'[c].pc \in {"cp_tenant", "ov_tenant"}, calls'[c].plan = calls[c].plan,
         \/ AlreadyOn(calls[c].plan) /\ UNCHANGED stripeVars
         \/ Moves(calls[c].plan)
  PROVE  FollowInv'
<1>1. \A o \in Calls : o = c
  BY DEF OneCall
<1>2. Sends
  BY StaysSends, MovesSends, CallPlan
<1>3. Updates' = {} => Updates = {} /\ AlreadyOn(calls[c].plan)
  BY MovesUpdates, CallPlan DEF stripeVars, Updates
<1>4. SameEvent(c)
  BY DEF SameEvent, HookPc
<1>5. Updates' = {} => tenant'.plan \in {sub.plan, sub.meta} /\ calls'[c].plan = sub.plan
  BY <1>1, <1>3 DEF FollowInv, PlanInv, PlanOf, At, AlreadyOn
<1> QED BY <1>1, <1>2, <1>4, <1>5, SendsQueue, SendsPlan DEF FollowInv

\* A call that writes the plan Stripe charges, or the one the metadata names.
LEMMA FollowWritten ==
  ASSUME OneCall, TypeOK, TypeOK', FollowInv, UNCHANGED stripeVars, NEW c \in Calls, SameEvent(c),
         Updates = {} => tenant'.plan \in {sub.plan, sub.meta},
         calls'[c].pc \notin {"wh_plan", "cp_tenant", "ov_tenant"}
  PROVE  FollowInv'
<1>1. \A o \in Calls : o = c
  BY DEF OneCall
<1>2. Updates' = Updates
  BY DEF stripeVars, Updates
<1> QED BY <1>1, <1>2, StaysSends, SendsQueue, SendsPlan DEF FollowInv

\* The first event of the queue is taken.
LEMMA FollowDeliver ==
  ASSUME OneCall, InOrder, TypeOK, TypeOK', FollowInv, NEW c \in Calls, NEW e \in events, Deliver(c, e)
  PROVE  FollowInv'
<1>1. \A o \in Calls : o = c
  BY DEF OneCall
<1>2. /\ calls[c].pc = "idle" /\ calls'[c].event = e
      /\ calls'[c].pc \in {"wh_plan", "wh_subs", "wh_status"}
      /\ calls'[c].pc = "wh_plan" => e.kind = "updated"
      /\ e.kind = "updated" /\ calls'[c].pc # "wh_plan" => e.plan = tenant.plan
  BY DeliverRest
<1>3. /\ \A o \in events : e.n <= o.n
      /\ events' = events \ {e} /\ UNCHANGED <<tenant, sub, emitted>>
  BY DEF Deliver
<1>4. \A o \in events : o.n \in Nat
  BY EventNumbers
<1>5. QueueInv'
  <2>1. \A o \in events' : e.n < o.n
    BY <1>3, <1>4 DEF FollowInv, QueueInv
  <2> QED BY <1>1, <1>2, <1>3, <2>1 DEF FollowInv, QueueInv
<1>6. Updates' = Updates \ {e}
  BY <1>3 DEF Updates
<1>7. ASSUME NEW u \in Updates', \A o \in Updates' : o.n <= u.n PROVE u.plan = sub'.meta
  <2>1. \A o \in Updates : o.n <= u.n
    BY <1>3, <1>6, <1>7 DEF Updates
  <2> QED BY <1>3, <1>6, <2>1 DEF FollowInv, PlanInv, PlanOf
<1>8. e.kind = "updated" /\ Updates' = {} => e.plan = sub.meta
  <2>1. e.kind = "updated" /\ Updates' = {} => Updates = {e} /\ e.n <= e.n
    BY <1>4, <1>6 DEF Updates
  <2> QED BY <2>1 DEF FollowInv, PlanInv, PlanOf
<1>9. Updates' = {} /\ calls'[c].pc # "wh_plan" => tenant.plan \in {sub.plan, sub.meta}
  <2>1. CASE e.kind = "updated"
    BY <1>2, <1>8, <2>1
  <2>2. CASE e.kind # "updated"
    BY <1>1, <1>2, <1>6, <2>2 DEF FollowInv, PlanInv, PlanOf, Updates, At
  <2> QED BY <2>1, <2>2
<1>10. PlanInv'
  BY <1>1, <1>2, <1>3, <1>7, <1>8, <1>9 DEF PlanInv, PlanOf, At
<1> QED BY <1>5, <1>10 DEF FollowInv

\* The event of a handler that raised is the first of the queue again.
LEMMA FollowRaise ==
  ASSUME OneCall, TypeOK, TypeOK', FollowInv, NEW c \in Calls, Raise(c)
  PROVE  FollowInv'
<1> DEFINE e == calls[c].event
<1>1. \A o \in Calls : o = c
  BY DEF OneCall
<1>2. calls[c].pc \in HookPc /\ calls'[c].pc = "idle"
  BY EndRest DEF Raise
<1>3. events' = events \cup {e} /\ UNCHANGED <<tenant, sub, emitted>>
  BY DEF Raise
<1>4. e.n \in Nat /\ \A o \in events : o.n \in Nat
  BY <1>2, EventNumbers
<1>5. e.n <= emitted /\ \A o \in events : e.n < o.n
  BY <1>2 DEF FollowInv, QueueInv
<1> HIDE DEF e
<1>6. QueueInv'
  BY <1>1, <1>2, <1>3, <1>4, <1>5 DEF FollowInv, QueueInv, HookPc
<1>7. e.kind = "updated" /\ Updates = {} => e.plan = sub.meta
  BY <1>2 DEF FollowInv, PlanInv, PlanOf, e
<1>8. Updates' = Updates \cup {o \in {e} : o.kind = "updated"}
  BY <1>3 DEF Updates
<1>9. ASSUME NEW u \in Updates', \A o \in Updates' : o.n <= u.n PROVE u.plan = sub'.meta
  <2>1. CASE u \in Updates
    BY <1>3, <1>8, <1>9, <2>1 DEF FollowInv, PlanInv, PlanOf
  <2>2. CASE u \notin Updates
    <3>1. u = e /\ e.kind = "updated"
      BY <1>8, <2>2
    <3>2. Updates = {}
      BY <1>4, <1>5, <1>8, <1>9, <3>1 DEF Updates
    <3> QED BY <1>3, <1>7, <3>1, <3>2
  <2> QED BY <2>1, <2>2
<1>10. Updates' = {} => tenant'.plan \in {sub'.plan, sub'.meta}
  <2>1. Updates' = {} => Updates = {} /\ e.kind # "updated"
    BY <1>8
  <2>2. calls[c].pc = "wh_plan" => e.kind = "updated"
    BY DEF FollowInv, PlanInv, At, e
  <2> QED BY <1>1, <1>3, <2>1, <2>2 DEF FollowInv, PlanInv, PlanOf, At
<1>11. PlanInv'
  BY <1>1, <1>2, <1>9, <1>10 DEF PlanInv, PlanOf, At, HookPc
<1> QED BY <1>6, <1>11 DEF FollowInv

LEMMA FollowStep ==
  ASSUME OneCall, InOrder, "comp" \notin Ops, TypeOK, TypeOK', FollowInv, [Next]_vars
  PROVE  FollowInv'
<1>1. ASSUME NEW c \in Calls, HookStep(c) PROVE FollowInv'
  <2>1. ASSUME NEW e \in events, Deliver(c, e) PROVE FollowInv'
    BY <2>1, FollowDeliver
  <2>2. CASE SyncPlanTenant(c)
    <3>1. /\ calls[c].pc = "wh_plan" /\ calls'[c].pc = "wh_subplan" /\ calls'[c].event = calls[c].event
          /\ tenant'.plan = calls[c].event.plan /\ UNCHANGED stripeVars
      BY <2>2, GotoRest DEF SyncPlanTenant, At, TypeOK
    <3>2. Updates = {} => tenant'.plan \in {sub.plan, sub.meta}
      BY <3>1 DEF FollowInv, PlanInv, PlanOf, At, HookPc
    <3> QED BY <3>1, <3>2, FollowWritten DEF SameEvent, HookPc
  <2>3. CASE SyncPlanRows(c)
    <3>1. calls[c].pc = "wh_subplan" /\ calls'[c].pc = "wh_status" /\ calls'[c].event = calls[c].event
      BY <2>3, GotoRest DEF SyncPlanRows, At
    <3>2. tenant'.plan = tenant.plan /\ Sends
      BY <2>3, StaysSends DEF SyncPlanRows
    <3> QED BY <3>1, <3>2, FollowQuiet DEF SameEvent, HookPc
  <2>4. CASE DeletedRows(c)
    <3>1. calls[c].pc = "wh_subs" /\ calls'[c].pc = "wh_status" /\ calls'[c].event = calls[c].event
      BY <2>4, GotoRest DEF DeletedRows, At
    <3>2. tenant'.plan = tenant.plan /\ Sends
      BY <2>4, StaysSends DEF DeletedRows
    <3> QED BY <3>1, <3>2, FollowQuiet DEF SameEvent, HookPc
  <2>5. CASE SetStatus(c)
    <3>1. /\ calls[c].pc = "wh_status"
          /\ calls'[c].pc = "idle" \/ (calls'[c].pc = "wh_write" /\ calls'[c].event = calls[c].event)
      BY <2>5, SetStatusRest
    <3>2. tenant'.plan = tenant.plan /\ Sends
      BY <2>5, StaysSends DEF SetStatus
    <3> QED BY <3>1, <3>2, FollowQuiet DEF SameEvent, HookPc
  <2>6. CASE SetStatusWrite(c)
    <3>1. calls[c].pc = "wh_write" /\ calls'[c].pc = "idle"
      BY <2>6, EndRest DEF SetStatusWrite, At
    <3>2. tenant'.plan = tenant.plan /\ Sends
      BY <2>6, StaysSends DEF SetStatusWrite, TypeOK
    <3> QED BY <3>1, <3>2, FollowQuiet DEF SameEvent, HookPc
  <2>7. CASE Raise(c)
    BY <2>7, FollowRaise
  <2> QED BY <1>1, <2>1, <2>2, <2>3, <2>4, <2>5, <2>6, <2>7 DEF HookStep
<1>2. ASSUME NEW c \in Calls, OwnerStep(c) PROVE FollowInv'
  <2>1. ASSUME NEW p \in Plans, ChangeStart(c, p) PROVE FollowInv'
    <3> DEFINE rec == [Idle EXCEPT !.pc = "cp_live", !.plan = p]
    <3>1. rec.pc = "cp_live"
      BY DEF Idle
    <3> HIDE DEF rec
    <3>2. Start(c, "change", rec) /\ UNCHANGED <<tenant, subs, stripeVars>>
      BY <2>1 DEF ChangeStart, rec
    <3>3. calls[c].pc = "idle" /\ calls'[c].pc = "cp_live"
      BY <3>1, <3>2, StartRest
    <3>4. tenant'.plan = tenant.plan /\ Sends
      BY <3>2, StaysSends
    <3> QED BY <3>3, <3>4, FollowQuiet DEF SameEvent, HookPc
  <2>2. CASE ChangeLive(c)
    <3>1. calls[c].pc = "cp_live" /\ calls'[c].pc \in {"idle", "cp_bill"}
      BY <2>2, GotoRest, EndRest DEF ChangeLive, At
    <3>2. tenant'.plan = tenant.plan /\ Sends
      BY <2>2, StaysSends DEF ChangeLive
    <3> QED BY <3>1, <3>2, FollowQuiet DEF SameEvent, HookPc
  <2>3. CASE ChangeBill(c)
    <3>1. calls[c].pc = "cp_bill" /\ calls'[c].pc = "cp_tenant" /\ calls'[c].plan = calls[c].plan
      BY <2>3, GotoRest DEF ChangeBill, At
    <3>2. /\ tenant'.plan = tenant.plan
          /\ (AlreadyOn(calls[c].plan) /\ UNCHANGED stripeVars) \/ Moves(calls[c].plan)
      BY <2>3 DEF ChangeBill
    <3> QED BY <3>1, <3>2, FollowBilled
  <2>4. CASE ChangeRefused(c)
    <3>1. calls[c].pc = "cp_bill" /\ calls'[c].pc = "idle"
      BY <2>4, EndRest DEF ChangeRefused, At
    <3>2. tenant'.plan = tenant.plan /\ Sends
      BY <2>4, StaysSends, MovesSends, CallPlan DEF ChangeRefused
    <3> QED BY <3>1, <3>2, FollowQuiet DEF SameEvent, HookPc
  <2>5. CASE ChangeTenant(c)
    <3>1. /\ calls[c].pc = "cp_tenant" /\ calls'[c].pc = "cp_supersede"
          /\ tenant'.plan = calls[c].plan /\ UNCHANGED stripeVars
      BY <2>5, GotoRest DEF ChangeTenant, At
    <3>2. Updates = {} => tenant'.plan \in {sub.plan, sub.meta}
      BY <3>1 DEF FollowInv, PlanInv, PlanOf
    <3> QED BY <3>1, <3>2, FollowWritten DEF SameEvent, HookPc
  <2>6. CASE ChangeSupersede(c)
    <3>1. calls[c].pc = "cp_supersede" /\ calls'[c].pc = "cp_insert"
      BY <2>6, GotoRest DEF ChangeSupersede, At
    <3>2. tenant'.plan = tenant.plan /\ Sends
      BY <2>6, StaysSends DEF ChangeSupersede
    <3> QED BY <3>1, <3>2, FollowQuiet DEF SameEvent, HookPc
  <2>7. CASE ChangeInsert(c)
    <3>1. calls[c].pc = "cp_insert" /\ calls'[c].pc = "idle"
      BY <2>7, EndRest DEF ChangeInsert, At
    <3>2. tenant'.plan = tenant.plan /\ Sends
      BY <2>7, StaysSends DEF ChangeInsert
    <3> QED BY <3>1, <3>2, FollowQuiet DEF SameEvent, HookPc
  <2>8. CASE CancelStart(c)
    <3> DEFINE rec == [Idle EXCEPT !.pc = "ca_stripe"]
    <3>1. rec.pc = "ca_stripe"
      BY DEF Idle
    <3> HIDE DEF rec
    <3>2. Start(c, "cancel", rec) /\ UNCHANGED <<tenant, subs, stripeVars>>
      BY <2>8 DEF CancelStart, rec
    <3>3. calls[c].pc = "idle" /\ calls'[c].pc = "ca_stripe"
      BY <3>1, <3>2, StartRest
    <3>4. tenant'.plan = tenant.plan /\ Sends
      BY <3>2, StaysSends
    <3> QED BY <3>3, <3>4, FollowQuiet DEF SameEvent, HookPc
  <2>9. CASE CancelStripe(c)
    <3>1. calls[c].pc = "ca_stripe" /\ calls'[c].pc = "ca_tenant"
      BY <2>9, GotoRest DEF CancelStripe, At
    <3>2. tenant'.plan = tenant.plan /\ Sends
      BY <2>9, StaysSends, DeletesSends DEF CancelStripe
    <3> QED BY <3>1, <3>2, FollowQuiet DEF SameEvent, HookPc
  <2>10. CASE CancelRefused(c)
    <3>1. calls[c].pc = "ca_stripe" /\ calls'[c].pc = "idle"
      BY <2>10, EndRest DEF CancelRefused, At
    <3>2. tenant'.plan = tenant.plan /\ Sends
      BY <2>10, StaysSends, DeletesSends DEF CancelRefused
    <3> QED BY <3>1, <3>2, FollowQuiet DEF SameEvent, HookPc
  <2>11. CASE CancelTenant(c)
    <3>1. calls[c].pc = "ca_tenant" /\ calls'[c].pc = "ca_subs"
      BY <2>11, GotoRest DEF CancelTenant, At
    <3>2. tenant'.plan = tenant.plan /\ Sends
      BY <2>11, StaysSends DEF CancelTenant, TypeOK
    <3> QED BY <3>1, <3>2, FollowQuiet DEF SameEvent, HookPc
  <2>12. CASE CancelRows(c)
    <3>1. calls[c].pc = "ca_subs" /\ calls'[c].pc = "idle"
      BY <2>12, EndRest DEF CancelRows, At
    <3>2. tenant'.plan = tenant.plan /\ Sends
      BY <2>12, StaysSends DEF CancelRows
    <3> QED BY <3>1, <3>2, FollowQuiet DEF SameEvent, HookPc
  <2>13. CASE CancelUnseen(c)
    <3>1. calls[c].pc = "ca_stripe" /\ calls'[c].pc = "ca_tenant"
      BY <2>13, GotoRest DEF CancelUnseen, At
    <3>2. tenant'.plan = tenant.plan /\ Sends
      BY <2>13, PresumedSends DEF CancelUnseen
    <3> QED BY <3>1, <3>2, FollowQuiet DEF SameEvent, HookPc
  <2> QED BY <1>2, <2>1, <2>2, <2>3, <2>4, <2>5, <2>6, <2>7, <2>8, <2>9, <2>10, <2>11, <2>12, <2>13
      DEF OwnerStep
<1>3. ASSUME NEW c \in Calls, AdminStep(c) PROVE FollowInv'
  <2>1. ASSUME NEW s \in TenantStatus, AdminStatus(c, s) PROVE FollowInv'
    <3>1. calls[c].pc = "idle" /\ calls'[c].pc = "idle"
      BY <2>1 DEF AdminStatus, At
    <3>2. tenant'.plan = tenant.plan /\ Sends
      BY <2>1, StaysSends DEF AdminStatus, TypeOK
    <3> QED BY <3>1, <3>2, FollowQuiet DEF SameEvent, HookPc
  <2>2. ASSUME NEW p \in Plans, NEW sync \in BOOLEAN, OverrideStart(c, p, sync) PROVE FollowInv'
    <3> DEFINE rec == [Idle EXCEPT !.pc = "ov_stripe", !.plan = p]
    <3>1. rec.pc = "ov_stripe"
      BY DEF Idle
    <3> HIDE DEF rec
    <3>2. Start(c, "override", rec) /\ UNCHANGED <<tenant, subs, stripeVars>>
      BY <2>2 DEF OverrideStart, rec
    <3>3. calls[c].pc = "idle" /\ calls'[c].pc = "ov_stripe"
      BY <3>1, <3>2, StartRest
    <3>4. tenant'.plan = tenant.plan /\ Sends
      BY <3>2, StaysSends
    <3> QED BY <3>3, <3>4, FollowQuiet DEF SameEvent, HookPc
  <2>3. CASE OverrideStripe(c)
    <3>1. calls[c].pc = "ov_stripe" /\ calls'[c].pc = "ov_tenant" /\ calls'[c].plan = calls[c].plan
      BY <2>3, GotoRest DEF OverrideStripe, At
    <3>2. /\ tenant'.plan = tenant.plan
          /\ (AlreadyOn(calls[c].plan) /\ UNCHANGED stripeVars) \/ Moves(calls[c].plan)
      BY <2>3 DEF OverrideStripe
    <3> QED BY <3>1, <3>2, FollowBilled
  <2>4. CASE OverrideRefused(c)
    <3>1. calls[c].pc = "ov_stripe" /\ calls'[c].pc = "idle"
      BY <2>4, EndRest DEF OverrideRefused, At
    <3>2. tenant'.plan = tenant.plan /\ Sends
      BY <2>4, StaysSends, MovesSends, CallPlan DEF OverrideRefused
    <3> QED BY <3>1, <3>2, FollowQuiet DEF SameEvent, HookPc
  <2>5. CASE OverrideTenant(c)
    <3>1. /\ calls[c].pc = "ov_tenant" /\ calls'[c].pc = "ov_sub"
          /\ tenant'.plan = calls[c].plan /\ UNCHANGED stripeVars
      BY <2>5, GotoRest DEF OverrideTenant, At, TypeOK
    <3>2. Updates = {} => tenant'.plan \in {sub.plan, sub.meta}
      BY <3>1 DEF FollowInv, PlanInv, PlanOf
    <3> QED BY <3>1, <3>2, FollowWritten DEF SameEvent, HookPc
  <2>6. CASE OverrideRow(c)
    <3>1. calls[c].pc = "ov_sub" /\ calls'[c].pc = "idle"
      BY <2>6, EndRest DEF OverrideRow, At
    <3>2. tenant'.plan = tenant.plan /\ Sends
      BY <2>6, StaysSends DEF OverrideRow
    <3> QED BY <3>1, <3>2, FollowQuiet DEF SameEvent, HookPc
  <2> QED BY <1>3, <2>1, <2>2, <2>3, <2>4, <2>5, <2>6 DEF AdminStep
<1>4. ASSUME NEW c \in Calls, CallCut(c) PROVE FollowInv'
  <2>1. calls[c].pc \in ChangePc \cup CancelPc \cup OverridePc /\ calls'[c].pc = "idle"
    BY <1>4, EndRest DEF CallCut
  <2>2. tenant'.plan = tenant.plan /\ Sends
    BY <1>4, StaysSends DEF CallCut
  <2> QED BY <2>1, <2>2, FollowQuiet DEF SameEvent, HookPc, ChangePc, CancelPc, OverridePc
<1>5. ASSUME UNCHANGED <<tenant, subs, calls>>, Sends PROVE FollowInv'
  <2>1. \A c \in Calls : SameEvent(c) /\ calls'[c] = calls[c]
    BY <1>5 DEF SameEvent
  <2>2. Updates' = {} => Updates = {}
    BY <1>5 DEF Sends, Updates
  <2>3. QueueInv'
    BY <1>5, <2>1, SendsQueue DEF FollowInv
  <2>4. PlanInv'
    <3>1. Updates' = {} /\ (\A c \in Calls : calls'[c].pc # "wh_plan")
            => tenant'.plan \in {sub.plan, sub.meta}
      BY <1>5, <2>1, <2>2 DEF FollowInv, PlanInv, PlanOf, At
    <3>2. \A c \in Calls : calls'[c].pc \in {"cp_tenant", "ov_tenant"} /\ Updates' = {}
            => calls'[c].plan = sub.plan
      BY <2>1, <2>2 DEF FollowInv, PlanInv, PlanOf
    <3> QED BY <1>5, <2>1, <3>1, <3>2, SendsPlan DEF FollowInv
  <2> QED BY <2>3, <2>4 DEF FollowInv
<1>6. CASE StripeStep
  BY <1>5, <1>6, StripeStepSends DEF StripeStep
<1>7. CASE UNCHANGED vars
  BY <1>5, <1>7, StaysSends DEF vars
<1> QED BY <1>1, <1>2, <1>3, <1>4, <1>6, <1>7 DEF Next

LEMMA FollowInit == Init => FollowInv
<1> SUFFICES ASSUME Init PROVE FollowInv
  OBVIOUS
<1>1. events = {} /\ tenant.plan \in {sub.plan, sub.meta} /\ \A c \in Calls : calls[c].pc = "idle"
  BY DEF Init, Idle
<1> QED BY <1>1 DEF FollowInv, QueueInv, PlanInv, PlanOf, Updates, At, HookPc

LEMMA OneRow == ASSUME RowInv PROVE OneActiveRow
<1>1. CASE ActiveRows = {}
  BY <1>1, FS_EmptySet DEF OneActiveRow
<1>2. ASSUME NEW r \in ActiveRows PROVE OneActiveRow
  <2>1. ActiveRows = {r}
    BY DEF RowInv
  <2>2. Cardinality({r}) = 1
    BY FS_Singleton
  <2>3. Cardinality(ActiveRows) = 1
    BY <2>1, <2>2
  <2> QED BY <2>3 DEF OneActiveRow
<1> QED BY <1>1, <1>2

\* change_plan, _sync_plan: with one call at a time, events in order and no plan
\* given away, at most one row is active, and once the queue is empty and no call
\* runs the tenant has the plan that Stripe charges or the one the subscription's
\* metadata names, whatever handler raised, worker died or plan was moved at
\* Stripe's dashboard in between.
THEOREM TenantFollowsStripe ==
  ASSUME OneCall, InOrder, "comp" \notin Ops
  PROVE  Spec => []PlanFollowsStripe
<1>1. TypeOK /\ OpenInv /\ [Next]_vars => OpenInv'
  BY OpenStep
<1>2. TypeOK /\ TypeOK' /\ FollowInv /\ [Next]_vars => FollowInv'
  BY FollowStep
<1>3. OpenInv /\ FollowInv => PlanFollowsStripe
  <2> SUFFICES ASSUME OpenInv, FollowInv PROVE PlanFollowsStripe
    OBVIOUS
  <2>1. OneActiveRow
    BY OneRow DEF OpenInv
  <2>2. Settled => tenant.plan \in {sub.plan, PlanOf(sub)}
    BY DEF Settled, Quiet, Updates, FollowInv, PlanInv, At
  <2> QED BY <2>1, <2>2 DEF PlanFollowsStripe
<1> QED BY <1>1, <1>2, <1>3, OpenInit, FollowInit, TypeCorrect, PTL DEF Spec
=============================================================================
