------------------------------ MODULE Workspace ------------------------------
(***************************************************************************)
(* One organization and its subscription: the status and the plan of the   *)
(* tenant, the rows of `subscriptions`, and the Stripe subscription they   *)
(* follow.  The owner changes the plan or cancels, administrators set the  *)
(* status or override the plan, and the webhook applies what Stripe says.  *)
(*                                                                         *)
(* Source: app/modules/webhooks/router.py (the handlers; the claim around  *)
(* them is in InvoiceLedger, so here an event is handled at most once and  *)
(* a handler that raises gets it again), app/modules/subscriptions/        *)
(* router.py, app/modules/admin/organizations.py and                       *)
(* app/services/stripe_service.py.  A plan is its rank among the tiers;    *)
(* the billing cycle moves with it.                                        *)
(***************************************************************************)
EXTENDS Naturals, FiniteSets

CONSTANTS
  Calls,     \* slots for deliveries and API calls in flight
  NoEvent,   \* placeholder
  MaxPlan,   \* the plans are 1..MaxPlan, a larger number being more of everything
  MaxEvents, \* bound on the events Stripe sends
  Rows,      \* ids of subscriptions rows, minted in order: they bound the plan changes
  Ops,       \* what the owner and the administrators do, a subset of AllOps
  InOrder,   \* Stripe delivers the events in the order it sent them
  MayFail    \* a worker may die in an API call; a webhook handler may raise

AllOps == {"change", "cancel", "status", "close", "override", "comp", "dashboard"}

ASSUME PlanAssumption == MaxPlan \in Nat \ {0} /\ MaxEvents \in Nat
ASSUME RowsAssumption == Rows \subseteq Nat
ASSUME FlagsAssumption == InOrder \in BOOLEAN /\ MayFail \in BOOLEAN

VARIABLES
  tenant,  \* the tenant's status and plan
  subs,    \* subs[r]: the subscriptions row r
  sub,     \* the subscription at Stripe: its state, the plan it charges, and the
           \* plan its metadata names
  events,  \* the events sent and not yet handled
  emitted, \* how many events Stripe has sent
  presumed, \* history: a running subscription was taken for one that is gone
  calls    \* the calls in flight

stripeVars == <<sub, events, emitted, presumed>>
vars == <<tenant, subs, stripeVars, calls>>

Plans == 1..MaxPlan
\* "pending" stands for the two statuses of a signup under way, which only an
\* administrator can put back; nothing writes awaiting_approval any more.
TenantStatus == {"pending", "active", "past_due", "suspended", "expired", "cancelled"}
PaidRestoresFrom == {"past_due", "expired"}
FailureAppliesTo == {"active", "past_due"}
CancelAppliesTo == {"active", "past_due", "expired"}
ClosedToPlanChanges == {"suspended", "cancelled"}

SubState == {"active", "past_due", "canceled"}
EventKind == {"invoice_paid", "invoice_failed", "updated", "deleted"}
EventType == [n: 1..MaxEvents, kind: EventKind, state: SubState, plan: Plans]

ASSUME PlaceholderAssumption == NoEvent \notin EventType

ChangePc == {"cp_live", "cp_bill", "cp_tenant", "cp_supersede", "cp_insert"}
CancelPc == {"ca_stripe", "ca_tenant", "ca_subs"}
OverridePc == {"ov_stripe", "ov_tenant", "ov_sub"}
HookPc == {"wh_plan", "wh_subplan", "wh_subs", "wh_status", "wh_write"}
Pc == {"idle"} \cup ChangePc \cup CancelPc \cup OverridePc \cup HookPc

\* What a call holds: the plan it wants, the tenant's status as it read it, the
\* event it handles, the status it is about to write.
CallFields == [pc: Pc, plan: Plans, seen: TenantStatus,
               event: EventType \cup {NoEvent}, next: TenantStatus]
CallType == {r \in CallFields : r.pc \in HookPc => r.event \in EventType}
Idle == [pc |-> "idle", plan |-> 1, seen |-> "active",
         event |-> NoEvent, next |-> "active"]

RowStates == {"unborn", "active", "superseded", "cancelled"}
ActiveRows == {r \in Rows : subs[r].state = "active"}
Unborn == {r \in Rows : subs[r].state = "unborn"}

Init ==
  /\ tenant = [status |-> "active", plan |-> 1]
  /\ \E r0 \in Rows :
       /\ \A r \in Rows : r0 <= r
       /\ subs = [r \in Rows |-> [state |-> IF r = r0 THEN "active" ELSE "unborn", plan |-> 1]]
  /\ sub = [state |-> "active", plan |-> 1, meta |-> 1]
  /\ events = {}
  /\ emitted = 0
  /\ presumed = FALSE
  /\ calls = [c \in Calls |-> Idle]

At(c, pc) == calls[c].pc = pc
Goto(c, pc) == calls' = [calls EXCEPT ![c].pc = pc]
End(c) == calls' = [calls EXCEPT ![c] = Idle]
Start(c, op, rec) == op \in Ops /\ At(c, "idle") /\ calls' = [calls EXCEPT ![c] = rec]

-----------------------------------------------------------------------------
\* _plan_from_subscription: the plan the subscription's own metadata names, which
\* every subscription this API creates or moves carries; the Price's is not
\* looked at then.
PlanOf(s) == s.meta

\* Stripe, as its events show it.  Every event carries what the subscription
\* was when it was sent.
Send(kinds, s) ==
  /\ emitted + Cardinality(kinds) <= MaxEvents
  /\ emitted' = emitted + Cardinality(kinds)
  /\ \E f \in [kinds -> emitted + 1 .. emitted'] :
       /\ \A k, l \in kinds : f[k] = f[l] => k = l
       /\ events' = events \cup
            {[n |-> f[k], kind |-> k, state |-> s.state, plan |-> PlanOf(s)] : k \in kinds}
  /\ sub' = s
  /\ UNCHANGED presumed

With(state) == [sub EXCEPT !.state = state]

CardFails  == sub.state = "active"   /\ Send({"invoice_failed", "updated"}, With("past_due"))
CardClears == sub.state = "past_due" /\ Send({"invoice_paid", "updated"}, With("active"))
Renew      == sub.state = "active"   /\ Send({"invoice_paid"}, sub)
GivesUp    == sub.state = "past_due" /\ Send({"deleted"}, With("canceled"))

\* A move at Stripe's dashboard: another Price, the same metadata.
Dashboard(p) == /\ "dashboard" \in Ops
                /\ sub.state # "canceled" /\ p # sub.plan
                /\ Send({"updated"}, [sub EXCEPT !.plan = p])

StripeStep ==
  /\ CardFails \/ CardClears \/ Renew \/ GivesUp \/ \E p \in Plans : Dashboard(p)
  /\ UNCHANGED <<tenant, subs, calls>>

-----------------------------------------------------------------------------
\* The webhook.  The tenant is read once, before the first write.
Deliver(c, e) ==
  /\ e \in events
  /\ InOrder => \A o \in events : e.n <= o.n
  /\ InOrder => \A o \in Calls : calls[o].event = NoEvent
  /\ At(c, "idle")
  /\ calls' = [calls EXCEPT ![c] = [Idle EXCEPT !.event = e, !.seen = tenant.status,
        !.pc = CASE e.kind = "updated" /\ e.plan # tenant.plan -> "wh_plan"
                 [] e.kind = "deleted" -> "wh_subs"
                 [] OTHER -> "wh_status"]]
  /\ events' = events \ {e}
  /\ UNCHANGED <<tenant, subs, sub, emitted, presumed>>

\* _sync_plan: the tenant's plan, then that of its active rows.
SyncPlanTenant(c) ==
  /\ At(c, "wh_plan")
  /\ tenant' = [tenant EXCEPT !.plan = calls[c].event.plan]
  /\ Goto(c, "wh_subplan")
  /\ UNCHANGED <<subs, stripeVars>>

SetPlans(rs, p) == subs' = [r \in Rows |-> IF r \in rs THEN [subs[r] EXCEPT !.plan = p] ELSE subs[r]]
SetStates(rs, s) == subs' = [r \in Rows |-> IF r \in rs THEN [subs[r] EXCEPT !.state = s] ELSE subs[r]]

SyncPlanRows(c) ==
  /\ At(c, "wh_subplan")
  /\ SetPlans(ActiveRows, calls[c].event.plan)
  /\ Goto(c, "wh_status")
  /\ UNCHANGED <<tenant, stripeVars>>

\* _on_subscription_deleted: the rows first.
DeletedRows(c) ==
  /\ At(c, "wh_subs")
  /\ SetStates(ActiveRows, "cancelled")
  /\ Goto(c, "wh_status")
  /\ UNCHANGED <<tenant, stripeVars>>

\* What an event makes of the status, and from where.
Verdict(e) ==
  CASE e.kind = "invoice_paid"   -> [to |-> "active",    from |-> PaidRestoresFrom]
    [] e.kind = "invoice_failed" -> [to |-> "past_due",  from |-> FailureAppliesTo]
    [] e.kind = "deleted"        -> [to |-> "cancelled", from |-> CancelAppliesTo]
    [] e.state = "past_due"      -> [to |-> "past_due",  from |-> FailureAppliesTo]
    [] OTHER                     -> [to |-> "active",    from |-> PaidRestoresFrom]

\* _set_status asks the tenant the handler read, then writes by its id.
SetStatus(c) ==
  /\ At(c, "wh_status")
  /\ LET v == Verdict(calls[c].event) IN
     IF calls[c].seen \in v.from
     THEN calls' = [calls EXCEPT ![c].pc = "wh_write", ![c].next = v.to] ELSE End(c)
  /\ UNCHANGED <<tenant, subs, stripeVars>>

SetStatusWrite(c) ==
  /\ At(c, "wh_write")
  /\ tenant' = [tenant EXCEPT !.status = calls[c].next]
  /\ End(c)
  /\ UNCHANGED <<subs, stripeVars>>

\* The handler raises, the claim is released, Stripe delivers the event again.
Raise(c) ==
  /\ MayFail
  /\ calls[c].pc \in HookPc
  /\ events' = events \cup {calls[c].event}
  /\ End(c)
  /\ UNCHANGED <<tenant, subs, sub, emitted, presumed>>

-----------------------------------------------------------------------------
\* change_plan: check, bill, and only then write.  (The row it will insert is
\* the bound on the plan changes.)

\* Mutant: a workspace that was closed may buy its way back.
ChangeStartClosed(c, p) ==
  /\ Unborn # {}
  /\ Start(c, "change", [Idle EXCEPT !.pc = "cp_live", !.plan = p])
  /\ UNCHANGED <<tenant, subs, stripeVars>>

ChangeStart(c, p) ==
  /\ tenant.status \notin ClosedToPlanChanges
  /\ Unborn # {}
  /\ Start(c, "change", [Idle EXCEPT !.pc = "cp_live", !.plan = p])
  /\ UNCHANGED <<tenant, subs, stripeVars>>

\* Mutant: compared the wrong way round.
ChangeLiveBackwards(c) ==
  /\ At(c, "cp_live")
  /\ IF ActiveRows = {} THEN Goto(c, "cp_bill")
     ELSE \E r \in ActiveRows :
            IF calls[c].plan > subs[r].plan THEN End(c) ELSE Goto(c, "cp_bill")
  /\ UNCHANGED <<tenant, subs, stripeVars>>

\* A subscription that runs only moves up.
ChangeLive(c) ==
  /\ At(c, "cp_live")
  /\ IF ActiveRows = {} THEN Goto(c, "cp_bill")
     ELSE \E r \in ActiveRows :
            IF calls[c].plan < subs[r].plan THEN End(c) ELSE Goto(c, "cp_bill")
  /\ UNCHANGED <<tenant, subs, stripeVars>>

\* change_subscription_plan: a subscription on that Price already is a success,
\* whatever its state; a move is one only when it leaves the subscription active.
AlreadyOn(p) == sub.plan = p
Moves(p) == /\ sub.state # "canceled" /\ ~AlreadyOn(p)
            /\ Send({"updated"}, [sub EXCEPT !.plan = p, !.meta = p])

\* Mutant: our own records move whatever Stripe makes of it.
ChangeBillLocal(c) ==
  /\ At(c, "cp_bill")
  /\ Goto(c, "cp_tenant")
  /\ UNCHANGED <<tenant, subs, stripeVars>>

ChangeBill(c) ==
  /\ At(c, "cp_bill")
  /\ \/ AlreadyOn(calls[c].plan) /\ UNCHANGED stripeVars
     \/ sub.state = "active" /\ Moves(calls[c].plan)
  /\ Goto(c, "cp_tenant")
  /\ UNCHANGED <<tenant, subs>>

\* Refused, not reachable, moved without an answer, or moved and still unpaid.
ChangeRefused(c) ==
  /\ At(c, "cp_bill")
  /\ UNCHANGED stripeVars \/ Moves(calls[c].plan)
  /\ End(c)
  /\ UNCHANGED <<tenant, subs>>

ChangeTenant(c) ==
  /\ At(c, "cp_tenant")
  /\ tenant' = [status |-> "active", plan |-> calls[c].plan]
  /\ Goto(c, "cp_supersede")
  /\ UNCHANGED <<subs, stripeVars>>

\* Mutant: the row of the plan left behind is forgotten.
ChangeSupersedeNone(c) ==
  /\ At(c, "cp_supersede")
  /\ Goto(c, "cp_insert")
  /\ UNCHANGED <<tenant, subs, stripeVars>>

ChangeSupersede(c) ==
  /\ At(c, "cp_supersede")
  /\ SetStates(ActiveRows, "superseded")
  /\ Goto(c, "cp_insert")
  /\ UNCHANGED <<tenant, stripeVars>>

ChangeInsert(c) ==
  /\ At(c, "cp_insert")
  /\ \E r \in Unborn :
       /\ \A q \in Unborn : r <= q
       /\ subs' = [subs EXCEPT ![r] = [state |-> "active", plan |-> calls[c].plan]]
  /\ End(c)
  /\ UNCHANGED <<tenant, stripeVars>>

-----------------------------------------------------------------------------
\* cancel, by the owner: Stripe first.
CancelStart(c) ==
  /\ Start(c, "cancel", [Idle EXCEPT !.pc = "ca_stripe"])
  /\ UNCHANGED <<tenant, subs, stripeVars>>

\* Mutant: Stripe's refusal does not stop the call.
CancelStripeAnyway(c) ==
  /\ At(c, "ca_stripe")
  /\ Goto(c, "ca_tenant")
  /\ UNCHANGED <<tenant, subs, stripeVars>>

CancelStripe(c) ==
  /\ At(c, "ca_stripe")
  /\ IF sub.state = "canceled" THEN UNCHANGED stripeVars
     ELSE Send({"deleted"}, With("canceled"))
  /\ Goto(c, "ca_tenant")
  /\ UNCHANGED <<tenant, subs>>

\* Stripe refuses the cancellation and the retrieve that would tell raises, for
\* whatever reason (a key of another account, Stripe not answering): the
\* subscription is taken for one that bills nobody.
CancelUnseen(c) ==
  /\ At(c, "ca_stripe")
  /\ presumed' = (presumed \/ sub.state # "canceled")
  /\ Goto(c, "ca_tenant")
  /\ UNCHANGED <<tenant, subs, sub, events, emitted>>

CancelRefused(c) ==
  /\ At(c, "ca_stripe")
  /\ \/ UNCHANGED stripeVars
     \/ sub.state # "canceled" /\ Send({"deleted"}, With("canceled"))
  /\ End(c)
  /\ UNCHANGED <<tenant, subs>>

CancelTenant(c) ==
  /\ At(c, "ca_tenant")
  /\ tenant' = [tenant EXCEPT !.status = "cancelled"]
  /\ Goto(c, "ca_subs")
  /\ UNCHANGED <<subs, stripeVars>>

CancelRows(c) ==
  /\ At(c, "ca_subs")
  /\ SetStates(ActiveRows, "cancelled")
  /\ End(c)
  /\ UNCHANGED <<tenant, stripeVars>>

-----------------------------------------------------------------------------
\* Administrators.  set_status writes what it is told ("close": also cancelled).
AdminStatus(c, s) ==
  /\ "status" \in Ops /\ (s = "cancelled" => "close" \in Ops)
  /\ At(c, "idle")
  /\ tenant' = [tenant EXCEPT !.status = s]
  /\ UNCHANGED <<subs, stripeVars, calls>>

\* override_plan, moving the Stripe subscription too or ("comp") not.
OverrideStart(c, p, sync) ==
  /\ sync \/ "comp" \in Ops
  /\ Start(c, "override", [Idle EXCEPT !.pc = IF sync THEN "ov_stripe" ELSE "ov_tenant",
                                       !.plan = p])
  /\ UNCHANGED <<tenant, subs, stripeVars>>

OverrideStripe(c) ==
  /\ At(c, "ov_stripe")
  /\ \/ AlreadyOn(calls[c].plan) /\ UNCHANGED stripeVars
     \/ sub.state = "active" /\ Moves(calls[c].plan)
  /\ Goto(c, "ov_tenant")
  /\ UNCHANGED <<tenant, subs>>

OverrideRefused(c) ==
  /\ At(c, "ov_stripe")
  /\ UNCHANGED stripeVars \/ Moves(calls[c].plan)
  /\ End(c)
  /\ UNCHANGED <<tenant, subs>>

OverrideTenant(c) ==
  /\ At(c, "ov_tenant")
  /\ tenant' = [tenant EXCEPT !.plan = calls[c].plan]
  /\ Goto(c, "ov_sub")
  /\ UNCHANGED <<subs, stripeVars>>

\* update_one: one active row, if there is any.
OverrideRow(c) ==
  /\ At(c, "ov_sub")
  /\ \/ \E r \in ActiveRows : SetPlans({r}, calls[c].plan)
     \/ ActiveRows = {} /\ UNCHANGED subs
  /\ End(c)
  /\ UNCHANGED <<tenant, stripeVars>>

\* A worker dies in an API call.
CallCut(c) ==
  /\ MayFail
  /\ calls[c].pc \in ChangePc \cup CancelPc \cup OverridePc
  /\ End(c)
  /\ UNCHANGED <<tenant, subs, stripeVars>>

-----------------------------------------------------------------------------
HookStep(c) ==
  \/ \E e \in events : Deliver(c, e)
  \/ SyncPlanTenant(c) \/ SyncPlanRows(c) \/ DeletedRows(c)
  \/ SetStatus(c) \/ SetStatusWrite(c) \/ Raise(c)

OwnerStep(c) ==
  \/ \E p \in Plans : ChangeStart(c, p)
  \/ ChangeLive(c) \/ ChangeBill(c) \/ ChangeRefused(c) \/ ChangeTenant(c)
  \/ ChangeSupersede(c) \/ ChangeInsert(c)
  \/ CancelStart(c) \/ CancelStripe(c) \/ CancelUnseen(c) \/ CancelRefused(c)
  \/ CancelTenant(c) \/ CancelRows(c)

AdminStep(c) ==
  \/ \E s \in TenantStatus : AdminStatus(c, s)
  \/ \E p \in Plans, sync \in BOOLEAN : OverrideStart(c, p, sync)
  \/ OverrideStripe(c) \/ OverrideRefused(c) \/ OverrideTenant(c) \/ OverrideRow(c)

Next == StripeStep \/ \E c \in Calls : HookStep(c) \/ OwnerStep(c) \/ AdminStep(c) \/ CallCut(c)

Spec == Init /\ [][Next]_vars

-----------------------------------------------------------------------------
\* Types.
TypeOK ==
  /\ tenant \in [status: TenantStatus, plan: Plans]
  /\ subs \in [Rows -> [state: RowStates, plan: Plans]]
  /\ sub \in [state: SubState, plan: Plans, meta: Plans]
  /\ events \subseteq EventType
  /\ emitted \in 0..MaxEvents
  /\ presumed \in BOOLEAN
  /\ calls \in [Calls -> CallType]

Quiet == \A c \in Calls : calls[c].pc = "idle"
Settled == Quiet /\ events = {}

\* cancel: a workspace that reads "cancelled" is not charged any more, unless an
\* administrator wrote the word (which never reaches Stripe), or the cancellation
\* was refused and what was refused could not be seen.
CancelledNotBilled == tenant.status = "cancelled" => sub.state = "canceled" \/ presumed

\* CancelledNotBilled as an inductive invariant: whoever is about to write
\* "cancelled" got it from Stripe, or presumed it, and Stripe never takes a
\* cancellation back.
CancelInv ==
  /\ CancelledNotBilled
  /\ \A e \in events : e.kind = "deleted" => sub.state = "canceled"
  /\ \A c \in Calls :
       /\ calls[c].event # NoEvent /\ calls[c].event.kind = "deleted" => sub.state = "canceled"
       /\ At(c, "ca_tenant") => sub.state = "canceled" \/ presumed
       /\ At(c, "wh_write") /\ calls[c].next = "cancelled" => sub.state = "canceled"

\* cancel_subscription answered True: "nothing will be billed again"
\* (stripe_service.py:656).  No run checks it, and TLC refutes it: a retrieve that
\* raises counts as a subscription that is gone (stripe_service.py:647-649).
TrueMeansStopped == \A c \in Calls : At(c, "ca_tenant") => sub.state = "canceled"

\* webhooks, rule 3, and change_plan: a suspended or cancelled organization
\* stays so until an administrator says otherwise.
OpensByAdmin ==
  tenant.status \in ClosedToPlanChanges /\ tenant'.status \notin ClosedToPlanChanges
    => \E c \in Calls, s \in TenantStatus : AdminStatus(c, s)

\* change_plan: the plan before is superseded, so the active row is the one the
\* next change is measured against.
OneActiveRow == Cardinality(ActiveRows) <= 1

\* change_plan: a live subscription can only move up.
MovesUp ==
  \A c \in Calls : ChangeTenant(c) => \A r \in ActiveRows : subs[r].plan <= tenant'.plan

\* Both, of every step: a closed workspace is reopened by an administrator
\* only, and its owner's change of a running plan is a rise
\* (webhooks/router.py:42, subscriptions/router.py:71).
ChangesAllowed == [][OpensByAdmin /\ MovesUp]_vars

\* change_plan, _sync_plan: at most one row of the workspace is active, and once
\* every event is in the workspace has the plan that Stripe charges for, or the
\* one the subscription's metadata names: the two part only by a move at Stripe's
\* dashboard, and the webhook keeps to the metadata.
PlanFollowsStripe == OneActiveRow /\ (Settled => tenant.plan \in {sub.plan, PlanOf(sub)})

\* _sync_plan: "Follow a plan change made at Stripe rather than through this API"
\* (webhooks/router.py:189).  No run checks it, and TLC refutes it: the event of
\* the move still names the plan of the old metadata (webhooks/router.py:168-178).
DashboardFollowed == Settled => tenant.plan = sub.plan

\* What makes PlanFollowsStripe inductive, one call at a time and with events in
\* order.  The rows: a row is added when none is active.  The plan: the last
\* update on its way names the plan of the metadata, as the handler about to write
\* it does; when none is on its way the tenant has that plan or the one that is
\* charged, and a call about to write a plan has the latter.
OneCall == \A c, o \in Calls : c = o
Updates == {e \in events : e.kind = "updated"}

RowInv ==
  /\ \A r, q \in ActiveRows : r = q
  /\ \A c \in Calls : At(c, "cp_insert") => ActiveRows = {}

QueueInv ==
  /\ \A e \in events : e.n <= emitted
  /\ \A e, o \in events : e.n = o.n => e = o
  /\ \A c \in Calls : calls[c].pc \in HookPc =>
       calls[c].event.n <= emitted /\ \A o \in events : calls[c].event.n < o.n

PlanInv ==
  /\ \A e \in Updates : (\A o \in Updates : o.n <= e.n) => e.plan = PlanOf(sub)
  /\ Updates = {} /\ (\A c \in Calls : ~At(c, "wh_plan")) => tenant.plan \in {sub.plan, PlanOf(sub)}
  /\ \A c \in Calls :
       /\ At(c, "wh_plan") => calls[c].event.kind = "updated"
       /\ calls[c].pc \in HookPc /\ calls[c].event.kind = "updated" /\ Updates = {}
            => calls[c].event.plan = PlanOf(sub)
       /\ calls[c].pc \in {"cp_tenant", "ov_tenant"} /\ Updates = {} => calls[c].plan = sub.plan

\* What makes ChangesAllowed follow, one call at a time: the status a handler
\* read is the tenant's still, a plan change runs in an open workspace, and what
\* it is billed for is no less than what runs.
StatusInv ==
  \A c \in Calls :
    /\ calls[c].pc \in HookPc => calls[c].seen = tenant.status
    /\ calls[c].pc \in {"wh_write", "cp_live", "cp_bill", "cp_tenant"}
         => tenant.status \notin ClosedToPlanChanges
    /\ calls[c].pc \in {"cp_bill", "cp_tenant"}
         => \A r \in ActiveRows : subs[r].plan <= calls[c].plan

\* change_plan: the workspace is put back into service only by a subscription
\* that is paid.
ActiveMeansPaid ==
  [][\A c \in Calls : ChangeTenant(c) /\ tenant.status # "active" => sub.state = "active"]_vars
=============================================================================
