---------------------------- MODULE SignupProofs ----------------------------
(***************************************************************************)
(* Theorems about Signup, for any number of customers, sign-ups, plans and *)
(* calls at once, with workers that die, database calls that raise and     *)
(* answers of Stripe that are lost; and that it implements Tenancy.        *)
(***************************************************************************)
EXTENDS Signup, TLAPS

-----------------------------------------------------------------------------
\* What a step does to the calls.
Others(c) == \A o \in Calls \ {c} : calls'[o] = calls[o]

LEMMA IdleType == Idle \in CallType
  BY PlaceholdersAssumption, NumbersAssumption
  DEF Idle, CallType, CallFields, Pc, StartPc, InsertedPc, ProvisionPc, RollbackPc, Plans

\* A call that goes on keeps all it holds, and stays on its side of the insert
\* of the tenant.
LEMMA GotoFields ==
  ASSUME TypeOK, NEW c \in Calls, NEW pc \in Pc \ {"idle"}, Goto(c, pc), ~At(c, "idle"),
         pc \in InsertedPc <=> calls[c].pc \in InsertedPc,
         calls[c].pc \in StartPc => pc \in StartPc
  PROVE  /\ calls' \in [Calls -> CallType]
         /\ calls'[c] = [calls[c] EXCEPT !.pc = pc] /\ calls'[c].pc = pc
         /\ Others(c)
<1> DEFINE rec == [calls[c] EXCEPT !.pc = pc]
<1>1. calls[c] \in CallFields /\ calls[c] \in CallType
  BY DEF TypeOK, CallType
<1>2. rec \in CallFields /\ rec.pc = pc /\ rec.email = calls[c].email
      /\ rec.signup = calls[c].signup /\ rec.tenant = calls[c].tenant
  BY <1>1 DEF CallFields
<1>3. rec \in CallType
  BY <1>1, <1>2 DEF CallType, At
<1>4. calls' = [calls EXCEPT ![c] = rec]
  BY DEF Goto
<1> HIDE DEF rec
<1>5. calls' \in [Calls -> CallType] /\ calls'[c] = rec /\ Others(c)
  BY <1>3, <1>4 DEF TypeOK, Others
<1> QED BY <1>2, <1>5 DEF rec

LEMMA EndFields ==
  ASSUME TypeOK, NEW c \in Calls, End(c)
  PROVE  /\ calls' \in [Calls -> CallType]
         /\ calls'[c] = Idle /\ Others(c)
  BY IdleType DEF TypeOK, End, Others

LEMMA StartFields ==
  ASSUME TypeOK, NEW c \in Calls, NEW rec \in CallType, Start(c, rec)
  PROVE  /\ calls' \in [Calls -> CallType]
         /\ calls'[c] = rec /\ Others(c)
  BY DEF Start, TypeOK, Others

LEMMA CallFacts ==
  ASSUME TypeOK, NEW c \in Calls
  PROVE  /\ calls[c].pc \in Pc
         /\ ~At(c, "idle") => calls[c].email \in Emails
         /\ ~At(c, "idle") /\ calls[c].pc \notin StartPc => calls[c].signup \in Signups
         /\ calls[c].pc \in InsertedPc <=> calls[c].tenant \in Tenants
         /\ calls[c].slug \in Slugs \cup {NoSlug} /\ calls[c].plan \in Plans
  BY DEF TypeOK, CallType, CallFields, At

-----------------------------------------------------------------------------
\* Types.
LEMMA BlankType == Blank \in SignupType /\ Blank \in SignupFields
  BY NumbersAssumption DEF Blank, SignupType, SignupFields, Plans

LEMMA RemovedType ==
  ASSUME TypeOK, NEW s \in Signups
  PROVE  Removed(s) \in SignupType
  BY BlankType DEF Removed, SignupType, SignupFields, TypeOK, Blank

LEMMA FlagType ==
  ASSUME TypeOK, NEW s \in Signups
  PROVE  /\ [signup[s] EXCEPT !.verified = TRUE] \in SignupType
         /\ [signup[s] EXCEPT !.password = TRUE] \in SignupType
         /\ [signup[s] EXCEPT !.charged = TRUE] \in SignupType
<1> DEFINE row == signup[s]
<1>1. row \in SignupFields /\ (row.state = "open" => row.email \in Emails)
  BY DEF TypeOK, SignupType
<1> HIDE DEF row
<1>2. LET new == [row EXCEPT !.verified = TRUE]
      IN  new \in SignupFields /\ new.state = row.state /\ new.email = row.email
  BY <1>1 DEF SignupFields
<1>3. LET new == [row EXCEPT !.password = TRUE]
      IN  new \in SignupFields /\ new.state = row.state /\ new.email = row.email
  BY <1>1 DEF SignupFields
<1>4. LET new == [row EXCEPT !.charged = TRUE]
      IN  new \in SignupFields /\ new.state = row.state /\ new.email = row.email
  BY <1>1 DEF SignupFields
<1>5. /\ [row EXCEPT !.verified = TRUE] \in SignupType
      /\ [row EXCEPT !.password = TRUE] \in SignupType
      /\ [row EXCEPT !.charged = TRUE] \in SignupType
  BY <1>1, <1>2, <1>3, <1>4 DEF SignupType
<1> QED BY <1>5 DEF row

LEMMA FillType ==
  ASSUME TypeOK, NEW c \in Calls, NEW s \in Signups, NEW row \in SignupType, Fill(c, s, row)
  PROVE  TypeOK'
  BY DEF TypeOK, Fill, stripeVars, workspaceVars, past

LEMMA TakesType ==
  ASSUME TypeOK, NEW s \in Signups, NEW p \in Plans, Takes(s, p) \/ UNCHANGED stripeVars
  PROVE  key' \in [Signups -> Plans] /\ charges' \in [Signups -> Nat]
  BY DEF TypeOK, Takes, stripeVars

LEMMA FaultType ==
  ASSUME TypeOK, faults < MaxFaults, faults' = faults + 1
  PROVE  faults' \in 0..MaxFaults
  BY NumbersAssumption DEF TypeOK

LEMMA StepsBeforeType ==
  ASSUME TypeOK, NEW c \in Calls, StepsBefore(c)
  PROVE  TypeOK'
<1> USE DEF stripeVars, workspaceVars, past
<1>1. ASSUME NEW e \in Emails, StartSignup(c, e) PROVE TypeOK'
  <2> DEFINE rec == [Idle EXCEPT !.pc = "st_clear", !.email = e]
  <2>1. rec \in CallType
    <3>1. rec \in CallFields /\ rec.pc = "st_clear" /\ rec.email = e /\ rec.tenant = NoTenant
      BY IdleType DEF CallType, CallFields, Idle, Pc
    <3> QED BY <3>1, PlaceholdersAssumption
            DEF CallType, StartPc, InsertedPc, ProvisionPc, RollbackPc
  <2>2. Start(c, rec)
    BY <1>1 DEF StartSignup
  <2> HIDE DEF rec
  <2>3. calls' \in [Calls -> CallType]
    BY <2>1, <2>2, StartFields
  <2> QED BY <1>1, <2>3 DEF StartSignup, TypeOK
<1>2. CASE StartClear(c)
  <2>1. calls' \in [Calls -> CallType]
    <3>1. "st_insert" \in Pc \ {"idle"} /\ "st_insert" \notin InsertedPc /\ "st_clear" \notin InsertedPc
      BY DEF Pc, InsertedPc, ProvisionPc, RollbackPc
    <3> QED BY <1>2, <3>1, GotoFields DEF StartClear, At, StartPc
  <2>2. \A s \in Signups : signup[s].state = "open" => Removed(s) \in SignupType
    BY RemovedType
  <2>3. signup' \in [Signups -> SignupType]
    BY <1>2, <2>2 DEF StartClear, TypeOK
  <2> QED BY <1>2, <2>1, <2>3 DEF StartClear, TypeOK
<1>3. ASSUME NEW s \in Signups, StartInsert(c, s) PROVE TypeOK'
  <2> DEFINE row == [Blank EXCEPT !.state = "open", !.email = calls[c].email]
  <2>1. calls[c].email \in Emails
    BY <1>3, CallFacts DEF StartInsert, At
  <2>2. row \in SignupType
    BY <2>1, BlankType DEF SignupType, SignupFields
  <2>3. signup' = [signup EXCEPT ![s] = row]
    BY <1>3 DEF StartInsert
  <2> HIDE DEF row
  <2>4. signup' \in [Signups -> SignupType]
    BY <2>2, <2>3 DEF TypeOK
  <2>5. calls' \in [Calls -> CallType]
    BY <1>3, EndFields DEF StartInsert
  <2> QED BY <1>3, <2>4, <2>5 DEF StartInsert, TypeOK
<1>4. ASSUME NEW s \in Signups, SetOrganization(c, s) PROVE TypeOK'
  <2>1. PICK slug \in Slugs : Fill(c, s, [signup[s] EXCEPT !.slug = slug])
    BY <1>4 DEF SetOrganization
  <2>2. [signup[s] EXCEPT !.slug = slug] \in SignupType
    BY DEF TypeOK, SignupType, SignupFields
  <2> QED BY <2>1, <2>2, FillType
<1>5. ASSUME NEW s \in Signups, Verify(c, s) PROVE TypeOK'
  <2>1. [signup[s] EXCEPT !.verified = TRUE] \in SignupType
    BY FlagType
  <2> QED BY <1>5, <2>1, FillType DEF Verify
<1>6. ASSUME NEW s \in Signups, Password(c, s) PROVE TypeOK'
  <2>1. [signup[s] EXCEPT !.password = TRUE] \in SignupType
    BY FlagType
  <2> QED BY <1>6, <2>1, FillType DEF Password
<1>7. ASSUME NEW s \in Signups, NEW p \in Plans \ {0}, ChoosePlan(c, s, p) PROVE TypeOK'
  <2>1. [signup[s] EXCEPT !.plan = p] \in SignupType
    BY DEF TypeOK, SignupType, SignupFields
  <2> QED BY <1>7, <2>1, FillType DEF ChoosePlan
<1> QED BY <1>1, <1>2, <1>3, <1>4, <1>5, <1>6, <1>7 DEF StepsBefore

LEMMA CompleteStartFields ==
  ASSUME TypeOK, NEW c \in Calls, NEW s \in Signups, CompleteStart(c, s)
  PROVE  /\ calls' \in [Calls -> CallType] /\ Others(c)
         /\ calls'[c].pc = IF signup[s].charged THEN "cp_tenant" ELSE "cp_charge"
         /\ calls'[c].signup = s /\ calls'[c].plan = signup[s].plan
         /\ calls'[c].tenant = NoTenant
<1> DEFINE pc == IF signup[s].charged THEN "cp_tenant" ELSE "cp_charge"
           rec == [pc |-> pc, signup |-> s, email |-> signup[s].email, slug |-> signup[s].slug,
                   plan |-> signup[s].plan, password |-> signup[s].password, tenant |-> NoTenant]
<1>1. pc \in {"cp_tenant", "cp_charge"}
  OBVIOUS
<1>2. signup[s] \in SignupFields /\ signup[s].email \in Emails
  BY DEF TypeOK, SignupType, CompleteStart
<1> HIDE DEF pc
<1>3. /\ rec \in CallFields /\ rec.pc = pc /\ rec.email \in Emails /\ rec.signup = s
      /\ rec.plan = signup[s].plan /\ rec.tenant = NoTenant
  BY <1>1, <1>2 DEF CallFields, SignupFields, Pc, ProvisionPc
<1>4. Start(c, rec)
  BY DEF CompleteStart, pc
<1> HIDE DEF rec
<1>5. rec \in CallType
  BY <1>1, <1>3, PlaceholdersAssumption DEF CallType, InsertedPc, ProvisionPc, RollbackPc
<1>6. calls' \in [Calls -> CallType] /\ calls'[c] = rec /\ Others(c)
  BY <1>4, <1>5, StartFields
<1> QED BY <1>3, <1>6 DEF pc

LEMMA PaymentType ==
  ASSUME TypeOK, NEW c \in Calls, Payment(c)
  PROVE  TypeOK'
<1> USE DEF stripeVars, workspaceVars, past
<1>1. ASSUME NEW s \in Signups, CompleteStart(c, s) PROVE TypeOK'
  <2>1. calls' \in [Calls -> CallType]
    BY <1>1, CompleteStartFields
  <2> QED BY <1>1, <2>1 DEF CompleteStart, TypeOK
<1>2. CASE Charge(c)
  <2>1. calls' \in [Calls -> CallType]
    BY <1>2, GotoFields DEF Charge, At, Pc, InsertedPc, ProvisionPc, RollbackPc, StartPc
  <2>2. key' \in [Signups -> Plans] /\ charges' \in [Signups -> Nat]
    BY <1>2, TakesType, CallFacts DEF Charge, At, StartPc
  <2> QED BY <1>2, <2>1, <2>2 DEF Charge, TypeOK
<1>3. CASE ChargeFailed(c)
  <2>1. calls' \in [Calls -> CallType]
    BY <1>3, EndFields DEF ChargeFailed
  <2>2. key' \in [Signups -> Plans] /\ charges' \in [Signups -> Nat]
    BY <1>3, TakesType, CallFacts DEF ChargeFailed, At, StartPc
  <2> QED BY <1>3, <2>1, <2>2 DEF ChargeFailed, TypeOK
<1>4. CASE ChargeRecord(c)
  <2>1. calls' \in [Calls -> CallType]
    BY <1>4, GotoFields DEF ChargeRecord, At, Pc, InsertedPc, ProvisionPc, RollbackPc, StartPc
  <2>2. \A s \in Signups : [signup[s] EXCEPT !.charged = TRUE] \in SignupType
    BY FlagType
  <2>3. signup' \in [Signups -> SignupType]
    BY <1>4, <2>2 DEF ChargeRecord, TypeOK
  <2> QED BY <1>4, <2>1, <2>3 DEF ChargeRecord, TypeOK
<1> QED BY <1>1, <1>2, <1>3, <1>4 DEF Payment

LEMMA InsertTenantFields ==
  ASSUME TypeOK, NEW c \in Calls, NEW t \in Tenants, InsertTenant(c, t)
  PROVE  /\ calls' \in [Calls -> CallType] /\ Others(c)
         /\ calls'[c].pc = "cp_build" /\ calls'[c].tenant = t
         /\ calls'[c].email = calls[c].email /\ calls'[c].signup = calls[c].signup
<1> DEFINE rec == [calls[c] EXCEPT !.pc = "cp_build", !.tenant = t]
<1>1. calls[c] \in CallFields /\ calls[c].email \in Emails /\ calls[c].signup \in Signups
  BY DEF TypeOK, CallType, InsertTenant, At, StartPc
<1>2. /\ rec \in CallFields /\ rec.pc = "cp_build" /\ rec.tenant = t
      /\ rec.email = calls[c].email /\ rec.signup = calls[c].signup
  BY <1>1 DEF CallFields, Pc, ProvisionPc
<1>3. calls' = [calls EXCEPT ![c] = rec]
  BY DEF InsertTenant
<1> HIDE DEF rec
<1>4. rec \in CallType
  BY <1>1, <1>2 DEF CallType, StartPc, InsertedPc, ProvisionPc
<1> QED BY <1>2, <1>3, <1>4 DEF TypeOK, Others

LEMMA ProvisioningType ==
  ASSUME TypeOK, NEW c \in Calls, Provisioning(c)
  PROVE  TypeOK'
<1> USE DEF stripeVars, workspaceVars, past
<1>1. ASSUME NEW t \in Tenants, InsertTenant(c, t) PROVE TypeOK'
  <2> DEFINE row == [state |-> "live", slug |-> calls[c].slug, signup |-> calls[c].signup,
                     owner |-> calls[c].email, plan |-> calls[c].plan]
  <2>1. calls' \in [Calls -> CallType]
    BY <1>1, InsertTenantFields
  <2>2. row \in TenantType
    BY <1>1, CallFacts DEF TenantType, TenantFields, InsertTenant, At, StartPc
  <2>3. tenants' = [tenants EXCEPT ![t] = row]
    BY <1>1 DEF InsertTenant
  <2> HIDE DEF row
  <2>4. tenants' \in [Tenants -> TenantType]
    BY <2>2, <2>3 DEF TypeOK
  <2> QED BY <1>1, <2>1, <2>4 DEF InsertTenant, TypeOK
<1>2. CASE SlugTaken(c)
  BY <1>2, EndFields DEF SlugTaken, TypeOK
<1>3. CASE Build(c)
  <2>1. calls' \in [Calls -> CallType]
    BY <1>3, GotoFields DEF Build, At, Pc, InsertedPc, ProvisionPc, RollbackPc, StartPc
  <2>2. calls[c].tenant \in Tenants
    BY <1>3, CallFacts DEF Build, At, InsertedPc, ProvisionPc
  <2> QED BY <1>3, <2>1, <2>2 DEF Build, TypeOK
<1>4. CASE EnterDirectory(c)
  <2>1. calls' \in [Calls -> CallType]
    BY <1>4, GotoFields DEF EnterDirectory, At, Pc, InsertedPc, ProvisionPc, RollbackPc, StartPc
  <2>2. calls[c].tenant \in Tenants
    BY <1>4, CallFacts DEF EnterDirectory, At, InsertedPc, ProvisionPc
  <2> QED BY <1>4, <2>1, <2>2 DEF EnterDirectory, TypeOK
<1>5. CASE InsertSubscription(c)
  <2>1. calls' \in [Calls -> CallType]
    BY <1>5, GotoFields DEF InsertSubscription, At, Pc, InsertedPc, ProvisionPc, RollbackPc, StartPc
  <2>2. calls[c].tenant \in Tenants
    BY <1>5, CallFacts DEF InsertSubscription, At, InsertedPc, ProvisionPc
  <2> QED BY <1>5, <2>1, <2>2 DEF InsertSubscription, TypeOK
<1>6. CASE Complete(c)
  <2>1. calls' \in [Calls -> CallType]
    BY <1>6, GotoFields DEF Complete, At, Pc, InsertedPc, ProvisionPc, RollbackPc, StartPc
  <2>2. calls[c].signup \in Signups /\ calls[c].email \in Emails
    BY <1>6, CallFacts DEF Complete, At, StartPc
  <2>3. signup' \in [Signups -> SignupType]
    <3>1. [signup[calls[c].signup] EXCEPT !.state = "completed"] \in SignupType
      BY <2>2 DEF TypeOK, SignupType, SignupFields
    <3> QED BY <1>6, <2>2, <3>1 DEF Complete, TypeOK
  <2> QED BY <1>6, <2>1, <2>3 DEF Complete, TypeOK
<1>7. CASE Audit(c)
  BY <1>7, EndFields DEF Audit, TypeOK
<1> QED BY <1>1, <1>2, <1>3, <1>4, <1>5, <1>6, <1>7 DEF Provisioning

LEMMA FailureType ==
  ASSUME TypeOK, NEW c \in Calls, Failure(c)
  PROVE  TypeOK'
<1> USE DEF stripeVars, workspaceVars, past
<1>1. CASE Raise(c)
  <2>1. calls' \in [Calls -> CallType]
    BY <1>1, EndFields, GotoFields DEF Raise, At, Pc, InsertedPc, ProvisionPc, RollbackPc, StartPc
  <2> QED BY <1>1, <2>1, FaultType DEF Raise, TypeOK
<1>2. CASE RollbackDatabase(c)
  <2>1. calls' \in [Calls -> CallType]
    BY <1>2, GotoFields DEF RollbackDatabase, At, Pc, InsertedPc, ProvisionPc, RollbackPc, StartPc
  <2> QED BY <1>2, <2>1 DEF RollbackDatabase, TypeOK
<1>3. CASE RollbackTenant(c)
  <2>1. calls' \in [Calls -> CallType]
    BY <1>3, GotoFields DEF RollbackTenant, At, Pc, InsertedPc, ProvisionPc, RollbackPc, StartPc
  <2>2. [NoRow EXCEPT !.state = "gone"] \in TenantType
    BY NumbersAssumption DEF NoRow, TenantType, TenantFields, Plans
  <2> QED BY <1>3, <2>1, <2>2 DEF RollbackTenant, TypeOK
<1>4. CASE RollbackDirectory(c)
  <2>1. calls' \in [Calls -> CallType]
    BY <1>4, GotoFields DEF RollbackDirectory, At, Pc, InsertedPc, ProvisionPc, RollbackPc, StartPc
  <2> QED BY <1>4, <2>1 DEF RollbackDirectory, TypeOK
<1>5. CASE RollbackSubscription(c)
  BY <1>5, EndFields DEF RollbackSubscription, TypeOK
<1>6. CASE RollbackRaises(c)
  <2>1. NextRollback(calls[c].pc) \in RollbackPc
    BY <1>6 DEF RollbackRaises, RollbackPc, NextRollback
  <2>2. calls' \in [Calls -> CallType]
    BY <1>6, <2>1, EndFields, GotoFields
    DEF RollbackRaises, At, Pc, InsertedPc, ProvisionPc, RollbackPc, StartPc
  <2>3. calls[c].tenant \in Tenants
    BY <1>6, CallFacts DEF RollbackRaises, InsertedPc
  <2> QED BY <1>6, <2>2, <2>3, FaultType DEF RollbackRaises, TypeOK
<1>7. CASE CallCut(c)
  <2>1. calls[c].tenant \in Tenants \cup {NoTenant}
    BY DEF TypeOK, CallType, CallFields
  <2> QED BY <1>7, <2>1, EndFields, FaultType DEF CallCut, TypeOK
<1> QED BY <1>1, <1>2, <1>3, <1>4, <1>5, <1>6, <1>7 DEF Failure

LEMMA TypeInit == Init => TypeOK
<1>1. Blank \in SignupType /\ Idle \in CallType
  BY BlankType, IdleType
<1>2. NoRow \in TenantType
  BY NumbersAssumption DEF NoRow, TenantType, TenantFields, Plans
<1> QED BY <1>1, <1>2, NumbersAssumption DEF Init, TypeOK, Plans

LEMMA TypeStep == TypeOK /\ [Next]_vars => TypeOK'
<1> SUFFICES ASSUME TypeOK, [Next]_vars PROVE TypeOK'
  OBVIOUS
<1>1. ASSUME NEW c \in Calls, StepsBefore(c) \/ Payment(c) \/ Provisioning(c) \/ Failure(c)
      PROVE  TypeOK'
  BY <1>1, StepsBeforeType, PaymentType, ProvisioningType, FailureType
<1>2. ASSUME NEW s \in Signups, SignupExpires(s) PROVE TypeOK'
  BY <1>2, RemovedType DEF SignupExpires, TypeOK, stripeVars, workspaceVars, past
<1>3. ASSUME NEW s \in Signups, KeyExpires(s) PROVE TypeOK'
  BY <1>3, NumbersAssumption DEF KeyExpires, TypeOK, workspaceVars, Plans
<1>4. CASE UNCHANGED vars
  BY <1>4 DEF vars, stripeVars, workspaceVars, past, TypeOK
<1> QED BY <1>1, <1>2, <1>3, <1>4 DEF Next

\* Every variable, and all a call holds, is of its type in every state; in
\* particular a call holds a tenant exactly between its insert and the call's end.
THEOREM TypeCorrect == Spec => []TypeOK
  BY TypeInit, TypeStep, PTL DEF Spec

-----------------------------------------------------------------------------
\* Money.  What any step does to what Stripe took and to the keys it knows.
MoneyMoves(s) ==
  \/ key'[s] = key[s] /\ charges'[s] = charges[s] /\ (s \in lapsed' <=> s \in lapsed)
  \/ /\ key[s] = 0 /\ key'[s] # 0 /\ charges'[s] = charges[s] + 1
     /\ s \in lapsed' <=> s \in lapsed
  \/ key[s] # 0 /\ key'[s] = 0 /\ charges'[s] = charges[s] /\ s \in lapsed' \ lapsed

LEMMA TakesMoves ==
  ASSUME TypeOK, NEW s \in Signups, NEW p \in Plans \ {0}, Takes(s, p) \/ UNCHANGED stripeVars,
         lapsed' = lapsed
  PROVE  \A z \in Signups : MoneyMoves(z)
  BY DEF TypeOK, Takes, stripeVars, MoneyMoves

\* A call asks for the money of a plan that was chosen.
PlanInHand == \A c \in Calls : At(c, "cp_charge") => calls[c].plan # 0

LEMMA MoneyStep ==
  ASSUME TypeOK, PlanInHand, [Next]_vars
  PROVE  lapsed \subseteq lapsed' /\ \A s \in Signups : MoneyMoves(s)
<1> USE DEF past
<1>1. CASE UNCHANGED vars
  BY <1>1 DEF vars, stripeVars, MoneyMoves
<1>2. ASSUME NEW c \in Calls, StepsBefore(c) PROVE lapsed' = lapsed /\ UNCHANGED stripeVars
  BY <1>2 DEF StepsBefore, StartSignup, StartClear, StartInsert, SetOrganization, Verify,
              Password, ChoosePlan, Fill
<1>3. ASSUME NEW c \in Calls, Payment(c)
      PROVE  lapsed' = lapsed /\ \A s \in Signups : MoneyMoves(s)
  <2>1. ASSUME Charge(c) \/ ChargeFailed(c) PROVE \A s \in Signups : MoneyMoves(s)
    <3>1. At(c, "cp_charge") /\ calls[c].signup \in Signups /\ calls[c].plan \in Plans \ {0}
      BY <2>1, CallFacts DEF Charge, ChargeFailed, At, StartPc, PlanInHand
    <3> QED BY <2>1, <3>1, TakesMoves DEF Charge, ChargeFailed
  <2>2. ASSUME (\E s \in Signups : CompleteStart(c, s)) \/ ChargeRecord(c)
        PROVE  UNCHANGED stripeVars
    BY <2>2 DEF CompleteStart, ChargeRecord
  <2>3. lapsed' = lapsed
    BY <1>3 DEF Payment, CompleteStart, Charge, ChargeFailed, ChargeRecord
  <2> QED BY <1>3, <2>1, <2>2, <2>3 DEF Payment, MoneyMoves, stripeVars
<1>4. ASSUME NEW c \in Calls, Provisioning(c) PROVE lapsed' = lapsed /\ UNCHANGED stripeVars
  BY <1>4 DEF Provisioning, InsertTenant, SlugTaken, Build, EnterDirectory, InsertSubscription,
              Complete, Audit
<1>5. ASSUME NEW c \in Calls, Failure(c) PROVE lapsed' = lapsed /\ UNCHANGED stripeVars
  BY <1>5 DEF Failure, Raise, RollbackDatabase, RollbackTenant, RollbackDirectory,
              RollbackSubscription, RollbackRaises, CallCut
<1>6. ASSUME NEW s \in Signups, SignupExpires(s) PROVE lapsed' = lapsed /\ UNCHANGED stripeVars
  BY <1>6 DEF SignupExpires
<1>7. ASSUME NEW s \in Signups, KeyExpires(s)
      PROVE  lapsed \subseteq lapsed' /\ \A z \in Signups : MoneyMoves(z)
  BY <1>7 DEF KeyExpires, TypeOK, MoneyMoves
<1>8. lapsed' = lapsed /\ UNCHANGED stripeVars => \A s \in Signups : MoneyMoves(s)
  BY DEF stripeVars, MoneyMoves
<1> QED BY <1>1, <1>2, <1>3, <1>4, <1>5, <1>6, <1>7, <1>8 DEF Next

\* A key that Stripe does not know was never charged under, unless it lapsed.
OnceInv == \A s \in Signups \ lapsed : charges[s] <= 1 /\ (key[s] = 0 => charges[s] = 0)

LEMMA OnceStep ==
  ASSUME TypeOK, PlanInHand, OnceInv, [Next]_vars
  PROVE  OnceInv'
<1>1. lapsed \subseteq lapsed' /\ \A s \in Signups : MoneyMoves(s)
  BY MoneyStep
<1>2. \A s \in Signups : charges[s] \in Nat
  BY DEF TypeOK
<1> QED BY <1>1, <1>2 DEF OnceInv, MoneyMoves

\* What was paid for: a charge noted, a key Stripe knows, a call past the charge
\* and a tenant that is there each say that the customer's money was taken.
PaidSignups == {s \in Signups : charges[s] > 0}
PaidPc == {"cp_record"} \cup ProvisionPc
NotedArePaid == \A s \in Signups : signup[s].charged \/ key[s] # 0 => s \in PaidSignups
CallsArePaid == \A c \in Calls : calls[c].pc \in PaidPc => calls[c].signup \in PaidSignups
LiveArePaid == \A t \in Tenants : Live(t) => tenants[t].signup \in PaidSignups
PaidInv == PlanInHand /\ NotedArePaid /\ CallsArePaid /\ LiveArePaid

LEMMA PaidStays ==
  ASSUME TypeOK, PlanInHand, [Next]_vars
  PROVE  PaidSignups \subseteq PaidSignups'
  BY MoneyStep DEF PaidSignups, TypeOK, MoneyMoves

\* One call moves, and what it comes to hold is paid for.
LEMMA CallsPaidStep ==
  ASSUME PaidInv, NEW c \in Calls, Others(c), PaidSignups \subseteq PaidSignups',
         calls'[c].pc = "cp_charge" => calls'[c].plan # 0,
         calls'[c].pc \in PaidPc => calls'[c].signup \in PaidSignups'
  PROVE  PlanInHand' /\ CallsArePaid'
<1>1. ASSUME NEW d \in Calls
      PROVE  /\ calls'[d].pc = "cp_charge" => calls'[d].plan # 0
             /\ calls'[d].pc \in PaidPc => calls'[d].signup \in PaidSignups'
  <2>1. CASE d = c
    BY <2>1
  <2>2. CASE d # c
    BY <2>2 DEF Others, PaidInv, PlanInHand, CallsArePaid, At
  <2> QED BY <2>1, <2>2
<1> QED BY <1>1 DEF PlanInHand, CallsArePaid, At

\* A step that notes no charge, or only one that was paid.
LEMMA NotedStep ==
  ASSUME TypeOK, PaidInv, [Next]_vars,
         \A s \in Signups : signup'[s].charged => signup[s].charged \/ s \in PaidSignups
  PROVE  NotedArePaid'
<1>1. PaidSignups \subseteq PaidSignups'
  BY PaidStays DEF PaidInv
<1>2. \A s \in Signups : MoneyMoves(s)
  BY MoneyStep DEF PaidInv
<1> QED BY <1>1, <1>2 DEF MoneyMoves, PaidInv, NotedArePaid, PaidSignups, TypeOK

LEMMA FillNotes ==
  ASSUME TypeOK, NEW c \in Calls, NEW s \in Signups, NEW row, Fill(c, s, row),
         row.charged = signup[s].charged
  PROVE  /\ calls' = calls /\ tenants' = tenants
         /\ \A z \in Signups : signup'[z].charged => signup[z].charged
  BY DEF Fill, TypeOK, workspaceVars

LEMMA StepsBeforeNotes ==
  ASSUME TypeOK, NEW c \in Calls, StepsBefore(c)
  PROVE  /\ tenants' = tenants
         /\ \A z \in Signups : signup'[z].charged => signup[z].charged
         /\ \/ calls' = calls
            \/ Others(c) /\ calls'[c].pc \in StartPc \cup {"idle"}
<1> USE DEF workspaceVars
<1>1. ASSUME NEW e \in Emails, StartSignup(c, e) PROVE Others(c) /\ calls'[c].pc = "st_clear"
  BY <1>1 DEF StartSignup, Start, TypeOK, Idle, Others
<1>2. ASSUME StartClear(c) PROVE Others(c) /\ calls'[c].pc = "st_insert"
  BY <1>2 DEF StartClear, Goto, TypeOK, CallType, CallFields, Others
<1>3. ASSUME NEW s \in Signups, StartInsert(c, s) PROVE Others(c) /\ calls'[c].pc = "idle"
  BY <1>3, EndFields DEF StartInsert, Idle
<1>4. ASSUME StartClear(c) PROVE \A z \in Signups : signup'[z].charged => signup[z].charged
  <2>1. \A z \in Signups : ~Removed(z).charged
    BY DEF Removed, Blank
  <2> QED BY <1>4, <2>1 DEF StartClear
<1>5. ASSUME NEW s \in Signups, StartInsert(c, s)
      PROVE  \A z \in Signups : signup'[z].charged => signup[z].charged
  <2> DEFINE row == [Blank EXCEPT !.state = "open", !.email = calls[c].email]
  <2>1. ~row.charged
    BY DEF Blank
  <2>2. signup' = [signup EXCEPT ![s] = row]
    BY <1>5 DEF StartInsert
  <2> HIDE DEF row
  <2> QED BY <2>1, <2>2 DEF TypeOK
<1>6. ASSUME NEW s \in Signups, NEW p \in Plans \ {0},
             SetOrganization(c, s) \/ Verify(c, s) \/ Password(c, s) \/ ChoosePlan(c, s, p)
      PROVE  \E row : Fill(c, s, row) /\ row.charged = signup[s].charged
  <2>1. signup[s] \in SignupFields
    BY DEF TypeOK, SignupType
  <2>2. CASE SetOrganization(c, s)
    <3>1. PICK slug \in Slugs : Fill(c, s, [signup[s] EXCEPT !.slug = slug])
      BY <2>2 DEF SetOrganization
    <3>2. [signup[s] EXCEPT !.slug = slug].charged = signup[s].charged
      BY <2>1 DEF SignupFields
    <3> QED BY <3>1, <3>2
  <2>3. CASE Verify(c, s)
    <3>1. [signup[s] EXCEPT !.verified = TRUE].charged = signup[s].charged
      BY <2>1 DEF SignupFields
    <3> QED BY <2>3, <3>1 DEF Verify
  <2>4. CASE Password(c, s)
    <3>1. [signup[s] EXCEPT !.password = TRUE].charged = signup[s].charged
      BY <2>1 DEF SignupFields
    <3> QED BY <2>4, <3>1 DEF Password
  <2>5. CASE ChoosePlan(c, s, p)
    <3>1. [signup[s] EXCEPT !.plan = p].charged = signup[s].charged
      BY <2>1 DEF SignupFields
    <3> QED BY <2>5, <3>1 DEF ChoosePlan
  <2> QED BY <1>6, <2>2, <2>3, <2>4, <2>5
<1>7. ASSUME NEW e \in Emails, StartSignup(c, e) PROVE UNCHANGED <<signup, tenants>>
  BY <1>7 DEF StartSignup
<1>8. ASSUME StartClear(c) \/ \E s \in Signups : StartInsert(c, s) PROVE tenants' = tenants
  BY <1>8 DEF StartClear, StartInsert
<1>9. ASSUME NEW s \in Signups, NEW p \in Plans \ {0},
             SetOrganization(c, s) \/ Verify(c, s) \/ Password(c, s) \/ ChoosePlan(c, s, p)
      PROVE  /\ calls' = calls /\ tenants' = tenants
             /\ \A z \in Signups : signup'[z].charged => signup[z].charged
  BY <1>6, <1>9, FillNotes
<1>10. 1 \in Plans \ {0}
  BY NumbersAssumption DEF Plans
<1> QED BY <1>1, <1>2, <1>3, <1>4, <1>5, <1>7, <1>8, <1>9, <1>10 DEF StepsBefore, StartPc

LEMMA PaidBefore ==
  ASSUME TypeOK, PaidInv, NEW c \in Calls, StepsBefore(c), [Next]_vars
  PROVE  PaidInv'
<1>1. PaidSignups \subseteq PaidSignups'
  BY PaidStays DEF PaidInv
<1>2. LiveArePaid'
  BY <1>1, StepsBeforeNotes DEF LiveArePaid, Live, PaidInv
<1>3. NotedArePaid'
  BY StepsBeforeNotes, NotedStep
<1>4. PlanInHand' /\ CallsArePaid'
  <2>1. CASE calls' = calls
    BY <1>1, <2>1 DEF PaidInv, PlanInHand, CallsArePaid, At
  <2>2. CASE Others(c) /\ calls'[c].pc \in StartPc \cup {"idle"}
    BY <1>1, <2>2, CallsPaidStep DEF StartPc, PaidPc, ProvisionPc
  <2> QED BY <2>1, <2>2, StepsBeforeNotes
<1> QED BY <1>2, <1>3, <1>4 DEF PaidInv

LEMMA PaidPayment ==
  ASSUME TypeOK, PaidInv, NEW c \in Calls, Payment(c), [Next]_vars
  PROVE  PaidInv'
<1>1. PaidSignups \subseteq PaidSignups'
  BY PaidStays DEF PaidInv
<1>2. LiveArePaid'
  <2>1. tenants' = tenants
    BY DEF Payment, CompleteStart, Charge, ChargeFailed, ChargeRecord, workspaceVars
  <2> QED BY <1>1, <2>1 DEF LiveArePaid, Live, PaidInv
<1>3. ASSUME NEW s \in Signups, CompleteStart(c, s)
      PROVE  NotedArePaid' /\ PlanInHand' /\ CallsArePaid'
  <2>1. signup' = signup /\ signup[s].plan # 0
    BY <1>3 DEF CompleteStart
  <2>2. signup[s].charged => s \in PaidSignups
    BY DEF PaidInv, NotedArePaid
  <2>3. PlanInHand' /\ CallsArePaid'
    BY <1>1, <1>3, <2>1, <2>2, CompleteStartFields, CallsPaidStep DEF PaidPc, ProvisionPc
  <2> QED BY <2>1, <2>3, NotedStep
<1>4. ASSUME Charge(c) PROVE NotedArePaid' /\ PlanInHand' /\ CallsArePaid'
  <2>1. signup' = signup /\ calls[c].signup \in Signups /\ calls[c].plan # 0
    BY <1>4, CallFacts DEF Charge, At, StartPc, PaidInv, PlanInHand
  <2>2. calls[c].signup \in PaidSignups'
    <3>1. charges'[calls[c].signup] > 0
      BY <1>4, <2>1 DEF Charge, Takes, stripeVars, TypeOK, PaidInv, NotedArePaid, PaidSignups
    <3> QED BY <2>1, <3>1 DEF PaidSignups
  <2>3. calls'[c].pc = "cp_record" /\ calls'[c].signup = calls[c].signup /\ Others(c)
    BY <1>4 DEF Charge, Goto, TypeOK, CallType, CallFields, Others
  <2> QED BY <1>1, <2>1, <2>2, <2>3, CallsPaidStep, NotedStep
<1>5. ASSUME ChargeFailed(c) PROVE NotedArePaid' /\ PlanInHand' /\ CallsArePaid'
  <2>1. signup' = signup /\ calls'[c].pc = "idle" /\ Others(c)
    BY <1>5, EndFields DEF ChargeFailed, Idle
  <2> QED BY <1>1, <2>1, CallsPaidStep, NotedStep DEF PaidPc, ProvisionPc
<1>6. ASSUME ChargeRecord(c) PROVE NotedArePaid' /\ PlanInHand' /\ CallsArePaid'
  <2>1. calls[c].signup \in PaidSignups
    BY <1>6 DEF ChargeRecord, At, PaidInv, CallsArePaid, PaidPc
  <2>2. \A s \in Signups : signup'[s].charged => signup[s].charged \/ s \in PaidSignups
    BY <1>6, <2>1 DEF ChargeRecord, TypeOK
  <2>3. calls'[c].pc = "cp_tenant" /\ calls'[c].signup = calls[c].signup /\ Others(c)
    BY <1>6 DEF ChargeRecord, Goto, TypeOK, CallType, CallFields, Others
  <2> QED BY <1>1, <2>1, <2>2, <2>3, CallsPaidStep, NotedStep
<1> QED BY <1>2, <1>3, <1>4, <1>5, <1>6 DEF Payment, PaidInv

\* A call that only goes on, within what is paid for or out of it.
LEMMA PaidGoesOn ==
  ASSUME TypeOK, PaidInv, NEW c \in Calls, [Next]_vars,
         calls[c].pc \in PaidPc \/ calls'[c].pc \notin PaidPc,
         calls'[c].signup = calls[c].signup \/ calls'[c].pc \notin PaidPc,
         calls'[c].pc # "cp_charge", Others(c),
         \A s \in Signups : signup'[s].charged => signup[s].charged,
         \A t \in Tenants : Live(t)' => \/ Live(t) /\ tenants'[t].signup = tenants[t].signup
                                       \/ tenants'[t].signup \in PaidSignups
  PROVE  PaidInv'
<1>1. PaidSignups \subseteq PaidSignups'
  BY PaidStays DEF PaidInv
<1>2. NotedArePaid'
  BY NotedStep
<1>3. PlanInHand' /\ CallsArePaid'
  BY <1>1, CallsPaidStep DEF PaidInv, CallsArePaid
<1>4. LiveArePaid'
  BY <1>1 DEF LiveArePaid, PaidInv
<1> QED BY <1>2, <1>3, <1>4 DEF PaidInv

\* What the provisioning and its failure do to what the money is about.
LEMMA ProvisioningMoves ==
  ASSUME TypeOK, NEW c \in Calls, Provisioning(c) \/ Failure(c)
  PROVE  /\ Others(c)
         /\ \/ calls'[c].pc = "idle"
            \/ calls'[c].pc \in RollbackPc
            \/ /\ calls'[c].pc \in ProvisionPc /\ calls[c].pc \in ProvisionPc
               /\ calls'[c].signup = calls[c].signup
         /\ \A s \in Signups : signup'[s].charged => signup[s].charged
<1> USE DEF Goto, At, TypeOK, CallType, CallFields, Others
<1>1. ASSUME NEW t \in Tenants, InsertTenant(c, t)
      PROVE  /\ Others(c) /\ calls'[c].pc = "cp_build" /\ calls[c].pc = "cp_tenant"
             /\ calls'[c].signup = calls[c].signup /\ signup' = signup
  BY <1>1, InsertTenantFields DEF InsertTenant
<1>2. ASSUME SlugTaken(c) \/ Audit(c) \/ RollbackSubscription(c) \/ CallCut(c)
      PROVE  Others(c) /\ calls'[c].pc = "idle" /\ signup' = signup
  BY <1>2, EndFields DEF SlugTaken, Audit, RollbackSubscription, CallCut, Idle
<1>3. ASSUME Build(c) \/ EnterDirectory(c) \/ InsertSubscription(c)
      PROVE  /\ Others(c) /\ calls[c].pc \in ProvisionPc /\ signup' = signup
             /\ calls'[c].pc \in RollbackPc \/ (calls'[c].pc \in ProvisionPc /\
                                               calls'[c].signup = calls[c].signup)
  BY <1>3 DEF Build, EnterDirectory, InsertSubscription, ProvisionPc, RollbackPc
<1>4. ASSUME Complete(c)
      PROVE  /\ Others(c) /\ calls[c].pc \in ProvisionPc /\ calls'[c].pc \in ProvisionPc
             /\ calls'[c].signup = calls[c].signup
             /\ \A s \in Signups : signup'[s].charged => signup[s].charged
  <2>1. \A s \in Signups : signup[s] \in SignupFields
    BY DEF SignupType
  <2>2. \A s \in Signups : [signup[s] EXCEPT !.state = "completed"].charged = signup[s].charged
    BY <2>1 DEF SignupFields
  <2> QED BY <1>4, <2>2 DEF Complete, ProvisionPc
<1>5. ASSUME Raise(c) PROVE Others(c) /\ calls'[c].pc \in {"idle", "rb_database"} /\ signup' = signup
  BY <1>5, EndFields DEF Raise, Idle
<1>6. ASSUME RollbackDatabase(c) \/ RollbackTenant(c) \/ RollbackDirectory(c)
      PROVE  Others(c) /\ calls'[c].pc \in RollbackPc /\ signup' = signup
  BY <1>6 DEF RollbackDatabase, RollbackTenant, RollbackDirectory, RollbackPc
<1>7. ASSUME RollbackRaises(c)
      PROVE  Others(c) /\ calls'[c].pc \in RollbackPc \cup {"idle"} /\ signup' = signup
  BY <1>7, EndFields DEF RollbackRaises, NextRollback, RollbackPc, Idle
<1> HIDE DEF Goto, At, TypeOK, CallType, CallFields, Others
<1> QED BY <1>1, <1>2, <1>3, <1>4, <1>5, <1>6, <1>7
        DEF Provisioning, Failure, ProvisionPc, RollbackPc

LEMMA PaidProvisioning ==
  ASSUME TypeOK, PaidInv, NEW c \in Calls, Provisioning(c) \/ Failure(c), [Next]_vars
  PROVE  PaidInv'
<1>1. ASSUME NEW t \in Tenants
      PROVE  Live(t)' => \/ Live(t) /\ tenants'[t].signup = tenants[t].signup
                         \/ tenants'[t].signup \in PaidSignups
  <2>1. ASSUME NEW z \in Tenants, InsertTenant(c, z)
        PROVE  t = z => tenants'[t].signup \in PaidSignups
    BY <2>1 DEF InsertTenant, At, TypeOK, PaidInv, CallsArePaid, PaidPc, ProvisionPc
  <2>2. ASSUME NEW z \in Tenants, InsertTenant(c, z) PROVE t # z => tenants'[t] = tenants[t]
    BY <2>2 DEF InsertTenant, TypeOK
  <2>3. ASSUME RollbackTenant(c) PROVE tenants'[t] = tenants[t] \/ tenants'[t].state = "gone"
    <3>1. [NoRow EXCEPT !.state = "gone"].state = "gone"
      BY DEF NoRow
    <3> QED BY <2>3, <3>1 DEF RollbackTenant, TypeOK
  <2>4. \/ tenants' = tenants \/ RollbackTenant(c)
        \/ \E z \in Tenants : InsertTenant(c, z)
    BY DEF Provisioning, Failure, SlugTaken, Build, EnterDirectory, InsertSubscription, Complete,
           Audit, Raise, RollbackDatabase, RollbackDirectory, RollbackSubscription, RollbackRaises,
           CallCut, workspaceVars
  <2> QED BY <2>1, <2>2, <2>3, <2>4 DEF Live
<1>2. PaidPc \cap (RollbackPc \cup {"idle"}) = {} /\ ProvisionPc \subseteq PaidPc
      /\ "cp_charge" \notin ProvisionPc \cup RollbackPc \cup {"idle"}
  BY DEF PaidPc, ProvisionPc, RollbackPc
<1> QED BY <1>1, <1>2, ProvisioningMoves, PaidGoesOn

MoneyInv == OnceInv /\ PaidInv

LEMMA MoneyInvStep == TypeOK /\ MoneyInv /\ [Next]_vars => MoneyInv'
<1> SUFFICES ASSUME TypeOK, MoneyInv, [Next]_vars PROVE MoneyInv'
  OBVIOUS
<1>1. OnceInv'
  BY OnceStep DEF MoneyInv, PaidInv
<1>2. ASSUME NEW c \in Calls, StepsBefore(c) \/ Payment(c) \/ Provisioning(c) \/ Failure(c)
      PROVE  PaidInv'
  BY <1>2, PaidBefore, PaidPayment, PaidProvisioning DEF MoneyInv
<1>3. ASSUME calls' = calls, tenants' = tenants,
             \A s \in Signups : signup'[s].charged => signup[s].charged
      PROVE  PaidInv'
  <2>1. PaidSignups \subseteq PaidSignups' /\ NotedArePaid'
    BY <1>3, PaidStays, NotedStep DEF MoneyInv, PaidInv
  <2> QED BY <1>3, <2>1
          DEF MoneyInv, PaidInv, PlanInHand, CallsArePaid, LiveArePaid, Live, At
<1>4. ASSUME NEW s \in Signups, SignupExpires(s) PROVE PaidInv'
  <2>1. ~Removed(s).charged
    BY DEF Removed, Blank
  <2> QED BY <1>3, <1>4, <2>1 DEF SignupExpires, TypeOK, workspaceVars
<1>5. ASSUME NEW s \in Signups, KeyExpires(s) PROVE PaidInv'
  BY <1>3, <1>5 DEF KeyExpires, workspaceVars
<1>6. ASSUME UNCHANGED vars PROVE PaidInv'
  BY <1>3, <1>6 DEF vars, workspaceVars
<1>7. PaidInv'
  BY <1>2, <1>4, <1>5, <1>6 DEF Next
<1> QED BY <1>1, <1>7 DEF MoneyInv

LEMMA MoneyInit == Init => MoneyInv
<1> SUFFICES ASSUME Init PROVE MoneyInv
  OBVIOUS
<1>1. \A s \in Signups : ~signup[s].charged /\ key[s] = 0 /\ charges[s] = 0
  BY DEF Init, Blank
<1>2. \A c \in Calls : calls[c].pc = "idle"
  BY DEF Init, Idle
<1>3. \A t \in Tenants : tenants[t].state = "unborn"
  BY DEF Init, NoRow
<1> QED BY <1>1, <1>2, <1>3 DEF MoneyInv, OnceInv, PaidInv, PlanInHand, NotedArePaid,
        CallsArePaid, LiveArePaid, Live, At, PaidPc, ProvisionPc

\* The books of Stripe and those of the platform agree, as far as a call in
\* flight lets them.
THEOREM MoneyInvariant == Spec => []MoneyInv
<1>1. Init => TypeOK /\ MoneyInv
  BY TypeInit, MoneyInit
<1>2. TypeOK /\ MoneyInv /\ [Next]_vars => TypeOK' /\ MoneyInv'
  BY TypeStep, MoneyInvStep
<1> QED BY <1>1, <1>2, PTL DEF Spec

\* complete_payment: a sign-up is charged once, whatever calls race or die and
\* whatever answers are lost, unless Stripe forgot a charge never noted here.
THEOREM SignupsAreChargedOnce == Spec => []ChargedOnce
<1>1. MoneyInv => ChargedOnce
  BY DEF MoneyInv, OnceInv, ChargedOnce
<1> QED BY <1>1, MoneyInvariant, PTL

\* README: a tenant is there only when the money of its sign-up was taken.
THEOREM LiveTenantsArePaid == Spec => []TenantsArePaid
<1>1. MoneyInv => TenantsArePaid
  BY DEF MoneyInv, PaidInv, LiveArePaid, PaidSignups, TenantsArePaid
<1> QED BY <1>1, MoneyInvariant, PTL

\* The two together: no charge without a reason, no tenant without a charge.
THEOREM MoneyIsKept == Spec => []MoneyKept
<1>1. ChargedOnce /\ TenantsArePaid => MoneyKept
  BY DEF MoneyKept
<1> QED BY <1>1, SignupsAreChargedOnce, LiveTenantsArePaid, PTL

-----------------------------------------------------------------------------
\* Workspaces.  One call at most is at work on a tenant, and what has been
\* made of it follows from where that call is.
OneHolder == \A c, d \in Calls :
  calls[c].tenant \in Tenants /\ calls[c].tenant = calls[d].tenant => c = d

Entered(t) == \E e \in Emails : directory[e] = t
UnbornUntouched(t) == tenants[t].state = "unborn" => ~AtWork(t) /\ ~Entered(t)

Whole(t) == Live(t) => t \in built /\ t \in billed /\ directory[tenants[t].owner] = t
Settled(t) == t \in cut \/ AtWork(t) \/ (Whole(t) /\ (Entered(t) => Live(t)))

BuiltPc == {"cp_directory", "cp_billed", "cp_done", "cp_audit"}
EnteredPc == {"cp_billed", "cp_done", "cp_audit"}
BilledPc == {"cp_done", "cp_audit"}
Progress(c, t) ==
  /\ calls[c].pc \in ProvisionPc => Live(t) /\ tenants[t].owner = calls[c].email
  /\ calls[c].pc \in BuiltPc => t \in built
  /\ calls[c].pc \in EnteredPc => directory[calls[c].email] = t
  /\ calls[c].pc \in BilledPc => t \in billed
  /\ calls[c].pc \in RollbackPc \ {"rb_database"} => t \in cut \/ t \notin built
  /\ calls[c].pc \in {"rb_directory", "rb_billed"} => t \in cut \/ ~Live(t)
  /\ calls[c].pc = "rb_billed" => t \in cut \/ ~Entered(t)
InProgress == \A c \in Calls : \A t \in Tenants : calls[c].tenant = t => Progress(c, t)

WholeInv == OneHolder /\ InProgress /\ \A t \in Tenants : UnbornUntouched(t) /\ Settled(t)

\* A step that leaves a tenant alone.
Untouched(t) ==
  /\ tenants'[t] = tenants[t]
  /\ t \in built' <=> t \in built
  /\ t \in billed' <=> t \in billed
  /\ t \in cut' <=> t \in cut
  /\ \A e \in Emails : directory'[e] = t <=> directory[e] = t

LEMMA FreeTouchesNothing ==
  ASSUME UNCHANGED <<workspaceVars, cut>>
  PROVE  \A t : Untouched(t)
  BY DEF workspaceVars, Untouched

\* One call moves, and touches the tenant own alone, which no other call holds.
LEMMA WholeStep ==
  ASSUME TypeOK, TypeOK', WholeInv, NEW c \in Calls, Others(c), NEW own,
         calls[c].tenant \in Tenants => calls[c].tenant = own,
         calls'[c].tenant \in Tenants => calls'[c].tenant = own,
         \A d \in Calls \ {c} : calls[d].tenant # own \/ own \notin Tenants,
         \A t \in Tenants \ {own} : Untouched(t),
         own \in Tenants => /\ calls'[c].tenant = own => Progress(c, own)'
                           /\ UnbornUntouched(own)' /\ Settled(own)'
  PROVE  WholeInv'
<1>1. OneHolder'
  <2>1. \A d \in Calls : calls[d] \in CallFields /\ calls'[d] \in CallFields
    BY DEF TypeOK, CallType
  <2> QED BY <2>1 DEF OneHolder, WholeInv, Others
<1>2. InProgress'
  <2> SUFFICES ASSUME NEW d \in Calls, NEW t \in Tenants, calls'[d].tenant = t
               PROVE  Progress(d, t)'
    BY DEF InProgress
  <2>1. CASE d = c
    BY <2>1
  <2>2. CASE d # c
    <3>1. calls'[d] = calls[d] /\ t # own
      BY <2>2 DEF Others
    <3>2. Progress(d, t) /\ Untouched(t)
      BY <3>1 DEF WholeInv, InProgress
    <3>3. calls[d].pc \in InsertedPc /\ calls[d].email \in Emails
      BY <3>1, CallFacts DEF At, InsertedPc, ProvisionPc, RollbackPc
    <3> QED BY <3>1, <3>2, <3>3 DEF Progress, Untouched, Live, Entered
  <2> QED BY <2>1, <2>2
<1>3. ASSUME NEW t \in Tenants PROVE UnbornUntouched(t)' /\ Settled(t)'
  <2>1. CASE t = own
    BY <2>1
  <2>2. CASE t # own
    <3>1. Untouched(t) /\ UnbornUntouched(t) /\ Settled(t)
      BY <2>2 DEF WholeInv
    <3>2. AtWork(t)' <=> AtWork(t)
      BY <2>2 DEF AtWork, Others
    <3>3. Entered(t)' <=> Entered(t)
      BY <3>1 DEF Entered, Untouched
    <3>4. Live(t)' <=> Live(t)
      BY <3>1 DEF Live, Untouched
    <3>5. UnbornUntouched(t)'
      BY <3>1, <3>2, <3>3 DEF UnbornUntouched, Untouched
    <3>6. Whole(t) => Whole(t)'
      <4>1. ASSUME Whole(t), Live(t) PROVE directory'[tenants[t].owner] = t
        <5>1. directory[tenants[t].owner] = t
          BY <4>1 DEF Whole
        <5>2. tenants[t].owner \in Emails
          BY <4>1 DEF Live, TypeOK, TenantType
        <5> QED BY <3>1, <5>1, <5>2 DEF Untouched
      <4> QED BY <3>1, <3>4, <4>1 DEF Whole, Untouched, Live
    <3>7. Settled(t)'
      BY <3>1, <3>2, <3>3, <3>4, <3>6 DEF Settled, Untouched
    <3> QED BY <3>5, <3>7
  <2> QED BY <2>1, <2>2
<1> QED BY <1>1, <1>2, <1>3 DEF WholeInv

\* A call with no tenant before and after leaves the workspaces alone.
LEMMA WholeApart ==
  ASSUME TypeOK, TypeOK', WholeInv, NEW c \in Calls, Others(c), UNCHANGED <<workspaceVars, cut>>,
         calls[c].tenant \notin Tenants, calls'[c].tenant \notin Tenants
  PROVE  WholeInv'
<1>1. \A t \in Tenants : Untouched(t)
  BY FreeTouchesNothing
<1>2. NoTenant \notin Tenants
  BY PlaceholdersAssumption
<1> QED BY <1>1, <1>2, WholeStep

\* The same when no call moves.
LEMMA WholeStill ==
  ASSUME TypeOK, WholeInv, UNCHANGED <<workspaceVars, cut, calls>>
  PROVE  WholeInv'
  BY DEF workspaceVars, WholeInv, OneHolder, InProgress, Progress, UnbornUntouched, Settled,
         Whole, Live, Entered, AtWork

LEMMA ApartSteps ==
  ASSUME TypeOK, TypeOK', WholeInv, NEW c \in Calls, StepsBefore(c) \/ Payment(c)
  PROVE  WholeInv'
<1>1. UNCHANGED <<workspaceVars, cut>>
  BY DEF StepsBefore, StartSignup, StartClear, StartInsert, SetOrganization, Verify, Password,
         ChoosePlan, Fill, Payment, CompleteStart, Charge, ChargeFailed, ChargeRecord, past
<1>2. \/ calls' = calls
      \/ /\ Others(c)
         /\ calls[c].pc \in StartPc \cup {"idle", "cp_charge", "cp_record"}
         /\ calls'[c].pc \in StartPc \cup {"idle", "cp_charge", "cp_record", "cp_tenant"}
  <2>1. ASSUME NEW s \in Signups, CompleteStart(c, s)
        PROVE  /\ Others(c) /\ calls[c].pc = "idle"
               /\ calls'[c].pc \in {"cp_charge", "cp_tenant"}
    BY <2>1, CompleteStartFields DEF CompleteStart, Start, At
  <2>2. ASSUME Charge(c) \/ ChargeRecord(c)
        PROVE  /\ Others(c) /\ calls[c].pc \in {"cp_charge", "cp_record"}
               /\ calls'[c].pc \in {"cp_record", "cp_tenant"}
    BY <2>2 DEF Charge, ChargeRecord, Goto, At, TypeOK, CallType, CallFields, Others
  <2>3. ASSUME ChargeFailed(c)
        PROVE  Others(c) /\ calls[c].pc = "cp_charge" /\ calls'[c].pc = "idle"
    BY <2>3, EndFields DEF ChargeFailed, At, Idle
  <2>4. ASSUME StepsBefore(c)
        PROVE  \/ calls' = calls
               \/ Others(c) /\ calls'[c].pc \in StartPc \cup {"idle"}
    BY <2>4, StepsBeforeNotes
  <2>5. ASSUME StepsBefore(c), calls' # calls PROVE calls[c].pc \in StartPc \cup {"idle"}
    BY <2>5 DEF StepsBefore, StartSignup, StartClear, StartInsert, SetOrganization, Verify,
                Password, ChoosePlan, Fill, Start, At, StartPc
  <2> QED BY <2>1, <2>2, <2>3, <2>4, <2>5 DEF Payment
<1>3. calls' # calls => calls[c].tenant \notin Tenants /\ calls'[c].tenant \notin Tenants
  BY <1>2 DEF TypeOK, CallType, InsertedPc, ProvisionPc, RollbackPc, StartPc
<1> QED BY <1>1, <1>2, <1>3, WholeApart, WholeStill

\* A call at work on its tenant goes on: the tenant stays in its hands.
LEMMA GoesOnWith ==
  ASSUME TypeOK, TypeOK', WholeInv, NEW c \in Calls, NEW t \in Tenants, calls[c].tenant = t,
         Others(c), calls'[c].tenant = t, tenants[t].state = tenants'[t].state \/ tenants'[t].state = "gone",
         \A z \in Tenants \ {t} : Untouched(z), Progress(c, t)'
  PROVE  WholeInv'
<1>1. \A d \in Calls \ {c} : calls[d].tenant # t
  BY DEF WholeInv, OneHolder
<1>2. AtWork(t) /\ AtWork(t)'
  BY DEF AtWork
<1>3. UnbornUntouched(t)' /\ Settled(t)'
  <2>1. tenants[t].state # "unborn"
    BY <1>2 DEF WholeInv, UnbornUntouched
  <2> QED BY <1>2, <2>1 DEF UnbornUntouched, Settled
<1> QED BY <1>1, <1>3, WholeStep

\* A call is done with its tenant.
LEMMA LetsGo ==
  ASSUME TypeOK, TypeOK', WholeInv, NEW c \in Calls, NEW t \in Tenants, calls[c].tenant = t,
         Others(c), calls'[c].tenant \notin Tenants, tenants'[t].state = tenants[t].state,
         \A z \in Tenants \ {t} : Untouched(z),
         t \in cut' \/ (Whole(t)' /\ (Entered(t)' => Live(t)'))
  PROVE  WholeInv'
<1>1. \A d \in Calls \ {c} : calls[d].tenant # t
  BY DEF WholeInv, OneHolder
<1>2. UnbornUntouched(t)' /\ Settled(t)'
  <2>1. tenants[t].state # "unborn"
    BY DEF WholeInv, UnbornUntouched, AtWork
  <2> QED BY <2>1 DEF UnbornUntouched, Settled
<1> QED BY <1>1, <1>2, WholeStep

LEMMA GotoKeeps ==
  ASSUME TypeOK, NEW c \in Calls, NEW pc, Goto(c, pc)
  PROVE  /\ Others(c) /\ calls'[c].pc = pc
         /\ calls'[c].tenant = calls[c].tenant /\ calls'[c].email = calls[c].email
  BY DEF TypeOK, CallType, CallFields, Goto, Others

LEMMA AtWorkFacts ==
  ASSUME TypeOK, WholeInv, NEW c \in Calls, calls[c].pc \in InsertedPc
  PROVE  calls[c].tenant \in Tenants /\ calls[c].email \in Emails /\ Progress(c, calls[c].tenant)
  BY CallFacts DEF At, InsertedPc, ProvisionPc, RollbackPc, WholeInv, InProgress

LEMMA WholeInsert ==
  ASSUME TypeOK, TypeOK', WholeInv, NEW c \in Calls, NEW t \in Tenants, InsertTenant(c, t)
  PROVE  WholeInv'
<1>1. /\ Others(c) /\ calls'[c].pc = "cp_build" /\ calls'[c].tenant = t
      /\ calls'[c].email = calls[c].email
  BY InsertTenantFields
<1>2. calls[c].tenant \notin Tenants /\ calls[c].pc = "cp_tenant"
  BY CallFacts DEF InsertTenant, At, InsertedPc, ProvisionPc, RollbackPc
<1>3. tenants'[t].state = "live" /\ tenants'[t].owner = calls[c].email
  BY DEF InsertTenant, TypeOK
<1>4. \A z \in Tenants \ {t} : Untouched(z)
  BY DEF InsertTenant, TypeOK, Untouched, past
<1>5. \A d \in Calls : calls[d].tenant # t
  BY DEF InsertTenant, WholeInv, UnbornUntouched, AtWork
<1>6. Progress(c, t)'
  BY <1>1, <1>3
  DEF Progress, Live, BuiltPc, EnteredPc, BilledPc, RollbackPc
<1>7. AtWork(t)'
  BY <1>1 DEF AtWork
<1>8. UnbornUntouched(t)' /\ Settled(t)'
  BY <1>3, <1>7 DEF UnbornUntouched, Settled
<1> QED BY <1>1, <1>2, <1>4, <1>5, <1>6, <1>8, WholeStep

LEMMA WholeProvision ==
  ASSUME TypeOK, TypeOK', WholeInv, NEW c \in Calls, Provisioning(c)
  PROVE  WholeInv'
<1> USE DEF past
<1>1. ASSUME NEW t \in Tenants, InsertTenant(c, t) PROVE WholeInv'
  BY <1>1, WholeInsert
<1>2. CASE SlugTaken(c)
  <2>1. /\ UNCHANGED <<workspaceVars, cut>> /\ Others(c) /\ calls'[c].tenant = NoTenant
        /\ calls[c].pc = "cp_tenant"
    BY <1>2, EndFields DEF SlugTaken, Idle, At
  <2>2. calls[c].tenant \notin Tenants
    BY <2>1, CallFacts DEF InsertedPc, ProvisionPc, RollbackPc
  <2> QED BY <2>1, <2>2, WholeApart, PlaceholdersAssumption
<1>3. CASE Build(c)
  <2>1. calls[c].pc = "cp_build"
    BY <1>3 DEF Build, At
  <2>2. PICK t \in Tenants : calls[c].tenant = t /\ Progress(c, t)
    BY <2>1, AtWorkFacts DEF InsertedPc, ProvisionPc
  <2>3. /\ Others(c) /\ calls'[c].tenant = t /\ calls'[c].email = calls[c].email
        /\ \/ calls'[c].pc = "cp_directory" /\ built' = built \cup {t}
           \/ calls'[c].pc = "rb_database" /\ built' = built
    BY <1>3, <2>2, GotoKeeps DEF Build
  <2>4. UNCHANGED <<tenants, directory, billed, cut>>
    BY <1>3 DEF Build
  <2>5. \A z \in Tenants \ {t} : Untouched(z)
    BY <2>3, <2>4 DEF Untouched
  <2>6. Progress(c, t)'
    BY <2>1, <2>2, <2>3, <2>4
    DEF Progress, Live, BuiltPc, EnteredPc, BilledPc, ProvisionPc, RollbackPc
  <2> QED BY <2>2, <2>3, <2>4, <2>5, <2>6, GoesOnWith
<1>4. CASE EnterDirectory(c)
  <2>1. calls[c].pc = "cp_directory"
    BY <1>4 DEF EnterDirectory, At
  <2>2. PICK t \in Tenants : calls[c].tenant = t /\ Progress(c, t)
    BY <2>1, AtWorkFacts DEF InsertedPc, ProvisionPc
  <2>3. PICK e \in Emails : calls[c].email = e
    BY <2>1, AtWorkFacts DEF InsertedPc, ProvisionPc
  <2>4. /\ Others(c) /\ calls'[c].tenant = t /\ calls'[c].email = e
        /\ \/ /\ calls'[c].pc = "cp_billed" /\ directory[e] = NoTenant
              /\ directory' = [directory EXCEPT ![e] = t]
           \/ calls'[c].pc = "rb_database" /\ directory' = directory
    BY <1>4, <2>2, <2>3, GotoKeeps DEF EnterDirectory
  <2>5. UNCHANGED <<tenants, built, billed, cut>>
    BY <1>4 DEF EnterDirectory
  <2>6. \A z \in Tenants \ {t} : Untouched(z)
    BY <2>2, <2>4, <2>5, PlaceholdersAssumption DEF Untouched, TypeOK
  <2>7. Progress(c, t)'
    BY <2>1, <2>2, <2>3, <2>4, <2>5
    DEF Progress, Live, BuiltPc, EnteredPc, BilledPc, ProvisionPc, RollbackPc, TypeOK
  <2> QED BY <2>2, <2>4, <2>5, <2>6, <2>7, GoesOnWith
<1>5. CASE InsertSubscription(c)
  <2>1. calls[c].pc = "cp_billed"
    BY <1>5 DEF InsertSubscription, At
  <2>2. PICK t \in Tenants : calls[c].tenant = t /\ Progress(c, t)
    BY <2>1, AtWorkFacts DEF InsertedPc, ProvisionPc
  <2>3. /\ Others(c) /\ calls'[c].tenant = t /\ calls'[c].email = calls[c].email
        /\ calls'[c].pc = "cp_done" /\ billed' = billed \cup {t}
    BY <1>5, <2>2, GotoKeeps DEF InsertSubscription
  <2>4. UNCHANGED <<tenants, directory, built, cut>>
    BY <1>5 DEF InsertSubscription
  <2>5. \A z \in Tenants \ {t} : Untouched(z)
    BY <2>3, <2>4 DEF Untouched
  <2>6. Progress(c, t)'
    BY <2>1, <2>2, <2>3, <2>4
    DEF Progress, Live, BuiltPc, EnteredPc, BilledPc, ProvisionPc, RollbackPc
  <2> QED BY <2>2, <2>3, <2>4, <2>5, <2>6, GoesOnWith
<1>6. CASE Complete(c)
  <2>1. calls[c].pc = "cp_done"
    BY <1>6 DEF Complete, At
  <2>2. PICK t \in Tenants : calls[c].tenant = t /\ Progress(c, t)
    BY <2>1, AtWorkFacts DEF InsertedPc, ProvisionPc
  <2>3. /\ Others(c) /\ calls'[c].tenant = t /\ calls'[c].email = calls[c].email
        /\ calls'[c].pc = "cp_audit"
    BY <1>6, <2>2, GotoKeeps DEF Complete
  <2>4. UNCHANGED <<workspaceVars, cut>>
    BY <1>6 DEF Complete
  <2>5. \A z \in Tenants \ {t} : Untouched(z)
    BY <2>4, FreeTouchesNothing
  <2>6. Progress(c, t)' /\ tenants' = tenants
    BY <2>1, <2>2, <2>3, <2>4
    DEF Progress, Live, BuiltPc, EnteredPc, BilledPc, ProvisionPc, RollbackPc, workspaceVars
  <2> QED BY <2>2, <2>3, <2>5, <2>6, GoesOnWith
<1>7. CASE Audit(c)
  <2>1. calls[c].pc = "cp_audit"
    BY <1>7 DEF Audit, At
  <2>2. PICK t \in Tenants : calls[c].tenant = t /\ Progress(c, t)
    BY <2>1, AtWorkFacts DEF InsertedPc, ProvisionPc
  <2>3. /\ Others(c) /\ calls'[c].tenant \notin Tenants
    BY <1>7, EndFields, PlaceholdersAssumption DEF Audit, Idle
  <2>4. UNCHANGED <<workspaceVars, cut>>
    BY <1>7 DEF Audit
  <2>5. \A z \in Tenants \ {t} : Untouched(z)
    BY <2>4, FreeTouchesNothing
  <2>6. tenants' = tenants /\ Whole(t)' /\ Live(t)'
    BY <2>1, <2>2, <2>4
    DEF Progress, Whole, Live, BuiltPc, EnteredPc, BilledPc, ProvisionPc, workspaceVars
  <2> QED BY <2>2, <2>3, <2>5, <2>6, LetsGo
<1> QED BY <1>1, <1>2, <1>3, <1>4, <1>5, <1>6, <1>7 DEF Provisioning

LEMMA WholeFailure ==
  ASSUME TypeOK, TypeOK', WholeInv, NEW c \in Calls, Failure(c)
  PROVE  WholeInv'
<1>1. CASE calls[c].pc \notin InsertedPc
  <2>1. Raise(c) \/ CallCut(c)
    BY <1>1 DEF Failure, RollbackDatabase, RollbackTenant, RollbackDirectory, RollbackSubscription,
                RollbackRaises, At, InsertedPc, RollbackPc
  <2>2. calls[c].tenant \notin Tenants /\ calls[c].tenant \in Tenants \cup {NoTenant}
    BY <1>1 DEF TypeOK, CallType, CallFields
  <2>3. Others(c) /\ calls'[c] = Idle
    BY <1>1, <2>1, EndFields DEF Raise, CallCut, At, InsertedPc
  <2>4. UNCHANGED <<workspaceVars, cut>>
    BY <2>1, <2>2 DEF Raise, CallCut
  <2> QED BY <2>2, <2>3, <2>4, WholeApart, PlaceholdersAssumption DEF Idle
<1>2. CASE calls[c].pc \in InsertedPc
  <2>1. PICK t \in Tenants : calls[c].tenant = t /\ Progress(c, t)
    BY <1>2, AtWorkFacts
  <2>2. CASE Raise(c)
    <3>1. /\ Others(c) /\ calls'[c].tenant = t /\ calls'[c].pc = "rb_database"
          /\ UNCHANGED <<workspaceVars, cut>>
      BY <1>2, <2>1, <2>2, GotoKeeps DEF Raise, At, InsertedPc, RollbackPc
    <3>2. Progress(c, t)' /\ tenants' = tenants
      BY <3>1 DEF Progress, BuiltPc, EnteredPc, BilledPc, ProvisionPc, RollbackPc, workspaceVars
    <3>3. \A z \in Tenants : Untouched(z)
      BY <3>1, FreeTouchesNothing
    <3> QED BY <2>1, <3>1, <3>2, <3>3, GoesOnWith
  <2>3. CASE RollbackDatabase(c)
    <3>1. /\ Others(c) /\ calls'[c].tenant = t /\ calls'[c].pc = "rb_tenant"
          /\ built' = built \ {t} /\ UNCHANGED <<tenants, directory, billed, cut>>
      BY <2>1, <2>3, GotoKeeps DEF RollbackDatabase, past
    <3>2. Progress(c, t)'
      BY <3>1 DEF Progress, BuiltPc, EnteredPc, BilledPc, ProvisionPc, RollbackPc
    <3>3. \A z \in Tenants \ {t} : Untouched(z)
      BY <3>1 DEF Untouched
    <3> QED BY <2>1, <3>1, <3>2, <3>3, GoesOnWith
  <2>4. CASE RollbackTenant(c)
    <3>1. /\ Others(c) /\ calls'[c].tenant = t /\ calls'[c].pc = "rb_directory"
          /\ tenants' = [tenants EXCEPT ![t] = [NoRow EXCEPT !.state = "gone"]]
          /\ UNCHANGED <<built, directory, billed, cut>>
      BY <2>1, <2>4, GotoKeeps DEF RollbackTenant, past
    <3>2. [NoRow EXCEPT !.state = "gone"].state = "gone"
      BY DEF NoRow
    <3>3. tenants'[t].state = "gone" /\ \A z \in Tenants \ {t} : tenants'[z] = tenants[z]
      BY <3>1, <3>2 DEF TypeOK
    <3>4. t \in cut \/ t \notin built
      BY <2>1, <2>4 DEF Progress, RollbackTenant, At, RollbackPc
    <3>5. Progress(c, t)'
      BY <3>1, <3>3, <3>4 DEF Progress, Live, BuiltPc, EnteredPc, BilledPc, ProvisionPc, RollbackPc
    <3>6. \A z \in Tenants \ {t} : Untouched(z)
      BY <3>1, <3>3 DEF Untouched
    <3> QED BY <2>1, <3>1, <3>3, <3>5, <3>6, GoesOnWith
  <2>5. CASE RollbackDirectory(c)
    <3>1. /\ Others(c) /\ calls'[c].tenant = t /\ calls'[c].pc = "rb_billed"
          /\ directory' = [e \in Emails |-> IF directory[e] = t THEN NoTenant ELSE directory[e]]
          /\ UNCHANGED <<tenants, built, billed, cut>>
      BY <2>1, <2>5, GotoKeeps DEF RollbackDirectory, past
    <3>2. ~Entered(t)'
      BY <3>1, PlaceholdersAssumption DEF Entered
    <3>3. t \in cut \/ (~Live(t) /\ t \notin built)
      BY <2>1, <2>5 DEF Progress, RollbackDirectory, At, RollbackPc
    <3>4. Progress(c, t)'
      BY <3>1, <3>2, <3>3 DEF Progress, Live, BuiltPc, EnteredPc, BilledPc, ProvisionPc, RollbackPc
    <3>5. \A z \in Tenants \ {t} : Untouched(z)
      BY <3>1, PlaceholdersAssumption DEF Untouched
    <3> QED BY <2>1, <3>1, <3>4, <3>5, GoesOnWith
  <2>6. CASE RollbackSubscription(c)
    <3>1. /\ Others(c) /\ calls'[c].tenant \notin Tenants
          /\ billed' = billed \ {t} /\ UNCHANGED <<tenants, built, directory, cut>>
      BY <2>1, <2>6, EndFields, PlaceholdersAssumption DEF RollbackSubscription, Idle, past
    <3>2. t \in cut \/ (~Live(t) /\ ~Entered(t))
      BY <2>1, <2>6 DEF Progress, RollbackSubscription, At
    <3>3. t \in cut' \/ (Whole(t)' /\ (Entered(t)' => Live(t)'))
      BY <3>1, <3>2 DEF Whole, Live, Entered
    <3>4. \A z \in Tenants \ {t} : Untouched(z)
      BY <3>1 DEF Untouched
    <3> QED BY <2>1, <3>1, <3>3, <3>4, LetsGo
  <2>7. CASE RollbackRaises(c)
    <3>1. cut' = cut \cup {t} /\ UNCHANGED workspaceVars
      BY <2>1, <2>7 DEF RollbackRaises
    <3>2. tenants' = tenants /\ \A z \in Tenants \ {t} : Untouched(z)
      BY <3>1 DEF Untouched, workspaceVars
    <3>3. CASE At(c, "rb_billed")
      <4>1. Others(c) /\ calls'[c].tenant \notin Tenants
        BY <2>7, <3>3, EndFields, PlaceholdersAssumption DEF RollbackRaises, Idle
      <4> QED BY <2>1, <3>1, <3>2, <4>1, LetsGo
    <3>4. CASE ~At(c, "rb_billed")
      <4>1. /\ Others(c) /\ calls'[c].tenant = t
            /\ calls'[c].pc \in {"rb_tenant", "rb_directory", "rb_billed"}
        BY <2>1, <2>7, <3>4, GotoKeeps DEF RollbackRaises, NextRollback
      <4>2. Progress(c, t)'
        BY <3>1, <4>1 DEF Progress, BuiltPc, EnteredPc, BilledPc, ProvisionPc, RollbackPc
      <4> QED BY <2>1, <3>2, <4>1, <4>2, GoesOnWith
    <3> QED BY <3>3, <3>4
  <2>8. CASE CallCut(c)
    <3>1. /\ Others(c) /\ calls'[c].tenant \notin Tenants
          /\ t \in cut' /\ UNCHANGED workspaceVars
          /\ \A z \in Tenants \ {t} : z \in cut' <=> z \in cut
      BY <2>1, <2>8, EndFields, PlaceholdersAssumption DEF CallCut, Idle
    <3>2. tenants' = tenants /\ \A z \in Tenants \ {t} : Untouched(z)
      BY <3>1 DEF Untouched, workspaceVars
    <3> QED BY <2>1, <3>1, <3>2, LetsGo
  <2> QED BY <2>2, <2>3, <2>4, <2>5, <2>6, <2>7, <2>8 DEF Failure
<1> QED BY <1>1, <1>2

LEMMA WholeInvStep == TypeOK /\ TypeOK' /\ WholeInv /\ [Next]_vars => WholeInv'
<1> SUFFICES ASSUME TypeOK, TypeOK', WholeInv, [Next]_vars PROVE WholeInv'
  OBVIOUS
<1>1. ASSUME NEW c \in Calls, StepsBefore(c) \/ Payment(c) \/ Provisioning(c) \/ Failure(c)
      PROVE  WholeInv'
  BY <1>1, ApartSteps, WholeProvision, WholeFailure
<1>2. ASSUME NEW s \in Signups, SignupExpires(s) \/ KeyExpires(s) PROVE WholeInv'
  BY <1>2, WholeStill DEF SignupExpires, KeyExpires, past
<1>3. ASSUME UNCHANGED vars PROVE WholeInv'
  BY <1>3, WholeStill DEF vars, past
<1> QED BY <1>1, <1>2, <1>3 DEF Next

LEMMA WholeInit == Init => WholeInv
<1> SUFFICES ASSUME Init PROVE WholeInv
  OBVIOUS
<1>1. /\ \A c \in Calls : calls[c].tenant \notin Tenants
      /\ \A t \in Tenants : tenants[t].state = "unborn"
      /\ \A e \in Emails : directory[e] \notin Tenants
  BY PlaceholdersAssumption DEF Init, Idle, NoRow
<1> QED BY <1>1 DEF WholeInv, OneHolder, InProgress, UnbornUntouched, Settled, Whole, Live,
        AtWork, Entered

\* complete_payment, _rollback_provisioning: whatever fails, races or is rolled
\* back, a tenant left alone is whole, and an address belongs to one that is there,
\* unless a call was cut short or could not undo what it did.
THEOREM WorkspacesAreWhole == Spec => []WorkspaceWhole
<1>1. Init => TypeOK /\ WholeInv
  BY TypeInit, WholeInit
<1>2. TypeOK /\ WholeInv /\ [Next]_vars => TypeOK' /\ WholeInv'
  BY TypeStep, WholeInvStep
<1>3. TypeOK /\ WholeInv => WorkspaceWhole
  BY DEF WholeInv, Settled, Whole, Entered, WorkspaceWhole, TypeOK
<1> QED BY <1>1, <1>2, <1>3, PTL DEF Spec

-----------------------------------------------------------------------------
\* The promise.  What Stripe took for a sign-up is what it knows of and what it
\* has forgotten.
Known(s) == IF key[s] = 0 THEN 0 ELSE 1
Forgotten(s) == IF s \in lapsed THEN 1 ELSE 0
BankInv == \A s \in Signups : charges[s] = Known(s) + Forgotten(s)

\* A call past its start holds the slug and the plan the workspace will have.
TermsInHand == \A c \in Calls : calls[c].pc \notin StartPc \cup {"idle"} =>
  calls[c].slug \in Slugs /\ calls[c].plan # 0

LEMMA BankStep ==
  ASSUME TypeOK, PlanInHand, BankInv, [Next]_vars
  PROVE  BankInv'
<1> SUFFICES ASSUME NEW s \in Signups PROVE (charges[s] = Known(s) + Forgotten(s))'
  BY DEF BankInv
<1>1. MoneyMoves(s) /\ charges[s] = Known(s) + Forgotten(s)
  BY MoneyStep DEF BankInv
<1>2. charges[s] \in Nat
  BY DEF TypeOK
<1> QED BY <1>1, <1>2 DEF MoneyMoves, Known, Forgotten

\* One call moves, and keeps to its terms, takes them from a sign-up or ends.
LEMMA TermsMove ==
  ASSUME TermsInHand, NEW c \in Calls, Others(c),
         \/ calls'[c].pc \in StartPc \cup {"idle"}
         \/ /\ calls[c].pc \notin StartPc \cup {"idle"}
            /\ calls'[c].slug = calls[c].slug /\ calls'[c].plan = calls[c].plan
         \/ calls'[c].slug \in Slugs /\ calls'[c].plan # 0
  PROVE  TermsInHand'
  BY DEF TermsInHand, Others

LEMMA GotoTerms ==
  ASSUME TypeOK, TermsInHand, NEW c \in Calls, NEW pc, Goto(c, pc),
         calls[c].pc \notin StartPc \cup {"idle"}
  PROVE  TermsInHand'
<1>1. Others(c) /\ calls'[c].slug = calls[c].slug /\ calls'[c].plan = calls[c].plan
  BY DEF TypeOK, CallType, CallFields, Goto, Others
<1> QED BY <1>1, TermsMove

LEMMA EndTerms ==
  ASSUME TypeOK, TermsInHand, NEW c \in Calls, End(c)
  PROVE  TermsInHand'
<1>1. Others(c) /\ calls'[c].pc = "idle"
  BY EndFields DEF Idle
<1> QED BY <1>1, TermsMove

LEMMA TermsPayment ==
  ASSUME TypeOK, TermsInHand, NEW c \in Calls, Payment(c)
  PROVE  TermsInHand'
<1>1. ASSUME NEW s \in Signups, CompleteStart(c, s) PROVE TermsInHand'
  <2>1. calls'[c].slug = signup[s].slug /\ signup[s].slug \in Slugs
    BY <1>1 DEF CompleteStart, Start, TypeOK, SignupType, SignupFields
  <2>2. calls'[c].plan = signup[s].plan /\ signup[s].plan # 0 /\ Others(c)
    BY <1>1, CompleteStartFields DEF CompleteStart
  <2> QED BY <2>1, <2>2, TermsMove
<1>2. CASE Charge(c)
  BY <1>2, GotoTerms DEF Charge, At, StartPc
<1>3. CASE ChargeFailed(c)
  BY <1>3, EndTerms DEF ChargeFailed
<1>4. CASE ChargeRecord(c)
  BY <1>4, GotoTerms DEF ChargeRecord, At, StartPc
<1> QED BY <1>1, <1>2, <1>3, <1>4 DEF Payment

LEMMA TermsProvisioning ==
  ASSUME TypeOK, TermsInHand, NEW c \in Calls, Provisioning(c)
  PROVE  TermsInHand'
<1>1. ASSUME NEW t \in Tenants, InsertTenant(c, t) PROVE TermsInHand'
  <2>1. calls[c].pc \notin StartPc \cup {"idle"}
    BY <1>1 DEF InsertTenant, At, StartPc
  <2>2. Others(c) /\ calls'[c].slug = calls[c].slug /\ calls'[c].plan = calls[c].plan
    BY <1>1 DEF InsertTenant, TypeOK, CallType, CallFields, Others
  <2> QED BY <2>1, <2>2, TermsMove
<1>2. CASE SlugTaken(c) \/ Audit(c)
  BY <1>2, EndTerms DEF SlugTaken, Audit
<1>3. CASE Build(c)
  BY <1>3, GotoTerms DEF Build, At, StartPc
<1>4. CASE EnterDirectory(c)
  BY <1>4, GotoTerms DEF EnterDirectory, At, StartPc
<1>5. CASE InsertSubscription(c)
  BY <1>5, GotoTerms DEF InsertSubscription, At, StartPc
<1>6. CASE Complete(c)
  BY <1>6, GotoTerms DEF Complete, At, StartPc
<1> QED BY <1>1, <1>2, <1>3, <1>4, <1>5, <1>6 DEF Provisioning

LEMMA TermsFailure ==
  ASSUME TypeOK, TermsInHand, NEW c \in Calls, Failure(c)
  PROVE  TermsInHand'
<1>1. CASE Raise(c)
  BY <1>1, EndTerms, GotoTerms DEF Raise, StartPc, ProvisionPc
<1>2. CASE RollbackDatabase(c) \/ RollbackTenant(c) \/ RollbackDirectory(c)
  BY <1>2, GotoTerms DEF RollbackDatabase, RollbackTenant, RollbackDirectory, At, StartPc
<1>3. CASE RollbackSubscription(c) \/ CallCut(c)
  BY <1>3, EndTerms DEF RollbackSubscription, CallCut
<1>4. CASE RollbackRaises(c)
  BY <1>4, EndTerms, GotoTerms DEF RollbackRaises, StartPc, RollbackPc
<1> QED BY <1>1, <1>2, <1>3, <1>4 DEF Failure

LEMMA TermsStep == TypeOK /\ TermsInHand /\ [Next]_vars => TermsInHand'
<1> SUFFICES ASSUME TypeOK, TermsInHand, [Next]_vars PROVE TermsInHand'
  OBVIOUS
<1>1. ASSUME NEW c \in Calls, StepsBefore(c) PROVE TermsInHand'
  <2>1. CASE calls' = calls
    BY <2>1 DEF TermsInHand
  <2>2. CASE Others(c) /\ calls'[c].pc \in StartPc \cup {"idle"}
    BY <2>2, TermsMove
  <2> QED BY <1>1, <2>1, <2>2, StepsBeforeNotes
<1>2. ASSUME NEW s \in Signups, SignupExpires(s) \/ KeyExpires(s) PROVE TermsInHand'
  BY <1>2 DEF SignupExpires, KeyExpires, TermsInHand
<1>3. ASSUME UNCHANGED vars PROVE TermsInHand'
  BY <1>3 DEF vars, TermsInHand
<1> QED BY <1>1, <1>2, <1>3, TermsPayment, TermsProvisioning, TermsFailure DEF Next

\* What the steps of Signup rest on, when they are seen as steps of Tenancy.
PromiseInv == MoneyInv /\ WholeInv /\ BankInv /\ TermsInHand

LEMMA PromiseInit == Init => PromiseInv
<1> SUFFICES ASSUME Init PROVE PromiseInv
  OBVIOUS
<1>1. BankInv
  BY DEF Init, BankInv, Known, Forgotten
<1>2. TermsInHand
  BY DEF Init, TermsInHand, Idle
<1> QED BY <1>1, <1>2, MoneyInit, WholeInit DEF PromiseInv

LEMMA PromiseKept == TypeOK /\ PromiseInv /\ [Next]_vars => PromiseInv'
<1> SUFFICES ASSUME TypeOK, PromiseInv, [Next]_vars PROVE PromiseInv'
  OBVIOUS
<1>1. MoneyInv' /\ WholeInv' /\ TermsInHand'
  BY MoneyInvStep, TypeStep, WholeInvStep, TermsStep DEF PromiseInv
<1>2. BankInv'
  BY BankStep DEF PromiseInv, MoneyInv, PaidInv
<1> QED BY <1>1, <1>2 DEF PromiseInv

\* A step of Signup is a step of Tenancy, or none of its variables moves.
PromiseStep == [Promise!TenancyNext]_(Promise!tenancyVars)
Hidden == UNCHANGED <<charges, lapsed, tenants, built, directory, billed, cut>>

LEMMA HiddenStep == Hidden => PromiseStep
  BY DEF Hidden, PromiseStep, Promise!tenancyVars

LEMMA SignupStep ==
  ASSUME NEW s \in Signups, Promise!Pay(s) \/ Promise!Forget(s)
  PROVE  PromiseStep
  BY DEF PromiseStep, Promise!TenancyNext

LEMMA TenantStep ==
  ASSUME NEW t \in Tenants,
         \/ Promise!Furnish(t) \/ Promise!Rent(t) \/ Promise!Clear(t) \/ Promise!Vacate(t)
         \/ Promise!CloseTo(t) \/ Promise!Release(t) \/ Promise!Wreck(t)
         \/ \E e \in Emails : Promise!OpenTo(e, t)
  PROVE  PromiseStep
  BY DEF PromiseStep, Promise!TenancyNext

\* Stripe takes the money of a sign-up, or answers what it answered before.
LEMMA TakesPay ==
  ASSUME TypeOK, BankInv, NEW s \in Signups, NEW p \in Plans \ {0},
         Takes(s, p) \/ UNCHANGED stripeVars,
         UNCHANGED <<lapsed, tenants, built, directory, billed, cut>>
  PROVE  PromiseStep
<1>1. CASE UNCHANGED charges
  BY <1>1, HiddenStep DEF Hidden
<1>2. CASE key[s] = 0 /\ charges' = [charges EXCEPT ![s] = @ + 1]
  <2>1. charges[s] = Known(s) + Forgotten(s)
    BY DEF BankInv
  <2>2. Known(s) = 0 /\ Forgotten(s) = IF s \in lapsed THEN 1 ELSE 0
    BY <1>2 DEF Known, Forgotten
  <2>3. charges[s] = IF s \in lapsed THEN 1 ELSE 0
    BY <2>1, <2>2
  <2>4. Promise!Pay(s)
    BY <1>2, <2>3 DEF Promise!Pay
  <2> QED BY <2>4, SignupStep
<1> QED BY <1>1, <1>2 DEF Takes, stripeVars

LEMMA PaymentPays ==
  ASSUME TypeOK, PromiseInv, NEW c \in Calls, Payment(c)
  PROVE  PromiseStep
<1> USE DEF past, workspaceVars
<1>1. CASE Charge(c) \/ ChargeFailed(c)
  <2>1. calls[c].signup \in Signups /\ calls[c].plan \in Plans \ {0}
    BY <1>1, CallFacts DEF Charge, ChargeFailed, At, StartPc, PromiseInv, TermsInHand
  <2>2. Takes(calls[c].signup, calls[c].plan) \/ UNCHANGED stripeVars
    BY <1>1 DEF Charge, ChargeFailed
  <2>3. UNCHANGED <<lapsed, tenants, built, directory, billed, cut>>
    BY <1>1 DEF Charge, ChargeFailed
  <2> QED BY <2>1, <2>2, <2>3, TakesPay DEF PromiseInv
<1>2. CASE ChargeRecord(c) \/ \E s \in Signups : CompleteStart(c, s)
  BY <1>2, HiddenStep DEF ChargeRecord, CompleteStart, Hidden, stripeVars
<1> QED BY <1>1, <1>2 DEF Payment

LEMMA KeyForgets ==
  ASSUME TypeOK, BankInv, NEW s \in Signups, KeyExpires(s)
  PROVE  PromiseStep
<1>1. charges[s] = 1
  BY DEF BankInv, Known, Forgotten, KeyExpires
<1>2. Promise!Forget(s)
  BY <1>1 DEF KeyExpires, Promise!Forget, workspaceVars
<1> QED BY <1>2, SignupStep

\* The insert of a tenant lets it, for a sign-up that was paid for.
LEMMA InsertLets ==
  ASSUME TypeOK, PromiseInv, NEW c \in Calls, NEW t \in Tenants, InsertTenant(c, t)
  PROVE  PromiseStep
<1>1. PICK s \in Signups, e \in Emails, slug \in Slugs, p \in 1..MaxPlan :
        calls[c].signup = s /\ calls[c].email = e /\ calls[c].slug = slug /\ calls[c].plan = p
  <2>1. calls[c].pc = "cp_tenant" /\ "cp_tenant" \notin StartPc \cup {"idle"}
    BY DEF InsertTenant, At, StartPc
  <2>2. calls[c].signup \in Signups /\ calls[c].email \in Emails /\ calls[c].plan \in Plans
    BY <2>1, CallFacts DEF At
  <2>3. calls[c].slug \in Slugs /\ calls[c].plan # 0
    BY <2>1 DEF PromiseInv, TermsInHand
  <2>4. calls[c].plan \in 1..MaxPlan
    BY <2>2, <2>3, NumbersAssumption DEF Plans
  <2> QED BY <2>2, <2>3, <2>4
<1>2. charges[s] > 0
  BY <1>1 DEF InsertTenant, At, PromiseInv, MoneyInv, PaidInv, CallsArePaid, PaidPc, ProvisionPc,
              PaidSignups
<1>3. Promise!LetTo(t, s, e, slug, p)
  BY <1>1, <1>2 DEF InsertTenant, Taken, Promise!LetTo, Promise!IsLet, past, stripeVars
<1> QED BY <1>3 DEF PromiseStep, Promise!TenancyNext

LEMMA ProvisioningFurnishes ==
  ASSUME TypeOK, PromiseInv, NEW c \in Calls, Provisioning(c)
  PROVE  PromiseStep
<1> USE DEF past, stripeVars
<1>1. ASSUME NEW t \in Tenants, InsertTenant(c, t) PROVE PromiseStep
  BY <1>1, InsertLets
<1>2. CASE SlugTaken(c) \/ Complete(c) \/ Audit(c)
  BY <1>2, HiddenStep DEF SlugTaken, Complete, Audit, Hidden, workspaceVars
<1>3. CASE Build(c)
  <2>1. PICK t \in Tenants : calls[c].tenant = t /\ Progress(c, t)
    BY <1>3, AtWorkFacts DEF Build, At, InsertedPc, ProvisionPc, PromiseInv
  <2>2. CASE calls[c].password
    <3>1. Promise!Furnish(t)
      BY <1>3, <2>1, <2>2
      DEF Build, At, Progress, Live, ProvisionPc, Promise!Furnish, Promise!IsLet
    <3> QED BY <3>1, TenantStep
  <2>3. CASE ~calls[c].password
    BY <1>3, <2>3, HiddenStep DEF Build, Hidden
  <2> QED BY <2>2, <2>3
<1>4. CASE EnterDirectory(c)
  <2>1. PICK t \in Tenants, e \in Emails :
          calls[c].tenant = t /\ calls[c].email = e /\ Progress(c, t)
    BY <1>4, AtWorkFacts DEF EnterDirectory, At, InsertedPc, ProvisionPc, PromiseInv
  <2>2. CASE directory[e] = NoTenant
    <3>1. Promise!OpenTo(e, t)
      BY <1>4, <2>1, <2>2
      DEF EnterDirectory, At, Progress, Live, ProvisionPc, BuiltPc, Promise!OpenTo, Promise!IsLet
    <3> QED BY <3>1, TenantStep
  <2>3. CASE directory[e] # NoTenant
    BY <1>4, <2>1, <2>3, HiddenStep DEF EnterDirectory, Hidden
  <2> QED BY <2>2, <2>3
<1>5. CASE InsertSubscription(c)
  <2>1. PICK t \in Tenants : calls[c].tenant = t /\ Progress(c, t)
    BY <1>5, AtWorkFacts DEF InsertSubscription, At, InsertedPc, ProvisionPc, PromiseInv
  <2>2. Promise!Rent(t)
    BY <1>5, <2>1
    DEF InsertSubscription, At, Progress, Live, ProvisionPc, BuiltPc, EnteredPc,
        Promise!Rent, Promise!IsLet
  <2> QED BY <2>2, TenantStep
<1> QED BY <1>1, <1>2, <1>3, <1>4, <1>5 DEF Provisioning

LEMMA FailureClears ==
  ASSUME TypeOK, PromiseInv, NEW c \in Calls, Failure(c)
  PROVE  PromiseStep
<1> USE DEF past, stripeVars
<1>1. CASE Raise(c)
  BY <1>1, HiddenStep DEF Raise, Hidden, workspaceVars
<1>2. CASE calls[c].pc \in InsertedPc
  <2>1. PICK t \in Tenants : calls[c].tenant = t /\ Progress(c, t)
    BY <1>2, AtWorkFacts DEF PromiseInv
  <2>2. tenants[t].state # "unborn"
    BY <2>1 DEF PromiseInv, WholeInv, UnbornUntouched, AtWork
  <2>3. CASE RollbackDatabase(c)
    BY <2>1, <2>2, <2>3, TenantStep DEF RollbackDatabase, Promise!Clear
  <2>4. CASE RollbackTenant(c)
    <3>1. [NoRow EXCEPT !.state = "gone"] = [Promise!Unlet EXCEPT !.state = "gone"]
      BY DEF NoRow, Promise!Unlet
    <3>2. t \notin built \/ t \in cut
      BY <2>1, <2>4 DEF Progress, RollbackTenant, At, RollbackPc
    <3> QED BY <2>1, <2>2, <2>4, <3>1, <3>2, TenantStep DEF RollbackTenant, Promise!Vacate
  <2>5. CASE RollbackDirectory(c)
    BY <2>1, <2>5, TenantStep
    DEF RollbackDirectory, At, Progress, Live, Promise!CloseTo, Promise!IsLet
  <2>6. CASE RollbackSubscription(c)
    BY <2>1, <2>6, TenantStep
    DEF RollbackSubscription, At, Progress, Live, Entered, Promise!Release, Promise!IsLet,
        Promise!Opened
  <2>7. CASE RollbackRaises(c) \/ CallCut(c)
    <3>1. cut' = cut \cup {t}
      BY <2>1, <2>7, PlaceholdersAssumption DEF RollbackRaises, CallCut
    <3> QED BY <2>2, <2>7, <3>1, TenantStep
            DEF RollbackRaises, CallCut, Promise!Wreck, workspaceVars
  <2> QED BY <1>1, <2>3, <2>4, <2>5, <2>6, <2>7 DEF Failure
<1>3. CASE calls[c].pc \notin InsertedPc
  <2>1. Raise(c) \/ CallCut(c)
    BY <1>3 DEF Failure, RollbackDatabase, RollbackTenant, RollbackDirectory, RollbackSubscription,
                RollbackRaises, At, InsertedPc, RollbackPc
  <2>2. calls[c].tenant = NoTenant
    BY <1>3 DEF TypeOK, CallType, CallFields
  <2> QED BY <1>1, <2>1, <2>2, HiddenStep DEF CallCut, Hidden, workspaceVars
<1> QED BY <1>2, <1>3

LEMMA StepsKeepPromise == TypeOK /\ PromiseInv /\ [Next]_vars => PromiseStep
<1> SUFFICES ASSUME TypeOK, PromiseInv, [Next]_vars PROVE PromiseStep
  OBVIOUS
<1>1. ASSUME NEW c \in Calls, StepsBefore(c) PROVE PromiseStep
  <2>1. Hidden
    BY <1>1 DEF StepsBefore, StartSignup, StartClear, StartInsert, SetOrganization, Verify,
                Password, ChoosePlan, Fill, past, stripeVars, workspaceVars, Hidden
  <2> QED BY <2>1, HiddenStep
<1>2. ASSUME NEW s \in Signups, SignupExpires(s) PROVE PromiseStep
  BY <1>2, HiddenStep DEF SignupExpires, past, stripeVars, workspaceVars, Hidden
<1>3. ASSUME NEW s \in Signups, KeyExpires(s) PROVE PromiseStep
  BY <1>3, KeyForgets DEF PromiseInv
<1>4. CASE UNCHANGED vars
  BY <1>4, HiddenStep DEF vars, past, stripeVars, workspaceVars, Hidden
<1> QED BY <1>1, <1>2, <1>3, <1>4, PaymentPays, ProvisioningFurnishes, FailureClears DEF Next

\* The sign-up, with its calls that race, fail and die at any of their steps,
\* does what Tenancy does in single steps (auth/service.py:216): it pays, lets,
\* furnishes and clears in the order that is promised there.
THEOREM SignupImplementsTenancy == Spec => ImplementsTenancy
<1>1. Init => TypeOK /\ PromiseInv
  BY TypeInit, PromiseInit
<1>2. TypeOK /\ PromiseInv /\ [Next]_vars => TypeOK' /\ PromiseInv'
  BY TypeStep, PromiseKept
<1>3. Init => Promise!TenancyInit
  BY DEF Init, NoRow, Promise!TenancyInit, Promise!Unlet
<1>4. TypeOK /\ PromiseInv /\ [Next]_vars => [Promise!TenancyNext]_(Promise!tenancyVars)
  BY StepsKeepPromise DEF PromiseStep
<1> HIDE DEF Init, Next, TypeOK, PromiseInv
<1> QED BY <1>1, <1>2, <1>3, <1>4, PTL DEF Spec, ImplementsTenancy, Promise!TenancySpec
=============================================================================
