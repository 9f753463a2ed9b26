---------------------------- MODULE PeopleProofs ----------------------------
(***************************************************************************)
(* Theorems about People, for any values of its constants.  The first      *)
(* section is Membership, for any number of accounts, addresses, tokens,   *)
(* seats and calls in flight; each later one is another desk.  XOK is the  *)
(* type invariant of the module at desk X with the invariant that makes it *)
(* inductive, of the variables v1 to v7; XFacts takes it apart into        *)
(* predicates of those variables, XKept puts it together again after a     *)
(* step, XInit and XStep are the two halves of its proof.  SignIn and      *)
(* Caseload are proved once for whatever desk d keeps their assumptions.   *)
(* The theorems about the desks are in the last section.                   *)
(***************************************************************************)
EXTENDS People, FiniteSetTheorems, TLAPS

-----------------------------------------------------------------------------
\* Membership: users, directory, working and calls.

LEMMA IdleType == Idle \in CallType
  BY DEF Idle, CallType, Pc, AllRoles

LEMMA RowType == NoRow \in UserType
  BY DEF NoRow, UserType, AllRoles

LEMMA EndType ==
  ASSUME TypeOK, NEW c \in Calls, End(c) PROVE calls' \in [Calls -> CallType]
  BY IdleType DEF End, TypeOK

LEMMA GotoType ==
  ASSUME TypeOK, NEW c \in Calls, NEW pc \in Pc, Goto(c, pc)
  PROVE  calls' \in [Calls -> CallType]
<1>1. [calls[c] EXCEPT !.pc = pc] \in CallType
  BY DEF TypeOK, CallType
<1> QED BY <1>1 DEF Goto, TypeOK

LEMMA TypeInit == Init => TypeOK
  BY IdleType, RowType DEF Init, TypeOK, NoEntry, EntryType

LEMMA IssueType == ASSUME TypeOK, NEW c \in Calls, NEW t \in Tokens, Issue(c, t) PROVE TypeOK'
<1> DEFINE e == calls[c].email
<1>1. calls[c].user \in Users \cup {NoUser} /\ e \in Emails \cup {NoEmail}
  BY DEF TypeOK, CallType
<1>2. CASE e \in Emails
  <2>1. directory[e].id \in Tokens \cup {NoToken}
    BY <1>2 DEF TypeOK, EntryType
  <2>2. Issued(e, calls[c].user, t) \in EntryType
    BY <1>1, <2>1 DEF Issued, EntryType
  <2> QED BY <1>2, <2>2, EndType DEF Issue, TypeOK
<1>3. CASE e \notin Emails
  <2>1. directory' = directory
    BY <1>3 DEF Issue, TypeOK
  <2> QED BY <2>1, EndType DEF Issue, TypeOK
<1> QED BY <1>2, <1>3

\* An account, and one on its way in, has an address and a workspace.
Placed ==
  /\ \A u \in Users : Exists(u) => users[u].email \in Emails /\ users[u].space \in Spaces
  /\ \A c \in Calls : At(c, "in_insert") => calls[c].email \in Emails /\ calls[c].space \in Spaces

LEMMA TypeStep == MembershipAssumption /\ TypeOK /\ Placed /\ [Next]_vars => TypeOK'
<1> SUFFICES ASSUME MembershipAssumption, TypeOK, Placed, [Next]_vars PROVE TypeOK'
  OBVIOUS
<1>1. ASSUME NEW c \in Calls, NEW e \in Emails, NEW r \in Roles, NEW w \in Spaces,
             InviteStart(c, e, r, w)
      PROVE  TypeOK'
  <2>1. [Idle EXCEPT !.pc = "in_insert", !.role = r, !.email = e, !.space = w] \in CallType
    BY DEF MembershipAssumption, Idle, CallType, Pc, AllRoles
  <2> QED BY <1>1, <2>1 DEF InviteStart, TypeOK
<1>2. ASSUME NEW c \in Calls, NEW u \in Users, InviteInsert(c, u) PROVE TypeOK'
  <2>1. [calls[c] EXCEPT !.pc = "in_issue", !.user = u] \in CallType
    BY DEF TypeOK, CallType, Pc
  <2>2. [status |-> "invited", role |-> calls[c].role, email |-> calls[c].email,
         space |-> calls[c].space, password |-> FALSE] \in UserType
    BY DEF TypeOK, CallType, UserType, UserStatus
  <2> QED BY <1>2, <2>1, <2>2 DEF InviteInsert, TypeOK
<1>3. ASSUME NEW c \in Calls, InviteRefused(c) PROVE TypeOK'
  BY <1>3, EndType DEF InviteRefused, TypeOK
<1>4. ASSUME NEW c \in Calls, NEW t \in Tokens, InviteIssue(c, t) \/ ResendIssue(c, t)
      PROVE  TypeOK'
  BY <1>4, IssueType DEF InviteIssue, ResendIssue
<1>5. ASSUME NEW c \in Calls, NEW u \in Users, ResendStart(c, u) PROVE TypeOK'
  <2>1. users[u].email \in Emails \cup {NoEmail}
    BY DEF TypeOK, UserType
  <2>2. users[u].email \in Emails
    BY <1>5 DEF ResendStart, Placed, Exists
  <2>3. directory[users[u].email].user \in Users \cup {NoUser}
    BY <2>2 DEF TypeOK, EntryType
  <2>4. [Idle EXCEPT !.pc = "re_issue", !.email = users[u].email,
                     !.user = directory[users[u].email].user] \in CallType
    BY <2>2, <2>3 DEF Idle, CallType, Pc, AllRoles
  <2> QED BY <1>5, <2>4 DEF ResendStart, TypeOK
<1>6. ASSUME NEW e \in Emails, Expire(e) PROVE TypeOK'
  <2>1. [directory[e] EXCEPT !.expired = TRUE] \in EntryType
    BY DEF TypeOK, EntryType
  <2> QED BY <1>6, <2>1 DEF Expire, TypeOK
<1>7. ASSUME NEW c \in Calls, NEW e \in Emails, AcceptStart(c, e) PROVE TypeOK'
  <2>1. [Idle EXCEPT !.pc = "ac_burn", !.email = e, !.user = directory[e].user,
                     !.token = directory[e].token, !.entry = directory[e].id] \in CallType
    BY DEF TypeOK, EntryType, Idle, CallType, Pc, AllRoles
  <2> QED BY <1>7, <2>1 DEF AcceptStart, TypeOK
<1>8. ASSUME NEW c \in Calls, AcceptBurn(c) PROVE TypeOK'
  <2>1. \A e \in Emails : [directory[e] EXCEPT !.token = NoToken, !.expired = FALSE] \in EntryType
    BY DEF TypeOK, EntryType
  <2>2. directory' \in [Emails -> EntryType]
    BY <1>8, <2>1 DEF AcceptBurn, TypeOK
  <2>3. calls' \in [Calls -> CallType]
    BY <1>8, GotoType DEF AcceptBurn, Pc
  <2> QED BY <1>8, <2>2, <2>3 DEF AcceptBurn, TypeOK
<1>9. ASSUME NEW c \in Calls, AcceptWrite(c) PROVE TypeOK'
  <2>1. \A u \in Users : [users[u] EXCEPT !.status = "active", !.password = TRUE] \in UserType
    BY DEF TypeOK, UserType, UserStatus
  <2>2. users' \in [Users -> UserType]
    BY <1>9, <2>1 DEF AcceptWrite, TypeOK
  <2> QED BY <1>9, <2>2, EndType DEF AcceptWrite, TypeOK
<1>10. ASSUME NEW u \in Users, NEW s \in {"active", "suspended"}, SetStatus(u, s) PROVE TypeOK'
  <2>1. [users[u] EXCEPT !.status = s] \in UserType
    BY DEF TypeOK, UserType, UserStatus
  <2> QED BY <1>10, <2>1 DEF SetStatus, TypeOK
<1>11. ASSUME NEW u \in Users, Work(u) PROVE TypeOK'
  BY <1>11 DEF Work, TypeOK
<1>12. ASSUME NEW c \in Calls, NEW u \in Users, RevokeStart(c, u) PROVE TypeOK'
  <2>1. users[u].email \in Emails \cup {NoEmail}
    BY DEF TypeOK, UserType
  <2>2. [Idle EXCEPT !.pc = "rv_user", !.user = u, !.email = users[u].email] \in CallType
    BY <2>1 DEF Idle, CallType, Pc, AllRoles
  <2> QED BY <1>12, <2>2 DEF RevokeStart, TypeOK
<1>13. ASSUME NEW c \in Calls, RevokeUser(c) PROVE TypeOK'
  <2>1. calls' \in [Calls -> CallType]
    BY <1>13, GotoType DEF RevokeUser, Pc
  <2> QED BY <1>13, <2>1, RowType DEF RevokeUser, TypeOK
<1>14. ASSUME NEW c \in Calls, RevokeEntry(c) PROVE TypeOK'
  <2>1. NoEntry \in EntryType
    BY DEF NoEntry, EntryType
  <2> QED BY <1>14, <2>1, EndType DEF RevokeEntry, TypeOK
<1> QED
  BY <1>1, <1>2, <1>3, <1>4, <1>5, <1>6, <1>7, <1>8, <1>9, <1>10, <1>11, <1>12, <1>13, <1>14
  DEF Next, Step, vars, TypeOK

LEMMA PlacedInit == Init => Placed
  BY DEF Init, Placed, Exists, At, NoRow, Idle

LEMMA PlacedStep == TypeOK /\ Placed /\ [Next]_vars => Placed'
<1> SUFFICES ASSUME TypeOK, Placed, [Next]_vars PROVE Placed'
  OBVIOUS
<1> USE DEF Placed, Exists, At
<1>1. ASSUME NEW c \in Calls, NEW e \in Emails, NEW r \in Roles, NEW w \in Spaces,
             InviteStart(c, e, r, w)
      PROVE  Placed'
  BY <1>1 DEF InviteStart, Idle, TypeOK
<1>2. ASSUME NEW c \in Calls, NEW u \in Users, InviteInsert(c, u) PROVE Placed'
  <2>1. \A v \in Users \ {u} : users'[v] = users[v]
    BY <1>2 DEF InviteInsert, TypeOK
  <2>2. users'[u].email = calls[c].email /\ users'[u].space = calls[c].space
    BY <1>2 DEF InviteInsert, TypeOK
  <2>3. \A o \in Calls : calls'[o].pc = "in_insert" => calls'[o] = calls[o]
    BY <1>2 DEF InviteInsert, TypeOK, CallType
  <2> QED BY <1>2, <2>1, <2>2, <2>3 DEF InviteInsert
<1>3. ASSUME NEW c \in Calls, NEW u \in Users, ResendStart(c, u) \/ RevokeStart(c, u) PROVE Placed'
  BY <1>3 DEF ResendStart, RevokeStart, Idle, TypeOK
<1>4. ASSUME NEW c \in Calls, NEW t \in Tokens, InviteIssue(c, t) \/ ResendIssue(c, t) PROVE Placed'
  BY <1>4 DEF InviteIssue, ResendIssue, Issue, End, Idle, TypeOK
<1>5. ASSUME NEW c \in Calls, NEW e \in Emails, AcceptStart(c, e) PROVE Placed'
  BY <1>5 DEF AcceptStart, Idle, TypeOK
<1>6. ASSUME NEW c \in Calls, InviteRefused(c) \/ RevokeEntry(c) PROVE Placed'
  BY <1>6 DEF InviteRefused, RevokeEntry, End, Idle, TypeOK
<1>7. ASSUME NEW c \in Calls, AcceptBurn(c) PROVE Placed'
  <2>1. \A o \in Calls : calls'[o].pc = "in_insert" => calls'[o] = calls[o]
    BY <1>7 DEF AcceptBurn, Goto, TypeOK, CallType
  <2> QED BY <1>7, <2>1 DEF AcceptBurn
<1>8. ASSUME NEW c \in Calls, AcceptWrite(c) PROVE Placed'
  <2>1. \A u \in Users : /\ users'[u].status # "none" => users[u].status # "none"
                         /\ users'[u].email = users[u].email /\ users'[u].space = users[u].space
    BY <1>8 DEF AcceptWrite, TypeOK, UserType
  <2> QED BY <1>8, <2>1 DEF AcceptWrite, End, Idle, TypeOK
<1>9. ASSUME NEW c \in Calls, RevokeUser(c) PROVE Placed'
  <2>1. \A o \in Calls : calls'[o].pc = "in_insert" => calls'[o] = calls[o]
    BY <1>9 DEF RevokeUser, Goto, TypeOK, CallType
  <2>2. \A u \in Users : users'[u].status # "none" => users'[u] = users[u]
    BY <1>9 DEF RevokeUser, NoRow, TypeOK
  <2> QED BY <2>1, <2>2
<1>10. ASSUME NEW u \in Users, NEW s \in {"active", "suspended"}, SetStatus(u, s) PROVE Placed'
  <2>1. \A v \in Users : /\ users'[v].status # "none" => users[v].status # "none"
                         /\ users'[v].email = users[v].email /\ users'[v].space = users[v].space
    BY <1>10 DEF SetStatus, TypeOK, UserType
  <2> QED BY <1>10, <2>1 DEF SetStatus
<1>11. ASSUME NEW u \in Users, Work(u) PROVE Placed'
  BY <1>11 DEF Work
<1>12. ASSUME NEW e \in Emails, Expire(e) PROVE Placed'
  BY <1>12 DEF Expire
<1> QED
  BY <1>1, <1>2, <1>3, <1>4, <1>5, <1>6, <1>7, <1>8, <1>9, <1>10, <1>11, <1>12
  DEF Next, Step, vars

LEMMA PlacedAlways == ASSUME MembershipAssumption PROVE Spec => [](TypeOK /\ Placed)
<1>1. TypeOK /\ Placed /\ [Next]_vars => (TypeOK /\ Placed)'
  BY TypeStep, PlacedStep
<1> QED BY <1>1, TypeInit, PlacedInit, PTL DEF Spec

\* The rows, the entries and the calls keep their types.
THEOREM TypeCorrect == ASSUME MembershipAssumption PROVE Spec => []TypeOK
  BY PlacedAlways, PTL

-----------------------------------------------------------------------------
\* The seats.  An invitation that found room before its insert holds a seat in
\* hand; seats taken and seats in hand together pass the plan by no more than the
\* calls beside the one that found the last room.

InHand(r) == {c \in Calls : At(c, "in_insert") /\ calls[c].role = r}
SeatInv == \A r \in Limited :
  Cardinality(Taken(r)) + Cardinality(InHand(r)) <= Seats[r] + Cardinality(Calls) - 1

LEMMA Counts ==
  ASSUME MembershipAssumption, NEW r \in Limited
  PROVE  /\ IsFiniteSet(Taken(r)) /\ IsFiniteSet(InHand(r))
         /\ Cardinality(Taken(r)) \in Nat /\ Cardinality(InHand(r)) \in Nat
         /\ Cardinality(InHand(r)) <= Cardinality(Calls)
         /\ Cardinality(Calls) \in Nat /\ Seats[r] \in Nat
<1>1. Taken(r) \in SUBSET Users /\ InHand(r) \in SUBSET Calls
  BY DEF Taken, InHand
<1>2. IsFiniteSet(Taken(r)) /\ IsFiniteSet(InHand(r)) /\ Cardinality(InHand(r)) <= Cardinality(Calls)
  BY <1>1, FS_Subset DEF MembershipAssumption
<1> QED BY <1>2, FS_CardinalityType DEF MembershipAssumption

LEMMA CountsNext ==
  ASSUME MembershipAssumption, NEW r \in Limited
  PROVE  /\ IsFiniteSet(Taken(r)') /\ IsFiniteSet(InHand(r)')
         /\ Cardinality(Taken(r)') \in Nat /\ Cardinality(InHand(r)') \in Nat
         /\ Cardinality(InHand(r)') <= Cardinality(Calls)
<1>1. Taken(r)' \in SUBSET Users /\ InHand(r)' \in SUBSET Calls
  BY DEF Taken, InHand
<1>2. IsFiniteSet(Taken(r)') /\ IsFiniteSet(InHand(r)') /\ Cardinality(InHand(r)') <= Cardinality(Calls)
  BY <1>1, FS_Subset DEF MembershipAssumption
<1> QED BY <1>2, FS_CardinalityType

LEMMA SeatInit == ASSUME MembershipAssumption, Init PROVE SeatInv
<1> SUFFICES ASSUME NEW r \in Limited
             PROVE  Cardinality(Taken(r)) + Cardinality(InHand(r)) <= Seats[r] + Cardinality(Calls) - 1
  BY DEF SeatInv
<1>1. Taken(r) = {} /\ InHand(r) = {}
  BY DEF Init, Taken, Exists, NoRow, InHand, At, Idle
<1>2. Cardinality(Calls) # 0
  BY FS_EmptySet DEF MembershipAssumption
<1> QED BY <1>1, <1>2, Counts, FS_EmptySet

\* Most steps take no seat, and take none in hand.
LEMMA SeatsKept ==
  ASSUME MembershipAssumption, SeatInv,
         \A r \in Limited : Taken(r)' \subseteq Taken(r) /\ InHand(r)' \subseteq InHand(r)
  PROVE  SeatInv'
<1> SUFFICES ASSUME NEW r \in Limited
             PROVE  Cardinality(Taken(r)') + Cardinality(InHand(r)') <= Seats[r] + Cardinality(Calls) - 1
  BY DEF SeatInv
<1>1. Cardinality(Taken(r)') <= Cardinality(Taken(r)) /\ Cardinality(InHand(r)') <= Cardinality(InHand(r))
  BY Counts, FS_Subset
<1> QED BY <1>1, Counts, CountsNext DEF SeatInv

LEMMA SeatStep == ASSUME MembershipAssumption, TypeOK, SeatInv, [Next]_vars PROVE SeatInv'
<1>1. ASSUME NEW c \in Calls, NEW e \in Emails, NEW q \in Roles, NEW w \in Spaces,
             InviteStart(c, e, q, w)
      PROVE  SeatInv'
  <2> SUFFICES ASSUME NEW r \in Limited
               PROVE  Cardinality(Taken(r)') + Cardinality(InHand(r)') <= Seats[r] + Cardinality(Calls) - 1
    BY DEF SeatInv
  <2>1. Taken(r)' = Taken(r)
    BY <1>1 DEF InviteStart, Taken, Exists
  <2>2. CASE q = r \* it found room
    BY <1>1, <2>1, <2>2, Counts, CountsNext DEF InviteStart, SeatFree
  <2>3. CASE q # r
    <3>1. InHand(r)' \subseteq InHand(r)
      BY <1>1, <2>3 DEF InviteStart, InHand, At, Idle, TypeOK
    <3> QED BY <2>1, <3>1, Counts, CountsNext, FS_Subset DEF SeatInv
  <2> QED BY <2>2, <2>3
<1>2. ASSUME NEW c \in Calls, NEW u \in Users, InviteInsert(c, u) PROVE SeatInv'
  <2> SUFFICES ASSUME NEW r \in Limited
               PROVE  Cardinality(Taken(r)') + Cardinality(InHand(r)') <= Seats[r] + Cardinality(Calls) - 1
    BY DEF SeatInv
  <2>1. /\ users'[u].role = calls[c].role /\ ~Exists(u)
        /\ \A v \in Users \ {u} : users'[v] = users[v]
    BY <1>2 DEF InviteInsert, FreshUser, UnnamedUsers, TypeOK
  <2>2. calls'[c].pc = "in_issue" /\ \A o \in Calls \ {c} : calls'[o] = calls[o]
    BY <1>2 DEF InviteInsert, TypeOK, CallType
  <2>3. CASE calls[c].role = r \* the seat in hand is taken
    <3>1. Taken(r)' \subseteq Taken(r) \cup {u} /\ InHand(r)' \subseteq InHand(r) \ {c}
      BY <2>1, <2>2 DEF Taken, Exists, InHand, At
    <3>2. c \in InHand(r)
      BY <1>2, <2>3 DEF InviteInsert, InHand
    <3>3. /\ Cardinality(Taken(r) \cup {u}) <= Cardinality(Taken(r)) + 1
          /\ IsFiniteSet(Taken(r) \cup {u})
          /\ Cardinality(Taken(r) \cup {u}) \in Nat
      <4>1. IsFiniteSet(Taken(r)) /\ Cardinality(Taken(r)) \in Nat
        BY Counts
      <4>2. /\ IsFiniteSet(Taken(r) \cup {u})
            /\ Cardinality(Taken(r) \cup {u}) = IF u \in Taken(r) THEN Cardinality(Taken(r))
                                                                  ELSE Cardinality(Taken(r)) + 1
        BY <4>1, FS_AddElement
      <4> QED BY <4>1, <4>2
    <3>4. /\ Cardinality(InHand(r) \ {c}) = Cardinality(InHand(r)) - 1
          /\ IsFiniteSet(InHand(r) \ {c})
          /\ Cardinality(InHand(r) \ {c}) \in Nat
      BY <3>2, Counts, FS_RemoveElement, FS_CardinalityType
    <3>5. /\ Cardinality(Taken(r)') <= Cardinality(Taken(r) \cup {u})
          /\ Cardinality(InHand(r)') <= Cardinality(InHand(r) \ {c})
      BY <3>1, <3>3, <3>4, FS_Subset
    <3> QED BY <3>3, <3>4, <3>5, Counts, CountsNext DEF SeatInv
  <2>4. CASE calls[c].role # r
    <3>1. Taken(r)' \subseteq Taken(r) /\ InHand(r)' \subseteq InHand(r)
      BY <2>1, <2>2, <2>4 DEF Taken, Exists, InHand, At
    <3> QED BY <3>1, Counts, CountsNext, FS_Subset DEF SeatInv
  <2> QED BY <2>3, <2>4
<1>3. ASSUME NEW c \in Calls, NEW u \in Users, ResendStart(c, u) \/ RevokeStart(c, u) PROVE SeatInv'
  <2>1. \A r \in Limited : Taken(r)' \subseteq Taken(r) /\ InHand(r)' \subseteq InHand(r)
    BY <1>3 DEF ResendStart, RevokeStart, Taken, Exists, InHand, At, Idle, TypeOK
  <2> QED BY <2>1, SeatsKept
<1>4. ASSUME NEW c \in Calls, NEW t \in Tokens, InviteIssue(c, t) \/ ResendIssue(c, t) PROVE SeatInv'
  <2>1. \A r \in Limited : Taken(r)' \subseteq Taken(r) /\ InHand(r)' \subseteq InHand(r)
    BY <1>4 DEF InviteIssue, ResendIssue, Issue, End, Taken, Exists, InHand, At, Idle, TypeOK
  <2> QED BY <2>1, SeatsKept
<1>5. ASSUME NEW c \in Calls, NEW e \in Emails, AcceptStart(c, e) PROVE SeatInv'
  <2>1. \A r \in Limited : Taken(r)' \subseteq Taken(r) /\ InHand(r)' \subseteq InHand(r)
    BY <1>5 DEF AcceptStart, Taken, Exists, InHand, At, Idle, TypeOK
  <2> QED BY <2>1, SeatsKept
<1>6. ASSUME NEW c \in Calls, InviteRefused(c) \/ RevokeEntry(c) PROVE SeatInv'
  <2>1. \A r \in Limited : Taken(r)' \subseteq Taken(r) /\ InHand(r)' \subseteq InHand(r)
    BY <1>6 DEF InviteRefused, RevokeEntry, End, Taken, Exists, InHand, At, Idle, TypeOK
  <2> QED BY <2>1, SeatsKept
<1>7. ASSUME NEW c \in Calls, AcceptBurn(c) PROVE SeatInv'
  <2>1. \A o \in Calls : calls'[o].pc = "in_insert" => calls'[o] = calls[o]
    BY <1>7 DEF AcceptBurn, Goto, TypeOK, CallType
  <2>2. \A r \in Limited : Taken(r)' \subseteq Taken(r) /\ InHand(r)' \subseteq InHand(r)
    BY <1>7, <2>1 DEF AcceptBurn, Taken, Exists, InHand, At
  <2> QED BY <2>2, SeatsKept
<1>8. ASSUME NEW c \in Calls, AcceptWrite(c) PROVE SeatInv'
  <2>1. \A u \in Users : /\ users'[u].status # "none" => users[u].status # "none"
                         /\ users'[u].role = users[u].role
    BY <1>8 DEF AcceptWrite, Exists, TypeOK, UserType
  <2>2. \A r \in Limited : Taken(r)' \subseteq Taken(r) /\ InHand(r)' \subseteq InHand(r)
    BY <1>8, <2>1 DEF AcceptWrite, End, Idle, Taken, Exists, InHand, At, TypeOK
  <2> QED BY <2>2, SeatsKept
<1>9. ASSUME NEW c \in Calls, RevokeUser(c) PROVE SeatInv'
  <2>1. \A o \in Calls : calls'[o].pc = "in_insert" => calls'[o] = calls[o]
    BY <1>9 DEF RevokeUser, Goto, TypeOK, CallType
  <2>2. \A u \in Users : users'[u].status # "none" => users'[u] = users[u]
    BY <1>9 DEF RevokeUser, NoRow, TypeOK
  <2>3. \A r \in Limited : Taken(r)' \subseteq Taken(r) /\ InHand(r)' \subseteq InHand(r)
    BY <2>1, <2>2 DEF Taken, Exists, InHand, At
  <2> QED BY <2>3, SeatsKept
<1>10. ASSUME NEW u \in Users, NEW s \in {"active", "suspended"}, SetStatus(u, s) PROVE SeatInv'
  <2>1. \A v \in Users : /\ users'[v].status # "none" => users[v].status # "none"
                         /\ users'[v].role = users[v].role
    BY <1>10 DEF SetStatus, Exists, TypeOK, UserType
  <2>2. \A r \in Limited : Taken(r)' \subseteq Taken(r) /\ InHand(r)' \subseteq InHand(r)
    BY <1>10, <2>1 DEF SetStatus, Taken, Exists, InHand, At
  <2> QED BY <2>2, SeatsKept
<1>11. ASSUME UNCHANGED <<users, calls>> PROVE SeatInv'
  <2>1. \A r \in Limited : Taken(r)' \subseteq Taken(r) /\ InHand(r)' \subseteq InHand(r)
    BY <1>11 DEF Taken, Exists, InHand, At
  <2> QED BY <2>1, SeatsKept
<1> QED
  BY <1>1, <1>2, <1>3, <1>4, <1>5, <1>6, <1>7, <1>8, <1>9, <1>10, <1>11
  DEF Next, Step, vars, Work, Expire

LEMMA SeatsFit == ASSUME MembershipAssumption, SeatInv PROVE SeatsHeld
  BY Counts DEF SeatInv, SeatsHeld

\* The plan's limit of seats is passed, whatever runs at once, by no more than
\* the calls beside one (seat_usage counts before the insert takes,
\* users/service.py:114).
THEOREM SeatsAreHeld == ASSUME MembershipAssumption PROVE Spec => []SeatsHeld
<1>1. Spec => []SeatInv
  <2>1. TypeOK /\ SeatInv /\ [Next]_vars => SeatInv'
    BY SeatStep
  <2>2. Init => SeatInv
    BY SeatInit
  <2> QED BY <2>1, <2>2, TypeCorrect, PTL DEF Spec
<1>2. SeatInv => SeatsHeld
  BY SeatsFit
<1> QED BY <1>1, <1>2, PTL
-----------------------------------------------------------------------------
\* Addresses.  With revocations running alone and one workspace, an address is
\* one account's (the email is unique in its workspace), an invitation or a
\* resend under way is of an account that stands, and a revocation has nobody
\* beside it between its two writes.

OneRow == \A u, v \in Users : Exists(u) /\ Exists(v) /\ users[u].email = users[v].email => u = v
RevokesAlone ==
  \A c, o \in Calls : calls[c].pc \in {"rv_user", "rv_entry"} /\ c # o => At(o, "idle")

\* What a call in flight knows of the account it is at work on.
Knows(c) ==
  LET u == calls[c].user
      e == calls[c].email IN
  /\ calls[c].pc \in {"in_issue", "re_issue", "rv_user"} =>
       u \in Users /\ e \in Emails /\ Exists(u) /\ users[u].email = e
  /\ At(c, "ac_burn") => e \in Emails
  /\ At(c, "rv_entry") => e \in Emails /\ \A v \in Users : Exists(v) => users[v].email # e

RowLed == \A u \in Users : Exists(u) =>
  \/ directory[users[u].email].user = u
  \/ \E c \in Calls : At(c, "in_issue") /\ calls[c].user = u
EntryLeads == \A e \in Emails : Listed(e) =>
  \/ directory[e].user \in Users /\ Exists(directory[e].user) /\ users[directory[e].user].email = e
  \/ \E c \in Calls : At(c, "rv_entry") /\ calls[c].email = e

ReachInv == OneRow /\ RevokesAlone /\ (\A c \in Calls : Knows(c)) /\ RowLed /\ EntryLeads

OneSpace == \A w, x \in Spaces : w = x

LEMMA ReachInit == Init => ReachInv
  BY DEF Init, ReachInv, OneRow, RevokesAlone, Knows, RowLed, EntryLeads, Exists, Listed, At,
         NoRow, NoEntry, Idle

LEMMA ReachFits == ASSUME ReachInv PROVE Reachable
  BY DEF ReachInv, RowLed, EntryLeads, Reachable

\* An operation starts when no revocation is under way, and a revocation when
\* nothing is.
LEMMA StartsClear ==
  ASSUME "revoke" \in Alone, TypeOK, NEW c \in Calls, NEW op, Free(c, op)
  PROVE  /\ \A o \in Calls : calls[o].pc \notin {"rv_user", "rv_entry"}
         /\ op = "revoke" => \A o \in Calls : At(o, "idle")
<1>1. \A o \in Calls : calls[o].pc \in {"rv_user", "rv_entry"} => OpOf(calls[o].pc) = "revoke"
  BY DEF OpOf
<1> QED BY <1>1 DEF Free, At

\* A step that leaves every account at its address and every entry leading where
\* it led, and touches no call that stands in for either.
SameRows == \A u \in Users : Exists(u)' = Exists(u) /\ users'[u].email = users[u].email
SameEntries == \A e \in Emails : directory'[e].id = directory[e].id /\ directory'[e].user = directory[e].user

LEMMA ReachKept ==
  ASSUME TypeOK, Placed, ReachInv, SameRows, SameEntries,
         \A o \in Calls : calls[o].pc \in {"in_issue", "rv_entry"} => calls'[o] = calls[o],
         \A o \in Calls : calls'[o] = calls[o] \/ Knows(o)',
         RevokesAlone'
  PROVE  ReachInv'
<1>1. OneRow'
  BY DEF ReachInv, OneRow, SameRows
<1>2. ASSUME NEW o \in Calls PROVE Knows(o)'
  <2>1. ASSUME calls'[o] = calls[o] PROVE Knows(o)'
    BY <2>1 DEF ReachInv, Knows, At, SameRows
  <2> QED BY <2>1
<1>3. RowLed'
  <2> SUFFICES ASSUME NEW u \in Users, Exists(u)'
               PROVE  \/ directory'[users'[u].email].user = u
                      \/ \E o \in Calls : At(o, "in_issue")' /\ calls'[o].user = u
    BY DEF RowLed
  <2>1. Exists(u) /\ users'[u].email = users[u].email /\ users[u].email \in Emails
    BY DEF SameRows, Placed
  <2>2. CASE directory[users[u].email].user = u
    BY <2>1, <2>2 DEF SameEntries
  <2>3. ASSUME NEW o \in Calls, At(o, "in_issue"), calls[o].user = u
        PROVE  At(o, "in_issue")' /\ calls'[o].user = u
    BY <2>3 DEF At
  <2> QED BY <2>1, <2>2, <2>3 DEF ReachInv, RowLed
<1>4. EntryLeads'
  <2> SUFFICES ASSUME NEW e \in Emails, Listed(e)'
               PROVE  \/ /\ directory'[e].user \in Users /\ Exists(directory[e].user)'
                         /\ users'[directory'[e].user].email = e
                      \/ \E o \in Calls : At(o, "rv_entry")' /\ calls'[o].email = e
    BY DEF EntryLeads
  <2>1. Listed(e) /\ directory'[e].user = directory[e].user
    BY DEF SameEntries, Listed
  <2>2. ASSUME NEW u \in Users, Exists(u), users[u].email = e
        PROVE  Exists(u)' /\ users'[u].email = e
    BY <2>2 DEF SameRows
  <2>3. ASSUME NEW o \in Calls, At(o, "rv_entry"), calls[o].email = e
        PROVE  At(o, "rv_entry")' /\ calls'[o].email = e
    BY <2>3 DEF At
  <2> QED BY <2>1, <2>2, <2>3 DEF ReachInv, EntryLeads, Exists
<1> QED BY <1>1, <1>2, <1>3, <1>4 DEF ReachInv

LEMMA ReachStep ==
  ASSUME MembershipAssumption, "revoke" \in Alone, OneSpace, TypeOK, Placed, ReachInv, [Next]_vars
  PROVE  ReachInv'
<1>1. ASSUME NEW c \in Calls, NEW e \in Emails, NEW r \in Roles, NEW w \in Spaces,
             InviteStart(c, e, r, w)
      PROVE  ReachInv'
  <2>1. \A o \in Calls : calls[o].pc \notin {"rv_user", "rv_entry"}
    BY <1>1, StartsClear DEF InviteStart
  <2>2. calls[c].pc = "idle" /\ calls'[c].pc = "in_insert" /\ \A o \in Calls \ {c} : calls'[o] = calls[o]
    BY <1>1 DEF InviteStart, Free, At, Idle, TypeOK
  <2>3. SameRows /\ SameEntries
    BY <1>1 DEF InviteStart, SameRows, SameEntries, Exists
  <2>4. Knows(c)' /\ RevokesAlone'
    BY <2>1, <2>2 DEF Knows, RevokesAlone, At
  <2> QED BY <2>2, <2>3, <2>4, ReachKept
<1>2. ASSUME NEW c \in Calls, InviteRefused(c) PROVE ReachInv'
  <2>1. calls[c].pc = "in_insert" /\ calls'[c].pc = "idle" /\ \A o \in Calls \ {c} : calls'[o] = calls[o]
    BY <1>2 DEF InviteRefused, End, At, Idle, TypeOK
  <2>2. SameRows /\ SameEntries
    BY <1>2 DEF InviteRefused, SameRows, SameEntries, Exists
  <2>3. Knows(c)' /\ RevokesAlone'
    BY <2>1 DEF Knows, ReachInv, RevokesAlone, At
  <2> QED BY <2>1, <2>2, <2>3, ReachKept
<1>3. ASSUME NEW c \in Calls, NEW u \in Users, ResendStart(c, u) PROVE ReachInv'
  <2> DEFINE e == users[u].email
             v == directory[e].user
  <2>1. \A o \in Calls : calls[o].pc \notin {"rv_user", "rv_entry"}
    BY <1>3, StartsClear DEF ResendStart
  <2>2. /\ calls[c].pc = "idle"
        /\ calls'[c].pc = "re_issue" /\ calls'[c].email = e /\ calls'[c].user = v
        /\ \A o \in Calls \ {c} : calls'[o] = calls[o]
    BY <1>3 DEF ResendStart, Free, At, Idle, TypeOK
  <2>3. SameRows /\ SameEntries
    BY <1>3 DEF ResendStart, SameRows, SameEntries, Exists
  <2>4. e \in Emails /\ Listed(e)
    BY <1>3 DEF ResendStart, Placed, Exists
  <2>5. v \in Users /\ Exists(v) /\ users[v].email = e
    BY <2>1, <2>4 DEF ReachInv, EntryLeads, At
  <2>6. users' = users
    BY <1>3 DEF ResendStart
  <2>7. Knows(c)' /\ RevokesAlone'
    <3> HIDE DEF e, v
    <3> QED BY <2>1, <2>2, <2>4, <2>5, <2>6 DEF Knows, RevokesAlone, At, Exists
  <2> QED BY <2>2, <2>3, <2>7, ReachKept
<1>4. ASSUME NEW c \in Calls, NEW e \in Emails, AcceptStart(c, e) PROVE ReachInv'
  <2>1. \A o \in Calls : calls[o].pc \notin {"rv_user", "rv_entry"}
    BY <1>4, StartsClear DEF AcceptStart
  <2>2. /\ calls[c].pc = "idle" /\ calls'[c].pc = "ac_burn" /\ calls'[c].email = e
        /\ \A o \in Calls \ {c} : calls'[o] = calls[o]
    BY <1>4 DEF AcceptStart, Free, At, Idle, TypeOK
  <2>3. SameRows /\ SameEntries
    BY <1>4 DEF AcceptStart, SameRows, SameEntries, Exists
  <2>4. Knows(c)' /\ RevokesAlone'
    BY <2>1, <2>2 DEF Knows, RevokesAlone, At
  <2> QED BY <2>2, <2>3, <2>4, ReachKept
<1>5. ASSUME NEW c \in Calls, AcceptBurn(c) PROVE ReachInv'
  <2>1. calls[c].pc = "ac_burn" /\ calls'[c].pc = "ac_write" /\ \A o \in Calls \ {c} : calls'[o] = calls[o]
    BY <1>5 DEF AcceptBurn, Goto, At, TypeOK, CallType
  <2>2. SameRows /\ SameEntries
    BY <1>5 DEF AcceptBurn, SameRows, SameEntries, Exists, TypeOK, EntryType
  <2>3. Knows(c)' /\ RevokesAlone'
    BY <2>1 DEF Knows, ReachInv, RevokesAlone, At
  <2> QED BY <2>1, <2>2, <2>3, ReachKept
<1>6. ASSUME NEW c \in Calls, AcceptWrite(c) PROVE ReachInv'
  <2>1. calls[c].pc = "ac_write" /\ calls'[c].pc = "idle" /\ \A o \in Calls \ {c} : calls'[o] = calls[o]
    BY <1>6 DEF AcceptWrite, End, At, Idle, TypeOK
  <2>2. SameRows /\ SameEntries
    BY <1>6 DEF AcceptWrite, SameRows, SameEntries, Exists, TypeOK, UserType
  <2>3. Knows(c)' /\ RevokesAlone'
    BY <2>1 DEF Knows, ReachInv, RevokesAlone, At
  <2> QED BY <2>1, <2>2, <2>3, ReachKept
<1>7. ASSUME UNCHANGED calls, SameRows, SameEntries PROVE ReachInv'
  <2>1. RevokesAlone'
    BY <1>7 DEF ReachInv, RevokesAlone, At
  <2> QED BY <1>7, <2>1, ReachKept
<1>8. ASSUME NEW u \in Users, NEW s \in {"active", "suspended"}, SetStatus(u, s) PROVE ReachInv'
  <2>1. SameRows /\ SameEntries
    BY <1>8 DEF SetStatus, SameRows, SameEntries, Exists, TypeOK, UserType
  <2> QED BY <1>7, <1>8, <2>1 DEF SetStatus
<1>9. ASSUME NEW u \in Users, Work(u) PROVE ReachInv'
  <2>1. SameRows /\ SameEntries
    BY <1>9 DEF Work, SameRows, SameEntries, Exists
  <2> QED BY <1>7, <1>9, <2>1 DEF Work
<1>10. ASSUME NEW e \in Emails, Expire(e) PROVE ReachInv'
  <2>1. SameRows /\ SameEntries
    BY <1>10 DEF Expire, SameRows, SameEntries, Exists, TypeOK, EntryType
  <2> QED BY <1>7, <1>10, <2>1 DEF Expire
<1>11. ASSUME NEW c \in Calls, NEW u \in Users, RevokeStart(c, u) PROVE ReachInv'
  <2>1. \A o \in Calls : calls[o].pc = "idle"
    BY <1>11, StartsClear DEF RevokeStart, At
  <2>2. /\ calls'[c].pc = "rv_user" /\ calls'[c].email = users[u].email /\ calls'[c].user = u
        /\ \A o \in Calls \ {c} : calls'[o] = calls[o]
    BY <1>11 DEF RevokeStart, Idle, TypeOK
  <2>3. SameRows /\ SameEntries
    BY <1>11 DEF RevokeStart, SameRows, SameEntries, Exists
  <2>4. Knows(c)'
    BY <1>11, <2>2 DEF RevokeStart, Knows, Placed, Exists, At
  <2>5. RevokesAlone'
    BY <2>1, <2>2 DEF RevokesAlone, At
  <2> QED BY <2>1, <2>2, <2>3, <2>4, <2>5, ReachKept
<1>12. ASSUME NEW c \in Calls, NEW u \in Users, InviteInsert(c, u) PROVE ReachInv'
  <2> DEFINE e == calls[c].email
  <2>1. /\ calls[c].pc = "in_insert"
        /\ calls'[c].pc = "in_issue" /\ calls'[c].user = u /\ calls'[c].email = e
        /\ \A o \in Calls \ {c} : calls'[o] = calls[o]
    BY <1>12 DEF InviteInsert, At, TypeOK, CallType
  <2>2. /\ ~Exists(u) /\ Exists(u)' /\ users'[u].email = e
        /\ \A v \in Users \ {u} : users'[v] = users[v]
        /\ directory' = directory
    BY <1>12 DEF InviteInsert, FreshUser, UnnamedUsers, Exists, TypeOK
  <2>3. e \in Emails /\ \A v \in Users : Exists(v) => users[v].email # e
    BY <1>12, <2>1 DEF InviteInsert, Holds, Placed, OneSpace, At
  <2>4. \A o \in Calls : calls[o].pc \notin {"rv_user", "rv_entry"}
    BY <2>1 DEF ReachInv, RevokesAlone, At
  <2> HIDE DEF e
  <2>5. OneRow'
    BY <2>2, <2>3 DEF ReachInv, OneRow, Exists
  <2>6. RevokesAlone'
    BY <2>1, <2>4 DEF RevokesAlone
  <2>7. ASSUME NEW o \in Calls PROVE Knows(o)'
    <3>1. CASE o = c
      BY <2>1, <2>2, <2>3, <3>1 DEF Knows, At
    <3>2. CASE o # c
      BY <2>1, <2>2, <2>4, <3>2 DEF ReachInv, Knows, At, Exists
    <3> QED BY <3>1, <3>2
  <2>8. RowLed'
    <3> SUFFICES ASSUME NEW v \in Users, Exists(v)'
                 PROVE  \/ directory'[users'[v].email].user = v
                        \/ \E o \in Calls : At(o, "in_issue")' /\ calls'[o].user = v
      BY DEF RowLed
    <3>1. CASE v = u
      BY <2>1, <3>1 DEF At
    <3>2. CASE v # u
      <4>1. users'[v] = users[v] /\ Exists(v)
        BY <2>2, <3>2 DEF Exists
      <4>2. ASSUME NEW o \in Calls, At(o, "in_issue"), calls[o].user = v
            PROVE  At(o, "in_issue")' /\ calls'[o].user = v
        BY <2>1, <4>2 DEF At
      <4> QED BY <2>2, <4>1, <4>2 DEF ReachInv, RowLed
    <3> QED BY <3>1, <3>2
  <2>9. EntryLeads'
    BY <2>2, <2>4 DEF ReachInv, EntryLeads, Listed, Exists, At
  <2> QED BY <2>5, <2>6, <2>7, <2>8, <2>9 DEF ReachInv
<1>13. ASSUME NEW c \in Calls, NEW t \in Tokens, InviteIssue(c, t) \/ ResendIssue(c, t)
       PROVE  ReachInv'
  <2> DEFINE e == calls[c].email
             u == calls[c].user
  <2>1. /\ calls[c].pc \in {"in_issue", "re_issue"} /\ calls'[c].pc = "idle"
        /\ \A o \in Calls \ {c} : calls'[o] = calls[o]
    BY <1>13 DEF InviteIssue, ResendIssue, Issue, End, At, Idle, TypeOK
  <2>2. u \in Users /\ e \in Emails /\ Exists(u) /\ users[u].email = e
    BY <2>1 DEF ReachInv, Knows
  <2>3. /\ users' = users /\ directory'[e].user = u
        /\ \A f \in Emails \ {e} : directory'[f] = directory[f]
    BY <1>13, <2>2 DEF InviteIssue, ResendIssue, Issue, Issued, TypeOK
  <2>4. \A o \in Calls : calls[o].pc \notin {"rv_user", "rv_entry"}
    BY <2>1 DEF ReachInv, RevokesAlone, At
  <2>5. OneRow'
    BY <2>3 DEF ReachInv, OneRow, Exists
  <2>6. RevokesAlone'
    BY <2>1, <2>4 DEF RevokesAlone
  <2>7. \A o \in Calls : Knows(o)'
    BY <2>1, <2>3 DEF ReachInv, Knows, At, Exists
  <2>8. RowLed'
    <3> SUFFICES ASSUME NEW v \in Users, Exists(v)'
                 PROVE  \/ directory'[users'[v].email].user = v
                        \/ \E o \in Calls : At(o, "in_issue")' /\ calls'[o].user = v
      BY DEF RowLed
    <3>1. Exists(v) /\ users'[v].email = users[v].email /\ users[v].email \in Emails
      BY <2>3 DEF Exists, Placed
    <3>2. CASE users[v].email = e
      BY <2>2, <2>3, <3>1, <3>2 DEF ReachInv, OneRow
    <3>3. CASE users[v].email # e
      <4>1. ASSUME NEW o \in Calls, At(o, "in_issue"), calls[o].user = v
            PROVE  At(o, "in_issue")' /\ calls'[o].user = v
        BY <2>1, <2>2, <3>3, <4>1 DEF At
      <4> QED BY <2>3, <3>1, <3>3, <4>1 DEF ReachInv, RowLed
    <3> QED BY <3>2, <3>3
  <2>9. EntryLeads'
    <3> SUFFICES ASSUME NEW f \in Emails, Listed(f)'
                 PROVE  /\ directory'[f].user \in Users /\ Exists(directory[f].user)'
                        /\ users'[directory'[f].user].email = f
      BY DEF EntryLeads
    <3>1. CASE f = e
      BY <2>2, <2>3, <3>1 DEF Exists
    <3>2. CASE f # e
      BY <2>3, <2>4, <3>2 DEF ReachInv, EntryLeads, Listed, Exists, At
    <3> QED BY <3>1, <3>2
  <2> QED BY <2>5, <2>6, <2>7, <2>8, <2>9 DEF ReachInv
<1>14. ASSUME NEW c \in Calls, RevokeUser(c) PROVE ReachInv'
  <2> DEFINE e == calls[c].email
             u == calls[c].user
  <2>1. /\ calls[c].pc = "rv_user" /\ calls'[c].pc = "rv_entry" /\ calls'[c].email = e
        /\ \A o \in Calls \ {c} : calls'[o] = calls[o]
    BY <1>14 DEF RevokeUser, Goto, At, TypeOK, CallType
  <2>2. \A o \in Calls \ {c} : calls[o].pc = "idle"
    BY <2>1 DEF ReachInv, RevokesAlone, At
  <2>3. u \in Users /\ e \in Emails /\ Exists(u) /\ users[u].email = e
    BY <2>1 DEF ReachInv, Knows
  <2>4. /\ users'[u].status = "none" /\ directory' = directory
        /\ \A v \in Users \ {u} : users'[v] = users[v]
    BY <1>14, <2>3 DEF RevokeUser, NoRow, TypeOK
  <2> HIDE DEF e, u
  <2>5. OneRow'
    BY <2>4 DEF ReachInv, OneRow, Exists
  <2>6. RevokesAlone'
    BY <2>1, <2>2 DEF RevokesAlone, At
  <2>7. ASSUME NEW o \in Calls PROVE Knows(o)'
    <3>1. CASE o = c
      BY <2>1, <2>3, <2>4, <3>1 DEF ReachInv, OneRow, Knows, At, Exists
    <3>2. CASE o # c
      BY <2>1, <2>2, <3>2 DEF Knows, At
    <3> QED BY <3>1, <3>2
  <2>8. RowLed'
    BY <2>1, <2>2, <2>4 DEF ReachInv, RowLed, Exists, At
  <2>9. EntryLeads'
    <3> SUFFICES ASSUME NEW f \in Emails, Listed(f)'
                 PROVE  \/ /\ directory'[f].user \in Users /\ Exists(directory[f].user)'
                           /\ users'[directory'[f].user].email = f
                        \/ \E o \in Calls : At(o, "rv_entry")' /\ calls'[o].email = f
      BY DEF EntryLeads
    <3>1. directory[f].user \in Users /\ Exists(directory[f].user) /\ users[directory[f].user].email = f
      BY <2>1, <2>2, <2>4 DEF ReachInv, EntryLeads, Listed, At
    <3>2. CASE directory[f].user = u \* the entry this call removes next
      BY <2>1, <2>3, <3>1, <3>2 DEF At
    <3>3. CASE directory[f].user # u
      BY <2>4, <3>1, <3>3 DEF Exists
    <3> QED BY <3>2, <3>3
  <2> QED BY <2>5, <2>6, <2>7, <2>8, <2>9 DEF ReachInv
<1>15. ASSUME NEW c \in Calls, RevokeEntry(c) PROVE ReachInv'
  <2> DEFINE e == calls[c].email
  <2>1. /\ calls[c].pc = "rv_entry" /\ calls'[c].pc = "idle"
        /\ \A o \in Calls \ {c} : calls'[o] = calls[o]
    BY <1>15 DEF RevokeEntry, End, Idle, At, TypeOK
  <2>2. \A o \in Calls \ {c} : calls[o].pc = "idle"
    BY <2>1 DEF ReachInv, RevokesAlone, At
  <2>3. e \in Emails /\ \A v \in Users : Exists(v) => users[v].email # e
    BY <2>1 DEF ReachInv, Knows, At
  <2>4. /\ users' = users /\ directory'[e].id = NoToken
        /\ \A f \in Emails \ {e} : directory'[f] = directory[f]
    BY <1>15, <2>3 DEF RevokeEntry, NoEntry, TypeOK
  <2>5. \A o \in Calls : calls'[o].pc = "idle"
    BY <2>1, <2>2
  <2>6. OneRow' /\ RevokesAlone' /\ \A o \in Calls : Knows(o)'
    BY <2>4, <2>5 DEF ReachInv, OneRow, Exists, RevokesAlone, Knows, At
  <2>7. RowLed'
    BY <2>1, <2>2, <2>3, <2>4 DEF ReachInv, RowLed, Placed, Exists, At
  <2>8. EntryLeads'
    BY <2>1, <2>2, <2>4 DEF ReachInv, EntryLeads, Listed, Exists, At
  <2> QED BY <2>6, <2>7, <2>8 DEF ReachInv
<1>16. CASE UNCHANGED vars
  <2>1. SameRows /\ SameEntries
    BY <1>16 DEF vars, SameRows, SameEntries, Exists
  <2> QED BY <1>7, <1>16, <2>1 DEF vars
<1> QED
  BY <1>1, <1>2, <1>3, <1>4, <1>5, <1>6, <1>8, <1>9, <1>10, <1>11, <1>12, <1>13, <1>14, <1>15, <1>16
  DEF Next, Step

\* With revocations alone and one workspace, every account is the one its address
\* leads to and every address leads to an account, an invitation or a revocation
\* half done apart; and the seats are held (users/service.py:114, 136,
\* partners/service.py:46, 160).
THEOREM MembersAreHeld ==
  ASSUME MembershipAssumption, "revoke" \in Alone, OneSpace
  PROVE  Spec => []MembersHeld
<1>1. Spec => []ReachInv
  <2>1. TypeOK /\ Placed /\ ReachInv /\ [Next]_vars => ReachInv'
    BY ReachStep
  <2> QED BY <2>1, ReachInit, PlacedAlways, PTL DEF Spec
<1>2. ReachInv => Reachable
  BY ReachFits
<1>3. Reachable /\ SeatsHeld => MembersHeld
  BY DEF MembersHeld
<1> QED BY <1>1, <1>2, <1>3, SeatsAreHeld, PTL

-----------------------------------------------------------------------------
\* Sign(d): accounts, sessions, codes, failures and signing are v1 to v5.
SignOK(d) == /\ Sign(d)!TypeOK /\ Sign(d)!CallsInv
             /\ Sign(d)!AttemptsInv /\ Sign(d)!SessionsInv

Levels == 0..MaxFailures - 1
Unguessed == [count |-> 0, locked |-> FALSE, guesses |-> [v \in Levels |-> 0], late |-> 0]
FailureType == [count: Nat, locked: BOOLEAN, guesses: [Levels -> Nat], late: Nat]

\* The parts of the invariant, of the rows and the calls they name.
Owned(d, sessions) == \A s \in SessionsAt[d] : sessions[s] = Sign(d)!NoRow \/ sessions[s].who \in Accounts
CallKnown(d, call) ==
  /\ call.pc # "idle" => call.who \in Accounts /\ call.op \in OpsAt[d]
  /\ call.pc \in {"ot_wrong", "ot_right"} => call.code \in Codes /\ call.op \in DOMAIN Sign(d)!After
  /\ call.pc \in {"rs_write", "rs_revoke"} => call.op = "reset"
  /\ call.pc = "ch_write" => call.op = "change"
Guesses(signing, k) == {c \in Calls : signing[c].pc = "ot_wrong" /\ signing[c].code = k}
AttemptsLow(codes, signing) == \A k \in Codes :
  codes[k].attempts + Cardinality(Guesses(signing, k)) <= MaxAttempts + Cardinality(Calls) - 1
Strict(d) == "reset" \in AloneAt[d] /\ "change" \notin OpsAt[d]
SessionsFresh(d, accounts, sessions, signing) == Strict(d) =>
  \A s \in SessionsAt[d] : sessions[s] # Sign(d)!NoRow /\ sessions[s].who \notin AdminsAt[d] =>
    \/ sessions[s].password = accounts[sessions[s].who].password
    \/ \E c \in Calls : signing[c].pc = "rs_revoke" /\ signing[c].who = sessions[s].who
CallFresh(d, call, accounts) == Strict(d) =>
  (call.pc \in {"lg_clear", "store", "rf_delete"} /\ call.who \notin AdminsAt[d] =>
     call.password = accounts[call.who].password)
ResetAlone(d, signing) == Strict(d) =>
  \A c \in Calls : signing[c].pc # "idle" /\ signing[c].op = "reset" =>
    \A o \in Calls \ {c} : signing[o].pc = "idle"

LEMMA SignCard ==
  ASSUME NEW d, NEW S
  PROVE  Sign(d)!Cardinality(S) = Cardinality(S) /\ (Sign(d)!IsFiniteSet(S) <=> IsFiniteSet(S))
BY DEF Sign!Cardinality, Cardinality, Sign!IsFiniteSet, IsFiniteSet

LEMMA SignFacts ==
  ASSUME NEW d, SignOK(d)
  PROVE  /\ v1 \in [Accounts -> Sign(d)!AccountType] /\ v2 \in [SessionsAt[d] -> Sign(d)!SessionType]
         /\ v3 \in [Codes -> Sign(d)!CodeType \cup {Sign(d)!NoOtp}]
         /\ v4 \in [Accounts -> FailureType] /\ v5 \in [Calls -> Sign(d)!CallType]
         /\ Owned(d, v2) /\ (\A c \in Calls : CallKnown(d, v5[c]) /\ CallFresh(d, v5[c], v1))
         /\ AttemptsLow(v3, v5) /\ SessionsFresh(d, v1, v2, v5) /\ ResetAlone(d, v5)
<1>1. /\ v1 \in [Accounts -> Sign(d)!AccountType] /\ v2 \in [SessionsAt[d] -> Sign(d)!SessionType]
      /\ v3 \in [Codes -> Sign(d)!CodeType \cup {Sign(d)!NoOtp}]
      /\ v4 \in [Accounts -> FailureType] /\ v5 \in [Calls -> Sign(d)!CallType]
  BY DEF SignOK, Sign!TypeOK, Sign!Tries, Levels, FailureType
<1>2. Owned(d, v2) /\ \A c \in Calls : CallKnown(d, v5[c])
  BY DEF SignOK, Sign!CallsInv, Sign!At, Owned, CallKnown
<1>3. AttemptsLow(v3, v5)
  BY SignCard DEF SignOK, Sign!AttemptsInv, Sign!Guessing, Sign!At, AttemptsLow, Guesses
<1>4. SessionsFresh(d, v1, v2, v5) /\ ResetAlone(d, v5) /\ \A c \in Calls : CallFresh(d, v5[c], v1)
  BY DEF SignOK, Sign!SessionsInv, Sign!ResetSignsOut, Sign!At, Strict, SessionsFresh, ResetAlone, CallFresh
<1> QED BY <1>1, <1>2, <1>3, <1>4

LEMMA SignKept ==
  ASSUME NEW d,
         v1' \in [Accounts -> Sign(d)!AccountType], v2' \in [SessionsAt[d] -> Sign(d)!SessionType],
         v3' \in [Codes -> Sign(d)!CodeType \cup {Sign(d)!NoOtp}],
         v4' \in [Accounts -> FailureType], v5' \in [Calls -> Sign(d)!CallType],
         Owned(d, v2'), \A c \in Calls : CallKnown(d, v5'[c]) /\ CallFresh(d, v5'[c], v1'),
         AttemptsLow(v3', v5'), SessionsFresh(d, v1', v2', v5'), ResetAlone(d, v5')
  PROVE  SignOK(d)'
<1>1. Sign(d)!TypeOK'
  BY DEF Sign!TypeOK, Sign!Tries, Levels, FailureType, Sign!AccountType, Sign!SessionType, Sign!CodeType, Sign!NoOtp, Sign!CallType
<1>2. Sign(d)!CallsInv'
  BY DEF Sign!CallsInv, Sign!At, Owned, CallKnown, Sign!NoRow, Sign!After
<1>3. Sign(d)!AttemptsInv'
  BY SignCard DEF Sign!AttemptsInv, Sign!Guessing, Sign!At, AttemptsLow, Guesses
<1>4. Sign(d)!SessionsInv'
  BY DEF Sign!SessionsInv, Sign!ResetSignsOut, Sign!At, Strict, SessionsFresh, ResetAlone, CallFresh, Sign!NoRow
<1> QED BY <1>1, <1>2, <1>3, <1>4 DEF SignOK

LEMMA SignAssumed ==
  ASSUME NEW d, Sign(d)!SignInAssumption
  PROVE  /\ AdminsAt[d] \subseteq Accounts /\ OpsAt[d] \subseteq Sign(d)!AllOps /\ AloneAt[d] \subseteq OpsAt[d]
         /\ MaxAttempts \in Nat \ {0} /\ MaxFailures \in Nat \ {0} /\ MaxResets \in Nat /\ IsFiniteSet(Calls)
         /\ Nobody \notin Accounts /\ Nobody \notin Codes /\ Nobody \notin SessionsAt[d]
BY SignCard DEF Sign!SignInAssumption

LEMMA SignIdle ==
  ASSUME NEW d, Sign(d)!SignInAssumption
  PROVE  /\ Sign(d)!Idle \in Sign(d)!CallType /\ Sign(d)!Idle.pc = "idle" /\ Sign(d)!Idle.op = "login"
         /\ Sign(d)!Idle.code = Nobody
         /\ CallKnown(d, Sign(d)!Idle) /\ \A accounts : CallFresh(d, Sign(d)!Idle, accounts)
<1>1. Sign(d)!Idle \in Sign(d)!CallType
  BY SignAssumed DEF Sign!Idle, Sign!CallType, Sign!Pc, Sign!AllOps, Sign!Purposes
<1>2. Sign(d)!Idle.pc = "idle" /\ Sign(d)!Idle.op = "login" /\ Sign(d)!Idle.code = Nobody
  BY DEF Sign!Idle
<1> QED BY <1>1, <1>2 DEF CallKnown, CallFresh

LEMMA SignInit == ASSUME NEW d, Sign(d)!SignInAssumption, Sign(d)!Init PROVE SignOK(d)
<1>1. /\ v1 \in [Accounts -> [password: {0}, status: {"active", "unverified"}, factor: {FALSE}]]
      /\ v2 = [s \in SessionsAt[d] |-> Sign(d)!NoRow] /\ v3 = [k \in Codes |-> Sign(d)!NoOtp]
      /\ v4 = [a \in Accounts |-> Unguessed]
      /\ v5 = [c \in Calls |-> Sign(d)!Idle]
  BY DEF Sign!Init, Unguessed, Sign!Tries, Levels
<1>2. Sign(d)!TypeOK
  <2>1. v1 \in [Accounts -> Sign(d)!AccountType]
    <3>1. 0 \in 0..MaxResets
      BY SignAssumed
    <3> QED BY <1>1, <3>1 DEF Sign!AccountType
  <2>2. v2 \in [SessionsAt[d] -> Sign(d)!SessionType]
    BY <1>1, SignAssumed DEF Sign!SessionType, Sign!NoRow
  <2>3. v3 \in [Codes -> Sign(d)!CodeType \cup {Sign(d)!NoOtp}] /\ v5 \in [Calls -> Sign(d)!CallType]
    BY <1>1, SignIdle
  <2>4. v4 \in [Accounts -> FailureType]
    BY <1>1 DEF Unguessed, FailureType
  <2> QED BY <2>1, <2>2, <2>3, <2>4 DEF Sign!TypeOK, Sign!Tries, Levels, FailureType
<1>3. Sign(d)!CallsInv
  BY <1>1, SignIdle DEF Sign!CallsInv, Sign!At
<1>4. Sign(d)!AttemptsInv
  <2> SUFFICES ASSUME NEW k \in Codes
               PROVE  v3[k].attempts + Sign(d)!Cardinality(Sign(d)!Guessing(k))
                        <= MaxAttempts + Sign(d)!Cardinality(Calls) - 1
    BY DEF Sign!AttemptsInv
  <2>1. Sign(d)!Guessing(k) = {} /\ v3[k].attempts = 0
    BY <1>1, SignIdle DEF Sign!Guessing, Sign!At, Sign!NoOtp
  <2>2. Cardinality({}) = 0 /\ Cardinality(Calls) \in Nat
    BY SignAssumed, FS_EmptySet, FS_CardinalityType
  <2>3. Sign(d)!Cardinality(Sign(d)!Guessing(k)) = 0 /\ Sign(d)!Cardinality(Calls) = Cardinality(Calls)
    BY <2>1, <2>2, SignCard
  <2> QED BY <2>1, <2>2, <2>3, SignAssumed
<1>5. Sign(d)!SessionsInv
  BY <1>1, SignIdle DEF Sign!SessionsInv, Sign!ResetSignsOut, Sign!At
<1> QED BY <1>2, <1>3, <1>4, <1>5 DEF SignOK

LEMMA GuessesCard ==
  ASSUME IsFiniteSet(Calls), NEW signing, NEW k
  PROVE  /\ IsFiniteSet(Guesses(signing, k)) /\ Cardinality(Guesses(signing, k)) \in Nat
         /\ Cardinality(Guesses(signing, k)) <= Cardinality(Calls) /\ Cardinality(Calls) \in Nat
<1>1. Guesses(signing, k) \subseteq Calls
  BY DEF Guesses
<1> QED BY <1>1, FS_Subset, FS_CardinalityType

\* No attempt is added and no guess let through.
LEMMA AttemptsSame ==
  ASSUME NEW d, Sign(d)!SignInAssumption, SignOK(d), NEW c \in Calls, NEW rec,
         v5' = [v5 EXCEPT ![c] = rec], rec.pc # "ot_wrong",
         v3' \in [Codes -> Sign(d)!CodeType \cup {Sign(d)!NoOtp}],
         \A k \in Codes : v3'[k].attempts <= v3[k].attempts
  PROVE  AttemptsLow(v3', v5')
<1> SUFFICES ASSUME NEW k \in Codes
             PROVE  v3'[k].attempts + Cardinality(Guesses(v5', k)) <= MaxAttempts + Cardinality(Calls) - 1
  BY DEF AttemptsLow
<1>1. v3[k].attempts + Cardinality(Guesses(v5, k)) <= MaxAttempts + Cardinality(Calls) - 1
      /\ v3[k].attempts \in Nat /\ v3'[k].attempts \in Nat /\ v3'[k].attempts <= v3[k].attempts
  BY SignFacts DEF AttemptsLow, Sign!CodeType, Sign!NoOtp
<1>2. Guesses(v5', k) \subseteq Guesses(v5, k)
  BY SignFacts DEF Guesses
<1>3. Cardinality(Guesses(v5', k)) <= Cardinality(Guesses(v5, k))
  BY <1>2, GuessesCard, SignAssumed, FS_Subset
<1> QED BY <1>1, <1>3, GuessesCard, SignAssumed

\* No password is set, sessions only end, and no call leaves the end of a reset.
LEMMA SessionsSame ==
  ASSUME NEW d, SignOK(d), NEW c \in Calls, NEW rec, v5' = [v5 EXCEPT ![c] = rec],
         v5[c].pc # "rs_revoke", \A a \in Accounts : v1'[a].password = v1[a].password,
         \A s \in SessionsAt[d] : v2'[s] \in {v2[s], Sign(d)!NoRow}
  PROVE  SessionsFresh(d, v1', v2', v5') /\ Owned(d, v2')
<1>1. SessionsFresh(d, v1, v2, v5) /\ Owned(d, v2) /\ v5 \in [Calls -> Sign(d)!CallType]
  BY SignFacts
<1>2. Owned(d, v2')
  BY <1>1 DEF Owned
<1>3. ASSUME Strict(d), NEW s \in SessionsAt[d], v2'[s] # Sign(d)!NoRow, v2'[s].who \notin AdminsAt[d]
      PROVE  \/ v2'[s].password = v1'[v2'[s].who].password
             \/ \E o \in Calls : v5'[o].pc = "rs_revoke" /\ v5'[o].who = v2'[s].who
  <2>1. v2'[s] = v2[s] /\ v2[s].who \in Accounts
    BY <1>1, <1>3 DEF Owned
  <2>2. CASE v2[s].password = v1[v2[s].who].password
    BY <2>1, <2>2
  <2>3. CASE v2[s].password # v1[v2[s].who].password
    <3>1. PICK o \in Calls : v5[o].pc = "rs_revoke" /\ v5[o].who = v2[s].who
      BY <1>1, <1>3, <2>1, <2>3 DEF SessionsFresh
    <3>2. v5'[o] = v5[o]
      BY <1>1, <3>1
    <3> QED BY <2>1, <3>1, <3>2
  <2> QED BY <2>2, <2>3
<1>4. SessionsFresh(d, v1', v2', v5')
  BY <1>3 DEF SessionsFresh
<1> QED BY <1>2, <1>4

\* A call moves to rec, and no password is set.
LEMMA SignMove ==
  ASSUME NEW d, Sign(d)!SignInAssumption, SignOK(d), NEW c \in Calls,
         NEW rec \in Sign(d)!CallType, v5' = [v5 EXCEPT ![c] = rec],
         v1' \in [Accounts -> Sign(d)!AccountType], v2' \in [SessionsAt[d] -> Sign(d)!SessionType],
         v3' \in [Codes -> Sign(d)!CodeType \cup {Sign(d)!NoOtp}], v4' \in [Accounts -> FailureType],
         \A a \in Accounts : v1'[a].password = v1[a].password,
         AttemptsLow(v3', v5'), SessionsFresh(d, v1', v2', v5'), Owned(d, v2'),
         CallKnown(d, rec), CallFresh(d, rec, v1),
         \/ rec.pc = "idle"
         \/ v5[c].pc # "idle" /\ rec.op = v5[c].op
         \/ Strict(d) => \A o \in Calls : v5[o].pc = "idle" \/ (rec.op # "reset" /\ v5[o].op # "reset")
  PROVE  SignOK(d)'
<1>1. /\ v5 \in [Calls -> Sign(d)!CallType] /\ ResetAlone(d, v5)
      /\ \A o \in Calls : CallKnown(d, v5[o]) /\ CallFresh(d, v5[o], v1)
  BY SignFacts
<1>2. v5' \in [Calls -> Sign(d)!CallType] /\ v5'[c] = rec /\ \A o \in Calls \ {c} : v5'[o] = v5[o]
  BY <1>1
<1>3. ASSUME NEW o \in Calls PROVE CallKnown(d, v5'[o]) /\ CallFresh(d, v5'[o], v1')
  <2>1. CallKnown(d, v5'[o]) /\ CallFresh(d, v5'[o], v1)
    BY <1>1, <1>2
  <2>2. CallFresh(d, v5'[o], v1')
    BY <2>1 DEF CallFresh, CallKnown
  <2> QED BY <2>1, <2>2
<1>4. ResetAlone(d, v5')
  <2> SUFFICES ASSUME Strict(d), NEW e \in Calls, v5'[e].pc # "idle", v5'[e].op = "reset", NEW o \in Calls \ {e}
               PROVE  v5'[o].pc = "idle"
    BY DEF ResetAlone
  <2>1. CASE e = c
    BY <1>1, <1>2, <2>1 DEF ResetAlone
  <2>2. CASE o = c
    BY <1>1, <1>2, <2>2 DEF ResetAlone
  <2>3. CASE e # c /\ o # c
    BY <1>1, <1>2, <2>3 DEF ResetAlone
  <2> QED BY <2>1, <2>2, <2>3
<1> QED BY <1>2, <1>3, <1>4, SignKept

\* Only the call moves, and it lets no guess through.
LEMMA SignGoesOn ==
  ASSUME NEW d, Sign(d)!SignInAssumption, SignOK(d), NEW c \in Calls,
         NEW rec \in Sign(d)!CallType, v5' = [v5 EXCEPT ![c] = rec], UNCHANGED <<v1, v2, v3>>,
         v4' \in [Accounts -> FailureType], v5[c].pc # "rs_revoke", rec.pc # "ot_wrong",
         CallKnown(d, rec), CallFresh(d, rec, v1),
         \/ rec.pc = "idle"
         \/ v5[c].pc # "idle" /\ rec.op = v5[c].op
         \/ Strict(d) => \A o \in Calls : v5[o].pc = "idle" \/ (rec.op # "reset" /\ v5[o].op # "reset")
  PROVE  SignOK(d)'
<1>1. /\ v1' \in [Accounts -> Sign(d)!AccountType] /\ v2' \in [SessionsAt[d] -> Sign(d)!SessionType]
      /\ v3' \in [Codes -> Sign(d)!CodeType \cup {Sign(d)!NoOtp}]
      /\ \A k \in Codes : v3'[k].attempts <= v3[k].attempts
  <2>1. \A k \in Codes : v3[k].attempts \in Nat
    BY SignFacts DEF Sign!CodeType, Sign!NoOtp
  <2> QED BY <2>1, SignFacts
<1>2. AttemptsLow(v3', v5')
  BY <1>1, AttemptsSame
<1>3. SessionsFresh(d, v1', v2', v5') /\ Owned(d, v2')
  BY SessionsSame
<1> QED BY <1>1, <1>2, <1>3, SignMove

\* The start of an operation.
LEMMA SignBegin ==
  ASSUME NEW d, Sign(d)!SignInAssumption, SignOK(d), NEW c \in Calls,
         NEW rec \in Sign(d)!CallType, v5' = [v5 EXCEPT ![c] = rec],
         Sign(d)!Free(c, rec.op), rec.who \in Accounts, UNCHANGED <<v1, v2, v3, v4>>,
         \/ rec.pc = "lg_check" \/ rec.pc = "ot_read" \/ (rec.pc = "ch_write" /\ rec.op = "change")
         \/ rec.pc = "ot_right" /\ rec.code \in Codes /\ rec.op \in DOMAIN Sign(d)!After
         \/ rec.pc = "rf_delete" /\ CallFresh(d, rec, v1)
  PROVE  SignOK(d)'
<1>1. rec.op \in OpsAt[d] /\ v5[c].pc = "idle"
      /\ \A o \in Calls : v5[o].pc = "idle" \/ (rec.op \notin AloneAt[d] /\ v5[o].op \notin AloneAt[d])
  BY DEF Sign!Free, Sign!At
<1>2. CallKnown(d, rec) /\ CallFresh(d, rec, v1)
  BY <1>1 DEF CallKnown, CallFresh
<1>3. Strict(d) => \A o \in Calls : v5[o].pc = "idle" \/ (rec.op # "reset" /\ v5[o].op # "reset")
  BY <1>1 DEF Strict
<1>4. v4' \in [Accounts -> FailureType]
  BY SignFacts
<1> QED BY <1>1, <1>2, <1>3, <1>4, SignGoesOn

LEMMA SignStarts ==
  ASSUME NEW d, Sign(d)!SignInAssumption, SignOK(d), NEW c \in Calls, NEW a \in Accounts,
         \/ Sign(d)!LoginStart(c, a) \/ Sign(d)!ChangeStart(c, a) \/ Sign(d)!ForgotPassword(c, a)
         \/ Sign(d)!ResendVerification(c, a) \/ Sign(d)!StartEnable2fa(c, a)
  PROVE  SignOK(d)'
<1>2. ASSUME NEW p \in Sign(d)!Purposes, Sign(d)!IssueStart(c, a, p) PROVE SignOK(d)'
  <2> DEFINE rec == [Sign(d)!Idle EXCEPT !.pc = "ot_read", !.op = "code", !.who = a, !.purpose = p]
  <2>1. v5' = [v5 EXCEPT ![c] = rec] /\ Sign(d)!Free(c, "code") /\ UNCHANGED <<v1, v2, v3, v4>>
    BY <1>2 DEF Sign!IssueStart
  <2>2. rec \in Sign(d)!CallType /\ rec.pc = "ot_read" /\ rec.op = "code" /\ rec.who = a
    BY SignIdle DEF Sign!CallType, Sign!Pc, Sign!AllOps
  <2> HIDE DEF rec
  <2>3. Sign(d)!Free(c, rec.op) /\ rec.who \in Accounts
    BY <2>1, <2>2
  <2> QED BY <2>1, <2>2, <2>3, SignBegin
<1>3. {"login", "password_reset", "email_verification"} \subseteq Sign(d)!Purposes
  BY DEF Sign!Purposes
<1>4. ASSUME Sign(d)!LoginStart(c, a) PROVE SignOK(d)'
  <2> DEFINE rec == [Sign(d)!Idle EXCEPT !.pc = "lg_check", !.op = "login", !.who = a]
  <2>1. v5' = [v5 EXCEPT ![c] = rec] /\ Sign(d)!Free(c, "login") /\ UNCHANGED <<v1, v2, v3, v4>>
    BY <1>4 DEF Sign!LoginStart, Sign!Begin
  <2>2. rec \in Sign(d)!CallType /\ rec.pc = "lg_check" /\ rec.op = "login" /\ rec.who = a
    BY SignIdle DEF Sign!CallType, Sign!Pc, Sign!AllOps
  <2> HIDE DEF rec
  <2>3. Sign(d)!Free(c, rec.op) /\ rec.who \in Accounts
    BY <2>1, <2>2
  <2> QED BY <2>1, <2>2, <2>3, SignBegin
<1>5. ASSUME Sign(d)!ChangeStart(c, a) PROVE SignOK(d)'
  <2> DEFINE rec == [Sign(d)!Idle EXCEPT !.pc = "ch_write", !.op = "change", !.who = a]
  <2>1. v5' = [v5 EXCEPT ![c] = rec] /\ Sign(d)!Free(c, "change") /\ UNCHANGED <<v1, v2, v3, v4>>
    BY <1>5 DEF Sign!ChangeStart, Sign!Begin
  <2>2. rec \in Sign(d)!CallType /\ rec.pc = "ch_write" /\ rec.op = "change" /\ rec.who = a
    BY SignIdle DEF Sign!CallType, Sign!Pc, Sign!AllOps
  <2> HIDE DEF rec
  <2>3. Sign(d)!Free(c, rec.op) /\ rec.who \in Accounts
    BY <2>1, <2>2
  <2> QED BY <2>1, <2>2, <2>3, SignBegin
<1> QED BY <1>2, <1>3, <1>4, <1>5 DEF Sign!ForgotPassword, Sign!ResendVerification, Sign!StartEnable2fa

LEMMA SignCodeRead ==
  ASSUME NEW d, Sign(d)!SignInAssumption, SignOK(d), NEW c \in Calls, NEW op \in DOMAIN Sign(d)!PurposeOf,
         NEW a \in Accounts, NEW k \in Codes, NEW right \in BOOLEAN, Sign(d)!CodeRead(c, op, a, k, right)
  PROVE  SignOK(d)'
<1> DEFINE pc == IF right THEN "ot_right" ELSE "ot_wrong"
<1> DEFINE rec == [Sign(d)!Idle EXCEPT !.pc = pc, !.op = op, !.who = a, !.code = k]
<1>1. /\ v5' = [v5 EXCEPT ![c] = rec] /\ Sign(d)!Free(c, op) /\ UNCHANGED <<v1, v2, v3, v4>>
      /\ ~(v3[k].attempts >= MaxAttempts)
  BY DEF Sign!CodeRead, Sign!Worn
<1>2. op \in Sign(d)!AllOps /\ op \in DOMAIN Sign(d)!After
  BY DEF Sign!PurposeOf, Sign!After, Sign!AllOps
<1>3. pc \in Sign(d)!Pc /\ pc \in {"ot_right", "ot_wrong"}
  BY DEF Sign!Pc
<1>4. rec \in Sign(d)!CallType /\ rec.pc = pc /\ rec.op = op /\ rec.who = a /\ rec.code = k
  BY <1>2, <1>3, SignIdle DEF Sign!CallType
<1> HIDE DEF rec, pc
<1>5. CASE pc = "ot_right"
  <2>1. Sign(d)!Free(c, rec.op) /\ rec.who \in Accounts
    BY <1>1, <1>4
  <2> QED BY <1>1, <1>2, <1>4, <1>5, <2>1, SignBegin
<1>6. CASE pc = "ot_wrong"
  <2>1. v5[c].pc = "idle" /\ op \in OpsAt[d]
        /\ \A o \in Calls : v5[o].pc = "idle" \/ (op \notin AloneAt[d] /\ v5[o].op \notin AloneAt[d])
    BY <1>1 DEF Sign!Free, Sign!At
  <2>2. AttemptsLow(v3', v5')
    <3> SUFFICES ASSUME NEW j \in Codes
                 PROVE  v3[j].attempts + Cardinality(Guesses(v5', j)) <= MaxAttempts + Cardinality(Calls) - 1
      BY <1>1 DEF AttemptsLow
    <3>1. v3[j].attempts + Cardinality(Guesses(v5, j)) <= MaxAttempts + Cardinality(Calls) - 1
          /\ v3[j].attempts \in Nat
      BY SignFacts DEF AttemptsLow, Sign!CodeType, Sign!NoOtp
    <3>2. CASE j = k
      <4>1. v3[j].attempts <= MaxAttempts - 1
        BY <1>1, <3>1, <3>2, SignAssumed
      <4> QED BY <3>1, <4>1, GuessesCard, SignAssumed
    <3>3. CASE j # k
      <4>1. Guesses(v5', j) = Guesses(v5, j)
        BY <1>1, <1>4, <2>1, <3>3, SignFacts DEF Guesses
      <4> QED BY <3>1, <4>1
    <3> QED BY <3>2, <3>3
  <2>3. SessionsFresh(d, v1', v2', v5') /\ Owned(d, v2')
    BY <1>1, <2>1, SessionsSame
  <2>4. CallKnown(d, rec) /\ CallFresh(d, rec, v1)
    BY <1>2, <1>4, <1>6, <2>1 DEF CallKnown, CallFresh
  <2>5. Strict(d) => \A o \in Calls : v5[o].pc = "idle" \/ (rec.op # "reset" /\ v5[o].op # "reset")
    BY <1>4, <2>1 DEF Strict
  <2>6. /\ v1' \in [Accounts -> Sign(d)!AccountType] /\ v2' \in [SessionsAt[d] -> Sign(d)!SessionType]
        /\ v3' \in [Codes -> Sign(d)!CodeType \cup {Sign(d)!NoOtp}] /\ v4' \in [Accounts -> FailureType]
        /\ \A b \in Accounts : v1'[b].password = v1[b].password
    BY <1>1, SignFacts
  <2> QED BY <1>1, <1>4, <2>2, <2>3, <2>4, <2>5, <2>6, SignMove
<1> QED BY <1>3, <1>5, <1>6

LEMMA SignRefreshStart ==
  ASSUME NEW d, Sign(d)!SignInAssumption, SignOK(d), NEW c \in Calls, NEW s \in SessionsAt[d],
         Sign(d)!RefreshStart(c, s)
  PROVE  SignOK(d)'
<1> DEFINE rec == [Sign(d)!Idle EXCEPT !.pc = "rf_delete", !.op = "refresh", !.who = v2[s].who,
                     !.session = s, !.password = v2[s].password]
<1>1. /\ v5' = [v5 EXCEPT ![c] = rec] /\ Sign(d)!Free(c, "refresh") /\ UNCHANGED <<v1, v2, v3, v4>>
      /\ v2[s] # Sign(d)!NoRow
  BY DEF Sign!RefreshStart
<1>2. v2[s].who \in Accounts /\ v2[s].password \in 0..MaxResets
  BY <1>1, SignFacts DEF Owned, Sign!SessionType
<1>3. /\ rec \in Sign(d)!CallType /\ rec.pc = "rf_delete" /\ rec.op = "refresh" /\ rec.who = v2[s].who
      /\ rec.password = v2[s].password
  BY <1>2, SignIdle DEF Sign!CallType, Sign!Pc, Sign!AllOps
<1> HIDE DEF rec
<1>4. CallFresh(d, rec, v1)
  <2> SUFFICES ASSUME Strict(d), v2[s].who \notin AdminsAt[d]
               PROVE  v2[s].password = v1[v2[s].who].password
    BY <1>3 DEF CallFresh
  <2>1. \A o \in Calls : v5[o].pc # "rs_revoke"
    <3> SUFFICES ASSUME NEW o \in Calls, v5[o].pc = "rs_revoke" PROVE FALSE
      OBVIOUS
    <3>1. v5[o].op = "reset"
      BY SignFacts DEF CallKnown
    <3>2. v5[o].pc = "idle" \/ v5[o].op \notin AloneAt[d]
      BY <1>1 DEF Sign!Free, Sign!At
    <3> QED BY <3>1, <3>2 DEF Strict
  <2> QED BY <1>1, <2>1, SignFacts DEF SessionsFresh
<1>5. Sign(d)!Free(c, rec.op) /\ rec.who \in Accounts
  BY <1>1, <1>2, <1>3
<1> QED BY <1>1, <1>3, <1>4, <1>5, SignBegin

LEMMA ForgivenType ==
  ASSUME NEW d, Sign(d)!SignInAssumption, v4 \in [Accounts -> FailureType], NEW a, v4' = Sign(d)!Forgiven(a)
  PROVE  v4' \in [Accounts -> FailureType]
<1> DEFINE row == [count |-> 0, locked |-> FALSE,
                   guesses |-> [v \in Levels |-> Sign(d)!Cardinality(Sign(d)!Uncounted(a, v))], late |-> 0]
<1>1. \A v : Sign(d)!Cardinality(Sign(d)!Uncounted(a, v)) \in Nat
  <2>1. \A v : Sign(d)!Uncounted(a, v) \subseteq Calls
    BY DEF Sign!Uncounted
  <2> QED BY <2>1, SignCard, SignAssumed, FS_Subset, FS_CardinalityType
<1>2. row \in FailureType
  BY <1>1 DEF FailureType
<1>3. v4' = [v4 EXCEPT ![a] = row]
  BY DEF Sign!Forgiven, Sign!Tries, Levels
<1> HIDE DEF row
<1> QED BY <1>2, <1>3

\* Where a call goes on to without touching an account, a session or a code.
LEMMA SignPasses ==
  ASSUME NEW d, Sign(d)!SignInAssumption, SignOK(d), NEW c \in Calls,
         \/ Sign(d)!LoginWrong(c) \/ Sign(d)!LoginCount(c) \/ Sign(d)!LoginRight(c) \/ Sign(d)!PlatformRight(c)
         \/ Sign(d)!LoginClear(c) \/ Sign(d)!PlatformClear(c) \/ Sign(d)!IssueRead(c) \/ Sign(d)!SecondFactor(c)
  PROVE  SignOK(d)'
<1>1. /\ v1 \in [Accounts -> Sign(d)!AccountType] /\ v4 \in [Accounts -> FailureType]
      /\ v5 \in [Calls -> Sign(d)!CallType] /\ v5[c] \in Sign(d)!CallType
      /\ CallKnown(d, v5[c]) /\ CallFresh(d, v5[c], v1)
  BY SignFacts
<1>2. /\ UNCHANGED <<v1, v2, v3>>
      /\ v5[c].pc \in {"lg_check", "lg_count", "lg_clear", "ot_read", "sf_read"}
  BY DEF Sign!LoginWrong, Sign!LoginCount, Sign!LoginRight, Sign!PlatformRight, Sign!Known, Sign!LoginClear,
         Sign!PlatformClear, Sign!IssueRead, Sign!SecondFactor, Sign!At
<1>3. v5[c].who \in Accounts /\ v5[c].op \in OpsAt[d]
  BY <1>1, <1>2 DEF CallKnown
<1>4. v4' \in [Accounts -> FailureType]
  <2>1. v4[v5[c].who] \in FailureType /\ v5[c].read \in Nat
    BY <1>1, <1>3 DEF Sign!CallType
  <2>2. CASE Sign(d)!LoginWrong(c)
    <3> DEFINE f == v4[v5[c].who]
    <3> DEFINE made == [f EXCEPT !.guesses[f.count] = @ + 1]
    <3> DEFINE late == [f EXCEPT !.late = @ + 1]
    <3>1. late \in FailureType /\ (f.count \in Levels => made \in FailureType)
      BY <2>1 DEF FailureType
    <3>2. v4' = [v4 EXCEPT ![v5[c].who] = late] \/ (f.count \in Levels /\ v4' = [v4 EXCEPT ![v5[c].who] = made])
      BY <1>1, <1>3, <2>2 DEF Sign!LoginWrong, Sign!Tries, Levels
    <3> HIDE DEF made, late
    <3> QED BY <1>1, <1>3, <3>1, <3>2
  <2>3. CASE Sign(d)!LoginCount(c)
    <3> DEFINE n == v5[c].read + 1
    <3> DEFINE full == n >= MaxFailures
    <3> DEFINE row == [v4[v5[c].who] EXCEPT !.count = n, !.locked = @ \/ full]
    <3>1. n \in Nat
      BY <2>1
    <3>2. v4' = [v4 EXCEPT ![v5[c].who] = row]
      BY <1>1, <1>3, <2>3 DEF Sign!LoginCount
    <3> HIDE DEF n, full
    <3>3. row \in FailureType
      BY <2>1, <3>1 DEF FailureType
    <3> HIDE DEF row
    <3> QED BY <1>1, <1>3, <3>2, <3>3
  <2>4. CASE Sign(d)!LoginClear(c) \/ Sign(d)!PlatformClear(c)
    BY <1>1, <2>4, ForgivenType DEF Sign!LoginClear, Sign!PlatformClear
  <2>5. CASE UNCHANGED v4
    BY <1>1, <2>5
  <2> QED BY <2>2, <2>3, <2>4, <2>5 DEF Sign!LoginRight, Sign!PlatformRight, Sign!Known, Sign!IssueRead,
                                         Sign!SecondFactor
<1>5. CASE Sign(d)!End(c)
  BY <1>2, <1>4, <1>5, SignIdle, SignGoesOn DEF Sign!End
<1>6. ASSUME NEW rec \in Sign(d)!CallType, v5' = [v5 EXCEPT ![c] = rec], rec.op = v5[c].op, rec.who = v5[c].who,
             rec.pc \in {"lg_count", "lg_clear", "ot_read", "ot_delete", "store"},
             CallFresh(d, rec, v1)
      PROVE  SignOK(d)'
  <2>1. CallKnown(d, rec)
    BY <1>3, <1>6 DEF CallKnown
  <2> QED BY <1>2, <1>4, <1>6, <2>1, SignGoesOn
<1>7. ASSUME NEW pc \in {"ot_read", "ot_delete", "store"}, Sign(d)!Goto(c, pc),
             pc = "store" => v5[c].pc = "lg_clear"
      PROVE  SignOK(d)'
  <2> DEFINE rec == [v5[c] EXCEPT !.pc = pc]
  <2>1. v5' = [v5 EXCEPT ![c] = rec]
    BY <1>1, <1>7 DEF Sign!Goto
  <2>2. rec \in Sign(d)!CallType /\ rec.op = v5[c].op /\ rec.who = v5[c].who /\ rec.pc = pc
        /\ rec.password = v5[c].password
    BY <1>1 DEF Sign!CallType, Sign!Pc
  <2> HIDE DEF rec
  <2>3. CallFresh(d, rec, v1)
    BY <1>1, <1>7, <2>2 DEF CallFresh
  <2> QED BY <1>6, <2>1, <2>2, <2>3
<1>8. ASSUME NEW pc \in {"lg_clear", "store"},
             v5' = [v5 EXCEPT ![c].pc = pc, ![c].password = v1[v5[c].who].password]
      PROVE  SignOK(d)'
  <2> DEFINE rec == [v5[c] EXCEPT !.pc = pc, !.password = v1[v5[c].who].password]
  <2>1. v5' = [v5 EXCEPT ![c] = rec]
    BY <1>1, <1>8
  <2>2. v1[v5[c].who].password \in 0..MaxResets
    BY <1>1, <1>3 DEF Sign!AccountType
  <2>3. rec \in Sign(d)!CallType /\ rec.op = v5[c].op /\ rec.who = v5[c].who /\ rec.pc = pc
        /\ rec.password = v1[v5[c].who].password
    BY <1>1, <2>2 DEF Sign!CallType, Sign!Pc
  <2> HIDE DEF rec
  <2>4. CallFresh(d, rec, v1)
    BY <2>3 DEF CallFresh
  <2> QED BY <1>6, <2>1, <2>3, <2>4
<1>9. CASE Sign(d)!LoginWrong(c)
  <2> DEFINE rec == [v5[c] EXCEPT !.pc = "lg_count", !.read = v4[v5[c].who].count]
  <2>1. v5' = [v5 EXCEPT ![c] = rec]
    BY <1>1, <1>9 DEF Sign!LoginWrong
  <2>2. v4[v5[c].who].count \in Nat
    BY <1>1, <1>3 DEF FailureType
  <2>3. rec \in Sign(d)!CallType /\ rec.op = v5[c].op /\ rec.who = v5[c].who /\ rec.pc = "lg_count"
    BY <1>1, <2>2 DEF Sign!CallType, Sign!Pc
  <2> HIDE DEF rec
  <2>4. CallFresh(d, rec, v1)
    BY <2>3 DEF CallFresh
  <2> QED BY <1>6, <2>1, <2>3, <2>4
<1>10. CASE Sign(d)!LoginCount(c)
  BY <1>5, <1>10 DEF Sign!LoginCount
<1>11. CASE Sign(d)!LoginRight(c) \/ Sign(d)!PlatformRight(c)
  BY <1>5, <1>8, <1>11 DEF Sign!LoginRight, Sign!PlatformRight, Sign!Known
<1>12. CASE Sign(d)!LoginClear(c) \/ Sign(d)!PlatformClear(c)
  BY <1>7, <1>12 DEF Sign!LoginClear, Sign!PlatformClear, Sign!At
<1>13. CASE Sign(d)!IssueRead(c)
  BY <1>5, <1>7, <1>13 DEF Sign!IssueRead
<1>14. CASE Sign(d)!SecondFactor(c)
  BY <1>5, <1>8, <1>14 DEF Sign!SecondFactor
<1> QED BY <1>9, <1>10, <1>11, <1>12, <1>13, <1>14

\* The steps that write the codes.
LEMMA CodesWithout ==
  ASSUME NEW d, NEW ks, v3 \in [Codes -> Sign(d)!CodeType \cup {Sign(d)!NoOtp}], v3' = Sign(d)!Without(ks)
  PROVE  /\ v3' \in [Codes -> Sign(d)!CodeType \cup {Sign(d)!NoOtp}]
         /\ \A k \in Codes : v3'[k].attempts <= v3[k].attempts
<1>1. \A k \in Codes : v3'[k] \in {v3[k], Sign(d)!NoOtp} /\ v3[k] \in Sign(d)!CodeType \cup {Sign(d)!NoOtp}
  BY DEF Sign!Without
<1>2. \A k \in Codes : v3[k].attempts \in Nat /\ Sign(d)!NoOtp.attempts = 0
  BY <1>1 DEF Sign!CodeType, Sign!NoOtp
<1>3. v3' \in [Codes -> Sign(d)!CodeType \cup {Sign(d)!NoOtp}]
  BY DEF Sign!Without
<1> QED BY <1>1, <1>2, <1>3

LEMMA SignIssueDelete ==
  ASSUME NEW d, Sign(d)!SignInAssumption, SignOK(d), NEW c \in Calls,
         Sign(d)!IssueDelete(c) \/ Sign(d)!CodeRight(c)
  PROVE  SignOK(d)'
<1>1. /\ v1 \in [Accounts -> Sign(d)!AccountType] /\ v2 \in [SessionsAt[d] -> Sign(d)!SessionType]
      /\ v3 \in [Codes -> Sign(d)!CodeType \cup {Sign(d)!NoOtp}] /\ v4 \in [Accounts -> FailureType]
      /\ v5 \in [Calls -> Sign(d)!CallType] /\ v5[c] \in Sign(d)!CallType /\ CallKnown(d, v5[c])
  BY SignFacts
<1>2. UNCHANGED <<v1, v2, v4>> /\ v5[c].pc \in {"ot_delete", "ot_right"} /\ \E ks : v3' = Sign(d)!Without(ks)
  BY DEF Sign!IssueDelete, Sign!CodeRight, Sign!At
<1>3. v5[c].who \in Accounts /\ v5[c].op \in OpsAt[d]
  BY <1>1, <1>2 DEF CallKnown
<1>4. PICK rec \in Sign(d)!CallType :
        /\ v5' = [v5 EXCEPT ![c] = rec] /\ rec.op = v5[c].op /\ rec.who = v5[c].who
        /\ rec.pc \in {"ot_insert", "vf_write", "sf_read", "tf_write"} \/ (rec.pc = "rs_write" /\ rec.op = "reset")
  <2>1. CASE Sign(d)!IssueDelete(c)
    <3> DEFINE rec == [v5[c] EXCEPT !.pc = "ot_insert"]
    <3>1. v5' = [v5 EXCEPT ![c] = rec]
      BY <1>1, <2>1 DEF Sign!IssueDelete, Sign!Goto
    <3>2. rec \in Sign(d)!CallType /\ rec.op = v5[c].op /\ rec.who = v5[c].who /\ rec.pc = "ot_insert"
      BY <1>1 DEF Sign!CallType, Sign!Pc
    <3> QED BY <3>1, <3>2
  <2>2. CASE Sign(d)!CodeRight(c)
    <3> DEFINE pc == Sign(d)!After[v5[c].op]
    <3> DEFINE rec == [v5[c] EXCEPT !.pc = pc, !.code = Nobody]
    <3>1. v5' = [v5 EXCEPT ![c] = rec]
      BY <1>1, <2>2 DEF Sign!CodeRight
    <3>2. v5[c].op \in DOMAIN Sign(d)!After
      BY <1>1, <2>2 DEF CallKnown, Sign!CodeRight, Sign!At
    <3>3. pc \in {"vf_write", "sf_read", "tf_write"} \/ (pc = "rs_write" /\ v5[c].op = "reset")
      BY <3>2 DEF Sign!After
    <3> HIDE DEF pc
    <3>4. pc \in Sign(d)!Pc
      BY <3>3 DEF Sign!Pc
    <3>5. rec \in Sign(d)!CallType /\ rec.op = v5[c].op /\ rec.who = v5[c].who /\ rec.pc = pc
      BY <1>1, <3>4 DEF Sign!CallType
    <3> HIDE DEF rec
    <3> QED BY <3>1, <3>3, <3>5
  <2> QED BY <2>1, <2>2
<1>5. CallKnown(d, rec) /\ CallFresh(d, rec, v1)
  BY <1>3, <1>4 DEF CallKnown, CallFresh
<1>6. v3' \in [Codes -> Sign(d)!CodeType \cup {Sign(d)!NoOtp}] /\ AttemptsLow(v3', v5')
  BY <1>1, <1>2, <1>4, CodesWithout, AttemptsSame
<1>7. SessionsFresh(d, v1', v2', v5') /\ Owned(d, v2')
  BY <1>2, <1>4, SessionsSame
<1> QED BY <1>1, <1>2, <1>4, <1>5, <1>6, <1>7, SignMove

LEMMA SignIssueInsert ==
  ASSUME NEW d, Sign(d)!SignInAssumption, SignOK(d), NEW c \in Calls, NEW k \in Codes, Sign(d)!IssueInsert(c, k)
  PROVE  SignOK(d)'
<1>1. /\ v1 \in [Accounts -> Sign(d)!AccountType] /\ v2 \in [SessionsAt[d] -> Sign(d)!SessionType]
      /\ v3 \in [Codes -> Sign(d)!CodeType \cup {Sign(d)!NoOtp}] /\ v4 \in [Accounts -> FailureType]
      /\ v5 \in [Calls -> Sign(d)!CallType] /\ v5[c] \in Sign(d)!CallType /\ CallKnown(d, v5[c])
  BY SignFacts
<1> DEFINE row == [who |-> v5[c].who, purpose |-> v5[c].purpose, attempts |-> 0, age |-> "recent"]
<1>2. /\ UNCHANGED <<v1, v2, v4>> /\ v5[c].pc = "ot_insert" /\ v3' = [v3 EXCEPT ![k] = row]
      /\ v5' = [v5 EXCEPT ![c] = Sign(d)!Idle] /\ v3[k] = Sign(d)!NoOtp
  BY DEF Sign!IssueInsert, Sign!At, Sign!End
<1>3. row \in Sign(d)!CodeType /\ row.attempts = 0
  <2>1. v5[c].who \in Accounts
    BY <1>1, <1>2 DEF CallKnown
  <2> QED BY <1>1, <2>1 DEF Sign!CallType, Sign!CodeType
<1> HIDE DEF row
<1>4. v3' \in [Codes -> Sign(d)!CodeType \cup {Sign(d)!NoOtp}]
  BY <1>1, <1>2, <1>3
<1>5. \A j \in Codes : v3'[j].attempts <= v3[j].attempts
  <2>1. \A j \in Codes : v3[j] \in Sign(d)!CodeType \cup {Sign(d)!NoOtp}
    BY <1>1
  <2>2. \A j \in Codes : v3[j].attempts \in Nat
    BY <2>1 DEF Sign!CodeType, Sign!NoOtp
  <2>3. v3'[k].attempts = 0 /\ \A j \in Codes \ {k} : v3'[j] = v3[j]
    BY <1>1, <1>2, <1>3
  <2> QED BY <2>2, <2>3
<1>6. AttemptsLow(v3', v5')
  BY <1>2, <1>4, <1>5, SignIdle, AttemptsSame
<1>7. SessionsFresh(d, v1', v2', v5') /\ Owned(d, v2')
  BY <1>2, SessionsSame
<1> QED BY <1>1, <1>2, <1>4, <1>6, <1>7, SignIdle, SignMove

LEMMA SignCodeWrong ==
  ASSUME NEW d, Sign(d)!SignInAssumption, SignOK(d), NEW c \in Calls, Sign(d)!CodeWrong(c)
  PROVE  SignOK(d)'
<1> DEFINE k == v5[c].code
<1>1. /\ v1 \in [Accounts -> Sign(d)!AccountType] /\ v2 \in [SessionsAt[d] -> Sign(d)!SessionType]
      /\ v3 \in [Codes -> Sign(d)!CodeType \cup {Sign(d)!NoOtp}] /\ v4 \in [Accounts -> FailureType]
      /\ v5 \in [Calls -> Sign(d)!CallType] /\ CallKnown(d, v5[c]) /\ AttemptsLow(v3, v5)
  BY SignFacts
<1>2. UNCHANGED <<v1, v2, v4>> /\ v5[c].pc = "ot_wrong" /\ v5' = [v5 EXCEPT ![c] = Sign(d)!Idle] /\ k \in Codes
  BY <1>1 DEF Sign!CodeWrong, Sign!At, Sign!End, CallKnown
<1>3. CASE v3[k] = Sign(d)!NoOtp
  <2>1. v3' = v3 /\ \A j \in Codes : v3'[j].attempts <= v3[j].attempts
    <3>1. \A j \in Codes : v3[j] \in Sign(d)!CodeType \cup {Sign(d)!NoOtp}
      BY <1>1
    <3>2. \A j \in Codes : v3[j].attempts \in Nat
      BY <3>1 DEF Sign!CodeType, Sign!NoOtp
    <3> QED BY <1>3, <3>2 DEF Sign!CodeWrong
  <2>2. AttemptsLow(v3', v5')
    BY <1>1, <1>2, <2>1, SignIdle, AttemptsSame
  <2>3. SessionsFresh(d, v1', v2', v5') /\ Owned(d, v2')
    BY <1>2, SessionsSame
  <2> QED BY <1>1, <1>2, <2>1, <2>2, <2>3, SignIdle, SignMove
<1>4. CASE v3[k] # Sign(d)!NoOtp
  <2> DEFINE row == [v3[k] EXCEPT !.attempts = @ + 1]
  <2>1. v3[k] \in Sign(d)!CodeType
    BY <1>1, <1>2, <1>4
  <2>2. row \in Sign(d)!CodeType /\ row.attempts = v3[k].attempts + 1 /\ v3[k].attempts \in Nat
    BY <2>1 DEF Sign!CodeType
  <2>3. v3' = [v3 EXCEPT ![k] = row]
    BY <1>1, <1>2, <1>4 DEF Sign!CodeWrong
  <2> HIDE DEF row, k
  <2>4. v3' \in [Codes -> Sign(d)!CodeType \cup {Sign(d)!NoOtp}] /\ v3'[k] = row
        /\ \A j \in Codes \ {k} : v3'[j] = v3[j]
    BY <1>1, <1>2, <2>2, <2>3
  <2>5. ASSUME NEW j \in Codes
        PROVE  v3'[j].attempts + Cardinality(Guesses(v5', j)) <= MaxAttempts + Cardinality(Calls) - 1
    <3>1. v3[j].attempts + Cardinality(Guesses(v5, j)) <= MaxAttempts + Cardinality(Calls) - 1
      BY <1>1 DEF AttemptsLow
    <3>2. CASE j = k
      <4>1. c \in Guesses(v5, k) /\ Guesses(v5', k) = Guesses(v5, k) \ {c}
        BY <1>1, <1>2, SignIdle DEF Guesses, k
      <4>2. IsFiniteSet(Guesses(v5, k))
        BY GuessesCard, SignAssumed
      <4>3. Cardinality(Guesses(v5, k) \ {c}) = Cardinality(Guesses(v5, k)) - 1
        BY <4>1, <4>2, FS_RemoveElement
      <4> QED BY <2>2, <2>4, <3>1, <3>2, <4>1, <4>3, GuessesCard, SignAssumed
    <3>3. CASE j # k
      <4>1. Guesses(v5', j) = Guesses(v5, j)
        BY <1>1, <1>2, <3>3, SignIdle DEF Guesses, k
      <4> QED BY <2>4, <3>1, <3>3, <4>1
    <3> QED BY <3>2, <3>3
  <2>6. AttemptsLow(v3', v5')
    BY <2>5 DEF AttemptsLow
  <2>7. SessionsFresh(d, v1', v2', v5') /\ Owned(d, v2')
    BY <1>2, SessionsSame
  <2> QED BY <1>1, <1>2, <2>4, <2>6, <2>7, SignIdle, SignMove
<1> QED BY <1>3, <1>4

\* The steps that write the sessions.
LEMMA SignStore ==
  ASSUME NEW d, Sign(d)!SignInAssumption, SignOK(d), NEW c \in Calls, NEW s \in SessionsAt[d],
         Sign(d)!Store(c, s)
  PROVE  SignOK(d)'
<1>1. /\ v1 \in [Accounts -> Sign(d)!AccountType] /\ v2 \in [SessionsAt[d] -> Sign(d)!SessionType]
      /\ v3 \in [Codes -> Sign(d)!CodeType \cup {Sign(d)!NoOtp}] /\ v4 \in [Accounts -> FailureType]
      /\ v5 \in [Calls -> Sign(d)!CallType] /\ v5[c] \in Sign(d)!CallType
      /\ CallKnown(d, v5[c]) /\ CallFresh(d, v5[c], v1)
      /\ Owned(d, v2) /\ SessionsFresh(d, v1, v2, v5)
  BY SignFacts
<1> DEFINE row == Sign(d)!TokenResponse(c)
<1>2. /\ UNCHANGED <<v1, v3, v4>> /\ v5[c].pc = "store" /\ v2' = [v2 EXCEPT ![s] = row]
      /\ v5' = [v5 EXCEPT ![c] = Sign(d)!Idle]
  BY DEF Sign!Store, Sign!At, Sign!End
<1>3. /\ row \in Sign(d)!SessionType /\ row.who = v5[c].who /\ row.password = v5[c].password
      /\ v5[c].who \in Accounts
  BY <1>1, <1>2 DEF Sign!TokenResponse, Sign!SessionType, Sign!CallType, CallKnown
<1> HIDE DEF row
<1>4. v2' \in [SessionsAt[d] -> Sign(d)!SessionType] /\ v2'[s] = row /\ \A o \in SessionsAt[d] \ {s} : v2'[o] = v2[o]
  BY <1>1, <1>2, <1>3
<1>5. Owned(d, v2')
  BY <1>1, <1>3, <1>4 DEF Owned
<1>6. SessionsFresh(d, v1', v2', v5')
  <2> SUFFICES ASSUME Strict(d), NEW o \in SessionsAt[d], v2'[o] # Sign(d)!NoRow, v2'[o].who \notin AdminsAt[d]
               PROVE  \/ v2'[o].password = v1[v2'[o].who].password
                      \/ \E e \in Calls : v5'[e].pc = "rs_revoke" /\ v5'[e].who = v2'[o].who
    BY <1>2 DEF SessionsFresh
  <2>1. CASE o = s
    BY <1>1, <1>2, <1>3, <1>4, <2>1 DEF CallFresh
  <2>2. CASE o # s /\ v2[o].password # v1[v2[o].who].password
    <3>1. PICK e \in Calls : v5[e].pc = "rs_revoke" /\ v5[e].who = v2[o].who
      BY <1>1, <1>4, <2>2 DEF SessionsFresh
    <3>2. v5'[e] = v5[e]
      BY <1>1, <1>2, <3>1
    <3> QED BY <1>4, <2>2, <3>1, <3>2
  <2> QED BY <1>4, <2>1, <2>2
<1>7. AttemptsLow(v3', v5')
  <2>1. \A k \in Codes : v3[k] \in Sign(d)!CodeType \cup {Sign(d)!NoOtp}
    BY <1>1
  <2>2. \A k \in Codes : v3'[k].attempts <= v3[k].attempts
    BY <1>2, <2>1 DEF Sign!CodeType, Sign!NoOtp
  <2> QED BY <1>1, <1>2, <2>2, SignIdle, AttemptsSame
<1> QED BY <1>1, <1>2, <1>4, <1>5, <1>6, <1>7, SignIdle, SignMove

LEMMA SessionsDropped ==
  ASSUME NEW d, NEW ss, v2 \in [SessionsAt[d] -> Sign(d)!SessionType], Sign(d)!SignInAssumption,
         v2' = Sign(d)!Dropped(ss)
  PROVE  /\ v2' \in [SessionsAt[d] -> Sign(d)!SessionType]
         /\ \A s \in SessionsAt[d] : v2'[s] = IF s \in ss THEN Sign(d)!NoRow ELSE v2[s]
         /\ \A s \in SessionsAt[d] : v2'[s] \in {v2[s], Sign(d)!NoRow}
<1>1. Sign(d)!NoRow \in Sign(d)!SessionType
  <2>1. 0 \in 0..MaxResets
    BY SignAssumed
  <2> QED BY <2>1 DEF Sign!SessionType, Sign!NoRow
<1> QED BY <1>1 DEF Sign!Dropped

LEMMA SignRefreshDelete ==
  ASSUME NEW d, Sign(d)!SignInAssumption, SignOK(d), NEW c \in Calls, Sign(d)!RefreshDelete(c)
  PROVE  SignOK(d)'
<1>1. /\ v1 \in [Accounts -> Sign(d)!AccountType] /\ v2 \in [SessionsAt[d] -> Sign(d)!SessionType]
      /\ v3 \in [Codes -> Sign(d)!CodeType \cup {Sign(d)!NoOtp}] /\ v4 \in [Accounts -> FailureType]
      /\ v5 \in [Calls -> Sign(d)!CallType] /\ v5[c] \in Sign(d)!CallType
      /\ CallKnown(d, v5[c]) /\ CallFresh(d, v5[c], v1)
  BY SignFacts
<1> DEFINE rec == [v5[c] EXCEPT !.pc = "store", !.session = Nobody]
<1>2. /\ UNCHANGED <<v1, v3, v4>> /\ v5[c].pc = "rf_delete" /\ v2' = Sign(d)!Dropped({v5[c].session})
      /\ v5' = [v5 EXCEPT ![c] = rec]
  BY <1>1 DEF Sign!RefreshDelete, Sign!At
<1>3. /\ rec \in Sign(d)!CallType /\ rec.pc = "store" /\ rec.who = v5[c].who /\ rec.op = v5[c].op
      /\ rec.password = v5[c].password
  BY <1>1 DEF Sign!CallType, Sign!Pc
<1> HIDE DEF rec
<1>4. CallKnown(d, rec) /\ CallFresh(d, rec, v1)
  BY <1>1, <1>2, <1>3 DEF CallKnown, CallFresh
<1>5. /\ v2' \in [SessionsAt[d] -> Sign(d)!SessionType]
      /\ \A s \in SessionsAt[d] : v2'[s] \in {v2[s], Sign(d)!NoRow}
  BY <1>1, <1>2, SessionsDropped
<1>6. SessionsFresh(d, v1', v2', v5') /\ Owned(d, v2')
  BY <1>2, <1>5, SessionsSame
<1>7. AttemptsLow(v3', v5')
  <2>1. \A k \in Codes : v3[k] \in Sign(d)!CodeType \cup {Sign(d)!NoOtp}
    BY <1>1
  <2>2. \A k \in Codes : v3'[k].attempts <= v3[k].attempts
    BY <1>2, <2>1 DEF Sign!CodeType, Sign!NoOtp
  <2> QED BY <1>1, <1>2, <1>3, <2>2, AttemptsSame
<1> QED BY <1>1, <1>2, <1>3, <1>4, <1>5, <1>6, <1>7, SignMove

LEMMA SignResetRevoke ==
  ASSUME NEW d, Sign(d)!SignInAssumption, SignOK(d), NEW c \in Calls, Sign(d)!ResetRevoke(c)
  PROVE  SignOK(d)'
<1>1. /\ v1 \in [Accounts -> Sign(d)!AccountType] /\ v2 \in [SessionsAt[d] -> Sign(d)!SessionType]
      /\ v3 \in [Codes -> Sign(d)!CodeType \cup {Sign(d)!NoOtp}] /\ v4 \in [Accounts -> FailureType]
      /\ v5 \in [Calls -> Sign(d)!CallType] /\ Owned(d, v2) /\ SessionsFresh(d, v1, v2, v5)
  BY SignFacts
<1>2. /\ UNCHANGED <<v1, v3, v4>> /\ v5[c].pc = "rs_revoke" /\ v5' = [v5 EXCEPT ![c] = Sign(d)!Idle]
      /\ v2' = Sign(d)!Dropped(Sign(d)!RevokedByReset(v5[c].who))
  BY DEF Sign!ResetRevoke, Sign!At, Sign!End
<1>3. /\ v2' \in [SessionsAt[d] -> Sign(d)!SessionType]
      /\ \A s \in SessionsAt[d] : v2'[s] = IF s \in Sign(d)!RevokedByReset(v5[c].who) THEN Sign(d)!NoRow ELSE v2[s]
  BY <1>1, <1>2, SessionsDropped
<1>4. Owned(d, v2')
  BY <1>1, <1>3 DEF Owned
<1>5. SessionsFresh(d, v1', v2', v5')
  <2> SUFFICES ASSUME Strict(d), NEW s \in SessionsAt[d], v2'[s] # Sign(d)!NoRow, v2'[s].who \notin AdminsAt[d],
                      v2'[s].password # v1[v2'[s].who].password
               PROVE  \E e \in Calls : v5'[e].pc = "rs_revoke" /\ v5'[e].who = v2'[s].who
    BY <1>2 DEF SessionsFresh
  <2>1. v2'[s] = v2[s] /\ s \notin Sign(d)!RevokedByReset(v5[c].who)
    BY <1>3
  <2>2. PICK e \in Calls : v5[e].pc = "rs_revoke" /\ v5[e].who = v2[s].who
    BY <1>1, <2>1 DEF SessionsFresh
  <2>3. e # c
    BY <2>1, <2>2 DEF Sign!RevokedByReset
  <2>4. v5'[e] = v5[e]
    BY <1>1, <1>2, <2>3
  <2> QED BY <2>1, <2>2, <2>4
<1>6. AttemptsLow(v3', v5')
  <2>1. \A k \in Codes : v3[k] \in Sign(d)!CodeType \cup {Sign(d)!NoOtp}
    BY <1>1
  <2>2. \A k \in Codes : v3'[k].attempts <= v3[k].attempts
    BY <1>2, <2>1 DEF Sign!CodeType, Sign!NoOtp
  <2> QED BY <1>1, <1>2, <2>2, SignIdle, AttemptsSame
<1> QED BY <1>1, <1>2, <1>3, <1>4, <1>5, <1>6, SignIdle, SignMove

\* The steps that write the accounts.
LEMMA SignAccountWrite ==
  ASSUME NEW d, Sign(d)!SignInAssumption, SignOK(d), NEW c \in Calls,
         Sign(d)!VerifyWrite(c) \/ Sign(d)!FactorWrite(c)
  PROVE  SignOK(d)'
<1>1. /\ v1 \in [Accounts -> Sign(d)!AccountType] /\ v2 \in [SessionsAt[d] -> Sign(d)!SessionType]
      /\ v3 \in [Codes -> Sign(d)!CodeType \cup {Sign(d)!NoOtp}] /\ v4 \in [Accounts -> FailureType]
      /\ v5 \in [Calls -> Sign(d)!CallType] /\ v5[c] \in Sign(d)!CallType /\ CallKnown(d, v5[c])
  BY SignFacts
<1> DEFINE a == v5[c].who
<1>2. UNCHANGED <<v2, v3, v4>> /\ v5[c].pc \in {"vf_write", "tf_write"}
  BY DEF Sign!VerifyWrite, Sign!FactorWrite, Sign!At
<1>3. a \in Accounts /\ v5[c].op \in OpsAt[d] /\ v1[a] \in Sign(d)!AccountType
  BY <1>1, <1>2 DEF CallKnown
<1>4. /\ v1' \in [Accounts -> Sign(d)!AccountType]
      /\ \A b \in Accounts : v1'[b].password = v1[b].password
  <2>1. PICK row \in Sign(d)!AccountType : v1' = [v1 EXCEPT ![a] = row] /\ row.password = v1[a].password
    <3>1. CASE Sign(d)!VerifyWrite(c)
      <4> DEFINE row == [v1[a] EXCEPT !.status = "active"]
      <4>1. v1' = [v1 EXCEPT ![a] = row]
        BY <1>1, <1>3, <3>1 DEF Sign!VerifyWrite
      <4>2. row \in Sign(d)!AccountType /\ row.password = v1[a].password
        BY <1>3 DEF Sign!AccountType
      <4> QED BY <4>1, <4>2
    <3>2. CASE Sign(d)!FactorWrite(c)
      <4> DEFINE row == [v1[a] EXCEPT !.factor = TRUE]
      <4>1. v1' = [v1 EXCEPT ![a] = row]
        BY <1>1, <1>3, <3>2 DEF Sign!FactorWrite
      <4>2. row \in Sign(d)!AccountType /\ row.password = v1[a].password
        BY <1>3 DEF Sign!AccountType
      <4> QED BY <4>1, <4>2
    <3> QED BY <3>1, <3>2
  <2> QED BY <1>1, <1>3, <2>1
<1>5. PICK rec \in Sign(d)!CallType :
        /\ v5' = [v5 EXCEPT ![c] = rec] /\ rec.pc \in {"idle", "store"}
        /\ rec.pc # "idle" => rec.op = v5[c].op /\ rec.who = a /\ rec.password = v1[a].password
  <2>1. CASE Sign(d)!VerifyWrite(c)
    <3> DEFINE rec == [v5[c] EXCEPT !.pc = "store", !.password = v1[a].password]
    <3>1. v5' = [v5 EXCEPT ![c] = rec]
      BY <1>1, <2>1 DEF Sign!VerifyWrite
    <3>2. v1[a].password \in 0..MaxResets
      BY <1>3 DEF Sign!AccountType
    <3>3. rec \in Sign(d)!CallType /\ rec.pc = "store" /\ rec.op = v5[c].op /\ rec.who = a
          /\ rec.password = v1[a].password
      BY <1>1, <3>2 DEF Sign!CallType, Sign!Pc
    <3> QED BY <3>1, <3>3
  <2>2. CASE Sign(d)!FactorWrite(c)
    BY <2>2, SignIdle DEF Sign!FactorWrite, Sign!End
  <2> QED BY <2>1, <2>2
<1>6. CallKnown(d, rec) /\ CallFresh(d, rec, v1)
  BY <1>3, <1>5 DEF CallKnown, CallFresh
<1>7. SessionsFresh(d, v1', v2', v5') /\ Owned(d, v2')
  BY <1>2, <1>4, <1>5, SessionsSame
<1>8. AttemptsLow(v3', v5')
  <2>1. \A k \in Codes : v3[k] \in Sign(d)!CodeType \cup {Sign(d)!NoOtp}
    BY <1>1
  <2>2. \A k \in Codes : v3'[k].attempts <= v3[k].attempts
    BY <1>2, <2>1 DEF Sign!CodeType, Sign!NoOtp
  <2> QED BY <1>1, <1>2, <1>5, <2>2, AttemptsSame
<1> QED BY <1>1, <1>2, <1>4, <1>5, <1>6, <1>7, <1>8, SignMove

LEMMA Renewed ==
  ASSUME NEW d, Sign(d)!SignInAssumption, NEW a \in Accounts, v1 \in [Accounts -> Sign(d)!AccountType],
         Sign(d)!Renew(a)
  PROVE  v1' \in [Accounts -> Sign(d)!AccountType] /\ \A b \in Accounts \ {a} : v1'[b] = v1[b]
<1> DEFINE row == [v1[a] EXCEPT !.password = @ + 1]
<1>1. v1[a] \in Sign(d)!AccountType /\ v1[a].password \in 0..MaxResets /\ v1[a].password < MaxResets
  BY DEF Sign!AccountType, Sign!Renew
<1>2. v1[a].password + 1 \in 0..MaxResets
  BY <1>1, SignAssumed
<1>3. row \in Sign(d)!AccountType
  BY <1>1, <1>2 DEF Sign!AccountType
<1>4. v1' = [v1 EXCEPT ![a] = row]
  BY DEF Sign!Renew
<1> HIDE DEF row
<1> QED BY <1>3, <1>4

\* A password is set: by a reset, which is alone, or where sessions are not held to it.
LEMMA SignPasswordWrite ==
  ASSUME NEW d, Sign(d)!SignInAssumption, SignOK(d), NEW c \in Calls,
         Sign(d)!ResetWrite(c) \/ Sign(d)!ChangeWrite(c)
  PROVE  SignOK(d)'
<1>1. /\ v1 \in [Accounts -> Sign(d)!AccountType] /\ v2 \in [SessionsAt[d] -> Sign(d)!SessionType]
      /\ v3 \in [Codes -> Sign(d)!CodeType \cup {Sign(d)!NoOtp}] /\ v4 \in [Accounts -> FailureType]
      /\ v5 \in [Calls -> Sign(d)!CallType] /\ v5[c] \in Sign(d)!CallType
      /\ Owned(d, v2) /\ SessionsFresh(d, v1, v2, v5) /\ ResetAlone(d, v5)
      /\ \A o \in Calls : CallKnown(d, v5[o]) /\ CallFresh(d, v5[o], v1)
  BY SignFacts
<1> DEFINE a == v5[c].who
<1>2. UNCHANGED <<v2, v3, v4>> /\ v5[c].pc \in {"rs_write", "ch_write"}
  BY DEF Sign!ResetWrite, Sign!ChangeWrite, Sign!At
<1>3. /\ a \in Accounts /\ v5[c].op \in OpsAt[d]
      /\ v5[c].pc = "rs_write" => v5[c].op = "reset"
      /\ v5[c].pc = "ch_write" => ~Strict(d)
  BY <1>1, <1>2 DEF CallKnown, Strict
<1>4. /\ v1' \in [Accounts -> Sign(d)!AccountType]
      /\ \A b \in Accounts \ {a} : v1'[b] = v1[b]
  <2>1. CASE Sign(d)!Renew(a)
    BY <1>1, <1>3, <2>1, Renewed
  <2>2. CASE v1' = [v1 EXCEPT ![a].factor = FALSE]
    <3> DEFINE row == [v1[a] EXCEPT !.factor = FALSE]
    <3>1. row \in Sign(d)!AccountType
      BY <1>1, <1>3 DEF Sign!AccountType
    <3>2. v1' = [v1 EXCEPT ![a] = row]
      BY <1>1, <1>3, <2>2
    <3> HIDE DEF row
    <3> QED BY <1>1, <1>3, <3>1, <3>2
  <2> QED BY <2>1, <2>2 DEF Sign!ResetWrite, Sign!ChangeWrite
<1>5. PICK rec \in Sign(d)!CallType :
        /\ v5' = [v5 EXCEPT ![c] = rec]
        /\ rec.pc = "idle" \/ (rec.pc = "rs_revoke" /\ rec.op = "reset" /\ rec.who = a)
        /\ v5[c].pc = "rs_write" => rec.pc = "rs_revoke" /\ rec.op = v5[c].op
        /\ v5[c].pc = "ch_write" => rec.pc = "idle"
  <2>1. CASE Sign(d)!ResetWrite(c)
    <3> DEFINE rec == [v5[c] EXCEPT !.pc = "rs_revoke"]
    <3>1. v5' = [v5 EXCEPT ![c] = rec] /\ v5[c].pc = "rs_write"
      BY <1>1, <2>1 DEF Sign!ResetWrite, Sign!Goto, Sign!At
    <3>2. rec \in Sign(d)!CallType /\ rec.pc = "rs_revoke" /\ rec.op = v5[c].op /\ rec.who = a
      BY <1>1 DEF Sign!CallType, Sign!Pc
    <3> HIDE DEF rec
    <3> QED BY <1>3, <3>1, <3>2
  <2>2. CASE Sign(d)!ChangeWrite(c)
    BY <2>2, SignIdle DEF Sign!ChangeWrite, Sign!End, Sign!At
  <2> QED BY <2>1, <2>2
<1>6. v5' \in [Calls -> Sign(d)!CallType] /\ v5'[c] = rec /\ \A o \in Calls \ {c} : v5'[o] = v5[o]
  BY <1>1, <1>5
<1>7. Strict(d) => v5[c].pc = "rs_write" /\ v5[c].op = "reset" /\ \A o \in Calls \ {c} : v5[o].pc = "idle"
  BY <1>1, <1>2, <1>3 DEF ResetAlone
<1>8. \A o \in Calls : CallKnown(d, v5'[o])
  <2>1. CallKnown(d, rec)
    BY <1>2, <1>3, <1>5 DEF CallKnown
  <2> QED BY <1>1, <1>6, <2>1
<1>9. \A o \in Calls : CallFresh(d, v5'[o], v1')
  BY <1>5, <1>6, <1>7 DEF CallFresh
<1>10. ResetAlone(d, v5')
  BY <1>6, <1>7 DEF ResetAlone
<1>11. SessionsFresh(d, v1', v2', v5')
  <2> SUFFICES ASSUME Strict(d), NEW s \in SessionsAt[d], v2[s] # Sign(d)!NoRow, v2[s].who \notin AdminsAt[d]
               PROVE  \/ v2[s].password = v1'[v2[s].who].password
                      \/ \E e \in Calls : v5'[e].pc = "rs_revoke" /\ v5'[e].who = v2[s].who
    BY <1>2 DEF SessionsFresh
  <2>1. CASE v2[s].who = a
    BY <1>5, <1>6, <1>7, <2>1
  <2>2. CASE v2[s].who # a
    <3>1. v2[s].password = v1[v2[s].who].password
      BY <1>1, <1>7 DEF SessionsFresh
    <3>2. v2[s].who \in Accounts
      BY <1>1 DEF Owned
    <3> QED BY <1>4, <2>2, <3>1, <3>2
  <2> QED BY <2>1, <2>2
<1>12. AttemptsLow(v3', v5')
  <2>1. \A k \in Codes : v3[k] \in Sign(d)!CodeType \cup {Sign(d)!NoOtp}
    BY <1>1
  <2>2. \A k \in Codes : v3'[k].attempts <= v3[k].attempts
    BY <1>2, <2>1 DEF Sign!CodeType, Sign!NoOtp
  <2> QED BY <1>1, <1>2, <1>5, <2>2, AttemptsSame
<1> QED BY <1>1, <1>2, <1>4, <1>6, <1>8, <1>9, <1>10, <1>11, <1>12, SignKept

\* The steps that move no call.
LEMMA SignRest ==
  ASSUME NEW d, Sign(d)!SignInAssumption, SignOK(d), v5' = v5,
         v1' \in [Accounts -> Sign(d)!AccountType], v2' \in [SessionsAt[d] -> Sign(d)!SessionType],
         v3' \in [Codes -> Sign(d)!CodeType \cup {Sign(d)!NoOtp}], v4' \in [Accounts -> FailureType],
         \A a \in Accounts : v1'[a].password = v1[a].password,
         \A s \in SessionsAt[d] : v2'[s] \in {v2[s], Sign(d)!NoRow},
         \A k \in Codes : v3'[k].attempts <= v3[k].attempts
  PROVE  SignOK(d)'
<1>1. /\ v5 \in [Calls -> Sign(d)!CallType] /\ Owned(d, v2) /\ SessionsFresh(d, v1, v2, v5) /\ ResetAlone(d, v5)
      /\ AttemptsLow(v3, v5) /\ \A o \in Calls : CallKnown(d, v5[o]) /\ CallFresh(d, v5[o], v1)
      /\ v3 \in [Codes -> Sign(d)!CodeType \cup {Sign(d)!NoOtp}]
  BY SignFacts
<1>2. Owned(d, v2')
  BY <1>1 DEF Owned
<1>3. SessionsFresh(d, v1', v2', v5')
  <2> SUFFICES ASSUME Strict(d), NEW s \in SessionsAt[d], v2'[s] # Sign(d)!NoRow, v2'[s].who \notin AdminsAt[d]
               PROVE  \/ v2'[s].password = v1'[v2'[s].who].password
                      \/ \E e \in Calls : v5[e].pc = "rs_revoke" /\ v5[e].who = v2'[s].who
    BY DEF SessionsFresh
  <2>1. v2'[s] = v2[s] /\ v2[s].who \in Accounts
    BY <1>1 DEF Owned
  <2> QED BY <1>1, <2>1 DEF SessionsFresh
<1>4. \A o \in Calls : CallFresh(d, v5'[o], v1')
  <2> SUFFICES ASSUME NEW o \in Calls PROVE CallFresh(d, v5[o], v1')
    OBVIOUS
  <2> QED BY <1>1 DEF CallFresh, CallKnown
<1>5. AttemptsLow(v3', v5')
  <2> SUFFICES ASSUME NEW k \in Codes
               PROVE  v3'[k].attempts + Cardinality(Guesses(v5, k)) <= MaxAttempts + Cardinality(Calls) - 1
    BY DEF AttemptsLow
  <2>1. v3[k].attempts \in Nat /\ v3'[k].attempts \in Nat
    BY <1>1 DEF Sign!CodeType, Sign!NoOtp
  <2>2. v3[k].attempts + Cardinality(Guesses(v5, k)) <= MaxAttempts + Cardinality(Calls) - 1
    BY <1>1 DEF AttemptsLow
  <2> QED BY <2>1, <2>2, GuessesCard, SignAssumed
<1> QED BY <1>1, <1>2, <1>3, <1>4, <1>5, SignKept

LEMMA SignTypes ==
  ASSUME NEW d, SignOK(d)
  PROVE  /\ v1 \in [Accounts -> Sign(d)!AccountType] /\ v2 \in [SessionsAt[d] -> Sign(d)!SessionType]
         /\ v3 \in [Codes -> Sign(d)!CodeType \cup {Sign(d)!NoOtp}] /\ v4 \in [Accounts -> FailureType]
         /\ v5 \in [Calls -> Sign(d)!CallType] /\ \A k \in Codes : v3[k].attempts \in Nat
<1>1. /\ v1 \in [Accounts -> Sign(d)!AccountType] /\ v2 \in [SessionsAt[d] -> Sign(d)!SessionType]
      /\ v3 \in [Codes -> Sign(d)!CodeType \cup {Sign(d)!NoOtp}] /\ v4 \in [Accounts -> FailureType]
      /\ v5 \in [Calls -> Sign(d)!CallType]
  BY SignFacts
<1>2. \A k \in Codes : v3[k] \in Sign(d)!CodeType \cup {Sign(d)!NoOtp}
  BY <1>1
<1> QED BY <1>1, <1>2 DEF Sign!CodeType, Sign!NoOtp

LEMMA SignLogout ==
  ASSUME NEW d, Sign(d)!SignInAssumption, SignOK(d), NEW c \in Calls, NEW s \in SessionsAt[d],
         Sign(d)!Logout(c, s)
  PROVE  SignOK(d)'
<1>1. UNCHANGED <<v1, v3, v4, v5>> /\ \E ss : v2' = Sign(d)!Dropped(ss)
  BY DEF Sign!Logout
<1>2. v2' \in [SessionsAt[d] -> Sign(d)!SessionType] /\ \A o \in SessionsAt[d] : v2'[o] \in {v2[o], Sign(d)!NoRow}
  BY <1>1, SignTypes, SessionsDropped
<1>3. \A k \in Codes : v3'[k].attempts <= v3[k].attempts
  BY <1>1, SignTypes
<1> QED BY <1>1, <1>2, <1>3, SignTypes, SignRest

LEMMA SignCodeWornOut ==
  ASSUME NEW d, Sign(d)!SignInAssumption, SignOK(d), NEW c \in Calls, NEW op \in DOMAIN Sign(d)!PurposeOf,
         NEW a \in Accounts, NEW k \in Codes, Sign(d)!CodeWornOut(c, op, a, k)
  PROVE  SignOK(d)'
<1>1. UNCHANGED <<v1, v2, v4, v5>> /\ v3' = Sign(d)!Without({k})
  BY DEF Sign!CodeWornOut
<1>2. /\ v3' \in [Codes -> Sign(d)!CodeType \cup {Sign(d)!NoOtp}]
      /\ \A j \in Codes : v3'[j].attempts <= v3[j].attempts
  BY <1>1, SignTypes, CodesWithout
<1> QED BY <1>1, <1>2, SignTypes, SignRest

LEMMA SignAge ==
  ASSUME NEW d, Sign(d)!SignInAssumption, SignOK(d), NEW k \in Codes, Sign(d)!Age(k)
  PROVE  SignOK(d)'
<1> DEFINE row == CASE v3[k].age = "recent" -> [v3[k] EXCEPT !.age = "old"]
                    [] v3[k].age = "old" -> [v3[k] EXCEPT !.age = "expired"]
                    [] OTHER -> Sign(d)!NoOtp
<1>1. UNCHANGED <<v1, v2, v4, v5>> /\ v3[k].who # Nobody
  BY DEF Sign!Age
<1>2. v3' = [v3 EXCEPT ![k] = row]
  BY SignTypes DEF Sign!Age
<1>3. v3[k] \in Sign(d)!CodeType
  <2>1. v3[k] \in Sign(d)!CodeType \cup {Sign(d)!NoOtp}
    BY SignTypes
  <2>2. Sign(d)!NoOtp.who = Nobody
    BY DEF Sign!NoOtp
  <2> QED BY <1>1, <2>1, <2>2
<1>4. row \in Sign(d)!CodeType \cup {Sign(d)!NoOtp} /\ row.attempts <= v3[k].attempts
  <2>1. v3[k].attempts \in Nat /\ Sign(d)!NoOtp.attempts = 0
    BY SignTypes DEF Sign!NoOtp
  <2>2. CASE v3[k].age = "recent"
    BY <1>3, <2>1, <2>2 DEF Sign!CodeType
  <2>3. CASE v3[k].age = "old"
    BY <1>3, <2>1, <2>3 DEF Sign!CodeType
  <2>4. CASE v3[k].age # "recent" /\ v3[k].age # "old"
    BY <2>1, <2>4
  <2> QED BY <2>2, <2>3, <2>4
<1> HIDE DEF row
<1>5. v3' \in [Codes -> Sign(d)!CodeType \cup {Sign(d)!NoOtp}] /\ \A j \in Codes : v3'[j].attempts <= v3[j].attempts
  BY <1>2, <1>4, SignTypes
<1>6. \A s \in SessionsAt[d] : v2'[s] \in {v2[s], Sign(d)!NoRow}
  BY <1>1
<1> QED BY <1>1, <1>5, <1>6, SignTypes, SignRest

LEMMA SignAside ==
  ASSUME NEW d, Sign(d)!SignInAssumption, SignOK(d), NEW a \in Accounts,
         Sign(d)!Unlock(a) \/ Sign(d)!Suspend(a)
  PROVE  SignOK(d)'
<1>1. UNCHANGED <<v2, v3, v5>>
  BY DEF Sign!Unlock, Sign!Suspend
<1>2. v1' \in [Accounts -> Sign(d)!AccountType] /\ \A b \in Accounts : v1'[b].password = v1[b].password
  <2>1. CASE Sign(d)!Unlock(a)
    BY <2>1, SignTypes DEF Sign!Unlock
  <2>2. CASE Sign(d)!Suspend(a)
    <3> DEFINE status == IF v1[a].status = "active" THEN "suspended" ELSE "active"
    <3> DEFINE row == [v1[a] EXCEPT !.status = status]
    <3>1. v1' = [v1 EXCEPT ![a] = row]
      BY <2>2, SignTypes DEF Sign!Suspend
    <3>2. v1[a] \in Sign(d)!AccountType /\ status \in {"active", "suspended"}
      BY SignTypes
    <3> HIDE DEF status
    <3>3. row \in Sign(d)!AccountType /\ row.password = v1[a].password
      BY <3>2 DEF Sign!AccountType
    <3> HIDE DEF row
    <3> QED BY <3>1, <3>3, SignTypes
  <2> QED BY <2>1, <2>2
<1>3. v4' \in [Accounts -> FailureType]
  BY SignTypes, ForgivenType DEF Sign!Unlock, Sign!Suspend
<1>4. \A k \in Codes : v3'[k].attempts <= v3[k].attempts
  BY <1>1, SignTypes
<1>5. \A s \in SessionsAt[d] : v2'[s] \in {v2[s], Sign(d)!NoRow}
  BY <1>1
<1> QED BY <1>1, <1>2, <1>3, <1>4, <1>5, SignTypes, SignRest

LEMMA SignStep == ASSUME NEW d, Sign(d)!SignInAssumption, SignOK(d), Sign(d)!Next PROVE SignOK(d)'
<1>1. ASSUME NEW c \in Calls, Sign(d)!Step(c) PROVE SignOK(d)'
  <2>1. ASSUME NEW a \in Accounts, \/ Sign(d)!LoginStart(c, a) \/ Sign(d)!ChangeStart(c, a)
               \/ Sign(d)!ForgotPassword(c, a) \/ Sign(d)!ResendVerification(c, a) \/ Sign(d)!StartEnable2fa(c, a)
        PROVE  SignOK(d)'
    BY <2>1, SignStarts
  <2>2. ASSUME NEW k \in Codes, Sign(d)!IssueInsert(c, k) PROVE SignOK(d)'
    BY <2>2, SignIssueInsert
  <2>3. ASSUME NEW op \in DOMAIN Sign(d)!PurposeOf, NEW a \in Accounts, NEW k \in Codes,
               Sign(d)!CodeWornOut(c, op, a, k) \/ \E right \in BOOLEAN : Sign(d)!CodeRead(c, op, a, k, right)
        PROVE  SignOK(d)'
    BY <2>3, SignCodeWornOut, SignCodeRead
  <2>4. ASSUME NEW s \in SessionsAt[d], Sign(d)!Store(c, s) \/ Sign(d)!RefreshStart(c, s) \/ Sign(d)!Logout(c, s)
        PROVE  SignOK(d)'
    BY <2>4, SignStore, SignRefreshStart, SignLogout
  <2>5. CASE \/ Sign(d)!LoginWrong(c) \/ Sign(d)!LoginCount(c) \/ Sign(d)!LoginRight(c) \/ Sign(d)!PlatformRight(c)
             \/ Sign(d)!LoginClear(c) \/ Sign(d)!PlatformClear(c) \/ Sign(d)!IssueRead(c) \/ Sign(d)!SecondFactor(c)
    BY <2>5, SignPasses
  <2>6. CASE \/ Sign(d)!IssueDelete(c) \/ Sign(d)!CodeRight(c) \/ Sign(d)!CodeWrong(c) \/ Sign(d)!RefreshDelete(c)
             \/ Sign(d)!ResetRevoke(c)
    BY <2>6, SignIssueDelete, SignCodeWrong, SignRefreshDelete, SignResetRevoke
  <2>7. CASE \/ Sign(d)!VerifyWrite(c) \/ Sign(d)!FactorWrite(c) \/ Sign(d)!ResetWrite(c) \/ Sign(d)!ChangeWrite(c)
    BY <2>7, SignAccountWrite, SignPasswordWrite
  <2> QED BY <1>1, <2>1, <2>2, <2>3, <2>4, <2>5, <2>6, <2>7 DEF Sign!Step
<1>2. ASSUME NEW a \in Accounts, Sign(d)!Unlock(a) \/ Sign(d)!Suspend(a) PROVE SignOK(d)'
  BY <1>2, SignAside
<1>3. ASSUME NEW k \in Codes, Sign(d)!Age(k) PROVE SignOK(d)'
  BY <1>3, SignAge
<1> QED BY <1>1, <1>2, <1>3 DEF Sign!Next

LEMMA SignStay == ASSUME NEW d, SignOK(d), UNCHANGED <<v1, v2, v3, v4, v5>> PROVE SignOK(d)'
<1>1. \A o \in Calls : CallKnown(d, v5'[o]) /\ CallFresh(d, v5'[o], v1')
  BY SignFacts
<1>2. /\ v1' \in [Accounts -> Sign(d)!AccountType] /\ v2' \in [SessionsAt[d] -> Sign(d)!SessionType]
      /\ v3' \in [Codes -> Sign(d)!CodeType \cup {Sign(d)!NoOtp}] /\ v4' \in [Accounts -> FailureType]
      /\ v5' \in [Calls -> Sign(d)!CallType]
  BY SignFacts
<1>3. Owned(d, v2') /\ AttemptsLow(v3', v5') /\ SessionsFresh(d, v1', v2', v5') /\ ResetAlone(d, v5')
  BY SignFacts
<1> QED BY <1>1, <1>2, <1>3, SignKept

LEMMA SignBounded == ASSUME NEW d, Sign(d)!SignInAssumption, SignOK(d) PROVE Sign(d)!AttemptsBounded
<1> SUFFICES ASSUME NEW k \in Codes
             PROVE  v3[k].attempts <= MaxAttempts + Sign(d)!Cardinality(Calls) - 1
  BY DEF Sign!AttemptsBounded
<1>1. v3[k].attempts + Cardinality(Guesses(v5, k)) <= MaxAttempts + Cardinality(Calls) - 1
  BY SignFacts DEF AttemptsLow
<1>2. Sign(d)!Cardinality(Calls) = Cardinality(Calls)
  BY SignCard
<1> QED BY <1>1, <1>2, SignTypes, GuessesCard, SignAssumed

LEMMA SignResets == ASSUME NEW d, Strict(d), SignOK(d) PROVE Sign(d)!ResetSignsOut
BY DEF SignOK, Sign!SessionsInv, Strict

\* How many passwords are guessed.  The invariant of an account's row f, of the
\* calls that have a guess to count and of those still checking a password.
Pending(signing, a, v) == {c \in Calls : signing[c].pc = "lg_count" /\ signing[c].who = a /\ signing[c].read = v}
Choosing(signing, a) == {c \in Calls : signing[c].pc = "lg_check" /\ signing[c].who = a}
Chances(f, signing, a, v) == IF f.count = v THEN Cardinality(Calls \ Pending(signing, a, v)) ELSE 0
FewGuesses(f) ==
  /\ f.guesses[0] <= Cardinality(Calls)
  /\ \A v \in Levels \ {0} : f.guesses[v] < Cardinality(Calls) * (f.guesses[v-1] + 1)
FewLate(f, signing, a) == f.locked => f.late + Cardinality(Choosing(signing, a)) < Cardinality(Calls)
OpenAt(f, signing, a, v) ==
  f.guesses[v] + Chances(f, signing, a, v) <
    Cardinality(Calls) * (f.guesses[v-1] - Cardinality(Pending(signing, a, v-1)) + 1)
FewOpen(f, signing, a) ==
  ~f.locked => /\ f.count \in Levels /\ f.late = 0
               /\ f.guesses[0] + Chances(f, signing, a, 0) <= Cardinality(Calls)
               /\ \A v \in Levels \ {0} : OpenAt(f, signing, a, v)
RowLow(f, signing, a) == FewGuesses(f) /\ FewLate(f, signing, a) /\ FewOpen(f, signing, a)
GuessesLow(failures, signing) == \A a \in Accounts : RowLow(failures[a], signing, a)

LEMMA CallsCounted ==
  ASSUME NEW d, Sign(d)!SignInAssumption
  PROVE  IsFiniteSet(Calls) /\ Cardinality(Calls) \in Nat \ {0} /\ 0 \in Levels /\ Levels \subseteq Nat
<1>1. IsFiniteSet(Calls) /\ Calls # {} /\ MaxFailures \in Nat \ {0}
  BY SignCard DEF Sign!SignInAssumption
<1>2. Cardinality(Calls) \in Nat /\ Cardinality(Calls) # 0
  BY <1>1, FS_CardinalityType, FS_EmptySet
<1> QED BY <1>1, <1>2 DEF Levels

\* Sets of calls: how many they are at most, and one more or less.
LEMMA SomeCalls ==
  ASSUME IsFiniteSet(Calls), NEW S, S \subseteq Calls
  PROVE  /\ IsFiniteSet(S) /\ Cardinality(S) \in Nat /\ Cardinality(S) <= Cardinality(Calls)
         /\ Cardinality(Calls) \in Nat
BY FS_Subset, FS_CardinalityType

LEMMA OneLess ==
  ASSUME IsFiniteSet(Calls), NEW S, S \subseteq Calls, NEW c \in S
  PROVE  Cardinality(S \ {c}) = Cardinality(S) - 1
BY SomeCalls, FS_RemoveElement

LEMMA OneMore ==
  ASSUME IsFiniteSet(Calls), NEW S, S \subseteq Calls, NEW c \in Calls, c \notin S
  PROVE  /\ Cardinality(S \cup {c}) = Cardinality(S) + 1
         /\ Cardinality(S) < Cardinality(Calls)
         /\ Cardinality(Calls \ (S \cup {c})) = Cardinality(Calls \ S) - 1
<1>1. Cardinality(S \cup {c}) = Cardinality(S) + 1
  BY SomeCalls, FS_AddElement
<1>2. S \cup {c} \subseteq Calls
  OBVIOUS
<1>3. Cardinality(S) < Cardinality(Calls)
  BY <1>1, <1>2, SomeCalls
<1>4. Calls \ (S \cup {c}) = (Calls \ S) \ {c} /\ c \in Calls \ S /\ Calls \ S \subseteq Calls
  OBVIOUS
<1>5. Cardinality((Calls \ S) \ {c}) = Cardinality(Calls \ S) - 1
  BY <1>4, OneLess
<1> QED BY <1>1, <1>3, <1>4, <1>5

LEMMA PendingApart ==
  ASSUME IsFiniteSet(Calls), NEW S, S \subseteq Calls
  PROVE  Cardinality(S) + Cardinality(Calls \ S) = Cardinality(Calls)
BY FS_Difference, FS_Intersection, SomeCalls

LEMMA PendingCalls ==
  ASSUME IsFiniteSet(Calls), NEW signing, NEW a, NEW v
  PROVE  /\ Pending(signing, a, v) \subseteq Calls /\ Choosing(signing, a) \subseteq Calls
         /\ Cardinality(Pending(signing, a, v)) \in Nat /\ Cardinality(Choosing(signing, a)) \in Nat
         /\ Cardinality(Calls \ Pending(signing, a, v)) \in Nat
         /\ Cardinality(Calls \ Pending(signing, a, v)) <= Cardinality(Calls)
<1>1. Pending(signing, a, v) \subseteq Calls /\ Choosing(signing, a) \subseteq Calls
  BY DEF Pending, Choosing
<1>2. Calls \ Pending(signing, a, v) \subseteq Calls
  OBVIOUS
<1> QED BY <1>1, <1>2, SomeCalls

LEMMA Times ==
  ASSUME NEW n \in Nat, NEW x \in Int
  PROVE  /\ n * (x + 1) = n * x + n /\ n * x \in Int
         /\ \A u \in Nat : n * (x - u + 1) <= n * (x + 1)
<1>1. n * (x + 1) = n * x + n /\ n * x \in Int
  OBVIOUS
<1>2. ASSUME NEW u \in Nat PROVE n * (x - u + 1) <= n * (x + 1)
  <2>1. n * (x + 1) = n * (x - u + 1) + n * u
    OBVIOUS
  <2>2. n * u \in Nat /\ n * (x - u + 1) \in Int /\ n * (x + 1) \in Int
    OBVIOUS
  <2> QED BY <2>1, <2>2
<1> QED BY <1>1, <1>2

\* While a row is open the bounds on its guesses follow from the others.
LEMMA OpenIsFew ==
  ASSUME NEW d, Sign(d)!SignInAssumption, NEW f \in FailureType, NEW signing, NEW a,
         ~f.locked, FewOpen(f, signing, a)
  PROVE  RowLow(f, signing, a)
<1>1. /\ IsFiniteSet(Calls) /\ Cardinality(Calls) \in Nat \ {0} /\ 0 \in Levels /\ Levels \subseteq Nat
      /\ f.guesses \in [Levels -> Nat] /\ f.count \in Nat /\ f.late \in Nat
  BY CallsCounted DEF FailureType
<1>2. ASSUME NEW v PROVE Chances(f, signing, a, v) \in Nat
  BY <1>1, PendingCalls DEF Chances
<1>3. f.guesses[0] <= Cardinality(Calls)
  BY <1>1, <1>2 DEF FewOpen
<1>4. ASSUME NEW v \in Levels \ {0} PROVE f.guesses[v] < Cardinality(Calls) * (f.guesses[v-1] + 1)
  <2>1. v - 1 \in Levels
    BY SignAssumed DEF Levels
  <2>2. OpenAt(f, signing, a, v)
    BY DEF FewOpen
  <2> DEFINE n == Cardinality(Calls)
             u == Cardinality(Pending(signing, a, v-1))
             x == f.guesses[v-1]
             y == f.guesses[v]
             e == Chances(f, signing, a, v)
  <2>3. n \in Nat /\ u \in Nat /\ x \in Nat /\ y \in Nat /\ e \in Nat
    BY <1>1, <1>2, <2>1, PendingCalls
  <2>4. y + e < n * (x - u + 1)
    BY <2>2 DEF OpenAt
  <2> HIDE DEF n, u, x, y, e
  <2>5. n * (x - u + 1) <= n * (x + 1) /\ n * (x - u + 1) \in Int /\ n * (x + 1) \in Int
    BY <2>3, Times
  <2>6. y < n * (x + 1)
    BY <2>3, <2>4, <2>5
  <2> QED BY <2>6 DEF n, x, y
<1> QED BY <1>1, <1>3, <1>4 DEF RowLow, FewGuesses, FewLate

\* A step that touches no row, and no guess of the account.
LEMMA RowSame ==
  ASSUME IsFiniteSet(Calls), NEW f \in FailureType, NEW signing, NEW a, RowLow(f, signing, a), NEW moved,
         \A v : Pending(moved, a, v) = Pending(signing, a, v),
         f.locked => Choosing(moved, a) \subseteq Choosing(signing, a)
  PROVE  RowLow(f, moved, a)
<1>1. FewLate(f, moved, a)
  <2> SUFFICES ASSUME f.locked PROVE f.late + Cardinality(Choosing(moved, a)) < Cardinality(Calls)
    BY DEF FewLate
  <2>1. f.late + Cardinality(Choosing(signing, a)) < Cardinality(Calls) /\ f.late \in Nat
    BY DEF RowLow, FewLate, FailureType
  <2>2. Choosing(signing, a) \subseteq Calls
    BY DEF Choosing
  <2>3. IsFiniteSet(Choosing(signing, a)) /\ Cardinality(Choosing(signing, a)) \in Nat
        /\ Cardinality(Calls) \in Nat
    BY <2>2, SomeCalls
  <2>4. Cardinality(Choosing(moved, a)) <= Cardinality(Choosing(signing, a))
    BY <2>3, FS_Subset
  <2>5. Cardinality(Choosing(moved, a)) \in Nat
    BY PendingCalls
  <2> QED BY <2>1, <2>3, <2>4, <2>5
<1>2. \A v : Chances(f, moved, a, v) = Chances(f, signing, a, v)
  BY DEF Chances
<1>3. FewOpen(f, moved, a)
  BY <1>2 DEF RowLow, FewOpen, OpenAt
<1> QED BY <1>1, <1>3 DEF RowLow

\* The call c moves, and neither makes nor counts a guess at the account.
LEMMA PendingMove ==
  ASSUME NEW c \in Calls, \A o \in Calls \ {c} : v5'[o] = v5[o], NEW a,
         v5'[c].pc # "lg_count" \/ v5'[c].who # a, v5[c].pc # "lg_count" \/ v5[c].who # a
  PROVE  /\ \A v : Pending(v5', a, v) = Pending(v5, a, v)
         /\ v5'[c].pc # "lg_check" \/ v5'[c].who # a => Choosing(v5', a) \subseteq Choosing(v5, a)
BY DEF Pending, Choosing

\* Then the account's guesses stay few, if the call is not let in at a lock.
LEMMA GuessPasses ==
  ASSUME NEW d, Sign(d)!SignInAssumption, SignOK(d), NEW a \in Accounts, RowLow(v4[a], v5, a), v4'[a] = v4[a],
         NEW c \in Calls, \A o \in Calls \ {c} : v5'[o] = v5[o],
         v5'[c].pc # "lg_count" \/ v5'[c].who # a, v5[c].pc # "lg_count" \/ v5[c].who # a,
         v5'[c].pc = "lg_check" /\ v5'[c].who = a => ~v4[a].locked
  PROVE  RowLow(v4'[a], v5', a)
<1>1. IsFiniteSet(Calls) /\ v4[a] \in FailureType
  BY SignFacts, CallsCounted
<1>2. \A v : Pending(v5', a, v) = Pending(v5, a, v)
  BY PendingMove
<1>3. v4[a].locked => Choosing(v5', a) \subseteq Choosing(v5, a)
  BY PendingMove
<1>4. RowLow(v4[a], v5', a)
  BY <1>1, <1>2, <1>3, RowSame
<1> QED BY <1>4

LEMMA GuessesPass ==
  ASSUME NEW d, Sign(d)!SignInAssumption, SignOK(d), GuessesLow(v4, v5), v4' = v4,
         NEW c \in Calls, \A o \in Calls \ {c} : v5'[o] = v5[o],
         v5'[c].pc # "lg_count", v5[c].pc # "lg_count",
         v5'[c].pc = "lg_check" => ~v4[v5'[c].who].locked
  PROVE  GuessesLow(v4', v5')
<1> SUFFICES ASSUME NEW a \in Accounts PROVE RowLow(v4'[a], v5', a)
  BY DEF GuessesLow
<1>1. RowLow(v4[a], v5, a)
  BY DEF GuessesLow
<1> QED BY <1>1, GuessPasses

\* A wrong password at an open account: one guess more at its count.
LEMMA GuessMade ==
  ASSUME NEW d, Sign(d)!SignInAssumption, SignOK(d), NEW c \in Calls, Sign(d)!LoginWrong(c),
         NEW a, a = v5[c].who, ~v4[a].locked, RowLow(v4[a], v5, a)
  PROVE  RowLow(v4'[a], v5', a)
<1> DEFINE k == v4[a].count
           f == [v4[a] EXCEPT !.guesses[k] = @ + 1]
           rec == [v5[c] EXCEPT !.pc = "lg_count", !.read = k]
<1>1. /\ v4 \in [Accounts -> FailureType] /\ v5 \in [Calls -> Sign(d)!CallType] /\ v5[c].pc = "lg_check"
      /\ a \in Accounts /\ v4[a] \in FailureType /\ k \in Levels /\ FewOpen(v4[a], v5, a)
      /\ IsFiniteSet(Calls) /\ Levels \subseteq Nat /\ Cardinality(Calls) \in Nat
  BY SignFacts, CallsCounted DEF CallKnown, Sign!LoginWrong, Sign!At, RowLow, FewOpen
<1>2. /\ f \in FailureType /\ f.count = k /\ f.locked = v4[a].locked /\ f.late = v4[a].late
      /\ f.guesses[k] = v4[a].guesses[k] + 1 /\ \A v \in Levels \ {k} : f.guesses[v] = v4[a].guesses[v]
      /\ \A v \in Levels : v4[a].guesses[v] \in Nat
  BY <1>1 DEF FailureType
<1>3. v4'[a] = f /\ v5' = [v5 EXCEPT ![c] = rec]
  <2>1. v4' = [v4 EXCEPT ![a].guesses[k] = @ + 1]
    BY <1>1 DEF Sign!LoginWrong, Sign!Tries, Levels
  <2>2. v4' = [v4 EXCEPT ![a] = f]
    BY <1>1, <2>1
  <2>3. v5' = [v5 EXCEPT ![c] = rec]
    BY <1>1 DEF Sign!LoginWrong
  <2> QED BY <1>1, <2>2, <2>3
<1>4. rec.pc = "lg_count" /\ rec.who = a /\ rec.read = k
  BY <1>1 DEF Sign!CallType
<1> HIDE DEF f, rec, k
<1>5. Pending(v5', a, k) = Pending(v5, a, k) \cup {c} /\ c \notin Pending(v5, a, k)
      /\ \A v : v # k => Pending(v5', a, v) = Pending(v5, a, v)
  BY <1>1, <1>3, <1>4 DEF Pending
<1>6. /\ Cardinality(Pending(v5', a, k)) = Cardinality(Pending(v5, a, k)) + 1
      /\ Chances(f, v5', a, k) = Chances(v4[a], v5, a, k) - 1
      /\ Chances(v4[a], v5, a, k) \in Nat
  BY <1>1, <1>2, <1>5, PendingCalls, OneMore DEF Chances, k
<1>7. \A v : v # k => Chances(f, v5', a, v) = 0 /\ Chances(v4[a], v5, a, v) = 0
  BY <1>2 DEF Chances, k
<1>8. f.guesses[0] + Chances(f, v5', a, 0) <= Cardinality(Calls)
  <2>1. v4[a].guesses[0] + Chances(v4[a], v5, a, 0) <= Cardinality(Calls) /\ 0 \in Levels
    BY <1>1, <1>2, CallsCounted DEF FewOpen
  <2>2. f.guesses[0] + Chances(f, v5', a, 0) = v4[a].guesses[0] + Chances(v4[a], v5, a, 0)
    BY <1>2, <1>6, <1>7, <2>1
  <2> QED BY <2>1, <2>2
<1>9. ASSUME NEW v \in Levels \ {0} PROVE OpenAt(f, v5', a, v)
  <2>1. OpenAt(v4[a], v5, a, v) /\ v - 1 \in Levels /\ v \in Levels /\ v - 1 # v
    BY <1>1, SignAssumed DEF FewOpen, Levels
  <2>2. f.guesses[v] + Chances(f, v5', a, v) = v4[a].guesses[v] + Chances(v4[a], v5, a, v)
    BY <1>2, <1>6, <1>7, <2>1
  <2>3. f.guesses[v-1] - Cardinality(Pending(v5', a, v-1)) =
          v4[a].guesses[v-1] - Cardinality(Pending(v5, a, v-1))
    <3>1. Cardinality(Pending(v5, a, v-1)) \in Nat
      BY <1>1, PendingCalls
    <3>2. CASE v - 1 = k
      BY <1>2, <1>6, <2>1, <3>1, <3>2
    <3>3. CASE v - 1 # k
      BY <1>2, <1>5, <2>1, <3>3
    <3> QED BY <3>2, <3>3
  <2> QED BY <2>1, <2>2, <2>3 DEF OpenAt
<1>10. FewOpen(f, v5', a)
  BY <1>1, <1>2, <1>8, <1>9 DEF FewOpen
<1> QED BY <1>2, <1>3, <1>10, OpenIsFew

\* A wrong password at a locked account.
LEMMA GuessLate ==
  ASSUME NEW d, Sign(d)!SignInAssumption, SignOK(d), NEW c \in Calls, Sign(d)!LoginWrong(c),
         NEW a, a = v5[c].who, v4[a].locked, RowLow(v4[a], v5, a)
  PROVE  RowLow(v4'[a], v5', a)
<1> DEFINE f == [v4[a] EXCEPT !.late = @ + 1]
           rec == [v5[c] EXCEPT !.pc = "lg_count", !.read = v4[a].count]
<1>1. /\ v4 \in [Accounts -> FailureType] /\ v5 \in [Calls -> Sign(d)!CallType] /\ v5[c].pc = "lg_check"
      /\ a \in Accounts /\ v4[a] \in FailureType /\ IsFiniteSet(Calls)
  BY SignFacts, CallsCounted DEF CallKnown, Sign!LoginWrong, Sign!At
<1>2. /\ f \in FailureType /\ f.locked /\ f.late = v4[a].late + 1 /\ f.guesses = v4[a].guesses
      /\ v4[a].late \in Nat
  BY <1>1 DEF FailureType
<1>3. v4'[a] = f /\ v5' = [v5 EXCEPT ![c] = rec]
  <2>1. v4' = [v4 EXCEPT ![a].late = @ + 1]
    BY <1>1 DEF Sign!LoginWrong
  <2>2. v4' = [v4 EXCEPT ![a] = f]
    BY <1>1, <2>1
  <2>3. v5' = [v5 EXCEPT ![c] = rec]
    BY <1>1 DEF Sign!LoginWrong
  <2> QED BY <1>1, <2>2, <2>3
<1>4. rec.pc = "lg_count"
  BY <1>1 DEF Sign!CallType
<1> HIDE DEF f, rec
<1>5. Choosing(v5', a) = Choosing(v5, a) \ {c} /\ c \in Choosing(v5, a) /\ Choosing(v5, a) \subseteq Calls
  BY <1>1, <1>3, <1>4 DEF Choosing
<1>6. Cardinality(Choosing(v5', a)) = Cardinality(Choosing(v5, a)) - 1 /\ Cardinality(Choosing(v5, a)) \in Nat
  BY <1>1, <1>5, OneLess, SomeCalls
<1>7. FewLate(f, v5', a)
  BY <1>2, <1>6 DEF RowLow, FewLate
<1> QED BY <1>2, <1>3, <1>7 DEF RowLow, FewGuesses, FewOpen

\* A failure is counted: at a count no longer open, at the lock, or at the next.
LEMMA GuessCounted ==
  ASSUME NEW d, Sign(d)!SignInAssumption, SignOK(d), NEW c \in Calls, Sign(d)!LoginCount(c),
         NEW a, a = v5[c].who, RowLow(v4[a], v5, a)
  PROVE  RowLow(v4'[a], v5', a)
<1> DEFINE r == v5[c].read
           full == r + 1 >= MaxFailures
           f == [v4[a] EXCEPT !.count = r + 1, !.locked = @ \/ full]
<1>1. /\ v4 \in [Accounts -> FailureType] /\ v5 \in [Calls -> Sign(d)!CallType] /\ v5[c].pc = "lg_count"
      /\ a \in Accounts /\ v4[a] \in FailureType /\ r \in Nat
      /\ IsFiniteSet(Calls) /\ Levels \subseteq Nat /\ Cardinality(Calls) \in Nat \ {0}
  BY SignFacts, CallsCounted DEF CallKnown, Sign!LoginCount, Sign!At, Sign!CallType
<1>2. /\ v4'[a] = f /\ v5' = [v5 EXCEPT ![c] = Sign(d)!Idle]
  BY <1>1 DEF Sign!LoginCount, Sign!End
<1>3. /\ f.count = r + 1 /\ f.locked = (v4[a].locked \/ full) /\ f.late = v4[a].late
      /\ f.guesses = v4[a].guesses /\ v4[a].late \in Nat /\ \A v \in Levels : v4[a].guesses[v] \in Nat
  BY <1>1 DEF FailureType
<1>4. f \in FailureType
  <2>1. r + 1 \in Nat
    BY <1>1
  <2> HIDE DEF full
  <2> QED BY <1>1, <2>1 DEF FailureType
<1> HIDE DEF f
<1>5. /\ Pending(v5', a, r) = Pending(v5, a, r) \ {c} /\ c \in Pending(v5, a, r)
      /\ \A v : v # r => Pending(v5', a, v) = Pending(v5, a, v)
      /\ Choosing(v5', a) = Choosing(v5, a) /\ c \notin Choosing(v5, a)
  BY <1>1, <1>2, SignIdle DEF Pending, Choosing
<1>8. \A v : /\ Cardinality(Pending(v5, a, v)) \in Nat /\ Cardinality(Pending(v5', a, v)) \in Nat
             /\ Chances(v4[a], v5, a, v) \in Nat /\ Chances(f, v5', a, v) \in Nat
             /\ Chances(f, v5', a, v) <= Cardinality(Calls)
  <2>1. \A v : 0 <= Cardinality(Calls) /\ 0 \in Nat
    BY <1>1
  <2> QED BY <1>1, <2>1, PendingCalls DEF Chances
<1>6. CASE f.locked
  <2>1. FewLate(f, v5', a)
    <3>1. CASE v4[a].locked
      BY <1>3, <1>5, <3>1 DEF RowLow, FewLate
    <3>2. CASE ~v4[a].locked
      <4>1. v4[a].late = 0
        BY <3>2 DEF RowLow, FewOpen
      <4>2. Cardinality(Choosing(v5, a)) < Cardinality(Calls)
        BY <1>1, <1>5, PendingCalls, OneMore
      <4>3. Cardinality(Choosing(v5, a)) \in Nat
        BY <1>1, PendingCalls
      <4> QED BY <1>3, <1>5, <4>1, <4>2, <4>3 DEF FewLate
    <3> QED BY <3>1, <3>2
  <2> QED BY <1>2, <1>3, <1>6, <2>1 DEF RowLow, FewGuesses, FewOpen
<1>7. CASE ~f.locked
  <2>1. FewOpen(v4[a], v5, a) /\ ~v4[a].locked /\ r + 1 \in Levels
    <3>1. ~v4[a].locked /\ ~full
      BY <1>3, <1>7
    <3>2. r + 1 \in Levels
      BY <1>1, <3>1, SignAssumed DEF Levels
    <3> QED BY <3>1, <3>2 DEF RowLow
  <2>2. \A v : v # r + 1 => Chances(f, v5', a, v) = 0
    BY <1>3 DEF Chances
  <2>3. \A v : Chances(v4[a], v5, a, v) \in Nat
    BY <1>8
  <2>4. f.guesses[0] + Chances(f, v5', a, 0) <= Cardinality(Calls)
    BY <1>1, <1>3, <2>1, <2>2, <2>3, CallsCounted DEF FewOpen
  <2>5. ASSUME NEW v \in Levels \ {0}, v # r + 1 PROVE OpenAt(f, v5', a, v)
    <3>1. OpenAt(v4[a], v5, a, v) /\ v \in Levels /\ v - 1 \in Levels /\ v - 1 # r
      BY <1>1, <2>1, <2>5, SignAssumed DEF FewOpen, Levels
    <3> DEFINE bound == Cardinality(Calls) * (v4[a].guesses[v-1] - Cardinality(Pending(v5, a, v-1)) + 1)
    <3>2. bound \in Int
      BY <1>1, <1>3, <1>8, <3>1
    <3>3. v4[a].guesses[v] + Chances(v4[a], v5, a, v) < bound
      BY <3>1 DEF OpenAt
    <3>4. Cardinality(Calls) * (f.guesses[v-1] - Cardinality(Pending(v5', a, v-1)) + 1) = bound
      BY <1>3, <1>5, <3>1
    <3> HIDE DEF bound
    <3>5. f.guesses[v] + Chances(f, v5', a, v) < bound
      BY <1>3, <2>2, <2>3, <2>5, <3>1, <3>2, <3>3
    <3> QED BY <3>4, <3>5 DEF OpenAt
  <2>6. r + 1 # 0 => OpenAt(f, v5', a, r + 1)
    <3> DEFINE n == Cardinality(Calls)
               x == v4[a].guesses[r] - Cardinality(Pending(v5, a, r)) + 1
               y == v4[a].guesses[r+1]
               e == Chances(v4[a], v5, a, r + 1)
               g == Chances(f, v5', a, r + 1)
    <3>1. OpenAt(v4[a], v5, a, r + 1) /\ r \in Levels /\ (r + 1) - 1 = r
      BY <1>1, <2>1, SignAssumed DEF FewOpen, Levels
    <3>2. y + e < n * x
      BY <3>1 DEF OpenAt
    <3>3. n \in Nat /\ x \in Int /\ y \in Nat /\ e \in Nat /\ g \in Nat /\ g <= n
      BY <1>1, <1>3, <1>8, <2>1, <3>1
    <3>4. f.guesses[r] - Cardinality(Pending(v5', a, r)) + 1 = x + 1
      <4>1. Cardinality(Pending(v5', a, r)) = Cardinality(Pending(v5, a, r)) - 1
        BY <1>1, <1>5, PendingCalls, OneLess
      <4> QED BY <1>3, <1>8, <3>1, <4>1
    <3>5. f.guesses[r+1] = y
      BY <1>3
    <3> HIDE DEF n, x, y, e, g
    <3>6. n * (x + 1) = n * x + n /\ n * x \in Int
      BY <3>3, Times
    <3>7. y + g < n * (x + 1)
      BY <3>2, <3>3, <3>6
    <3> QED BY <3>1, <3>4, <3>5, <3>7 DEF OpenAt, n, g
  <2>7. FewOpen(f, v5', a)
    BY <1>1, <1>3, <2>1, <2>4, <2>5, <2>6 DEF FewOpen, RowLow
  <2> QED BY <1>2, <1>4, <1>7, <2>7, OpenIsFew
<1> QED BY <1>6, <1>7

\* The counter is cleared: the guesses not yet counted are those on record.
LEMMA GuessForgiven ==
  ASSUME NEW d, Sign(d)!SignInAssumption, SignOK(d), NEW a \in Accounts, v4' = Sign(d)!Forgiven(a),
         \A v : Pending(v5', a, v) = Pending(v5, a, v),
         NEW c \in Calls, \A v : c \notin Pending(v5, a, v)
  PROVE  RowLow(v4'[a], v5', a) /\ \A b \in Accounts \ {a} : v4'[b] = v4[b]
<1> DEFINE f == [count |-> 0, locked |-> FALSE,
                 guesses |-> [v \in Levels |-> Cardinality(Pending(v5, a, v))], late |-> 0]
<1>1. /\ v4 \in [Accounts -> FailureType] /\ IsFiniteSet(Calls) /\ Cardinality(Calls) \in Nat \ {0}
      /\ 0 \in Levels /\ Levels \subseteq Nat
  BY SignFacts, CallsCounted
<1>2. v4'[a] = f /\ \A b \in Accounts \ {a} : v4'[b] = v4[b]
  <2>1. \A v : Sign(d)!Cardinality(Sign(d)!Uncounted(a, v)) = Cardinality(Pending(v5, a, v))
    BY SignCard DEF Sign!Uncounted, Sign!At, Pending
  <2>2. v4' = [v4 EXCEPT ![a] = f]
    BY <2>1 DEF Sign!Forgiven, Sign!Tries, Levels
  <2> QED BY <1>1, <2>2
<1>3. /\ f.count = 0 /\ ~f.locked /\ f.late = 0
      /\ \A v \in Levels : f.guesses[v] = Cardinality(Pending(v5, a, v))
  OBVIOUS
<1>4. f \in FailureType
  BY <1>1, PendingCalls DEF FailureType
<1> HIDE DEF f
<1>5. f.guesses[0] + Chances(f, v5', a, 0) <= Cardinality(Calls)
  <2>1. Cardinality(Pending(v5, a, 0)) + Cardinality(Calls \ Pending(v5, a, 0)) = Cardinality(Calls)
    <3>1. Pending(v5, a, 0) \subseteq Calls
      BY <1>1, PendingCalls
    <3> HIDE DEF Pending
    <3> QED BY <1>1, <3>1, PendingApart
  <2>2. Pending(v5', a, 0) = Pending(v5, a, 0)
    OBVIOUS
  <2>3. Chances(f, v5', a, 0) = Cardinality(Calls \ Pending(v5', a, 0))
    BY <1>3 DEF Chances
  <2>4. Chances(f, v5', a, 0) = Cardinality(Calls \ Pending(v5, a, 0))
    BY <2>2, <2>3
  <2>5. f.guesses[0] = Cardinality(Pending(v5, a, 0))
    BY <1>1, <1>3, <2>2
  <2> HIDE DEF Chances
  <2>6. f.guesses[0] + Chances(f, v5', a, 0) = Cardinality(Calls)
    BY <2>1, <2>4, <2>5
  <2> QED BY <1>1, <2>6
<1>6. ASSUME NEW v \in Levels \ {0} PROVE OpenAt(f, v5', a, v)
  <2>1. v \in Levels /\ v - 1 \in Levels
    BY <1>1, SignAssumed DEF Levels
  <2>2. Cardinality(Pending(v5, a, v)) < Cardinality(Calls)
    <3>1. Pending(v5, a, v) \subseteq Calls /\ c \notin Pending(v5, a, v)
      BY <1>1, PendingCalls
    <3> QED BY <1>1, <3>1, OneMore
  <2>3. Chances(f, v5', a, v) = 0
    BY <1>3 DEF Chances
  <2>4. /\ Cardinality(Pending(v5, a, v)) \in Nat
        /\ f.guesses[v-1] = Cardinality(Pending(v5', a, v-1)) /\ f.guesses[v-1] \in Nat
    BY <1>1, <1>3, <2>1, PendingCalls
  <2>5. Cardinality(Calls) * (f.guesses[v-1] - Cardinality(Pending(v5', a, v-1)) + 1) = Cardinality(Calls)
    <3>1. f.guesses[v-1] - Cardinality(Pending(v5', a, v-1)) + 1 = 1
      BY <2>4
    <3> QED BY <1>1, <3>1
  <2> QED BY <1>3, <2>1, <2>2, <2>3, <2>4, <2>5 DEF OpenAt
<1>7. FewOpen(f, v5', a)
  BY <1>1, <1>3, <1>5, <1>6 DEF FewOpen
<1>8. RowLow(f, v5', a)
  BY <1>3, <1>4, <1>7, OpenIsFew
<1> QED BY <1>2, <1>8

\* The steps of a login, each at the account it is about; the others pass.
LEMMA GuessesLogin ==
  ASSUME NEW d, Sign(d)!SignInAssumption, SignOK(d), GuessesLow(v4, v5), NEW c \in Calls,
         Sign(d)!LoginWrong(c) \/ Sign(d)!LoginCount(c) \/ Sign(d)!LoginClear(c) \/ Sign(d)!PlatformClear(c)
  PROVE  GuessesLow(v4', v5')
<1> DEFINE a == v5[c].who
<1>1. /\ v4 \in [Accounts -> FailureType] /\ v5 \in [Calls -> Sign(d)!CallType]
      /\ v5[c].pc \in {"lg_check", "lg_count", "lg_clear"} /\ a \in Accounts /\ RowLow(v4[a], v5, a)
  BY SignFacts DEF CallKnown, Sign!LoginWrong, Sign!LoginCount, Sign!LoginClear, Sign!PlatformClear, Sign!At,
                   GuessesLow
<1>2. /\ \A o \in Calls \ {c} : v5'[o] = v5[o]
      /\ v5'[c].pc # "lg_check" /\ (v5'[c].pc = "lg_count" => v5'[c].who = a)
  BY <1>1, SignIdle DEF Sign!LoginWrong, Sign!LoginCount, Sign!LoginClear, Sign!PlatformClear, Sign!At, Sign!Goto,
                        Sign!End, Sign!CallType
<1>3. RowLow(v4'[a], v5', a) /\ \A b \in Accounts \ {a} : v4'[b] = v4[b]
  <2>1. CASE Sign(d)!LoginWrong(c)
    <3>1. \A b \in Accounts \ {a} : v4'[b] = v4[b]
      BY <1>1, <2>1 DEF Sign!LoginWrong
    <3> QED BY <1>1, <2>1, <3>1, GuessMade, GuessLate
  <2>2. CASE Sign(d)!LoginCount(c)
    <3>1. \A b \in Accounts \ {a} : v4'[b] = v4[b]
      BY <1>1, <2>2 DEF Sign!LoginCount
    <3> QED BY <1>1, <2>2, <3>1, GuessCounted
  <2>3. CASE Sign(d)!LoginClear(c) \/ Sign(d)!PlatformClear(c)
    <3>1. v4' = Sign(d)!Forgiven(a) /\ v5[c].pc = "lg_clear" /\ v5'[c].pc # "lg_count"
      BY <1>1, <2>3 DEF Sign!LoginClear, Sign!PlatformClear, Sign!At, Sign!Goto, Sign!CallType
    <3>2. \A v : Pending(v5', a, v) = Pending(v5, a, v)
      BY <1>2, <3>1, PendingMove
    <3>3. \A v : c \notin Pending(v5, a, v)
      BY <3>1 DEF Pending
    <3> QED BY <1>1, <3>1, <3>2, <3>3, GuessForgiven
  <2> QED BY <2>1, <2>2, <2>3
<1>4. ASSUME NEW b \in Accounts \ {a} PROVE RowLow(v4'[b], v5', b)
  <2>1. RowLow(v4[b], v5, b) /\ v4'[b] = v4[b] /\ b \in Accounts /\ b # a
    BY <1>3 DEF GuessesLow
  <2> QED BY <1>2, <2>1, GuessPasses
<1> QED BY <1>3, <1>4 DEF GuessesLow

LEMMA GuessesUnlock ==
  ASSUME NEW d, Sign(d)!SignInAssumption, SignOK(d), GuessesLow(v4, v5), NEW a \in Accounts, Sign(d)!Unlock(a)
  PROVE  GuessesLow(v4', v5')
<1>1. v4' = Sign(d)!Forgiven(a) /\ v5' = v5 /\ \A v : Pending(v5, a, v) = {}
  BY DEF Sign!Unlock, Pending
<1>2. PICK c \in Calls : TRUE
  BY DEF Sign!SignInAssumption
<1>3. RowLow(v4'[a], v5', a) /\ \A b \in Accounts \ {a} : v4'[b] = v4[b]
  BY <1>1, GuessForgiven
<1> QED BY <1>1, <1>3 DEF GuessesLow

\* The steps that leave the counters be.
LEMMA GuessesElse ==
  ASSUME NEW d, Sign(d)!SignInAssumption, SignOK(d), GuessesLow(v4, v5), NEW c \in Calls, Sign(d)!Step(c)
  PROVE  \/ GuessesLow(v4', v5')
         \/ Sign(d)!LoginWrong(c) \/ Sign(d)!LoginCount(c) \/ Sign(d)!LoginClear(c) \/ Sign(d)!PlatformClear(c)
<1>1. v5 \in [Calls -> Sign(d)!CallType] /\ CallKnown(d, v5[c]) /\ Sign(d)!Idle.pc = "idle"
  BY SignFacts, SignIdle
<1> DEFINE Passes == /\ v4' = v4 /\ v5[c].pc # "lg_count" /\ v5'[c].pc \notin {"lg_count", "lg_check"}
                     /\ \A o \in Calls \ {c} : v5'[o] = v5[o]
<1>2. Passes => GuessesLow(v4', v5')
  BY GuessesPass
<1>3. ASSUME NEW a \in Accounts, Sign(d)!LoginStart(c, a) PROVE GuessesLow(v4', v5')
  <2>1. /\ v4' = v4 /\ v5[c].pc = "idle" /\ v5'[c].pc = "lg_check" /\ v5'[c].who = a /\ ~v4[a].locked
        /\ \A o \in Calls \ {c} : v5'[o] = v5[o]
    BY <1>1, <1>3 DEF Sign!LoginStart, Sign!Begin, Sign!Free, Sign!At, Sign!Idle
  <2> QED BY <2>1, GuessesPass
<1>4. ASSUME NEW a \in Accounts, \/ Sign(d)!ChangeStart(c, a) \/ Sign(d)!ForgotPassword(c, a)
             \/ Sign(d)!ResendVerification(c, a) \/ Sign(d)!StartEnable2fa(c, a)
      PROVE Passes
  BY <1>1, <1>4 DEF Sign!ChangeStart, Sign!Begin, Sign!Free, Sign!At, Sign!Idle, Sign!ForgotPassword,
       Sign!ResendVerification, Sign!StartEnable2fa, Sign!IssueStart
<1>5. ASSUME NEW k \in Codes, Sign(d)!IssueInsert(c, k) PROVE Passes
  BY <1>1, <1>5 DEF Sign!IssueInsert, Sign!End, Sign!At
<1>6. CASE Sign(d)!IssueRead(c) \/ Sign(d)!IssueDelete(c)
  <2>1. Passes
    BY <1>1, <1>6 DEF Sign!IssueRead, Sign!IssueDelete, Sign!End, Sign!Goto, Sign!At, Sign!CallType
  <2> QED BY <1>2, <2>1
<1>7. ASSUME NEW op \in DOMAIN Sign(d)!PurposeOf, NEW a \in Accounts, NEW k \in Codes,
             Sign(d)!CodeWornOut(c, op, a, k) \/ \E right \in BOOLEAN : Sign(d)!CodeRead(c, op, a, k, right)
      PROVE Passes
  <2>1. CASE Sign(d)!CodeWornOut(c, op, a, k)
    <3>1. v4' = v4 /\ v5' = v5 /\ v5[c].pc = "idle"
      BY <2>1 DEF Sign!CodeWornOut, Sign!Free, Sign!At
    <3> QED BY <3>1
  <2>2. ASSUME NEW right \in BOOLEAN, Sign(d)!CodeRead(c, op, a, k, right) PROVE Passes
    <3> DEFINE read == [Sign(d)!Idle EXCEPT !.pc = IF right THEN "ot_right" ELSE "ot_wrong", !.op = op,
                                            !.who = a, !.code = k]
    <3>1. v4' = v4 /\ v5[c].pc = "idle" /\ v5' = [v5 EXCEPT ![c] = read]
      BY <2>2 DEF Sign!CodeRead, Sign!Free, Sign!At
    <3>2. read.pc \notin {"lg_count", "lg_check"}
      BY DEF Sign!Idle
    <3> HIDE DEF read
    <3>3. v5'[c] = read /\ \A o \in Calls \ {c} : v5'[o] = v5[o]
      BY <1>1, <3>1
    <3> QED BY <3>1, <3>2, <3>3
  <2> QED BY <1>7, <2>1, <2>2
<1>8. CASE Sign(d)!CodeWrong(c) \/ Sign(d)!FactorWrite(c) \/ Sign(d)!ResetRevoke(c) \/ Sign(d)!ChangeWrite(c)
  <2>1. Passes
    BY <1>1, <1>8 DEF Sign!CodeWrong, Sign!FactorWrite, Sign!ResetRevoke, Sign!ChangeWrite, Sign!End, Sign!At
  <2> QED BY <1>2, <2>1
<1>9. CASE Sign(d)!VerifyWrite(c) \/ Sign(d)!ResetWrite(c) \/ Sign(d)!RefreshDelete(c)
  <2>1. Passes
    BY <1>1, <1>9 DEF Sign!VerifyWrite, Sign!ResetWrite, Sign!RefreshDelete, Sign!Goto, Sign!At, Sign!CallType
  <2> QED BY <1>2, <2>1
<1>10. CASE Sign(d)!SecondFactor(c)
  <2>1. Passes
    BY <1>1, <1>10 DEF Sign!SecondFactor, Sign!End, Sign!At, Sign!CallType
  <2> QED BY <1>2, <2>1
<1>11. CASE Sign(d)!LoginRight(c) \/ Sign(d)!PlatformRight(c)
  <2>1. Passes
    BY <1>1, <1>11 DEF Sign!LoginRight, Sign!PlatformRight, Sign!Known, Sign!End, Sign!At, Sign!CallType
  <2> QED BY <1>2, <2>1
<1>12. CASE Sign(d)!CodeRight(c)
  <2>1. v5[c].op \in DOMAIN Sign(d)!After
    BY <1>1, <1>12 DEF Sign!CodeRight, Sign!At, CallKnown
  <2>2. Sign(d)!After[v5[c].op] \notin {"lg_count", "lg_check"}
    BY <2>1 DEF Sign!After
  <2>3. Passes
    BY <1>1, <1>12, <2>2 DEF Sign!CodeRight, Sign!At, Sign!CallType
  <2> QED BY <1>2, <2>3
<1>13. ASSUME NEW s \in SessionsAt[d], Sign(d)!Store(c, s) \/ Sign(d)!RefreshStart(c, s) PROVE Passes
  BY <1>1, <1>13 DEF Sign!Store, Sign!RefreshStart, Sign!End, Sign!Free, Sign!At, Sign!Idle
<1>14. ASSUME NEW s \in SessionsAt[d], Sign(d)!Logout(c, s) PROVE Passes
  BY <1>1, <1>14 DEF Sign!Logout, Sign!Free, Sign!At
<1> HIDE DEF Passes
<1> QED BY <1>2, <1>3, <1>4, <1>5, <1>6, <1>7, <1>8, <1>9, <1>10, <1>11, <1>12, <1>13, <1>14 DEF Sign!Step

LEMMA GuessesStep ==
  ASSUME NEW d, Sign(d)!SignInAssumption, SignOK(d), GuessesLow(v4, v5), Sign(d)!Next
  PROVE  GuessesLow(v4', v5')
<1>1. ASSUME NEW c \in Calls, Sign(d)!Step(c) PROVE GuessesLow(v4', v5')
  BY <1>1, GuessesElse, GuessesLogin
<1>2. ASSUME NEW a \in Accounts, Sign(d)!Unlock(a) PROVE GuessesLow(v4', v5')
  BY <1>2, GuessesUnlock
<1>3. ASSUME v4' = v4, v5' = v5 PROVE GuessesLow(v4', v5')
  BY <1>3
<1> QED BY <1>1, <1>2, <1>3 DEF Sign!Next, Sign!Suspend, Sign!Age

LEMMA GuessesStart ==
  ASSUME NEW d, Sign(d)!SignInAssumption, Sign(d)!Init PROVE GuessesLow(v4, v5)
<1> SUFFICES ASSUME NEW a \in Accounts PROVE RowLow(v4[a], v5, a)
  BY DEF GuessesLow
<1>1. v4[a] = Unguessed /\ v5 = [c \in Calls |-> Sign(d)!Idle]
  BY DEF Sign!Init, Unguessed, Sign!Tries, Levels
<1>2. IsFiniteSet(Calls) /\ Cardinality(Calls) \in Nat \ {0} /\ 0 \in Levels /\ Levels \subseteq Nat
  BY CallsCounted
<1>3. /\ Unguessed \in FailureType /\ Unguessed.count = 0 /\ ~Unguessed.locked /\ Unguessed.late = 0
      /\ \A v \in Levels : Unguessed.guesses[v] = 0
  BY DEF Unguessed, FailureType
<1>4. \A v : Pending(v5, a, v) = {} /\ Cardinality(Pending(v5, a, v)) = 0
  BY <1>1, SignIdle, FS_EmptySet DEF Pending
<1>5. Unguessed.guesses[0] + Chances(Unguessed, v5, a, 0) <= Cardinality(Calls)
  <2>1. Calls \ Pending(v5, a, 0) = Calls
    BY <1>4
  <2>2. Chances(Unguessed, v5, a, 0) = Cardinality(Calls)
    BY <1>3, <2>1 DEF Chances
  <2>3. Unguessed.guesses[0] = 0
    BY <1>2, <1>3
  <2> QED BY <1>2, <2>2, <2>3
<1>6. ASSUME NEW v \in Levels \ {0} PROVE OpenAt(Unguessed, v5, a, v)
  <2>1. v \in Levels /\ v - 1 \in Levels /\ Chances(Unguessed, v5, a, v) = 0
    BY <1>2, <1>3, SignAssumed DEF Levels, Chances
  <2>2. Unguessed.guesses[v] = 0 /\ Unguessed.guesses[v-1] = 0 /\ Cardinality(Pending(v5, a, v-1)) = 0
    BY <1>3, <1>4, <2>1
  <2> QED BY <1>2, <2>1, <2>2 DEF OpenAt
<1>7. FewOpen(Unguessed, v5, a)
  BY <1>2, <1>3, <1>5, <1>6 DEF FewOpen
<1> QED BY <1>1, <1>3, <1>7, OpenIsFew

LEMMA GuessesFew ==
  ASSUME NEW d, Sign(d)!SignInAssumption, NEW failures \in [Accounts -> FailureType], NEW signing,
         GuessesLow(failures, signing), NEW a \in Accounts
  PROVE  FewGuesses(failures[a]) /\ failures[a].late < Cardinality(Calls)
<1> DEFINE f == failures[a]
<1>1. RowLow(f, signing, a) /\ f.late \in Nat /\ f.locked \in BOOLEAN
      /\ Cardinality(Calls) \in Nat \ {0} /\ Cardinality(Choosing(signing, a)) \in Nat
  BY CallsCounted, PendingCalls DEF GuessesLow, FailureType
<1>2. CASE f.locked
  BY <1>1, <1>2 DEF RowLow, FewLate
<1>3. CASE ~f.locked
  BY <1>1, <1>3 DEF RowLow, FewOpen
<1> QED BY <1>1, <1>2, <1>3 DEF RowLow

\* GuessesInv says what has been shown of the rows.
LEMMA GuessesShown ==
  ASSUME NEW d
  PROVE  /\ \A S : Sign(d)!Cardinality(S) = Cardinality(S)
         /\ Sign(d)!Tries = Levels
BY SignCard DEF Sign!Tries, Levels

LEMMA GuessesTaken == ASSUME NEW d, Sign(d)!GuessesInv PROVE GuessesLow(v4, v5)
<1> SUFFICES ASSUME NEW a \in Accounts PROVE RowLow(v4[a], v5, a)
  BY DEF GuessesLow
<1>1. /\ \A v : Sign(d)!Uncounted(a, v) = Pending(v5, a, v)
      /\ Sign(d)!Checking(a) = Choosing(v5, a)
  BY DEF Sign!Uncounted, Sign!Checking, Sign!At, Pending, Choosing
<1>2. \A v : Sign(d)!Left(a, v) = Chances(v4[a], v5, a, v)
  BY <1>1, GuessesShown DEF Sign!Left, Chances
<1>3. FewGuesses(v4[a])
  BY GuessesShown DEF Sign!GuessesInv, Sign!GuessesBounded, FewGuesses
<1>4. FewLate(v4[a], v5, a)
  BY <1>1, GuessesShown DEF Sign!GuessesInv, FewLate
<1>5. FewOpen(v4[a], v5, a)
  BY <1>1, <1>2, GuessesShown DEF Sign!GuessesInv, FewOpen, OpenAt
<1> QED BY <1>3, <1>4, <1>5 DEF RowLow

LEMMA GuessesKept ==
  ASSUME NEW d, Sign(d)!SignInAssumption, v4' \in [Accounts -> FailureType], GuessesLow(v4', v5')
  PROVE  Sign(d)!GuessesInv'
<1>1. Sign(d)!GuessesBounded'
  BY GuessesFew, GuessesShown DEF Sign!GuessesBounded, FewGuesses
<1>2. ASSUME NEW a \in Accounts
      PROVE  /\ v4'[a].locked => v4'[a].late + Sign(d)!Cardinality(Sign(d)!Checking(a))' < Sign(d)!Cardinality(Calls)
             /\ ~v4'[a].locked =>
                  /\ v4'[a].count \in Sign(d)!Tries /\ v4'[a].late = 0
                  /\ v4'[a].guesses[0] + Sign(d)!Left(a, 0)' <= Sign(d)!Cardinality(Calls)
                  /\ \A v \in Sign(d)!Tries \ {0} :
                       v4'[a].guesses[v] + Sign(d)!Left(a, v)' <
                         Sign(d)!Cardinality(Calls) *
                           (v4'[a].guesses[v-1] - Sign(d)!Cardinality(Sign(d)!Uncounted(a, v-1))' + 1)
  <2>1. /\ \A v : Sign(d)!Uncounted(a, v)' = Pending(v5', a, v)
        /\ Sign(d)!Checking(a)' = Choosing(v5', a)
    BY DEF Sign!Uncounted, Sign!Checking, Sign!At, Pending, Choosing
  <2>2. \A v : Sign(d)!Left(a, v)' = Chances(v4'[a], v5', a, v)
    BY <2>1, GuessesShown DEF Sign!Left, Chances
  <2>3. RowLow(v4'[a], v5', a)
    BY DEF GuessesLow
  <2> QED BY <2>1, <2>2, <2>3, GuessesShown DEF RowLow, FewLate, FewOpen, OpenAt
<1> QED BY <1>1, <1>2 DEF Sign!GuessesInv

LEMMA GuessesBegun ==
  ASSUME NEW d, Sign(d)!SignInAssumption, v4 \in [Accounts -> FailureType], GuessesLow(v4, v5)
  PROVE  Sign(d)!GuessesInv
<1>1. Sign(d)!GuessesBounded
  BY GuessesFew, GuessesShown DEF Sign!GuessesBounded, FewGuesses
<1>2. ASSUME NEW a \in Accounts
      PROVE  /\ v4[a].locked => v4[a].late + Sign(d)!Cardinality(Sign(d)!Checking(a)) < Sign(d)!Cardinality(Calls)
             /\ ~v4[a].locked =>
                  /\ v4[a].count \in Sign(d)!Tries /\ v4[a].late = 0
                  /\ v4[a].guesses[0] + Sign(d)!Left(a, 0) <= Sign(d)!Cardinality(Calls)
                  /\ \A v \in Sign(d)!Tries \ {0} :
                       v4[a].guesses[v] + Sign(d)!Left(a, v) <
                         Sign(d)!Cardinality(Calls) *
                           (v4[a].guesses[v-1] - Sign(d)!Cardinality(Sign(d)!Uncounted(a, v-1)) + 1)
  <2>1. /\ \A v : Sign(d)!Uncounted(a, v) = Pending(v5, a, v)
        /\ Sign(d)!Checking(a) = Choosing(v5, a)
    BY DEF Sign!Uncounted, Sign!Checking, Sign!At, Pending, Choosing
  <2>2. \A v : Sign(d)!Left(a, v) = Chances(v4[a], v5, a, v)
    BY <2>1, GuessesShown DEF Sign!Left, Chances
  <2>3. RowLow(v4[a], v5, a)
    BY DEF GuessesLow
  <2> QED BY <2>1, <2>2, <2>3, GuessesShown DEF RowLow, FewLate, FewOpen, OpenAt
<1> QED BY <1>1, <1>2 DEF Sign!GuessesInv

\* The invariants of a desk where people sign in.
SignHolds(d) == SignOK(d) /\ Sign(d)!GuessesInv

LEMMA SignHoldsInit == ASSUME NEW d, Sign(d)!SignInAssumption, Sign(d)!Init PROVE SignHolds(d)
BY SignInit, SignTypes, GuessesStart, GuessesBegun DEF SignHolds

LEMMA SignHoldsStep == ASSUME NEW d, Sign(d)!SignInAssumption, SignHolds(d), Sign(d)!Next PROVE SignHolds(d)'
<1>1. SignOK(d)' /\ GuessesLow(v4', v5')
  BY SignStep, GuessesTaken, GuessesStep DEF SignHolds
<1>2. v4' \in [Accounts -> FailureType]
  BY <1>1 DEF SignOK, Sign!TypeOK, FailureType, Sign!Tries, Levels
<1> QED BY <1>1, <1>2, GuessesKept DEF SignHolds

LEMMA SignHoldsStay == ASSUME NEW d, Sign(d)!SignInAssumption, SignHolds(d), UNCHANGED <<v1, v2, v3, v4, v5>>
                       PROVE  SignHolds(d)'
<1>1. SignOK(d)' /\ GuessesLow(v4, v5) /\ v4 \in [Accounts -> FailureType]
  BY SignStay, SignTypes, GuessesTaken DEF SignHolds
<1> QED BY <1>1, GuessesKept DEF SignHolds
-----------------------------------------------------------------------------
\* Load(d): clients, links, works, files, papers, chores and moving are v1 to v7.
LoadOK(d) == /\ Load(d)!TypeOK /\ Load(d)!WorkInv /\ Load(d)!OneCaseInv
             /\ Load(d)!LinkedInv /\ Load(d)!MoveInv

ClientRow(d) == [consultant: ConsultantsAt[d], partner: Partners \cup {Nobody}, moved: BOOLEAN]
WorkRow(d) == [status: {"none", "open", "completed"}, case: CasesAt[d] \cup {Nothing},
               client: Clients \cup {Nobody}, consultant: ConsultantsAt[d]]
FileRow(d) == [stage: {"none", "open", "completed"}, client: Clients \cup {Nobody},
               request: RequestsAt[d] \cup {Nothing}, consultant: ConsultantsAt[d]]
PaperRow(d) == [status: {"none", "wanted", "held", "approved"}, case: CasesAt[d] \cup {Nothing},
                consultant: ConsultantsAt[d]]
ChoreRow(d) == [status: Load(d)!TaskStates \cup {"none"}, case: CasesAt[d] \cup {Nothing},
                assignee: Partners \cup {Nobody}, consultant: ConsultantsAt[d]]
MoveRow(d) == [pc: {"idle", "mv_requests", "mv_cases", "mv_documents", "mv_tasks"},
               client: Clients \cup {Nobody}, to: ConsultantsAt[d]]

\* The parts of the invariant, of the collections they name.
WorkKnown(d, works, files) == \A r \in RequestsAt[d] :
  /\ works[r].status # "none" => works[r].client \in Clients
  /\ works[r].case # Nothing => works[r].case \in CasesAt[d] /\ files[works[r].case].stage # "none"
FileKnown(d, works, files) == \A x \in CasesAt[d] : files[x].stage # "none" =>
  files[x].client \in Clients /\ files[x].request \in RequestsAt[d] /\ works[files[x].request].status # "none"
ChoreKnown(d, files, chores) == \A t \in Tasks : chores[t].status # "none" =>
  chores[t].case \in CasesAt[d] /\ files[chores[t].case].stage # "none"
PaperKnown(d, works, papers) == \A r \in RequestsAt[d] : papers[r].status # "none" => works[r].status # "none"
OneCase(d, works, files, papers) == "create" \notin DoorsAt[d] =>
  /\ \A x \in CasesAt[d] : files[x].stage # "none" => works[files[x].request].case = x
  /\ \A r \in RequestsAt[d] : papers[r].status # "none" => papers[r].case = works[r].case
MarkedMoved(clients, moving) == \A c \in Movers : moving[c].pc # "idle" =>
  moving[c].client \in Clients /\ clients[moving[c].client].moved
ClientsLinked(clients, links) == \A p \in Partners, k \in Clients :
  clients[k].partner = p /\ ~clients[k].moved => clients[k].consultant \in links[p]
ChoresLinked(clients, links, files, chores) == \A p \in Partners, t \in Tasks :
  chores[t].status # "none" /\ chores[t].assignee = p /\ ~clients[files[chores[t].case].client].moved
    => chores[t].consultant \in links[p]
AloneMoving(moving) == \A c \in Movers : moving[c].pc # "idle" =>
  \A o \in Movers \ {c} : moving[o].pc = "idle"
WorksMoved(d, moving, works) == \A c \in Movers : moving[c].pc \notin {"idle", "mv_requests"} =>
  \A r \in RequestsAt[d] : works[r].client = moving[c].client /\ works[r].status = "open"
                             => works[r].consultant = moving[c].to
FilesMoved(d, moving, files) == \A c \in Movers : moving[c].pc \in {"mv_documents", "mv_tasks"} =>
  \A x \in CasesAt[d] : files[x].client = moving[c].client /\ files[x].stage = "open"
                          => files[x].consultant = moving[c].to

LEMMA LoadFacts ==
  ASSUME NEW d
  PROVE  LoadOK(d) => /\ v1 \in [Clients -> ClientRow(d)] /\ v2 \in [Partners -> SUBSET ConsultantsAt[d]]
                      /\ v3 \in [RequestsAt[d] -> WorkRow(d)] /\ v4 \in [CasesAt[d] -> FileRow(d)]
                      /\ v5 \in [RequestsAt[d] -> PaperRow(d)] /\ v6 \in [Tasks -> ChoreRow(d)]
                      /\ v7 \in [Movers -> MoveRow(d)]
                      /\ WorkKnown(d, v3, v4) /\ FileKnown(d, v3, v4) /\ ChoreKnown(d, v4, v6)
                      /\ PaperKnown(d, v3, v5) /\ OneCase(d, v3, v4, v5)
                      /\ MarkedMoved(v1, v7) /\ ClientsLinked(v1, v2) /\ ChoresLinked(v1, v2, v4, v6)
                      /\ AloneMoving(v7) /\ WorksMoved(d, v7, v3) /\ FilesMoved(d, v7, v4)
<1> SUFFICES ASSUME LoadOK(d)
             PROVE  /\ v1 \in [Clients -> ClientRow(d)] /\ v2 \in [Partners -> SUBSET ConsultantsAt[d]]
                    /\ v3 \in [RequestsAt[d] -> WorkRow(d)] /\ v4 \in [CasesAt[d] -> FileRow(d)]
                    /\ v5 \in [RequestsAt[d] -> PaperRow(d)] /\ v6 \in [Tasks -> ChoreRow(d)]
                    /\ v7 \in [Movers -> MoveRow(d)]
                    /\ WorkKnown(d, v3, v4) /\ FileKnown(d, v3, v4) /\ ChoreKnown(d, v4, v6)
                    /\ PaperKnown(d, v3, v5) /\ OneCase(d, v3, v4, v5)
                    /\ MarkedMoved(v1, v7) /\ ClientsLinked(v1, v2) /\ ChoresLinked(v1, v2, v4, v6)
                    /\ AloneMoving(v7) /\ WorksMoved(d, v7, v3) /\ FilesMoved(d, v7, v4)
  OBVIOUS
<1>1. /\ v1 \in [Clients -> ClientRow(d)] /\ v2 \in [Partners -> SUBSET ConsultantsAt[d]]
      /\ v3 \in [RequestsAt[d] -> WorkRow(d)] /\ v4 \in [CasesAt[d] -> FileRow(d)]
      /\ v5 \in [RequestsAt[d] -> PaperRow(d)] /\ v6 \in [Tasks -> ChoreRow(d)]
      /\ v7 \in [Movers -> MoveRow(d)]
  BY DEF LoadOK, Load!TypeOK, ClientRow, WorkRow, FileRow, PaperRow, ChoreRow, MoveRow
<1>2. WorkKnown(d, v3, v4) /\ FileKnown(d, v3, v4) /\ ChoreKnown(d, v4, v6) /\ PaperKnown(d, v3, v5)
  BY DEF LoadOK, Load!WorkInv, Load!Raised, Load!Opened, Load!Given, Load!Asked,
         WorkKnown, FileKnown, ChoreKnown, PaperKnown
<1>3. OneCase(d, v3, v4, v5)
  BY DEF LoadOK, Load!OneCaseInv, Load!Opened, Load!Asked, OneCase
<1>4. MarkedMoved(v1, v7) /\ ClientsLinked(v1, v2)
  BY DEF LoadOK, Load!LinkedInv, Load!Handed, MarkedMoved, ClientsLinked
<1>5. ChoresLinked(v1, v2, v4, v6)
  BY DEF LoadOK, Load!LinkedInv, Load!TasksListed, Load!Given, Load!ClientOfTask, ChoresLinked
<1>6. AloneMoving(v7) /\ FilesMoved(d, v7, v4)
  BY DEF LoadOK, Load!MoveInv, Load!OwnCases, Load!Opened, AloneMoving, FilesMoved
<1>7. WorksMoved(d, v7, v3)
  BY DEF LoadOK, Load!MoveInv, Load!OwnRequests, Load!Raised, WorksMoved
<1> QED BY <1>1, <1>2, <1>3, <1>4, <1>5, <1>6, <1>7

LEMMA LoadKept ==
  ASSUME NEW d, Load(d)!CaseloadAssumption,
         v1' \in [Clients -> ClientRow(d)], v2' \in [Partners -> SUBSET ConsultantsAt[d]],
         v3' \in [RequestsAt[d] -> WorkRow(d)], v4' \in [CasesAt[d] -> FileRow(d)],
         v5' \in [RequestsAt[d] -> PaperRow(d)], v6' \in [Tasks -> ChoreRow(d)],
         v7' \in [Movers -> MoveRow(d)],
         WorkKnown(d, v3', v4'), FileKnown(d, v3', v4'), ChoreKnown(d, v4', v6'),
         PaperKnown(d, v3', v5'), OneCase(d, v3', v4', v5'),
         MarkedMoved(v1', v7'), ClientsLinked(v1', v2'), ChoresLinked(v1', v2', v4', v6'),
         AloneMoving(v7'), WorksMoved(d, v7', v3'), FilesMoved(d, v7', v4')
  PROVE  LoadOK(d)'
<1>1. Load(d)!TypeOK'
  BY DEF Load!TypeOK, ClientRow, WorkRow, FileRow, PaperRow, ChoreRow, MoveRow
<1>2. Load(d)!WorkInv'
  <2>1. \A r \in RequestsAt[d] : v3'[r].case \in CasesAt[d] \cup {Nothing}
    BY DEF WorkRow
  <2> QED BY <2>1 DEF Load!WorkInv, Load!Raised, Load!Opened, Load!Given, Load!Asked,
                      WorkKnown, FileKnown, ChoreKnown, PaperKnown
<1>3. Load(d)!OneCaseInv'
  BY DEF Load!OneCaseInv, Load!Opened, Load!Asked, OneCase
<1>4. Load(d)!LinkedInv'
  BY DEF Load!LinkedInv, Load!Handed, Load!TasksListed, Load!Given, Load!ClientOfTask,
         MarkedMoved, ClientsLinked, ChoresLinked
<1>5. Load(d)!MoveInv'
  BY DEF Load!MoveInv, Load!OwnCases, Load!Opened, Load!OwnRequests, Load!Raised,
         AloneMoving, FilesMoved, WorksMoved
<1> QED BY <1>1, <1>2, <1>3, <1>4, <1>5 DEF LoadOK

LEMMA LoadInit == ASSUME NEW d, Load(d)!CaseloadAssumption, Load(d)!Init PROVE LoadOK(d)
<1>1. Load(d)!AnyConsultant \in ConsultantsAt[d] /\ Nothing \notin CasesAt[d]
  BY DEF Load!CaseloadAssumption, Load!AnyConsultant
<1>2. Load(d)!TypeOK
  <2>1. v1 \in [Clients -> ClientRow(d)]
    BY DEF Load!Init, ClientRow
  <2>2. v2 \in [Partners -> SUBSET ConsultantsAt[d]]
    BY DEF Load!Init
  <2>3. v3 \in [RequestsAt[d] -> WorkRow(d)] /\ v4 \in [CasesAt[d] -> FileRow(d)]
    BY <1>1 DEF Load!Init, WorkRow, FileRow
  <2>4. v5 \in [RequestsAt[d] -> PaperRow(d)] /\ v6 \in [Tasks -> ChoreRow(d)]
        /\ v7 \in [Movers -> MoveRow(d)]
    BY <1>1 DEF Load!Init, PaperRow, ChoreRow, MoveRow
  <2> QED BY <2>1, <2>2, <2>3, <2>4
          DEF Load!TypeOK, ClientRow, WorkRow, FileRow, PaperRow, ChoreRow, MoveRow
<1>3. /\ \A r \in RequestsAt[d] : v3[r].status = "none" /\ v3[r].case = Nothing /\ v5[r].status = "none"
      /\ \A x \in CasesAt[d] : v4[x].stage = "none"
      /\ \A t \in Tasks : v6[t].status = "none"
      /\ \A c \in Movers : v7[c].pc = "idle"
      /\ \A k \in Clients : v1[k].partner = Nobody
      /\ Nobody \notin Partners
  BY DEF Load!Init, Load!CaseloadAssumption
<1>4. Load(d)!WorkInv /\ Load(d)!OneCaseInv
  BY <1>3 DEF Load!WorkInv, Load!OneCaseInv, Load!Raised, Load!Opened, Load!Given, Load!Asked
<1>5. Load(d)!LinkedInv
  BY <1>3 DEF Load!LinkedInv, Load!Handed, Load!TasksListed, Load!Given
<1>6. Load(d)!MoveInv
  BY <1>3 DEF Load!MoveInv
<1> QED BY <1>2, <1>4, <1>5, <1>6 DEF LoadOK

\* With a move alone, whatever else runs finds none in flight and starts none.
LEMMA LoadQuiet ==
  ASSUME NEW d, Load(d)!CaseloadAssumption, LoadOK(d), Load(d)!Free, UNCHANGED v7,
         v1' \in [Clients -> ClientRow(d)], v2' \in [Partners -> SUBSET ConsultantsAt[d]],
         v3' \in [RequestsAt[d] -> WorkRow(d)], v4' \in [CasesAt[d] -> FileRow(d)],
         v5' \in [RequestsAt[d] -> PaperRow(d)], v6' \in [Tasks -> ChoreRow(d)],
         WorkKnown(d, v3', v4'), FileKnown(d, v3', v4'), ChoreKnown(d, v4', v6'),
         PaperKnown(d, v3', v5'), OneCase(d, v3', v4', v5'),
         ClientsLinked(v1', v2'), ChoresLinked(v1', v2', v4', v6')
  PROVE  LoadOK(d)'
<1>1. v7' \in [Movers -> MoveRow(d)]
  BY LoadFacts
<1>2. \A c \in Movers : v7'[c].pc = "idle"
  BY DEF Load!Free, Load!Quiet
<1>3. MarkedMoved(v1', v7') /\ AloneMoving(v7') /\ WorksMoved(d, v7', v3') /\ FilesMoved(d, v7', v4')
  BY <1>2 DEF MarkedMoved, AloneMoving, WorksMoved, FilesMoved
<1> QED BY <1>1, <1>3, LoadKept

LEMMA LoadRaise ==
  ASSUME NEW d, Load(d)!CaseloadAssumption, LoadOK(d),
         NEW r \in RequestsAt[d], NEW k \in Clients, NEW s \in ConsultantsAt[d],
         Load(d)!RaiseRequest(r, k, s)
  PROVE  LoadOK(d)'
<1>1. /\ v1 \in [Clients -> ClientRow(d)] /\ v2 \in [Partners -> SUBSET ConsultantsAt[d]]
      /\ v3 \in [RequestsAt[d] -> WorkRow(d)] /\ v4 \in [CasesAt[d] -> FileRow(d)]
      /\ v5 \in [RequestsAt[d] -> PaperRow(d)] /\ v6 \in [Tasks -> ChoreRow(d)]
      /\ WorkKnown(d, v3, v4) /\ FileKnown(d, v3, v4) /\ ChoreKnown(d, v4, v6)
      /\ PaperKnown(d, v3, v5) /\ OneCase(d, v3, v4, v5)
      /\ ClientsLinked(v1, v2) /\ ChoresLinked(v1, v2, v4, v6)
  BY LoadFacts
<1> DEFINE row == [status |-> "open", case |-> Nothing, client |-> k, consultant |-> s]
<1>2. v3' = [v3 EXCEPT ![r] = row] /\ v3[r].status = "none" /\ UNCHANGED <<v1, v2, v4, v5, v6, v7>>
      /\ Load(d)!Free
  BY DEF Load!RaiseRequest
<1>3. row \in WorkRow(d) /\ row.status = "open" /\ row.case = Nothing /\ row.client = k
  BY DEF WorkRow
<1> HIDE DEF row
<1>4. v3' \in [RequestsAt[d] -> WorkRow(d)] /\ v3'[r] = row /\ \A q \in RequestsAt[d] \ {r} : v3'[q] = v3[q]
  BY <1>1, <1>2, <1>3
<1>5. WorkKnown(d, v3', v4')
  BY <1>1, <1>2, <1>3, <1>4 DEF WorkKnown
<1>6. FileKnown(d, v3', v4') /\ PaperKnown(d, v3', v5')
  BY <1>1, <1>2, <1>3, <1>4 DEF FileKnown, PaperKnown
<1>7. OneCase(d, v3', v4', v5')
  BY <1>1, <1>2, <1>4 DEF OneCase, FileKnown, PaperKnown
<1> QED BY <1>1, <1>2, <1>4, <1>5, <1>6, <1>7, LoadQuiet

LEMMA LoadAsk ==
  ASSUME NEW d, Load(d)!CaseloadAssumption, LoadOK(d), NEW r \in RequestsAt[d],
         Load(d)!Ask(r) \/ \E s \in {"wanted", "held", "approved"} : Load(d)!Handle(r, s)
  PROVE  LoadOK(d)'
<1>1. /\ v1 \in [Clients -> ClientRow(d)] /\ v2 \in [Partners -> SUBSET ConsultantsAt[d]]
      /\ v3 \in [RequestsAt[d] -> WorkRow(d)] /\ v4 \in [CasesAt[d] -> FileRow(d)]
      /\ v5 \in [RequestsAt[d] -> PaperRow(d)] /\ v6 \in [Tasks -> ChoreRow(d)]
      /\ WorkKnown(d, v3, v4) /\ FileKnown(d, v3, v4) /\ ChoreKnown(d, v4, v6)
      /\ PaperKnown(d, v3, v5) /\ OneCase(d, v3, v4, v5)
      /\ ClientsLinked(v1, v2) /\ ChoresLinked(v1, v2, v4, v6)
  BY LoadFacts
<1>2. UNCHANGED <<v1, v2, v4, v6, v7>> /\ Load(d)!Free
  BY DEF Load!Ask, Load!Handle
<1>3. /\ v3' \in [RequestsAt[d] -> WorkRow(d)]
      /\ \A q \in RequestsAt[d] : /\ v3'[q].case = v3[q].case /\ v3'[q].client = v3[q].client
                                  /\ v3'[q].status = "none" <=> v3[q].status = "none"
  <2>1. CASE Load(d)!Ask(r)
    <3> DEFINE row == [v3[r] EXCEPT !.status = "open"]
    <3>1. v3[r] \in WorkRow(d) /\ v3[r].status # "none"
      BY <1>1, <2>1 DEF Load!Ask, Load!Raised
    <3>2. row \in WorkRow(d) /\ row.status = "open" /\ row.case = v3[r].case /\ row.client = v3[r].client
      BY <3>1 DEF WorkRow
    <3>3. v3' = [v3 EXCEPT ![r] = row]
      BY <1>1, <2>1 DEF Load!Ask
    <3> HIDE DEF row
    <3> QED BY <1>1, <3>1, <3>2, <3>3
  <2>2. CASE UNCHANGED v3
    BY <1>1, <2>2
  <2> QED BY <2>1, <2>2 DEF Load!Handle
<1>4. /\ v5' \in [RequestsAt[d] -> PaperRow(d)]
      /\ \A q \in RequestsAt[d] : v5'[q].status # "none" =>
           /\ v3[q].status # "none"
           /\ v5'[q].case = v3[q].case \/ (v5[q].status # "none" /\ v5'[q].case = v5[q].case)
  <2>1. CASE Load(d)!Ask(r)
    <3> DEFINE row == [status |-> "wanted", case |-> v3[r].case, consultant |-> v3[r].consultant]
    <3>1. v3[r] \in WorkRow(d) /\ v3[r].status # "none"
      BY <1>1, <2>1 DEF Load!Ask, Load!Raised
    <3>2. row \in PaperRow(d) /\ row.case = v3[r].case
      BY <3>1 DEF WorkRow, PaperRow
    <3>3. v5' = [v5 EXCEPT ![r] = row]
      BY <2>1 DEF Load!Ask
    <3> HIDE DEF row
    <3> QED BY <1>1, <3>1, <3>2, <3>3 DEF PaperKnown
  <2>2. ASSUME NEW s \in {"wanted", "held", "approved"}, Load(d)!Handle(r, s)
        PROVE  /\ v5' \in [RequestsAt[d] -> PaperRow(d)]
               /\ \A q \in RequestsAt[d] : v5'[q].status # "none" =>
                    v5[q].status # "none" /\ v5'[q].case = v5[q].case
    <3> DEFINE row == [v5[r] EXCEPT !.status = s]
    <3>1. v5[r] \in PaperRow(d) /\ v5[r].status # "none"
      BY <1>1, <2>2 DEF Load!Handle, Load!Asked
    <3>2. row \in PaperRow(d) /\ row.case = v5[r].case
      BY <3>1 DEF PaperRow
    <3>3. v5' = [v5 EXCEPT ![r] = row]
      BY <1>1, <2>2 DEF Load!Handle
    <3> HIDE DEF row
    <3> QED BY <1>1, <3>1, <3>2, <3>3
  <2> QED BY <1>1, <2>1, <2>2 DEF PaperKnown
<1>5. WorkKnown(d, v3', v4') /\ FileKnown(d, v3', v4') /\ PaperKnown(d, v3', v5')
  <2>1. WorkKnown(d, v3', v4')
    BY <1>1, <1>2, <1>3 DEF WorkKnown
  <2>2. FileKnown(d, v3', v4')
    BY <1>1, <1>2, <1>3 DEF FileKnown
  <2>3. PaperKnown(d, v3', v5')
    BY <1>1, <1>3, <1>4 DEF PaperKnown
  <2> QED BY <2>1, <2>2, <2>3
<1>6. OneCase(d, v3', v4', v5')
  BY <1>1, <1>2, <1>3, <1>4 DEF OneCase, FileKnown
<1> QED BY <1>1, <1>2, <1>3, <1>4, <1>5, <1>6, LoadQuiet

LEMMA LoadNewCase ==
  ASSUME NEW d, Load(d)!CaseloadAssumption, LoadOK(d), NEW r \in RequestsAt[d], NEW x \in CasesAt[d],
         Load(d)!OpenCase(x, r) \/ Load(d)!CompleteConsultation(x, r) \/ Load(d)!CreateCase(x, r)
  PROVE  LoadOK(d)'
<1>1. /\ v1 \in [Clients -> ClientRow(d)] /\ v2 \in [Partners -> SUBSET ConsultantsAt[d]]
      /\ v3 \in [RequestsAt[d] -> WorkRow(d)] /\ v4 \in [CasesAt[d] -> FileRow(d)]
      /\ v5 \in [RequestsAt[d] -> PaperRow(d)] /\ v6 \in [Tasks -> ChoreRow(d)]
      /\ WorkKnown(d, v3, v4) /\ FileKnown(d, v3, v4) /\ ChoreKnown(d, v4, v6)
      /\ PaperKnown(d, v3, v5) /\ OneCase(d, v3, v4, v5)
      /\ ClientsLinked(v1, v2) /\ ChoresLinked(v1, v2, v4, v6)
  BY LoadFacts
<1>2. /\ UNCHANGED <<v1, v2, v6, v7>> /\ Load(d)!Free
      /\ v4[x].stage = "none" /\ v3[r].status # "none" /\ v3[r].client \in Clients
      /\ v3[r] \in WorkRow(d) /\ v5[r] \in PaperRow(d)
  BY <1>1 DEF Load!OpenCase, Load!CompleteConsultation, Load!CreateCase, Load!Raised, WorkKnown
<1>3. PICK s \in ConsultantsAt[d] : Load(d)!NewCase(x, r, v3[r].client, s)
  <2>1. v3[r].consultant \in ConsultantsAt[d] /\ v1[v3[r].client].consultant \in ConsultantsAt[d]
    BY <1>1, <1>2 DEF WorkRow, ClientRow
  <2> QED BY <2>1 DEF Load!OpenCase, Load!CompleteConsultation, Load!CreateCase
<1> DEFINE row == [stage |-> "open", client |-> v3[r].client, request |-> r, consultant |-> s]
<1>4. row \in FileRow(d) /\ row.stage = "open" /\ row.client = v3[r].client /\ row.request = r
  BY <1>2 DEF FileRow
<1>5. v4' = [v4 EXCEPT ![x] = row]
  BY <1>3 DEF Load!NewCase
<1> HIDE DEF row
<1>6. /\ v4' \in [CasesAt[d] -> FileRow(d)] /\ v4'[x] = row
      /\ \A y \in CasesAt[d] \ {x} : v4'[y] = v4[y]
  BY <1>1, <1>4, <1>5
<1>7. /\ v3' \in [RequestsAt[d] -> WorkRow(d)]
      /\ \A q \in RequestsAt[d] : /\ v3'[q].client = v3[q].client
                                  /\ v3'[q].status = "none" <=> v3[q].status = "none"
                                  /\ q # r => v3'[q].case = v3[q].case
      /\ v3'[r].case \in {x, v3[r].case}
      /\ "create" \notin DoorsAt[d] => v3'[r].case = x /\ v3[r].case = Nothing
  <2>1. PICK st \in {"open", "completed", v3[r].status}, y \in {x, v3[r].case} :
          /\ v3' = [v3 EXCEPT ![r].case = y, ![r].status = st]
          /\ "create" \notin DoorsAt[d] => y = x /\ v3[r].case = Nothing
    <3>1. CASE Load(d)!OpenCase(x, r)
      <4>1. v3' = [v3 EXCEPT ![r].case = x, ![r].status = v3[r].status] /\ v3[r].case = Nothing
        BY <1>1, <1>2, <3>1 DEF Load!OpenCase, WorkRow
      <4> QED BY <4>1
    <3>2. CASE Load(d)!CompleteConsultation(x, r)
      BY <3>2 DEF Load!CompleteConsultation
    <3>3. CASE Load(d)!CreateCase(x, r)
      <4> DEFINE y == IF v3[r].case = Nothing THEN x ELSE v3[r].case
      <4>1. v3' = [v3 EXCEPT ![r].case = y, ![r].status = v3[r].status] /\ "create" \in DoorsAt[d]
        BY <1>1, <1>2, <3>3 DEF Load!CreateCase, WorkRow
      <4> QED BY <4>1
    <3> QED BY <3>1, <3>2, <3>3
  <2> DEFINE work == [v3[r] EXCEPT !.case = y, !.status = st]
  <2>2. /\ work \in WorkRow(d) /\ work.case = y /\ work.client = v3[r].client /\ work.status # "none"
    BY <1>2 DEF WorkRow
  <2>3. v3' = [v3 EXCEPT ![r] = work]
    BY <1>1, <2>1
  <2> HIDE DEF work
  <2> QED BY <1>1, <1>2, <2>1, <2>2, <2>3
<1>8. /\ v5' \in [RequestsAt[d] -> PaperRow(d)]
      /\ \A q \in RequestsAt[d] : /\ v5'[q].status = v5[q].status
                                  /\ q # r => v5'[q].case = v5[q].case
      /\ v5[r].status # "none" => v5'[r].case = x
  <2> DEFINE y == IF v5[r].status # "none" THEN x ELSE v5[r].case
  <2> DEFINE paper == [v5[r] EXCEPT !.case = y]
  <2>1. Load(d)!Stamp(r, x)
    BY DEF Load!OpenCase, Load!CompleteConsultation, Load!CreateCase
  <2>2. /\ paper \in PaperRow(d) /\ paper.status = v5[r].status
        /\ v5[r].status # "none" => paper.case = x
    BY <1>2 DEF PaperRow
  <2>3. v5' = [v5 EXCEPT ![r] = paper]
    BY <1>1, <2>1 DEF Load!Stamp, Load!Asked
  <2> HIDE DEF paper
  <2> QED BY <1>1, <2>2, <2>3
<1>9. WorkKnown(d, v3', v4')
  <2> SUFFICES ASSUME NEW q \in RequestsAt[d]
               PROVE  /\ v3'[q].status # "none" => v3'[q].client \in Clients
                      /\ v3'[q].case # Nothing => v3'[q].case \in CasesAt[d] /\ v4'[v3'[q].case].stage # "none"
    BY DEF WorkKnown
  <2>1. v3'[q].case \in {x, v3[q].case}
    BY <1>7
  <2>2. v4'[x].stage # "none" /\ \A y \in CasesAt[d] : v4[y].stage # "none" => v4'[y].stage # "none"
    BY <1>4, <1>6
  <2> QED BY <1>1, <1>7, <2>1, <2>2 DEF WorkKnown
<1>10. FileKnown(d, v3', v4') /\ PaperKnown(d, v3', v5')
  <2>1. ASSUME NEW y \in CasesAt[d], v4'[y].stage # "none"
        PROVE  v4'[y].client \in Clients /\ v4'[y].request \in RequestsAt[d]
               /\ v3'[v4'[y].request].status # "none"
    <3>1. CASE y = x
      BY <1>2, <1>4, <1>6, <1>7, <3>1
    <3>2. CASE y # x
      BY <1>1, <1>6, <1>7, <2>1, <3>2 DEF FileKnown
    <3> QED BY <3>1, <3>2
  <2>2. PaperKnown(d, v3', v5')
    BY <1>1, <1>7, <1>8 DEF PaperKnown
  <2> QED BY <2>1, <2>2 DEF FileKnown
<1>11. ChoreKnown(d, v4', v6')
  BY <1>1, <1>2, <1>4, <1>6 DEF ChoreKnown
<1>12. OneCase(d, v3', v4', v5')
  <2> SUFFICES ASSUME "create" \notin DoorsAt[d]
               PROVE  /\ \A y \in CasesAt[d] : v4'[y].stage # "none" => v3'[v4'[y].request].case = y
                      /\ \A q \in RequestsAt[d] : v5'[q].status # "none" => v5'[q].case = v3'[q].case
    BY DEF OneCase
  <2>1. ASSUME NEW y \in CasesAt[d], v4'[y].stage # "none" PROVE v3'[v4'[y].request].case = y
    <3>1. CASE y = x
      BY <1>4, <1>6, <1>7, <3>1
    <3>2. CASE y # x
      <4>1. v4'[y] = v4[y] /\ v3[v4[y].request].case = y /\ v4[y].request \in RequestsAt[d]
        BY <1>1, <1>6, <2>1, <3>2 DEF OneCase, FileKnown
      <4>2. v4[y].request # r
        BY <1>7, <4>1 DEF Load!CaseloadAssumption
      <4> QED BY <1>7, <4>1, <4>2
    <3> QED BY <3>1, <3>2
  <2>2. ASSUME NEW q \in RequestsAt[d], v5'[q].status # "none" PROVE v5'[q].case = v3'[q].case
    BY <1>1, <1>7, <1>8, <2>2 DEF OneCase
  <2> QED BY <2>1, <2>2
<1>13. ClientsLinked(v1', v2')
  BY <1>1, <1>2
<1>14. ChoresLinked(v1', v2', v4', v6')
  <2> SUFFICES ASSUME NEW p \in Partners, NEW t \in Tasks, v6[t].status # "none", v6[t].assignee = p,
                      ~v1[v4'[v6[t].case].client].moved
               PROVE  v6[t].consultant \in v2[p]
    BY <1>2 DEF ChoresLinked
  <2>1. v4'[v6[t].case] = v4[v6[t].case]
    BY <1>1, <1>2, <1>6 DEF ChoreKnown
  <2> QED BY <1>1, <2>1 DEF ChoresLinked
<1> QED BY <1>1, <1>2, <1>6, <1>7, <1>8, <1>9, <1>10, <1>11, <1>12, <1>13, <1>14, LoadQuiet

LEMMA LoadAdvance ==
  ASSUME NEW d, Load(d)!CaseloadAssumption, LoadOK(d), NEW x \in CasesAt[d],
         NEW s \in {"open", "completed"}, Load(d)!Advance(x, s)
  PROVE  LoadOK(d)'
<1>1. /\ v1 \in [Clients -> ClientRow(d)] /\ v2 \in [Partners -> SUBSET ConsultantsAt[d]]
      /\ v3 \in [RequestsAt[d] -> WorkRow(d)] /\ v4 \in [CasesAt[d] -> FileRow(d)]
      /\ v5 \in [RequestsAt[d] -> PaperRow(d)] /\ v6 \in [Tasks -> ChoreRow(d)]
      /\ WorkKnown(d, v3, v4) /\ FileKnown(d, v3, v4) /\ ChoreKnown(d, v4, v6)
      /\ PaperKnown(d, v3, v5) /\ OneCase(d, v3, v4, v5)
      /\ ClientsLinked(v1, v2) /\ ChoresLinked(v1, v2, v4, v6)
  BY LoadFacts
<1>2. v4' = [v4 EXCEPT ![x].stage = s] /\ v4[x].stage # "none" /\ UNCHANGED <<v1, v2, v3, v5, v6, v7>>
      /\ Load(d)!Free
  BY DEF Load!Advance, Load!Opened
<1>3. /\ v4' \in [CasesAt[d] -> FileRow(d)]
      /\ \A y \in CasesAt[d] : /\ v4'[y].stage = "none" <=> v4[y].stage = "none"
                               /\ v4'[y].client = v4[y].client /\ v4'[y].request = v4[y].request
  <2> DEFINE row == [v4[x] EXCEPT !.stage = s]
  <2>1. row \in FileRow(d) /\ row.stage # "none" /\ row.client = v4[x].client /\ row.request = v4[x].request
    BY <1>1 DEF FileRow
  <2>2. v4' = [v4 EXCEPT ![x] = row]
    BY <1>1, <1>2
  <2> HIDE DEF row
  <2> QED BY <1>1, <1>2, <2>1, <2>2
<1>4. WorkKnown(d, v3', v4')
  BY <1>1, <1>2, <1>3 DEF WorkKnown
<1>5. FileKnown(d, v3', v4')
  BY <1>1, <1>2, <1>3 DEF FileKnown
<1>6. ChoreKnown(d, v4', v6')
  BY <1>1, <1>2, <1>3 DEF ChoreKnown
<1>7. OneCase(d, v3', v4', v5')
  BY <1>1, <1>2, <1>3 DEF OneCase
<1>8. ChoresLinked(v1', v2', v4', v6')
  BY <1>1, <1>2, <1>3 DEF ChoresLinked, ChoreKnown
<1> QED BY <1>1, <1>2, <1>3, <1>4, <1>5, <1>6, <1>7, <1>8, LoadQuiet

LEMMA LoadTask ==
  ASSUME NEW d, Load(d)!CaseloadAssumption, LoadOK(d), NEW t \in Tasks,
         \/ \E s \in Load(d)!TaskStates : Load(d)!SetTask(t, s)
         \/ \E x \in CasesAt[d], p \in Partners : Load(d)!Delegate(t, x, p)
  PROVE  LoadOK(d)'
<1>1. /\ v1 \in [Clients -> ClientRow(d)] /\ v2 \in [Partners -> SUBSET ConsultantsAt[d]]
      /\ v3 \in [RequestsAt[d] -> WorkRow(d)] /\ v4 \in [CasesAt[d] -> FileRow(d)]
      /\ v5 \in [RequestsAt[d] -> PaperRow(d)] /\ v6 \in [Tasks -> ChoreRow(d)]
      /\ WorkKnown(d, v3, v4) /\ FileKnown(d, v3, v4) /\ ChoreKnown(d, v4, v6)
      /\ PaperKnown(d, v3, v5) /\ OneCase(d, v3, v4, v5)
      /\ ClientsLinked(v1, v2) /\ ChoresLinked(v1, v2, v4, v6)
  BY LoadFacts
<1>2. ASSUME NEW s \in Load(d)!TaskStates, Load(d)!SetTask(t, s) PROVE LoadOK(d)'
  <2>1. v6' = [v6 EXCEPT ![t].status = s] /\ v6[t].status # "none" /\ UNCHANGED <<v1, v2, v3, v4, v5, v7>>
        /\ Load(d)!Free
    BY <1>2 DEF Load!SetTask, Load!Given
  <2> DEFINE row == [v6[t] EXCEPT !.status = s]
  <2>2. row \in ChoreRow(d) /\ row.case = v6[t].case /\ row.assignee = v6[t].assignee
        /\ row.consultant = v6[t].consultant
    BY <1>1 DEF ChoreRow
  <2>3. v6' = [v6 EXCEPT ![t] = row]
    BY <1>1, <2>1
  <2> HIDE DEF row
  <2>4. /\ v6' \in [Tasks -> ChoreRow(d)]
        /\ \A u \in Tasks : /\ v6'[u].status # "none" => v6[u].status # "none"
                            /\ v6'[u].case = v6[u].case /\ v6'[u].assignee = v6[u].assignee
                            /\ v6'[u].consultant = v6[u].consultant
    BY <1>1, <2>1, <2>2, <2>3
  <2>5. ChoreKnown(d, v4', v6')
    BY <1>1, <2>1, <2>4 DEF ChoreKnown
  <2>6. ChoresLinked(v1', v2', v4', v6')
    BY <1>1, <2>1, <2>4 DEF ChoresLinked
  <2> QED BY <1>1, <2>1, <2>4, <2>5, <2>6, LoadQuiet
<1>3. ASSUME NEW x \in CasesAt[d], NEW p \in Partners, Load(d)!Delegate(t, x, p) PROVE LoadOK(d)'
  <2> DEFINE s == v4[x].consultant
  <2> DEFINE row == [status |-> "open", case |-> x, assignee |-> p, consultant |-> s]
  <2>1. /\ v6' = [v6 EXCEPT ![t] = row] /\ v2' = [v2 EXCEPT ![p] = @ \cup {s}]
        /\ v4[x].stage # "none" /\ UNCHANGED <<v1, v3, v4, v5, v7>> /\ Load(d)!Free
    BY <1>3 DEF Load!Delegate, Load!Linked, Load!Opened
  <2>2. s \in ConsultantsAt[d]
    BY <1>1 DEF FileRow
  <2>3. row \in ChoreRow(d) /\ row.case = x /\ row.assignee = p /\ row.consultant = s
    BY <2>2 DEF ChoreRow, Load!TaskStates
  <2> HIDE DEF row, s
  <2>4. v6' \in [Tasks -> ChoreRow(d)] /\ v6'[t] = row /\ \A u \in Tasks \ {t} : v6'[u] = v6[u]
    BY <1>1, <2>1, <2>3
  <2>5. /\ v2' \in [Partners -> SUBSET ConsultantsAt[d]] /\ s \in v2'[p]
        /\ \A q \in Partners : v2[q] \subseteq v2'[q]
    BY <1>1, <2>1, <2>2
  <2>6. ChoreKnown(d, v4', v6')
    BY <1>1, <2>1, <2>3, <2>4 DEF ChoreKnown
  <2>7. ClientsLinked(v1', v2')
    BY <1>1, <2>1, <2>5 DEF ClientsLinked
  <2>8. ChoresLinked(v1', v2', v4', v6')
    <3> SUFFICES ASSUME NEW q \in Partners, NEW u \in Tasks, v6'[u].status # "none", v6'[u].assignee = q,
                        ~v1[v4[v6'[u].case].client].moved
                 PROVE  v6'[u].consultant \in v2'[q]
      BY <2>1 DEF ChoresLinked
    <3>1. CASE u = t
      BY <2>3, <2>4, <2>5, <3>1
    <3>2. CASE u # t
      BY <1>1, <2>4, <2>5, <3>2 DEF ChoresLinked
    <3> QED BY <3>1, <3>2
  <2> QED BY <1>1, <2>1, <2>4, <2>5, <2>6, <2>7, <2>8, LoadQuiet
<1> QED BY <1>2, <1>3

LEMMA LoadHand ==
  ASSUME NEW d, Load(d)!CaseloadAssumption, LoadOK(d), NEW k \in Clients,
         Load(d)!Unhand(k) \/ \E p \in Partners : Load(d)!Hand(k, p)
  PROVE  LoadOK(d)'
<1>1. /\ v1 \in [Clients -> ClientRow(d)] /\ v2 \in [Partners -> SUBSET ConsultantsAt[d]]
      /\ v3 \in [RequestsAt[d] -> WorkRow(d)] /\ v4 \in [CasesAt[d] -> FileRow(d)]
      /\ v5 \in [RequestsAt[d] -> PaperRow(d)] /\ v6 \in [Tasks -> ChoreRow(d)]
      /\ WorkKnown(d, v3, v4) /\ FileKnown(d, v3, v4) /\ ChoreKnown(d, v4, v6)
      /\ PaperKnown(d, v3, v5) /\ OneCase(d, v3, v4, v5)
      /\ ClientsLinked(v1, v2) /\ ChoresLinked(v1, v2, v4, v6)
  BY LoadFacts
<1>2. UNCHANGED <<v3, v4, v5, v6, v7>> /\ Load(d)!Free
  BY DEF Load!Unhand, Load!Hand
<1>3. PICK p \in Partners \cup {Nobody} : v1' = [v1 EXCEPT ![k].partner = p]
  BY DEF Load!Unhand, Load!Hand
<1>4. /\ v1' \in [Clients -> ClientRow(d)]
      /\ \A j \in Clients : /\ v1'[j].consultant = v1[j].consultant /\ v1'[j].moved = v1[j].moved
                            /\ j # k => v1'[j].partner = v1[j].partner
      /\ v1'[k].partner = p
  <2> DEFINE row == [v1[k] EXCEPT !.partner = p]
  <2>1. row \in ClientRow(d) /\ row.consultant = v1[k].consultant /\ row.moved = v1[k].moved /\ row.partner = p
    BY <1>1 DEF ClientRow
  <2>2. v1' = [v1 EXCEPT ![k] = row]
    BY <1>1, <1>3
  <2> HIDE DEF row
  <2> QED BY <1>1, <2>1, <2>2
<1>5. /\ v2' \in [Partners -> SUBSET ConsultantsAt[d]]
      /\ \A q \in Partners : v2[q] \subseteq v2'[q]
      /\ p \in Partners => v1[k].consultant \in v2'[p]
  <2>1. CASE Load(d)!Unhand(k)
    <3>1. p = Nobody
      <4>1. v1'[k].partner = Nobody
        BY <1>1, <2>1 DEF Load!Unhand, ClientRow
      <4> QED BY <1>4, <4>1
    <3>2. Nobody \notin Partners
      BY DEF Load!CaseloadAssumption
    <3> QED BY <1>1, <2>1, <3>1, <3>2 DEF Load!Unhand
  <2>2. ASSUME NEW q \in Partners, Load(d)!Hand(k, q)
        PROVE  /\ v2' \in [Partners -> SUBSET ConsultantsAt[d]]
               /\ \A o \in Partners : v2[o] \subseteq v2'[o]
               /\ p \in Partners => v1[k].consultant \in v2'[p]
    <3>1. v1'[k].partner = q
      BY <1>1, <2>2 DEF Load!Hand, ClientRow
    <3>2. p = q
      BY <1>4, <3>1
    <3>3. v2' = [v2 EXCEPT ![p] = @ \cup {v1[k].consultant}] /\ v1[k].consultant \in ConsultantsAt[d]
      BY <1>1, <2>2, <3>2 DEF Load!Hand, Load!Linked, ClientRow
    <3> QED BY <1>1, <2>2, <3>2, <3>3
  <2> QED BY <2>1, <2>2
<1>6. ClientsLinked(v1', v2')
  <2> SUFFICES ASSUME NEW q \in Partners, NEW j \in Clients, v1'[j].partner = q, ~v1'[j].moved
               PROVE  v1'[j].consultant \in v2'[q]
    BY DEF ClientsLinked
  <2>1. CASE j = k
    BY <1>4, <1>5, <2>1
  <2>2. CASE j # k
    BY <1>1, <1>4, <1>5, <2>2 DEF ClientsLinked
  <2> QED BY <2>1, <2>2
<1>7. ChoresLinked(v1', v2', v4', v6')
  <2> SUFFICES ASSUME NEW q \in Partners, NEW t \in Tasks, v6[t].status # "none", v6[t].assignee = q,
                      ~v1'[v4[v6[t].case].client].moved
               PROVE  v6[t].consultant \in v2'[q]
    BY <1>2 DEF ChoresLinked
  <2>1. v4[v6[t].case].client \in Clients
    BY <1>1 DEF ChoreKnown, FileKnown
  <2> QED BY <1>1, <1>4, <1>5, <2>1 DEF ChoresLinked
<1> QED BY <1>1, <1>2, <1>4, <1>5, <1>6, <1>7, LoadQuiet

LEMMA LoadMoveStart ==
  ASSUME NEW d, Load(d)!CaseloadAssumption, LoadOK(d), NEW c \in Movers, NEW k \in Clients,
         NEW s \in ConsultantsAt[d], NEW w \in BOOLEAN, Load(d)!MoveStart(c, k, s, w)
  PROVE  LoadOK(d)'
<1>1. /\ v1 \in [Clients -> ClientRow(d)] /\ v2 \in [Partners -> SUBSET ConsultantsAt[d]]
      /\ v3 \in [RequestsAt[d] -> WorkRow(d)] /\ v4 \in [CasesAt[d] -> FileRow(d)]
      /\ v5 \in [RequestsAt[d] -> PaperRow(d)] /\ v6 \in [Tasks -> ChoreRow(d)]
      /\ v7 \in [Movers -> MoveRow(d)]
      /\ WorkKnown(d, v3, v4) /\ FileKnown(d, v3, v4) /\ ChoreKnown(d, v4, v6)
      /\ PaperKnown(d, v3, v5) /\ OneCase(d, v3, v4, v5)
      /\ ClientsLinked(v1, v2) /\ ChoresLinked(v1, v2, v4, v6)
  BY LoadFacts
<1>2. /\ v1' = [v1 EXCEPT ![k].consultant = s, ![k].moved = TRUE]
      /\ UNCHANGED <<v2, v3, v4, v5, v6>> /\ \A o \in Movers : v7[o].pc = "idle"
  BY DEF Load!MoveStart, Load!Free, Load!Quiet
<1>3. PICK pc \in {"idle", "mv_requests"} : v7' = [v7 EXCEPT ![c] = [pc |-> pc, client |-> k, to |-> s]]
  BY DEF Load!MoveStart
<1> DEFINE rec == [pc |-> pc, client |-> k, to |-> s]
<1>4. rec \in MoveRow(d) /\ rec.pc = pc /\ rec.client = k
  BY DEF MoveRow
<1> HIDE DEF rec
<1>5. v7' \in [Movers -> MoveRow(d)] /\ v7'[c] = rec /\ \A o \in Movers \ {c} : v7'[o].pc = "idle"
  BY <1>1, <1>2, <1>3, <1>4 DEF rec
<1>6. /\ v1' \in [Clients -> ClientRow(d)] /\ v1'[k].moved = TRUE
      /\ \A j \in Clients \ {k} : v1'[j] = v1[j]
  <2> DEFINE row == [v1[k] EXCEPT !.consultant = s, !.moved = TRUE]
  <2>1. row \in ClientRow(d) /\ row.moved = TRUE
    BY <1>1 DEF ClientRow
  <2>2. v1' = [v1 EXCEPT ![k] = row]
    BY <1>1, <1>2
  <2> HIDE DEF row
  <2> QED BY <1>1, <2>1, <2>2
<1>7. MarkedMoved(v1', v7') /\ AloneMoving(v7')
  BY <1>4, <1>5, <1>6 DEF MarkedMoved, AloneMoving
<1>8. WorksMoved(d, v7', v3') /\ FilesMoved(d, v7', v4')
  BY <1>4, <1>5 DEF WorksMoved, FilesMoved
<1>9. ClientsLinked(v1', v2')
  BY <1>1, <1>2, <1>6 DEF ClientsLinked
<1>10. ChoresLinked(v1', v2', v4', v6')
  <2> SUFFICES ASSUME NEW q \in Partners, NEW t \in Tasks, v6[t].status # "none", v6[t].assignee = q,
                      ~v1'[v4[v6[t].case].client].moved
               PROVE  v6[t].consultant \in v2[q]
    BY <1>2 DEF ChoresLinked
  <2>1. v4[v6[t].case].client \in Clients \ {k}
    BY <1>1, <1>6 DEF ChoreKnown, FileKnown
  <2> QED BY <1>1, <1>6, <2>1 DEF ChoresLinked
<1> QED BY <1>1, <1>2, <1>5, <1>6, <1>7, <1>8, <1>9, <1>10, LoadKept

\* A move goes on: it runs alone, and its client was marked.
LEMMA LoadGo ==
  ASSUME NEW d, LoadOK(d), NEW c \in Movers, v7[c].pc # "idle",
         NEW pc \in {"idle", "mv_cases", "mv_documents", "mv_tasks"}, Load(d)!Goto(c, pc)
  PROVE  /\ v7' \in [Movers -> MoveRow(d)] /\ v7'[c].pc = pc /\ v7'[c].client = v7[c].client
         /\ v7'[c].to = v7[c].to /\ v7[c].to \in ConsultantsAt[d] /\ v7[c].client \in Clients
         /\ v1[v7[c].client].moved /\ \A o \in Movers \ {c} : v7'[o].pc = "idle"
         /\ v1' = v1 => MarkedMoved(v1', v7') /\ AloneMoving(v7')
<1>1. v7 \in [Movers -> MoveRow(d)] /\ MarkedMoved(v1, v7) /\ AloneMoving(v7)
  BY LoadFacts
<1> DEFINE rec == [v7[c] EXCEPT !.pc = pc]
<1>2. rec \in MoveRow(d) /\ rec.pc = pc /\ rec.client = v7[c].client /\ rec.to = v7[c].to
      /\ v7[c].to \in ConsultantsAt[d]
  BY <1>1 DEF MoveRow
<1>3. v7' = [v7 EXCEPT ![c] = rec]
  BY <1>1 DEF Load!Goto
<1> HIDE DEF rec
<1>4. v7' \in [Movers -> MoveRow(d)] /\ v7'[c] = rec /\ \A o \in Movers \ {c} : v7'[o] = v7[o]
  BY <1>1, <1>2, <1>3
<1>5. v7[c].client \in Clients /\ v1[v7[c].client].moved
  BY <1>1 DEF MarkedMoved
<1>6. \A o \in Movers \ {c} : v7'[o].pc = "idle"
  BY <1>1, <1>4 DEF AloneMoving
<1>7. v1' = v1 => MarkedMoved(v1', v7')
  BY <1>2, <1>4, <1>5, <1>6 DEF MarkedMoved
<1>8. AloneMoving(v7')
  BY <1>6 DEF AloneMoving
<1> QED BY <1>2, <1>4, <1>5, <1>6, <1>7, <1>8

LEMMA LoadMoveRequests ==
  ASSUME NEW d, Load(d)!CaseloadAssumption, LoadOK(d), NEW c \in Movers, Load(d)!MoveRequests(c)
  PROVE  LoadOK(d)'
<1>1. /\ v1 \in [Clients -> ClientRow(d)] /\ v2 \in [Partners -> SUBSET ConsultantsAt[d]]
      /\ v3 \in [RequestsAt[d] -> WorkRow(d)] /\ v4 \in [CasesAt[d] -> FileRow(d)]
      /\ v5 \in [RequestsAt[d] -> PaperRow(d)] /\ v6 \in [Tasks -> ChoreRow(d)]
      /\ WorkKnown(d, v3, v4) /\ FileKnown(d, v3, v4) /\ ChoreKnown(d, v4, v6)
      /\ PaperKnown(d, v3, v5) /\ OneCase(d, v3, v4, v5)
      /\ ClientsLinked(v1, v2) /\ ChoresLinked(v1, v2, v4, v6)
  BY LoadFacts
<1>2. v7[c].pc = "mv_requests" /\ Load(d)!Goto(c, "mv_cases") /\ UNCHANGED <<v1, v2, v4, v5, v6>>
  BY DEF Load!MoveRequests
<1>3. /\ v7' \in [Movers -> MoveRow(d)] /\ v7'[c].pc = "mv_cases" /\ v7'[c].client = v7[c].client
      /\ v7'[c].to = v7[c].to /\ v7[c].to \in ConsultantsAt[d] /\ v7[c].client \in Clients
      /\ \A o \in Movers \ {c} : v7'[o].pc = "idle"
      /\ MarkedMoved(v1', v7') /\ AloneMoving(v7')
  BY <1>2, LoadGo
<1>4. ASSUME NEW r \in RequestsAt[d]
      PROVE  /\ v3'[r] \in WorkRow(d)
             /\ v3'[r].status = v3[r].status /\ v3'[r].case = v3[r].case /\ v3'[r].client = v3[r].client
             /\ v3[r].client = v7[c].client /\ v3[r].status = "open" => v3'[r].consultant = v7[c].to
  <2>1. v3[r] \in WorkRow(d)
    BY <1>1
  <2>2. v3'[r] = IF r \in Load(d)!OwnRequests(v7[c].client) /\ v3[r].status # "completed"
                 THEN [v3[r] EXCEPT !.consultant = v7[c].to] ELSE v3[r]
    BY DEF Load!MoveRequests
  <2>3. v3[r].client = v7[c].client /\ v3[r].status = "open" => r \in Load(d)!OwnRequests(v7[c].client)
    BY DEF Load!OwnRequests, Load!Raised
  <2> QED BY <1>3, <2>1, <2>2, <2>3 DEF WorkRow
<1>5. v3' \in [RequestsAt[d] -> WorkRow(d)]
  BY <1>4 DEF Load!MoveRequests
<1>6. WorksMoved(d, v7', v3') /\ FilesMoved(d, v7', v4')
  BY <1>3, <1>4 DEF WorksMoved, FilesMoved
<1>7. WorkKnown(d, v3', v4') /\ PaperKnown(d, v3', v5')
  BY <1>1, <1>2, <1>4 DEF WorkKnown, PaperKnown
<1>8. FileKnown(d, v3', v4')
  BY <1>1, <1>2, <1>4 DEF FileKnown
<1>9. OneCase(d, v3', v4', v5')
  BY <1>1, <1>2, <1>4 DEF OneCase, FileKnown
<1> QED BY <1>1, <1>2, <1>3, <1>5, <1>6, <1>7, <1>8, <1>9, LoadKept

LEMMA LoadMoveCases ==
  ASSUME NEW d, Load(d)!CaseloadAssumption, LoadOK(d), NEW c \in Movers, Load(d)!MoveCases(c)
  PROVE  LoadOK(d)'
<1>1. /\ v1 \in [Clients -> ClientRow(d)] /\ v2 \in [Partners -> SUBSET ConsultantsAt[d]]
      /\ v3 \in [RequestsAt[d] -> WorkRow(d)] /\ v4 \in [CasesAt[d] -> FileRow(d)]
      /\ v5 \in [RequestsAt[d] -> PaperRow(d)] /\ v6 \in [Tasks -> ChoreRow(d)]
      /\ WorkKnown(d, v3, v4) /\ FileKnown(d, v3, v4) /\ ChoreKnown(d, v4, v6)
      /\ PaperKnown(d, v3, v5) /\ OneCase(d, v3, v4, v5)
      /\ ClientsLinked(v1, v2) /\ ChoresLinked(v1, v2, v4, v6)
      /\ WorksMoved(d, v7, v3)
  BY LoadFacts
<1>2. v7[c].pc = "mv_cases" /\ Load(d)!Goto(c, "mv_documents") /\ UNCHANGED <<v1, v2, v3, v5, v6>>
  BY DEF Load!MoveCases
<1>3. /\ v7' \in [Movers -> MoveRow(d)] /\ v7'[c].pc = "mv_documents" /\ v7'[c].client = v7[c].client
      /\ v7'[c].to = v7[c].to /\ v7[c].to \in ConsultantsAt[d] /\ v7[c].client \in Clients
      /\ \A o \in Movers \ {c} : v7'[o].pc = "idle"
      /\ MarkedMoved(v1', v7') /\ AloneMoving(v7')
  BY <1>2, LoadGo
<1>4. ASSUME NEW x \in CasesAt[d]
      PROVE  /\ v4'[x] \in FileRow(d)
             /\ v4'[x].stage = v4[x].stage /\ v4'[x].client = v4[x].client /\ v4'[x].request = v4[x].request
             /\ v4[x].client = v7[c].client /\ v4[x].stage = "open" => v4'[x].consultant = v7[c].to
  <2>1. v4[x] \in FileRow(d)
    BY <1>1
  <2>2. v4'[x] = IF x \in Load(d)!MovedCases(v7[c].client)
                 THEN [v4[x] EXCEPT !.consultant = v7[c].to] ELSE v4[x]
    BY DEF Load!MoveCases
  <2>3. v4[x].client = v7[c].client /\ v4[x].stage = "open" => x \in Load(d)!MovedCases(v7[c].client)
    BY DEF Load!MovedCases, Load!OwnCases, Load!Opened
  <2> QED BY <1>3, <2>1, <2>2, <2>3 DEF FileRow
<1>5. v4' \in [CasesAt[d] -> FileRow(d)]
  BY <1>4 DEF Load!MoveCases
<1>6. WorksMoved(d, v7', v3')
  BY <1>1, <1>2, <1>3 DEF WorksMoved
<1>7. FilesMoved(d, v7', v4')
  BY <1>3, <1>4 DEF FilesMoved
<1>8. WorkKnown(d, v3', v4')
  BY <1>1, <1>2, <1>4 DEF WorkKnown
<1>9. FileKnown(d, v3', v4') /\ ChoreKnown(d, v4', v6')
  BY <1>1, <1>2, <1>4 DEF FileKnown, ChoreKnown
<1>10. OneCase(d, v3', v4', v5')
  BY <1>1, <1>2, <1>4 DEF OneCase
<1>11. ChoresLinked(v1', v2', v4', v6')
  BY <1>1, <1>2, <1>4 DEF ChoresLinked, ChoreKnown
<1> QED BY <1>1, <1>2, <1>3, <1>5, <1>6, <1>7, <1>8, <1>9, <1>10, <1>11, LoadKept

LEMMA LoadMoveDocuments ==
  ASSUME NEW d, Load(d)!CaseloadAssumption, LoadOK(d), NEW c \in Movers, Load(d)!MoveDocuments(c)
  PROVE  LoadOK(d)'
<1>1. /\ v1 \in [Clients -> ClientRow(d)] /\ v2 \in [Partners -> SUBSET ConsultantsAt[d]]
      /\ v3 \in [RequestsAt[d] -> WorkRow(d)] /\ v4 \in [CasesAt[d] -> FileRow(d)]
      /\ v5 \in [RequestsAt[d] -> PaperRow(d)] /\ v6 \in [Tasks -> ChoreRow(d)]
      /\ WorkKnown(d, v3, v4) /\ FileKnown(d, v3, v4) /\ ChoreKnown(d, v4, v6)
      /\ PaperKnown(d, v3, v5) /\ OneCase(d, v3, v4, v5)
      /\ ClientsLinked(v1, v2) /\ ChoresLinked(v1, v2, v4, v6)
      /\ WorksMoved(d, v7, v3) /\ FilesMoved(d, v7, v4)
  BY LoadFacts
<1>2. v7[c].pc = "mv_documents" /\ Load(d)!Goto(c, "mv_tasks") /\ UNCHANGED <<v1, v2, v3, v4, v6>>
  BY DEF Load!MoveDocuments
<1>3. /\ v7' \in [Movers -> MoveRow(d)] /\ v7'[c].pc = "mv_tasks" /\ v7'[c].client = v7[c].client
      /\ v7'[c].to = v7[c].to /\ v7[c].to \in ConsultantsAt[d]
      /\ \A o \in Movers \ {c} : v7'[o].pc = "idle"
      /\ MarkedMoved(v1', v7') /\ AloneMoving(v7')
  BY <1>2, LoadGo
<1>4. ASSUME NEW r \in RequestsAt[d]
      PROVE  v5'[r] \in PaperRow(d) /\ v5'[r].status = v5[r].status /\ v5'[r].case = v5[r].case
  <2>1. v5[r] \in PaperRow(d)
    BY <1>1
  <2>2. v5'[r] = [v5[r] EXCEPT !.consultant = v7[c].to] \/ v5'[r] = v5[r]
    BY DEF Load!MoveDocuments
  <2> QED BY <1>3, <2>1, <2>2 DEF PaperRow
<1>5. v5' \in [RequestsAt[d] -> PaperRow(d)]
  BY <1>4 DEF Load!MoveDocuments
<1>6. WorksMoved(d, v7', v3') /\ FilesMoved(d, v7', v4')
  BY <1>1, <1>2, <1>3 DEF WorksMoved, FilesMoved
<1>7. PaperKnown(d, v3', v5') /\ OneCase(d, v3', v4', v5')
  BY <1>1, <1>2, <1>4 DEF PaperKnown, OneCase
<1> QED BY <1>1, <1>2, <1>3, <1>5, <1>6, <1>7, LoadKept

LEMMA LoadMoveTasks ==
  ASSUME NEW d, Load(d)!CaseloadAssumption, LoadOK(d), NEW c \in Movers, Load(d)!MoveTasks(c)
  PROVE  LoadOK(d)'
<1>1. /\ v1 \in [Clients -> ClientRow(d)] /\ v2 \in [Partners -> SUBSET ConsultantsAt[d]]
      /\ v3 \in [RequestsAt[d] -> WorkRow(d)] /\ v4 \in [CasesAt[d] -> FileRow(d)]
      /\ v5 \in [RequestsAt[d] -> PaperRow(d)] /\ v6 \in [Tasks -> ChoreRow(d)]
      /\ WorkKnown(d, v3, v4) /\ FileKnown(d, v3, v4) /\ ChoreKnown(d, v4, v6)
      /\ PaperKnown(d, v3, v5) /\ OneCase(d, v3, v4, v5)
      /\ ClientsLinked(v1, v2) /\ ChoresLinked(v1, v2, v4, v6)
  BY LoadFacts
<1>2. v7[c].pc = "mv_tasks" /\ Load(d)!Goto(c, "idle") /\ UNCHANGED <<v1, v2, v3, v4, v5>>
  BY DEF Load!MoveTasks
<1>3. /\ v7' \in [Movers -> MoveRow(d)] /\ v7'[c].pc = "idle" /\ v7[c].to \in ConsultantsAt[d]
      /\ v1[v7[c].client].moved /\ \A o \in Movers \ {c} : v7'[o].pc = "idle"
      /\ MarkedMoved(v1', v7') /\ AloneMoving(v7')
  BY <1>2, LoadGo
<1>4. ASSUME NEW t \in Tasks
      PROVE  /\ v6'[t] \in ChoreRow(d) /\ v6'[t].status = v6[t].status /\ v6'[t].case = v6[t].case
             /\ v6'[t].assignee = v6[t].assignee
             /\ v6'[t].consultant = v6[t].consultant \/ v4[v6[t].case].client = v7[c].client
  <2>1. v6[t] \in ChoreRow(d)
    BY <1>1
  <2>2. v6'[t] = v6[t] \/ (v6'[t] = [v6[t] EXCEPT !.consultant = v7[c].to]
                           /\ v4[v6[t].case].client = v7[c].client)
    BY DEF Load!MoveTasks, Load!ClientOfTask
  <2> QED BY <1>3, <2>1, <2>2 DEF ChoreRow
<1>5. v6' \in [Tasks -> ChoreRow(d)]
  BY <1>4 DEF Load!MoveTasks
<1>6. WorksMoved(d, v7', v3') /\ FilesMoved(d, v7', v4')
  BY <1>3 DEF WorksMoved, FilesMoved
<1>7. ChoreKnown(d, v4', v6')
  BY <1>1, <1>2, <1>4 DEF ChoreKnown
<1>8. ChoresLinked(v1', v2', v4', v6')
  BY <1>1, <1>2, <1>3, <1>4 DEF ChoresLinked
<1> QED BY <1>1, <1>2, <1>3, <1>5, <1>6, <1>7, <1>8, LoadKept

LEMMA LoadStep ==
  ASSUME NEW d, Load(d)!CaseloadAssumption, LoadOK(d), Load(d)!Next
  PROVE  LoadOK(d)'
<1>1. ASSUME NEW r \in RequestsAt[d], Load(d)!Ask(r) PROVE LoadOK(d)'
  BY <1>1, LoadAsk
<1>2. ASSUME NEW r \in RequestsAt[d], NEW s \in {"wanted", "held", "approved"}, Load(d)!Handle(r, s)
      PROVE  LoadOK(d)'
  BY <1>2, LoadAsk
<1>3. ASSUME NEW r \in RequestsAt[d], NEW k \in Clients, NEW s \in ConsultantsAt[d],
             Load(d)!RaiseRequest(r, k, s)
      PROVE  LoadOK(d)'
  BY <1>3, LoadRaise
<1>4. ASSUME NEW r \in RequestsAt[d], NEW x \in CasesAt[d],
             Load(d)!OpenCase(x, r) \/ Load(d)!CompleteConsultation(x, r) \/ Load(d)!CreateCase(x, r)
      PROVE  LoadOK(d)'
  BY <1>4, LoadNewCase
<1>5. ASSUME NEW x \in CasesAt[d], NEW s \in {"open", "completed"}, Load(d)!Advance(x, s)
      PROVE  LoadOK(d)'
  BY <1>5, LoadAdvance
<1>6. ASSUME NEW t \in Tasks, \/ \E s \in Load(d)!TaskStates : Load(d)!SetTask(t, s)
                              \/ \E x \in CasesAt[d], p \in Partners : Load(d)!Delegate(t, x, p)
      PROVE  LoadOK(d)'
  BY <1>6, LoadTask
<1>7. ASSUME NEW k \in Clients, Load(d)!Unhand(k) \/ \E p \in Partners : Load(d)!Hand(k, p)
      PROVE  LoadOK(d)'
  BY <1>7, LoadHand
<1>8. ASSUME NEW c \in Movers, NEW k \in Clients, NEW s \in ConsultantsAt[d], NEW w \in BOOLEAN,
             Load(d)!MoveStart(c, k, s, w)
      PROVE  LoadOK(d)'
  BY <1>8, LoadMoveStart
<1>9. ASSUME NEW c \in Movers,
             \/ Load(d)!MoveRequests(c) \/ Load(d)!MoveCases(c)
             \/ Load(d)!MoveDocuments(c) \/ Load(d)!MoveTasks(c)
      PROVE  LoadOK(d)'
  BY <1>9, LoadMoveRequests, LoadMoveCases, LoadMoveDocuments, LoadMoveTasks
<1> QED BY <1>1, <1>2, <1>3, <1>4, <1>5, <1>6, <1>7, <1>8, <1>9 DEF Load!Next

LEMMA LoadStay ==
  ASSUME NEW d, Load(d)!CaseloadAssumption, LoadOK(d), UNCHANGED atDesk
  PROVE  LoadOK(d)'
<1>1. /\ v1 \in [Clients -> ClientRow(d)] /\ v2 \in [Partners -> SUBSET ConsultantsAt[d]]
      /\ v3 \in [RequestsAt[d] -> WorkRow(d)] /\ v4 \in [CasesAt[d] -> FileRow(d)]
      /\ v5 \in [RequestsAt[d] -> PaperRow(d)] /\ v6 \in [Tasks -> ChoreRow(d)]
      /\ v7 \in [Movers -> MoveRow(d)]
      /\ WorkKnown(d, v3, v4) /\ FileKnown(d, v3, v4) /\ ChoreKnown(d, v4, v6)
      /\ PaperKnown(d, v3, v5) /\ OneCase(d, v3, v4, v5)
      /\ MarkedMoved(v1, v7) /\ ClientsLinked(v1, v2) /\ ChoresLinked(v1, v2, v4, v6)
      /\ AloneMoving(v7) /\ WorksMoved(d, v7, v3) /\ FilesMoved(d, v7, v4)
  BY LoadFacts
<1>2. UNCHANGED <<v1, v2, v3, v4, v5, v6, v7>>
  BY DEF atDesk
<1> QED BY <1>1, <1>2, LoadKept

\* What the screens show follows from the rows.
LEMMA LoadListed ==
  ASSUME NEW d, Load(d)!CaseloadAssumption, LoadOK(d), "create" \notin DoorsAt[d]
  PROVE  Load(d)!ListedOpens
<1>1. /\ WorkKnown(d, v3, v4) /\ FileKnown(d, v3, v4) /\ ChoreKnown(d, v4, v6)
      /\ PaperKnown(d, v3, v5) /\ OneCase(d, v3, v4, v5)
  BY LoadFacts
<1>2. /\ \A x \in CasesAt[d] : v4[x].stage # "none" => v3[v4[x].request].case = x
      /\ \A r \in RequestsAt[d] : v5[r].status # "none" => v5[r].case = v3[r].case
      /\ Nothing \notin CasesAt[d]
  BY <1>1 DEF OneCase, Load!CaseloadAssumption
<1>3. ASSUME NEW k \in Clients PROVE Load(d)!HomeAgrees(k)
  <2> SUFFICES ASSUME NEW r \in Load(d)!Hero(k)
               PROVE  /\ Load(d)!NextStep(r) = "upload_documents"
                           => "documents_reviewed" \notin Load(d)!StepsDone(r)
                      /\ Load(d)!NextStep(r) = "view_outcome"
                           => \A q \in Load(d)!OwnRequests(k) : v3[q].status = "completed"
    BY DEF Load!HomeAgrees
  <2>1. Load(d)!NextStep(r) = "upload_documents" => v5[r].status = "wanted"
    BY DEF Load!NextStep
  <2>2. v5[r].status = "wanted" => "documents_reviewed" \notin Load(d)!StepsDone(r)
    BY DEF Load!StepsDone
  <2>3. Load(d)!NextStep(r) = "view_outcome" => v3[r].status = "completed"
    BY DEF Load!NextStep
  <2>4. v3[r].status = "completed" => \A q \in Load(d)!OwnRequests(k) : v3[q].status = "completed"
    BY DEF Load!Hero
  <2> QED BY <2>1, <2>2, <2>3, <2>4
<1>4. ASSUME NEW p \in Partners, NEW r \in RequestsAt[d]
      PROVE  /\ (\E x \in Load(d)!CaseBehind(r) : x \in Load(d)!Delegated(p))
                  <=> v3[r].case \in Load(d)!Delegated(p)
             /\ (\E x \in Load(d)!Delegated(p) : v4[x].request = r) => v3[r].case \in Load(d)!Delegated(p)
  <2>1. Load(d)!Delegated(p) \subseteq {x \in CasesAt[d] : v4[x].stage # "none"}
    BY DEF Load!Delegated, Load!Opened
  <2>2. v3[r].case \in Load(d)!Delegated(p) => v3[r].case # Nothing
    BY <1>2, <2>1
  <2>3. CASE v3[r].case # Nothing
    <3>1. Load(d)!CaseBehind(r) = {v3[r].case}
      BY <2>3 DEF Load!CaseBehind
    <3> QED BY <1>2, <2>1, <3>1
  <2>4. CASE v3[r].case = Nothing
    <3>1. \A x \in Load(d)!CaseBehind(r) : x \in CasesAt[d] /\ v4[x].stage # "none" /\ v4[x].request = r
      BY <2>4 DEF Load!CaseBehind, Load!Opened
    <3>2. Load(d)!CaseBehind(r) = {}
      BY <1>2, <2>4, <3>1
    <3> QED BY <1>2, <2>1, <2>2, <2>4, <3>2
  <2> QED BY <2>3, <2>4
<1>5. ASSUME NEW p \in Partners
      PROVE  Load(d)!RequestsListed(p) = {r \in Load(d)!Raised : Load(d)!RequestOpens(p, r)}
  <2>1. \A r \in Load(d)!Raised : r \in RequestsAt[d]
    BY DEF Load!Raised
  <2> QED BY <1>4, <2>1 DEF Load!RequestsListed, Load!RequestOpens, Load!RequestAccess
<1>6. ASSUME NEW p \in Partners
      PROVE  /\ Load(d)!CasesListed(p) = {x \in Load(d)!Opened : Load(d)!CaseOpens(p, x)
                                                                  /\ Load(d)!HistoryOpens(p, x)}
             /\ Load(d)!CasesCounted(p) = Load(d)!CasesListed(p)
  <2>1. Load(d)!Delegated(p) \subseteq Load(d)!EverDelegated(p)
    BY DEF Load!Delegated, Load!EverDelegated, Load!HoldsCase
  <2> QED BY <2>1 DEF Load!CasesListed, Load!CasesCounted, Load!CaseOpens, Load!HistoryOpens,
                      Load!CaseAccess, Load!ClientAccess
<1>7. ASSUME NEW p \in Partners
      PROVE  /\ Load(d)!DocumentsListed(p) = {r \in Load(d)!Asked : Load(d)!DocumentOpens(p, r)}
             /\ Load(d)!DocumentsShown(p) \subseteq Load(d)!DocumentsListed(p)
  <2>1. \A r \in Load(d)!Asked : r \in RequestsAt[d] /\ v5[r].case = v3[r].case
    BY <1>2 DEF Load!Asked
  <2>2. Load(d)!DocumentsListed(p) = {r \in Load(d)!Asked : Load(d)!DocumentOpens(p, r)}
    BY DEF Load!DocumentsListed, Load!DocumentOpens, Load!ClientAccess
  <2>3. Load(d)!DocumentsShown(p) \subseteq Load(d)!DocumentsListed(p)
    BY <1>4, <2>1 DEF Load!DocumentsShown, Load!DocumentsListed, Load!RequestOpens, Load!RequestAccess
  <2> QED BY <2>2, <2>3
<1>8. ASSUME NEW p \in Partners, NEW t \in Load(d)!ActiveTasks(p)
      PROVE  /\ Load(d)!TaskOpens(p, t) /\ Load(d)!DeliverableOpens(p, t)
             /\ v6[t].case \in Load(d)!Delegated(p) \cap Load(d)!CasesListed(p)
             /\ v4[v6[t].case].request \in Load(d)!RequestsListed(p)
  <2>1. t \in Tasks /\ v6[t].status \in {"open", "submitted"} /\ v6[t].assignee = p
        /\ t \in Load(d)!Given
    BY DEF Load!ActiveTasks, Load!TasksListed, Load!Given
  <2>2. v6[t].case \in Load(d)!Opened
    BY <1>1, <2>1 DEF ChoreKnown, Load!Opened
  <2>3. v6[t].case \in Load(d)!Delegated(p) /\ v6[t].case \in Load(d)!EverDelegated(p)
    BY <2>1, <2>2 DEF Load!Delegated, Load!EverDelegated, Load!HoldsCase
  <2>4. v6[t].case \in Load(d)!CasesListed(p)
    BY <2>2, <2>3 DEF Load!CasesListed
  <2>5. v4[v6[t].case].request \in Load(d)!Raised
    BY <1>1, <2>2 DEF FileKnown, Load!Opened, Load!Raised
  <2>6. v4[v6[t].case].request \in Load(d)!RequestsListed(p)
    BY <2>3, <2>5 DEF Load!RequestsListed
  <2> QED BY <2>1, <2>3, <2>4, <2>6 DEF Load!TaskOpens, Load!DeliverableOpens
<1>9. ASSUME NEW p \in Partners, NEW k \in Clients, NEW x \in Load(d)!ProfileCases(p, k)
      PROVE  x \in Load(d)!CasesListed(p)
  <2>1. CASE k \in Load(d)!Handed(p)
    BY <1>9, <2>1 DEF Load!ProfileCases, Load!CasesListed
  <2>2. CASE k \notin Load(d)!Handed(p)
    <3>1. PICK t \in Load(d)!TasksListed(p) : x = v6[t].case
      BY <1>9, <2>2 DEF Load!ProfileCases
    <3>2. t \in Load(d)!Given /\ v6[t].assignee = p /\ x \in Load(d)!Opened
      BY <1>1, <3>1 DEF Load!TasksListed, Load!Given, Load!Opened, ChoreKnown
    <3> QED BY <3>1, <3>2 DEF Load!CasesListed, Load!EverDelegated
  <2> QED BY <2>1, <2>2
<1> QED BY <1>3, <1>5, <1>6, <1>7, <1>8, <1>9 DEF Load!ListedOpens

LEMMA LoadLinked ==
  ASSUME NEW d, Load(d)!CaseloadAssumption, LoadOK(d)
  PROVE  Load(d)!WorkIsLinked
<1>1. ClientsLinked(v1, v2) /\ ChoresLinked(v1, v2, v4, v6)
  BY LoadFacts
<1>2. ASSUME NEW p \in Partners, NEW k \in Load(d)!Handed(p), ~v1[k].moved
      PROVE  v1[k].consultant \in Load(d)!ContactsOfPartner(p)
  BY <1>1, <1>2 DEF ClientsLinked, Load!Handed, Load!ContactsOfPartner
<1>3. ASSUME NEW p \in Partners, NEW t \in Load(d)!TasksListed(p), ~v1[Load(d)!ClientOfTask(t)].moved
      PROVE  p \in Load(d)!ContactsOfConsultant(v6[t].consultant)
  <2>1. v6[t].consultant \in v2[p]
    BY <1>1, <1>3 DEF ChoresLinked, Load!TasksListed, Load!Given, Load!ClientOfTask
  <2>2. p \in Load(d)!Roster(v6[t].consultant).partners
    BY <2>1 DEF Load!Roster
  <2> QED BY <2>2 DEF Load!ContactsOfConsultant
<1> QED BY <1>2, <1>3 DEF Load!WorkIsLinked

LEMMA LoadMoveEnds ==
  ASSUME NEW d, Load(d)!CaseloadAssumption, LoadOK(d), Load(d)!Next
  PROVE  Load(d)!MovesWhole
<1>1. v7 \in [Movers -> MoveRow(d)] /\ AloneMoving(v7) /\ WorksMoved(d, v7, v3) /\ FilesMoved(d, v7, v4)
  BY LoadFacts
<1> SUFFICES ASSUME NEW c \in Movers, v7[c].pc = "mv_tasks", v7'[c].pc = "idle"
             PROVE  /\ \A r \in Load(d)!OwnRequests(v7[c].client) :
                         v3[r].status = "open" => v3'[r].consultant = v7[c].to
                    /\ \A x \in Load(d)!OwnCases(v7[c].client) :
                         v4[x].stage = "open" => v4'[x].consultant = v7[c].to
  BY DEF Load!MovesWhole
<1>2. ~Load(d)!Free
  BY DEF Load!Free, Load!Quiet
<1>3. PICK o \in Movers : \/ Load(d)!MoveRequests(o) \/ Load(d)!MoveCases(o)
                          \/ Load(d)!MoveDocuments(o) \/ Load(d)!MoveTasks(o)
  BY <1>2 DEF Load!Next, Load!Ask, Load!Handle, Load!RaiseRequest, Load!OpenCase,
     Load!CompleteConsultation, Load!CreateCase, Load!Advance, Load!SetTask, Load!Delegate,
     Load!Unhand, Load!Hand, Load!MoveStart
<1>4. o = c
  <2>1. v7[o].pc # "idle"
    BY <1>3 DEF Load!MoveRequests, Load!MoveCases, Load!MoveDocuments, Load!MoveTasks
  <2> QED BY <1>1, <2>1 DEF AloneMoving
<1>5. UNCHANGED <<v3, v4>>
  BY <1>3, <1>4 DEF Load!MoveRequests, Load!MoveCases, Load!MoveDocuments, Load!MoveTasks
<1> QED BY <1>1, <1>5 DEF WorksMoved, FilesMoved, Load!OwnRequests, Load!OwnCases, Load!Raised, Load!Opened

-----------------------------------------------------------------------------
\* Pictures: rows, bucket, used, cut and uploading are v1 to v5.
PicturesOK == Pictures!TypeOK /\ Pictures!PictureInv

PictureRow == [blob: Blobs \cup {Nothing}, address: Pictures!PictureUrls]
UploadType == [pc: Pictures!Pcs, owner: Owners, previous: Blobs \cup {Nothing},
               blob: Blobs \cup {Nothing}]
Entering(call) == call.pc \in {"up_drop", "up_write"}

\* The parts of the invariant, of the rows, the bucket and the calls they name.
Drawn(rows, used) ==
  \A o \in Owners : /\ rows[o].blob \in used \cup {Nothing}
                    /\ o \notin Officers /\ rows[o].address = "upload" => rows[o].blob # Nothing
Apart(rows) == \A o, q \in Owners : rows[o].blob = rows[q].blob /\ rows[o].blob # Nothing => o = q
ThereOrGoing(rows, bucket, cut, uploading) ==
  \A o \in Owners \ cut : rows[o].blob # Nothing =>
    \/ rows[o].blob \in bucket
    \/ \E c \in Calls : /\ uploading[c].pc = "up_write" /\ uploading[c].owner = o
                        /\ uploading[c].previous = rows[o].blob
OldOf(call, rows, used) ==
  /\ call.previous \in used \cup {Nothing} /\ call.blob \in used \cup {Nothing}
  /\ \A o \in Owners : call.previous = rows[o].blob /\ rows[o].blob # Nothing =>
                         call.owner = o /\ call.pc # "rm_drop"
NewOf(call, rows, bucket) ==
  Entering(call) => call.blob \in bucket /\ \A o \in Owners : rows[o].blob # call.blob
Private(uploading) ==
  \A c, d \in Calls : Entering(uploading[c]) =>
    /\ uploading[d].previous # uploading[c].blob
    /\ uploading[d].blob = uploading[c].blob => c = d

LEMMA PicturesFacts ==
  PicturesOK <=> /\ v1 \in [Owners -> PictureRow]
                 /\ v2 \subseteq v3 /\ v3 \subseteq Blobs /\ v4 \subseteq Owners
                 /\ v5 \in [Calls -> UploadType]
                 /\ Drawn(v1, v3) /\ Apart(v1) /\ ThereOrGoing(v1, v2, v4, v5)
                 /\ \A c \in Calls : OldOf(v5[c], v1, v3) /\ NewOf(v5[c], v1, v2)
                 /\ Private(v5)
<1>1. Pictures!TypeOK <=> /\ v1 \in [Owners -> PictureRow]
                          /\ v2 \subseteq v3 /\ v3 \subseteq Blobs /\ v4 \subseteq Owners
                          /\ v5 \in [Calls -> UploadType]
  BY DEF Pictures!TypeOK, PictureRow, UploadType
<1>2. Pictures!PictureInv <=> /\ Drawn(v1, v3) /\ Apart(v1) /\ ThereOrGoing(v1, v2, v4, v5)
                              /\ \A c \in Calls : OldOf(v5[c], v1, v3) /\ NewOf(v5[c], v1, v2)
                              /\ Private(v5)
  BY DEF Pictures!PictureInv, Pictures!At, Pictures!Who, Pictures!Opens, Drawn, Apart, ThereOrGoing,
         OldOf, NewOf, Private, Entering, Pictures!ShowsUser
<1> QED BY <1>1, <1>2 DEF PicturesOK

LEMMA PicturesIdle == /\ Pictures!Idle \in UploadType /\ Pictures!Idle.pc = "idle"
                      /\ Pictures!Idle.previous = Nothing /\ Pictures!Idle.blob = Nothing
                      /\ Nothing \notin Blobs /\ Officers \subseteq Owners
<1>1. (CHOOSE o \in Owners : TRUE) \in Owners
  BY DesksAssumption DEF Pictures!AvatarsAssumption
<1> QED BY <1>1, DesksAssumption DEF Pictures!AvatarsAssumption, Pictures!Idle, UploadType, Pictures!Pcs

LEMMA PicturesKept ==
  ASSUME v1' \in [Owners -> PictureRow], v2' \subseteq v3', v3' \subseteq Blobs, v4' \subseteq Owners,
         v5' \in [Calls -> UploadType],
         Drawn(v1', v3'), Apart(v1'), ThereOrGoing(v1', v2', v4', v5'),
         \A c \in Calls : OldOf(v5'[c], v1', v3') /\ NewOf(v5'[c], v1', v2'),
         Private(v5')
  PROVE  PicturesOK'
<1>1. Pictures!TypeOK'
  BY DEF Pictures!TypeOK, PictureRow, UploadType
<1>2. Pictures!PictureInv'
  BY DEF Pictures!PictureInv, Pictures!At, Pictures!Who, Pictures!Opens, Drawn, Apart, ThereOrGoing,
         OldOf, NewOf, Private, Entering, Pictures!ShowsUser
<1> QED BY <1>1, <1>2 DEF PicturesOK

LEMMA PicturesInit == Pictures!Init => PicturesOK
<1> SUFFICES ASSUME Pictures!Init PROVE PicturesOK
  OBVIOUS
<1>1. /\ v1 = [o \in Owners |-> Pictures!NoPicture] /\ v2 = {} /\ v3 = {} /\ v4 = {}
      /\ v5 = [c \in Calls |-> Pictures!Idle]
  BY DEF Pictures!Init
<1>2. Pictures!NoPicture \in PictureRow /\ Pictures!NoPicture.blob = Nothing
      /\ Pictures!NoPicture.address # "upload"
  BY DEF Pictures!NoPicture, PictureRow, Pictures!PictureUrls
<1>3. Drawn(v1, v3) /\ Apart(v1) /\ ThereOrGoing(v1, v2, v4, v5)
  BY <1>1, <1>2 DEF Drawn, Apart, ThereOrGoing
<1>4. (\A c \in Calls : OldOf(v5[c], v1, v3) /\ NewOf(v5[c], v1, v2)) /\ Private(v5)
  BY <1>1, <1>2, PicturesIdle DEF OldOf, NewOf, Private, Entering
<1>5. v1 \in [Owners -> PictureRow] /\ v5 \in [Calls -> UploadType]
  BY <1>1, <1>2, PicturesIdle
<1> QED BY <1>1, <1>3, <1>4, <1>5, PicturesFacts

\* A call moves to rec and no row changes; what it takes from the bucket is the
\* blob it replaces, and whoever was to write a row is cut.
LEMMA PicturesMove ==
  ASSUME PicturesOK, NEW c \in Calls, NEW rec \in UploadType, v5' = [v5 EXCEPT ![c] = rec],
         UNCHANGED <<v1, v3>>, v2' \in {v2, v2 \ {v5[c].previous}}, v4' \subseteq Owners, v4 \subseteq v4',
         ~Entering(rec) \/ (rec.blob = v5[c].blob /\ Entering(v5[c])),
         rec.blob \in {Nothing, v5[c].blob},
         OldOf(rec, v1, v3), rec.previous \in {Nothing, v5[c].previous} \/ \E o \in Owners : rec.previous = v1[o].blob,
         v2' # v2 => v5[c].pc = "rm_drop" \/ (rec.pc = "up_write" /\ rec.owner = v5[c].owner /\ rec.previous = v5[c].previous),
         v5[c].pc = "up_write" => v5[c].owner \in v4'
  PROVE  PicturesOK'
<1>1. /\ v1 \in [Owners -> PictureRow]
      /\ v2 \subseteq v3 /\ v3 \subseteq Blobs /\ v4 \subseteq Owners
      /\ v5 \in [Calls -> UploadType]
      /\ Drawn(v1, v3) /\ Apart(v1) /\ ThereOrGoing(v1, v2, v4, v5)
      /\ \A d \in Calls : OldOf(v5[d], v1, v3) /\ NewOf(v5[d], v1, v2)
      /\ Private(v5)
  BY PicturesFacts
<1>2. v5'[c] = rec /\ \A d \in Calls \ {c} : v5'[d] = v5[d]
  BY <1>1
<1>3. ASSUME NEW o \in Owners \ v4', v1[o].blob # Nothing
      PROVE  \/ v1[o].blob \in v2'
             \/ \E d \in Calls : v5'[d].pc = "up_write" /\ v5'[d].owner = o /\ v5'[d].previous = v1[o].blob
  <2>1. CASE v1[o].blob \in v2 /\ v1[o].blob \notin v2'
    <3>1. v5[c].previous = v1[o].blob /\ v2' # v2
      BY <2>1
    <3>2. v5[c].owner = o /\ v5[c].pc # "rm_drop"
      BY <1>1, <1>3, <3>1 DEF OldOf
    <3> QED BY <1>2, <3>1, <3>2
  <2>2. CASE v1[o].blob \notin v2
    <3>1. PICK d \in Calls : v5[d].pc = "up_write" /\ v5[d].owner = o /\ v5[d].previous = v1[o].blob
      BY <1>1, <1>3, <2>2 DEF ThereOrGoing
    <3>2. d # c
      BY <1>3, <3>1
    <3> QED BY <1>2, <3>1, <3>2
  <2> QED BY <2>1, <2>2
<1>4. ThereOrGoing(v1', v2', v4', v5')
  BY <1>3 DEF ThereOrGoing
<1>5. ASSUME NEW d \in Calls PROVE OldOf(v5'[d], v1', v3') /\ NewOf(v5'[d], v1', v2')
  <2>1. Entering(v5'[d]) => Entering(v5[d]) /\ v5'[d].blob = v5[d].blob
    BY <1>2
  <2>2. Entering(v5[d]) => v5[d].blob # v5[c].previous
    BY <1>1 DEF Private
  <2>3. NewOf(v5'[d], v1', v2')
    BY <1>1, <2>1, <2>2 DEF NewOf
  <2>4. OldOf(v5'[d], v1', v3')
    BY <1>1, <1>2
  <2> QED BY <2>3, <2>4
<1>6. Private(v5')
  <2> SUFFICES ASSUME NEW e \in Calls, NEW d \in Calls, Entering(v5'[e])
               PROVE  /\ v5'[d].previous # v5'[e].blob
                      /\ v5'[d].blob = v5'[e].blob => e = d
    BY DEF Private
  <2>1. Entering(v5[e]) /\ v5'[e].blob = v5[e].blob
    BY <1>2
  <2>2. v5[e].blob \in v2 /\ (\A o \in Owners : v1[o].blob # v5[e].blob) /\ v5[e].blob # Nothing
    BY <1>1, <2>1, PicturesIdle DEF NewOf
  <2>3. v5[d].previous # v5[e].blob /\ (v5[d].blob = v5[e].blob => e = d) /\ v5[c].previous # v5[e].blob
        /\ (v5[c].blob = v5[e].blob => e = c)
    BY <1>1, <2>1 DEF Private
  <2>4. v5'[d].previous # v5'[e].blob
    BY <1>2, <2>1, <2>2, <2>3
  <2>5. v5'[d].blob = v5'[e].blob => e = d
    BY <1>2, <2>1, <2>2, <2>3
  <2> QED BY <2>4, <2>5
<1>7. v5' \in [Calls -> UploadType] /\ v2' \subseteq v3'
  BY <1>1
<1>8. Drawn(v1', v3') /\ Apart(v1') /\ v1' \in [Owners -> PictureRow] /\ v3' \subseteq Blobs
  BY <1>1
<1> QED BY <1>4, <1>5, <1>6, <1>7, <1>8, PicturesKept

\* A call writes its owner's row, the blob it brought or none, and moves to rec.
LEMMA PicturesWrite ==
  ASSUME PicturesOK, NEW c \in Calls, NEW rec \in UploadType, v5' = [v5 EXCEPT ![c] = rec],
         NEW o \in Owners, v5[c].owner = o, NEW row \in PictureRow, v1' = [v1 EXCEPT ![o] = row],
         UNCHANGED <<v2, v3, v4>>, ~Entering(rec), rec.blob \in {Nothing, v5[c].blob},
         \/ row.blob = Nothing /\ (o \in Officers \/ row.address # "upload") /\ rec.owner = o /\ rec.previous = v5[c].previous
         \/ row.blob = v5[c].blob /\ v5[c].pc = "up_write" /\ rec.previous = Nothing
  PROVE  PicturesOK'
<1>1. /\ v1 \in [Owners -> PictureRow]
      /\ v2 \subseteq v3 /\ v3 \subseteq Blobs /\ v4 \subseteq Owners
      /\ v5 \in [Calls -> UploadType]
      /\ Drawn(v1, v3) /\ Apart(v1) /\ ThereOrGoing(v1, v2, v4, v5)
      /\ \A d \in Calls : OldOf(v5[d], v1, v3) /\ NewOf(v5[d], v1, v2)
      /\ Private(v5)
  BY PicturesFacts
<1>2. v5'[c] = rec /\ \A d \in Calls \ {c} : v5'[d] = v5[d]
  BY <1>1
<1>3. v1'[o] = row /\ \A q \in Owners \ {o} : v1'[q] = v1[q]
  BY <1>1
<1>4. row.blob # Nothing => /\ Entering(v5[c]) /\ v5[c].pc = "up_write"
                            /\ row.blob = v5[c].blob /\ row.blob \in v2 /\ rec.previous = Nothing
                            /\ \A q \in Owners : v1[q].blob # row.blob
                            /\ \A d \in Calls \ {c} : v5[d].previous # row.blob /\ v5[d].blob # row.blob
  <2>1. row.blob # Nothing => Entering(v5[c]) /\ row.blob = v5[c].blob /\ rec.previous = Nothing /\ v5[c].pc = "up_write"
    BY DEF Entering
  <2> QED BY <1>1, <2>1 DEF NewOf, Private
<1>5. row.blob = v5[c].blob /\ v5[c].pc = "up_write" => row.blob # Nothing
  BY <1>1, PicturesIdle DEF NewOf, Entering
<1>6. Drawn(v1', v3')
  <2> SUFFICES ASSUME NEW q \in Owners
               PROVE  /\ v1'[q].blob \in v3 \cup {Nothing}
                      /\ q \notin Officers /\ v1'[q].address = "upload" => v1'[q].blob # Nothing
    BY DEF Drawn
  <2>1. CASE q = o
    BY <1>1, <1>3, <1>4, <1>5, <2>1
  <2>2. CASE q # o
    BY <1>1, <1>3, <2>2 DEF Drawn
  <2> QED BY <2>1, <2>2
<1>7. Apart(v1')
  BY <1>1, <1>3, <1>4 DEF Apart
<1>8. ASSUME NEW q \in Owners \ v4, v1'[q].blob # Nothing
      PROVE  \/ v1'[q].blob \in v2
             \/ \E d \in Calls : v5'[d].pc = "up_write" /\ v5'[d].owner = q /\ v5'[d].previous = v1'[q].blob
  <2>1. CASE q = o
    BY <1>3, <1>4, <1>8, <2>1
  <2>2. CASE q # o /\ v1[q].blob \notin v2
    <3>1. PICK d \in Calls : v5[d].pc = "up_write" /\ v5[d].owner = q /\ v5[d].previous = v1[q].blob
      BY <1>1, <1>3, <1>8, <2>2 DEF ThereOrGoing
    <3> QED BY <1>2, <1>3, <2>2, <3>1
  <2>3. CASE q # o /\ v1[q].blob \in v2
    BY <1>3, <2>3
  <2> QED BY <2>1, <2>2, <2>3
<1>9. ThereOrGoing(v1', v2', v4', v5')
  BY <1>8 DEF ThereOrGoing
<1>10. ASSUME NEW d \in Calls PROVE OldOf(v5'[d], v1', v3') /\ NewOf(v5'[d], v1', v2')
  <2>1. OldOf(v5[d], v1, v3) /\ NewOf(v5[d], v1, v2) /\ OldOf(v5[c], v1, v3)
    BY <1>1
  <2>2. CASE d = c
    <3>1. rec.blob \in v3 \cup {Nothing} /\ rec.previous \in v3 \cup {Nothing}
      BY <2>1 DEF OldOf
    <3>2. ASSUME NEW q \in Owners, rec.previous = v1'[q].blob, v1'[q].blob # Nothing PROVE FALSE
      <4>1. rec.previous = v5[c].previous /\ row.blob = Nothing
        BY <3>2
      <4>2. q # o
        BY <1>3, <3>2, <4>1
      <4> QED BY <1>3, <2>1, <3>2, <4>1, <4>2 DEF OldOf
    <3>3. OldOf(rec, v1', v3') /\ NewOf(rec, v1', v2')
      BY <3>1, <3>2 DEF OldOf, NewOf
    <3> QED BY <1>2, <2>2, <3>3
  <2>3. CASE d # c
    <3>1. OldOf(v5[d], v1', v3')
      BY <1>3, <1>4, <2>1, <2>3 DEF OldOf
    <3>2. NewOf(v5[d], v1', v2')
      <4>1. Entering(v5[d]) => v5[d].blob # Nothing
        BY <1>1, <2>1, PicturesIdle DEF NewOf
      <4> QED BY <1>3, <1>4, <2>1, <2>3, <4>1 DEF NewOf
    <3> QED BY <1>2, <2>3, <3>1, <3>2
  <2> QED BY <2>2, <2>3
<1>11. Private(v5')
  <2> SUFFICES ASSUME NEW e \in Calls, NEW d \in Calls, Entering(v5'[e])
               PROVE  /\ v5'[d].previous # v5'[e].blob
                      /\ v5'[d].blob = v5'[e].blob => e = d
    BY DEF Private
  <2>1. e # c /\ v5'[e] = v5[e]
    BY <1>2
  <2>2. v5[e].blob # Nothing
    BY <1>1, <2>1, PicturesIdle DEF NewOf
  <2>3. v5[d].previous # v5[e].blob /\ (v5[d].blob = v5[e].blob => e = d) /\ v5[c].previous # v5[e].blob
        /\ v5[c].blob # v5[e].blob
    BY <1>1, <2>1 DEF Private
  <2>4. rec.previous \in {Nothing, v5[c].previous}
    OBVIOUS
  <2>5. d = c => v5'[d].previous # v5'[e].blob /\ v5'[d].blob # v5'[e].blob
    BY <1>2, <2>1, <2>2, <2>3, <2>4
  <2> QED BY <1>2, <2>1, <2>3, <2>5
<1>12. v5' \in [Calls -> UploadType] /\ v1' \in [Owners -> PictureRow] /\ v2' \subseteq v3'
       /\ v3' \subseteq Blobs /\ v4' \subseteq Owners
  BY <1>1
<1> QED BY <1>6, <1>7, <1>9, <1>10, <1>11, <1>12, PicturesKept

LEMMA PicturesStep == PicturesOK /\ Pictures!Next => PicturesOK'
<1> SUFFICES ASSUME PicturesOK, Pictures!Next PROVE PicturesOK'
  OBVIOUS
<1>1. /\ v1 \in [Owners -> PictureRow]
      /\ v2 \subseteq v3 /\ v3 \subseteq Blobs /\ v4 \subseteq Owners
      /\ v5 \in [Calls -> UploadType]
      /\ Drawn(v1, v3) /\ Apart(v1) /\ ThereOrGoing(v1, v2, v4, v5)
      /\ \A d \in Calls : OldOf(v5[d], v1, v3) /\ NewOf(v5[d], v1, v2)
      /\ Private(v5)
  BY PicturesFacts
<1>2. OldOf(Pictures!Idle, v1, v3) /\ ~Entering(Pictures!Idle)
  BY PicturesIdle DEF OldOf, Entering
<1>3. ASSUME NEW c \in Calls, NEW o \in Owners, Pictures!UploadStart(c, o) \/ Pictures!RemoveStart(c, o)
      PROVE  PicturesOK'
  <2>1. PICK pc \in {"up_save", "rm_unset"} : Pictures!Start(c, pc, o) /\ UNCHANGED <<v1, v2, v3, v4>>
    BY <1>3 DEF Pictures!UploadStart, Pictures!RemoveStart
  <2> DEFINE rec == [pc |-> pc, owner |-> o, previous |-> v1[o].blob, blob |-> Nothing]
  <2>2. v5' = [v5 EXCEPT ![c] = rec] /\ v5[c].pc = "idle"
    BY <2>1 DEF Pictures!Start, Pictures!At
  <2>3. rec \in UploadType /\ ~Entering(rec)
    BY <1>1, <2>1 DEF UploadType, PictureRow, Pictures!Pcs, Entering
  <2>4. OldOf(rec, v1, v3)
    BY <1>1, <2>1 DEF OldOf, Drawn, Apart
  <2>5. rec.blob = Nothing /\ rec.previous = v1[o].blob
    OBVIOUS
  <2> HIDE DEF rec
  <2> QED BY <1>1, <2>1, <2>2, <2>3, <2>4, <2>5, PicturesMove
<1>4. ASSUME NEW c \in Calls, Pictures!UploadRefused(c) PROVE PicturesOK'
  <2>1. v5' = [v5 EXCEPT ![c] = Pictures!Idle] /\ UNCHANGED <<v1, v2, v3, v4>> /\ v5[c].pc = "up_save"
    BY <1>4 DEF Pictures!UploadRefused, Pictures!End, Pictures!At
  <2> QED BY <1>1, <1>2, <2>1, PicturesIdle, PicturesMove
<1>5. ASSUME NEW c \in Calls, Pictures!UploadSave(c) PROVE PicturesOK'
  <2>1. PICK b \in Blobs \ v3 :
          /\ v2' = v2 \cup {b} /\ v3' = v3 \cup {b} /\ UNCHANGED <<v1, v4>>
          /\ v5' = [v5 EXCEPT ![c].pc = "up_drop", ![c].blob = b] /\ v5[c].pc = "up_save"
    BY <1>5 DEF Pictures!UploadSave, Pictures!At
  <2> DEFINE rec == [v5[c] EXCEPT !.pc = "up_drop", !.blob = b]
  <2>2. v5' = [v5 EXCEPT ![c] = rec]
    BY <1>1, <2>1
  <2>3. /\ rec \in UploadType /\ rec.pc = "up_drop" /\ rec.blob = b
        /\ rec.previous = v5[c].previous /\ rec.owner = v5[c].owner
    BY <1>1, <2>1 DEF UploadType, Pictures!Pcs
  <2> HIDE DEF rec
  <2>4. v5'[c] = rec /\ \A d \in Calls \ {c} : v5'[d] = v5[d]
    BY <1>1, <2>2
  <2>5. b # Nothing /\ (\A o \in Owners : v1[o].blob # b) /\ \A d \in Calls : v5[d].previous # b
    BY <1>1, <2>1, PicturesIdle DEF Drawn, OldOf
  <2>6. Drawn(v1', v3') /\ Apart(v1')
    BY <1>1, <2>1 DEF Drawn
  <2>7. ThereOrGoing(v1', v2', v4', v5')
    BY <1>1, <2>1, <2>4 DEF ThereOrGoing
  <2>8. ASSUME NEW d \in Calls PROVE OldOf(v5'[d], v1', v3') /\ NewOf(v5'[d], v1', v2')
    <3>1. OldOf(v5[d], v1, v3) /\ NewOf(v5[d], v1, v2)
      BY <1>1
    <3>2. CASE d = c
      <4>1. OldOf(rec, v1, v3') /\ NewOf(rec, v1, v2')
        BY <2>1, <2>3, <2>5, <3>1, <3>2 DEF OldOf, NewOf
      <4> QED BY <2>1, <2>4, <3>2, <4>1
    <3>3. CASE d # c
      <4>1. OldOf(v5[d], v1, v3') /\ NewOf(v5[d], v1, v2')
        BY <2>1, <3>1 DEF OldOf, NewOf
      <4> QED BY <2>1, <2>4, <3>3, <4>1
    <3> QED BY <3>2, <3>3
  <2>9. Private(v5')
    <3> SUFFICES ASSUME NEW e \in Calls, NEW d \in Calls, Entering(v5'[e])
                 PROVE  /\ v5'[d].previous # v5'[e].blob
                        /\ v5'[d].blob = v5'[e].blob => e = d
      BY DEF Private
    <3>1. v5'[d].previous = v5[d].previous
      BY <2>3, <2>4
    <3>2. CASE e = c
      <4>1. v5[d].blob # b
        BY <1>1, <2>1, <2>5 DEF OldOf
      <4> QED BY <2>3, <2>4, <2>5, <3>1, <3>2, <4>1
    <3>3. CASE e # c
      <4>1. Entering(v5[e]) /\ v5[e].blob \in v2
        BY <1>1, <2>4, <3>3 DEF NewOf
      <4> QED BY <1>1, <2>1, <2>3, <2>4, <3>1, <3>3, <4>1 DEF Private
    <3> QED BY <3>2, <3>3
  <2>10. v2' \subseteq v3' /\ v3' \subseteq Blobs /\ v4' \subseteq Owners /\ v1' \in [Owners -> PictureRow]
         /\ v5' \in [Calls -> UploadType]
    BY <1>1, <2>1, <2>2, <2>3
  <2> QED BY <2>6, <2>7, <2>8, <2>9, <2>10, PicturesKept
<1>6. ASSUME NEW c \in Calls, Pictures!UploadDrop(c) PROVE PicturesOK'
  <2> DEFINE rec == [v5[c] EXCEPT !.pc = "up_write"]
  <2>1. v5' = [v5 EXCEPT ![c].pc = "up_write"] /\ v2' = v2 \ {v5[c].previous} /\ UNCHANGED <<v1, v3, v4>>
        /\ v5[c].pc = "up_drop"
    BY <1>6 DEF Pictures!UploadDrop, Pictures!Goto, Pictures!At
  <2>2. v5' = [v5 EXCEPT ![c] = rec]
    BY <1>1, <2>1
  <2>3. /\ rec \in UploadType /\ rec.pc = "up_write" /\ rec.blob = v5[c].blob
        /\ rec.previous = v5[c].previous /\ rec.owner = v5[c].owner
    BY <1>1, <2>1 DEF UploadType, Pictures!Pcs
  <2> HIDE DEF rec
  <2>4. OldOf(rec, v1, v3) /\ Entering(v5[c])
    BY <1>1, <2>1, <2>3 DEF OldOf, Entering
  <2> QED BY <1>1, <2>1, <2>2, <2>3, <2>4, PicturesMove
<1>7. ASSUME NEW c \in Calls, Pictures!UploadWriteUser(c) \/ Pictures!UploadWriteAdmin(c)
      PROVE  PicturesOK'
  <2>1. v5' = [v5 EXCEPT ![c] = Pictures!Idle] /\ UNCHANGED <<v2, v3, v4>> /\ v5[c].pc = "up_write"
        /\ v5[c].owner \in Owners
    BY <1>1, <1>7 DEF Pictures!UploadWriteUser, Pictures!UploadWriteAdmin, Pictures!End, Pictures!At, UploadType
  <2>2. PICK row \in PictureRow : v1' = [v1 EXCEPT ![v5[c].owner] = row] /\ row.blob = v5[c].blob
    <3>1. v5[c] \in UploadType /\ v1[v5[c].owner] \in PictureRow
      BY <1>1, <2>1
    <3>2. CASE Pictures!UploadWriteUser(c)
      <4>1. [blob |-> v5[c].blob, address |-> "upload"] \in PictureRow
        BY <3>1 DEF UploadType, PictureRow, Pictures!PictureUrls
      <4> QED BY <3>2, <4>1 DEF Pictures!UploadWriteUser, Pictures!Who
    <3>3. CASE Pictures!UploadWriteAdmin(c)
      <4> DEFINE row == [v1[v5[c].owner] EXCEPT !.blob = v5[c].blob]
      <4>1. row \in PictureRow /\ row.blob = v5[c].blob
        BY <3>1 DEF UploadType, PictureRow
      <4>2. v1' = [v1 EXCEPT ![v5[c].owner] = row]
        BY <3>3, <1>1, <2>1 DEF Pictures!UploadWriteAdmin, Pictures!Who
      <4> QED BY <4>1, <4>2
    <3> QED BY <1>7, <3>2, <3>3
  <2> QED BY <1>1, <1>2, <2>1, <2>2, PicturesIdle, PicturesWrite
<1>8. ASSUME NEW c \in Calls, Pictures!RemoveUser(c) \/ Pictures!RemoveAdmin(c)
      PROVE  PicturesOK'
  <2> DEFINE rec == [v5[c] EXCEPT !.pc = "rm_drop"]
  <2>1. v5' = [v5 EXCEPT ![c].pc = "rm_drop"] /\ UNCHANGED <<v2, v3, v4>> /\ v5[c].pc = "rm_unset"
        /\ v5[c].owner \in Owners
    BY <1>1, <1>8 DEF Pictures!RemoveUser, Pictures!RemoveAdmin, Pictures!Goto, Pictures!At, UploadType
  <2>2. v5' = [v5 EXCEPT ![c] = rec]
    BY <1>1, <2>1
  <2>3. /\ rec \in UploadType /\ rec.pc = "rm_drop" /\ rec.blob = v5[c].blob
        /\ rec.previous = v5[c].previous /\ rec.owner = v5[c].owner
    BY <1>1, <2>1 DEF UploadType, Pictures!Pcs
  <2>4. PICK row \in PictureRow : /\ v1' = [v1 EXCEPT ![v5[c].owner] = row] /\ row.blob = Nothing
                                  /\ v5[c].owner \in Officers \/ row.address # "upload"
    <3>1. v1[v5[c].owner] \in PictureRow
      BY <1>1, <2>1
    <3>2. CASE Pictures!RemoveUser(c)
      <4>1. Pictures!NoPicture \in PictureRow /\ Pictures!NoPicture.blob = Nothing
            /\ Pictures!NoPicture.address # "upload"
        BY DEF Pictures!NoPicture, PictureRow, Pictures!PictureUrls
      <4> QED BY <3>2, <4>1 DEF Pictures!RemoveUser, Pictures!Who
    <3>3. CASE Pictures!RemoveAdmin(c)
      <4> DEFINE row == [v1[v5[c].owner] EXCEPT !.blob = Nothing]
      <4>1. row \in PictureRow /\ row.blob = Nothing
        BY <3>1 DEF PictureRow
      <4>2. v1' = [v1 EXCEPT ![v5[c].owner] = row] /\ v5[c].owner \in Officers
        BY <3>3, <1>1, <2>1 DEF Pictures!RemoveAdmin, Pictures!Who
      <4> QED BY <4>1, <4>2
    <3> QED BY <1>8, <3>2, <3>3
  <2> HIDE DEF rec
  <2>5. ~Entering(rec)
    BY <2>3 DEF Entering
  <2> QED BY <1>1, <2>1, <2>2, <2>3, <2>4, <2>5, PicturesWrite
<1>9. ASSUME NEW c \in Calls, Pictures!RemoveDrop(c) PROVE PicturesOK'
  <2>1. /\ v5' = [v5 EXCEPT ![c] = Pictures!Idle] /\ UNCHANGED <<v1, v3, v4>> /\ v5[c].pc = "rm_drop"
        /\ v2' \in {v2, v2 \ {v5[c].previous}}
    BY <1>9 DEF Pictures!RemoveDrop, Pictures!End, Pictures!At
  <2> QED BY <1>1, <1>2, <2>1, PicturesIdle, PicturesMove
<1>10. ASSUME NEW c \in Calls, Pictures!Crash(c) PROVE PicturesOK'
  <2>1. /\ v5' = [v5 EXCEPT ![c] = Pictures!Idle] /\ UNCHANGED <<v1, v2, v3>>
        /\ v4' = IF v5[c].pc = "up_write" THEN v4 \cup {v5[c].owner} ELSE v4
    BY <1>10 DEF Pictures!Crash, Pictures!End, Pictures!At, Pictures!Who
  <2>2. v4' \subseteq Owners /\ v4 \subseteq v4' /\ (v5[c].pc = "up_write" => v5[c].owner \in v4')
    BY <1>1, <2>1 DEF UploadType
  <2> QED BY <1>1, <1>2, <2>1, <2>2, PicturesIdle, PicturesMove
<1>11. ASSUME NEW o \in Owners, Pictures!TypeAddress(o) PROVE PicturesOK'
  <2> DEFINE row == [v1[o] EXCEPT !.address = "typed"]
  <2>1. v1' = [v1 EXCEPT ![o].address = "typed"] /\ UNCHANGED <<v2, v3, v4, v5>>
    BY <1>11 DEF Pictures!TypeAddress
  <2>2. v1' = [v1 EXCEPT ![o] = row]
    BY <1>1, <2>1
  <2>3. row \in PictureRow /\ row.blob = v1[o].blob /\ row.address # "upload"
    BY <1>1 DEF PictureRow, Pictures!PictureUrls
  <2> HIDE DEF row
  <2>4. v1' \in [Owners -> PictureRow] /\ \A q \in Owners : v1'[q].blob = v1[q].blob
    BY <1>1, <2>2, <2>3
  <2>5. \A q \in Owners : v1'[q].address = "upload" => v1[q].address = "upload"
    BY <1>1, <2>2, <2>3
  <2>6. Drawn(v1', v3')
    BY <1>1, <2>1, <2>4, <2>5 DEF Drawn
  <2>7. Apart(v1')
    BY <1>1, <2>4 DEF Apart
  <2>8. ThereOrGoing(v1', v2', v4', v5')
    BY <1>1, <2>1, <2>4 DEF ThereOrGoing
  <2>9. \A c \in Calls : OldOf(v5'[c], v1', v3') /\ NewOf(v5'[c], v1', v2')
    BY <1>1, <2>1, <2>4 DEF OldOf, NewOf
  <2>10. /\ v2' \subseteq v3' /\ v3' \subseteq Blobs /\ v4' \subseteq Owners
         /\ v5' \in [Calls -> UploadType] /\ Private(v5')
    BY <1>1, <2>1
  <2> QED BY <2>4, <2>6, <2>7, <2>8, <2>9, <2>10, PicturesKept
<1> QED BY <1>3, <1>4, <1>5, <1>6, <1>7, <1>8, <1>9, <1>10, <1>11 DEF Pictures!Next

LEMMA PicturesStay == PicturesOK /\ UNCHANGED <<v1, v2, v3, v4, v5>> => PicturesOK'
<1> SUFFICES ASSUME PicturesOK, UNCHANGED <<v1, v2, v3, v4, v5>> PROVE PicturesOK'
  OBVIOUS
<1>1. /\ v1 \in [Owners -> PictureRow]
      /\ v2 \subseteq v3 /\ v3 \subseteq Blobs /\ v4 \subseteq Owners
      /\ v5 \in [Calls -> UploadType]
      /\ Drawn(v1, v3) /\ Apart(v1) /\ ThereOrGoing(v1, v2, v4, v5)
      /\ \A d \in Calls : OldOf(v5[d], v1, v3) /\ NewOf(v5[d], v1, v2)
      /\ Private(v5)
  BY PicturesFacts
<1> QED BY <1>1, PicturesKept

LEMMA PicturesGood == PicturesOK => Pictures!PictureOpens
<1> SUFFICES ASSUME PicturesOK PROVE Pictures!PictureOpens
  OBVIOUS
<1>1. Drawn(v1, v3) /\ ThereOrGoing(v1, v2, v4, v5)
  BY PicturesFacts
<1> SUFFICES ASSUME NEW o \in Owners \ v4, \A c \in Calls : v5[c].pc = "idle" \/ v5[c].owner # o,
                    IF o \in Officers THEN v1[o].blob # Nothing ELSE v1[o].address = "upload"
             PROVE  v1[o].blob \in v2
  BY DEF Pictures!PictureOpens, Pictures!At, Pictures!Who, Pictures!ShowsAdmin, Pictures!ShowsUser, Pictures!Opens
<1>2. v1[o].blob # Nothing
  BY <1>1 DEF Drawn
<1> QED BY <1>1, <1>2 DEF ThereOrGoing

-----------------------------------------------------------------------------
\* Platform: staff, directory, founded, careless and admitting are v1 to v5.
PlatformOK == Platform!TypeOK /\ Platform!StaffInv

StaffRow == [email: Addresses, status: Platform!Statuses]
AdmitType == [pc: Platform!Pcs, op: Platform!Ops, who: Staffers \cup {"none"}, email: Addresses,
              status: Platform!Statuses]
RowsOf(staff) == {i \in Staffers : staff[i] # Platform!NoRow}
HeldIn(staff, e) == \E i \in RowsOf(staff) : staff[i].email = e
OneAtATime == {"delete", "seed", "profile"}

\* The parts of the invariant, of the rows, the directory and the calls they name.
Told(call, staff, known) ==
  /\ call.pc \in {"se_directory", "se_insert"} => call.op = "seed"
  /\ call.pc \in {"pr_directory", "pr_write"} => call.op = "profile"
  /\ call.pc = "de_delete" => call.op = "delete" /\ RowsOf(staff) \ {call.who} # {}
  /\ call.pc \in {"se_insert", "pr_write"} => call.email \notin known
InTurn(admitting) ==
  \A c \in Calls : admitting[c].pc # "idle" /\ admitting[c].op \in OneAtATime =>
    \A o \in Calls \ {c} : admitting[o].pc = "idle"
Manned(staff, founded) == founded => RowsOf(staff) # {}
Warned(staff, known, careless) ==
  \A e \in Addresses : e \in known /\ HeldIn(staff, e) => e \in careless

LEMMA PlatformFacts ==
  PlatformOK <=> /\ v1 \in [Staffers -> StaffRow \cup {Platform!NoRow}]
                 /\ v2 \subseteq Addresses /\ v3 \in BOOLEAN /\ v4 \subseteq Addresses
                 /\ v5 \in [Calls -> AdmitType]
                 /\ Manned(v1, v3) /\ Warned(v1, v2, v4) /\ InTurn(v5)
                 /\ \A c \in Calls : Told(v5[c], v1, v2)
<1>1. Platform!TypeOK <=> /\ v1 \in [Staffers -> StaffRow \cup {Platform!NoRow}]
                          /\ v2 \subseteq Addresses /\ v3 \in BOOLEAN /\ v4 \subseteq Addresses
                          /\ v5 \in [Calls -> AdmitType]
  BY DEF Platform!TypeOK, StaffRow, AdmitType
<1>2. Platform!StaffInv <=> /\ Manned(v1, v3) /\ Warned(v1, v2, v4) /\ InTurn(v5)
                            /\ \A c \in Calls : Told(v5[c], v1, v2)
  BY DEF Platform!StaffInv, Platform!At, Platform!Rows, Platform!Held, Platform!ShutOut,
         Platform!StaffRemains, Platform!NobodyShutOut, Told, InTurn, Manned, Warned, RowsOf, HeldIn,
         OneAtATime
<1> QED BY <1>1, <1>2 DEF PlatformOK

LEMMA PlatformKept ==
  ASSUME v1' \in [Staffers -> StaffRow \cup {Platform!NoRow}],
         v2' \subseteq Addresses, v3' \in BOOLEAN, v4' \subseteq Addresses, v5' \in [Calls -> AdmitType],
         Manned(v1', v3'), Warned(v1', v2', v4'), InTurn(v5'),
         \A c \in Calls : Told(v5'[c], v1', v2')
  PROVE  PlatformOK'
<1>1. Platform!TypeOK'
  BY DEF Platform!TypeOK, StaffRow, AdmitType
<1>2. Platform!StaffInv'
  BY DEF Platform!StaffInv, Platform!At, Platform!Rows, Platform!Held, Platform!ShutOut,
         Platform!StaffRemains, Platform!NobodyShutOut, Told, InTurn, Manned, Warned, RowsOf, HeldIn,
         OneAtATime
<1> QED BY <1>1, <1>2 DEF PlatformOK

LEMMA PlatformIdle == Platform!Idle \in AdmitType /\ Platform!Idle.pc = "idle" /\ Configured \in Addresses
BY DesksAssumption DEF Platform!StaffAssumption, Platform!Idle, AdmitType, Platform!Pcs, Platform!Ops,
   Platform!Statuses

LEMMA PlatformInit == Platform!Init => PlatformOK
<1> SUFFICES ASSUME Platform!Init PROVE PlatformOK
  OBVIOUS
<1>1. /\ v1 = [i \in Staffers |-> Platform!NoRow] /\ v2 = {} /\ v3 = FALSE /\ v4 = {}
      /\ v5 = [c \in Calls |-> Platform!Idle]
  BY DEF Platform!Init
<1>2. Manned(v1, v3) /\ Warned(v1, v2, v4)
  BY <1>1 DEF Manned, Warned
<1>3. InTurn(v5) /\ \A c \in Calls : Told(v5[c], v1, v2)
  BY <1>1, PlatformIdle DEF InTurn, Told
<1>4. v1 \in [Staffers -> StaffRow \cup {Platform!NoRow}] /\ v5 \in [Calls -> AdmitType]
  BY <1>1, PlatformIdle
<1> QED BY <1>1, <1>2, <1>3, <1>4, PlatformFacts

\* A call moves to rec and nothing else changes.
LEMMA PlatformMove ==
  ASSUME PlatformOK, NEW c \in Calls, NEW rec \in AdmitType, v5' = [v5 EXCEPT ![c] = rec],
         UNCHANGED <<v1, v2, v3, v4>>, Told(rec, v1, v2),
         \/ rec.pc = "idle"
         \/ rec.op = v5[c].op /\ v5[c].pc # "idle"
         \/ \A o \in Calls : v5[o].pc = "idle" \/ (rec.op \notin OneAtATime /\ v5[o].op \notin OneAtATime)
  PROVE  PlatformOK'
<1>1. /\ v1 \in [Staffers -> StaffRow \cup {Platform!NoRow}]
      /\ v2 \subseteq Addresses /\ v3 \in BOOLEAN /\ v4 \subseteq Addresses
      /\ v5 \in [Calls -> AdmitType]
      /\ Manned(v1, v3) /\ Warned(v1, v2, v4) /\ InTurn(v5)
      /\ \A d \in Calls : Told(v5[d], v1, v2)
  BY PlatformFacts
<1>2. v5'[c] = rec /\ \A d \in Calls \ {c} : v5'[d] = v5[d]
  BY <1>1
<1>3. \A d \in Calls : Told(v5'[d], v1', v2')
  BY <1>1, <1>2
<1>4. InTurn(v5')
  <2> SUFFICES ASSUME NEW d \in Calls, v5'[d].pc # "idle", v5'[d].op \in OneAtATime,
                      NEW o \in Calls \ {d}
               PROVE  v5'[o].pc = "idle"
    BY DEF InTurn
  <2>1. CASE d = c
    BY <1>1, <1>2, <2>1 DEF InTurn
  <2>2. CASE o = c
    BY <1>1, <1>2, <2>2 DEF InTurn
  <2>3. CASE d # c /\ o # c
    BY <1>1, <1>2, <2>3 DEF InTurn
  <2> QED BY <2>1, <2>2, <2>3
<1>5. v5' \in [Calls -> AdmitType]
  BY <1>1
<1>6. Manned(v1', v3') /\ Warned(v1', v2', v4')
  BY <1>1
<1> QED BY <1>1, <1>3, <1>4, <1>5, <1>6, PlatformKept

\* A call ends and writes the rows; what another call is told of them was told alone.
LEMMA PlatformWrite ==
  ASSUME PlatformOK, NEW c \in Calls, v5[c].pc # "idle", v5' = [v5 EXCEPT ![c] = Platform!Idle],
         v1' \in [Staffers -> StaffRow \cup {Platform!NoRow}], v3' \in BOOLEAN, v4' \subseteq Addresses,
         UNCHANGED v2, Manned(v1', v3'), Warned(v1', v2, v4')
  PROVE  PlatformOK'
<1>1. /\ v2 \subseteq Addresses
      /\ v5 \in [Calls -> AdmitType] /\ InTurn(v5)
      /\ \A d \in Calls : Told(v5[d], v1, v2)
  BY PlatformFacts
<1>2. v5'[c] = Platform!Idle /\ \A d \in Calls \ {c} : v5'[d] = v5[d]
  BY <1>1
<1>3. ASSUME NEW d \in Calls PROVE Told(v5'[d], v1', v2')
  <2>1. CASE d = c
    BY <1>2, <2>1, PlatformIdle DEF Told
  <2>2. CASE d # c
    <3>1. v5[d].pc # "de_delete"
      BY <1>1, <2>2 DEF InTurn, Told, OneAtATime
    <3>2. v5'[d] = v5[d] /\ v2' = v2 /\ Told(v5[d], v1, v2)
      BY <1>1, <1>2, <2>2
    <3> QED BY <3>1, <3>2 DEF Told
  <2> QED BY <2>1, <2>2
<1>4. InTurn(v5')
  BY <1>1, <1>2, PlatformIdle DEF InTurn
<1>5. v5' \in [Calls -> AdmitType] /\ v2' \subseteq Addresses
  BY <1>1, PlatformIdle
<1>6. Warned(v1', v2', v4')
  BY DEF Warned
<1> QED BY <1>3, <1>4, <1>5, <1>6, PlatformKept

\* Insert, with the address unknown in the directory or counted as careless.
LEMMA PlatformInsert ==
  ASSUME PlatformOK, NEW c \in Calls, v5[c].pc # "idle", NEW e \in Addresses, Platform!Insert(c, e),
         v4' = v4 \/ v4' = v4 \cup {e},
         e \in v2 /\ ~HeldIn(v1, e) => e \in v4'
  PROVE  PlatformOK'
<1>1. /\ v1 \in [Staffers -> StaffRow \cup {Platform!NoRow}]
      /\ v2 \subseteq Addresses /\ v3 \in BOOLEAN /\ v4 \subseteq Addresses
      /\ Manned(v1, v3) /\ Warned(v1, v2, v4)
  BY PlatformFacts
<1>2. v5' = [v5 EXCEPT ![c] = Platform!Idle] /\ v2' = v2
  BY DEF Platform!Insert, Platform!End
<1>3. CASE UNCHANGED <<v1, v3>> /\ HeldIn(v1, e)
  <2>1. Manned(v1', v3') /\ Warned(v1', v2, v4')
    BY <1>1, <1>3 DEF Warned
  <2> QED BY <1>1, <1>2, <1>3, <2>1, PlatformWrite
<1>4. CASE /\ ~HeldIn(v1, e) /\ v3' = TRUE
           /\ \E i \in Staffers : v1' = [v1 EXCEPT ![i] = [email |-> e, status |-> "active"]]
  <2>1. PICK i \in Staffers : v1' = [v1 EXCEPT ![i] = [email |-> e, status |-> "active"]]
    BY <1>4
  <2> DEFINE row == [email |-> e, status |-> "active"]
  <2>2. row \in StaffRow /\ row # Platform!NoRow /\ row.email = e
    BY DEF StaffRow, Platform!Statuses, Platform!NoRow
  <2> HIDE DEF row
  <2>3. v1' \in [Staffers -> StaffRow \cup {Platform!NoRow}] /\ v1'[i] = row
        /\ \A q \in Staffers \ {i} : v1'[q] = v1[q]
    BY <1>1, <2>1, <2>2 DEF row
  <2>4. Manned(v1', v3')
    BY <2>2, <2>3 DEF Manned, RowsOf
  <2>5. Warned(v1', v2, v4')
    <3> SUFFICES ASSUME NEW f \in v2, NEW q \in Staffers, v1'[q] # Platform!NoRow, v1'[q].email = f
                 PROVE  f \in v4'
      BY DEF Warned, HeldIn, RowsOf
    <3>1. CASE q = i
      BY <1>4, <2>2, <2>3, <3>1
    <3>2. CASE q # i
      BY <1>1, <2>3, <3>2 DEF Warned, HeldIn, RowsOf
    <3> QED BY <3>1, <3>2
  <2>6. v3' \in BOOLEAN /\ v4' \subseteq Addresses
    BY <1>1, <1>4
  <2> QED BY <1>2, <2>3, <2>4, <2>5, <2>6, PlatformWrite
<1> QED
  <2>1. Platform!Held(e) <=> HeldIn(v1, e)
    BY DEF Platform!Held, HeldIn, Platform!Rows, RowsOf
  <2> QED BY <1>3, <1>4, <2>1 DEF Platform!Insert

LEMMA PlatformStep == PlatformOK /\ Platform!Next => PlatformOK'
<1> SUFFICES ASSUME PlatformOK, Platform!Next PROVE PlatformOK'
  OBVIOUS
<1>1. /\ v1 \in [Staffers -> StaffRow \cup {Platform!NoRow}]
      /\ v2 \subseteq Addresses /\ v3 \in BOOLEAN /\ v4 \subseteq Addresses
      /\ v5 \in [Calls -> AdmitType]
      /\ Manned(v1, v3) /\ Warned(v1, v2, v4) /\ InTurn(v5)
      /\ \A d \in Calls : Told(v5[d], v1, v2)
  BY PlatformFacts
<1>2. Told(Platform!Idle, v1, v2)
  BY PlatformIdle DEF Told
<1>3. ASSUME NEW c \in Calls, NEW op \in Platform!Ops, NEW pc \in Platform!Pcs, NEW e \in Addresses,
             NEW i \in Staffers \cup {"none"}, NEW st \in Platform!Statuses,
             Platform!Start(c, op, pc, i, e, st), UNCHANGED <<v1, v2, v3, v4>>,
             \/ op = "seed" /\ pc = "se_directory"
             \/ op = "profile" /\ pc = "pr_directory"
             \/ op = "delete" /\ pc = "de_delete" /\ RowsOf(v1) \ {i} # {}
             \/ pc \in {"st_insert", "cr_insert", "up_write"}
      PROVE  PlatformOK'
  <2> DEFINE rec == [pc |-> pc, op |-> op, who |-> i, email |-> e, status |-> st]
  <2>1. rec \in AdmitType /\ rec.op = op /\ rec.pc = pc /\ rec.who = i /\ rec.email = e
    BY DEF AdmitType
  <2>2. v5' = [v5 EXCEPT ![c] = rec]
    BY <1>3 DEF Platform!Start
  <2>3. \A o \in Calls : v5[o].pc = "idle" \/ (op \notin OneAtATime /\ v5[o].op \notin OneAtATime)
    BY <1>3 DEF Platform!Start, Platform!At, OneAtATime
  <2> HIDE DEF rec
  <2>4. Told(rec, v1, v2)
    BY <1>3, <2>1 DEF Told
  <2> QED BY <1>3, <2>1, <2>2, <2>3, <2>4, PlatformMove
<1>4. /\ {"seed", "setup", "create", "update", "delete", "profile"} \subseteq Platform!Ops
      /\ {"se_directory", "st_insert", "cr_insert", "up_write", "de_delete", "pr_directory"} \subseteq Platform!Pcs
      /\ "active" \in Platform!Statuses
  BY DEF Platform!Ops, Platform!Pcs, Platform!Statuses
<1>5. ASSUME NEW c \in Calls, Platform!Boot(c) PROVE PlatformOK'
  <2>1. Platform!Start(c, "seed", "se_directory", "none", Configured, "active") /\ UNCHANGED <<v1, v2, v3, v4>>
    BY <1>5 DEF Platform!Boot
  <2>2. "none" \in Staffers \cup {"none"} /\ "seed" \in Platform!Ops /\ "se_directory" \in Platform!Pcs
        /\ "active" \in Platform!Statuses /\ Configured \in Addresses
    BY <1>4, PlatformIdle
  <2> DEFINE rec == [pc |-> "se_directory", op |-> "seed", who |-> "none", email |-> Configured,
                     status |-> "active"]
  <2>3. v5' = [v5 EXCEPT ![c] = rec]
    BY <2>1 DEF Platform!Start
  <2>4. \A o \in Calls : v5[o].pc = "idle" \/ (rec.op \notin OneAtATime /\ v5[o].op \notin OneAtATime)
    BY <2>1 DEF Platform!Start, Platform!At, OneAtATime
  <2>5. rec \in AdmitType /\ Told(rec, v1, v2)
    BY <2>2 DEF AdmitType, Told
  <2> HIDE DEF rec
  <2> QED BY <2>1, <2>3, <2>4, <2>5, PlatformMove
<1>6. ASSUME NEW c \in Calls, NEW e \in Addresses, Platform!SetUp(c, e) PROVE PlatformOK'
  <2>1. "none" \in Staffers \cup {"none"} /\ "setup" \in Platform!Ops /\ "st_insert" \in Platform!Pcs
        /\ "active" \in Platform!Statuses
    BY <1>4
  <2> QED BY <1>3, <1>6, <2>1 DEF Platform!SetUp
<1>7. ASSUME NEW c \in Calls, NEW e \in Addresses, NEW i \in Staffers,
             Platform!CreateStart(c, i, e) \/ Platform!ProfileStart(c, i, e)
      PROVE  PlatformOK'
  BY <1>3, <1>4, <1>7 DEF Platform!CreateStart, Platform!ProfileStart
<1>8. ASSUME NEW c \in Calls, NEW by \in Staffers, NEW i \in Staffers, NEW st \in Platform!Statuses,
             Platform!UpdateStart(c, by, i, st)
      PROVE  PlatformOK'
  BY <1>3, <1>4, <1>8, PlatformIdle DEF Platform!UpdateStart
<1>9. ASSUME NEW c \in Calls, NEW by \in Staffers, NEW i \in Staffers, Platform!DeleteStart(c, by, i)
      PROVE  PlatformOK'
  <2>1. Platform!Start(c, "delete", "de_delete", i, Configured, "active") /\ UNCHANGED <<v1, v2, v3, v4>>
    BY <1>9 DEF Platform!DeleteStart
  <2>2. by \in RowsOf(v1) \ {i}
    BY <1>9 DEF Platform!DeleteStart, Platform!MayCall, Platform!MayDelete, Platform!Rows, RowsOf
  <2> QED BY <1>3, <1>4, <2>1, <2>2, PlatformIdle
<1>10. ASSUME NEW c \in Calls, NEW pc \in Platform!Pcs, v5[c].pc # "idle",
              Platform!Goto(c, pc), UNCHANGED <<v1, v2, v3, v4>>,
              \/ v5[c].pc = "se_directory" /\ pc = "se_insert"
              \/ v5[c].pc = "pr_directory" /\ pc = "pr_write",
              v5[c].email \notin v2
       PROVE  PlatformOK'
  <2> DEFINE rec == [v5[c] EXCEPT !.pc = pc]
  <2>1. v5[c] \in AdmitType /\ Told(v5[c], v1, v2)
    BY <1>1
  <2>2. rec \in AdmitType /\ rec.pc = pc /\ rec.op = v5[c].op /\ rec.email = v5[c].email
    BY <2>1 DEF AdmitType
  <2>3. v5' = [v5 EXCEPT ![c] = rec]
    BY <1>1, <1>10 DEF Platform!Goto
  <2> HIDE DEF rec
  <2>4. Told(rec, v1, v2)
    BY <1>10, <2>1, <2>2 DEF Told
  <2> QED BY <1>10, <2>2, <2>3, <2>4, PlatformMove
<1>11. ASSUME NEW c \in Calls, Platform!End(c), UNCHANGED <<v1, v2, v3, v4>>
       PROVE  PlatformOK'
  BY <1>2, <1>11, PlatformIdle, PlatformMove DEF Platform!End
<1>12. ASSUME NEW c \in Calls, Platform!SeedLooksAround(c) \/ Platform!ProfileLooksAround(c)
       PROVE  PlatformOK'
  <2>1. "se_insert" \in Platform!Pcs /\ "pr_write" \in Platform!Pcs
    BY DEF Platform!Pcs
  <2> QED BY <1>10, <1>11, <1>12, <2>1 DEF Platform!SeedLooksAround, Platform!ProfileLooksAround, Platform!At,
                                           Platform!FreeInDirectory
<1>13. ASSUME NEW c \in Calls, Platform!SeedInsert(c) PROVE PlatformOK'
  <2>1. v5[c].pc = "se_insert" /\ v5[c].email \in Addresses /\ v5[c].email \notin v2
    BY <1>1, <1>13 DEF Platform!SeedInsert, Platform!At, Told, AdmitType
  <2> QED BY <1>13, <2>1, PlatformInsert DEF Platform!SeedInsert
<1>14. ASSUME NEW c \in Calls, Platform!SetUpInsert(c) \/ Platform!CreateInsert(c) PROVE PlatformOK'
  <2>1. v5[c].pc # "idle" /\ v5[c].email \in Addresses /\ Platform!Insert(c, v5[c].email)
        /\ v4' = Platform!Doubled(v5[c].email)
    BY <1>1, <1>14 DEF Platform!SetUpInsert, Platform!CreateInsert, Platform!At, AdmitType
  <2>2. (v4' = v4 \/ v4' = v4 \cup {v5[c].email})
        /\ (v5[c].email \in v2 /\ ~HeldIn(v1, v5[c].email) => v5[c].email \in v4')
    BY <2>1 DEF Platform!Doubled, Platform!Held, HeldIn, Platform!Rows, RowsOf
  <2> QED BY <2>1, <2>2, PlatformInsert
<1>15. ASSUME NEW c \in Calls, Platform!UpdateWrite(c) PROVE PlatformOK'
  <2>1. v5[c].pc = "up_write" /\ UNCHANGED <<v2, v3, v4>> /\ v5' = [v5 EXCEPT ![c] = Platform!Idle]
    BY <1>15 DEF Platform!UpdateWrite, Platform!At, Platform!End
  <2>2. CASE v5[c].who \in RowsOf(v1)
    <3> DEFINE w == v5[c].who
    <3> DEFINE row == [v1[w] EXCEPT !.status = v5[c].status]
    <3>1. v1[w] \in StaffRow /\ v5[c].status \in Platform!Statuses /\ w \in Staffers
      BY <1>1, <2>2 DEF AdmitType, RowsOf
    <3>2. row \in StaffRow /\ row.email = v1[w].email /\ row # Platform!NoRow
      BY <3>1 DEF StaffRow, Platform!NoRow, Platform!Statuses
    <3>3. v1' = [v1 EXCEPT ![w] = row]
      BY <1>1, <1>15, <2>2, <3>1 DEF Platform!UpdateWrite, Platform!Rows, RowsOf
    <3> HIDE DEF row
    <3>4. v1'[w] = row /\ \A q \in Staffers \ {w} : v1'[q] = v1[q]
      BY <1>1, <3>1, <3>3
    <3>5. RowsOf(v1') = RowsOf(v1) /\ \A q \in Staffers : v1'[q].email = v1[q].email
      BY <2>2, <3>1, <3>2, <3>4 DEF RowsOf
    <3>6. Manned(v1', v3') /\ Warned(v1', v2, v4')
      BY <1>1, <2>1, <3>5 DEF Manned, Warned, HeldIn, RowsOf
    <3>7. v1' \in [Staffers -> StaffRow \cup {Platform!NoRow}]
      BY <1>1, <3>2, <3>3
    <3> QED BY <1>1, <2>1, <3>6, <3>7, PlatformWrite
  <2>3. CASE v5[c].who \notin RowsOf(v1)
    <3>1. v1' = v1
      BY <1>15, <2>3 DEF Platform!UpdateWrite, Platform!Rows, RowsOf
    <3> QED BY <1>1, <2>1, <3>1, PlatformWrite
  <2> QED BY <2>2, <2>3
<1>16. ASSUME NEW c \in Calls, Platform!DeleteRow(c) PROVE PlatformOK'
  <2>1. /\ v5[c].pc = "de_delete" /\ UNCHANGED <<v2, v3, v4>> /\ v5' = [v5 EXCEPT ![c] = Platform!Idle]
        /\ v1' = [v1 EXCEPT ![v5[c].who] = Platform!NoRow]
    BY <1>16 DEF Platform!DeleteRow, Platform!At, Platform!End
  <2>2. RowsOf(v1) \ {v5[c].who} # {}
    BY <1>1, <2>1 DEF Told
  <2>3. RowsOf(v1') = RowsOf(v1) \ {v5[c].who} /\ \A q \in RowsOf(v1') : v1'[q] = v1[q]
    BY <1>1, <2>1 DEF RowsOf
  <2>4. Manned(v1', v3') /\ Warned(v1', v2, v4')
    BY <1>1, <2>1, <2>2, <2>3 DEF Manned, Warned, HeldIn
  <2>5. v1' \in [Staffers -> StaffRow \cup {Platform!NoRow}]
    BY <1>1, <2>1
  <2> QED BY <1>1, <2>1, <2>4, <2>5, PlatformWrite
<1>17. ASSUME NEW c \in Calls, Platform!ProfileWrite(c) PROVE PlatformOK'
  <2>1. v5[c].pc = "pr_write" /\ UNCHANGED <<v2, v3, v4>> /\ v5' = [v5 EXCEPT ![c] = Platform!Idle]
    BY <1>17 DEF Platform!ProfileWrite, Platform!At, Platform!End
  <2>2. CASE v1' = v1
    BY <1>1, <2>1, <2>2, PlatformWrite
  <2>3. CASE /\ v5[c].who \in RowsOf(v1)
             /\ v1' = [v1 EXCEPT ![v5[c].who].email = v5[c].email]
    <3> DEFINE w == v5[c].who
    <3> DEFINE row == [v1[w] EXCEPT !.email = v5[c].email]
    <3>1. v1[w] \in StaffRow /\ v5[c].email \in Addresses /\ w \in Staffers /\ v5[c].email \notin v2
      BY <1>1, <2>1, <2>3 DEF AdmitType, RowsOf, Told
    <3>2. row \in StaffRow /\ row.email = v5[c].email /\ row # Platform!NoRow
      BY <3>1 DEF StaffRow, Platform!NoRow, Platform!Statuses
    <3>3. v1' = [v1 EXCEPT ![w] = row]
      BY <1>1, <2>3, <3>1
    <3> HIDE DEF row
    <3>4. v1'[w] = row /\ \A q \in Staffers \ {w} : v1'[q] = v1[q]
      BY <1>1, <3>1, <3>3
    <3>5. RowsOf(v1') = RowsOf(v1)
      BY <2>3, <3>1, <3>2, <3>4 DEF RowsOf
    <3>6. Manned(v1', v3')
      BY <1>1, <2>1, <3>5 DEF Manned
    <3>7. Warned(v1', v2, v4')
      <4> SUFFICES ASSUME NEW f \in v2, NEW q \in RowsOf(v1), v1'[q].email = f
                   PROVE  f \in v4
        BY <2>1, <3>5 DEF Warned, HeldIn
      <4>1. q # w /\ q \in Staffers /\ f \in Addresses
        BY <1>1, <3>1, <3>2, <3>4 DEF RowsOf
      <4> QED BY <1>1, <3>4, <4>1 DEF Warned, HeldIn
    <3>8. v1' \in [Staffers -> StaffRow \cup {Platform!NoRow}]
      BY <1>1, <3>2, <3>3
    <3> QED BY <1>1, <2>1, <3>6, <3>7, <3>8, PlatformWrite
  <2> QED BY <1>17, <2>2, <2>3 DEF Platform!ProfileWrite, Platform!Rows, RowsOf
<1>18. ASSUME NEW e \in Addresses, Platform!Enrol(e) PROVE PlatformOK'
  <2>1. /\ v2' = v2 \cup {e} /\ UNCHANGED <<v1, v3, v5>> /\ v4 \subseteq v4' /\ v4' \subseteq Addresses
        /\ HeldIn(v1, e) => e \in v4'
        /\ \A c \in Calls : v5[c].op \in OneAtATime => v5[c].pc = "idle"
    BY <1>1, <1>18 DEF Platform!Enrol, Platform!Held, Platform!Rows, Platform!At, HeldIn, RowsOf, OneAtATime
  <2>2. ASSUME NEW c \in Calls PROVE Told(v5'[c], v1', v2')
    <3>1. Told(v5[c], v1, v2) /\ (v5[c].op \in OneAtATime => v5[c].pc = "idle")
      BY <1>1, <2>1
    <3> QED BY <2>1, <3>1 DEF Told, OneAtATime
  <2>3. Warned(v1', v2', v4')
    BY <1>1, <2>1 DEF Warned
  <2>4. Manned(v1', v3') /\ InTurn(v5') /\ v2' \subseteq Addresses
    BY <1>1, <2>1
  <2> QED BY <1>1, <2>1, <2>2, <2>3, <2>4, PlatformKept
<1> QED BY <1>5, <1>6, <1>7, <1>8, <1>9, <1>12, <1>13, <1>14, <1>15, <1>16, <1>17, <1>18 DEF Platform!Next

LEMMA PlatformStay == PlatformOK /\ UNCHANGED <<v1, v2, v3, v4, v5>> => PlatformOK'
<1> SUFFICES ASSUME PlatformOK, UNCHANGED <<v1, v2, v3, v4, v5>> PROVE PlatformOK'
  OBVIOUS
<1>1. /\ v1 \in [Staffers -> StaffRow \cup {Platform!NoRow}]
      /\ v2 \subseteq Addresses /\ v3 \in BOOLEAN /\ v4 \subseteq Addresses
      /\ v5 \in [Calls -> AdmitType]
      /\ Manned(v1, v3) /\ Warned(v1, v2, v4) /\ InTurn(v5)
      /\ \A d \in Calls : Told(v5[d], v1, v2)
  BY PlatformFacts
<1> QED BY <1>1, PlatformKept

-----------------------------------------------------------------------------
\* The desks together.

\* The first desk alone is Membership: the others leave its variables be.
LEMMA AsMembership == PeopleSpec => Spec
<1>1. PeopleInit => Init
  BY DEF PeopleInit
<1>2. [PeopleNext]_peopleVars => [Next]_vars
  BY DEF PeopleNext, AtMembers, AtPasswords, AtCodes, AtConsole, AtShown, AtMoved, AtPictures, AtPlatform,
         peopleVars
<1> QED BY <1>1, <1>2, PTL DEF PeopleSpec, Spec

\* The inductive invariant of every desk.
DesksOK ==
  /\ desk = "passwords" => SignHolds("passwords")
  /\ desk = "codes" => SignHolds("codes")
  /\ desk = "console" => SignHolds("console")
  /\ desk = "shown" => LoadOK("shown")
  /\ desk = "moved" => LoadOK("moved")
  /\ desk = "pictures" => PicturesOK
  /\ desk = "platform" => PlatformOK

LEMMA DesksInit == PeopleInit => DesksOK
<1> SUFFICES ASSUME PeopleInit PROVE DesksOK
  OBVIOUS
<1>1. CASE desk = "members"
  BY <1>1 DEF DesksOK
<1>2. CASE desk = "passwords"
  BY <1>2, SignHoldsInit, DesksAssumption DEF PeopleInit, DesksOK
<1>3. CASE desk = "codes"
  BY <1>3, SignHoldsInit, DesksAssumption DEF PeopleInit, DesksOK
<1>4. CASE desk = "console"
  BY <1>4, SignHoldsInit, DesksAssumption DEF PeopleInit, DesksOK
<1>5. CASE desk = "shown"
  BY <1>5, LoadInit, DesksAssumption DEF PeopleInit, DesksOK
<1>6. CASE desk = "moved"
  BY <1>6, LoadInit, DesksAssumption DEF PeopleInit, DesksOK
<1>7. CASE desk = "pictures"
  BY <1>7, PicturesInit DEF PeopleInit, DesksOK
<1>8. CASE desk = "platform"
  BY <1>8, PlatformInit DEF PeopleInit, DesksOK
<1>9. desk \in {"members", "passwords", "codes", "console", "shown", "moved", "pictures", "platform"}
  BY DEF PeopleInit
<1> QED BY <1>1, <1>2, <1>3, <1>4, <1>5, <1>6, <1>7, <1>8, <1>9

LEMMA DesksStep == DesksOK /\ [PeopleNext]_peopleVars => DesksOK'
<1> SUFFICES ASSUME DesksOK, [PeopleNext]_peopleVars PROVE DesksOK'
  OBVIOUS
<1>1. CASE AtMembers
  BY <1>1 DEF AtMembers, DesksOK
<1>2. CASE AtPasswords
  <2>1. SignHolds("passwords")'
    BY <1>2, SignHoldsStep, DesksAssumption DEF AtPasswords, DesksOK
  <2> QED BY <1>2, <2>1 DEF AtPasswords, DesksOK
<1>3. CASE AtCodes
  <2>1. SignHolds("codes")'
    BY <1>3, SignHoldsStep, DesksAssumption DEF AtCodes, DesksOK
  <2> QED BY <1>3, <2>1 DEF AtCodes, DesksOK
<1>4. CASE AtConsole
  <2>1. SignHolds("console")'
    BY <1>4, SignHoldsStep, DesksAssumption DEF AtConsole, DesksOK
  <2> QED BY <1>4, <2>1 DEF AtConsole, DesksOK
<1>5. CASE AtShown
  <2>1. LoadOK("shown")'
    BY <1>5, LoadStep, DesksAssumption DEF AtShown, DesksOK
  <2> QED BY <1>5, <2>1 DEF AtShown, DesksOK
<1>6. CASE AtMoved
  <2>1. LoadOK("moved")'
    BY <1>6, LoadStep, DesksAssumption DEF AtMoved, DesksOK
  <2> QED BY <1>6, <2>1 DEF AtMoved, DesksOK
<1>7. CASE AtPictures
  <2>1. PicturesOK'
    BY <1>7, PicturesStep DEF AtPictures, DesksOK
  <2> QED BY <1>7, <2>1 DEF AtPictures, DesksOK
<1>8. CASE AtPlatform
  <2>1. PlatformOK'
    BY <1>8, PlatformStep DEF AtPlatform, DesksOK
  <2> QED BY <1>8, <2>1 DEF AtPlatform, DesksOK
<1>9. CASE UNCHANGED peopleVars
  <2>1. UNCHANGED <<desk, v1, v2, v3, v4, v5>> /\ UNCHANGED atDesk
    BY <1>9 DEF peopleVars, atDesk
  <2>2. /\ desk = "passwords" => SignHolds("passwords")'
        /\ desk = "codes" => SignHolds("codes")'
        /\ desk = "console" => SignHolds("console")'
    BY <2>1, SignHoldsStay, DesksAssumption DEF DesksOK
  <2>3. desk = "shown" => LoadOK("shown")'
    BY <2>1, LoadStay, DesksAssumption DEF DesksOK
  <2>4. desk = "moved" => LoadOK("moved")'
    BY <2>1, LoadStay, DesksAssumption DEF DesksOK
  <2>5. desk = "pictures" => PicturesOK'
    BY <2>1, PicturesStay DEF DesksOK
  <2>6. desk = "platform" => PlatformOK'
    BY <2>1, PlatformStay DEF DesksOK
  <2> QED BY <2>1, <2>2, <2>3, <2>4, <2>5, <2>6 DEF DesksOK
<1> QED BY <1>1, <1>2, <1>3, <1>4, <1>5, <1>6, <1>7, <1>8, <1>9 DEF PeopleNext

LEMMA DesksAlways == PeopleSpec => []DesksOK
  BY DesksInit, DesksStep, PTL DEF PeopleSpec

\* The variables of every desk keep their types: an account's password, status
\* and second factor, the sessions, the codes and their attempts, the rows of the
\* work and of the files, the pictures and the platform's administrators.
THEOREM PeopleKeepTypes == PeopleSpec => []PeopleTyped
<1>1. PeopleSpec => []TypeOK
  BY AsMembership, TypeCorrect, DesksAssumption, PTL
<1>2. TypeOK /\ DesksOK => PeopleTyped
  BY DEF DesksOK, PeopleTyped, SignHolds, SignOK, LoadOK, PicturesOK, PlatformOK
<1> QED BY <1>1, <1>2, DesksAlways, PTL

\* However many calls are made at once, a password and an emailed code are guessed
\* at a bounded number of times.  register_failure reads the counter and writes it
\* back (throttle.py:90): among n calls each count costs fewer than n guesses for
\* every guess at the one before it and n more, and the lock, once there, lets in
\* those only that were checking a password beside the call that set it.
\* verify_otp reads the attempts and counts the guess in a second call to the store
\* (otp.py:75): a code is guessed at as often as its limit, and once more for every
\* call beside the last one let through.
THEOREM GuessesAreBounded == PeopleSpec => []GuessesBounded
<1>1. ASSUME NEW d, SignHolds(d) PROVE Sign(d)!GuessesBounded
  BY <1>1 DEF SignHolds, Sign!GuessesInv
<1>2. DesksOK => GuessesBounded
  BY <1>1, SignBounded, DesksAssumption DEF DesksOK, SignHolds, GuessesBounded
<1> QED BY <1>2, DesksAlways, PTL

\* With resets running alone and no change of password, every session of a member
\* was opened with the password the account has, or a reset that set another is
\* about to end it (auth/service.py:814).
THEOREM ResetEndsSessions == PeopleSpec => []ResetSignsOut
<1>1. Strict("passwords")
  BY DEF Strict, AloneAt, OpsAt
<1>2. DesksOK => ResetSignsOut
  BY <1>1, SignResets DEF DesksOK, SignHolds, ResetSignsOut
<1> QED BY <1>2, DesksAlways, PTL

\* What a partner is listed opens and what opens is listed, as long as cases are
\* opened from their requests (requests/service.py:41, ownership.py:114); and a
\* partner with live work is on the roster of the consultant it is for, however
\* clients and tasks are handed over, but for clients who were moved
\* (consultants/router.py:145).
THEOREM PartnersAlwaysFind == PeopleSpec => []PartnersFind
<1>1. "create" \notin DoorsAt["shown"]
  BY DEF DoorsAt
<1>2. DesksOK => PartnersFind
  <2>1. desk = "shown" /\ DesksOK => Load("shown")!ListedOpens
    BY <1>1, LoadListed, DesksAssumption DEF DesksOK
  <2>2. desk = "moved" /\ DesksOK => Load("moved")!WorkIsLinked
    BY LoadLinked, DesksAssumption DEF DesksOK
  <2> QED BY <2>1, <2>2 DEF PartnersFind
<1> QED BY <1>2, DesksAlways, PTL

\* A move of a client ends with every open request and every open case of the
\* client under the consultant it was moved to, however they were opened, closed
\* and opened again before (consultants/router.py:148).
THEOREM MovesAreWhole == PeopleSpec => MovedWhole
<1>1. DesksOK /\ [PeopleNext]_peopleVars => [desk = "moved" => Load("moved")!MovesWhole]_peopleVars
  <2> SUFFICES ASSUME DesksOK, PeopleNext, desk = "moved" PROVE Load("moved")!MovesWhole
    OBVIOUS
  <2>1. LoadOK("moved") /\ Load("moved")!Next
    BY DEF DesksOK, PeopleNext, AtMembers, AtPasswords, AtCodes, AtConsole, AtShown, AtMoved, AtPictures,
           AtPlatform
  <2> QED BY <2>1, LoadMoveEnds, DesksAssumption
<1> QED BY <1>1, DesksAlways, PTL DEF PeopleSpec, MovedWhole

\* An uploaded picture a profile shows opens, however uploads and removals of it
\* interleave, unless a call died between two of its steps (storage.py:133); an
\* address typed at PATCH /me may come between at any step (users/service.py:48).
THEOREM PicturesAlwaysOpen == PeopleSpec => []PictureOpens
<1>1. DesksOK => PictureOpens
  BY PicturesGood DEF DesksOK, PictureOpens
<1> QED BY <1>1, DesksAlways, PTL

\* A platform that had an administrator has one still, when deletions run alone
\* (admin_users.py:108), and neither the seeder nor a change of one's own profile
\* gives an administrator the address of somebody in a workspace (profile.py:139).
THEOREM StaffIsKept == PeopleSpec => []StaffKept
<1>1. PlatformOK => Platform!StaffRemains /\ Platform!NobodyShutOut
  BY DEF PlatformOK, Platform!StaffInv
<1>2. DesksOK => StaffKept
  BY <1>1 DEF DesksOK, StaffKept
<1> QED BY <1>2, DesksAlways, PTL

=============================================================================
