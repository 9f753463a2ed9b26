------------------------------ MODULE Membership ------------------------------
(***************************************************************************)
(* Who belongs to a workspace: consultants, partners and clients invited   *)
(* by email, the platform's directory entry that carries each invitation,  *)
(* and what becomes of an account: accepted, invited again, suspended,     *)
(* enabled, revoked.                                                       *)
(*                                                                         *)
(* Source: app/services/invites.py, app/modules/users/service.py,          *)
(* app/modules/partners/service.py, accept_invite of                       *)
(* app/modules/auth/service.py and app/modules/admin/consultants.py.  The  *)
(* rows of a workspace are in its own database and the directory in the    *)
(* platform's, so an account is made, and unmade, in two writes.  The      *)
(* owner, whose account sign-up makes, is not among Users, and Seats are   *)
(* those the plan leaves for others.  An invitation's token is random:     *)
(* none is issued twice.                                                   *)
(***************************************************************************)
EXTENDS Naturals, FiniteSets

CONSTANTS
  Users,      \* ids of user rows: an insert takes a free one
  Emails, Spaces, Tokens,
  Roles,      \* the roles of the instance, a subset of AllRoles
  Seats,      \* Seats[r]: the accounts of role r the plan allows
  NoUser, NoToken, NoEmail, NoSpace,
  Calls,
  Alone       \* the operations that run with no other call beside them

AllRoles == {"consultant", "partner", "client"}
Limited == {"consultant", "partner"}

\* What the constants satisfy: assumed wherever the module is instantiated.
MembershipAssumption ==
  /\ Roles \subseteq AllRoles /\ Seats \in [Limited -> Nat]
  /\ IsFiniteSet(Calls) /\ Calls # {} /\ IsFiniteSet(Users)
  /\ NoUser \notin Users /\ NoToken \notin Tokens
  /\ NoEmail \notin Emails /\ NoSpace \notin Spaces

VARIABLES
  users,     \* users[u]: the row of account u
  directory, \* directory[e]: the entry of address e
  working,   \* the partners with an open task
  calls      \* the calls in flight

vars == <<users, directory, working, calls>>

UserStatus == {"invited", "active", "suspended"}
UserType == [status: UserStatus \cup {"none"}, role: AllRoles, email: Emails \cup {NoEmail},
             space: Spaces \cup {NoSpace}, password: BOOLEAN]
\* An entry is known by the token it was made with, which stands for its _id.
EntryType == [id: Tokens \cup {NoToken}, user: Users \cup {NoUser},
              token: Tokens \cup {NoToken}, expired: BOOLEAN]
Pc == {"idle", "in_insert", "in_issue", "re_issue", "ac_burn", "ac_write", "rv_user", "rv_entry"}
CallType == [pc: Pc, role: AllRoles, email: Emails \cup {NoEmail}, space: Spaces \cup {NoSpace},
             user: Users \cup {NoUser}, token: Tokens \cup {NoToken},
             entry: Tokens \cup {NoToken}]

NoRow == [status |-> "none", role |-> "client", email |-> NoEmail, space |-> NoSpace,
          password |-> FALSE]
NoEntry == [id |-> NoToken, user |-> NoUser, token |-> NoToken, expired |-> FALSE]
Idle == [pc |-> "idle", role |-> "client", email |-> NoEmail, space |-> NoSpace,
         user |-> NoUser, token |-> NoToken, entry |-> NoToken]

TypeOK ==
  /\ users \in [Users -> UserType]
  /\ directory \in [Emails -> EntryType]
  /\ working \subseteq Users
  /\ calls \in [Calls -> CallType]

Init ==
  /\ users = [u \in Users |-> NoRow]
  /\ directory = [e \in Emails |-> NoEntry]
  /\ working = {}
  /\ calls = [c \in Calls |-> Idle]

Exists(u) == users[u].status # "none"
Listed(e) == directory[e].id # NoToken
At(c, pc) == calls[c].pc = pc
Goto(c, pc) == calls' = [calls EXCEPT ![c].pc = pc]
End(c) == calls' = [calls EXCEPT ![c] = Idle]

OpOf(pc) == CASE pc \in {"in_insert", "in_issue"} -> "invite"
              [] pc = "re_issue" -> "resend"
              [] pc \in {"ac_burn", "ac_write"} -> "accept"
              [] OTHER -> "revoke"
Free(c, op) ==
  /\ At(c, "idle")
  /\ \A o \in Calls : \/ At(o, "idle")
                      \/ op \notin Alone /\ OpOf(calls[o].pc) \notin Alone

\* The tokens and the row ids nothing names; one is as good as another, and a
\* new one is the first.
UnnamedTokens ==
  Tokens \ ({directory[e].id : e \in Emails} \cup {directory[e].token : e \in Emails}
             \cup {calls[c].token : c \in Calls} \cup {calls[c].entry : c \in Calls})
UnnamedUsers ==
  {u \in Users \ working : ~Exists(u)}
    \ ({directory[e].user : e \in Emails} \cup {calls[c].user : c \in Calls})
FreshToken(t) == t \in UnnamedTokens /\ t = CHOOSE x \in UnnamedTokens : TRUE
FreshUser(u) == u \in UnnamedUsers /\ u = CHOOSE x \in UnnamedUsers : TRUE

-----------------------------------------------------------------------------
\* seat_usage counts rows, whatever their status.
Taken(r) == {u \in Users : Exists(u) /\ users[u].role = r}

\* Mutant: the last seat is given twice.
SeatFreeLax(r) == r \in Limited => Cardinality(Taken(r)) <= Seats[r]

SeatFree(r) == r \in Limited => Cardinality(Taken(r)) < Seats[r]

\* invite_partner, invite_team_member and create_client: the directory, then
\* the seats, then the row, whose email is unique in its workspace, then the
\* entry, put over whatever stands at the address.
InviteStart(c, e, r, w) ==
  /\ Free(c, "invite")
  /\ ~Listed(e)
  /\ SeatFree(r)
  /\ calls' = [calls EXCEPT ![c] = [Idle EXCEPT !.pc = "in_insert", !.role = r, !.email = e,
                                      !.space = w]]
  /\ UNCHANGED <<users, directory, working>>

Holds(w, e) == \E u \in Users : Exists(u) /\ users[u].space = w /\ users[u].email = e

InviteInsert(c, u) ==
  /\ At(c, "in_insert")
  /\ ~Holds(calls[c].space, calls[c].email)
  /\ FreshUser(u)
  /\ users' = [users EXCEPT ![u] =
                 [status |-> "invited", role |-> calls[c].role, email |-> calls[c].email,
                  space |-> calls[c].space, password |-> FALSE]]
  /\ calls' = [calls EXCEPT ![c].pc = "in_issue", ![c].user = u]
  /\ UNCHANGED <<directory, working>>

InviteRefused(c) ==
  /\ At(c, "in_insert")
  /\ Holds(calls[c].space, calls[c].email)
  /\ End(c)
  /\ UNCHANGED <<users, directory, working>>

Issued(e, u, t) == [id |-> IF Listed(e) THEN directory[e].id ELSE t, user |-> u, token |-> t,
                    expired |-> FALSE]

Issue(c, t) ==
  /\ FreshToken(t)
  /\ directory' = [directory EXCEPT ![calls[c].email] =
                     Issued(calls[c].email, calls[c].user, t)]
  /\ End(c)
  /\ UNCHANGED <<users, working>>

InviteIssue(c, t) == At(c, "in_issue") /\ Issue(c, t)

\* resend_invite and resend_client_invite: the row must still be invited; the
\* account that gets the new token is the one the entry names.
ResendStart(c, u) ==
  /\ Free(c, "resend")
  /\ users[u].status = "invited" /\ users[u].role \in {"partner", "client"}
  /\ Listed(users[u].email)
  /\ calls' = [calls EXCEPT ![c] = [Idle EXCEPT !.pc = "re_issue", !.email = users[u].email,
                                      !.user = directory[users[u].email].user]]
  /\ UNCHANGED <<users, directory, working>>

ResendIssue(c, t) == At(c, "re_issue") /\ Issue(c, t)

Expire(e) ==
  /\ directory[e].token # NoToken /\ ~directory[e].expired
  /\ directory' = [directory EXCEPT ![e].expired = TRUE]
  /\ UNCHANGED <<users, working, calls>>

-----------------------------------------------------------------------------
\* accept_invite: `lookup` by token, the token burnt on the entry found, then
\* the password and the status, whatever the row says by then.
AcceptStart(c, e) ==
  /\ Free(c, "accept")
  /\ directory[e].token # NoToken /\ ~directory[e].expired
  /\ LET u == directory[e].user IN
       /\ Exists(u)
       /\ ~(users[u].status = "active" /\ users[u].password)
       /\ calls' = [calls EXCEPT ![c] =
                      [Idle EXCEPT !.pc = "ac_burn", !.email = e, !.user = u,
                         !.token = directory[e].token, !.entry = directory[e].id]]
  /\ UNCHANGED <<users, directory, working>>

AcceptBurn(c) ==
  /\ At(c, "ac_burn")
  /\ LET e == calls[c].email IN
       directory' = IF directory[e].id = calls[c].entry
                      THEN [directory EXCEPT ![e].token = NoToken, ![e].expired = FALSE]
                      ELSE directory
  /\ Goto(c, "ac_write")
  /\ UNCHANGED <<users, working>>

AcceptWrite(c) ==
  /\ At(c, "ac_write")
  /\ LET u == calls[c].user IN
       users' = IF Exists(u) THEN [users EXCEPT ![u].status = "active", ![u].password = TRUE]
                             ELSE users
  /\ End(c)
  /\ UNCHANGED <<directory, working>>

-----------------------------------------------------------------------------
\* suspend_partner on a partner, update_consultant_status on any account.
SetStatus(u, s) ==
  /\ Exists(u)
  /\ users' = [users EXCEPT ![u].status = s]
  /\ UNCHANGED <<directory, working, calls>>

\* The partner is given work, or the last of it is closed.
Work(u) ==
  /\ Exists(u) /\ users[u].role = "partner"
  /\ working' = IF u \in working THEN working \ {u} ELSE working \cup {u}
  /\ UNCHANGED <<users, directory, calls>>

\* revoke_partner: no open task, then the row goes, then the entry of its address.
RevokeStart(c, u) ==
  /\ Free(c, "revoke")
  /\ Exists(u) /\ users[u].role = "partner"
  /\ u \notin working
  /\ calls' = [calls EXCEPT ![c] = [Idle EXCEPT !.pc = "rv_user", !.user = u,
                                      !.email = users[u].email]]
  /\ UNCHANGED <<users, directory, working>>

RevokeUser(c) ==
  /\ At(c, "rv_user")
  /\ users' = [users EXCEPT ![calls[c].user] = NoRow]
  /\ Goto(c, "rv_entry")
  /\ UNCHANGED <<directory, working>>

\* Mutant: only the token is withdrawn from the entry.
RevokeEntryToken(c) ==
  /\ At(c, "rv_entry")
  /\ directory' = [directory EXCEPT ![calls[c].email].token = NoToken]
  /\ End(c)
  /\ UNCHANGED <<users, working>>

RevokeEntry(c) ==
  /\ At(c, "rv_entry")
  /\ directory' = [directory EXCEPT ![calls[c].email] = NoEntry]
  /\ End(c)
  /\ UNCHANGED <<users, working>>

-----------------------------------------------------------------------------
Step(c) ==
  \/ \E e \in Emails, r \in Roles, w \in Spaces : InviteStart(c, e, r, w)
  \/ \E u \in Users : InviteInsert(c, u) \/ ResendStart(c, u) \/ RevokeStart(c, u)
  \/ \E t \in Tokens : InviteIssue(c, t) \/ ResendIssue(c, t)
  \/ InviteRefused(c)
  \/ \E e \in Emails : AcceptStart(c, e)
  \/ AcceptBurn(c) \/ AcceptWrite(c)
  \/ RevokeUser(c) \/ RevokeEntry(c)

Next ==
  \/ \E c \in Calls : Step(c)
  \/ \E e \in Emails : Expire(e)
  \/ \E u \in Users : Work(u) \/ \E s \in {"active", "suspended"} : SetStatus(u, s)

Spec == Init /\ [][Next]_vars

-----------------------------------------------------------------------------
\* The plan's seats are counted before they are taken, so invitations sent at
\* once may pass the limit, but by no more than the invitations beside the
\* one that still found room (partners/service.py:46, users/service.py:114).
SeatsHeld ==
  \A r \in Limited : Cardinality(Taken(r)) <= Seats[r] + Cardinality(Calls) - 1

\* One account, one way in: every account of the workspace is the one its
\* address leads to, every address leads to an account that exists, and only
\* an invitation or a revocation half done may say otherwise
\* (users/service.py:136, partners/service.py:160).
Reachable ==
  /\ \A u \in Users : Exists(u) =>
       \/ directory[users[u].email].user = u
       \/ \E c \in Calls : At(c, "in_issue") /\ calls[c].user = u
  /\ \A e \in Emails : Listed(e) =>
       \/ Exists(directory[e].user) /\ users[directory[e].user].email = e
       \/ \E c \in Calls : At(c, "rv_entry") /\ calls[c].email = e

\* Both: who may sign in, and how many (partners/service.py:46).
MembersHeld == SeatsHeld /\ Reachable

\* "burn the token so the link is single-use" (invites.py:152): no two calls
\* get past the burning of one token.  No run checks it, and TLC refutes it: the
\* token is found by one read and unset by a later write that is not
\* conditional on finding it.
SingleUse ==
  \A c, d \in Calls : At(c, "ac_write") /\ At(d, "ac_write") /\ calls[c].token = calls[d].token
                        => c = d
=============================================================================
