-------------------------------- MODULE SignIn --------------------------------
(***************************************************************************)
(* Getting in and staying in: the sign-in of members and of platform       *)
(* administrators with its failure counter, the emailed codes and their    *)
(* attempts, the second factor, the refresh tokens that are the sessions,  *)
(* and what a reset or a change of password does to them.                  *)
(*                                                                         *)
(* Source: app/modules/auth/service.py from `_store_refresh` on,           *)
(* app/services/otp.py, app/services/throttle.py,                          *)
(* app/modules/security/router.py and app/core/deps.py.  A password is the *)
(* number of times it was set.  One address signs in from one place, so a  *)
(* counter belongs to an account.  A code a caller presents is right or    *)
(* wrong; the codes of one account and purpose are found in the order they *)
(* were made or not, as the store pleases.                                 *)
(***************************************************************************)
EXTENDS Naturals, FiniteSets

CONSTANTS
  Accounts,
  Admins,       \* the accounts kept in platform_admins, not in a workspace
  Sessions,     \* ids of refresh_tokens rows
  Codes,        \* ids of otp_codes rows
  NoAccount, NoCode, NoSession,
  MaxFailures,  \* LOGIN_MAX_ATTEMPTS
  MaxAttempts,  \* OTP_MAX_ATTEMPTS
  MaxResets,    \* bound: times a password is set
  Calls,
  Ops,          \* the operations of the instance, a subset of AllOps
  Alone         \* the operations that run with no other call beside them

AllOps == {"login", "code", "verify", "reset", "second", "confirm", "refresh", "logout", "change"}
Purposes == {"login", "password_reset", "email_verification"}

\* What the constants satisfy: assumed wherever the module is instantiated.
SignInAssumption ==
  /\ Admins \subseteq Accounts
  /\ MaxFailures \in Nat \ {0} /\ MaxAttempts \in Nat \ {0} /\ MaxResets \in Nat
  /\ Ops \subseteq AllOps /\ Alone \subseteq Ops
  /\ NoAccount \notin Accounts /\ NoCode \notin Codes /\ NoSession \notin Sessions
  /\ IsFiniteSet(Calls) /\ Calls # {}

VARIABLES
  accounts, \* accounts[a]: its password, its status, whether it has a second factor
  sessions, \* sessions[s]: whose refresh token, signed in with which password
  codes,    \* codes[k]: the emailed code k
  failures, \* failures[a]: the counter, the lock, and the guesses made since it was cleared
  signing   \* the calls in flight

vars == <<accounts, sessions, codes, failures, signing>>

\* The counts an account is not locked at.  A guess is one at the count its call
\* reads, or a late one.
Tries == 0..MaxFailures - 1

AccountType == [password: 0..MaxResets, status: {"active", "unverified", "suspended"},
                factor: BOOLEAN]
SessionType == [who: Accounts \cup {NoAccount}, password: 0..MaxResets]
CodeType == [who: Accounts, purpose: Purposes, attempts: Nat, age: {"recent", "old", "expired"}]
Pc == {"idle", "lg_check", "lg_count", "lg_clear", "store", "ot_read", "ot_delete", "ot_insert",
       "ot_wrong", "ot_right", "rs_write", "rs_revoke", "vf_write", "sf_read", "tf_write", "rf_delete", "ch_write"}
CallType == [pc: Pc, op: AllOps, who: Accounts \cup {NoAccount}, purpose: Purposes,
             code: Codes \cup {NoCode}, session: Sessions \cup {NoSession},
             read: Nat, password: 0..MaxResets]

NoRow == [who |-> NoAccount, password |-> 0]
NoOtp == [who |-> NoAccount, purpose |-> "login", attempts |-> 0, age |-> "old"]
Idle == [pc |-> "idle", op |-> "login", who |-> NoAccount, purpose |-> "login", code |-> NoCode,
         session |-> NoSession, read |-> 0, password |-> 0]

TypeOK ==
  /\ accounts \in [Accounts -> AccountType]
  /\ sessions \in [Sessions -> SessionType]
  /\ codes \in [Codes -> CodeType \cup {NoOtp}]
  /\ failures \in [Accounts -> [count: Nat, locked: BOOLEAN, guesses: [Tries -> Nat], late: Nat]]
  /\ signing \in [Calls -> CallType]

Init ==
  /\ accounts \in [Accounts -> [password: {0}, status: {"active", "unverified"}, factor: {FALSE}]]
  /\ \A a \in Admins : accounts[a].status = "active"
  /\ sessions = [s \in Sessions |-> NoRow]
  /\ codes = [k \in Codes |-> NoOtp]
  /\ failures = [a \in Accounts |-> [count |-> 0, locked |-> FALSE,
                                      guesses |-> [v \in Tries |-> 0], late |-> 0]]
  /\ signing = [c \in Calls |-> Idle]

At(c, pc) == signing[c].pc = pc
Goto(c, pc) == signing' = [signing EXCEPT ![c].pc = pc]
End(c) == signing' = [signing EXCEPT ![c] = Idle]
Free(c, op) ==
  /\ op \in Ops /\ At(c, "idle")
  /\ \A o \in Calls : \/ At(o, "idle")
                      \/ op \notin Alone /\ signing[o].op \notin Alone
Begin(c, op, pc, a) == signing' = [signing EXCEPT ![c] = [Idle EXCEPT !.pc = pc, !.op = op,
                                                            !.who = a]]

-----------------------------------------------------------------------------
\* login, which hands an administrator's address to platform_login: the lock,
\* then the password.
LoginStart(c, a) ==
  /\ Free(c, "login")
  /\ ~failures[a].locked
  /\ Begin(c, "login", "lg_check", a)
  /\ UNCHANGED <<accounts, sessions, codes, failures>>

\* register_failure: the counter is read, and written with one more.
LoginWrong(c) ==
  /\ At(c, "lg_check")
  /\ LET a == signing[c].who
         n == failures[a].count IN
       /\ signing' = [signing EXCEPT ![c].pc = "lg_count", ![c].read = n]
       /\ failures' = IF ~failures[a].locked /\ n \in Tries
                        THEN [failures EXCEPT ![a].guesses[n] = @ + 1]
                        ELSE [failures EXCEPT ![a].late = @ + 1]
  /\ UNCHANGED <<accounts, sessions, codes>>

\* Mutant: the lock comes one failure late.
LoginCountLate(c) ==
  /\ At(c, "lg_count")
  /\ LET a == signing[c].who
         n == signing[c].read + 1 IN
       failures' = [failures EXCEPT ![a].count = n, ![a].locked = @ \/ n > MaxFailures]
  /\ End(c)
  /\ UNCHANGED <<accounts, sessions, codes>>

LoginCount(c) ==
  /\ At(c, "lg_count")
  /\ LET a == signing[c].who
         n == signing[c].read + 1 IN
       failures' = [failures EXCEPT ![a].count = n, ![a].locked = @ \/ n >= MaxFailures]
  /\ End(c)
  /\ UNCHANGED <<accounts, sessions, codes>>

Known(c) ==
  /\ At(c, "lg_check")
  /\ LET a == signing[c].who IN
       IF accounts[a].status = "active"
         THEN signing' = [signing EXCEPT ![c].pc = "lg_clear",
                                         ![c].password = accounts[a].password]
         ELSE End(c)
  /\ UNCHANGED <<accounts, sessions, codes, failures>>

\* The right password: a suspended or unverified account goes no further, and
\* its counter stays.
LoginRight(c) == signing[c].who \notin Admins /\ Known(c)
PlatformRight(c) == signing[c].who \in Admins /\ Known(c)

\* The guesses not yet counted are the only ones on record.
Uncounted(a, v) == {c \in Calls : At(c, "lg_count") /\ signing[c].who = a /\ signing[c].read = v}
Forgiven(a) == [failures EXCEPT ![a] =
                  [count |-> 0, locked |-> FALSE,
                   guesses |-> [v \in Tries |-> Cardinality(Uncounted(a, v))], late |-> 0]]

\* The counter is cleared, and a member with a second factor is sent a code.
LoginClear(c) ==
  /\ At(c, "lg_clear") /\ signing[c].who \notin Admins
  /\ failures' = Forgiven(signing[c].who)
  /\ IF accounts[signing[c].who].factor THEN Goto(c, "ot_read") ELSE Goto(c, "store")
  /\ UNCHANGED <<accounts, sessions, codes>>

PlatformClear(c) ==
  /\ At(c, "lg_clear") /\ signing[c].who \in Admins
  /\ failures' = Forgiven(signing[c].who)
  /\ Goto(c, "store")
  /\ UNCHANGED <<accounts, sessions, codes>>

\* _token_response: what a sign-in is answered with, whatever became of the
\* account meanwhile; _store_refresh: its refresh token's row.
TokenResponse(c) == [who |-> signing[c].who, password |-> signing[c].password]

Store(c, s) ==
  /\ At(c, "store")
  /\ sessions[s] = NoRow /\ \A o \in Calls : signing[o].session # s
  /\ sessions' = [sessions EXCEPT ![s] = TokenResponse(c)]
  /\ End(c)
  /\ UNCHANGED <<accounts, codes, failures>>

\* The lock is served, or the window of failures has passed: minutes, which no
\* call lasts.
Unlock(a) ==
  /\ failures[a].count > 0
  /\ \A c \in Calls : signing[c].who = a => signing[c].pc \notin {"lg_check", "lg_count", "lg_clear"}
  /\ failures' = Forgiven(a)
  /\ UNCHANGED <<accounts, sessions, codes, signing>>

-----------------------------------------------------------------------------
Of(a, p) == {k \in Codes : codes[k].who = a /\ codes[k].purpose = p}

\* A code is asked for: forgot_password, resend_verification, start_enable_2fa.
IssueStart(c, a, p) ==
  /\ Free(c, "code")
  /\ signing' = [signing EXCEPT ![c] = [Idle EXCEPT !.pc = "ot_read", !.op = "code", !.who = a,
                                          !.purpose = p]]
  /\ UNCHANGED <<accounts, sessions, codes, failures>>

ForgotPassword(c, a) == IssueStart(c, a, "password_reset")

\* Administrators have no entry in the directory.
ResendVerification(c, a) == a \notin Admins /\ IssueStart(c, a, "email_verification")

StartEnable2fa(c, a) ==
  /\ accounts[a].status # "suspended" /\ ~accounts[a].factor
  /\ IssueStart(c, a, "login")

Without(ks) == [k \in Codes |-> IF k \in ks THEN NoOtp ELSE codes[k]]

\* issue_otp, also for a login with a second factor: refused while a code is
\* recent, the codes there are deleted, one is made.  find_one takes any.
IssueRead(c) ==
  /\ At(c, "ot_read")
  /\ LET found == Of(signing[c].who, signing[c].purpose) IN
       \/ \E k \in found : codes[k].age = "recent" /\ End(c)
       \/ /\ found = {} \/ \E k \in found : codes[k].age # "recent"
          /\ Goto(c, "ot_delete")
  /\ UNCHANGED <<accounts, sessions, codes, failures>>

IssueDelete(c) ==
  /\ At(c, "ot_delete")
  /\ codes' = Without(Of(signing[c].who, signing[c].purpose))
  /\ Goto(c, "ot_insert")
  /\ UNCHANGED <<accounts, sessions, failures>>

IssueInsert(c, k) ==
  /\ At(c, "ot_insert")
  /\ codes[k] = NoOtp /\ \A o \in Calls : signing[o].code # k
  /\ codes' = [codes EXCEPT ![k] = [who |-> signing[c].who, purpose |-> signing[c].purpose,
                                     attempts |-> 0, age |-> "recent"]]
  /\ End(c)
  /\ UNCHANGED <<accounts, sessions, failures>>

\* Time: the cooldown passes, then the code's life; a row that expired may be
\* swept by the store.
Age(k) ==
  /\ codes[k].who # NoAccount
  /\ codes' = [codes EXCEPT ![k] = CASE @.age = "recent" -> [@ EXCEPT !.age = "old"]
                                     [] @.age = "old" -> [@ EXCEPT !.age = "expired"]
                                     [] OTHER -> NoOtp]
  /\ UNCHANGED <<accounts, sessions, failures, signing>>

\* What a code is presented for, and where a right one leads.
PurposeOf == [verify |-> "email_verification", reset |-> "password_reset",
              second |-> "login", confirm |-> "login"]
After == [verify |-> "vf_write", reset |-> "rs_write", second |-> "sf_read", confirm |-> "tf_write"]

\* confirm_enable_2fa is for whoever is signed in to a workspace.
MayPresent(op, a) == op = "confirm" => a \notin Admins /\ accounts[a].status # "suspended"

\* verify_otp: an expired or worn-out code is deleted; a wrong guess is
\* counted, and a right one burnt, in a second call to the store.
\* Mutant: one attempt past the limit is let through.
WornLate(k) == codes[k].attempts > MaxAttempts

Worn(k) == codes[k].attempts >= MaxAttempts

CodeWornOut(c, op, a, k) ==
  /\ Free(c, op) /\ MayPresent(op, a)
  /\ k \in Of(a, PurposeOf[op])
  /\ codes[k].age = "expired" \/ Worn(k)
  /\ codes' = Without({k})
  /\ UNCHANGED <<accounts, sessions, failures, signing>>

CodeRead(c, op, a, k, right) ==
  /\ Free(c, op) /\ MayPresent(op, a)
  /\ k \in Of(a, PurposeOf[op])
  /\ codes[k].age # "expired" /\ ~Worn(k)
  /\ signing' = [signing EXCEPT ![c] = [Idle EXCEPT !.pc = IF right THEN "ot_right" ELSE "ot_wrong",
                                          !.op = op, !.who = a, !.code = k]]
  /\ UNCHANGED <<accounts, sessions, codes, failures>>

\* Mutant: the attempt is counted on a code another request used up.
CodeWrongUpsert(c) ==
  /\ At(c, "ot_wrong")
  /\ codes' = [codes EXCEPT ![signing[c].code].attempts = @ + 1]
  /\ End(c)
  /\ UNCHANGED <<accounts, sessions, failures>>

CodeWrong(c) ==
  /\ At(c, "ot_wrong")
  /\ LET k == signing[c].code IN
       codes' = IF codes[k] = NoOtp THEN codes ELSE [codes EXCEPT ![k].attempts = @ + 1]
  /\ End(c)
  /\ UNCHANGED <<accounts, sessions, failures>>

CodeRight(c) ==
  /\ At(c, "ot_right")
  /\ codes' = Without({signing[c].code})
  /\ signing' = [signing EXCEPT ![c].pc = After[signing[c].op], ![c].code = NoCode]
  /\ UNCHANGED <<accounts, sessions, failures>>

\* verify_account_email: active, whatever the account was.
VerifyWrite(c) ==
  /\ At(c, "vf_write")
  /\ accounts' = [accounts EXCEPT ![signing[c].who].status = "active"]
  /\ signing' = [signing EXCEPT ![c].pc = "store",
                                ![c].password = accounts[signing[c].who].password]
  /\ UNCHANGED <<sessions, codes, failures>>

\* verify_login_2fa: the member is read again; an administrator is not found.
\* Whether the account has a second factor is not asked.
SecondFactor(c) ==
  /\ At(c, "sf_read")
  /\ LET a == signing[c].who IN
       IF a \in Admins THEN End(c)
                       ELSE signing' = [signing EXCEPT ![c].pc = "store",
                                                       ![c].password = accounts[a].password]
  /\ UNCHANGED <<accounts, sessions, codes, failures>>

\* confirm_enable_2fa.
FactorWrite(c) ==
  /\ At(c, "tf_write")
  /\ accounts' = [accounts EXCEPT ![signing[c].who].factor = TRUE]
  /\ End(c)
  /\ UNCHANGED <<sessions, codes, failures>>

-----------------------------------------------------------------------------
\* reset_password: the password, then the sessions of the directory's user; an
\* administrator has no entry there, and `user_id: None` matches no session.
Renew(a) ==
  /\ accounts[a].password < MaxResets
  /\ accounts' = [accounts EXCEPT ![a].password = @ + 1]

ResetWrite(c) ==
  /\ At(c, "rs_write")
  /\ Renew(signing[c].who)
  /\ Goto(c, "rs_revoke")
  /\ UNCHANGED <<sessions, codes, failures>>

\* Mutant: no session is revoked.
RevokedByResetNone(a) == {}

RevokedByReset(a) == IF a \in Admins THEN {} ELSE {s \in Sessions : sessions[s].who = a}

Dropped(ss) == [s \in Sessions |-> IF s \in ss THEN NoRow ELSE sessions[s]]

ResetRevoke(c) ==
  /\ At(c, "rs_revoke")
  /\ sessions' = Dropped(RevokedByReset(signing[c].who))
  /\ End(c)
  /\ UNCHANGED <<accounts, codes, failures>>

\* change_password and disable_2fa: the current password, then the write.
\* Other sessions stay.
ChangeStart(c, a) ==
  /\ Free(c, "change")
  /\ accounts[a].status = "active"
  /\ Begin(c, "change", "ch_write", a)
  /\ UNCHANGED <<accounts, sessions, codes, failures>>

ChangeWrite(c) ==
  /\ At(c, "ch_write")
  /\ \/ Renew(signing[c].who)
     \/ /\ signing[c].who \notin Admins
        /\ accounts' = [accounts EXCEPT ![signing[c].who].factor = FALSE]
  /\ End(c)
  /\ UNCHANGED <<sessions, codes, failures>>

\* refresh: the row is read, deleted, and another made, whether or not the
\* delete found it.  The account must exist; its status is not asked.
RefreshStart(c, s) ==
  /\ Free(c, "refresh")
  /\ sessions[s] # NoRow
  /\ signing' = [signing EXCEPT ![c] =
                   [Idle EXCEPT !.pc = "rf_delete", !.op = "refresh", !.who = sessions[s].who,
                      !.session = s, !.password = sessions[s].password]]
  /\ UNCHANGED <<accounts, sessions, codes, failures>>

RefreshDelete(c) ==
  /\ At(c, "rf_delete")
  /\ sessions' = Dropped({signing[c].session})
  /\ signing' = [signing EXCEPT ![c].pc = "store", ![c].session = NoSession]
  /\ UNCHANGED <<accounts, codes, failures>>

\* logout and revoke_session take one session, revoke_all those of the caller,
\* whose account must not be suspended.
Logout(c, s) ==
  /\ Free(c, "logout")
  /\ sessions[s] # NoRow
  /\ LET a == sessions[s].who IN
       \/ sessions' = Dropped({s})
       \/ /\ accounts[a].status # "suspended"
          /\ sessions' = Dropped({o \in Sessions : sessions[o].who = a})
  /\ UNCHANGED <<accounts, codes, failures, signing>>

\* Someone else suspends or enables the account.
Suspend(a) ==
  /\ accounts[a].status # "unverified"
  /\ accounts' = [accounts EXCEPT ![a].status = IF @ = "active" THEN "suspended" ELSE "active"]
  /\ UNCHANGED <<sessions, codes, failures, signing>>

-----------------------------------------------------------------------------
Step(c) ==
  \/ \E a \in Accounts : LoginStart(c, a) \/ ChangeStart(c, a)
  \/ LoginWrong(c) \/ LoginCount(c) \/ LoginRight(c) \/ PlatformRight(c)
  \/ LoginClear(c) \/ PlatformClear(c)
  \/ \E a \in Accounts : ForgotPassword(c, a) \/ ResendVerification(c, a) \/ StartEnable2fa(c, a)
  \/ \E k \in Codes : IssueInsert(c, k)
  \/ IssueRead(c) \/ IssueDelete(c)
  \/ \E op \in DOMAIN PurposeOf, a \in Accounts, k \in Codes :
       CodeWornOut(c, op, a, k) \/ \E right \in BOOLEAN : CodeRead(c, op, a, k, right)
  \/ CodeWrong(c) \/ CodeRight(c) \/ VerifyWrite(c) \/ SecondFactor(c) \/ FactorWrite(c)
  \/ ResetWrite(c) \/ ResetRevoke(c) \/ ChangeWrite(c)
  \/ \E s \in Sessions : Store(c, s) \/ RefreshStart(c, s) \/ Logout(c, s)
  \/ RefreshDelete(c)

Next ==
  \/ \E c \in Calls : Step(c)
  \/ \E a \in Accounts : Unlock(a) \/ Suspend(a)
  \/ \E k \in Codes : Age(k)

Spec == Init /\ [][Next]_vars

-----------------------------------------------------------------------------
\* Guesses at a code are read against the limit and counted afterwards: calls
\* at once may pass it, by no more than the calls beside the last one that was
\* still allowed (otp.py:75).
AttemptsBounded ==
  \A k \in Codes : codes[k].attempts <= MaxAttempts + Cardinality(Calls) - 1

\* The failure counter is read and written back, so a late write can put it back
\* to what a call read long ago, and calls in flight hide their guesses from one
\* another; the lock still comes.  Of n calls at once, since the counter was
\* cleared, no more than n guess at the count of zero, fewer than n times one more
\* than the guesses at a count guess at the next one, and fewer than n guess once
\* the lock is there (throttle.py:90).
GuessesBounded ==
  LET n == Cardinality(Calls) IN
  \A a \in Accounts :
    /\ failures[a].guesses[0] <= n
    /\ \A v \in Tries \ {0} : failures[a].guesses[v] < n * (failures[a].guesses[v-1] + 1)
    /\ failures[a].late < n

\* Once a member's password has been reset no session from before survives:
\* every session was opened with the present password, unless the password was
\* changed rather than reset (auth/service.py:814).
ResetSignsOut ==
  "change" \notin Ops =>
  \A s \in Sessions : sessions[s] # NoRow /\ sessions[s].who \notin Admins =>
    \/ sessions[s].password = accounts[sessions[s].who].password
    \/ \E c \in Calls : At(c, "rs_revoke") /\ signing[c].who = sessions[s].who

\* What a call in flight holds, and whose a session is: inductive with TypeOK.
CallsInv ==
  /\ \A s \in Sessions : sessions[s] = NoRow \/ sessions[s].who \in Accounts
  /\ \A c \in Calls :
       /\ ~At(c, "idle") => signing[c].who \in Accounts /\ signing[c].op \in Ops
       /\ At(c, "ot_wrong") \/ At(c, "ot_right") =>
            signing[c].code \in Codes /\ signing[c].op \in DOMAIN After
       /\ At(c, "rs_write") \/ At(c, "rs_revoke") => signing[c].op = "reset"
       /\ At(c, "ch_write") => signing[c].op = "change"

\* AttemptsBounded as an inductive invariant: a guess that was let through and
\* not yet counted weighs as much as one that was counted.
Guessing(k) == {c \in Calls : At(c, "ot_wrong") /\ signing[c].code = k}
AttemptsInv ==
  \A k \in Codes :
    codes[k].attempts + Cardinality(Guessing(k)) <= MaxAttempts + Cardinality(Calls) - 1

\* GuessesBounded as an inductive invariant: each write of a count lets every
\* call that has none of its guesses uncounted make one at that count, and the
\* calls a lock finds checking a password make the last.
Checking(a) == {c \in Calls : At(c, "lg_check") /\ signing[c].who = a}
Left(a, v) == IF failures[a].count = v THEN Cardinality(Calls \ Uncounted(a, v)) ELSE 0
GuessesInv ==
  LET n == Cardinality(Calls) IN
  /\ GuessesBounded
  /\ \A a \in Accounts :
       IF failures[a].locked
         THEN failures[a].late + Cardinality(Checking(a)) < n
         ELSE /\ failures[a].count \in Tries /\ failures[a].late = 0
              /\ failures[a].guesses[0] + Left(a, 0) <= n
              /\ \A v \in Tries \ {0} :
                   failures[a].guesses[v] + Left(a, v) <
                     n * (failures[a].guesses[v-1] - Cardinality(Uncounted(a, v-1)) + 1)

\* ResetSignsOut as an inductive invariant, where resets run alone: whoever is
\* about to open a session was let in with the present password.
SessionsInv ==
  "reset" \in Alone /\ "change" \notin Ops =>
    /\ ResetSignsOut
    /\ \A c \in Calls :
         /\ signing[c].pc \in {"lg_clear", "store", "rf_delete"} /\ signing[c].who \notin Admins =>
              signing[c].password = accounts[signing[c].who].password
         /\ ~At(c, "idle") /\ signing[c].op = "reset" => \A o \in Calls \ {c} : At(o, "idle")
=============================================================================
