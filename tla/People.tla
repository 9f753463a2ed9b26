------------------------------- MODULE People -------------------------------
(***************************************************************************)
(* The modules about people: who has an account, who is signed in, whose   *)
(* client and whose work it is, who runs the platform.                     *)
(* Each instance is a desk, and a behaviour stays at the desk it begins    *)
(* at: the desks share no step, so what is said of all of them is said of  *)
(* each as if it stood alone.  The module extended is at the first desk,   *)
(* with its own constants and variables; v1 to v7 are the variables of the *)
(* module at any other desk.                                               *)
(***************************************************************************)
EXTENDS Membership

CONSTANTS
  Nobody, Nothing,                             \* placeholders
  Accounts, SessionsAt, Codes,                 \* SignIn, with the sessions of each desk
  MaxFailures, MaxAttempts, MaxResets,
  Clients, Partners, Tasks, Movers,            \* Caseload, with the work of each desk
  RequestsAt, CasesAt, ConsultantsAt,
  Owners, Officers, Blobs,                     \* Avatars
  Staffers, Addresses, Configured, TokenSet    \* Staff

VARIABLES desk, v1, v2, v3, v4, v5, v6, v7
atDesk == <<v1, v2, v3, v4, v5, v6, v7>>
peopleVars == <<vars, desk, atDesk>>
Away == "away"
Unused == v1 = Away /\ v2 = Away /\ v3 = Away /\ v4 = Away /\ v5 = Away /\ v6 = Away /\ v7 = Away

-----------------------------------------------------------------------------
\* Signing in: with a password, which may be forgotten; with a code; and as an
\* administrator of the platform.
AdminsAt == [passwords |-> {}, codes |-> {}, console |-> Accounts]
OpsAt == [passwords |-> {"code", "login", "reset", "refresh", "logout"},
          codes |-> {"code", "second", "confirm", "verify", "change"},
          console |-> {"code", "login", "reset", "second"}]
AloneAt == [passwords |-> {"reset"}, codes |-> {}, console |-> {}]

Sign(d) == INSTANCE SignIn WITH
  accounts <- v1, sessions <- v2, codes <- v3, failures <- v4, signing <- v5,
  Admins <- AdminsAt[d], Sessions <- SessionsAt[d], Ops <- OpsAt[d], Alone <- AloneAt[d],
  NoAccount <- Nobody, NoCode <- Nobody, NoSession <- Nobody

\* Whose work it is: what a partner is shown of a client's requests, and the
\* move of a client from one consultant to another.
DoorsAt == [shown |-> {"open"}, moved |-> {"open", "create"}]

Load(d) == INSTANCE Caseload WITH
  clients <- v1, links <- v2, works <- v3, files <- v4, papers <- v5, chores <- v6, moving <- v7,
  Requests <- RequestsAt[d], Cases <- CasesAt[d], Consultants <- ConsultantsAt[d],
  Doors <- DoorsAt[d], NoRequest <- Nothing, NoCase <- Nothing, Calls <- Movers, Alone <- {"move"}

\* Pictures of accounts and of administrators; the platform's own staff.
Pictures == INSTANCE Avatars WITH
  rows <- v1, bucket <- v2, used <- v3, cut <- v4, uploading <- v5,
  Admins <- Officers, NoBlob <- Nothing
Platform == INSTANCE Staff WITH
  staff <- v1, directory <- v2, founded <- v3, careless <- v4, admitting <- v5,
  Emails <- Addresses, Alone <- {"delete", "seed", "profile"}

ASSUME DesksAssumption ==
  /\ MembershipAssumption /\ Sign("passwords")!SignInAssumption /\ Sign("codes")!SignInAssumption
  /\ Sign("console")!SignInAssumption
  /\ Load("shown")!CaseloadAssumption /\ Load("moved")!CaseloadAssumption
  /\ Pictures!AvatarsAssumption /\ Platform!StaffAssumption

-----------------------------------------------------------------------------
PeopleInit ==
  /\ Init
  /\ \/ desk = "members" /\ Unused
     \/ desk = "passwords" /\ Sign("passwords")!Init /\ v6 = Away /\ v7 = Away
     \/ desk = "codes" /\ Sign("codes")!Init /\ v6 = Away /\ v7 = Away
     \/ desk = "console" /\ Sign("console")!Init /\ v6 = Away /\ v7 = Away
     \/ desk = "shown" /\ Load("shown")!Init
     \/ desk = "moved" /\ Load("moved")!Init
     \/ desk = "pictures" /\ Pictures!Init /\ v6 = Away /\ v7 = Away
     \/ desk = "platform" /\ Platform!Init /\ v6 = Away /\ v7 = Away

AtMembers == desk = "members" /\ Next /\ UNCHANGED <<desk, atDesk>>
AtPasswords == desk = "passwords" /\ Sign("passwords")!Next /\ UNCHANGED <<desk, vars, v6, v7>>
AtCodes == desk = "codes" /\ Sign("codes")!Next /\ UNCHANGED <<desk, vars, v6, v7>>
AtConsole == desk = "console" /\ Sign("console")!Next /\ UNCHANGED <<desk, vars, v6, v7>>
AtShown == desk = "shown" /\ Load("shown")!Next /\ UNCHANGED <<desk, vars>>
AtMoved == desk = "moved" /\ Load("moved")!Next /\ UNCHANGED <<desk, vars>>
AtPictures == desk = "pictures" /\ Pictures!Next /\ UNCHANGED <<desk, vars, v6, v7>>
AtPlatform == desk = "platform" /\ Platform!Next /\ UNCHANGED <<desk, vars, v6, v7>>

PeopleNext ==
  AtMembers \/ AtPasswords \/ AtCodes \/ AtConsole \/ AtShown \/ AtMoved \/ AtPictures \/ AtPlatform

PeopleSpec == PeopleInit /\ [][PeopleNext]_peopleVars

-----------------------------------------------------------------------------
\* The properties of the modules, each at its desk; MembersHeld, of the first
\* desk, is Membership's own.

\* Every desk's variables keep their types.
PeopleTyped ==
  /\ TypeOK
  /\ desk = "passwords" => Sign("passwords")!TypeOK
  /\ desk = "codes" => Sign("codes")!TypeOK
  /\ desk = "console" => Sign("console")!TypeOK
  /\ desk = "shown" => Load("shown")!TypeOK
  /\ desk = "moved" => Load("moved")!TypeOK
  /\ desk = "pictures" => Pictures!TypeOK
  /\ desk = "platform" => Platform!TypeOK

\* A password and an emailed code are guessed at a bounded number of times
\* before they are locked, though each counter is read and written back
\* (throttle.py:90, otp.py:80).
GuessesBounded == /\ desk = "passwords" => Sign("passwords")!GuessesBounded
                  /\ desk = "codes" => Sign("codes")!AttemptsBounded
                  /\ desk = "console" => Sign("console")!GuessesBounded /\ Sign("console")!AttemptsBounded

\* A password reset ends the sessions of the password before it
\* (auth/service.py:814).
ResetSignsOut == desk = "passwords" => Sign("passwords")!ResetSignsOut

\* What a partner is listed opens and what opens is listed
\* (requests/service.py:41, ownership.py:114), and a partner with live work is on
\* the roster of the consultant it is for (consultants/router.py:145).
PartnersFind == /\ desk = "shown" => Load("shown")!ListedOpens
                /\ desk = "moved" => Load("moved")!WorkIsLinked

\* A move of a client running alone ends with the open work where the client is
\* (consultants/router.py:148).
MovedWhole == [][desk = "moved" => Load("moved")!MovesWhole]_peopleVars

\* An uploaded picture a profile shows opens, however uploads and removals
\* interleave, unless a call was cut between two of its steps (storage.py:133);
\* of an address typed at PATCH /me nothing is claimed (users/service.py:48).
PictureOpens == desk = "pictures" => Pictures!PictureOpens

\* A platform that had an administrator has one still (admin_users.py:108), and
\* the seeder and the profile shut nobody out of a workspace (profile.py:139).
StaffKept == desk = "platform" => Platform!StaffRemains /\ Platform!NobodyShutOut
=============================================================================
