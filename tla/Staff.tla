-------------------------------- MODULE Staff --------------------------------
(***************************************************************************)
(* The platform's own accounts: the first one, seeded at boot or made by   *)
(* the setup endpoint, and the ones its holders add, change and remove,    *)
(* beside the directory of the people who sign in to a workspace.          *)
(*                                                                         *)
(* Source: app/db/seed.py (with app/main.py's start-up and                 *)
(* scripts_create_superadmin.py), app/modules/admin/setup.py,              *)
(* admin_users.py and profile.py, the caller's check of app/core/deps.py   *)
(* and the order in which app/modules/auth/service.py looks an address up. *)
(***************************************************************************)
EXTENDS FiniteSets

CONSTANTS
  Staffers,  \* the ids of platform accounts
  Emails,
  Configured, \* ADMIN_EMAIL
  TokenSet,   \* PLATFORM_SETUP_TOKEN is set
  Calls,
  Alone       \* the operations that run with no other call beside them

\* What the constants satisfy: assumed wherever the module is instantiated.
StaffAssumption ==
  /\ Configured \in Emails /\ TokenSet \in BOOLEAN
  /\ Alone \subseteq {"seed", "setup", "create", "update", "delete", "profile"}

VARIABLES
  staff,     \* platform_admins: id |-> address and status, of the rows there are
  directory, \* the addresses of user_directory
  founded,   \* history: there was an administrator once
  careless,  \* history: the addresses a step without a look at the other side doubled
  admitting  \* the calls in flight

svars == <<staff, directory, founded, careless, admitting>>

NoRow == [email |-> "none", status |-> "none"]
Statuses == {"active", "suspended"}
Ops == {"seed", "setup", "create", "update", "delete", "profile"}
Pcs == {"idle", "se_directory", "se_insert", "st_insert", "cr_insert", "up_write",
        "de_delete", "pr_directory", "pr_write"}

Idle == [pc |-> "idle", op |-> "seed", who |-> "none", email |-> Configured, status |-> "active"]

TypeOK ==
  /\ staff \in [Staffers -> [email: Emails, status: Statuses] \cup {NoRow}]
  /\ directory \subseteq Emails /\ founded \in BOOLEAN /\ careless \subseteq Emails
  /\ admitting \in [Calls -> [pc: Pcs, op: Ops, who: Staffers \cup {"none"}, email: Emails,
                              status: Statuses]]

Rows == {i \in Staffers : staff[i] # NoRow}
Held(e) == \E i \in Rows : staff[i].email = e

Init ==
  /\ staff = [i \in Staffers |-> NoRow]
  /\ directory = {} /\ founded = FALSE /\ careless = {}
  /\ admitting = [c \in Calls |-> Idle]

At(c, pc) == admitting[c].pc = pc
Goto(c, pc) == admitting' = [admitting EXCEPT ![c].pc = pc]
End(c) == admitting' = [admitting EXCEPT ![c] = Idle]
Start(c, op, pc, i, e, st) ==
  /\ At(c, "idle")
  /\ \A o \in Calls : At(o, "idle") \/ (op \notin Alone /\ admitting[o].op \notin Alone)
  /\ admitting' = [admitting EXCEPT ![c] = [pc |-> pc, op |-> op, who |-> i, email |-> e, status |-> st]]

\* get_current_user: the row the token names is there and is not suspended.
\* Every platform account passes require_super_admin, whatever its admin_role.
MayCall(i) == i \in Rows /\ staff[i].status # "suspended"

\* The insert of an account: the address is unique among the platform's.
Insert(c, e) ==
  /\ IF Held(e) THEN UNCHANGED <<staff, founded>>
     ELSE \E i \in Staffers \ Rows :
            /\ staff' = [staff EXCEPT ![i] = [email |-> e, status |-> "active"]]
            /\ founded' = TRUE
  /\ End(c)
  /\ UNCHANGED directory

-----------------------------------------------------------------------------
\* The seeder at boot or by the script: an address held by nobody, in neither
\* collection, becomes an administrator.
Boot(c) ==
  /\ ~Held(Configured)
  /\ Start(c, "seed", "se_directory", "none", Configured, "active")
  /\ UNCHANGED <<staff, directory, founded, careless>>

SeedLooksAround(c) ==
  /\ At(c, "se_directory")
  /\ IF admitting[c].email \in directory THEN End(c) ELSE Goto(c, "se_insert")
  /\ UNCHANGED <<staff, directory, founded, careless>>

SeedInsert(c) ==
  /\ At(c, "se_insert")
  /\ Insert(c, admitting[c].email)
  /\ UNCHANGED careless

\* create_initial_super_admin: only while there is no account at all.
SetUp(c, e) ==
  /\ TokenSet /\ Rows = {}
  /\ Start(c, "setup", "st_insert", "none", e, "active")
  /\ UNCHANGED <<staff, directory, founded, careless>>

\* The directory is not looked at, here nor in create_admin.
Doubled(e) == IF e \in directory /\ ~Held(e) THEN careless \cup {e} ELSE careless

SetUpInsert(c) ==
  /\ At(c, "st_insert")
  /\ careless' = Doubled(admitting[c].email)
  /\ Insert(c, admitting[c].email)

CreateStart(c, by, e) ==
  /\ MayCall(by) /\ ~Held(e)
  /\ Start(c, "create", "cr_insert", by, e, "active")
  /\ UNCHANGED <<staff, directory, founded, careless>>

CreateInsert(c) ==
  /\ At(c, "cr_insert")
  /\ careless' = Doubled(admitting[c].email)
  /\ Insert(c, admitting[c].email)

\* update_admin: anybody's status, one's own too.
UpdateStart(c, by, i, st) ==
  /\ MayCall(by)
  /\ Start(c, "update", "up_write", i, Configured, st)
  /\ UNCHANGED <<staff, directory, founded, careless>>

UpdateWrite(c) ==
  /\ At(c, "up_write")
  /\ staff' = IF admitting[c].who \in Rows
              THEN [staff EXCEPT ![admitting[c].who].status = admitting[c].status] ELSE staff
  /\ End(c)
  /\ UNCHANGED <<directory, founded, careless>>

\* Mutant: an administrator may delete the account they are signed in with.
MayDeleteOneself(by, i) == TRUE

MayDelete(by, i) == by # i

DeleteStart(c, by, i) ==
  /\ MayCall(by) /\ MayDelete(by, i)
  /\ Start(c, "delete", "de_delete", i, Configured, "active")
  /\ UNCHANGED <<staff, directory, founded, careless>>

DeleteRow(c) ==
  /\ At(c, "de_delete")
  /\ staff' = [staff EXCEPT ![admitting[c].who] = NoRow]
  /\ End(c)
  /\ UNCHANGED <<directory, founded, careless>>

\* update_profile: a new address must be free on both sides.
ProfileStart(c, i, e) ==
  /\ MayCall(i) /\ ~Held(e)
  /\ Start(c, "profile", "pr_directory", i, e, "active")
  /\ UNCHANGED <<staff, directory, founded, careless>>

\* Mutant: the directory is not looked at.
FreeInDirectoryAlways(e) == TRUE

FreeInDirectory(e) == e \notin directory

ProfileLooksAround(c) ==
  /\ At(c, "pr_directory")
  /\ IF FreeInDirectory(admitting[c].email) THEN Goto(c, "pr_write") ELSE End(c)
  /\ UNCHANGED <<staff, directory, founded, careless>>

ProfileWrite(c) ==
  /\ At(c, "pr_write")
  /\ staff' = IF Held(admitting[c].email) \/ admitting[c].who \notin Rows THEN staff
              ELSE [staff EXCEPT ![admitting[c].who].email = admitting[c].email]
  /\ End(c)
  /\ UNCHANGED <<directory, founded, careless>>

\* A sign-up or an invitation enters an address, with no look at the platform's.
Enrol(e) ==
  /\ e \notin directory
  /\ \A c \in Calls : admitting[c].op \in Alone => At(c, "idle")
  /\ directory' = directory \cup {e}
  /\ careless' = IF Held(e) THEN careless \cup {e} ELSE careless
  /\ UNCHANGED <<staff, founded, admitting>>

-----------------------------------------------------------------------------
Next ==
  \/ \E c \in Calls :
       \/ Boot(c) \/ SeedLooksAround(c) \/ SeedInsert(c) \/ SetUpInsert(c)
       \/ CreateInsert(c) \/ UpdateWrite(c) \/ DeleteRow(c) \/ ProfileLooksAround(c) \/ ProfileWrite(c)
       \/ \E e \in Emails : \/ SetUp(c, e)
                            \/ \E i \in Staffers : CreateStart(c, i, e) \/ ProfileStart(c, i, e)
       \/ \E by, i \in Staffers : \/ DeleteStart(c, by, i)
                                  \/ \E st \in Statuses : UpdateStart(c, by, i, st)
  \/ \E e \in Emails : Enrol(e)

Spec == Init /\ [][Next]_svars

-----------------------------------------------------------------------------
\* With one removal at a time, a platform that had an administrator has one
\* still: nobody removes themselves, and whoever removes another stays
\* (admin_users.py:108).
StaffRemains == founded => Rows # {}

\* login looks among the administrators first: an address on both sides signs
\* in to the platform and its workspace account is shut out.
ShutOut(e) == e \in directory /\ Held(e)

\* The seeder and the profile never shut anybody out of their workspace: an
\* address is on both sides only when an invitation, the setup or an enrolment,
\* which do not look, put it there (profile.py:139-142, seed.py:65-67).
NobodyShutOut == \A e \in Emails : ShutOut(e) => e \in careless

\* Both as an inductive invariant, where removals, the seeder and the profile
\* run alone: whoever is about to remove somebody stays, and the address a
\* seeder or a profile is about to write is nobody's in a workspace.
StaffInv ==
  /\ \A c \in Calls :
       /\ admitting[c].pc \in {"se_directory", "se_insert"} => admitting[c].op = "seed"
       /\ admitting[c].pc \in {"pr_directory", "pr_write"} => admitting[c].op = "profile"
       /\ At(c, "de_delete") => admitting[c].op = "delete" /\ Rows \ {admitting[c].who} # {}
       /\ At(c, "se_insert") \/ At(c, "pr_write") => admitting[c].email \notin directory
       /\ ~At(c, "idle") /\ admitting[c].op \in Alone => \A o \in Calls \ {c} : At(o, "idle")
  /\ StaffRemains /\ NobodyShutOut
=============================================================================
