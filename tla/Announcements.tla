---------------------------- MODULE Announcements ----------------------------
(***************************************************************************)
(* The platform's announcements, told workspace by workspace to the people *)
(* of an audience, and the inbox of its staff.                             *)
(*                                                                         *)
(* Source: app/modules/admin/announcements.py.  Creating a published one   *)
(* inserts it, records it and then walks the workspaces: a workspace is a  *)
(* step, and the walk may be cut between two of them by a crash or by a    *)
(* database that refuses.  What the notices do next is PushDelivery's.     *)
(***************************************************************************)
EXTENDS Naturals, FiniteSets

CONSTANTS
  News,       \* announcements
  Firms,      \* workspaces
  People,
  FirmOf,     \* person |-> workspace
  RoleOf,     \* person |-> "client", "partner", "consultant" or "consultant_owner"
  Staffers, Notes,
  MaxTold

Roles == {"client", "partner", "consultant", "consultant_owner"}
Audiences == {"all", "consultants", "partners", "clients"}

\* What the constants satisfy: assumed wherever the module is instantiated.
AnnouncementsAssumption ==
  FirmOf \in [People -> Firms] /\ RoleOf \in [People -> Roles] /\ MaxTold \in Nat \ {0}

VARIABLES
  posts,  \* announcement |-> how it stands, for whom
  open,   \* the workspaces there are
  told,   \* the number of notices of each announcement a person got
  walks,  \* announcement |-> the walk over the workspaces, for the audience it was made for
  bell    \* the notices of the staff: none, unread or read

nvars == <<posts, open, told, walks, bell>>

NoWalk == [pc |-> "none", audience |-> "all", began |-> {}, done |-> {}]

TypeOK ==
  /\ posts \in [News -> [state: {"none", "draft", "published", "deleted"}, audience: Audiences]]
  /\ open \subseteq Firms
  /\ told \in [News -> [People -> 0..MaxTold]]
  /\ walks \in [News -> [pc: {"none", "audit", "walk", "done", "cut"}, audience: Audiences,
                      began: SUBSET Firms, done: SUBSET Firms]]
  /\ bell \in [Staffers -> [Notes -> {"none", "unread", "read"}]]

Init ==
  /\ posts = [n \in News |-> [state |-> "none", audience |-> "all"]]
  /\ open \in SUBSET Firms
  /\ told = [n \in News |-> [p \in People |-> 0]]
  /\ walks = [n \in News |-> NoWalk]
  /\ bell = [s \in Staffers |-> [m \in Notes |-> "none"]]

\* Mutant: the owner of a firm is not one of its consultants.
TargetRolesWithoutOwner(audience) ==
  CASE audience = "consultants" -> {"consultant"}
    [] audience = "partners" -> {"partner"}
    [] audience = "clients" -> {"client"}
    [] OTHER -> Roles

\* target_roles: no filter at all for everybody.
TargetRoles(audience) ==
  CASE audience = "consultants" -> {"consultant", "consultant_owner"}
    [] audience = "partners" -> {"partner"}
    [] audience = "clients" -> {"client"}
    [] OTHER -> Roles

-----------------------------------------------------------------------------
\* create_announcement: the row, the audit entry, and the walk if published.
Create(n, audience, published) ==
  /\ posts[n].state = "none"
  /\ posts' = [posts EXCEPT ![n] = [state |-> IF published THEN "published" ELSE "draft",
                                    audience |-> audience]]
  /\ walks' = [walks EXCEPT ![n].pc = IF published THEN "audit" ELSE "none", ![n].audience = audience]
  /\ UNCHANGED <<open, told, bell>>

Begin(n) ==
  /\ walks[n].pc = "audit"
  /\ walks' = [walks EXCEPT ![n].pc = "walk", ![n].began = open]
  /\ UNCHANGED <<posts, open, told, bell>>

\* One workspace: its people of the audience, through notify.
Tell(n, f) ==
  /\ walks[n].pc = "walk"
  /\ f \in open \ walks[n].done
  /\ LET to == {p \in People : FirmOf[p] = f /\ RoleOf[p] \in TargetRoles(walks[n].audience)}
     IN told' = [told EXCEPT ![n] = [p \in People |-> IF p \in to /\ @[p] < MaxTold THEN @[p] + 1 ELSE @[p]]]
  /\ walks' = [walks EXCEPT ![n].done = @ \cup {f}]
  /\ UNCHANGED <<posts, open, bell>>

\* The cursor ends: a workspace opened since may have been met or not.
Told(n) ==
  /\ walks[n].pc = "walk" /\ walks[n].began \subseteq walks[n].done
  /\ walks' = [walks EXCEPT ![n].pc = "done"]
  /\ UNCHANGED <<posts, open, told, bell>>

Cut(n) ==
  /\ walks[n].pc \in {"audit", "walk"}
  /\ walks' = [walks EXCEPT ![n].pc = "cut"]
  /\ UNCHANGED <<posts, open, told, bell>>

\* A workspace is opened by a sign-up; none is ever deleted.
OpenFirm(f) ==
  /\ f \notin open
  /\ open' = open \cup {f}
  /\ UNCHANGED <<posts, told, walks, bell>>

\* update_announcement: published or not, for an audience or another, told by nobody.
Update(n, audience, published) ==
  /\ posts[n].state \in {"draft", "published"}
  /\ posts' = [posts EXCEPT ![n] = [state |-> IF published THEN "published" ELSE "draft",
                                    audience |-> audience]]
  /\ UNCHANGED <<open, told, walks, bell>>

\* delete_announcement: the row goes, what was told stays told.
Delete(n) ==
  /\ posts[n].state \in {"draft", "published"}
  /\ posts' = [posts EXCEPT ![n].state = "deleted"]
  /\ UNCHANGED <<open, told, walks, bell>>

\* The staff's inbox.
NotifyStaff(m, to) ==
  /\ \A s \in Staffers : bell[s][m] = "none"
  /\ bell' = [s \in Staffers |-> [bell[s] EXCEPT ![m] = IF s \in to THEN "unread" ELSE @]]
  /\ UNCHANGED <<posts, open, told, walks>>

ReadOne(s, m) ==
  /\ bell[s][m] = "unread"
  /\ bell' = [bell EXCEPT ![s][m] = "read"]
  /\ UNCHANGED <<posts, open, told, walks>>

ReadAll(s) ==
  /\ bell' = [bell EXCEPT ![s] = [m \in Notes |-> IF @[m] = "unread" THEN "read" ELSE @[m]]]
  /\ UNCHANGED <<posts, open, told, walks>>

-----------------------------------------------------------------------------
Next ==
  \/ \E n \in News :
       \/ \E a \in Audiences, b \in BOOLEAN : Create(n, a, b) \/ Update(n, a, b)
       \/ \E f \in Firms : Tell(n, f)
       \/ Begin(n) \/ Told(n) \/ Cut(n) \/ Delete(n)
  \/ \E f \in Firms : OpenFirm(f)
  \/ \E m \in Notes : \/ \E to \in SUBSET Staffers \ {{}} : NotifyStaff(m, to)
                      \/ \E s \in Staffers : ReadOne(s, m)
  \/ \E s \in Staffers : ReadAll(s)

Spec == Init /\ [][Next]_nvars

-----------------------------------------------------------------------------
\* Who an announcement of this audience is for.
For(p, audience) ==
  \/ audience = "all"
  \/ audience = "consultants" /\ RoleOf[p] \in {"consultant", "consultant_owner"}
  \/ audience = "partners" /\ RoleOf[p] = "partner"
  \/ audience = "clients" /\ RoleOf[p] = "client"

\* An announcement is told once, to the people it is for and to nobody else,
\* whatever is edited, deleted or opened while the walk goes on; once the walk
\* has ended, to all of them whose workspace was there when it began
\* (announcements.py:78-113).
ToldOnce ==
  \A n \in News, p \in People :
    /\ told[n][p] <= 1
    /\ told[n][p] > 0 => For(p, walks[n].audience)
    /\ walks[n].pc = "done" /\ FirmOf[p] \in walks[n].began /\ For(p, walks[n].audience)
         => told[n][p] = 1

\* How far the walk is and what everybody was told: inductive with TypeOK.
NewsInv ==
  \A n \in News :
    /\ posts[n].state = "none" => walks[n].pc = "none"
    /\ walks[n].pc \in {"none", "audit"} => walks[n].done = {}
    /\ walks[n].pc = "done" => walks[n].began \subseteq walks[n].done
    /\ \A p \in People :
         told[n][p] = IF FirmOf[p] \in walks[n].done /\ For(p, walks[n].audience) THEN 1 ELSE 0
=============================================================================
