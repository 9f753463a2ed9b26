------------------------------- MODULE Avatars -------------------------------
(***************************************************************************)
(* The profile picture of an account: a blob in a bucket and the entry of  *)
(* the account's row that names it, replaced and removed by calls that run *)
(* side by side, refused or cut short between their steps, and the address *)
(* the profile shows, which its owner may also type.                       *)
(*                                                                         *)
(* Source: save_avatar, stream_file and delete_file of                     *)
(* app/services/storage.py, the avatar endpoints of                        *)
(* app/modules/users/router.py (a workspace account), update_profile of    *)
(* app/modules/users/service.py, and the avatar endpoints of               *)
(* app/modules/admin/profile.py (a platform administrator).                *)
(***************************************************************************)
EXTENDS FiniteSets

CONSTANTS
  Owners,
  Admins,        \* the owners that are platform administrators
  Blobs, NoBlob,
  Calls

\* What the constants satisfy: assumed wherever the module is instantiated.
AvatarsAssumption == Admins \subseteq Owners /\ Owners # {} /\ NoBlob \notin Blobs

VARIABLES
  rows,      \* owner |-> the blob its row names, and the address it shows
  bucket,    \* the blobs stored
  used,      \* the blobs ever stored: the store never repeats an id
  cut,       \* history: the owners one of whose calls died between two steps
  uploading  \* the calls in flight

avars == <<rows, bucket, used, cut, uploading>>

Pcs == {"idle", "up_save", "up_drop", "up_write", "rm_unset", "rm_drop"}
Idle == [pc |-> "idle", owner |-> CHOOSE o \in Owners : TRUE, previous |-> NoBlob, blob |-> NoBlob]
\* avatar_url: absent, the one an upload writes, or one typed at PATCH /me.
PictureUrls == {"none", "upload", "typed"}
NoPicture == [blob |-> NoBlob, address |-> "none"]

TypeOK ==
  /\ rows \in [Owners -> [blob: Blobs \cup {NoBlob}, address: PictureUrls]]
  /\ bucket \subseteq used /\ used \subseteq Blobs /\ cut \subseteq Owners
  /\ uploading \in [Calls -> [pc: Pcs, owner: Owners, previous: Blobs \cup {NoBlob},
                              blob: Blobs \cup {NoBlob}]]

Init ==
  /\ rows = [o \in Owners |-> NoPicture]
  /\ bucket = {} /\ used = {} /\ cut = {}
  /\ uploading = [c \in Calls |-> Idle]

At(c, pc) == uploading[c].pc = pc
Who(c) == uploading[c].owner
Goto(c, pc) == uploading' = [uploading EXCEPT ![c].pc = pc]
End(c) == uploading' = [uploading EXCEPT ![c] = Idle]
Start(c, pc, o) ==
  /\ At(c, "idle")
  /\ uploading' = [uploading EXCEPT ![c] =
       [pc |-> pc, owner |-> o, previous |-> rows[o].blob, blob |-> NoBlob]]

-----------------------------------------------------------------------------
\* The row is read, with the picture it names now.
UploadStart(c, o) ==
  /\ Start(c, "up_save", o)
  /\ UNCHANGED <<rows, bucket, used, cut>>

\* Mutant: the old picture is deleted before the new file is looked at.
UploadRefusedTooLate(c) ==
  /\ At(c, "up_save")
  /\ bucket' = bucket \ {uploading[c].previous}
  /\ End(c)
  /\ UNCHANGED <<rows, used, cut>>

\* A file that is no image, too large or empty, or that the bucket refuses.
UploadRefused(c) ==
  /\ At(c, "up_save")
  /\ End(c)
  /\ UNCHANGED <<rows, bucket, used, cut>>

\* save_avatar: the blob is written, and then the one it replaces is deleted.
UploadSave(c) ==
  /\ At(c, "up_save")
  /\ \E b \in Blobs \ used :
       /\ bucket' = bucket \cup {b} /\ used' = used \cup {b}
       /\ uploading' = [uploading EXCEPT ![c].pc = "up_drop", ![c].blob = b]
  /\ UNCHANGED <<rows, cut>>

UploadDrop(c) ==
  /\ At(c, "up_drop")
  /\ bucket' = bucket \ {uploading[c].previous}
  /\ Goto(c, "up_write")
  /\ UNCHANGED <<rows, used, cut>>

\* Both doors write the picture; a workspace account keeps its address beside it.
UploadWriteUser(c) ==
  /\ At(c, "up_write") /\ Who(c) \notin Admins
  /\ rows' = [rows EXCEPT ![Who(c)] = [blob |-> uploading[c].blob, address |-> "upload"]]
  /\ End(c)
  /\ UNCHANGED <<bucket, used, cut>>

UploadWriteAdmin(c) ==
  /\ At(c, "up_write") /\ Who(c) \in Admins
  /\ rows' = [rows EXCEPT ![Who(c)].blob = uploading[c].blob]
  /\ End(c)
  /\ UNCHANGED <<bucket, used, cut>>

RemoveStart(c, o) ==
  /\ rows[o].blob # NoBlob
  /\ Start(c, "rm_unset", o)
  /\ UNCHANGED <<rows, bucket, used, cut>>

\* update_profile: PATCH /me writes any address beside whatever picture there is.
TypeAddress(o) ==
  /\ o \notin Admins
  /\ rows' = [rows EXCEPT ![o].address = "typed"]
  /\ UNCHANGED <<bucket, used, cut, uploading>>

\* The row first and the blob second.
RemoveUser(c) ==
  /\ At(c, "rm_unset") /\ Who(c) \notin Admins
  /\ rows' = [rows EXCEPT ![Who(c)] = NoPicture]
  /\ Goto(c, "rm_drop")
  /\ UNCHANGED <<bucket, used, cut>>

RemoveAdmin(c) ==
  /\ At(c, "rm_unset") /\ Who(c) \in Admins
  /\ rows' = [rows EXCEPT ![Who(c)].blob = NoBlob]
  /\ Goto(c, "rm_drop")
  /\ UNCHANGED <<bucket, used, cut>>

\* delete_file swallows what the bucket answers: the blob may stay.
RemoveDrop(c) ==
  /\ At(c, "rm_drop")
  /\ \/ bucket' = bucket \ {uploading[c].previous}
     \/ UNCHANGED bucket
  /\ End(c)
  /\ UNCHANGED <<rows, used, cut>>

\* The process dies between two steps of a call.
Crash(c) ==
  /\ ~At(c, "idle")
  /\ cut' = IF At(c, "up_write") THEN cut \cup {Who(c)} ELSE cut
  /\ End(c)
  /\ UNCHANGED <<rows, bucket, used>>

-----------------------------------------------------------------------------
Next ==
  \/ \E c \in Calls :
       \/ \E o \in Owners : UploadStart(c, o) \/ RemoveStart(c, o)
       \/ UploadRefused(c) \/ UploadSave(c) \/ UploadDrop(c)
       \/ UploadWriteUser(c) \/ UploadWriteAdmin(c)
       \/ RemoveUser(c) \/ RemoveAdmin(c) \/ RemoveDrop(c) \/ Crash(c)
  \/ \E o \in Owners : TypeAddress(o)

Spec == Init /\ [][Next]_avars

-----------------------------------------------------------------------------
\* The screens: the address an upload gave is shown, and opening it streams the
\* blob named. What an address typed by hand opens is no picture of the store's.
ShowsUser(o) == rows[o].address = "upload"
ShowsAdmin(o) == rows[o].blob # NoBlob
Opens(o) == rows[o].blob \in bucket

\* An uploaded picture a profile shows opens once the calls of its owner are
\* over, whatever uploads and removals ran side by side or were refused, unless
\* a call was cut between deleting the old blob and naming the new one
\* (storage.py:133-136; profile.py:253-254). An address typed at PATCH /me
\* (users/service.py:48-52) is not claimed to open: nothing checks it.
PictureOpens ==
  \A o \in Owners \ cut :
    /\ \A c \in Calls : At(c, "idle") \/ Who(c) # o
    /\ IF o \in Admins THEN ShowsAdmin(o) ELSE ShowsUser(o)
    => Opens(o)

\* PictureOpens as an inductive invariant: a blob on its way in is known to its
\* call alone, one on its way out to its owner's calls, and a row whose picture
\* is gone is about to be written by the call that deleted it.
PictureInv ==
  /\ \A o \in Owners :
       /\ rows[o].blob \in used \cup {NoBlob}
       /\ o \notin Admins /\ ShowsUser(o) => rows[o].blob # NoBlob
       /\ \A q \in Owners : rows[o].blob = rows[q].blob /\ rows[o].blob # NoBlob => o = q
       /\ o \notin cut /\ rows[o].blob # NoBlob =>
            \/ Opens(o)
            \/ \E c \in Calls : At(c, "up_write") /\ Who(c) = o /\ uploading[c].previous = rows[o].blob
  /\ \A c \in Calls :
       /\ {uploading[c].previous, uploading[c].blob} \subseteq used \cup {NoBlob}
       /\ \A o \in Owners : uploading[c].previous = rows[o].blob /\ rows[o].blob # NoBlob =>
                              Who(c) = o /\ ~At(c, "rm_drop")
       /\ At(c, "up_drop") \/ At(c, "up_write") =>
            /\ uploading[c].blob \in bucket
            /\ \A o \in Owners : rows[o].blob # uploading[c].blob
            /\ \A d \in Calls :
                 /\ uploading[d].previous # uploading[c].blob
                 /\ uploading[d].blob = uploading[c].blob => c = d
=============================================================================
