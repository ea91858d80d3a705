------------------------------ MODULE Uploads --------------------------------
(***************************************************************************)
(* Files that rows name. An attachment is written to disk under a name of  *)
(* its own, perhaps again as a smaller image beside it, and then recorded; *)
(* a message claims recorded attachments of its sender, row lock by row    *)
(* lock. An avatar is written, the user's or room's row is pointed at it,  *)
(* and the file of the earlier one is removed. Any write may fail, and the *)
(* process may stop between two steps.                                     *)
(***************************************************************************)
EXTENDS Integers, FiniteSets

CONSTANTS
    Upload,         \* attachments: one POST /attachments each
    Message,        \* sends of the uploader that claim attachments
    AsksFor,        \* the attachments a send asks for
    Avatar,         \* avatar uploads of one user or room
    MaxBroken       \* bound on writes that fail and stops

ASSUME UploadAssumption ==
    /\ MaxBroken \in Nat
    /\ Upload \subseteq Nat
    /\ AsksFor \in [Message -> SUBSET Upload]
    /\ "nobody" \notin Message

VARIABLES
    disk,       \* by name: absent, partial, complete
    upload,     \* where the handler of an attachment is
    recorded,   \* the name in attachments.file_path, by attachment
    claimedBy,  \* attachments.message_id
    send,       \* where a send is, and the rows it has locked
    avatar,     \* where the handler of an avatar upload is, what it replaces
    avatarUrl,  \* avatar_url of the row
    broken,     \* counted for the bound
    unlinked    \* a removal of an avatar file has failed (history)

uvars == <<disk, upload, recorded, claimedBy, send, avatar, avatarUrl, broken, unlinked>>

Storage == <<upload, recorded>>
Claims  == <<claimedBy, send>>
Avatars == <<avatar, avatarUrl, unlinked>>

\* The names under which an upload is stored: as it came, and re-encoded.
Raw(u)    == <<u, "raw">>
WebP(u)   == <<u, "webp">>
Picture(a) == <<a, "avatar">>
Names == {Raw(u) : u \in Upload} \cup {WebP(u) : u \in Upload} \cup
         {Picture(a) : a \in Avatar}

Nothing == <<0, "nothing">>

UploadInit ==
    /\ disk = [n \in Names |-> "absent"]
    /\ upload = [u \in Upload |-> "new"]
    /\ recorded = [u \in Upload |-> Nothing] /\ claimedBy = [u \in Upload |-> "nobody"]
    /\ send = [s \in Message |-> [step |-> "new", locked |-> {}]]
    /\ avatar = [a \in Avatar |-> [step |-> "new", old |-> Nothing]]
    /\ avatarUrl = Nothing
    /\ broken = 0 /\ unlinked = FALSE

Breaks == broken < MaxBroken /\ broken' = broken + 1

Put(n, how) == disk' = [disk EXCEPT ![n] = how]

Now(u, step) == upload' = [upload EXCEPT ![u] = step]

-----------------------------------------------------------------------------
\* parseSingleFile: the bytes are in memory and are written as they came.
SaveRaw(u) ==
    /\ upload[u] = "new"
    /\ \/ Put(Raw(u), "complete") /\ Now(u, "saved") /\ UNCHANGED broken
       \/ Put(Raw(u), "partial") /\ Now(u, "failed") /\ Breaks
    /\ UNCHANGED <<recorded, Claims, Avatars>>

\* compressAttachmentIfEligible: not an image, or not smaller, and the upload
\* stays as it is.
KeepRaw(u) ==
    /\ upload[u] = "saved"
    /\ Now(u, "keep")
    /\ UNCHANGED <<disk, recorded, broken, Claims, Avatars>>

\* Mutant: the raw file makes room before the smaller one is written.
RawFirst(u) == [disk EXCEPT ![WebP(u)] = "partial", ![Raw(u)] = "absent"]

Beside(u) == [disk EXCEPT ![WebP(u)] = "partial"]

StartWebP(u) ==
    /\ upload[u] = "saved"
    /\ disk' = Beside(u)
    /\ Now(u, "encode")
    /\ UNCHANGED <<recorded, broken, Claims, Avatars>>

\* The write ends, and only then the raw file goes, if it can be removed.
EndWebP(u) ==
    /\ upload[u] = "encode"
    /\ \E left \in {"absent", disk[Raw(u)]} :
          disk' = [disk EXCEPT ![WebP(u)] = "complete", ![Raw(u)] = left]
    /\ Now(u, "swapped")
    /\ UNCHANGED <<recorded, broken, Claims, Avatars>>

\* The write fails: what there is of it goes, if it can be removed.
FailWebP(u) ==
    /\ upload[u] = "encode" /\ Breaks
    /\ \E left \in {"absent", "partial"} : Put(WebP(u), left)
    /\ Now(u, "keep")
    /\ UNCHANGED <<recorded, Claims, Avatars>>

\* attachmentRepository.create.
Record(u) ==
    /\ upload[u] \in {"keep", "swapped"}
    /\ \/ /\ recorded' = [recorded EXCEPT ![u] =
                            IF upload[u] = "keep" THEN Raw(u) ELSE WebP(u)]
          /\ Now(u, "done") /\ UNCHANGED broken
       \/ Now(u, "failed") /\ Breaks /\ UNCHANGED recorded
    /\ UNCHANGED <<disk, Claims, Avatars>>

-----------------------------------------------------------------------------
(* Messages claim attachments: SELECT ... WHERE message_id IS NULL ...     *)
(* ORDER BY ... FOR UPDATE takes the rows one after the other, and looks   *)
(* at a row again that it had to wait for.                                 *)

LockedBy(s, u) == \E o \in Message \ {s} : u \in send[o].locked

Unclaimed(u) == recorded[u] # Nothing /\ claimedBy[u] = "nobody"

\* Mutant: a row is taken as it was when the statement began.
AsListed(s, u) == recorded[u] # Nothing

Claimable(s, u) == ~LockedBy(s, u) /\ Unclaimed(u)

Remaining(s) == AsksFor[s] \ send[s].locked

Foremost(S) == CHOOSE u \in S : \A v \in S : u <= v

LockRow(s) ==
    /\ send[s].step = "new" /\ Remaining(s) # {}
    /\ LET u == Foremost(Remaining(s)) IN
         /\ Claimable(s, u)
         /\ send' = [send EXCEPT ![s].locked = @ \cup {u}]
    /\ UNCHANGED <<disk, claimedBy, broken, Storage, Avatars>>

\* A row is missing or has a message: the count differs, and the send fails.
RefuseClaim(s) ==
    /\ send[s].step = "new" /\ Remaining(s) # {}
    /\ LET u == Foremost(Remaining(s)) IN ~LockedBy(s, u) /\ ~Unclaimed(u)
    /\ send' = [send EXCEPT ![s] = [step |-> "failed", locked |-> {}]]
    /\ UNCHANGED <<disk, claimedBy, broken, Storage, Avatars>>

\* The message and its claims commit together, or not at all.
CommitSend(s) ==
    /\ send[s].step = "new" /\ Remaining(s) = {}
    /\ \/ /\ claimedBy' = [u \in Upload |-> IF u \in AsksFor[s] THEN s ELSE claimedBy[u]]
          /\ send' = [send EXCEPT ![s] = [step |-> "done", locked |-> {}]]
          /\ UNCHANGED broken
       \/ /\ send' = [send EXCEPT ![s] = [step |-> "failed", locked |-> {}]]
          /\ Breaks /\ UNCHANGED claimedBy
    /\ UNCHANGED <<disk, Storage, Avatars>>

-----------------------------------------------------------------------------
(* Avatars of a user or a room.                                            *)

\* uploadAvatar reads the row first.
ReadAvatar(a) ==
    /\ avatar[a].step = "new"
    /\ avatar' = [avatar EXCEPT ![a] = [step |-> "read", old |-> avatarUrl]]
    /\ UNCHANGED <<disk, broken, avatarUrl, unlinked, Storage, Claims>>

\* saveAvatarUpload re-encodes and writes under a fresh name.
SaveAvatar(a) ==
    /\ avatar[a].step = "read"
    /\ \/ Put(Picture(a), "complete") /\ UNCHANGED broken
          /\ avatar' = [avatar EXCEPT ![a].step = "saved"]
       \/ Put(Picture(a), "partial") /\ Breaks
          /\ avatar' = [avatar EXCEPT ![a].step = "failed"]
    /\ UNCHANGED <<avatarUrl, unlinked, Storage, Claims>>

\* repo.update; where it fails the new file goes.
PointAvatar(a) ==
    /\ avatar[a].step = "saved"
    /\ \/ /\ avatarUrl' = Picture(a)
          /\ avatar' = [avatar EXCEPT ![a].step = "pointed"] /\ UNCHANGED broken
       \/ /\ avatar' = [avatar EXCEPT ![a].step = "undo"] /\ Breaks
          /\ UNCHANGED avatarUrl
    /\ UNCHANGED <<disk, unlinked, Storage, Claims>>

Replaces(a) == avatar[a].old

\* removeManagedAvatar of the earlier file. Should that fail, the same handler
\* removes the new one.
RemoveOld(a) ==
    /\ avatar[a].step = "pointed"
    /\ \/ /\ disk' = [n \in Names |-> IF n = Replaces(a) THEN "absent" ELSE disk[n]]
          /\ avatar' = [avatar EXCEPT ![a].step = "done"]
          /\ UNCHANGED <<broken, unlinked>>
       \/ /\ Replaces(a) # Nothing /\ Breaks
          /\ unlinked' = TRUE
          /\ avatar' = [avatar EXCEPT ![a].step = "undo"] /\ UNCHANGED disk
    /\ UNCHANGED <<avatarUrl, Storage, Claims>>

UndoAvatar(a) ==
    /\ avatar[a].step = "undo"
    /\ \/ Put(Picture(a), "absent") /\ UNCHANGED broken
       \/ UNCHANGED disk /\ Breaks
    /\ avatar' = [avatar EXCEPT ![a].step = "failed"]
    /\ UNCHANGED <<avatarUrl, unlinked, Storage, Claims>>

\* The process stops: handlers end where they are, transactions roll back.
StopUploads ==
    /\ Breaks
    /\ upload' = [u \in Upload |-> IF upload[u] \in {"new", "done"} THEN upload[u]
                                   ELSE "failed"]
    /\ send' = [s \in Message |-> IF send[s].locked = {} THEN send[s]
                               ELSE [step |-> "failed", locked |-> {}]]
    /\ avatar' = [a \in Avatar |-> IF avatar[a].step \in {"new", "done"} THEN avatar[a]
                                   ELSE [avatar[a] EXCEPT !.step = "failed"]]
    /\ UNCHANGED <<disk, recorded, claimedBy, avatarUrl, unlinked>>

UploadNext ==
    \/ \E u \in Upload : \/ SaveRaw(u) \/ KeepRaw(u) \/ StartWebP(u) \/ EndWebP(u)
                         \/ FailWebP(u) \/ Record(u)
    \/ \E s \in Message : LockRow(s) \/ RefuseClaim(s) \/ CommitSend(s)
    \/ \E a \in Avatar : \/ ReadAvatar(a) \/ SaveAvatar(a) \/ PointAvatar(a)
                         \/ RemoveOld(a) \/ UndoAvatar(a)
    \/ StopUploads

UploadSpec == UploadInit /\ [][UploadNext]_uvars

-----------------------------------------------------------------------------
\* Every variable has its type.
UploadTypeOK ==
    /\ disk \in [Names -> {"absent", "partial", "complete"}]
    /\ upload \in [Upload -> {"new", "saved", "keep", "encode", "swapped", "done", "failed"}]
    /\ recorded \in [Upload -> Names \cup {Nothing}]
    /\ claimedBy \in [Upload -> Message \cup {"nobody"}]
    /\ \A s \in Message : send[s].locked \subseteq AsksFor[s]
    /\ avatarUrl \in Names \cup {Nothing}

\* A row never names a file that is missing or cut short, whichever write
\* failed and wherever the process stopped: an attachment always, an avatar as
\* long as no removal of an earlier file has failed.
RowsNameWholeFiles ==
    /\ \A u \in Upload : recorded[u] # Nothing => disk[recorded[u]] = "complete"
    /\ avatarUrl # Nothing /\ ~unlinked => disk[avatarUrl] = "complete"

\* A message that was sent has every attachment it was sent with, and keeps
\* them: two sends of one attachment do not both succeed.
SentWithAttachments ==
    \A s \in Message : send[s].step = "done" => \A u \in AsksFor[s] : claimedBy[u] = s
=============================================================================
