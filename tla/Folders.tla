------------------------------- MODULE Folders -------------------------------
(***************************************************************************)
(* The folders of one user: the rows of the server, and the chat list of   *)
(* one tab. A room is dropped on a folder by writing the whole content of  *)
(* every folder, in one request each and all at once; the server replaces  *)
(* a folder's rows in a transaction, and lets no room be in two folders.   *)
(***************************************************************************)
EXTENDS Integers, FiniteSets

CONSTANTS
    Filed,      \* the rooms
    Folder, NoFolder,
    Drop,       \* drops that can be under way at once
    MaxMoves,   \* bound on drops, deletions and moves in another tab
    MaxReads    \* bound on answers that differ and are on their way to the tab

ASSUME FoldersAssumption == NoFolder \notin Folder /\ MaxMoves \in Nat /\ MaxReads \in Nat

VARIABLES
    folders,    \* the folders there are
    filed,      \* folder_rooms, UNIQUE(user_id, room_id): each room's folder
    list,       \* the tab: its folders, and the folder of each room
    drops,      \* the drops under way
    puts,       \* their requests that have not ended
    reads,      \* what refreshes have read and the tab has yet to apply
    moves,      \* number of moves so far
    parted      \* history: a drop failed, or met another change of the folders, or
                \* the tab has changed them after a refresh read them

dvars == <<folders, filed, list, drops, puts, reads, moves, parted>>

-----------------------------------------------------------------------------
DropAtRest == [step |-> "idle", room |-> CHOOSE r \in Filed : TRUE, to |-> NoFolder]

FoldersInit ==
    /\ folders \in SUBSET Folder
    /\ filed \in [Filed -> folders \cup {NoFolder}]
    /\ list = [folders |-> folders, of |-> filed]
    /\ drops = [d \in Drop |-> DropAtRest] /\ puts = {} /\ reads = {}
    /\ moves = 0 /\ parted = FALSE

NoDrop == \A d \in Drop : drops[d].step = "idle"

Moving == ~NoDrop \/ puts # {}

Move == moves < MaxMoves /\ moves' = moves + 1

RoomsIn(of, f) == {r \in Filed : of[r] = f}

-----------------------------------------------------------------------------
(* The chat list.                                                          *)

\* handleCategorizeRoom: the room leaves its folder in one request and enters
\* another in the next; nothing orders the two.
Content(d, f) ==
    (RoomsIn(list.of, f) \ {drops[d]'.room}) \cup
    (IF drops[d]'.to = f THEN {drops[d]'.room} ELSE {})

handleCategorizeRoom(d, r, to) ==
    /\ drops[d].step = "idle" /\ Move /\ to \in list.folders \cup {NoFolder}
    /\ drops' = [drops EXCEPT ![d] = [step |-> "waiting", room |-> r, to |-> to]]
    /\ puts' = puts \cup
         {[drop |-> d, folder |-> f, rooms |-> Content(d, f), step |-> "sent",
           gone |-> {}]
            : f \in list.folders}
    /\ parted' = (parted \/ Moving \/ reads # {})
    /\ UNCHANGED <<folders, filed, list, reads>>

\* Promise.all has all its answers.
Dropped(d) ==
    /\ drops[d].step = "waiting" /\ ~\E q \in puts : q.drop = d
    /\ list' = [list EXCEPT !.of[drops[d].room] = drops[d].to]
    /\ drops' = [drops EXCEPT ![d] = DropAtRest]
    /\ UNCHANGED <<folders, filed, puts, reads, moves, parted>>

handleCreateFolder(f) ==
    /\ f \notin folders
    /\ folders' = folders \cup {f} /\ list' = [list EXCEPT !.folders = @ \cup {f}]
    /\ parted' = (parted \/ reads # {})
    /\ UNCHANGED <<filed, drops, puts, reads, moves>>

\* Mutant: the rooms of a deleted folder keep it in the chat list.
AsTheyWere(f) == list.of

Unfiled(f) == [r \in Filed |-> IF list.of[r] = f THEN NoFolder ELSE list.of[r]]

\* The rows go with the folder, and are locked by a transaction that deletes them.
handleDeleteFolder(f) ==
    /\ f \in folders /\ f \in list.folders /\ Move
    /\ ~\E q \in puts : q.folder = f /\ q.step = "deleted"
    /\ folders' = folders \ {f}
    /\ filed' = [r \in Filed |-> IF filed[r] = f THEN NoFolder ELSE filed[r]]
    /\ list' = [folders |-> list.folders \ {f}, of |-> Unfiled(f)]
    /\ parted' = (parted \/ Moving \/ reads # {})
    /\ UNCHANGED <<drops, puts, reads>>

\* refreshRoomsAndFolders asks the server, and some time later has its answers.
listFolders ==
    /\ Cardinality(reads) < MaxReads
    /\ reads' = reads \cup {[folders |-> folders, of |-> filed]}
    /\ parted' = (parted \/ Moving)
    /\ UNCHANGED <<folders, filed, list, drops, puts, moves>>

\* A room that was in no folder any more keeps the one the tab has for it.
mapRooms(read) ==
    /\ list' = [folders |-> read.folders,
                of |-> [r \in Filed |-> IF read.of[r] = NoFolder THEN list.of[r]
                                        ELSE read.of[r]]]
    /\ reads' = reads \ {read}
    /\ UNCHANGED <<folders, filed, drops, puts, moves, parted>>

\* The folders, or the rooms that are asked for with them, do not arrive.
RefreshFails(read) ==
    /\ reads' = reads \ {read}
    /\ UNCHANGED <<folders, filed, list, drops, puts, moves, parted>>

\* Another tab of the user moves a room.
MovedElsewhere(r, f) ==
    /\ Move /\ f \in folders \cup {NoFolder} /\ f # filed[r]
    /\ filed' = [filed EXCEPT ![r] = f]
    /\ parted' = TRUE
    /\ UNCHANGED <<folders, list, drops, puts, reads>>

-----------------------------------------------------------------------------
(* updateFolderRooms, which has found every room to be one of the user's.  *)

Locked(q, rooms) ==
    \E other \in puts \ {q} : other.step = "deleted" /\ other.gone \cap rooms # {}

\* The delete takes the rows it can see, and waits for those that are locked.
DeleteRows(q) ==
    LET gone == RoomsIn(filed, q.folder) IN
    /\ q.step = "sent" /\ q.folder \in folders /\ ~Locked(q, gone)
    /\ puts' = (puts \ {q}) \cup {[q EXCEPT !.step = "deleted", !.gone = gone]}
    /\ UNCHANGED <<folders, filed, list, drops, moves, parted, reads>>

Emptied(q) == [r \in Filed |-> IF r \in q.gone THEN NoFolder ELSE filed[r]]

\* The inserts wait for a transaction that deletes the same room's row, and
\* need every room to be in no folder by then.
InsertRows(q) ==
    /\ q.step = "deleted" /\ ~Locked(q, q.rooms)
    /\ \A r \in q.rooms : Emptied(q)[r] = NoFolder
    /\ filed' = [r \in Filed |-> IF r \in q.rooms THEN q.folder ELSE Emptied(q)[r]]
    /\ puts' = puts \ {q}
    /\ UNCHANGED <<folders, list, drops, moves, parted, reads>>

\* The folder is gone, the room is still in another one, two transactions wait
\* for each other, or the request is lost: what the others do stays.
PutFails(q) ==
    /\ puts' = puts \ {q}
    /\ drops' = [drops EXCEPT ![q.drop] = DropAtRest]
    /\ parted' = TRUE
    /\ UNCHANGED <<folders, filed, list, moves, reads>>

FoldersNext ==
    \/ \E d \in Drop :
         \/ \E r \in Filed, f \in Folder \cup {NoFolder} : handleCategorizeRoom(d, r, f)
         \/ Dropped(d)
    \/ \E f \in Folder : handleCreateFolder(f) \/ handleDeleteFolder(f)
    \/ listFolders \/ \E read \in reads : mapRooms(read) \/ RefreshFails(read)
    \/ \E r \in Filed, f \in Folder \cup {NoFolder} : MovedElsewhere(r, f)
    \/ \E q \in puts : DeleteRows(q) \/ InsertRows(q) \/ PutFails(q)

FoldersSpec == FoldersInit /\ [][FoldersNext]_dvars

-----------------------------------------------------------------------------
\* Every variable has its type.
FoldersTypeOK ==
    /\ folders \subseteq Folder /\ filed \in [Filed -> Folder \cup {NoFolder}]
    /\ list \in [folders : SUBSET Folder, of : [Filed -> Folder \cup {NoFolder}]]
    /\ drops \in [Drop -> [step : {"idle", "waiting"}, room : Filed,
                           to : Folder \cup {NoFolder}]]
    /\ puts \subseteq [drop : Drop, folder : Folder, rooms : SUBSET Filed,
                       step : {"sent", "deleted"}, gone : SUBSET Filed]
    /\ reads \subseteq [folders : SUBSET Folder, of : [Filed -> Folder \cup {NoFolder}]]
    /\ moves \in 0..MaxMoves /\ parted \in BOOLEAN

\* Once no drop is on its way every room is where the chat list shows it, in a
\* folder there is, however its requests were served, the folders deleted and made
\* and the list read again: only a drop that failed or met another change leaves
\* the two apart, and a refresh that has read what the tab then changes.
ListAgrees ==
    NoDrop /\ puts = {} /\ ~parted =>
        /\ list = [folders |-> folders, of |-> filed]
        /\ \A r \in Filed : filed[r] \in folders \cup {NoFolder}
=============================================================================
