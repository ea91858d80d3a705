---------------------------- MODULE PrivateRooms -----------------------------
(***************************************************************************)
(* Two people: their friendship, the blocks between them, and the private  *)
(* rooms they share. The handlers of friendService, createPrivate and a    *)
(* send into such a room, run by clerks of one or two backend processes.   *)
(*                                                                         *)
(* block, unblock and open (createPrivate) run under a lock of the pair    *)
(* that is held in the memory of one process. block and send also take an  *)
(* advisory lock of the database for as long as their transaction runs.    *)
(* Answering a friend request and ending a friendship take neither.        *)
(*                                                                         *)
(* A single statement reads the rows committed when it starts; if a row it *)
(* updates is locked it waits, and then writes by what it read. That is    *)
(* READ COMMITTED as PostgreSQL has it, and why "measure" (the snapshot of *)
(* a conditional reopen) and "reopen" are steps of their own.              *)
(***************************************************************************)
EXTENDS Integers, FiniteSets

CONSTANTS
    Person,         \* the two people
    Clerk,          \* concurrent request handlers
    NoClerk,        \* no lock holder
    Placements,     \* the ways the clerks may be spread over processes
    MaxChat,        \* bound on private rooms created
    MaxCalls        \* bound on requests

ASSUME PairAssumption ==
    /\ Cardinality(Person) = 2
    /\ NoClerk \notin Clerk
    /\ MaxChat \in Nat /\ MaxCalls \in Nat

VARIABLES
    place,      \* the process of each clerk
    request,    \* friendships, by requester: none, pending, accepted
    blocks,     \* those who have blocked the other (committed)
    chats,      \* private rooms, by age: absent, or members and is_readonly
    live,       \* those subscribed to each room
    rowLock,    \* the clerk whose transaction locks a room's row
    pairLock,   \* per process: the clerk in withUserPairLock
    advisory,   \* the clerk holding the pair's advisory lock
    desk,       \* the request of each clerk
    crossed,    \* a friendship changed beside another request (history)
    sent, calls     \* messages committed; requests, counted for the bound

pvars == <<place, request, blocks, chats, live, rowLock, pairLock, advisory,
           desk, crossed, sent, calls>>

-----------------------------------------------------------------------------
Chat == 1..MaxChat
Peer(p) == CHOOSE q \in Person : q # p
Call == {"ask", "accept", "reject", "unfriend", "block", "unblock", "open",
         "send"}

\* No room yet, and one that was deleted: its id does not come again.
NoChat == [in |-> {}, readonly |-> FALSE]
Gone   == [in |-> {}, readonly |-> TRUE]
AtRest == [step |-> "rest", call |-> "none", by |-> CHOOSE p \in Person : TRUE,
           chat |-> 0, clear |-> FALSE, hit |-> {}, todo |-> {}]

AreFriends == \E p \in Person : request[p] = "accepted"

\* findPrivateRoomByMembers: the newest room both are in, 0 without one.
Shared == {c \in Chat : chats[c].in = Person}
OurChat  == IF Shared = {} THEN 0 ELSE CHOOSE c \in Shared : \A d \in Shared : d <= c

At(k, step) == desk[k].step = step
To(k, step) == desk' = [desk EXCEPT ![k].step = step]
Locking(call) == call \in {"block", "unblock", "open"}

\* The request ends; with it the lock its process holds for the pair.
Done(k) ==
    /\ desk' = [desk EXCEPT ![k] = AtRest]
    /\ pairLock' = [q \in DOMAIN pairLock |->
                       IF pairLock[q] = k THEN NoClerk ELSE pairLock[q]]

RowFree(c) == rowLock[c] = NoClerk

-----------------------------------------------------------------------------
PairInit ==
    /\ place \in Placements
    /\ \E start \in {<<"accepted", FALSE, "open">>, <<"accepted", TRUE, "shut">>,
                     <<"none", FALSE, "shut">>, <<"pending", FALSE, "shut">>,
                     <<"accepted", FALSE, "absent">>} :
         \E p \in Person :
           /\ request = [q \in Person |-> IF q = p THEN start[1] ELSE "none"]
           /\ blocks = IF start[2] THEN {p} ELSE {}
           /\ chats = [c \in Chat |-> IF c > 1 \/ start[3] = "absent" THEN NoChat
                         ELSE [in |-> Person, readonly |-> start[3] = "shut"]]
           /\ live = [c \in Chat |-> IF c = 1 /\ start[3] = "open" THEN Person
                                     ELSE {}]
    /\ rowLock = [c \in Chat |-> NoClerk]
    /\ pairLock = [q \in {place[k] : k \in Clerk} |-> NoClerk]
    /\ advisory = NoClerk
    /\ desk = [k \in Clerk |-> AtRest]
    /\ crossed = FALSE
    /\ sent = 0 /\ calls = 0

Friendly(call) == call \in {"ask", "accept", "unfriend"}

Arrive(k, call, p) ==
    LET others == {desk[j].call : j \in Clerk \ {k}} \ {"none"} IN
    /\ At(k, "rest") /\ calls < MaxCalls
    /\ call = "send" => Shared # {}
    /\ desk' = [desk EXCEPT ![k] = [AtRest EXCEPT !.call = call, !.by = p,
          !.step = CASE Locking(call) -> "lock"
                     [] call \in {"ask", "accept", "send"} -> "check"
                     [] OTHER -> "erase"]]
    /\ crossed' = \/ crossed
                  \/ \E o \in others : Friendly(o) \/ Friendly(call)
    /\ calls' = calls + 1
    /\ UNCHANGED <<place, request, blocks, chats, live, rowLock, pairLock,
                   advisory, sent>>

\* withUserPairLock: one operation on the pair at a time, in one process.
PairFree(k) == pairLock[place[k]] = NoClerk

LockPair(k) ==
    /\ At(k, "lock") /\ PairFree(k)
    /\ pairLock' = [pairLock EXCEPT ![place[k]] = k]
    /\ To(k, CASE desk[k].call = "block" -> "insert"
               [] desk[k].call = "unblock" -> "erase"
               [] OTHER -> "check")
    /\ UNCHANGED <<place, request, blocks, chats, live, rowLock, advisory,
                   crossed, sent, calls>>

Reading == UNCHANGED <<place, request, blocks, chats, live, rowLock, advisory,
                       crossed, sent, calls>>

\* isBlocked, which comes first in ask, accept and open; a send looks at its
\* room instead, which is one they share: a room that one of them has not been
\* added to yet is nobody's conversation.
Check(k) ==
    LET h == desk[k] IN
    /\ At(k, "check")
    /\ IF h.call = "send"
       THEN IF \E c \in Shared : ~chats[c].readonly
            THEN /\ \E c \in Shared : /\ ~chats[c].readonly
                      /\ desk' = [desk EXCEPT ![k].step = "begin", ![k].chat = c]
                 /\ UNCHANGED pairLock
            ELSE Done(k)
       ELSE IF blocks # {} THEN Done(k)
       ELSE /\ To(k, IF h.call = "accept" THEN "update" ELSE "friend")
            /\ UNCHANGED pairLock
    /\ Reading

\* areFriends: ends an ask, and an open that does not bypass the check.
Befriended(k) ==
    LET h == desk[k] IN
    /\ At(k, "friend")
    /\ CASE h.call = "ask"  -> IF AreFriends THEN Done(k)
                               ELSE To(k, "pending") /\ UNCHANGED pairLock
         [] h.call = "open" -> \E bypass \in BOOLEAN :
                               IF AreFriends \/ bypass
                               THEN To(k, "find") /\ UNCHANGED pairLock
                               ELSE Done(k)
         [] OTHER           -> IF AreFriends
                               THEN To(k, "find") /\ UNCHANGED pairLock
                               ELSE Done(k)
    /\ Reading

\* getPendingRequests: an ask that meets the peer's own becomes its answer.
Reciprocal(k) ==
    /\ At(k, "pending")
    /\ To(k, IF request[Peer(desk[k].by)] = "pending" THEN "update" ELSE "post")
    /\ UNCHANGED pairLock
    /\ Reading

\* The primary key refuses a second request in the same direction.
Post(k) ==
    LET p == desk[k].by IN
    /\ At(k, "post")
    /\ request' = [request EXCEPT ![p] = IF @ = "none" THEN "pending" ELSE @]
    /\ Done(k)
    /\ UNCHANGED <<place, blocks, chats, live, rowLock, advisory, crossed, sent,
                   calls>>

\* UPDATE .. WHERE status = 'pending', then the room is reopened.
Answer(k) ==
    LET q == Peer(desk[k].by) IN
    /\ At(k, "update")
    /\ IF request[q] = "pending"
       THEN /\ request' = [request EXCEPT ![q] = "accepted"]
            /\ To(k, "find") /\ UNCHANGED pairLock
       ELSE Done(k) /\ UNCHANGED request
    /\ UNCHANGED <<place, blocks, chats, live, rowLock, advisory, crossed, sent,
                   calls>>

\* rejectFriendRequest, deleteFriendship and unblockUser each delete rows.
Erase(k) ==
    LET h == desk[k]  q == Peer(h.by) IN
    /\ At(k, "erase")
    /\ \/ /\ h.call = "reject"
          /\ request' = [request EXCEPT ![q] = IF @ = "pending" THEN "none" ELSE @]
          /\ Done(k) /\ UNCHANGED blocks
       \/ /\ h.call = "unfriend"
          /\ request' = [p \in Person |-> "none"]
          /\ To(k, "find") /\ UNCHANGED <<pairLock, blocks>>
       \/ /\ h.call = "unblock"
          /\ blocks' = blocks \ {h.by}
          /\ To(k, "friend") /\ UNCHANGED <<pairLock, request>>
    /\ UNCHANGED <<place, chats, live, rowLock, advisory, crossed, sent, calls>>

\* Only a read-only room is reopened.
\* Mutant: none is.
NeverReopened(c) == FALSE

Reopened(c) == chats[c].readonly

\* findPrivateRoomByMembers and what each caller makes of the room: an
\* unfriend shuts it, an open creates it where it is missing.
FindChat(k) ==
    LET h == desk[k]  c == OurChat
        with(step) == /\ desk' = [desk EXCEPT ![k] =
                                    [h EXCEPT !.step = step, !.chat = c]]
                      /\ UNCHANGED pairLock IN
    /\ At(k, "find")
    /\ IF h.call = "unfriend" THEN IF c = 0 THEN Done(k) ELSE with("shut")
       ELSE IF c = 0 THEN IF h.call = "open" /\ \E d \in Chat : chats[d] = NoChat
                          THEN with("create") ELSE Done(k)
       ELSE IF Reopened(c) THEN with("measure") ELSE Done(k)
    /\ Reading

\* markPrivateReadOnly writes without a condition.
Shut(k) ==
    LET c == desk[k].chat IN
    /\ At(k, "shut") /\ RowFree(c)
    /\ chats' = [chats EXCEPT ![c].readonly = TRUE]
    /\ Done(k)
    /\ UNCHANGED <<place, request, blocks, live, rowLock, advisory, crossed, sent,
                   calls>>

\* reopenPrivateRoomIfUnblocked: one UPDATE, from its snapshot to its write.
Unblocked == blocks = {}

Measure(k) ==
    /\ At(k, "measure")
    /\ desk' = [desk EXCEPT ![k].step = "reopen",
                            ![k].clear = Unblocked /\ desk[k].chat \in Shared]
    /\ UNCHANGED pairLock
    /\ Reading

Reopen(k) ==
    LET h == desk[k] IN
    /\ At(k, "reopen")
    /\ IF h.clear /\ h.chat \in Shared
       THEN /\ RowFree(h.chat)
            /\ chats' = [chats EXCEPT ![h.chat].readonly = FALSE]
            /\ desk' = [desk EXCEPT ![k].step = "grant", ![k].todo = Person]
            /\ UNCHANGED pairLock
       ELSE Done(k) /\ UNCHANGED chats
    /\ UNCHANGED <<place, request, blocks, live, rowLock, advisory, crossed, sent,
                   calls>>

\* onMembershipGranted and removeUserFromRoom, one person after the other.
Subscriptions(k, step, joins) ==
    LET h == desk[k] IN
    /\ At(k, step)
    /\ \/ h.todo = {} /\ Done(k) /\ UNCHANGED live
       \/ \E p \in h.todo :
            /\ live' = [live EXCEPT ![h.chat] = IF joins THEN @ \cup {p} ELSE @ \ {p}]
            /\ desk' = [desk EXCEPT ![k].todo = @ \ {p}]
            /\ UNCHANGED pairLock
    /\ UNCHANGED <<place, request, blocks, chats, rowLock, advisory, crossed,
                   sent, calls>>

GrantBoth(k) == Subscriptions(k, "grant", TRUE)
DropBoth(k)  == Subscriptions(k, "drop", FALSE)

-----------------------------------------------------------------------------
\* createPrivate: the room, its two members, and a look at what a trigger
\* made of it.
CreateChat(k) ==
    \E c \in Chat :
      /\ At(k, "create")
      /\ chats[c] = NoChat /\ \A d \in Chat : chats[d] = NoChat => c <= d
      /\ chats' = [chats EXCEPT ![c].in = {desk[k].by}]
      /\ desk' = [desk EXCEPT ![k].step = "second", ![k].chat = c]
      /\ UNCHANGED <<place, request, blocks, live, rowLock, pairLock, advisory,
                     crossed, sent, calls>>

\* The trigger on room_members makes the room read-only under a block.
AddSecond(k) ==
    LET h == desk[k] IN
    /\ At(k, "second")
    /\ chats' = [chats EXCEPT ![h.chat] =
                   [in |-> Person, readonly |-> blocks # {}]]
    /\ To(k, "reread")
    /\ UNCHANGED <<place, request, blocks, live, rowLock, pairLock, advisory,
                   crossed, sent, calls>>

Reread(k) ==
    LET h == desk[k] IN
    /\ At(k, "reread")
    /\ \/ /\ ~chats[h.chat].readonly
          /\ desk' = [desk EXCEPT ![k].step = "grant", ![k].todo = Person]
          /\ UNCHANGED <<pairLock, chats>>
       \/ /\ chats[h.chat].readonly /\ RowFree(h.chat)
          /\ chats' = [chats EXCEPT ![h.chat] = Gone]
          /\ Done(k)
    /\ UNCHANGED <<place, request, blocks, live, rowLock, advisory, crossed, sent,
                   calls>>

-----------------------------------------------------------------------------
\* blockUser's transaction: the advisory lock, the row, and the trigger that
\* locks and shuts the rooms both are in. A second block of the same person
\* inserts nothing and fires nothing.
InsertBlock(k) ==
    LET h == desk[k]
        hit == IF h.by \in blocks THEN {} ELSE Shared IN
    /\ At(k, "insert") /\ advisory = NoClerk
    /\ \A c \in hit : RowFree(c)
    /\ advisory' = k
    /\ rowLock' = [c \in Chat |-> IF c \in hit THEN k ELSE rowLock[c]]
    /\ desk' = [desk EXCEPT ![k].step = "commit", ![k].hit = hit]
    /\ UNCHANGED <<place, request, blocks, chats, live, pairLock, crossed, sent,
                   calls>>

CommitBlock(k) ==
    LET h == desk[k] IN
    /\ At(k, "commit")
    /\ blocks' = blocks \cup {h.by}
    /\ chats' = [c \in Chat |-> IF c \in h.hit
                   THEN [chats[c] EXCEPT !.readonly = TRUE] ELSE chats[c]]
    /\ rowLock' = [c \in Chat |-> IF rowLock[c] = k THEN NoClerk ELSE rowLock[c]]
    /\ advisory' = NoClerk
    /\ To(k, "blocked")
    /\ UNCHANGED <<place, request, live, pairLock, crossed, sent, calls>>

\* findPrivateRoomIdIfBlocked: nothing, once the block is lifted again.
FindBlocked(k) ==
    /\ At(k, "blocked")
    /\ IF blocks # {} /\ OurChat # 0
       THEN /\ desk' = [desk EXCEPT ![k].step = "drop", ![k].chat = OurChat,
                                    ![k].todo = Person]
            /\ UNCHANGED pairLock
       ELSE Done(k)
    /\ Reading

-----------------------------------------------------------------------------
\* A send's transaction: lockPrivateRoomPeer, then the rows and the blocks
\* are read again and the room's row is locked until the commit.
Begin(k) ==
    LET h == desk[k] IN
    /\ At(k, "begin") /\ advisory = NoClerk
    /\ advisory' = IF h.chat \in Shared THEN k ELSE advisory
    /\ To(k, "authorize")
    /\ UNCHANGED <<place, request, blocks, chats, live, rowLock, pairLock,
                   crossed, sent, calls>>

EndSend(k) ==
    /\ advisory' = IF advisory = k THEN NoClerk ELSE advisory
    /\ rowLock' = [c \in Chat |-> IF rowLock[c] = k THEN NoClerk ELSE rowLock[c]]
    /\ Done(k)

\* Mutant: a send trusts that the room of a blocked pair is read-only.
AuthorizedByRoom(c) == c \in Shared /\ ~chats[c].readonly

Authorized(c) == c \in Shared /\ ~chats[c].readonly /\ Unblocked

Authorize(k) ==
    LET c == desk[k].chat IN
    /\ At(k, "authorize") /\ RowFree(c)
    /\ IF Authorized(c)
       THEN /\ rowLock' = [rowLock EXCEPT ![c] = k]
            /\ To(k, "write")
            /\ UNCHANGED <<pairLock, advisory>>
       ELSE EndSend(k)
    /\ UNCHANGED <<place, request, blocks, chats, live, crossed, sent, calls>>

WriteMessage(k) ==
    /\ At(k, "write")
    /\ sent' = sent + 1
    /\ EndSend(k)
    /\ UNCHANGED <<place, request, blocks, chats, live, crossed, calls>>

-----------------------------------------------------------------------------
PairNext ==
    \E k \in Clerk :
      \/ \E call \in Call, p \in Person : Arrive(k, call, p)
      \/ LockPair(k) \/ Check(k) \/ Befriended(k) \/ Reciprocal(k) \/ Post(k)
      \/ Answer(k) \/ Erase(k) \/ FindChat(k) \/ Shut(k) \/ Measure(k)
      \/ Reopen(k) \/ GrantBoth(k) \/ DropBoth(k)
      \/ CreateChat(k) \/ AddSecond(k) \/ Reread(k)
      \/ InsertBlock(k) \/ CommitBlock(k) \/ FindBlocked(k)
      \/ Begin(k) \/ Authorize(k) \/ WriteMessage(k)

PairSpec == PairInit /\ [][PairNext]_pvars

-----------------------------------------------------------------------------
\* Every variable has its type, and a lock is held by a request that took it
\* and has not ended.
PairTypeOK ==
    /\ request \in [Person -> {"none", "pending", "accepted"}]
    /\ blocks \subseteq Person
    /\ chats \in [Chat -> [in : SUBSET Person, readonly : BOOLEAN]]
    /\ live \in [Chat -> SUBSET Person]
    /\ rowLock \in [Chat -> Clerk \cup {NoClerk}]
    /\ pairLock \in [{place[k] : k \in Clerk} -> Clerk \cup {NoClerk}]
    /\ advisory \in Clerk \cup {NoClerk}
    /\ advisory # NoClerk =>
         desk[advisory].step \in {"commit", "authorize", "write"}
    /\ \A q \in DOMAIN pairLock :
         pairLock[q] # NoClerk => Locking(desk[pairLock[q]].call)
    /\ \A k \in Clerk :
         /\ desk[k].call \in Call \cup {"none"} /\ desk[k].by \in Person
         /\ desk[k].chat \in 0..MaxChat /\ desk[k].hit \subseteq Chat
         /\ desk[k].todo \subseteq Person /\ desk[k].clear \in BOOLEAN
    /\ crossed \in BOOLEAN /\ sent \in 0..MaxCalls /\ calls \in 0..MaxCalls

\* Once a block between them has committed no message of either is committed
\* to a room they share, from whichever process, however far the send had come
\* when the block was made.
NoMessageAcrossBlock ==
    [][sent' # sent => blocks = {}]_pvars

OneProcess == \A j, k \in Clerk : place[j] = place[k]

\* Where one process serves the pair, however often they open a conversation
\* they share at most one room.
OneRoomPerPair == OneProcess => Cardinality(Shared) <= 1

\* The pair's locks do what each is for, wherever its handlers cross: the one in
\* the database keeps messages from crossing a block, the one in memory keeps
\* the pair to one room.
PairIsSerialized == NoMessageAcrossBlock /\ []OneRoomPerPair

\* Where one process serves the pair and no friendship changed beside another
\* request: once nothing is in flight, friends who do not block each other can
\* write in the room they share, and both are subscribed to it.
FriendsCanTalk ==
    OneProcess /\ ~crossed /\ AreFriends /\ blocks = {}
      /\ (\A k \in Clerk : At(k, "rest")) =>
        \A c \in Shared : ~chats[c].readonly /\ live[c] = Person

\* The migration says that a concurrent reopen can only commit before the
\* block, and is then made read-only, or fail its conditional update: a blocked
\* pair's room is read-only.
BlockedRoomsReadOnly ==
    blocks # {} => \A c \in Shared : chats[c].readonly
=============================================================================
