------------------------------ MODULE RoomBadges ------------------------------
(* The unread badges of the sidebar: the summary the server makes of a       *)
(* user's rooms in two statements, the tab that takes it over at the end of  *)
(* a recovery and whenever an event asks for it, and the live messages,      *)
(* buffered while the tab recovers, that are counted on top of it            *)
(* (src/backend/src/models/roomRepository.ts findByMember,                   *)
(* src/frontend/src/context/ChatContext.tsx).                                *)
EXTENDS FiniteSets, FiniteSetsExt, Sequences, Integers

CONSTANTS
    Line,        \* rooms of the sidebar
    Restricted,  \* those of them that hide what was sent before a member joined
    NoLine,
    CountLimit,  \* what the server counts at most (100)
    MaxLog,      \* bound: messages
    MaxUpsets    \* bound: faults, removals and refreshes by an event

ASSUME LineAssumption ==
    /\ Restricted \subseteq Line /\ NoLine \notin Line
    /\ CountLimit \in Nat /\ MaxLog \in Nat /\ MaxUpsets \in Nat

VARIABLES
    posts,      \* the messages, oldest first
    position,   \* the user's stored read position in each room
    lost,       \* rooms the user is no longer a member of
    frames,     \* messages and removals on their way to the tab
    socket,     \* whether it is connected, whether realtime:ready is to come,
                \* and syncingRef
    held,       \* bufferedRealtimeRef
    loaded,     \* the messages in the tab's state
    muted,      \* replayedWithoutUnreadRef
    lines,      \* the tab's rooms
    badge,      \* their unreadCount
    counted,    \* history: the messages each badge stands for
    open,       \* the active room
    reload,     \* the room whose messages are being loaded
    recovery,   \* where the running synchronization is
    summary,    \* the room summary it is reading
    refresh,    \* the ones events have asked for
    looked,     \* history: rooms that were open since the recovery's summary
    shaken,     \* history: one of the things that undo a badge has happened
    upsets

wvars == <<posts, position, lost, frames, socket, held, loaded, muted, lines, badge,
           counted, open, reload, recovery, summary, refresh, looked, shaken, upsets>>

backend == <<posts, position, lost>>

-----------------------------------------------------------------------------
(* The server's summary.                                                   *)

PostedIn(r) == {n \in DOMAIN posts : posts[n].room = r}

\* The newest unread messages, the user's own among them.
UnreadIn(r) ==
    LET unread == {n \in PostedIn(r) : n > position[r]}
    IN  {n \in unread : Cardinality({k \in unread : k > n}) < CountLimit}

NoSummary == [rooms |-> {}, unread |-> [r \in Line |-> {}], read |-> 0]

BadgesInit ==
    /\ posts = <<>> /\ position = [r \in Line |-> 0] /\ lost = {}
    /\ frames = {} /\ held = {} /\ loaded = {} /\ muted = {}
    /\ socket = [up |-> FALSE, ready |-> FALSE, syncing |-> TRUE]
    /\ lines = Line /\ badge = [r \in Line |-> 0] /\ counted = [r \in Line |-> {}]
    /\ open = NoLine /\ reload = NoLine
    /\ recovery = "none" /\ summary = NoSummary /\ refresh = {}
    /\ looked = {} /\ shaken = FALSE /\ upsets = 0

Upset == upsets < MaxUpsets /\ upsets' = upsets + 1

Told(frame) == frames' = IF socket.up THEN frames \cup {frame} ELSE frames

\* Somebody sends a message: the user on another device, or here.
Sends(r, mine) ==
    /\ Len(posts) < MaxLog /\ r \notin lost
    /\ posts' = Append(posts, [room |-> r, mine |-> mine])
    /\ Told([what |-> "message", n |-> Len(posts'), room |-> r])
    /\ UNCHANGED <<position, lost, socket, held, loaded, muted, lines, badge, counted,
                   open, reload, recovery, summary, refresh, looked, shaken, upsets>>

\* The user reads, here or on another device.
Reads(r, n) ==
    /\ n \in PostedIn(r) /\ n > position[r]
    /\ position' = [position EXCEPT ![r] = n]
    /\ UNCHANGED <<posts, lost, frames, socket, held, loaded, muted, lines, badge,
                   counted, open, reload, recovery, summary, refresh, looked, shaken,
                   upsets>>

\* The user is kicked, or the room is deleted.
LoseRoom(r) ==
    /\ r \notin lost /\ Upset
    /\ lost' = lost \cup {r}
    /\ Told([what |-> "removed", n |-> 0, room |-> r])
    /\ UNCHANGED <<posts, position, socket, held, loaded, muted, lines, badge,
                   counted, open, reload, recovery, summary, refresh, looked, shaken>>

-----------------------------------------------------------------------------
(* The tab hears of messages.                                              *)

\* MUTANT of Counts: what an earlier recovery that failed had buffered counts.
CountsReplayed(n) ==
    /\ ~posts[n].mine /\ n \notin loaded
    /\ posts[n].room \in lines \ {open}

\* Whether the summary of the recovery has counted a buffered message is asked
\* by an updater of the rooms, which runs when the tab renders. By then the
\* flush is over and has cleared what the updater looks at: it never says so.
Counts(n) == CountsReplayed(n) /\ n \notin muted

\* The tasks of a flush run one after another before the tab renders: each is
\* judged by the messages it had then. A rendered room that is open shows 0.
Take(batch) ==
    LET new(r) == {n \in batch : posts[n].room = r /\ Counts(n)}
    IN  /\ badge' = [r \in Line |-> IF r = open THEN 0
                                    ELSE badge[r] + Cardinality(new(r))]
        /\ counted' = [r \in Line |-> IF r = open THEN {} ELSE counted[r] \cup new(r)]
        /\ loaded' = loaded \cup batch

\* Messages a summary has counted and the tab heard of for the first time since
\* the recovery began.
Recounted(batch) ==
    {n \in batch \ (loaded \cup muted) : n \in counted[posts[n].room]}

\* A frame slower than the recovery that has counted its message is not one the
\* tab can tell.
Hear(f) ==
    /\ f \in frames /\ f.what = "message" /\ ~socket.syncing
    /\ Take({f.n})
    /\ frames' = frames \ {f}
    /\ shaken' = (shaken \/ Recounted({f.n}) # {})
    /\ UNCHANGED <<backend, socket, held, muted, lines, open, reload, recovery, summary,
                   refresh, looked, upsets>>

Buffer(f) ==
    /\ f \in frames /\ f.what = "message" /\ socket.syncing
    /\ held' = held \cup {f.n} /\ frames' = frames \ {f}
    /\ UNCHANGED <<backend, socket, loaded, muted, lines, badge, counted, open, reload,
                   recovery, summary, refresh, looked, shaken, upsets>>

\* MEMBER_KICKED, ROOM_DELETED: never buffered.
HearRemoved(f) ==
    /\ f \in frames /\ f.what = "removed"
    /\ frames' = frames \ {f} /\ lines' = lines \ {f.room}
    /\ open' = IF open = f.room THEN NoLine ELSE open
    /\ UNCHANGED <<backend, socket, held, loaded, muted, badge, counted, reload,
                   recovery, summary, refresh, looked, shaken, upsets>>

\* The answer to a send of this tab.
applyCanonicalMessage(n) ==
    /\ n \in DOMAIN posts \ loaded /\ posts[n].mine
    /\ loaded' = loaded \cup {n}
    /\ UNCHANGED <<backend, frames, socket, held, muted, lines, badge, counted, open,
                   reload, recovery, summary, refresh, looked, shaken, upsets>>

OpenRoom(r) ==
    /\ r \in (lines \cup {NoLine}) \ {open}
    /\ open' = r
    /\ badge' = [s \in Line |-> IF s = r THEN 0 ELSE badge[s]]
    /\ counted' = [s \in Line |-> IF s = r THEN {} ELSE counted[s]]
    /\ reload' = IF r = NoLine THEN reload ELSE r
    /\ looked' = looked \cup {q \in {r} \ {NoLine} : recovery = "landed"}
    /\ UNCHANGED <<backend, frames, socket, held, loaded, muted, lines, recovery,
                   summary, refresh, shaken, upsets>>

\* A page that lands in a room left meanwhile hides its newest messages from the
\* count of their events.
MessagesLoaded ==
    /\ reload # NoLine
    /\ loaded' = loaded \cup PostedIn(reload) /\ reload' = NoLine
    /\ shaken' = (shaken \/ reload # open)
    /\ UNCHANGED <<backend, frames, socket, held, muted, lines, badge, counted, open,
                   recovery, summary, refresh, looked, upsets>>

-----------------------------------------------------------------------------
(* Connection and recovery.                                                *)

SocketConnects ==
    /\ ~socket.up
    /\ socket' = [up |-> TRUE, ready |-> TRUE, syncing |-> TRUE]
    /\ UNCHANGED <<backend, frames, held, loaded, muted, lines, badge, counted, open,
                   reload, recovery, summary, refresh, looked, shaken, upsets>>

SocketDrops ==
    /\ socket.up /\ Upset
    /\ socket' = [socket EXCEPT !.up = FALSE, !.ready = FALSE] /\ frames' = {}
    /\ UNCHANGED <<backend, held, loaded, muted, lines, badge, counted, open, reload,
                   recovery, summary, refresh, looked, shaken>>

\* A recovery that runs already is joined.
ReadyHeard ==
    /\ socket.ready
    /\ socket' = [socket EXCEPT !.ready = FALSE,
                                !.syncing = @ \/ recovery = "none"]
    /\ recovery' = IF recovery = "none" THEN "paging" ELSE recovery
    /\ UNCHANGED <<backend, frames, held, loaded, muted, lines, badge, counted, open,
                   reload, summary, refresh, looked, shaken, upsets>>

\* The pages of /sync, and then the request for the summary.
Pages ==
    /\ recovery = "paging"
    /\ loaded' = loaded \cup UNION {PostedIn(r) : r \in Line \ lost}
    /\ recovery' = "paged"
    /\ UNCHANGED <<backend, frames, socket, held, muted, lines, badge, counted, open,
                   reload, summary, refresh, looked, shaken, upsets>>

Rooms(s)  == [s EXCEPT !.rooms = Line \ lost]
Unread(s) == [s EXCEPT !.unread = [r \in Line |-> UnreadIn(r)], !.read = Len(posts)]

\* The first statement of findByMember, and the second.
ReadRooms ==
    /\ recovery = "paged"
    /\ summary' = Rooms(NoSummary) /\ recovery' = "rooms"
    /\ UNCHANGED <<backend, frames, socket, held, loaded, muted, lines, badge, counted,
                   open, reload, refresh, looked, shaken, upsets>>

ReadCounts ==
    /\ recovery = "rooms"
    /\ summary' = Unread(summary) /\ recovery' = "counts"
    /\ UNCHANGED <<backend, frames, socket, held, loaded, muted, lines, badge, counted,
                   open, reload, refresh, looked, shaken, upsets>>

\* A message sent after a summary was read may have come with a page of a room
\* that was left again: its event will not count.
Hidden(s) == \E n \in loaded : n > s.read

refreshRoomsAndFolders(s) ==
    /\ lines' = s.rooms /\ counted' = s.unread
    /\ badge' = [r \in Line |-> Cardinality(s.unread[r])]

SummaryLands ==
    /\ recovery = "counts"
    /\ refreshRoomsAndFolders(summary)
    /\ loaded' = {n \in loaded : posts[n].room \notin Restricted}
    /\ reload' = IF open \in Restricted \cap summary.rooms THEN open ELSE reload
    /\ recovery' = "landed" /\ looked' = {open} \ {NoLine}
    /\ summary' = NoSummary /\ shaken' = Hidden(summary)
    /\ UNCHANGED <<backend, frames, socket, held, muted, open, refresh, upsets>>

Flush ==
    /\ recovery = "landed"
    /\ Take(held)
    /\ held' = {} /\ muted' = {}
    /\ recovery' = "none" /\ socket' = [socket EXCEPT !.syncing = FALSE]
    /\ looked' = {} /\ shaken' = (shaken \/ Recounted(held) # {})
    /\ UNCHANGED <<backend, frames, lines, open, reload, summary, refresh, upsets>>

\* The buffer is kept for the next recovery; the socket is closed.
RecoveryFails ==
    /\ recovery # "none" /\ Upset
    /\ muted' = muted \cup held
    /\ socket' = [up |-> FALSE, ready |-> FALSE, syncing |-> FALSE]
    /\ recovery' = "none" /\ frames' = {}
    /\ summary' = NoSummary /\ looked' = {}
    /\ UNCHANGED <<backend, held, loaded, lines, badge, counted, open, reload, refresh,
                   shaken>>

-----------------------------------------------------------------------------
(* What else sets the rooms.                                               *)

\* friend_request, ROOM_JOINED, or settings that change what history shows: the
\* summary is asked for, and read before it is answered.
EventRefresh(hidden) ==
    /\ socket.up /\ Upset
    /\ Cardinality(hidden) < 2
    /\ loaded' = {n \in loaded : posts[n].room \notin hidden}
    /\ shaken' = (shaken \/ hidden # {})
    /\ refresh' = refresh \cup {Unread(Rooms(NoSummary))}
    /\ UNCHANGED <<backend, frames, socket, held, muted, lines, badge, counted, open,
                   reload, recovery, summary, looked>>

EventSummaryLands(s) ==
    /\ s \in refresh
    /\ refreshRoomsAndFolders(s)
    /\ reload' = IF open \in s.rooms THEN open ELSE reload
    /\ shaken' = TRUE /\ refresh' = refresh \ {s}
    /\ UNCHANGED <<backend, frames, socket, held, loaded, muted, open, recovery,
                   summary, looked, upsets>>

BadgesNext ==
    \/ \E r \in Line : \/ \E mine \in BOOLEAN : Sends(r, mine)
                       \/ LoseRoom(r)
                       \/ \E n \in PostedIn(r) : Reads(r, n)
    \/ \E f \in frames : Hear(f) \/ Buffer(f) \/ HearRemoved(f)
    \/ \E n \in DOMAIN posts : applyCanonicalMessage(n)
    \/ \E r \in Line \cup {NoLine} : OpenRoom(r)
    \/ MessagesLoaded
    \/ SocketConnects \/ SocketDrops \/ ReadyHeard
    \/ Pages \/ ReadRooms \/ ReadCounts \/ SummaryLands \/ Flush \/ RecoveryFails
    \/ \E hidden \in SUBSET Line : EventRefresh(hidden)
    \/ \E s \in refresh : EventSummaryLands(s)

BadgesSpec == BadgesInit /\ [][BadgesNext]_wvars

-----------------------------------------------------------------------------
Summary == [rooms : SUBSET Line, unread : [Line -> SUBSET (1..MaxLog)], read : 0..MaxLog]

\* Every variable has its type.
BadgesTypeOK ==
    /\ posts \in Seq([room : Line, mine : BOOLEAN])
    /\ position \in [Line -> 0..MaxLog] /\ lost \subseteq Line
    /\ frames \subseteq [what : {"message", "removed"}, n : 0..MaxLog, room : Line]
    /\ socket \in [up : BOOLEAN, ready : BOOLEAN, syncing : BOOLEAN]
    /\ held \cup loaded \cup muted \subseteq 1..MaxLog
    /\ lines \cup looked \subseteq Line
    /\ badge \in [Line -> Nat] /\ counted \in [Line -> SUBSET (1..MaxLog)]
    /\ open \in Line \cup {NoLine} /\ reload \in Line \cup {NoLine}
    /\ recovery \in {"none", "paging", "paged", "rooms", "counts", "landed"}
    /\ summary \in Summary /\ refresh \subseteq Summary
    /\ shaken \in BOOLEAN /\ upsets \in 0..MaxUpsets

\* Nothing that was buffered is forgotten.
HeldAreCounted ==
    \A n \in held :
        LET r == posts[n].room
        IN  ~posts[n].mine /\ r \in lines \ looked /\ n > position[r]
            => n \in counted'[r] \/ badge'[r] >= CountLimit

\* However often the tab lost its connection and its recoveries failed: a message
\* it missed, or heard of and kept through the failures, is in the badge of its
\* room exactly once. What undoes it is named where shaken is set: an event
\* buffered by the very recovery whose summary counts its message, a frame slower
\* than the recovery, a page of a room that was left again, and a refresh an
\* event asks for.
BadgesCountOnce ==
    /\ [](~shaken => \A r \in lines : badge[r] = Cardinality(counted[r]))
    /\ [][Flush /\ ~shaken => HeldAreCounted]_wvars
=============================================================================
