------------------------------ MODULE SyncClient ------------------------------
(***************************************************************************)
(* How one signed-in browser tab keeps up with the change log: the         *)
(* realtime effect of ChatContext.tsx with GET /sync behind it.            *)
(*                                                                         *)
(* The server side is the abstract ChangeLog, which MessageLog implements, *)
(* the set of committed changes whose events are still to be published,    *)
(* and this tab's socket. Events reach the tab over the socket in the      *)
(* order they were published; what is published while the tab has no       *)
(* subscription is lost to it. The tab buffers events while it             *)
(* synchronizes and applies them directly otherwise.                       *)
(*                                                                         *)
(* One chain of /sync requests runs at a time:                             *)
(*                                                                         *)
(*   asking -> read -> answered -> asking (more pages, or a reset cursor)  *)
(*                              -> refreshing -> flush (a full sync)       *)
(*                              -> done (a checkpoint)                     *)
(*                                                                         *)
(* A full sync starts on realtime_ready, a checkpoint on a timer. The      *)
(* server reads the page and the bounds of the log in separate snapshots.  *)
(***************************************************************************)
EXTENDS Integers, Sequences, FiniteSetsExt

CONSTANTS
    Room, MessageId,
    RoomOf,             \* [MessageId -> Room]
    Mine,               \* the rooms the tab's user is an active member of
    PageLimit,          \* the page size the client asks for (250 in the code)
    MaxChange,          \* bound on change sequences
    Opened,             \* messages of the rooms the user opens meanwhile
    MaxFault,           \* bound on lost connections, revocations, failures and
                        \* deleted rooms
    PublishInOrder,     \* events are published in change order
    FaultDuringSync     \* the connection may be lost while a full sync runs

ASSUME SyncAssumption ==
    /\ RoomOf \in [MessageId -> Room]
    /\ Mine \subseteq Room
    /\ Opened \subseteq MessageId
    /\ PageLimit \in Nat \ {0}
    /\ MaxChange \in Nat
    /\ MaxFault \in Nat
    /\ PublishInOrder \in BOOLEAN
    /\ FaultDuringSync \in BOOLEAN

VARIABLES
    head, log,  \* the change log
    unsent,     \* committed changes whose event is not published yet
    server,     \* this tab's socket as the server sees it
    wire,       \* packets on their way to the tab, in order
    connected,  \* socket.connected
    cursor,     \* syncCursorRef
    cache,      \* the version of each message the tab shows; 0 is none
    syncing,    \* syncingRef: events go to the buffer
    buffer,     \* bufferedRealtimeRef
    sync,       \* the chain of /sync requests in flight
    queued,     \* a full sync waits for the checkpoint in flight
    dirty,      \* liveChangesSinceCheckpoint
    load,       \* the message a room load has fetched and not yet merged
    faults,     \* faults so far (a bound)
    promised    \* head when the tab last heard realtime_ready (history)

serverVars == <<head, log, unsent>>
socketVars == <<server, wire, connected>>
clientVars == <<cursor, cache, syncing, buffer, dirty>>
vars == <<serverVars, socketVars, clientVars, sync, queued, load, faults,
          promised>>

\* Everybody else in the user's rooms, as one writer with a key per change.
Log == INSTANCE ChangeLog WITH User <- {"peer"}, Command <- 1..MaxChange

Kind == {"created", "edited", "recalled"}

Version == [version : Nat, recalled : BOOLEAN]
Copy    == [message : MessageId, version : Nat \ {0}, recalled : BOOLEAN]
Job     == {"none", "full", "checkpoint"}
Step    == {"idle", "asking", "read", "answered", "refreshing"}
Unseen  == [version |-> 0, recalled |-> FALSE]
NoSync  == [job |-> "none", step |-> "idle", page |-> {}, resync |-> FALSE]
NoLoad  == [message |-> "none"]
Ready   == [kind |-> "ready"]

\* The changes findChangesForUser lets this user see.
Visible == {c \in log : c.room \in Mine}

Latest(m) == CHOOSE c \in Log!Of(m) :
                \A d \in Log!Of(m) : d.sequence <= c.sequence

IsRecalled(m) == \E c \in Log!Of(m) : c.kind = "recalled"

-----------------------------------------------------------------------------
Init ==
    /\ Log!LogInit
    /\ unsent = {}
    /\ server = "absent"
    /\ wire = <<>>
    /\ connected = FALSE
    /\ cursor = 0
    /\ cache = [m \in MessageId |-> Unseen]
    /\ syncing = TRUE
    /\ buffer = <<>>
    /\ sync = NoSync
    /\ queued = FALSE
    /\ dirty = FALSE
    /\ load = NoLoad
    /\ faults = 0
    /\ promised = 0

Fault == faults < MaxFault /\ faults' = faults + 1

(* The log and its events.                                                 *)

Commit(m, kind) ==
    /\ head < MaxChange
    /\ \E v \in 1..MaxChange :
          LET c == [sequence |-> head + 1, message |-> m, room |-> RoomOf[m],
                    revision |-> v, kind |-> kind, actor |-> "peer",
                    command |-> head + 1]
          IN  /\ Log!AppendChange(c)
              /\ unsent' = unsent \cup {c}
    /\ UNCHANGED <<socketVars, clientVars, sync, queued, load, faults, promised>>

DeleteRoom(r) ==
    /\ \E c \in log : c.room = r
    /\ Fault
    /\ Log!ForgetRoom(r)
    /\ UNCHANGED <<unsent, socketVars, clientVars, sync, queued, load, promised>>

Subscribed == server \in {"joined", "ready"}

\* A handler publishes its event to the room; it reaches the sockets subscribed
\* by then. With the change deleted meanwhile the handler may have failed.
Publish(c) ==
    /\ c \in unsent
    /\ PublishInOrder => \A d \in unsent : c.sequence <= d.sequence
    /\ unsent' = unsent \ {c}
    /\ \/ wire' = IF Subscribed /\ c.room \in Mine THEN Append(wire, c) ELSE wire
       \/ c \notin log /\ UNCHANGED wire
    /\ UNCHANGED <<head, log, server, connected, clientVars, sync, queued, load,
                   faults, promised>>

-----------------------------------------------------------------------------
(* The socket.                                                             *)

\* connect: the tab buffers until the sync that realtime_ready will start.
Connect ==
    /\ ~connected
    /\ connected' = TRUE
    /\ server' = "connected"
    /\ syncing' = TRUE
    /\ promised' = 0
    /\ UNCHANGED <<serverVars, wire, cursor, cache, buffer, dirty, sync, queued,
                   load, faults>>

\* restoreSubscriptions joins the rooms, and only then emits realtime_ready.
RestoreSubscriptions ==
    /\ server = "connected"
    /\ server' = "joined"
    /\ UNCHANGED <<serverVars, wire, connected, clientVars, sync, queued, load,
                   faults, promised>>

EmitReady ==
    /\ server = "joined"
    /\ server' = "ready"
    /\ wire' = Append(wire, Ready)
    /\ UNCHANGED <<serverVars, connected, clientVars, sync, queued, load,
                   faults, promised>>

FullSyncOutstanding == sync.job = "full" \/ queued

Calm ==
    ~FullSyncOutstanding /\ \A i \in DOMAIN wire : wire[i] # Ready

\* The connection is lost, with what was on it. Socket.IO will reconnect.
Disconnect ==
    /\ connected
    /\ Fault
    /\ FaultDuringSync \/ ~FullSyncOutstanding
    /\ connected' = FALSE
    /\ server' = "absent"
    /\ wire' = <<>>
    /\ UNCHANGED <<serverVars, clientVars, sync, queued, load, promised>>

\* The server takes the socket out of its rooms (a kick that loses its
\* conditional delete, a Redis reconnect), then puts it back and says so.
Revoke ==
    /\ server = "ready"
    /\ Fault
    /\ FaultDuringSync \/ Calm
    /\ server' = "revoked"
    /\ UNCHANGED <<serverVars, wire, connected, clientVars, sync, queued, load,
                   promised>>

RestoreRevoked ==
    /\ server = "revoked"
    /\ server' = "ready"
    /\ wire' = Append(wire, Ready)
    /\ UNCHANGED <<serverVars, connected, clientVars, sync, queued, load,
                   faults, promised>>

-----------------------------------------------------------------------------
(* Merging.                                                                *)

Shown(p) == [version |-> p.version, recalled |-> p.recalled]

\* MUTANT of Merge: the last answer wins.
MergeLastAnswer(copies) ==
    [m \in MessageId |->
        LET new == {p \in copies : p.message = m}
        IN  IF new = {} THEN cache[m]
            ELSE Shown(CHOOSE p \in new : \A q \in new : q.version <= p.version)]

\* MUTANT of Merge: what the tab holds already is kept.
MergeUnseen(copies) ==
    [m \in MessageId |->
        LET new == {p \in copies : p.message = m /\ cache[m] = Unseen}
        IN  IF new = {} THEN cache[m]
            ELSE Shown(CHOOSE p \in new : \A q \in new : q.version <= p.version)]

\* mergeMessages: a copy replaces one that is not newer.
Merge(copies) ==
    [m \in MessageId |->
        LET new == {p \in copies : p.message = m /\ p.version >= cache[m].version}
        IN  IF new = {} THEN cache[m]
            ELSE Shown(CHOOSE p \in new : \A q \in new : q.version <= p.version)]

\* The handlers of new_message, message_updated and message_recalled. A recall
\* of a message the tab does not hold is dropped.
Applied(shown, e) ==
    LET now == shown[e.message].version
    IN  IF now < e.sequence /\ (e.kind = "recalled" => now # 0)
        THEN [shown EXCEPT ![e.message] = [version  |-> e.sequence,
                                           recalled |-> e.kind = "recalled"]]
        ELSE shown

-----------------------------------------------------------------------------
(* The chain of /sync requests.                                            *)

Asking(job) == [NoSync EXCEPT !.job = job, !.step = "asking"]

\* MUTANT of Coalesced: whatever is in flight will do.
CoalescedWithAny == queued \/ sync.job # "none"

\* synchronize hands back a full sync that is outstanding already.
Coalesced == FullSyncOutstanding

Synchronize ==
    CASE Coalesced             -> UNCHANGED <<sync, queued, syncing>>
      [] ~Coalesced /\ sync.job = "none" ->
             /\ sync' = Asking("full")
             /\ syncing' = TRUE
             /\ UNCHANGED queued
      [] ~Coalesced /\ sync.job # "none" ->
             /\ queued' = TRUE
             /\ UNCHANGED <<sync, syncing>>

\* The chain of a checkpoint ends; a full sync queued behind it starts.
EndCheckpoint ==
    /\ sync' = IF queued THEN Asking("full") ELSE NoSync
    /\ syncing' = (syncing \/ queued)
    /\ queued' = FALSE

\* The tab takes the next packet off the socket.
Receive ==
    /\ wire # <<>>
    /\ wire' = Tail(wire)
    /\ LET e == Head(wire)
       IN  \/ /\ e = Ready
              /\ Synchronize
              /\ promised' = head
              /\ UNCHANGED <<cursor, cache, buffer, dirty>>
           \/ /\ e # Ready
              /\ IF syncing
                 THEN buffer' = Append(buffer, e) /\ UNCHANGED <<cache, dirty>>
                 ELSE /\ cache' = Applied(cache, e)
                      /\ dirty' = TRUE
                      /\ UNCHANGED buffer
              /\ UNCHANGED <<cursor, syncing, sync, queued, promised>>
    /\ UNCHANGED <<serverVars, server, connected, load, faults>>

\* The checkpoint timer.
Tick ==
    /\ ~syncing /\ dirty /\ connected
    /\ sync.job = "none"
    /\ sync' = Asking("checkpoint")
    /\ UNCHANGED <<serverVars, socketVars, clientVars, queued, load, faults,
                   promised>>

\* findChangesForUser: the first PageLimit visible changes above the cursor. A
\* change of a message recalled since is handed over as recalled.
Page ==
    LET above == {c \in Visible : c.sequence > cursor}
    IN  {c \in above : Cardinality({d \in above : d.sequence <= c.sequence})
                          <= PageLimit}

ReadPage ==
    /\ sync.step = "asking"
    /\ sync' = [sync EXCEPT !.step = "read",
                  !.page = {[message |-> c.message, version |-> c.sequence,
                             recalled |-> IsRecalled(c.message)] : c \in Page}]
    /\ UNCHANGED <<serverVars, socketVars, clientVars, queued, load, faults,
                   promised>>

\* The cursor the page leads to.
PageEnd == IF sync.page = {} THEN cursor ELSE Max({p.version : p \in sync.page})

\* A positive cursor, and the far end of its page, must lie within the log.
ResyncRequired ==
    LET kept == {c.sequence : c \in log}
    IN  /\ cursor # 0
        /\ \/ kept = {}
           \/ cursor < Min(kept)
           \/ cursor > Max(kept)
           \/ PageEnd > Max(kept)

ReadBounds ==
    /\ sync.step = "read"
    /\ sync' = [sync EXCEPT !.step = "answered", !.resync = ResyncRequired]
    /\ UNCHANGED <<serverVars, socketVars, clientVars, queued, load, faults,
                   promised>>

\* MUTANT of NextCursor: the server answers with the head of the log.
HeadCursor == head

NextCursor == PageEnd

\* MUTANT of HasMore: a full page is taken for the last one.
OverfullPage == Cardinality(sync.page) > PageLimit

HasMore == Cardinality(sync.page) = PageLimit

\* The tab handles an answer. A required resync resets the cursor and asks
\* again; the last page of a checkpoint clears the flag of the timer.
HandleAnswer ==
    /\ sync.step = "answered"
    /\ IF sync.resync
       THEN /\ cursor' = 0
            /\ sync' = Asking(sync.job)
            /\ UNCHANGED <<cache, dirty, syncing, queued>>
       ELSE /\ cursor' = NextCursor
            /\ cache' = Merge(sync.page)
            /\ \/ /\ HasMore
                  /\ sync' = Asking(sync.job)
                  /\ UNCHANGED <<dirty, syncing, queued>>
               \/ /\ ~HasMore /\ sync.job = "full"
                  /\ sync' = [NoSync EXCEPT !.job = "full", !.step = "refreshing"]
                  /\ UNCHANGED <<dirty, syncing, queued>>
               \/ /\ ~HasMore /\ sync.job = "checkpoint"
                  /\ dirty' = FALSE
                  /\ EndCheckpoint
    /\ UNCHANGED <<serverVars, socketVars, buffer, load, faults, promised>>

\* flushBuffer: what the tab shows after the first n buffered events.
Flushing[n \in 0..Len(buffer)] ==
    IF n = 0 THEN cache ELSE Applied(Flushing[n - 1], buffer[n])

Flushed == Flushing[Len(buffer)]

\* The rooms, friends and members have been refreshed: flush the buffer.
FinishFullSync ==
    /\ sync.step = "refreshing"
    /\ syncing' = FALSE
    /\ cache' = Flushed
    /\ dirty' = (dirty \/ buffer # <<>>)
    /\ buffer' = <<>>
    /\ sync' = NoSync
    /\ UNCHANGED <<serverVars, socketVars, cursor, queued, load, faults,
                   promised>>

\* A request of a full sync fails: the buffer is kept, the tab disconnects and
\* reconnects after a second.
FailFullSync ==
    /\ sync.job = "full"
    /\ Fault
    /\ sync' = NoSync
    /\ syncing' = FALSE
    /\ connected' = FALSE
    /\ server' = "absent"
    /\ wire' = <<>>
    /\ UNCHANGED <<serverVars, cursor, cache, buffer, dirty, queued, load,
                   promised>>

\* A request of a checkpoint fails: the next tick tries again.
FailCheckpoint ==
    /\ sync.job = "checkpoint"
    /\ Fault
    /\ EndCheckpoint
    /\ UNCHANGED <<serverVars, socketVars, cursor, cache, buffer, dirty, load,
                   promised>>

-----------------------------------------------------------------------------
(* loadMessagesForRooms: the newest messages of a room the user opens.     *)

LoadRoom(m) ==
    /\ load = NoLoad
    /\ \E c \in Visible : c.message = m
    /\ load' = [message |-> m, version |-> Latest(m).sequence,
                recalled |-> IsRecalled(m)]
    /\ UNCHANGED <<serverVars, socketVars, clientVars, sync, queued, faults,
                   promised>>

RoomLoaded ==
    /\ load # NoLoad
    /\ cache' = Merge({load})
    /\ load' = NoLoad
    /\ UNCHANGED <<serverVars, socketVars, cursor, syncing, buffer, dirty, sync,
                   queued, faults, promised>>

-----------------------------------------------------------------------------
Next ==
    \/ \E m \in MessageId, kind \in Kind : Commit(m, kind)
    \/ \E r \in Room : DeleteRoom(r)
    \/ \E c \in unsent : Publish(c)
    \/ Connect
    \/ RestoreSubscriptions
    \/ EmitReady
    \/ Disconnect
    \/ Revoke
    \/ RestoreRevoked
    \/ Receive
    \/ Tick
    \/ ReadPage
    \/ ReadBounds
    \/ HandleAnswer
    \/ FinishFullSync
    \/ FailFullSync
    \/ FailCheckpoint
    \/ \E m \in Opened : LoadRoom(m)
    \/ RoomLoaded

\* Requests are answered or fail, timers fire, a lost connection is retried and
\* handlers that committed publish. Nobody has to write, and nothing has to fail.
Fairness ==
    /\ WF_vars(\E c \in unsent : Publish(c))
    /\ WF_vars(Connect)
    /\ WF_vars(RestoreSubscriptions \/ EmitReady \/ RestoreRevoked)
    /\ WF_vars(Receive)
    /\ WF_vars(Tick)
    /\ WF_vars(ReadPage \/ ReadBounds \/ HandleAnswer \/ FinishFullSync)
    /\ WF_vars(RoomLoaded)

Spec == Init /\ [][Next]_vars /\ Fairness

-----------------------------------------------------------------------------
(* Properties.                                                             *)

TypeOK ==
    /\ Log!LogTypeOK
    /\ unsent \subseteq Log!Change
    /\ server \in {"absent", "connected", "joined", "ready", "revoked"}
    /\ connected \in BOOLEAN /\ (connected <=> server # "absent")
    /\ wire \in Seq(Log!Change \cup {Ready})
    /\ ~connected => wire = <<>>
    /\ cursor \in Nat
    /\ cache \in [MessageId -> Version]
    /\ syncing \in BOOLEAN /\ dirty \in BOOLEAN /\ queued \in BOOLEAN
    /\ buffer \in Seq(Log!Change)
    /\ sync \in [job : Job, step : Step, page : SUBSET Copy, resync : BOOLEAN]
    /\ sync.step = "idle" <=> sync.job = "none"
    /\ sync.job = "full" => syncing
    /\ sync.step = "refreshing" => sync.job = "full"
    /\ queued => sync.job = "checkpoint"
    /\ load \in Copy \cup {NoLoad}
    /\ faults \in Nat /\ promised \in Nat

Holds(c) == cache[c.message].version >= c.sequence

\* The cursor never passes a change the tab has not been given: whatever the
\* interleaving of pages, live events, resets and failures, no later /sync
\* leaves anything out.
NothingBehindCursor ==
    \A c \in Visible : c.sequence <= cursor => Holds(c)

Coming(c) == c \in unsent \/ \E i \in DOMAIN wire : wire[i] = c

\* Once the sync that follows realtime_ready is over, the tab holds every change
\* that was committed when it heard realtime_ready and whose event is not still
\* on its way: what was published while it had no subscription is recovered.
RecoveredAfterReady ==
    connected /\ ~FullSyncOutstanding =>
        \A c \in Visible : c.sequence <= promised => Holds(c) \/ Coming(c)

\* What the tab shows of a message never goes back to an older version, however
\* pages, events and room loads overtake each other.
VersionsMoveForward ==
    [][\A m \in MessageId : cache'[m].version >= cache[m].version]_vars

\* Pages, live events, room loads, resets and failures may overtake each other:
\* nothing falls behind the cursor, and nothing shown gives way to an older copy.
NeverOutdated == []NothingBehindCursor /\ VersionsMoveForward

\* Events held back during a sync are applied in the end, whatever fails: no
\* sync is swallowed by a checkpoint that happens to be in flight.
BufferDrains == buffer # <<>> ~> buffer = <<>>

UpToDate ==
    \A c \in Visible : c = Latest(c.message) =>
        cache[c.message] = [version  |-> c.sequence,
                            recalled |-> c.kind = "recalled"]

\* The tab ends up showing the latest version of every message it can see.
Converges == <>[]UpToDate

\* After whatever faults the tab catches up: it shows what it can see, and has
\* no event left in its buffer.
CatchesUp == Converges /\ BufferDrains

=============================================================================
