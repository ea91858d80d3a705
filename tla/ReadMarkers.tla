----------------------------- MODULE ReadMarkers -----------------------------
(***************************************************************************)
(* How far the members of one room have read, as one tab shows it. The     *)
(* tab's own marker moves at once and is written behind it, with a retry   *)
(* after a pause; an effect compares marker and newest message whenever    *)
(* one of them has changed. Other markers come as read_update events and   *)
(* with the member list, each in its own time.                             *)
(*                                                                         *)
(* Messages are their numbers; 0 is none. External: the write itself keeps *)
(* the greater position (MessageLog).                                      *)
(***************************************************************************)
EXTENDS Integers, FiniteSetsExt

CONSTANTS
    MaxMessage,     \* bound on messages
    MaxFailure,     \* bound on writes whose answer is an error or is lost
    MaxVisits,      \* bound on entering the room
    MaxLoads        \* bound on loads of the member list

ASSUME MarkerAssumption ==
    {MaxMessage, MaxFailure, MaxVisits, MaxLoads} \subseteq Nat

VARIABLES
    newest,     \* the newest message the tab has
    open,       \* the room is open
    fresh,      \* it was opened and the effect has not run since
    effect,     \* the effect is to run
    writes,     \* PUT read-position requests under way
    retry,      \* readPositionRetryRef: inFlight, blockedUntil, timer
    stored,     \* the positions in the database, of "me" and a "peer"
    marker,     \* groupReadStates
    known,      \* readPositionsRef
    updates,    \* read_update events on their way
    loading,    \* the load of the member list, and what it read
    tally       \* failures, visits, loads so far (bounds)

wvars == <<newest, open, fresh, effect, writes, retry, stored, marker, known,
           updates, loading, tally>>

Member == {"me", "peer"}

Screen    == <<newest, open, fresh>>
Server == <<stored, updates>>

NoListing == [step |-> "none", read |-> [m \in Member |-> 0]]

MarkerInit ==
    /\ newest = 0 /\ open = FALSE /\ fresh = FALSE /\ effect = FALSE
    /\ writes = {}
    /\ retry = [inFlight |-> 0, blocked |-> FALSE, timer |-> FALSE]
    /\ stored = [m \in Member |-> 0] /\ marker = stored /\ known = stored
    /\ updates = {} /\ loading = NoListing
    /\ tally = [failures |-> 0, visits |-> 0, loads |-> 0]

-----------------------------------------------------------------------------
\* React runs the effect of a render before it renders anything else.
Rendered == ~effect

MessageArrives ==
    /\ Rendered /\ newest < MaxMessage
    /\ newest' = newest + 1 /\ effect' = TRUE
    /\ UNCHANGED <<open, fresh, writes, retry, Server, marker, known, loading, tally>>

OpenRoom ==
    /\ Rendered /\ ~open /\ tally.visits < MaxVisits
    /\ open' = TRUE /\ fresh' = TRUE /\ effect' = TRUE
    /\ tally' = [tally EXCEPT !.visits = @ + 1]
    /\ UNCHANGED <<newest, writes, retry, Server, marker, known, loading>>

CloseRoom ==
    /\ Rendered /\ open
    /\ open' = FALSE /\ fresh' = FALSE /\ effect' = TRUE
    /\ UNCHANGED <<newest, writes, retry, Server, marker, known, loading, tally>>

-----------------------------------------------------------------------------
(* Writing the tab's own position.                                         *)

\* commitReadPosition: not while this very message is being written, nor in
\* the pause after a failure.
MayCommit == retry.inFlight # newest /\ ~retry.blocked

CommitReadPosition ==
    /\ retry' = [retry EXCEPT !.inFlight = newest]
    /\ marker' = [marker EXCEPT !["me"] = newest]
    /\ writes' = writes \cup {[message |-> newest, previous |-> marker["me"],
                               step |-> "sent"]}
    /\ effect' = TRUE

Unread == newest # 0 /\ marker["me"] # newest

\* The effect; its first run in a room writes nothing.
RunEffect ==
    /\ effect
    /\ IF open /\ ~fresh /\ Unread /\ MayCommit
       THEN CommitReadPosition
       ELSE effect' = FALSE /\ UNCHANGED <<retry, marker, writes>>
    /\ fresh' = FALSE
    /\ UNCHANGED <<newest, open, Server, known, loading, tally>>

\* markRoomAsRead: the user has scrolled to the newest message. The room's own
\* effects run before this one.
MarkRoomAsRead ==
    /\ open /\ Unread /\ MayCommit
    /\ CommitReadPosition
    /\ UNCHANGED <<Screen, Server, known, loading, tally>>

\* The server keeps the greater position, and tells the room of it.
Store(m, n) ==
    /\ stored' = [stored EXCEPT ![m] = Max({@, n})]
    /\ updates' = updates \cup {[member |-> m, at |-> Max({stored[m], n})]}

WriteIsStored(w) ==
    /\ w.step = "sent"
    /\ Store("me", w.message)
    /\ writes' = (writes \ {w}) \cup {[w EXCEPT !.step = "stored"]}
    /\ UNCHANGED <<Screen, effect, retry, marker, known, loading, tally>>

WriteSucceeds(w) ==
    /\ w.step = "stored"
    /\ writes' = writes \ {w}
    /\ retry' = [retry EXCEPT !.inFlight = 0, !.blocked = FALSE]
    /\ UNCHANGED <<Screen, effect, Server, marker, known, loading, tally>>

\* The marker goes back, if it still is this write's.
WriteFails(w) ==
    /\ Rendered /\ tally.failures < MaxFailure
    /\ tally' = [tally EXCEPT !.failures = @ + 1]
    /\ writes' = writes \ {w}
    /\ retry' = [inFlight |-> 0, blocked |-> TRUE, timer |-> TRUE]
    /\ IF marker["me"] = w.message
       THEN marker' = [marker EXCEPT !["me"] = w.previous] /\ effect' = TRUE
       ELSE UNCHANGED <<marker, effect>>
    /\ UNCHANGED <<Screen, Server, known, loading>>

\* Mutant: the timer ends the pause and nothing looks at the marker again.
PauseOnly == effect

RetryTick == TRUE

TimerFires ==
    /\ Rendered /\ retry.timer
    /\ retry' = [retry EXCEPT !.timer = FALSE, !.blocked = FALSE]
    /\ effect' = RetryTick
    /\ UNCHANGED <<Screen, writes, Server, marker, known, loading, tally>>

-----------------------------------------------------------------------------
(* The markers of others, and of the user's other tabs.                    *)

PeerReads ==
    /\ stored["peer"] < newest
    /\ \E n \in (stored["peer"] + 1)..newest : Store("peer", n)
    /\ UNCHANGED <<Screen, effect, writes, retry, marker, known, loading, tally>>

\* read_update: an older position than the last known one is left out.
ReadUpdate(e) ==
    /\ Rendered
    /\ updates' = updates \ {e}
    /\ IF e.at < known[e.member]
       THEN UNCHANGED <<marker, known, effect>>
       ELSE /\ known' = [known EXCEPT ![e.member] = e.at]
            /\ marker' = [marker EXCEPT ![e.member] = e.at]
            /\ effect' = TRUE
    /\ UNCHANGED <<Screen, writes, retry, stored, loading, tally>>

\* loadGroupMembers: one request at a time.
LoadMembers ==
    /\ loading = NoListing /\ tally.loads < MaxLoads
    /\ loading' = [NoListing EXCEPT !.step = "asked"]
    /\ tally' = [tally EXCEPT !.loads = @ + 1]
    /\ UNCHANGED <<Screen, effect, writes, retry, Server, marker, known>>

ListPositions ==
    /\ loading.step = "asked"
    /\ loading' = [step |-> "read", read |-> stored]
    /\ UNCHANGED <<Screen, effect, writes, retry, Server, marker, known, tally>>

\* Every member of the answer has a position, so that every marker is taken.
MembersLoaded ==
    /\ Rendered /\ loading.step = "read"
    /\ known' = loading.read
    /\ marker' = [m \in Member |-> IF loading.read[m] = 0 THEN marker[m] ELSE loading.read[m]]
    /\ loading' = NoListing /\ effect' = TRUE
    /\ UNCHANGED <<Screen, writes, retry, Server, tally>>

MarkerNext ==
    \/ MessageArrives \/ OpenRoom \/ CloseRoom
    \/ RunEffect \/ MarkRoomAsRead \/ TimerFires
    \/ \E w \in writes : WriteIsStored(w) \/ WriteSucceeds(w) \/ WriteFails(w)
    \/ PeerReads \/ \E e \in updates : ReadUpdate(e)
    \/ LoadMembers \/ ListPositions \/ MembersLoaded

\* Effects run after a render, timers fire, requests and events arrive.
MarkerFairness ==
    /\ WF_wvars(RunEffect)
    /\ WF_wvars(TimerFires)
    /\ WF_wvars(\E w \in writes : WriteIsStored(w) \/ WriteSucceeds(w))
    /\ WF_wvars(\E e \in updates : ReadUpdate(e))
    /\ WF_wvars(ListPositions \/ MembersLoaded)

MarkerSpec == MarkerInit /\ [][MarkerNext]_wvars /\ MarkerFairness

-----------------------------------------------------------------------------
\* Every variable has its type.
MarkerTypeOK ==
    /\ newest \in 0..MaxMessage
    /\ \A m \in Member : {stored[m], marker[m], known[m]} \subseteq 0..MaxMessage
    /\ writes \subseteq [message : 1..MaxMessage, previous : 0..MaxMessage,
                         step : {"sent", "stored"}]
    /\ retry.inFlight \in 0..MaxMessage

\* A position that has begun to be written gets there while the room is open,
\* through failures, markers that go back, and newer messages that overtake it.
ReadsAreStored ==
    (writes # {} /\ open /\ ~fresh) ~> (stored["me"] = newest \/ ~open)

\* "Read markers only ever move forward", loadGroupMembers says.
MarkersMoveForward == [][marker'["peer"] >= marker["peer"]]_wvars
=============================================================================
