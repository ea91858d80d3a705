--------------------------- MODULE SocketSessions ----------------------------
(***************************************************************************)
(* The sessions one user holds in one process, and their subscription to   *)
(* one room: the slots counted against MAX_SESSIONS_PER_USER from the      *)
(* handshake on, the subscriptions a new socket restores from the          *)
(* membership, the grants and revocations of this process, those another   *)
(* process publishes, and the reconciliation that takes away what a        *)
(* revocation lost with the Redis subscriber would have.                   *)
(*                                                                         *)
(* restore, a grant, a revocation and a reconciling room all take the lock *)
(* of the user and the room; a frame of another process does not.          *)
(***************************************************************************)
EXTENDS Integers, FiniteSets

CONSTANTS
    Session,        \* the user's sockets; each connects once
    Limit,          \* MAX_SESSIONS_PER_USER
    Attempts,       \* RECONCILE_ATTEMPTS
    MaxChanges,     \* bound on changes of the membership by this process
    MaxRemote,      \* bound on revocations by another process
    MaxOutages      \* bound on the subscriber's outages

ASSUME SessionAssumption ==
    /\ IsFiniteSet(Session) /\ Session \cap {"free", "sweep"} = {}
    /\ Limit \in Nat \ {0} /\ Attempts \in Nat \ {0}
    /\ MaxChanges \in Nat /\ MaxRemote \in Nat /\ MaxOutages \in Nat

VARIABLES
    phase,      \* of a socket: new, shaken (handshake passed), open, closed
    slot,       \* what it has of the limit: none, reserved, lapsed, held
    count,      \* sessionCounts of the user
    member,     \* whether the membership row stands
    joined,     \* sockets in room_<id>
    restore,    \* a new socket's restore: no, listed, joining, done
    lock,       \* the holder of the user's and the room's subscription lock
    change,     \* the membership change under way in this process
    remote,     \* one of another process: rest, published
    frame,      \* its SOCKETS_LEAVE is under way
    link,       \* whether the Redis subscriber is up
    signals,    \* reconnects seen by scheduleReconcile
    sweep,      \* the reconciliation cycle
    crossed,    \* a revocation met a restore, or one of another process met
                \* a change of this one (history)
    escaped,    \* something has made a revocation pass by this process that
                \* nothing signals to it since (history)
    changes, remotes, outages     \* counted for the bounds

svars == <<phase, slot, count, member, joined, restore, lock, change, remote,
           frame, link, signals, sweep, crossed, escaped, changes, remotes,
           outages>>

-----------------------------------------------------------------------------
Open == {s \in Session : phase[s] = "open"}

Idle == [step |-> "idle", served |-> 0, pass |-> 0, attempt |-> 0,
         sockets |-> {}]

Sessions == <<phase, slot, count>>
Cluster  == <<remote, frame, link, remotes, outages>>
Cycle    == <<signals, sweep, escaped>>

\* Whatever of this process reads or changes the subscription.
LocalAtWork == change # "rest" \/ \E s \in Session : restore[s] \notin {"no", "done"}

SessionInit ==
    /\ phase = [s \in Session |-> "new"] /\ slot = [s \in Session |-> "none"]
    /\ count = 0
    /\ member \in BOOLEAN /\ joined = {}
    /\ restore = [s \in Session |-> "no"]
    /\ lock = "free" /\ change = "rest" /\ remote = "rest" /\ frame = FALSE
    /\ link = TRUE /\ signals = 0 /\ sweep = Idle
    /\ crossed = FALSE /\ escaped = FALSE
    /\ changes = 0 /\ remotes = 0 /\ outages = 0

-----------------------------------------------------------------------------
\* Slots. The middleware reserves one, a timer gives it back if the
\* connection does not come.
Handshake(s) ==
    /\ phase[s] = "new" /\ count < Limit
    /\ phase' = [phase EXCEPT ![s] = "shaken"]
    /\ slot' = [slot EXCEPT ![s] = "reserved"]
    /\ count' = count + 1
    /\ UNCHANGED <<member, joined, restore, lock, change, crossed, changes,
                   Cluster, Cycle>>

Lapse(s) ==
    /\ slot[s] = "reserved"
    /\ slot' = [slot EXCEPT ![s] = "lapsed"]
    /\ count' = count - 1
    /\ UNCHANGED <<phase, member, joined, restore, lock, change, crossed, changes,
                   Cluster, Cycle>>

\* settleReservation: a reservation becomes the session's slot; after it has
\* lapsed the limit is tested again and a slot taken, or the socket closed.
\* Mutant: the connection does not look whether its reservation has lapsed.
AlwaysSettled(s) == TRUE

Settled(s) == slot[s] = "reserved"

Connect(s) ==
    /\ phase[s] = "shaken"
    /\ IF ~Settled(s) /\ count >= Limit
       THEN /\ phase' = [phase EXCEPT ![s] = "closed"]
            /\ slot' = [slot EXCEPT ![s] = "none"]
            /\ UNCHANGED <<count, restore, crossed>>
       ELSE /\ phase' = [phase EXCEPT ![s] = "open"]
            /\ slot' = [slot EXCEPT ![s] = "held"]
            /\ count' = IF Settled(s) THEN count ELSE count + 1
            /\ restore' = [restore EXCEPT ![s] = IF member THEN "listed" ELSE "done"]
            /\ crossed' = \/ crossed \/ remote # "rest" \/ frame
                          \/ change \in {"leaving", "writing"}
    /\ UNCHANGED <<member, joined, lock, change, changes, Cluster, Cycle>>

\* The disconnect handler; a restore that is still running joins nothing.
Disconnect(s) ==
    /\ phase[s] = "open"
    /\ phase' = [phase EXCEPT ![s] = "closed"]
    /\ slot' = [slot EXCEPT ![s] = "none"]
    /\ count' = count - 1
    /\ joined' = joined \ {s}
    /\ UNCHANGED <<member, restore, lock, change, crossed, changes, Cluster,
                   Cycle>>

-----------------------------------------------------------------------------
\* Restore: the memberships were read on connection; each is read again under
\* the lock, and then the socket joins.
RestoreRead(s) ==
    /\ restore[s] = "listed" /\ lock = "free"
    /\ restore' = [restore EXCEPT ![s] = IF member THEN "joining" ELSE "done"]
    /\ lock' = IF member THEN s ELSE lock
    /\ UNCHANGED <<member, joined, change, crossed, changes, Sessions, Cluster,
                   Cycle>>

RestoreJoin(s) ==
    /\ restore[s] = "joining"
    /\ restore' = [restore EXCEPT ![s] = "done"]
    /\ lock' = "free"
    /\ joined' = IF s \in Open THEN joined \cup {s} ELSE joined
    /\ UNCHANGED <<member, change, crossed, changes, Sessions, Cluster, Cycle>>

\* This process's handlers: a grant commits and then joins, a revocation
\* leaves and then commits, or fails and joins again.
BeginChange ==
    /\ change = "rest" /\ changes < MaxChanges
    /\ changes' = changes + 1
    /\ \/ ~member /\ member' = TRUE /\ change' = "joining"
       \/ member /\ change' = "leaving" /\ UNCHANGED member
    /\ crossed' = \/ crossed \/ remote # "rest" \/ frame
                  \/ member /\ LocalAtWork
    /\ UNCHANGED <<joined, restore, lock, Sessions, Cluster, Cycle>>

AddUserToRoom ==
    /\ change = "joining" /\ lock = "free"
    /\ joined' = joined \cup Open
    /\ change' = "rest"
    /\ UNCHANGED <<member, restore, lock, crossed, changes, Sessions, Cluster,
                   Cycle>>

RemoveUserFromRoom ==
    /\ change = "leaving" /\ lock = "free"
    /\ joined' = {}
    /\ change' = "writing"
    /\ UNCHANGED <<member, restore, lock, crossed, changes, Sessions, Cluster,
                   Cycle>>

WriteRevocation ==
    /\ change = "writing"
    /\ \/ member' = FALSE /\ change' = "rest"
       \/ UNCHANGED member /\ change' = "joining"
    /\ UNCHANGED <<joined, restore, lock, crossed, changes, Sessions, Cluster,
                   Cycle>>

-----------------------------------------------------------------------------
\* Another process revokes: its frame is published before its commit, and is
\* lost on a subscriber that is down. The publication may fail as well: the
\* adapter over there says so to nobody, and this subscriber was never down.
RemotePublish ==
    /\ remote = "rest" /\ member /\ remotes < MaxRemote
    /\ remotes' = remotes + 1
    /\ remote' = "published"
    /\ \/ frame' = link /\ UNCHANGED escaped
       \/ link /\ frame' = FALSE /\ escaped' = TRUE
    /\ crossed' = (crossed \/ LocalAtWork)
    /\ UNCHANGED <<member, joined, restore, lock, change, changes, link, outages,
                   signals, sweep, Sessions>>

RemoteCommit ==
    /\ remote = "published"
    /\ remote' = "rest" /\ member' = FALSE
    /\ UNCHANGED <<joined, restore, lock, change, crossed, changes, frame, link,
                   remotes, outages, Sessions, Cycle>>

\* The adapter applies the frame; it knows of no lock.
FrameArrives ==
    /\ frame
    /\ frame' = FALSE /\ joined' = {}
    /\ UNCHANGED <<member, restore, lock, change, crossed, changes, remote, link,
                   remotes, outages, Sessions, Cycle>>

SubscriberDown ==
    /\ link /\ outages < MaxOutages
    /\ link' = FALSE /\ frame' = FALSE /\ outages' = outages + 1
    /\ UNCHANGED <<member, joined, restore, lock, change, crossed, changes,
                   remote, remotes, Sessions, Cycle>>

\* The client restores the connection and announces nothing. (Should it have
\* left the subscription out, the frames lost since are as publications that
\* failed.)
RestoredSilently ==
    /\ ~link
    /\ link' = TRUE /\ escaped' = TRUE
    /\ UNCHANGED <<member, joined, restore, lock, change, crossed, changes,
                   remote, frame, remotes, outages, signals, sweep,
                   Sessions>>

-----------------------------------------------------------------------------
\* scheduleReconcile: a cycle of two passes; signals that come meanwhile are
\* counted, and the cycle looks at the count after each of its waits.
Start(n) == [step |-> "group", served |-> n, pass |-> 1, attempt |-> 1,
             sockets |-> {}]

SubscriberRestored ==
    /\ ~link
    /\ link' = TRUE /\ escaped' = FALSE
    /\ signals' = signals + 1
    /\ sweep' = IF sweep.step = "idle" THEN Start(signals') ELSE sweep
    /\ UNCHANGED <<member, joined, restore, lock, change, crossed, changes,
                   remote, frame, remotes, outages, Sessions>>

Sweeping == UNCHANGED <<member, restore, change, crossed, changes, signals,
                        Sessions, Cluster>>

\* After a pass that read everything. The second pass is for a revocation that
\* had been published and not committed when the first one read.
\* Mutant: one pass is enough.
VerifiedOnce == IF signals # sweep.served THEN Start(signals) ELSE Idle

Verified ==
    IF signals # sweep.served THEN Start(signals)
    ELSE IF sweep.pass = 1 THEN [sweep EXCEPT !.step = "pause"] ELSE Idle

\* After one that did not: it is tried again, until the cycle gives up.
Unverified == IF sweep.attempt < Attempts
              THEN [sweep EXCEPT !.step = "group", !.attempt = @ + 1] ELSE Idle

ReadFails ==
    /\ sweep' = Unverified
    /\ escaped' = (escaped \/ sweep.attempt >= Attempts)

Group ==
    /\ sweep.step = "group"
    /\ sweep' = [sweep EXCEPT !.step = "read", !.sockets = Open]
    /\ UNCHANGED <<joined, lock, escaped>>
    /\ Sweeping

\* The first read only finds the candidates.
SweepRead ==
    /\ sweep.step = "read"
    /\ \/ ReadFails
       \/ /\ sweep' = IF member \/ sweep.sockets \cap joined = {} THEN Verified
                      ELSE [sweep EXCEPT !.step = "lock"]
          /\ UNCHANGED escaped
    /\ UNCHANGED <<joined, lock>>
    /\ Sweeping

\* The second is made under the lock, and decides.
StillMember == member

SweepReread ==
    /\ sweep.step = "lock" /\ lock = "free"
    /\ \/ ReadFails /\ UNCHANGED lock
       \/ /\ UNCHANGED escaped
          /\ IF StillMember THEN sweep' = Verified /\ UNCHANGED lock
             ELSE sweep' = [sweep EXCEPT !.step = "leave"] /\ lock' = "sweep"
    /\ UNCHANGED joined
    /\ Sweeping

SweepLeave ==
    /\ sweep.step = "leave"
    /\ joined' = joined \ sweep.sockets
    /\ lock' = "free"
    /\ sweep' = Verified
    /\ UNCHANGED escaped
    /\ Sweeping

\* RECONCILE_TRAILING_DELAY_MS has passed. It is meant to outlast the gap
\* between a revocation's publication and its commit; a slower commit escapes.
PauseEnds ==
    /\ sweep.step = "pause"
    /\ escaped' = (escaped \/ (signals = sweep.served /\ remote = "published"))
    /\ sweep' = IF signals # sweep.served THEN Start(signals)
                ELSE [sweep EXCEPT !.step = "group", !.pass = 2, !.attempt = 1]
    /\ UNCHANGED <<joined, lock>>
    /\ Sweeping

-----------------------------------------------------------------------------
Sweep == Group \/ SweepRead \/ SweepReread \/ SweepLeave \/ PauseEnds
Local == AddUserToRoom \/ RemoveUserFromRoom \/ WriteRevocation

SessionNext ==
    \/ \E s \in Session :
         \/ Handshake(s) \/ Lapse(s) \/ Connect(s) \/ Disconnect(s)
         \/ RestoreRead(s) \/ RestoreJoin(s)
    \/ BeginChange \/ Local
    \/ RemotePublish \/ RemoteCommit \/ FrameArrives
    \/ SubscriberDown \/ SubscriberRestored \/ RestoredSilently
    \/ Sweep

\* Handlers, frames and the cycle go on, and the subscriber comes back.
SessionFairness ==
    /\ \A s \in Session : WF_svars(RestoreRead(s)) /\ WF_svars(RestoreJoin(s))
    /\ WF_svars(Local) /\ WF_svars(RemoteCommit) /\ WF_svars(FrameArrives)
    /\ WF_svars(SubscriberRestored) /\ WF_svars(Sweep)

SessionSpec == SessionInit /\ [][SessionNext]_svars /\ SessionFairness

-----------------------------------------------------------------------------
\* Every variable has its type.
SessionTypeOK ==
    /\ phase \in [Session -> {"new", "shaken", "open", "closed"}]
    /\ slot \in [Session -> {"none", "reserved", "lapsed", "held"}]
    /\ {member, link, frame, crossed, escaped} \subseteq BOOLEAN
    /\ joined \subseteq Open
    /\ restore \in [Session -> {"no", "listed", "joining", "done"}]
    /\ lock \in {"free", "sweep"} \cup Session
    /\ change \in {"rest", "joining", "leaving", "writing"}
    /\ remote \in {"rest", "published"}
    /\ signals \in 0..MaxOutages
    /\ sweep.step \in {"idle", "group", "read", "lock", "leave", "pause"}
    /\ sweep.pass \in 0..2 /\ sweep.attempt \in 0..Attempts

\* Every session is counted once, from its handshake to its end, whether the
\* reservation lapsed before the connection or not, and the count never
\* passes the limit.
SlotsCounted ==
    /\ count = Cardinality({s \in Session : slot[s] \in {"reserved", "held"}})
    /\ count <= Limit

\* No reconciliation costs a member a subscription: with nothing at work in
\* this process and nothing of another one met by it, an open socket whose
\* restore is done is in the room if the membership stands.
MembersStaySubscribed ==
    ~crossed /\ ~LocalAtWork /\ remote = "rest" /\ ~frame /\ member =>
        \A s \in Open : s \in joined

\* A revocation is felt: if its frames are lost with the subscriber, and the
\* subscriber is announced again, in the end no socket is in the room of a user
\* who is no member. It is not where the revocation met a restore, which may
\* have read the membership before it, or where nothing since has told of it:
\* its publication failed, the client restored the subscriber silently, its
\* commit outlasted the trailing delay, or the reconciliation gave up.
RevokedLeave == <>[](crossed \/ escaped \/ member \/ joined = {})

\* Subscriptions follow the membership in both directions.
SubscriptionsFollow == []MembersStaySubscribed /\ RevokedLeave
=============================================================================
