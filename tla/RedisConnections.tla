-------------------------- MODULE RedisConnections ---------------------------
(***************************************************************************)
(* The subscriber connection of one process and the one channel the        *)
(* cluster adapter subscribes on it. The client keeps its listeners over a *)
(* reconnect and appends another with every subscription, while the server *)
(* forgets the subscription; so the manager remembers the listener it has  *)
(* attached, puts the channel back after every establishment, and has a    *)
(* watchdog replace a connection that is down or holds a listener it       *)
(* cannot account for. Operations on the channel run one after another.    *)
(* A replaced connection delivers to the same handlers until it is retired,*)
(* and the client may restore one that dropped without announcing it.      *)
(*                                                                         *)
(* External: the client rejects what is asked of a closed connection, and  *)
(* attaches nothing when it rejects.                                       *)
(***************************************************************************)
EXTENDS Integers, Sequences

CONSTANTS
    MaxConnections,     \* how many connections the instance can build
    MaxCalls,           \* bound on subscribe and unsubscribe
    MaxTrouble          \* bound on drops and failures

ASSUME RedisAssumption ==
    /\ MaxConnections \in Nat /\ MaxCalls \in Nat /\ MaxTrouble \in Nat

VARIABLES
    conns,      \* every connection built: up, its listeners, subscribed
    current,    \* the one in use, 0 before the first
    connecting, \* an attempt is in flight
    suspect,    \* staleSubscriber
    wanted,     \* whether the channel is registered
    active,     \* the connection the remembered listener was attached on
    queue,      \* channelQueue: the operations, the first one running
    closed,     \* close() was called
    missed,     \* frames may have been lost and nobody was told (history)
    silent,     \* restored without an announcement, and none since (history)
    calls, trouble  \* counted for the bounds

rvars == <<conns, current, connecting, suspect, wanted, active, queue, closed,
           missed, silent, calls, trouble>>

-----------------------------------------------------------------------------
Down == [up |-> FALSE, ears |-> 0, served |-> FALSE]

\* An operation, where it is, and the connection it works on.
Operation(op, g) == [op |-> op, on |-> g, step |-> "queued"]

Usable == ~closed /\ current # 0 /\ conns[current].up

\* An operation begins in the turn in which the one before it ends, ahead of
\* every timer and everything from the network.
Begun == queue # <<>> => Head(queue).step # "queued"

\* How often a frame reaches the handler over connection g.
Copies(g) == IF wanted /\ conns[g].up /\ conns[g].served THEN conns[g].ears ELSE 0

\* Whether one reaches it over the connection in use.
InReach == Usable /\ conns[current].served /\ conns[current].ears > 0

\* The first subscription of a channel has missed nothing until it is done.
Expected == wanted /\ ~(queue # <<>> /\ Head(queue).op = "subscribe")

\* What is owed to the subscriber-restored handlers: told, unless the channel
\* is still, or again, out of reach.
Owe(told) ==
    /\ missed' = (Expected' /\ ~closed' /\ ((missed /\ ~told) \/ ~InReach'))
    /\ silent' = (silent /\ wanted' /\ ~(told /\ InReach'))

Book == <<current, connecting, wanted, closed, calls, trouble>>

RedisInit ==
    /\ conns = [g \in 1..MaxConnections |-> Down]
    /\ current = 0 /\ connecting = FALSE /\ suspect = FALSE
    /\ wanted = FALSE /\ active = 0 /\ queue = <<>> /\ closed = FALSE
    /\ missed = FALSE /\ silent = FALSE /\ calls = 0 /\ trouble = 0

-----------------------------------------------------------------------------
\* subscribe and unsubscribe by the adapter, which has one handler.
Call ==
    /\ ~closed /\ calls < MaxCalls
    /\ calls' = calls + 1
    /\ queue' = Append(queue, Operation(
           IF calls % 2 = 0 THEN "subscribe" ELSE "unsubscribe", 0))
    /\ UNCHANGED <<conns, current, connecting, suspect, wanted, active, closed,
                   trouble>>
    /\ Owe(FALSE)

\* openRole: the listeners of the connection before count for nothing.
OpenRole ==
    /\ Begun /\ ~closed /\ ~connecting /\ current < MaxConnections
    /\ current' = current + 1
    /\ connecting' = TRUE /\ suspect' = FALSE /\ active' = 0
    /\ UNCHANGED <<conns, wanted, queue, closed, calls, trouble>>
    /\ Owe(FALSE)

\* connect(), at startup; it starts the watchdog, which from then on replaces
\* a connection that is down or condemned.
ConnectRedis == current = 0 /\ OpenRole

Replace == current # 0 /\ (~Usable \/ suspect) /\ OpenRole

\* resubscribeAll: a replay joins the queue if the channel is registered, and
\* without one there is only the announcement.
Replay(g) ==
    queue' = IF wanted THEN Append(queue, Operation("replay", g)) ELSE queue

ConnectSucceeds ==
    /\ Begun /\ connecting /\ ~closed
    /\ connecting' = FALSE
    /\ conns' = [conns EXCEPT ![current].up = TRUE]
    /\ Replay(current)
    /\ UNCHANGED <<current, suspect, wanted, active, closed, calls, trouble>>
    /\ Owe(~wanted)

ConnectFails ==
    /\ Begun /\ connecting
    /\ closed \/ trouble < MaxTrouble
    /\ trouble' = IF closed THEN trouble ELSE trouble + 1
    /\ connecting' = FALSE
    /\ UNCHANGED <<conns, current, suspect, wanted, active, queue, closed, calls>>
    /\ Owe(FALSE)

\* The connection drops without a word, and the client may restore it.
Drop ==
    /\ Begun /\ Usable /\ trouble < MaxTrouble
    /\ trouble' = trouble + 1
    /\ conns' = [conns EXCEPT ![current].up = FALSE, ![current].served = FALSE]
    /\ UNCHANGED <<current, connecting, suspect, wanted, active, queue, closed,
                   calls>>
    /\ Owe(FALSE)

ReconnectsItself ==
    /\ Begun /\ ~closed /\ current # 0 /\ ~connecting /\ ~conns[current].up
    /\ conns' = [conns EXCEPT ![current].up = TRUE]
    /\ Replay(current)
    /\ UNCHANGED <<current, connecting, suspect, wanted, active, closed, calls,
                   trouble>>
    /\ Owe(~wanted)

\* autoReconnect may restore one without announcing it, with its subscription
\* or without: the watchdog sees a connection that is up and has its listener.
\* It may restore a replaced one as well, until that is retired.
ReconnectsSilently(g) ==
    /\ Begun /\ ~closed /\ ~conns[g].up
    /\ (g = current /\ ~connecting) \/ (g < current /\ conns[g] # Down)
    /\ \E subscribed \in BOOLEAN :
         /\ subscribed => conns[g].ears > 0
         /\ conns' = [conns EXCEPT ![g].up = TRUE, ![g].served = subscribed]
    /\ UNCHANGED <<suspect, active, queue, Book>>
    /\ missed' = (missed \/ (Expected /\ ~InReach'))
    /\ silent' = (silent \/ (g = current /\ Expected))

\* retire: a replaced connection is given up some time after its successor
\* was built, and those of a closed manager too.
GivenUp(g) == (g < current \/ closed) /\ conns[g] # Down

Retire(g) ==
    /\ Begun /\ GivenUp(g)
    /\ conns' = [conns EXCEPT ![g] = Down]
    /\ UNCHANGED <<current, connecting, suspect, wanted, active, queue, closed,
                   calls, trouble>>
    /\ Owe(FALSE)

\* The watchdog puts back a channel that has no listener and nothing queued.
\* Mutant: a channel without a listener waits for the next reconnect.
NeverReattached == FALSE

Reattachable == wanted /\ active = 0 /\ queue = <<>>

Reattach ==
    /\ Begun /\ ~closed /\ Usable /\ ~suspect /\ ~connecting
    /\ Reattachable
    /\ queue' = <<Operation("attach", 0)>>
    /\ UNCHANGED <<conns, suspect, active, Book>>
    /\ Owe(FALSE)

-----------------------------------------------------------------------------
\* The running operation ends. A replay announces however it went, a repair by
\* the watchdog when it succeeded.
\* Mutant: only a replay announces.
AnnouncedByReplay(op, ok) == op = "replay"

Announced(op, ok) == op = "replay" \/ (op = "attach" /\ ok)

Finish == queue' = Tail(queue)

Outcome(ok) == Owe(Announced(Head(queue).op, ok))

\* It waits for the client's answer on connection g.
Await(step, g) == queue' = [queue EXCEPT ![1].step = step, ![1].on = g]

\* attachListener: a listener that is there already condemns the connection.
AttachListener ==
    /\ IF Usable /\ active = 0 THEN Await("subscribing", current)
       ELSE Finish
    /\ suspect' = (suspect \/ (Usable /\ active # 0))

BeginAttach ==
    /\ queue # <<>> /\ Head(queue).step = "queued"
    /\ \/ /\ Head(queue).op = "attach" /\ UNCHANGED wanted
       \/ /\ Head(queue).op = "subscribe" /\ wanted' = TRUE
    /\ AttachListener
    /\ UNCHANGED <<conns, current, connecting, active, closed, calls, trouble>>
    /\ Owe(FALSE)

BeginUnsubscribe ==
    /\ queue # <<>> /\ Head(queue).step = "queued"
    /\ Head(queue).op = "unsubscribe"
    /\ wanted' = FALSE
    /\ IF wanted /\ Usable /\ active # 0 THEN Await("dropping", current)
       ELSE Finish
    /\ UNCHANGED <<conns, current, connecting, suspect, active, closed, calls,
                   trouble>>
    /\ Owe(FALSE)

RemovesListener == active # 0

BeginReplay ==
    /\ queue # <<>> /\ Head(queue).step = "queued"
    /\ Head(queue).op = "replay"
    /\ IF ~wanted THEN Finish
       ELSE Await(IF RemovesListener THEN "dropping" ELSE "subscribing",
                  Head(queue).on)
    /\ UNCHANGED <<conns, suspect, active, Book>>
    /\ Owe(~wanted)

\* The answer to an unsubscription of the remembered listener; a connection
\* that does not have it has nothing to remove.
Without(g) ==
    IF active # g THEN conns[g]
    ELSE [conns[g] EXCEPT !.ears = @ - 1, !.served = (@ /\ conns[g].ears > 1)]

Dropped ==
    LET c == Head(queue) IN
    /\ queue # <<>> /\ c.step = "dropping" /\ conns[c.on].up
    /\ conns' = [conns EXCEPT ![c.on] = Without(c.on)]
    /\ active' = 0
    /\ IF c.op = "replay" THEN Await("subscribing", c.on) ELSE Finish
    /\ UNCHANGED <<suspect, Book>>
    /\ Owe(FALSE)

Subscribed ==
    LET c == Head(queue) IN
    /\ queue # <<>> /\ c.step = "subscribing" /\ conns[c.on].up
    /\ conns' = [conns EXCEPT ![c.on].ears = @ + 1, ![c.on].served = TRUE]
    /\ active' = c.on
    /\ Finish
    /\ UNCHANGED <<suspect, Book>>
    /\ Outcome(TRUE)

\* The client rejects: always on a connection that is down, sometimes on one
\* that is not. A removal that failed condemns the connection.
Rejected ==
    LET c == Head(queue) IN
    /\ queue # <<>> /\ c.step \in {"dropping", "subscribing"}
    /\ IF conns[c.on].up
       THEN trouble < MaxTrouble /\ trouble' = trouble + 1
       ELSE UNCHANGED trouble
    /\ suspect' = (suspect \/ c.step = "dropping")
    /\ Finish
    /\ UNCHANGED <<conns, current, connecting, wanted, active, closed, calls>>
    /\ Outcome(FALSE)

\* close(): the watchdog stops, everything is forgotten, and the connections,
\* the one being built among them, are retired.
Close ==
    /\ Begun /\ ~closed /\ current # 0
    /\ closed' = TRUE /\ wanted' = FALSE /\ active' = 0
    /\ missed' = FALSE /\ silent' = FALSE
    /\ UNCHANGED <<conns, current, connecting, suspect, queue, calls, trouble>>

RunOperation ==
    \/ BeginAttach \/ BeginUnsubscribe \/ BeginReplay
    \/ Dropped \/ Subscribed \/ Rejected

RedisNext ==
    \/ Call \/ ConnectRedis \/ Replace \/ ConnectSucceeds \/ ConnectFails \/ Drop
    \/ ReconnectsItself \/ Reattach \/ RunOperation \/ Close
    \/ \E g \in 1..MaxConnections : ReconnectsSilently(g) \/ Retire(g)

\* The watchdog ticks, the client answers.
RedisFairness ==
    /\ WF_rvars(Replace) /\ WF_rvars(Reattach) /\ WF_rvars(RunOperation)
    /\ WF_rvars(ConnectSucceeds \/ ConnectFails)

RedisSpec == RedisInit /\ [][RedisNext]_rvars /\ RedisFairness

-----------------------------------------------------------------------------
\* Every variable has its type.
RedisTypeOK ==
    /\ conns \in [1..MaxConnections ->
                    [up : BOOLEAN, ears : 0..MaxCalls + MaxConnections,
                     served : BOOLEAN]]
    /\ current \in 0..MaxConnections /\ active \in 0..MaxConnections
    /\ {connecting, suspect, wanted, closed, missed, silent} \subseteq BOOLEAN
    /\ \A n \in 1..Len(queue) : queue[n] \in
         [op : {"subscribe", "unsubscribe", "replay", "attach"},
          on : 0..MaxConnections, step : {"queued", "dropping", "subscribing"}]

\* However often the connection was lost, restored or replaced, a frame
\* reaches the handler at most once, over one connection, unless that one is
\* condemned or one that was given up is not retired yet.
EachFrameOnce ==
    queue = <<>> /\ ~suspect /\ (\A g \in 1..MaxConnections : ~GivenUp(g)) =>
        \A g \in 1..MaxConnections : Copies(g) # 0 => g = current /\ Copies(g) = 1

\* A registered channel that the connection in use did not serve is served
\* again only with its gap announced to the handlers that repair it, unless
\* the client restored the connection silently.
GapsAreAnnounced == queue = <<>> /\ wanted /\ InReach => silent \/ ~missed

\* A handler is given every frame once or is told that it may have missed some.
FramesAccountedFor == EachFrameOnce /\ GapsAreAnnounced

\* When connections stay up and calls are answered, the channel is subscribed
\* again for good, once connect() was called and if close() is not, unless the
\* last to restore the connection was the client, silently.
SubscriptionsRestored ==
    <>[](current = 0 \/ closed \/ silent \/ (wanted => InReach))
=============================================================================
