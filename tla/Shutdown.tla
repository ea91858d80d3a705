------------------------------ MODULE Shutdown -------------------------------
(***************************************************************************)
(* A process that is told to stop: sockets are disconnected, the HTTP      *)
(* server drains, with a hard stop after ten seconds, then the presence    *)
(* leases are released, then Redis is closed, then the process exits; and  *)
(* it exits anyway after twenty seconds. A handler serves each signal      *)
(* once: the same signal again ends the process by its default.            *)
(*                                                                         *)
(* External: Bun's stop waits for requests, and forced stop cuts them off. *)
(***************************************************************************)
EXTENDS Integers

CONSTANTS
    Incoming,       \* requests being served or still to come
    Signal          \* SIGTERM and SIGINT

VARIABLES
    stage,      \* serving, draining, releasing, closing, exited
    requested,  \* a request: coming, active, answered, cut, refused
    stuck,      \* the requests whose handlers never end
    seconds,    \* since the signal: 0, 10 or 20
    handled,    \* signals whose handler is used up
    sockets,    \* whether there are connections
    leases,     \* presence leases: held, released, left
    redisOpen,  \* the Redis connections are open
    ended       \* how the process ended: not, drained, deadline, killed

dvars == <<stage, requested, stuck, seconds, handled, sockets, leases, redisOpen, ended>>

ShutdownInit ==
    /\ stage = "serving" /\ ended = "not" /\ seconds = 0 /\ handled = {}
    /\ requested = [c \in Incoming |-> "coming"] /\ stuck \in SUBSET Incoming
    /\ sockets \in BOOLEAN /\ leases = (IF sockets THEN "held" ELSE "released")
    /\ redisOpen = TRUE

Stopping == stage \in {"draining", "releasing", "closing"}

\* A request arrives; from close on, nothing new is let in.
Serve(c) ==
    /\ requested[c] = "coming" /\ stage # "exited"
    /\ requested' = [requested EXCEPT ![c] = IF stage = "serving" THEN "active" ELSE "refused"]
    /\ UNCHANGED <<stage, stuck, seconds, handled, sockets, leases, redisOpen, ended>>

AnswerCall(c) ==
    /\ requested[c] = "active" /\ c \notin stuck /\ stage # "exited"
    /\ requested' = [requested EXCEPT ![c] = "answered"]
    /\ UNCHANGED <<stage, stuck, seconds, handled, sockets, leases, redisOpen, ended>>

\* The first signal begins the shutdown; the other one then is ignored.
HandleSignal(s) ==
    /\ s \notin handled /\ stage # "exited"
    /\ handled' = handled \cup {s}
    /\ IF stage = "serving"
       THEN stage' = "draining" /\ sockets' = FALSE
       ELSE UNCHANGED <<stage, sockets>>
    /\ UNCHANGED <<requested, stuck, seconds, leases, redisOpen, ended>>

\* process.once has removed its listener.
RepeatSignal(s) ==
    /\ s \in handled /\ stage # "exited"
    /\ stage' = "exited" /\ ended' = "killed"
    /\ UNCHANGED <<requested, stuck, seconds, handled, sockets, leases, redisOpen>>

\* The server has stopped: nothing is being served any more.
\* Mutant: the callback of close does not wait for the requests.
DrainedAtOnce == TRUE

Drained == \A c \in Incoming : requested[c] # "active"

FinishDrain ==
    /\ stage = "draining" /\ Drained
    /\ stage' = "releasing"
    /\ UNCHANGED <<requested, stuck, seconds, handled, sockets, leases, redisOpen, ended>>

ForceStop ==
    /\ stage = "draining" /\ seconds >= 10
    /\ requested' = [c \in Incoming |-> IF requested[c] = "active" THEN "cut" ELSE requested[c]]
    /\ UNCHANGED <<stage, stuck, seconds, handled, sockets, leases, redisOpen, ended>>

\* presence.stop releases the leases, or gives up within its own time.
StopPresence ==
    /\ stage = "releasing"
    /\ \E left \in {"released", "left"} :
          leases' = IF leases = "held" THEN left ELSE leases
    /\ stage' = "closing"
    /\ UNCHANGED <<requested, stuck, seconds, handled, sockets, redisOpen, ended>>

\* redis.close lets publishes land, or gives up, and the process exits.
CloseRedis ==
    /\ stage = "closing"
    /\ redisOpen' = FALSE
    /\ stage' = "exited" /\ ended' = "drained"
    /\ UNCHANGED <<requested, stuck, seconds, handled, sockets, leases>>

PassTenSeconds ==
    /\ Stopping /\ seconds < 20
    /\ seconds' = seconds + 10
    /\ UNCHANGED <<stage, requested, stuck, handled, sockets, leases, redisOpen, ended>>

ExceedDeadline ==
    /\ Stopping /\ seconds = 20
    /\ stage' = "exited" /\ ended' = "deadline"
    /\ UNCHANGED <<requested, stuck, seconds, handled, sockets, leases, redisOpen>>

ShutdownNext ==
    \/ \E c \in Incoming : Serve(c) \/ AnswerCall(c)
    \/ \E s \in Signal : HandleSignal(s) \/ RepeatSignal(s)
    \/ FinishDrain \/ ForceStop \/ StopPresence \/ CloseRedis
    \/ PassTenSeconds \/ ExceedDeadline

ShutdownSpec == ShutdownInit /\ [][ShutdownNext]_dvars

-----------------------------------------------------------------------------
\* A process that was not killed by a second signal, nor overtaken by its
\* deadline, has answered every request it had let in, or has cut it off after
\* ten seconds and not before, and no lease was left to expire unasked.
StopsInOrder ==
    ended = "drained" =>
        /\ leases # "held" /\ ~redisOpen
        /\ \A c \in Incoming : requested[c] # "active" /\ (requested[c] = "cut" => seconds >= 10)
=============================================================================
