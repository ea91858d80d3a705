----------------------------- MODULE MCRealtime ------------------------------
(* What happens beside the requests, for TLC: connections, timers and the    *)
(* hourly job. The parts share no state: a behaviour moves the one its first *)
(* state names, and the others stay at rest.                                 *)
EXTENDS Presence, SocketSessions, Typing, RedisConnections, EmergencyAlerts, TLC

VARIABLE part   \* the part a behaviour is about

\* Two runs of the inactivity check, in two processes.
TwoPlaces == [k \in Check |-> ToString(k)]

MCInit ==
    /\ part \in {"presence", "sessions", "typing", "redis", "alerts"}
    /\ PresenceInit /\ SessionInit /\ TypingInit /\ RedisInit /\ AlertInit
    /\ part # "presence" => graceful
    /\ part # "sessions" => member
    /\ part # "alerts" => ~due

MCNext ==
    /\ \/ part = "presence" /\ PresenceNext /\ UNCHANGED <<svars, tvars, rvars, evars>>
       \/ part = "sessions" /\ SessionNext /\ UNCHANGED <<avars, tvars, rvars, evars>>
       \/ part = "typing" /\ TypingNext /\ UNCHANGED <<avars, svars, rvars, evars>>
       \/ part = "redis" /\ RedisNext /\ UNCHANGED <<avars, svars, tvars, evars>>
       \/ part = "alerts" /\ AlertNext /\ UNCHANGED <<avars, svars, tvars, rvars>>
    /\ UNCHANGED part

\* No action of a part at rest that is under fairness is enabled.
MCSpec ==
    /\ MCInit /\ [][MCNext]_<<avars, svars, tvars, rvars, evars, part>>
    /\ PresenceFairness /\ SessionFairness /\ RedisFairness /\ AlertFairness
=============================================================================
