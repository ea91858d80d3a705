-------------------------------- MODULE MCTab --------------------------------
(* One tab, for TLC: its sync with two rooms, its session, and the read      *)
(* markers of an open room. They share no state: a behaviour moves the part  *)
(* its first state names, and the others stay at rest. The session is taken  *)
(* twice: with all calls and without the monitoring page, and with that page *)
(* and one call.                                                             *)
EXTENDS MCSyncClient, PageSession, ReadMarkers

VARIABLE part   \* the part a behaviour is about

TheCall == CHOOSE c \in ApiCall : TRUE

TabInit ==
    /\ part \in {"sync", "calls", "admin", "markers"}
    /\ Init /\ PageInit /\ MarkerInit

TabNext ==
    /\ \/ part = "sync" /\ Next /\ UNCHANGED <<pvars, wvars>>
       \/ part = "markers" /\ MarkerNext /\ UNCHANGED <<vars, pvars>>
       \/ /\ part \in {"calls", "admin"} /\ PageNext /\ UNCHANGED <<vars, wvars>>
          /\ part = "calls" => ~admin'.here
          /\ part = "admin" => \A c \in ApiCall \ {TheCall} : call'[c] = call[c]
    /\ UNCHANGED part

\* Of the sync's actions under fairness Connect alone is enabled at rest.
TabFairness ==
    /\ part = "sync" => Fairness
    /\ PageFairness /\ MarkerFairness

TabSpec == TabInit /\ [][TabNext]_<<vars, pvars, wvars, part>> /\ TabFairness
=============================================================================
