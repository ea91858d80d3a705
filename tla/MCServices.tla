----------------------------- MODULE MCServices ------------------------------
(* What serves requests beside the message log, for TLC: rooms, refresh      *)
(* tokens, uploads, migrations, the records of slow queries and latencies,   *)
(* and the shutdown. The parts share no state: a behaviour moves the one its *)
(* first state names, and the others stay at rest.                           *)
EXTENDS MCRooms, RefreshTokens, Uploads, Migrations, RecentRecords, Shutdown

roomvars == <<mvars, pvars>>

\* Every tab is of one browser, where the user may be signed in on another.
OneBrowser == [t \in Tab |-> "b1"]

\* Two messages want attachment 2, and one of them attachment 1 too.
Overlapping == [s \in Message |-> IF s = "s1" THEN {1, 2} ELSE {2}]

\* A release, its successor, and one from a branch.
Branches == {<<"a", "b">>, <<"a", "b", "c">>, <<"a", "c">>}

ServicesInit ==
    /\ kind \in {"group", "private", "tokens", "uploads", "migrations", "records",
                "shutdown"}
    /\ RoomsBegin
    /\ TokenInit /\ UploadInit /\ MigrationInit /\ RingInit /\ ShutdownInit
    /\ kind # "tokens" => exclusive
    /\ kind # "shutdown" => stuck = {} /\ sockets

ServicesNext ==
    /\ \/ RoomsNext /\ UNCHANGED <<kvars, uvars, nvars, gvars, dvars>>
       \/ kind = "tokens" /\ TokenNext /\ UNCHANGED <<roomvars, uvars, nvars, gvars, dvars>>
       \/ kind = "uploads" /\ UploadNext /\ UNCHANGED <<roomvars, kvars, nvars, gvars, dvars>>
       \/ kind = "migrations" /\ MigrationNext /\ UNCHANGED <<roomvars, kvars, uvars, gvars, dvars>>
       \/ kind = "records" /\ RingNext /\ UNCHANGED <<roomvars, kvars, uvars, nvars, dvars>>
       \/ kind = "shutdown" /\ ShutdownNext /\ UNCHANGED <<roomvars, kvars, uvars, nvars, gvars>>
    /\ UNCHANGED kind

ServicesSpec ==
    ServicesInit /\ [][ServicesNext]_<<roomvars, kvars, uvars, nvars, gvars, dvars, kind>>
=============================================================================
