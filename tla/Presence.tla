------------------------------ MODULE Presence -------------------------------
(***************************************************************************)
(* Who is online: one user, the sockets of that user, and the instances of *)
(* the backend that hold them. Each instance keeps the sockets it has and  *)
(* the grace timer of a user it lost; in Redis it holds a lease, one field *)
(* per instance in the user's hash. hold answers with the number of        *)
(* holders before it, release with the number after it, and these answers  *)
(* decide which instance announces the user to friends.                    *)
(*                                                                         *)
(* A command is a script named by its digest. Nothing loads the scripts: a *)
(* server that has not met one, or forgot it, refuses the digest, and then *)
(* the client sends the body, behind whatever it has sent in the meantime. *)
(* An answer and the look at it are one step, and what comes after it, the *)
(* friends' ids and the broadcast, another.                                *)
(***************************************************************************)
EXTENDS Integers, Sequences, FiniteSets

CONSTANTS
    Socket, Instance,   \* the user's sockets, the backend's instances
    GraceSettings,      \* values of PRESENCE_GRACE_MS > 0
    MaxTurns,           \* bound on sockets opened
    MaxFaults           \* bound on failed commands, flushes and crashes

ASSUME PresenceAssumption == MaxTurns \in Nat /\ MaxFaults \in Nat

VARIABLES
    conn,       \* userSockets, by instance
    grace,      \* instances with a timer in pendingDisconnects
    life,       \* of an instance: up, stopping, gone
    graceful,   \* whether there is a grace period
    leases,     \* the fields of presence:user:<id>
    stale,      \* instances whose last hold failed: the lease may expire
    scripts,    \* the scripts Redis has cached
    pipe,       \* commands sent and not answered, by instance
    news,       \* announcements decided and not yet broadcast, by instance
    shown,      \* what friends were told last
    raced,      \* two announcements were under way at once (history)
    overtaken,  \* instances that sent a body behind a command of the other
                \* kind sent later (history)
    turns, faults   \* counted for the bounds

avars == <<conn, grace, life, graceful, leases, stale, scripts, pipe, news,
           shown, raced, overtaken, turns, faults>>

-----------------------------------------------------------------------------
Status == {"online", "offline"}
Quiet == [s \in Status |-> 0]

\* heldUsers and isLocallyOnline.
Held(i) == conn[i] # {} \/ i \in grace

\* A script invocation: why it was sent, whether the user was new to the
\* instance, whether Redis did not know the script then, and whether the body
\* went with it.
Command(op, why, fresh) == [op |-> op, why |-> why, fresh |-> fresh,
                            cold |-> op \notin scripts, body |-> FALSE]

Send(i, c) == pipe' = [pipe EXCEPT ![i] = Append(@, c)]

\* broadcastStatus begins; the friends have to be looked up first.
Tell(i, s) ==
    /\ news' = [news EXCEPT ![i][s] = @ + 1]
    /\ raced' = (raced \/ \E j \in Instance : news[j] # Quiet)

Untold == UNCHANGED <<news, raced>>

PresenceInit ==
    /\ conn = [i \in Instance |-> {}] /\ grace = {}
    /\ life = [i \in Instance |-> "up"]
    /\ graceful \in GraceSettings
    /\ leases = {} /\ stale = {} /\ scripts = {}
    /\ pipe = [i \in Instance |-> <<>>]
    /\ news = [i \in Instance |-> Quiet]
    /\ shown = "offline" /\ raced = FALSE /\ overtaken = {}
    /\ turns = 0 /\ faults = 0

-----------------------------------------------------------------------------
\* trackUserConnection: the timer is cancelled and the lease taken.
TrackConnection(i, s) ==
    /\ life[i] = "up" /\ turns < MaxTurns
    /\ \A j \in Instance : s \notin conn[j]
    /\ conn' = [conn EXCEPT ![i] = @ \cup {s}]
    /\ grace' = grace \ {i}
    /\ Send(i, Command("hold", "arrival", conn[i] = {} /\ i \notin grace))
    /\ turns' = turns + 1
    /\ UNCHANGED <<life, graceful, leases, stale, scripts, news, shown, raced,
                   faults, overtaken>>

\* trackUserDisconnection: the last socket of an instance starts the grace
\* period, or without one gives the lease back.
LastSocket(i, s) == conn[i] = {s}

TrackDisconnection(i, s) ==
    /\ life[i] # "gone" /\ s \in conn[i]
    /\ conn' = [conn EXCEPT ![i] = @ \ {s}]
    /\ IF ~LastSocket(i, s) THEN UNCHANGED <<grace, pipe>>
       ELSE IF graceful THEN grace' = grace \cup {i} /\ UNCHANGED pipe
       ELSE Send(i, Command("release", "left", FALSE)) /\ UNCHANGED grace
    /\ UNCHANGED <<life, graceful, leases, stale, scripts, news, shown, raced,
                   turns, faults, overtaken>>

\* The timer fires. releaseUser forgets the user before it waits for Redis.
GraceEnds(i) ==
    /\ life[i] # "gone" /\ i \in grace
    /\ grace' = grace \ {i}
    /\ IF conn[i] = {} THEN Send(i, Command("release", "left", FALSE))
       ELSE UNCHANGED pipe
    /\ UNCHANGED <<conn, life, graceful, leases, stale, scripts, news, shown,
                   raced, turns, faults, overtaken>>

\* refreshLeases, on the timer that the first connection started: a hold for
\* whoever the instance still counts, lease or none. A beat that meets
\* unanswered commands is left out.
Beats(i) == life[i] = "up" /\ Held(i)

Heartbeat(i) ==
    /\ Beats(i) /\ pipe[i] = <<>>
    /\ Send(i, Command("hold", "beat", FALSE))
    /\ UNCHANGED <<conn, grace, life, graceful, leases, stale, scripts, news,
                   shown, raced, turns, faults, overtaken>>

-----------------------------------------------------------------------------
\* Redis runs the first command of a pipe. A digest it does not know is
\* refused before anything runs, and its body follows what was sent until the
\* refusal is here: in the meantime another command may have brought the body.
Known(c)   == c.body \/ c.op \in scripts
Unknown(c) == ~c.body /\ (c.cold \/ c.op \notin scripts)

Refuse(i) ==
    /\ pipe[i] # <<>> /\ Unknown(Head(pipe[i]))
    /\ pipe' = [pipe EXCEPT ![i] = Append(Tail(@), [Head(@) EXCEPT !.body = TRUE])]
    /\ overtaken' = IF \E n \in 2..Len(pipe[i]) : pipe[i][n].op # Head(pipe[i]).op
                    THEN overtaken \cup {i} ELSE overtaken
    /\ UNCHANGED <<conn, grace, life, graceful, leases, stale, scripts, news,
                   shown, raced, turns, faults>>

\* A command of another user brings a body.
OthersLoad ==
    /\ \E op \in {"hold", "release"} \ scripts : scripts' = scripts \cup {op}
    /\ UNCHANGED <<conn, grace, life, graceful, leases, stale, pipe, news,
                   shown, raced, turns, faults, overtaken>>

\* What a hold's answer is worth, and a release's.
First(c) == c.op = "hold" /\ c.why = "arrival" /\ leases = {}

\* Mutant: an instance that stops hands its leases back and tells nobody.
LastByDeparture(i, c) == c.op = "release" /\ leases \ {i} = {} /\ c.why = "left"

LastToLeave(i, c) == c.op = "release" /\ leases \ {i} = {}

Run(i) ==
    LET c == Head(pipe[i]) IN
    /\ pipe[i] # <<>> /\ Known(c)
    /\ pipe' = [pipe EXCEPT ![i] = Tail(@)]
    /\ scripts' = scripts \cup {c.op}
    /\ leases' = IF c.op = "hold" THEN leases \cup {i} ELSE leases \ {i}
    /\ stale' = stale \ {i}
    /\ IF First(c) THEN Tell(i, "online")
       ELSE IF LastToLeave(i, c) THEN Tell(i, "offline")
       ELSE Untold
    /\ UNCHANGED <<conn, grace, life, graceful, shown, turns, faults,
                   overtaken>>

\* A command fails, before or after Redis ran it. An arrival is then judged
\* by what the instance knows; a departure is taken for one everywhere; a
\* stopping instance says nothing.
FailCommand(i) ==
    LET c == Head(pipe[i]) IN
    /\ pipe[i] # <<>> /\ faults < MaxFaults
    /\ faults' = faults + 1
    /\ pipe' = [pipe EXCEPT ![i] = Tail(@)]
    /\ \/ UNCHANGED leases
       \/ leases' = IF c.op = "hold" THEN leases \cup {i} ELSE leases \ {i}
    /\ stale' = stale \cup {i}
    /\ IF c.why = "arrival" /\ c.fresh THEN Tell(i, "online")
       ELSE IF c.why = "left" THEN Tell(i, "offline")
       ELSE Untold
    /\ UNCHANGED <<conn, grace, life, graceful, scripts, shown, turns,
                   overtaken>>

\* The friends are known and the frame goes out.
Broadcast(i, s) ==
    /\ news[i][s] > 0
    /\ news' = [news EXCEPT ![i][s] = @ - 1]
    /\ shown' = s
    /\ UNCHANGED <<conn, grace, life, graceful, leases, stale, scripts, pipe,
                   raced, turns, faults, overtaken>>

\* HPEXPIRE: a lease nobody refreshes ends. A live instance that holds the
\* user refreshes it several times in its lifetime.
Expire(i) ==
    /\ i \in leases
    /\ life[i] = "gone" \/ i \in stale \/ ~Held(i)
    /\ pipe[i] = <<>>
    /\ leases' = leases \ {i}
    /\ UNCHANGED <<conn, grace, life, graceful, stale, scripts, pipe, news,
                   shown, raced, turns, faults, overtaken>>

\* SCRIPT FLUSH, or a replica promoted: the script cache is empty.
Flush ==
    /\ faults < MaxFaults /\ scripts # {}
    /\ scripts' = {} /\ faults' = faults + 1
    /\ pipe' = [i \in Instance |->
                 [n \in 1..Len(pipe[i]) |-> [pipe[i][n] EXCEPT !.cold = TRUE]]]
    /\ UNCHANGED <<conn, grace, life, graceful, leases, stale, news, shown,
                   raced, turns, overtaken>>

-----------------------------------------------------------------------------
\* SIGTERM: the sockets have been disconnected; stop() ends the timers and
\* hands back every lease still held, to be announced by its own rule.
Stop(i) ==
    /\ life[i] = "up" /\ conn[i] = {}
    /\ life' = [life EXCEPT ![i] = "stopping"]
    /\ grace' = grace \ {i}
    /\ IF i \in grace THEN Send(i, Command("release", "stop", FALSE))
       ELSE UNCHANGED pipe
    /\ UNCHANGED <<conn, graceful, leases, stale, scripts, news, shown, raced,
                   turns, faults, overtaken>>

\* stop() waits for the releases under way and their announcements.
Exit(i) ==
    /\ life[i] = "stopping" /\ pipe[i] = <<>> /\ news[i] = Quiet
    /\ life' = [life EXCEPT ![i] = "gone"]
    /\ UNCHANGED <<conn, grace, graceful, leases, stale, scripts, pipe, news,
                   shown, raced, turns, faults, overtaken>>

\* The process dies, or the deadline of stop() wins.
Crash(i) ==
    /\ life[i] # "gone" /\ faults < MaxFaults
    /\ faults' = faults + 1
    /\ life' = [life EXCEPT ![i] = "gone"]
    /\ conn' = [conn EXCEPT ![i] = {}]
    /\ grace' = grace \ {i}
    /\ pipe' = [pipe EXCEPT ![i] = <<>>]
    /\ news' = [news EXCEPT ![i] = Quiet]
    /\ UNCHANGED <<graceful, leases, stale, scripts, shown, raced, turns,
                   overtaken>>

PresenceNext ==
    \/ \E i \in Instance :
         \/ \E s \in Socket : TrackConnection(i, s) \/ TrackDisconnection(i, s)
         \/ GraceEnds(i) \/ Heartbeat(i) \/ Refuse(i) \/ Run(i)
         \/ FailCommand(i) \/ Expire(i) \/ Stop(i) \/ Exit(i) \/ Crash(i)
         \/ \E s \in Status : Broadcast(i, s)
    \/ OthersLoad \/ Flush

\* Timers fire, Redis answers, and a lease that is not refreshed expires.
PresenceFairness ==
    \A i \in Instance :
        /\ WF_avars(Heartbeat(i)) /\ WF_avars(Refuse(i)) /\ WF_avars(Run(i))
        /\ WF_avars(GraceEnds(i)) /\ WF_avars(Expire(i))

PresenceSpec == PresenceInit /\ [][PresenceNext]_avars /\ PresenceFairness

-----------------------------------------------------------------------------
\* Every variable has its type.
PresenceTypeOK ==
    /\ conn \in [Instance -> SUBSET Socket] /\ grace \subseteq Instance
    /\ life \in [Instance -> {"up", "stopping", "gone"}]
    /\ graceful \in BOOLEAN /\ raced \in BOOLEAN /\ overtaken \subseteq Instance
    /\ leases \subseteq Instance /\ stale \subseteq Instance
    /\ scripts \subseteq {"hold", "release"}
    /\ \A i \in Instance : \A n \in 1..Len(pipe[i]) :
         pipe[i][n] \in [op : {"hold", "release"}, fresh : BOOLEAN,
                         cold : BOOLEAN, body : BOOLEAN,
                         why : {"arrival", "beat", "left", "stop"}]
    /\ \A i \in Instance, s \in Status : news[i][s] \in 0..(2 * MaxTurns)
    /\ shown \in Status
    /\ turns \in 0..MaxTurns /\ faults \in 0..MaxFaults

\* Where Redis never failed, an instance that still counts the user as here,
\* by a socket or by the grace period, has the lease once its commands are
\* answered: a departure and an arrival that overlap leave no gap in it, unless
\* a script new to the server had to be sent again behind a command of the
\* other kind.
LeaseWhileHeld ==
    faults = 0 => \A i \in Instance \ overtaken :
        life[i] = "up" /\ Held(i) /\ pipe[i] = <<>> => i \in leases

\* Where Redis never failed, no instance crashed, no script overtook another and
\* no two announcements were under way at once: when nothing is under way,
\* friends have been told what the leases say, over hand-overs between
\* instances, reconnections in the grace period and instances that stop.
FriendsToldTruth ==
    faults = 0 /\ overtaken = {} /\ ~raced
      /\ (\A i \in Instance : pipe[i] = <<>> /\ news[i] = Quiet) =>
        (shown = "online" <=> leases # {})

\* Whatever failed, crashed or was forgotten: in the end the leases are those
\* of the instances that hold the user, by the heartbeat and the expiry.
LeasesConverge ==
    <>[](\A i \in Instance :
           i \in leases <=> life[i] = "up" /\ Held(i))

\* The leases, and with them what friends were told, follow the sockets: at
\* every moment where nothing failed, and in the end whatever did.
PresenceIsTrue ==
    /\ [](LeaseWhileHeld /\ FriendsToldTruth)
    /\ LeasesConverge
=============================================================================
