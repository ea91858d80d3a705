----------------------------- MODULE MessageLog ------------------------------
(***************************************************************************)
(* The write side of messaging: MessageRepository.create, update and       *)
(* markRecalled with the service code around them, as PostgreSQL           *)
(* transactions run by concurrent request handlers, together with the      *)
(* membership rows those transactions read and lock.                       *)
(*                                                                         *)
(* A handler is a worker. Its transaction takes locks in the order of the  *)
(* code, reads under them, allocates its sequences in the one statement    *)
(* that locks the realtime_counters row, and commits; only then does it    *)
(* publish its event and, for a send, move the sender's read position.     *)
(*                                                                         *)
(*   send          idle -> admitted -> cleared -> written -> committed     *)
(*                 -> announced -> idle                                    *)
(*   edit, recall  idle -> rowed -> cleared -> written -> committed -> idle*)
(*                                                                         *)
(* A replayed command goes straight to committed. Any handler may die at   *)
(* any point (Crash): before the commit that is also the rollback of a     *)
(* failed statement or of a deadlock victim, after it the event and the    *)
(* response are lost while the change stands.                              *)
(***************************************************************************)
EXTENDS Integers, Sequences

CONSTANTS
    User, Room, MessageId, Command,
    ReadCommand,    \* Idempotency-Keys of read-position commands, which have
                    \* receipts of their own
    Worker,         \* concurrent request handlers, over all instances
    None,           \* the absent value of an optional column
    ViewHistory,    \* [Room -> BOOLEAN], chat_rooms.view_history
    InitialRole,    \* [Room -> [User -> roles or "none"]]
    MaxChange,      \* bound on change sequences
    MaxAdmin        \* bound on membership and room operations

ASSUME ConstantsAssumption ==
    /\ None \notin Room /\ None \notin User /\ None \notin MessageId
    /\ None \notin Command
    /\ ViewHistory \in [Room -> BOOLEAN]
    /\ MaxChange \in Nat
    /\ MaxAdmin \in Nat
    /\ InitialRole \in
         [Room -> [User -> {"owner", "admin", "member", "pending", "none"}]]

VARIABLES
    counter,    \* realtime_counters: message and change sequence
    messages,   \* the messages table; sequence 0 is a row not inserted yet
    changes,    \* message_changes
    receipts,   \* message_command_receipts (recalls that changed nothing)
    reads,      \* read_position_commands
    members,    \* room_members; role "none" is the absent row
    status,     \* chat_rooms: open, archived (or read-only), deleted
    txn,        \* the transaction of each worker
    events,     \* change sequences handed to the publisher, in order
    admin       \* membership and room operations so far (a bound)

vars == <<counter, messages, changes, receipts, reads, members, status, txn,
          events, admin>>

-----------------------------------------------------------------------------
Role   == {"owner", "admin", "member", "pending", "none"}
Active == {"owner", "admin", "member"}
Kind   == {"created", "edited", "recalled"}
Op     == {"send", "edit", "recall"}
Phase  == {"idle", "admitted", "rowed", "cleared", "written", "committed",
           "announced"}

Message == [room : Room \cup {None}, sender : User \cup {None},
            sequence : Nat, change : Nat, revision : Nat, recalled : BOOLEAN]
Change  == [sequence : Nat \ {0}, message : MessageId, room : Room,
            revision : Nat \ {0}, kind : Kind, actor : User, command : Command]
Receipt == [actor : User, command : Command, message : MessageId,
            change : Nat \ {0}]
Read    == [user : User, command : ReadCommand, room : Room, message : MessageId]
Member  == [role : Role, muted : BOOLEAN, boundary : Nat, position : Nat]
Txn     == [phase : Phase, op : Op \cup {None}, user : User \cup {None},
            room : Room \cup {None}, command : Command \cup {None},
            message : MessageId \cup {None}, expected : Nat, revision : Nat,
            recalled : BOOLEAN, change : Nat, replayed : BOOLEAN]

Blank  == [room |-> None, sender |-> None, sequence |-> 0, change |-> 0,
           revision |-> 0, recalled |-> FALSE]
NoRow  == [role |-> "none", muted |-> FALSE, boundary |-> 0, position |-> 0]
Idle   == [phase |-> "idle", op |-> None, user |-> None, room |-> None,
           command |-> None, message |-> None, expected |-> 0, revision |-> 0,
           recalled |-> FALSE, change |-> 0, replayed |-> FALSE]

\* The kind of change each operation records.
KindOf(op) == CASE op = "send"   -> "created"
                [] op = "edit"   -> "edited"
                [] op = "recall" -> "recalled"

Of(m) == {c \in changes : c.message = m}

\* A message that can still be read: inserted, and its room not deleted.
Stored(m) == messages[m].room # None /\ status[messages[m].room] # "deleted"

-----------------------------------------------------------------------------
(* Locks. They are read off the phases of the transactions: every lock a   *)
(* transaction takes is kept until it ends.                                *)

InTransaction == {"admitted", "rowed", "cleared", "written"}
InRoom        == {"admitted", "cleared", "written"}

Others(w) == Worker \ {w}

\* pg_advisory_xact_lock on sender:command
HoldsKey(w, u, k) ==
    /\ txn[w].phase \in InTransaction \ {"admitted"}
    /\ txn[w].user = u
    /\ txn[w].command = k

\* SELECT ... FROM messages ... FOR NO KEY UPDATE
HoldsMessage(w, m) ==
    /\ txn[w].phase \in {"rowed", "cleared", "written"}
    /\ txn[w].op # "send"
    /\ txn[w].message = m

\* The chat_rooms row, which every admitted writer of the room locks.
HoldsRoom(w, r) == txn[w].phase \in InRoom /\ txn[w].room = r

\* The writer's own room_members row, and the sender's when an admin recalls
\* somebody else's message. Two writers never meet on these: the room row keeps
\* them apart.
HoldsMember(w, r, u) ==
    /\ HoldsRoom(w, r)
    /\ \/ txn[w].user = u
       \/ /\ txn[w].op = "recall"
          /\ members[r][txn[w].user].role = "admin"
          /\ messages[txn[w].message].sender = u

\* MUTANT of KeyFree: no advisory lock on the key.
KeyNeverLocked(w, u, k) == TRUE

\* MUTANT of MessageFree: the row is read without FOR NO KEY UPDATE.
MessageNeverLocked(w, m) == TRUE

\* MUTANT of MemberFree: membership rows are read without FOR NO KEY UPDATE.
MemberNeverLocked(r, u) == TRUE

KeyFree(w, u, k)   == \A v \in Others(w) : ~HoldsKey(v, u, k)
MessageFree(w, m)  == \A v \in Others(w) : ~HoldsMessage(v, m)
RoomFree(w, r)     == \A v \in Others(w) : ~HoldsRoom(v, r)
MemberFree(r, u)   == \A v \in Worker : ~HoldsMember(v, r, u)

\* The realtime_counters row: locked by the statement that allocates from it.
CounterFree == \A v \in Worker : txn[v].phase # "written"

-----------------------------------------------------------------------------
(* Authorization, as the locked rows give it.                              *)

CanSend(u, r) ==
    /\ members[r][u].role \in Active
    /\ status[r] = "open"
    /\ ~members[r][u].muted

CanEdit(u, m) ==
    /\ CanSend(u, messages[m].room)
    /\ messages[m].sender = u

\* Muted members may recall. An admin may not recall what an owner or another
\* admin sent; a sender who has left the room has no role to protect.
MayRecall(u, m) ==
    LET r    == messages[m].room
        mine == messages[m].sender = u
    IN  /\ members[r][u].role \in Active
        /\ mine \/ members[r][u].role \in {"owner", "admin"}
        /\ members[r][u].role = "admin" /\ ~mine =>
              members[r][messages[m].sender].role \notin {"owner", "admin"}

CanRecall(u, m) == MayRecall(u, m) /\ status[messages[m].room] = "open"

Allowed(op, u, m) == IF op = "edit" THEN CanEdit(u, m) ELSE CanRecall(u, m)

\* What the receipts say of a key: the committed changes it produced and the
\* recalls that found nothing to do.
PriorChanges(u, k)  == {c \in changes : c.actor = u /\ c.command = k}
PriorReceipts(u, k) == {q \in receipts : q.actor = u /\ q.command = k}

\* MUTANT of Unused: the lookup leaves out message_changes.
UnusedByRecall(u, k) == PriorReceipts(u, k) = {}

Unused(u, k) == PriorChanges(u, k) = {} /\ PriorReceipts(u, k) = {}

-----------------------------------------------------------------------------
Init ==
    /\ counter = [message |-> 0, change |-> 0]
    /\ messages = [m \in MessageId |-> Blank]
    /\ changes = {}
    /\ receipts = {}
    /\ reads = {}
    /\ members = [r \in Room |-> [u \in User |->
                    [NoRow EXCEPT !.role = InitialRole[r][u]]]]
    /\ status = [r \in Room |-> "open"]
    /\ txn = [w \in Worker |-> Idle]
    /\ events = <<>>
    /\ admin = 0

End(w) == txn' = [txn EXCEPT ![w] = Idle]

Move(w, phase) == txn' = [txn EXCEPT ![w].phase = phase]

\* MUTANT of Replay: answers with the message as it is now.
ReplayCurrent(w, m, change) ==
    txn' = [txn EXCEPT ![w].phase = "committed", ![w].message = m,
                       ![w].change = messages[m].change, ![w].replayed = TRUE]

\* A handler that found an earlier receipt answers with it and changes nothing.
Replay(w, m, change) ==
    txn' = [txn EXCEPT ![w].phase = "committed", ![w].message = m,
                       ![w].change = change, ![w].replayed = TRUE]

tables == <<counter, messages, changes, receipts, reads, members, status>>

\* create: lock the sender's membership and the room, and authorize.
BeginSend(w, u, r, k) ==
    /\ txn[w].phase = "idle"
    /\ RoomFree(w, r)
    /\ CanSend(u, r)
    /\ txn' = [txn EXCEPT ![w] =
                 [Idle EXCEPT !.phase = "admitted", !.op = "send", !.user = u,
                              !.room = r, !.command = k]]
    /\ UNCHANGED <<tables, events, admin>>

\* create: lock the key, then look for an earlier receipt of it.
ClearSend(w) ==
    LET u == txn[w].user
        k == txn[w].command
    IN  /\ txn[w].phase = "admitted"
        /\ KeyFree(w, u, k)
        /\ \/ Unused(u, k) /\ Move(w, "cleared")
           \/ \E c \in PriorChanges(u, k) :
                 /\ c.kind = "created"
                 /\ Replay(w, c.message, c.sequence)
           \/ /\ \/ \E c \in PriorChanges(u, k) : c.kind # "created"
                 \/ PriorReceipts(u, k) # {}
              /\ End(w)
        /\ UNCHANGED <<tables, events, admin>>

\* update, markRecalled: past the service's own checks, which lock nothing and
\* are made again under the locks, lock the key, then the message row, and read
\* it. The revision expected comes from If-Match: one the message has had.
BeginChange(w, op, u, m, k, expected) ==
    /\ txn[w].phase = "idle"
    /\ Stored(m)
    /\ IF op = "edit" THEN CanEdit(u, m) ELSE MayRecall(u, m)
    /\ expected \in 1..messages[m].revision
    /\ KeyFree(w, u, k)
    /\ MessageFree(w, m)
    /\ txn' = [txn EXCEPT ![w] =
                 [Idle EXCEPT !.phase = "rowed", !.op = op, !.user = u,
                              !.room = messages[m].room, !.command = k,
                              !.message = m, !.expected = expected,
                              !.revision = messages[m].revision,
                              !.recalled = messages[m].recalled]]
    /\ UNCHANGED <<tables, events, admin>>

\* update, markRecalled: lock the room and the memberships, then authorize,
\* then look for a receipt, then compare revisions.
Recorded(w) ==
    \/ \E c \in PriorChanges(txn[w].user, txn[w].command) :
          /\ c.message = txn[w].message
          /\ c.kind = KindOf(txn[w].op)
          /\ Replay(w, c.message, c.sequence)
          /\ UNCHANGED receipts
    \/ \E q \in PriorReceipts(txn[w].user, txn[w].command) :
          /\ txn[w].op = "recall"
          /\ q.message = txn[w].message
          /\ Replay(w, q.message, q.change)
          /\ UNCHANGED receipts

Mismatched(w) ==
    \/ \E c \in PriorChanges(txn[w].user, txn[w].command) :
          c.message # txn[w].message \/ c.kind # KindOf(txn[w].op)
    \/ \E q \in PriorReceipts(txn[w].user, txn[w].command) :
          q.message # txn[w].message \/ txn[w].op # "recall"

\* A recall of a recalled message records its key and the change it found.
RecordNoop(w) ==
    \E c \in Of(txn[w].message) :
        /\ c.kind = "recalled"
        /\ receipts' = receipts \cup
             {[actor |-> txn[w].user, command |-> txn[w].command,
               message |-> txn[w].message, change |-> c.sequence]}
        /\ Replay(w, txn[w].message, c.sequence)

\* MUTANT of Stale: If-Match is parsed and never compared.
NeverStale(t) == FALSE

Stale(t) == t.expected # t.revision

ClearChange(w) ==
    LET t     == txn[w]
        fresh == Unused(t.user, t.command)
        stale == Stale(t)
    IN  /\ t.phase = "rowed"
        /\ RoomFree(w, t.room)
        /\ \/ /\ ~Allowed(t.op, t.user, t.message)
              /\ End(w)
              /\ UNCHANGED receipts
           \/ /\ Allowed(t.op, t.user, t.message)
              /\ \/ Recorded(w)
                 \/ /\ Mismatched(w) \/ (fresh /\ stale)
                    /\ End(w)
                    /\ UNCHANGED receipts
                 \/ /\ fresh /\ ~stale /\ ~t.recalled
                    /\ Move(w, "cleared")
                    /\ UNCHANGED receipts
                 \/ /\ fresh /\ ~stale /\ t.recalled /\ t.op = "edit"
                    /\ End(w)
                    /\ UNCHANGED receipts
                 \/ /\ fresh /\ ~stale /\ t.recalled /\ t.op = "recall"
                    /\ RecordNoop(w)
        /\ UNCHANGED <<counter, messages, changes, reads, members, status,
                       events, admin>>

\* What the locked counter hands out.
Allocated == counter.change + 1

\* The statement that locks the counter, allocates and writes. Nobody else
\* sees what it wrote until the commit.
Write(w) ==
    /\ txn[w].phase = "cleared"
    /\ CounterFree
    /\ counter.change < MaxChange
    /\ \E m \in MessageId :
          /\ IF txn[w].op = "send" THEN messages[m] = Blank
                                   ELSE m = txn[w].message
          /\ txn' = [txn EXCEPT ![w].phase = "written", ![w].message = m,
                                ![w].change = Allocated]
    /\ UNCHANGED <<tables, events, admin>>

\* The row the statement inserts or updates.
Inserted(t) ==
    [room |-> t.room, sender |-> t.user, sequence |-> counter.message + 1,
     change |-> t.change, revision |-> 1, recalled |-> FALSE]

\* MUTANT of Updated: the revision is not advanced.
UpdatedSameRevision(t) ==
    [messages[t.message] EXCEPT !.change = t.change,
                                !.recalled = @ \/ t.op = "recall"]

Updated(t) ==
    [messages[t.message] EXCEPT !.change = t.change, !.revision = @ + 1,
                                !.recalled = @ \/ t.op = "recall"]

\* COMMIT: the row, the change and the counter become visible together.
Commit(w) ==
    LET t   == txn[w]
        new == IF t.op = "send" THEN Inserted(t) ELSE Updated(t)
    IN  /\ t.phase = "written"
        /\ messages' = [messages EXCEPT ![t.message] = new]
        /\ changes' = changes \cup
             {[sequence |-> t.change, message |-> t.message, room |-> t.room,
               revision |-> new.revision, kind |-> KindOf(t.op),
               actor |-> t.user, command |-> t.command]}
        /\ counter' = [message |-> IF t.op = "send" THEN counter.message + 1
                                   ELSE counter.message,
                       change  |-> t.change]
        /\ Move(w, "committed")
        /\ UNCHANGED <<receipts, reads, members, status, events, admin>>

\* MUTANT of Published: a replay is published again.
PublishedAgain(t) == Append(events, t.change)

Published(t) == IF t.replayed THEN events ELSE Append(events, t.change)

\* After the commit: read the snapshot back, publish unless replayed. With the
\* room deleted meanwhile the snapshot is gone and the handler fails.
Announce(w) ==
    LET t == txn[w]
    IN  /\ t.phase = "committed"
        /\ \/ ~Stored(t.message) /\ End(w) /\ UNCHANGED events
           \/ /\ Stored(t.message)
              /\ IF t.op = "send" THEN Move(w, "announced") ELSE End(w)
              /\ events' = Published(t)
        /\ UNCHANGED <<tables, admin>>

-----------------------------------------------------------------------------
(* Read positions.                                                         *)

\* markRead locks the membership and the room.
NoWriterIn(r) == \A v \in Worker : ~HoldsRoom(v, r)

ForwardTo(r, u, m) ==
    members' = [members EXCEPT ![r][u].position =
                  IF messages[m].sequence > @ THEN messages[m].sequence ELSE @]

\* sendMessage moves the sender's read position to the new message. Its failure
\* (the member has left, or a replay answered with a message of another room)
\* is logged and swallowed.
AdvanceOwnRead(w) ==
    LET t == txn[w]
        r == t.room
    IN  /\ t.phase = "announced"
        /\ NoWriterIn(r)
        /\ IF /\ Stored(t.message) /\ messages[t.message].room = r
              /\ members[r][t.user].role \in Active
           THEN ForwardTo(r, t.user, t.message)
           ELSE UNCHANGED members
        /\ End(w)
        /\ UNCHANGED <<counter, messages, changes, receipts, reads, status,
                       events, admin>>

\* PUT /rooms/:roomId/read-position. A key already spent replays or conflicts,
\* and changes nothing either way.
MarkRead(u, m, k) ==
    LET r == messages[m].room
    IN  /\ Stored(m)
        /\ members[r][u].role \in Active
        /\ ViewHistory[r] \/ messages[m].sequence > members[r][u].boundary
        /\ NoWriterIn(r)
        /\ \A q \in reads : q.user # u \/ q.command # k
        /\ reads' = reads \cup
             {[user |-> u, command |-> k, room |-> r, message |-> m]}
        /\ ForwardTo(r, u, m)
        /\ UNCHANGED <<counter, messages, changes, receipts, status, txn,
                       events, admin>>

-----------------------------------------------------------------------------
(* The membership and room operations a writer can meet. Who may call them *)
(* is the room service's business; here they are any legal row change.     *)

AdminStep ==
    /\ admin < MaxAdmin
    /\ admin' = admin + 1
    /\ UNCHANGED <<counter, messages, txn, events>>

\* add: the Join Boundary is the counter, read under its lock.
Join(r, u, role) ==
    /\ AdminStep
    /\ status[r] # "deleted"
    /\ members[r][u].role = "none"
    /\ CounterFree
    /\ members' = [members EXCEPT ![r][u] =
                     [NoRow EXCEPT !.role = role, !.boundary = counter.message]]
    /\ UNCHANGED <<changes, receipts, reads, status>>

\* MUTANT of BoundaryAfter: approval keeps the boundary of the request.
BoundaryOfRequest(member) == member.boundary

\* The boundary a role change leaves.
BoundaryAfter(member) ==
    IF member.role = "pending" THEN counter.message ELSE member.boundary

\* update with a role: leaving "pending" takes a new Join Boundary.
SetRole(r, u, role) ==
    /\ AdminStep
    /\ members[r][u].role \notin {"none", role}
    /\ MemberFree(r, u)
    /\ members[r][u].role = "pending" => CounterFree
    /\ members' = [members EXCEPT ![r][u].role = role,
                     ![r][u].boundary = BoundaryAfter(members[r][u])]
    /\ UNCHANGED <<changes, receipts, reads, status>>

SetMuted(r, u) ==
    /\ AdminStep
    /\ members[r][u].role # "none"
    /\ MemberFree(r, u)
    /\ members' = [members EXCEPT ![r][u].muted = ~@]
    /\ UNCHANGED <<changes, receipts, reads, status>>

Remove(r, u) ==
    /\ AdminStep
    /\ members[r][u].role # "none"
    /\ MemberFree(r, u)
    /\ members' = [members EXCEPT ![r][u] = NoRow]
    /\ UNCHANGED <<changes, receipts, reads, status>>

SetArchived(r) ==
    /\ AdminStep
    /\ status[r] # "deleted"
    /\ NoWriterIn(r)
    /\ status' = [status EXCEPT ![r] =
                    IF @ = "open" THEN "archived" ELSE "open"]
    /\ UNCHANGED <<changes, receipts, reads, members>>

\* delete: messages, changes, receipts and memberships cascade.
DeleteRoom(r) ==
    /\ AdminStep
    /\ status[r] # "deleted"
    /\ \A v \in Worker : txn[v].phase \in InTransaction => txn[v].room # r
    /\ status' = [status EXCEPT ![r] = "deleted"]
    /\ changes' = {c \in changes : c.room # r}
    /\ receipts' = {q \in receipts : messages[q.message].room # r}
    /\ reads' = {q \in reads : q.room # r}
    /\ members' = [members EXCEPT ![r] = [u \in User |-> NoRow]]

\* The handler or its instance dies, or PostgreSQL aborts the transaction.
Crash(w) ==
    /\ txn[w].phase # "idle"
    /\ End(w)
    /\ UNCHANGED <<tables, events, admin>>

-----------------------------------------------------------------------------
WorkerStep(w) ==
    \/ \E u \in User, r \in Room, k \in Command : BeginSend(w, u, r, k)
    \/ ClearSend(w)
    \/ \E op \in {"edit", "recall"}, u \in User, m \in MessageId,
          k \in Command : \E e \in 1..messages[m].revision :
             BeginChange(w, op, u, m, k, e)
    \/ ClearChange(w)
    \/ Write(w)
    \/ Commit(w)
    \/ Announce(w)
    \/ AdvanceOwnRead(w)
    \/ Crash(w)

RoomStep ==
    \E r \in Room :
        \/ \E u \in User :
              \/ \E role \in {"member", "pending"} : Join(r, u, role)
              \/ \E role \in Active : SetRole(r, u, role)
              \/ SetMuted(r, u)
              \/ Remove(r, u)
        \/ SetArchived(r)
        \/ DeleteRoom(r)

Next ==
    \/ \E w \in Worker : WorkerStep(w)
    \/ \E u \in User, m \in MessageId, k \in ReadCommand : MarkRead(u, m, k)
    \/ RoomStep

Spec == Init /\ [][Next]_vars

-----------------------------------------------------------------------------
(* Properties.                                                             *)

TypeOK ==
    /\ counter \in [message : Nat, change : Nat]
    /\ messages \in [MessageId -> Message]
    /\ changes \subseteq Change
    /\ receipts \subseteq Receipt
    /\ reads \subseteq Read
    /\ members \in [Room -> [User -> Member]]
    /\ status \in [Room -> {"open", "archived", "deleted"}]
    /\ txn \in [Worker -> Txn]
    /\ events \in Seq(Nat)
    /\ admin \in Nat

\* One Idempotency-Key of one user has at most one durable effect over create,
\* edit and recall together: one change, or one receipt of a recall that found
\* nothing to do, never two of either and never both.
CommandAtMostOnce ==
    /\ \A c, d \in changes :
          c.actor = d.actor /\ c.command = d.command => c = d
    /\ \A q, p \in receipts :
          q.actor = p.actor /\ q.command = p.command => q = p
    /\ \A c \in changes, q \in receipts :
          c.actor # q.actor \/ c.command # q.command

\* The row of a message and its history in the change log agree: the row names
\* the latest change and its revision, revisions grow with change sequences,
\* only the first change is a creation and only the last can be a recall.
RowMatchesHistory ==
    \A m \in MessageId : Stored(m) =>
        /\ \E c \in Of(m) :
              /\ c.sequence = messages[m].change
              /\ c.revision = messages[m].revision
              /\ c.kind = "recalled" <=> messages[m].recalled
        /\ \A c \in Of(m) :
              /\ c.room = messages[m].room
              /\ c.sequence <= messages[m].change
              /\ c.revision <= messages[m].revision
              /\ c.kind = "created" <=> c.revision = 1
              /\ c.kind = "recalled" => c.revision = messages[m].revision
        /\ \A c, d \in Of(m) :
              c.sequence < d.sequence <=> c.revision < d.revision

\* A handler past its commit answers with the change its key stands for: the
\* one it made, the one an earlier attempt made, or the recall its receipt names.
AnswersWithOwnChange ==
    \A w \in Worker :
        txn[w].phase \in {"committed", "announced"} /\ Stored(txn[w].message) =>
            \E c \in Of(txn[w].message) :
                /\ c.sequence = txn[w].change
                /\ c.kind = KindOf(txn[w].op)
                /\ \/ c.actor = txn[w].user /\ c.command = txn[w].command
                   \/ [actor |-> txn[w].user, command |-> txn[w].command,
                       message |-> c.message, change |-> c.sequence] \in receipts

\* No change is published twice, whatever is retried, and nothing is published
\* that has not committed.
AnnouncedAtMostOnce ==
    /\ \A i, j \in DOMAIN events : events[i] = events[j] => i = j
    /\ \A i \in DOMAIN events : events[i] <= counter.change

\* What the caller and the room hear of a command is the one change it made:
\* the answer names it, and the event goes out once.
HeardAsMade == AnswersWithOwnChange /\ AnnouncedAtMostOnce

\* A change becomes visible above every change committed before it, with no
\* sequence skipped: a reader that has advanced its cursor never has a change
\* appear behind it, and a rollback leaves no gap.
CommitsInOrder ==
    [][\A c \in changes' \ changes : c.sequence = counter.change + 1]_vars

\* What a committed change was allowed by still holds when it commits: the
\* actor's role, mute, the sender's role and the room's state have not moved
\* between the check and the commit.
AuthorizedAtCommit ==
    [][\A c \in changes' \ changes :
          CASE c.kind = "created"  -> CanSend(c.actor, c.room)
            [] c.kind = "edited"   -> CanEdit(c.actor, c.message)
            [] c.kind = "recalled" -> CanRecall(c.actor, c.message)]_vars

\* An edit or recall commits on the revision its If-Match named, so no edit is
\* overwritten by one written against an older revision.
NoLostUpdate ==
    [][\A w \in Worker :
          /\ txn[w].phase = "written" /\ txn'[w].phase = "committed"
          /\ txn[w].op # "send"
          => messages[txn[w].message].revision = txn[w].expected]_vars

\* A recalled message stays recalled and takes no further change.
RecallIsFinal ==
    [][\A m \in MessageId :
          messages[m].recalled => messages'[m] = messages[m]]_vars

\* No committed change is undone by a concurrent one: an edit is not written
\* over by one that has not seen it, and a recall by nothing.
HistoryIsKept == NoLostUpdate /\ RecallIsFinal

\* A read position only moves forward while its membership lasts.
ReadPositionForward ==
    [][\A r \in Room, u \in User :
          members[r][u].role # "none" /\ members'[r][u].role # "none" =>
              members'[r][u].position >= members[r][u].position]_vars

\* Becoming an active member draws the Join Boundary above every message the
\* room holds, and every message that commits later is above the boundary of
\* everybody who is in the room by then.
BoundarySplitsHistory ==
    [][\A r \in Room, u \in User, m \in MessageId :
          messages'[m].room = r =>
            /\ members[r][u].role \notin Active /\ members'[r][u].role \in Active
                  => messages'[m].sequence <= members'[r][u].boundary
            /\ messages[m].room = None /\ members[r][u].role # "none"
                  => messages'[m].sequence > members[r][u].boundary]_vars

\* Seen through its committed rows the write side is the ChangeLog.
Log == INSTANCE ChangeLog WITH head <- counter.change, log <- changes
ImplementsChangeLog == Log!LogSpec

=============================================================================
