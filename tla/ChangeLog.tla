------------------------------ MODULE ChangeLog ------------------------------
(***************************************************************************)
(* What the durable change log of near-chat promises to whoever reads it:  *)
(* the table message_changes as GET /sync and the event publisher see it.  *)
(*                                                                         *)
(*   - changes are appended one at a time, in change-sequence order, with  *)
(*     no gap: nothing is ever committed at or below the newest sequence;  *)
(*   - one command (actor, Idempotency-Key) produces at most one change;   *)
(*   - the changes of one message are its creation, then edits, then at    *)
(*     most one recall, with revisions 1, 2, 3, ...;                       *)
(*   - the only thing that takes changes away is the deletion of a room,   *)
(*     which takes all the changes of that room and frees nothing else.    *)
(*                                                                         *)
(* MessageLog implements this specification with row locks and             *)
(* transactions; SyncClient is written against it.                         *)
(***************************************************************************)
EXTENDS Integers

CONSTANTS
    User,       \* accounts
    Room,       \* chat rooms
    MessageId,  \* message identifiers (UUIDs, never reused)
    Command     \* Idempotency-Keys

VARIABLES
    head,       \* realtime_counters.change_sequence
    log         \* the rows of message_changes

logVars == <<head, log>>

Kind == {"created", "edited", "recalled"}

Change == [sequence : Nat \ {0}, message : MessageId, room : Room,
           revision : Nat \ {0}, kind : Kind, actor : User, command : Command]

LogTypeOK ==
    /\ head \in Nat
    /\ log \subseteq Change

Of(m) == {c \in log : c.message = m}

-----------------------------------------------------------------------------

LogInit ==
    /\ head = 0
    /\ log = {}

\* c continues the history of its message: it is the first change of a new
\* message, or it follows the latest change, which is not a recall.
Continues(c) ==
    \/ /\ c.kind = "created"
       /\ c.revision = 1
       /\ Of(c.message) = {}
    \/ /\ c.kind # "created"
       /\ \E d \in Of(c.message) :
             /\ d.kind # "recalled"
             /\ d.room = c.room
             /\ d.revision + 1 = c.revision
             /\ \A e \in Of(c.message) : e.revision <= d.revision

Unspent(u, k) == \A c \in log : c.actor # u \/ c.command # k

AppendChange(c) ==
    /\ c.sequence = head + 1
    /\ Unspent(c.actor, c.command)
    /\ Continues(c)
    /\ head' = c.sequence
    /\ log' = log \cup {c}

\* Deleting a room cascades to its messages and their changes.
ForgetRoom(r) ==
    /\ log' = {c \in log : c.room # r}
    /\ UNCHANGED head

LogNext ==
    \/ \E m \in MessageId, r \in Room, v \in 1..(head + 1), kind \in Kind,
          u \in User, k \in Command :
          AppendChange([sequence |-> head + 1, message |-> m, room |-> r,
                        revision |-> v, kind |-> kind, actor |-> u,
                        command |-> k])
    \/ \E r \in Room : ForgetRoom(r)

LogSpec == LogInit /\ [][LogNext]_logVars
=============================================================================
