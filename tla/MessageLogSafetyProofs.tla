------------------------ MODULE MessageLogSafetyProofs -----------------------
(***************************************************************************)
(* The inductive invariant behind the safety of MessageLog, and what       *)
(* follows from it: commands take effect once, changes commit in order,    *)
(* answers and events name the change that was made,                       *)
(* rows and history agree, and the write side implements ChangeLog.        *)
(***************************************************************************)
EXTENDS MessageLogProofs

\* A transaction past the lock on its key.
KeyPhase == {"rowed", "cleared", "written"}

InKey(w)    == txn[w].phase \in KeyPhase
Changing(w) == txn[w].phase \in KeyPhase /\ txn[w].op # "send"

-----------------------------------------------------------------------------
(* The counter and the log.                                                *)

OneWriter ==
    \A v, w \in Worker :
        txn[v].phase = "written" /\ txn[w].phase = "written" => v = w

NextSequence ==
    \A w \in Worker :
        txn[w].phase = "written" => txn[w].change = counter.change + 1

LogBounded == \A c \in changes : c.sequence <= counter.change

SequenceUnique == \A c, d \in changes : c.sequence = d.sequence => c = d

CounterInv == OneWriter /\ NextSequence /\ LogBounded /\ SequenceUnique

(* Keys.                                                                   *)

KeysApart ==
    \A v, w \in Worker :
        /\ InKey(v) /\ InKey(w)
        /\ txn[v].user = txn[w].user
        /\ txn[v].command = txn[w].command
        => v = w

KeyUnspent ==
    \A w \in Worker :
        txn[w].phase \in {"cleared", "written"} =>
            Unused(txn[w].user, txn[w].command)

KeyInv == KeysApart /\ KeyUnspent /\ CommandAtMostOnce

(* Rooms and what the writers were allowed.                                *)

RoomsApart ==
    \A v, w \in Worker :
        /\ txn[v].phase \in InRoom /\ txn[w].phase \in InRoom
        /\ txn[v].room = txn[w].room
        => v = w

AuthorizedTxn(t) ==
    t.phase \in InRoom =>
        IF t.op = "send" THEN CanSend(t.user, t.room)
                         ELSE Allowed(t.op, t.user, t.message)

Authorized == \A w \in Worker : AuthorizedTxn(txn[w])

(* Message rows.                                                           *)

RowsApart ==
    \A v, w \in Worker :
        Changing(v) /\ Changing(w) /\ txn[v].message = txn[w].message => v = w

\* What an edit or a recall read of its message still stands.
ReadStands(t) ==
    t.phase \in KeyPhase /\ t.op # "send" =>
        /\ Stored(t.message)
        /\ messages[t.message].room = t.room
        /\ messages[t.message].revision = t.revision
        /\ messages[t.message].recalled = t.recalled
        /\ t.phase # "rowed" => ~t.recalled /\ t.expected = t.revision

RowRead == \A w \in Worker : ReadStands(txn[w])

\* Every inserted message has a sender.
SendersKnown ==
    \A m \in MessageId : messages[m].room # None => messages[m].sender \in User

RowInv == RoomsApart /\ Authorized /\ RowsApart /\ RowRead /\ SendersKnown

FreshRow ==
    \A w \in Worker :
        txn[w].phase = "written" /\ txn[w].op = "send" =>
            messages[txn[w].message] = Blank

(* History.                                                                *)

NoHistoryYet ==
    \A m \in MessageId :
        messages[m].room = None => messages[m] = Blank /\ Of(m) = {}

LogRooms ==
    \A c \in changes :
        c.room = messages[c.message].room /\ status[c.room] # "deleted"

RevisionBelowChange ==
    \A m \in MessageId :
        /\ messages[m].revision <= messages[m].change
        /\ messages[m].change <= counter.change

HistoryInv ==
    FreshRow /\ NoHistoryYet /\ LogRooms /\ RevisionBelowChange
    /\ RowMatchesHistory

Inv == Shape /\ CounterInv /\ KeyInv /\ RowInv /\ HistoryInv

-----------------------------------------------------------------------------
(* What the actions do to the transactions.                                *)

\* Only w's transaction moves, and it holds no lock afterwards.
Releases(w) ==
    /\ \A v \in Worker : v # w => txn'[v] = txn[v]
    /\ txn'[w].phase \notin InTransaction

\* Only w's transaction moves, and only to the phase p.
Enters(w, p) ==
    /\ \A v \in Worker : v # w => txn'[v] = txn[v]
    /\ txn'[w] = [txn[w] EXCEPT !.phase = p]

LEMMA EndReleases ==
    ASSUME Shape, NEW w \in Worker, End(w)
    PROVE  Releases(w)
BY DEF Shape, TypeOK, End, Idle, Releases, InTransaction

LEMMA ReplayReleases ==
    ASSUME Shape, NEW w \in Worker, NEW m, NEW n, Replay(w, m, n)
    PROVE  Releases(w)
BY DEF Shape, TypeOK, Txn, Replay, Releases, InTransaction

LEMMA MoveEnters ==
    ASSUME Shape, NEW w \in Worker, NEW p, Move(w, p)
    PROVE  Enters(w, p)
BY DEF Shape, TypeOK, Txn, Move, Enters

\* A send past its key lock: a new key goes on, a spent one answers or fails.
LEMMA ClearSendTxn ==
    ASSUME Shape, NEW w \in Worker, ClearSend(w)
    PROVE  \/ Releases(w)
           \/ Enters(w, "cleared") /\ Unused(txn[w].user, txn[w].command)
BY EndReleases, ReplayReleases, MoveEnters DEF ClearSend

\* An edit or a recall past its room locks: a new key at the current revision
\* of a message not recalled goes on, everything else lets go of its locks.
LEMMA ClearChangeTxn ==
    ASSUME Shape, NEW w \in Worker, ClearChange(w)
    PROVE  \/ Releases(w) /\ UNCHANGED receipts
           \/ Releases(w) /\ RecordNoop(w) /\ Unused(txn[w].user, txn[w].command)
           \/ /\ Enters(w, "cleared") /\ UNCHANGED receipts
              /\ Unused(txn[w].user, txn[w].command)
              /\ Allowed(txn[w].op, txn[w].user, txn[w].message)
              /\ ~Stale(txn[w]) /\ ~txn[w].recalled
<1>1. CASE End(w) /\ UNCHANGED receipts
    BY <1>1, EndReleases
<1>2. CASE Recorded(w)
    BY <1>2, ReplayReleases DEF Recorded
<1>3. CASE RecordNoop(w) /\ Unused(txn[w].user, txn[w].command)
    BY <1>3, ReplayReleases DEF RecordNoop
<1>4. CASE /\ Move(w, "cleared") /\ UNCHANGED receipts
           /\ Unused(txn[w].user, txn[w].command)
           /\ Allowed(txn[w].op, txn[w].user, txn[w].message)
           /\ ~Stale(txn[w]) /\ ~txn[w].recalled
    BY <1>4, MoveEnters
<1>5. QED
    BY <1>1, <1>2, <1>3, <1>4 DEF ClearChange

\* After its commit a handler announces, moves the read position or dies; none
\* of it touches the log.
LEMMA AfterCommitTxn ==
    ASSUME Shape, NEW w \in Worker,
           Announce(w) \/ AdvanceOwnRead(w) \/ Crash(w)
    PROVE  /\ Releases(w)
           /\ UNCHANGED <<counter, messages, changes, receipts, status>>
<1>1. ASSUME Move(w, "announced")
      PROVE  Releases(w)
    <2>1. Enters(w, "announced")
        BY <1>1, MoveEnters
    <2>2. QED
        BY <2>1 DEF Enters, Releases, InTransaction, Shape, TypeOK, Txn
<1>2. QED
    BY <1>1, EndReleases DEF Announce, AdvanceOwnRead, Crash, tables

LEMMA CommitTxn ==
    ASSUME Shape, NEW w \in Worker, Commit(w)
    PROVE  /\ Releases(w)
           /\ Enters(w, "committed")
<1>1. Enters(w, "committed")
    BY MoveEnters DEF Commit
<1>2. QED
    BY <1>1 DEF Enters, Releases, InTransaction, Shape, TypeOK, Txn

\* The row a transaction commits, and the change it records.
NewRow(t) == IF t.op = "send" THEN Inserted(t) ELSE Updated(t)

NewChange(t) ==
    [sequence |-> t.change, message |-> t.message, room |-> t.room,
     revision |-> NewRow(t).revision, kind |-> KindOf(t.op),
     actor |-> t.user, command |-> t.command]

LEMMA CommitChange ==
    ASSUME NEW w \in Worker, Commit(w)
    PROVE  /\ changes' = changes \cup {NewChange(txn[w])}
           /\ messages' = [messages EXCEPT ![txn[w].message] = NewRow(txn[w])]
           /\ NewChange(txn[w]).sequence = txn[w].change
           /\ NewChange(txn[w]).message = txn[w].message
           /\ NewChange(txn[w]).room = txn[w].room
           /\ NewChange(txn[w]).revision = NewRow(txn[w]).revision
           /\ NewChange(txn[w]).kind = KindOf(txn[w].op)
           /\ NewChange(txn[w]).actor = txn[w].user
           /\ NewChange(txn[w]).command = txn[w].command
BY DEF Commit, NewChange, NewRow

LEMMA WriteTxn ==
    ASSUME Shape, NEW w \in Worker, Write(w)
    PROVE  /\ \A v \in Worker : v # w => txn'[v] = txn[v]
           /\ \E m \in MessageId :
                 /\ IF txn[w].op = "send" THEN messages[m] = Blank
                                          ELSE m = txn[w].message
                 /\ txn'[w].message = m
           /\ txn'[w].phase = "written"
           /\ txn'[w].change = counter.change + 1
           /\ txn'[w].op = txn[w].op
           /\ txn'[w].user = txn[w].user
           /\ txn'[w].room = txn[w].room
           /\ txn'[w].command = txn[w].command
           /\ txn'[w].expected = txn[w].expected
           /\ txn'[w].revision = txn[w].revision
           /\ txn'[w].recalled = txn[w].recalled
<1>1. PICK m \in MessageId :
        /\ IF txn[w].op = "send" THEN messages[m] = Blank ELSE m = txn[w].message
        /\ txn' = [txn EXCEPT ![w].phase = "written", ![w].message = m,
                              ![w].change = counter.change + 1]
    BY DEF Write, Allocated
<1>2. txn'[w] = [txn[w] EXCEPT !.phase = "written", !.message = m,
                               !.change = counter.change + 1]
    BY <1>1 DEF Shape, TypeOK, Txn
<1>3. txn[w] \in Txn /\ \A v \in Worker : v # w => txn'[v] = txn[v]
    BY <1>1 DEF Shape, TypeOK
<1>4. /\ txn'[w].message = m
      /\ txn'[w].phase = "written"
      /\ txn'[w].change = counter.change + 1
      /\ txn'[w].op = txn[w].op
      /\ txn'[w].user = txn[w].user
      /\ txn'[w].room = txn[w].room
      /\ txn'[w].command = txn[w].command
      /\ txn'[w].expected = txn[w].expected
      /\ txn'[w].revision = txn[w].revision
      /\ txn'[w].recalled = txn[w].recalled
    BY <1>2, <1>3 DEF Txn
<1>5. QED
    BY <1>1, <1>2, <1>3, <1>4

-----------------------------------------------------------------------------
(* The counter and the log.                                                *)

\* A step that writes nothing keeps CounterInv.
LEMMA CounterQuiet ==
    ASSUME CounterInv, NEW w \in Worker,
           \A v \in Worker : v # w => txn'[v] = txn[v],
           txn'[w].phase # "written",
           UNCHANGED counter, changes' \subseteq changes
    PROVE  CounterInv'
BY DEF CounterInv, OneWriter, NextSequence, LogBounded, SequenceUnique

LEMMA CounterStep ==
    ASSUME Shape, CounterInv, [Next]_vars
    PROVE  CounterInv'
<1> USE DEF tables
<1>1. ASSUME NEW w \in Worker, Releases(w), UNCHANGED counter,
             changes' \subseteq changes
      PROVE  CounterInv'
    BY <1>1, CounterQuiet DEF Releases, InTransaction
<1>2. ASSUME NEW w \in Worker, Enters(w, "cleared"), UNCHANGED <<counter, changes>>
      PROVE  CounterInv'
    <2>1. txn'[w].phase # "written"
        BY <1>2 DEF Enters, Shape, TypeOK, Txn
    <2>2. QED
        BY <1>2, <2>1, CounterQuiet DEF Enters
<1>3. ASSUME NEW w \in Worker, NEW u \in User, NEW r \in Room, NEW k \in Command,
             BeginSend(w, u, r, k)
      PROVE  CounterInv'
    BY <1>3, CounterQuiet DEF BeginSend, Idle, Shape, TypeOK
<1>4. ASSUME NEW w \in Worker, NEW op \in {"edit", "recall"}, NEW u \in User,
             NEW m \in MessageId, NEW k \in Command,
             NEW e \in 1..messages[m].revision, BeginChange(w, op, u, m, k, e)
      PROVE  CounterInv'
    BY <1>4, CounterQuiet DEF BeginChange, Idle, Shape, TypeOK
<1>5. ASSUME NEW w \in Worker, Write(w)
      PROVE  CounterInv'
    <2>2. txn'[w].change = counter.change + 1
        BY <1>5, WriteTxn
    <2>3. \A v \in Worker : v # w => txn'[v] = txn[v] /\ txn[v].phase # "written"
        BY <1>5, WriteTxn DEF Write, CounterFree
    <2>4. UNCHANGED <<counter, changes>>
        BY <1>5 DEF Write
    <2>5. QED
        BY <2>2, <2>3, <2>4
        DEF CounterInv, OneWriter, NextSequence, LogBounded, SequenceUnique
<1>6. ASSUME NEW w \in Worker, Commit(w)
      PROVE  CounterInv'
    <2>1. \E c : changes' = changes \cup {c} /\ c.sequence = txn[w].change
        BY <1>6, CommitChange
    <2> PICK c : changes' = changes \cup {c} /\ c.sequence = txn[w].change
        BY <2>1
    <2>2. /\ txn[w].phase = "written"
          /\ txn[w].change = counter.change + 1
          /\ counter'.change = txn[w].change
        BY <1>6 DEF Commit, CounterInv, NextSequence
    <2>3. counter.change \in Nat /\ \A d \in changes : d.sequence \in Nat
        BY DEF Shape, TypeOK, Change
    <2>4. \A v \in Worker : txn'[v].phase # "written"
        BY <1>6, <2>2, CommitTxn DEF Releases, InTransaction, CounterInv, OneWriter
    <2>5. LogBounded' /\ SequenceUnique'
        BY <2>2, <2>3 DEF CounterInv, LogBounded, SequenceUnique
    <2>6. QED
        BY <2>4, <2>5 DEF CounterInv, OneWriter, NextSequence
<1>7. ASSUME NEW w \in Worker, WorkerStep(w)
      PROVE  CounterInv'
    <2>1. CASE ClearSend(w)
        BY <1>1, <1>2, <2>1, ClearSendTxn DEF ClearSend
    <2>2. CASE ClearChange(w)
        BY <1>1, <1>2, <2>2, ClearChangeTxn DEF ClearChange
    <2>3. CASE Announce(w) \/ AdvanceOwnRead(w) \/ Crash(w)
        BY <1>1, <2>3, AfterCommitTxn
    <2>4. QED
        BY <1>3, <1>4, <1>5, <1>6, <1>7, <2>1, <2>2, <2>3 DEF WorkerStep
<1>8. ASSUME UNCHANGED <<counter, txn>>, changes' \subseteq changes
      PROVE  CounterInv'
    BY <1>8 DEF CounterInv, OneWriter, NextSequence, LogBounded, SequenceUnique
<1>9. ASSUME RoomStep
      PROVE  CounterInv'
    BY <1>8, <1>9
    DEF RoomStep, Join, SetRole, SetMuted, Remove, SetArchived, DeleteRoom, AdminStep
<1>10. ASSUME NEW u \in User, NEW m \in MessageId, NEW k \in ReadCommand,
              MarkRead(u, m, k)
       PROVE  CounterInv'
    BY <1>8, <1>10 DEF MarkRead
<1>11. CASE UNCHANGED vars
    BY <1>8, <1>11 DEF vars
<1>12. QED
    BY <1>7, <1>9, <1>10, <1>11 DEF Next

-----------------------------------------------------------------------------
(* Keys.                                                                   *)

\* Letting go of locks, or losing rows, spends no key.
LEMMA KeyQuiet ==
    ASSUME KeyInv, NEW w \in Worker, Releases(w),
           changes' \subseteq changes, receipts' \subseteq receipts
    PROVE  KeyInv'
<1>1. \A u, k : Unused(u, k) => Unused(u, k)'
    BY DEF Unused, PriorChanges, PriorReceipts
<1>2. ~InKey(w)'
    BY DEF Releases, InKey, KeyPhase, InTransaction
<1>3. \A v \in Worker : v # w => txn'[v] = txn[v]
    BY DEF Releases
<1>4. KeysApart'
    BY <1>2, <1>3 DEF KeyInv, KeysApart, InKey
<1>5. KeyUnspent'
    BY <1>1, <1>2, <1>3 DEF KeyInv, KeyUnspent, InKey, KeyPhase
<1>6. CommandAtMostOnce'
    BY DEF KeyInv, CommandAtMostOnce
<1>7. QED
    BY <1>4, <1>5, <1>6 DEF KeyInv

\* Going on with a key that is unspent and that nobody else holds.
LEMMA KeyEnters ==
    ASSUME KeyInv, NEW w \in Worker,
           \A v \in Worker : v # w => txn'[v] = txn[v],
           \A v \in Worker : v # w =>
               ~(InKey(v) /\ txn[v].user = txn'[w].user
                          /\ txn[v].command = txn'[w].command),
           txn'[w].phase \in {"cleared", "written"} =>
               Unused(txn'[w].user, txn'[w].command),
           UNCHANGED <<changes, receipts>>
    PROVE  KeyInv'
<1>1. \A u, k : Unused(u, k)' = Unused(u, k)
    BY DEF Unused, PriorChanges, PriorReceipts
<1>2. KeysApart'
    BY DEF KeyInv, KeysApart, InKey
<1>3. KeyUnspent'
    BY <1>1 DEF KeyInv, KeyUnspent
<1>4. CommandAtMostOnce'
    BY DEF KeyInv, CommandAtMostOnce
<1>5. QED
    BY <1>2, <1>3, <1>4 DEF KeyInv

\* A lock that is free is held by nobody else.
LEMMA FreeKey ==
    ASSUME NEW w \in Worker, NEW u, NEW k, KeyFree(w, u, k)
    PROVE  \A v \in Worker : v # w =>
               ~(InKey(v) /\ txn[v].user = u /\ txn[v].command = k)
BY DEF KeyFree, HoldsKey, Others, InKey, KeyPhase, InTransaction

\* The commit spends the key of its transaction and no other.
LEMMA KeyCommit ==
    ASSUME Shape, KeyInv, NEW w \in Worker, Commit(w)
    PROVE  KeyInv'
<1> DEFINE c == NewChange(txn[w])
<1>1. /\ changes' = changes \cup {c}
      /\ c.actor = txn[w].user
      /\ c.command = txn[w].command
      /\ receipts' = receipts
    BY CommitChange DEF Commit
<1>2. Releases(w)
    BY CommitTxn
<1>3. /\ InKey(w)
      /\ Unused(c.actor, c.command)
    BY <1>1 DEF Commit, InKey, KeyPhase, KeyInv, KeyUnspent
<1> HIDE DEF c
<1>4. \A v \in Worker : v # w /\ InKey(v) =>
          ~(txn[v].user = c.actor /\ txn[v].command = c.command)
    BY <1>1, <1>3 DEF KeyInv, KeysApart
<1>5. ~InKey(w)' /\ \A v \in Worker : v # w => txn'[v] = txn[v]
    BY <1>2 DEF Releases, InKey, KeyPhase, InTransaction
<1>6. KeysApart'
    BY <1>5 DEF KeyInv, KeysApart, InKey
<1>7. KeyUnspent'
    BY <1>1, <1>4, <1>5
    DEF KeyInv, KeyUnspent, InKey, KeyPhase, Unused, PriorChanges, PriorReceipts
<1>8. CommandAtMostOnce'
    BY <1>1, <1>3
    DEF KeyInv, CommandAtMostOnce, Unused, PriorChanges, PriorReceipts
<1>9. QED
    BY <1>6, <1>7, <1>8 DEF KeyInv

\* So does the receipt of a recall that found nothing to do.
LEMMA KeyNoop ==
    ASSUME Shape, KeyInv, NEW w \in Worker, InKey(w), Releases(w),
           RecordNoop(w), Unused(txn[w].user, txn[w].command),
           UNCHANGED changes
    PROVE  KeyInv'
<1>1. PICK n : receipts' = receipts \cup
          {[actor |-> txn[w].user, command |-> txn[w].command,
            message |-> txn[w].message, change |-> n]}
    BY DEF RecordNoop
<1> DEFINE q == [actor |-> txn[w].user, command |-> txn[w].command,
                 message |-> txn[w].message, change |-> n]
<1>2. /\ receipts' = receipts \cup {q}
      /\ q.actor = txn[w].user
      /\ q.command = txn[w].command
    BY <1>1
<1> HIDE DEF q
<1>3. \A v \in Worker : v # w /\ InKey(v) =>
          ~(txn[v].user = q.actor /\ txn[v].command = q.command)
    BY <1>2 DEF KeyInv, KeysApart
<1>4. ~InKey(w)' /\ \A v \in Worker : v # w => txn'[v] = txn[v]
    BY DEF Releases, InKey, KeyPhase, InTransaction
<1>5. KeysApart'
    BY <1>4 DEF KeyInv, KeysApart, InKey
<1>6. KeyUnspent'
    BY <1>2, <1>3, <1>4
    DEF KeyInv, KeyUnspent, InKey, KeyPhase, Unused, PriorChanges, PriorReceipts
<1>7. CommandAtMostOnce'
    BY <1>2 DEF KeyInv, CommandAtMostOnce, Unused, PriorChanges, PriorReceipts
<1>8. QED
    BY <1>5, <1>6, <1>7 DEF KeyInv

LEMMA KeyStep ==
    ASSUME Shape, KeyInv, [Next]_vars
    PROVE  KeyInv'
<1> USE DEF tables
<1>1. ASSUME NEW w \in Worker, NEW u \in User, NEW r \in Room, NEW k \in Command,
             BeginSend(w, u, r, k)
      PROVE  KeyInv'
    <2>1. /\ txn'[w].phase = "admitted"
          /\ \A v \in Worker : v # w => txn'[v] = txn[v]
        BY <1>1 DEF BeginSend, Idle, Shape, TypeOK
    <2>2. KeysApart'
        BY <2>1 DEF KeyInv, KeysApart, InKey, KeyPhase
    <2>3. KeyUnspent' /\ CommandAtMostOnce'
        BY <1>1, <2>1 DEF KeyInv, KeyUnspent, CommandAtMostOnce, BeginSend,
                          Unused, PriorChanges, PriorReceipts
    <2>4. QED
        BY <2>2, <2>3 DEF KeyInv
<1>2. ASSUME NEW w \in Worker, ClearSend(w)
      PROVE  KeyInv'
    <2>1. CASE Releases(w)
        BY <1>2, <2>1, KeyQuiet DEF ClearSend
    <2>2. CASE Enters(w, "cleared") /\ Unused(txn[w].user, txn[w].command)
        <3>1. txn'[w].user = txn[w].user /\ txn'[w].command = txn[w].command
            BY <2>2 DEF Enters, Shape, TypeOK, Txn
        <3>2. \A v \in Worker : v # w =>
                  ~(InKey(v) /\ txn[v].user = txn[w].user
                             /\ txn[v].command = txn[w].command)
            BY <1>2, FreeKey DEF ClearSend
        <3>3. UNCHANGED <<changes, receipts>>
            BY <1>2 DEF ClearSend
        <3>4. QED
            BY <2>2, <3>1, <3>2, <3>3, KeyEnters DEF Enters
    <2>3. QED
        BY <1>2, <2>1, <2>2, ClearSendTxn
<1>3. ASSUME NEW w \in Worker, NEW op \in {"edit", "recall"}, NEW u \in User,
             NEW m \in MessageId, NEW k \in Command,
             NEW e \in 1..messages[m].revision, BeginChange(w, op, u, m, k, e)
      PROVE  KeyInv'
    <2>1. /\ txn'[w].phase = "rowed"
          /\ txn'[w].user = u
          /\ txn'[w].command = k
          /\ \A v \in Worker : v # w => txn'[v] = txn[v]
        BY <1>3 DEF BeginChange, Idle, Shape, TypeOK
    <2>2. \A v \in Worker : v # w =>
              ~(InKey(v) /\ txn[v].user = u /\ txn[v].command = k)
        BY <1>3, FreeKey DEF BeginChange
    <2>3. UNCHANGED <<changes, receipts>>
        BY <1>3 DEF BeginChange
    <2>4. QED
        BY <2>1, <2>2, <2>3, KeyEnters
<1>4. ASSUME NEW w \in Worker, ClearChange(w)
      PROVE  KeyInv'
    <2>0. InKey(w) /\ UNCHANGED changes
        BY <1>4 DEF ClearChange, InKey, KeyPhase
    <2>1. CASE Releases(w) /\ UNCHANGED receipts
        BY <2>0, <2>1, KeyQuiet
    <2>2. CASE /\ Releases(w) /\ RecordNoop(w)
               /\ Unused(txn[w].user, txn[w].command)
        BY <2>0, <2>2, KeyNoop
    <2>3. CASE /\ Enters(w, "cleared") /\ UNCHANGED receipts
               /\ Unused(txn[w].user, txn[w].command)
        <3>1. txn'[w].user = txn[w].user /\ txn'[w].command = txn[w].command
            BY <2>3 DEF Enters, Shape, TypeOK, Txn
        <3>2. \A v \in Worker : v # w =>
                  ~(InKey(v) /\ txn[v].user = txn[w].user
                             /\ txn[v].command = txn[w].command)
            BY <2>0 DEF KeyInv, KeysApart
        <3>3. QED
            BY <2>0, <2>3, <3>1, <3>2, KeyEnters DEF Enters
    <2>4. QED
        BY <1>4, <2>1, <2>2, <2>3, ClearChangeTxn
<1>5. ASSUME NEW w \in Worker, Write(w)
      PROVE  KeyInv'
    <2>1. /\ txn'[w].user = txn[w].user
          /\ txn'[w].command = txn[w].command
          /\ \A v \in Worker : v # w => txn'[v] = txn[v]
        BY <1>5, WriteTxn
    <2>2. InKey(w) /\ Unused(txn[w].user, txn[w].command)
        BY <1>5 DEF Write, InKey, KeyPhase, KeyInv, KeyUnspent
    <2>3. \A v \in Worker : v # w =>
              ~(InKey(v) /\ txn[v].user = txn[w].user
                         /\ txn[v].command = txn[w].command)
        BY <2>2 DEF KeyInv, KeysApart
    <2>4. UNCHANGED <<changes, receipts>>
        BY <1>5 DEF Write
    <2>5. QED
        BY <2>1, <2>2, <2>3, <2>4, KeyEnters
<1>6. ASSUME NEW w \in Worker, Announce(w) \/ AdvanceOwnRead(w) \/ Crash(w)
      PROVE  KeyInv'
    BY <1>6, AfterCommitTxn, KeyQuiet
<1>7. ASSUME NEW w \in Worker, WorkerStep(w)
      PROVE  KeyInv'
    BY <1>1, <1>2, <1>3, <1>4, <1>5, <1>6, <1>7, KeyCommit DEF WorkerStep
<1>8. ASSUME UNCHANGED txn, changes' \subseteq changes, receipts' \subseteq receipts
      PROVE  KeyInv'
    BY <1>8 DEF KeyInv, KeysApart, InKey, KeyUnspent, CommandAtMostOnce,
                Unused, PriorChanges, PriorReceipts
<1>9. ASSUME RoomStep
      PROVE  KeyInv'
    BY <1>8, <1>9
    DEF RoomStep, Join, SetRole, SetMuted, Remove, SetArchived, DeleteRoom, AdminStep
<1>10. ASSUME NEW u \in User, NEW m \in MessageId, NEW k \in ReadCommand,
              MarkRead(u, m, k)
       PROVE  KeyInv'
    BY <1>8, <1>10 DEF MarkRead
<1>11. CASE UNCHANGED vars
    BY <1>8, <1>11 DEF vars
<1>12. QED
    BY <1>7, <1>9, <1>10, <1>11 DEF Next

-----------------------------------------------------------------------------
(* Rooms, rows and authorization.                                          *)

\* Entering a phase changes nothing else of the transaction.
LEMMA EntersFields ==
    ASSUME Shape, NEW w \in Worker, NEW p, Enters(w, p)
    PROVE  /\ txn'[w].phase = p
           /\ txn'[w].op = txn[w].op
           /\ txn'[w].user = txn[w].user
           /\ txn'[w].room = txn[w].room
           /\ txn'[w].message = txn[w].message
           /\ txn'[w].expected = txn[w].expected
           /\ txn'[w].revision = txn[w].revision
           /\ txn'[w].recalled = txn[w].recalled
<1>1. txn[w] \in Txn
    BY DEF Shape, TypeOK
<1>2. QED
    BY <1>1 DEF Enters, Txn

\* What a transaction read and was allowed stands while its message row, its
\* room and the memberships it depends on do.
LEMMA HeldFrame ==
    ASSUME NEW t, AuthorizedTxn(t), ReadStands(t),
           t.phase = "admitted" => t.op = "send",
           t.phase \in KeyPhase /\ t.op # "send" =>
               /\ messages'[t.message] = messages[t.message]
               /\ status'[t.room] = "deleted" => status[t.room] = "deleted",
           t.phase \in InRoom =>
               /\ status'[t.room] = status[t.room]
               /\ members'[t.room][t.user].role = members[t.room][t.user].role
               /\ members'[t.room][t.user].muted = members[t.room][t.user].muted,
           t.phase \in InRoom /\ t.op # "send" =>
               LET s == messages[t.message].sender
               IN  s = t.user \/ members[t.room][t.user].role # "admin"
                   \/ members'[t.room][s].role = members[t.room][s].role
                   \/ members'[t.room][s].role \notin {"owner", "admin"}
    PROVE  AuthorizedTxn(t)' /\ ReadStands(t)'
<1>1. ReadStands(t)'
    BY DEF ReadStands, Stored
<1>2. CASE t.phase \in InRoom /\ t.op = "send"
    BY <1>2, <1>1 DEF AuthorizedTxn, CanSend
<1>3. CASE t.phase \in InRoom /\ t.op # "send"
    <2>1. /\ messages[t.message].room = t.room
          /\ messages'[t.message] = messages[t.message]
        BY <1>3 DEF ReadStands, InRoom, KeyPhase
    <2>2. CanSend(t.user, t.room) => CanSend(t.user, t.room)'
        BY <1>3 DEF CanSend
    <2>3. CanEdit(t.user, t.message) => CanEdit(t.user, t.message)'
        BY <2>1, <2>2 DEF CanEdit
    <2>4. CanRecall(t.user, t.message) => CanRecall(t.user, t.message)'
        BY <1>3, <2>1 DEF CanRecall, MayRecall
    <2>5. QED
        BY <1>1, <1>3, <2>3, <2>4 DEF AuthorizedTxn, Allowed
<1>4. CASE t.phase \notin InRoom
    BY <1>1, <1>4 DEF AuthorizedTxn
<1>5. QED
    BY <1>2, <1>3, <1>4

\* Roles and mutes stand.
SameMembers ==
    \A r \in Room, u \in User :
        /\ members'[r][u].role = members[r][u].role
        /\ members'[r][u].muted = members[r][u].muted

\* The room, the users and the message a transaction depends on exist.
LEMMA HeldTypes ==
    ASSUME Shape, SendersKnown, NEW t, TxnShape(t), ReadStands(t)
    PROVE  /\ t.phase \in InRoom => t.room \in Room /\ t.user \in User
           /\ t.phase \in KeyPhase /\ t.op # "send" =>
                 /\ t.message \in MessageId
                 /\ messages[t.message].room = t.room
                 /\ messages[t.message].sender \in User
                 /\ t.room \in Room
           /\ t.phase \in InRoom /\ t.op # "send" => t.phase \in KeyPhase
BY DEF TxnShape, ReadStands, Stored, SendersKnown, InRoom, KeyPhase

\* A step that leaves rows, rooms and roles alone keeps what is held.
LEMMA HeldSame ==
    ASSUME Shape, RowInv, SameMembers, UNCHANGED <<messages, status>>,
           NEW t, TxnShape(t), AuthorizedTxn(t), ReadStands(t)
    PROVE  AuthorizedTxn(t)' /\ ReadStands(t)'
<1>1. SendersKnown
    BY DEF RowInv
<1>2. QED
    BY <1>1, HeldTypes, HeldFrame DEF SameMembers, TxnShape

\* A step of one handler among unchanged rows keeps RowInv when what its own
\* transaction holds afterwards is right and held by no other.
LEMMA RowMove ==
    ASSUME Shape, RowInv, SameMembers, UNCHANGED <<messages, status>>,
           NEW w \in Worker, \A v \in Worker : v # w => txn'[v] = txn[v],
           AuthorizedTxn(txn[w])', ReadStands(txn[w])',
           \A v \in Worker : v # w =>
               /\ txn'[w].phase \in InRoom =>
                     ~(txn[v].phase \in InRoom /\ txn[v].room = txn'[w].room)
               /\ txn'[w].phase \in KeyPhase /\ txn'[w].op # "send" =>
                     ~(Changing(v) /\ txn[v].message = txn'[w].message)
    PROVE  RowInv'
<1>1. ASSUME NEW v \in Worker, v # w
      PROVE  AuthorizedTxn(txn[v])' /\ ReadStands(txn[v])'
    <2>1. /\ TxnShape(txn[v]) /\ AuthorizedTxn(txn[v]) /\ ReadStands(txn[v])
          /\ txn'[v] = txn[v]
        BY <1>1 DEF Shape, RowInv, Authorized, RowRead
    <2>2. ASSUME NEW t, t = txn[v]
          PROVE  AuthorizedTxn(t)' /\ ReadStands(t)'
        BY <2>1, <2>2, HeldSame
    <2>3. QED
        BY <2>1, <2>2
<1>2. Authorized' /\ RowRead'
    BY <1>1 DEF Authorized, RowRead
<1>3. RoomsApart'
    BY DEF RowInv, RoomsApart
<1>4. RowsApart'
    BY DEF RowInv, RowsApart, Changing
<1>5. SendersKnown'
    BY DEF RowInv, SendersKnown
<1>6. QED
    BY <1>2, <1>3, <1>4, <1>5 DEF RowInv

\* Letting go of locks among unchanged rows.
LEMMA RowReleases ==
    ASSUME Shape, RowInv, SameMembers, UNCHANGED <<messages, status>>,
           NEW w \in Worker, Releases(w)
    PROVE  RowInv'
<1>1. txn'[w].phase \notin InRoom /\ txn'[w].phase \notin KeyPhase
    BY DEF Releases, InTransaction, InRoom, KeyPhase
<1>2. AuthorizedTxn(txn[w])' /\ ReadStands(txn[w])'
    BY <1>1 DEF AuthorizedTxn, ReadStands
<1>3. QED
    BY <1>1, <1>2, RowMove DEF Releases

\* Moving a read position is no matter of roles.
LEMMA ForwardSame ==
    ASSUME Shape, NEW r \in Room, NEW u \in User, NEW m \in MessageId,
           ForwardTo(r, u, m)
    PROVE  SameMembers
<1> DEFINE p == IF messages[m].sequence > members[r][u].position
                THEN messages[m].sequence ELSE members[r][u].position
<1>1. members' = [members EXCEPT ![r] =
                    [members[r] EXCEPT ![u] =
                        [members[r][u] EXCEPT !.position = p]]]
    BY DEF ForwardTo, Shape, TypeOK
<1> HIDE DEF p
<1>2. members[r][u] \in Member
    BY DEF Shape, TypeOK
<1>3. members'[r][u] = [members[r][u] EXCEPT !.position = p]
    BY <1>1 DEF Shape, TypeOK
<1>4. ASSUME NEW s \in Room, NEW v \in User, s # r \/ v # u
      PROVE  members'[s][v] = members[s][v]
    BY <1>1, <1>4 DEF Shape, TypeOK
<1>5. /\ members'[r][u].role = members[r][u].role
      /\ members'[r][u].muted = members[r][u].muted
    BY <1>2, <1>3 DEF Member
<1>6. QED
    BY <1>4, <1>5 DEF SameMembers

LEMMA BeginSendRow ==
    ASSUME Shape, RowInv, NEW w \in Worker, NEW u \in User, NEW r \in Room,
           NEW k \in Command, BeginSend(w, u, r, k)
    PROVE  RowInv'
<1>1. /\ \A v \in Worker : v # w => txn'[v] = txn[v]
      /\ txn'[w].phase = "admitted"
      /\ txn'[w].op = "send"
      /\ txn'[w].user = u
      /\ txn'[w].room = r
    BY DEF BeginSend, Idle, Shape, TypeOK
<1>2. UNCHANGED <<messages, members, status>> /\ SameMembers
    BY DEF BeginSend, tables, SameMembers
<1>3. CanSend(u, r)'
    BY <1>2 DEF BeginSend, CanSend
<1>4. AuthorizedTxn(txn[w])' /\ ReadStands(txn[w])'
    BY <1>1, <1>3 DEF AuthorizedTxn, ReadStands
<1>5. \A v \in Worker : v # w => ~(txn[v].phase \in InRoom /\ txn[v].room = r)
    BY DEF BeginSend, RoomFree, HoldsRoom, Others
<1>6. QED
    BY <1>1, <1>2, <1>4, <1>5, RowMove

LEMMA ClearSendRow ==
    ASSUME Shape, RowInv, NEW w \in Worker, ClearSend(w)
    PROVE  RowInv'
<1>1. /\ UNCHANGED <<messages, members, status>> /\ SameMembers
      /\ txn[w].phase = "admitted" /\ txn[w].op = "send"
    BY DEF ClearSend, tables, SameMembers, Shape, TxnShape
<1>2. CASE Releases(w)
    BY <1>1, <1>2, RowReleases
<1>3. CASE Enters(w, "cleared")
    <2>1. /\ txn'[w].phase = "cleared"
          /\ txn'[w].op = "send"
          /\ txn'[w].user = txn[w].user
          /\ txn'[w].room = txn[w].room
          /\ \A v \in Worker : v # w => txn'[v] = txn[v]
        BY <1>1, <1>3, EntersFields DEF Enters
    <2>2. CanSend(txn[w].user, txn[w].room)
        BY <1>1 DEF RowInv, Authorized, AuthorizedTxn, InRoom
    <2>3. CanSend(txn[w].user, txn[w].room)'
        BY <1>1, <2>1, <2>2 DEF CanSend
    <2>4. AuthorizedTxn(txn[w])' /\ ReadStands(txn[w])'
        BY <2>1, <2>3 DEF AuthorizedTxn, ReadStands
    <2>5. \A v \in Worker : v # w =>
              ~(txn[v].phase \in InRoom /\ txn[v].room = txn[w].room)
        BY <1>1 DEF RowInv, RoomsApart, InRoom
    <2>6. QED
        BY <1>1, <2>1, <2>4, <2>5, RowMove
<1>4. QED
    BY <1>2, <1>3, ClearSendTxn

LEMMA BeginChangeRow ==
    ASSUME Shape, RowInv, NEW w \in Worker, NEW op \in {"edit", "recall"},
           NEW u \in User, NEW m \in MessageId, NEW k \in Command,
           NEW e \in 1..messages[m].revision, BeginChange(w, op, u, m, k, e)
    PROVE  RowInv'
<1>1. /\ \A v \in Worker : v # w => txn'[v] = txn[v]
      /\ txn'[w].phase = "rowed"
      /\ txn'[w].message = m
      /\ txn'[w].room = messages[m].room
      /\ txn'[w].revision = messages[m].revision
      /\ txn'[w].recalled = messages[m].recalled
    BY DEF BeginChange, Idle, Shape, TypeOK
<1>2. UNCHANGED <<messages, members, status>> /\ SameMembers /\ Stored(m)
    BY DEF BeginChange, tables, SameMembers
<1>3. AuthorizedTxn(txn[w])' /\ ReadStands(txn[w])'
    BY <1>1, <1>2 DEF AuthorizedTxn, ReadStands, InRoom, Stored
<1>4. \A v \in Worker : v # w => ~(Changing(v) /\ txn[v].message = m)
    BY DEF BeginChange, MessageFree, HoldsMessage, Others, Changing, KeyPhase
<1>5. QED
    BY <1>1, <1>2, <1>3, <1>4, RowMove DEF InRoom

LEMMA ClearChangeRow ==
    ASSUME Shape, RowInv, NEW w \in Worker, ClearChange(w)
    PROVE  RowInv'
<1>1. /\ UNCHANGED <<messages, members, status>> /\ SameMembers
      /\ txn[w].phase = "rowed" /\ txn[w].op # "send" /\ Changing(w)
    BY DEF ClearChange, SameMembers, Shape, TxnShape, Changing, KeyPhase
<1>2. CASE Releases(w)
    BY <1>1, <1>2, RowReleases
<1>3. CASE /\ Enters(w, "cleared")
           /\ Allowed(txn[w].op, txn[w].user, txn[w].message)
           /\ ~Stale(txn[w]) /\ ~txn[w].recalled
    <2>1. /\ txn'[w].phase = "cleared"
          /\ txn'[w].op = txn[w].op
          /\ txn'[w].user = txn[w].user
          /\ txn'[w].room = txn[w].room
          /\ txn'[w].message = txn[w].message
          /\ txn'[w].expected = txn[w].expected
          /\ txn'[w].revision = txn[w].revision
          /\ txn'[w].recalled = txn[w].recalled
          /\ \A v \in Worker : v # w => txn'[v] = txn[v]
        BY <1>3, EntersFields DEF Enters
    <2>2. ReadStands(txn[w]) /\ txn[w].expected = txn[w].revision
        BY <1>3 DEF RowInv, RowRead, Stale
    <2>3. ReadStands(txn[w])'
        BY <1>1, <1>3, <2>1, <2>2 DEF ReadStands, Stored, KeyPhase
    <2>4. Allowed(txn[w].op, txn[w].user, txn[w].message)'
        BY <1>1, <1>3, <2>1
        DEF Allowed, CanEdit, CanSend, CanRecall, MayRecall
    <2>5. AuthorizedTxn(txn[w])'
        BY <1>1, <2>1, <2>4 DEF AuthorizedTxn
    <2>6. \A v \in Worker : v # w =>
              /\ ~(txn[v].phase \in InRoom /\ txn[v].room = txn[w].room)
              /\ ~(Changing(v) /\ txn[v].message = txn[w].message)
        BY <1>1 DEF ClearChange, RoomFree, HoldsRoom, Others, RowInv, RowsApart
    <2>7. QED
        BY <1>1, <2>1, <2>3, <2>5, <2>6, RowMove
<1>4. QED
    BY <1>2, <1>3, ClearChangeTxn

LEMMA WriteRow ==
    ASSUME Shape, RowInv, NEW w \in Worker, Write(w)
    PROVE  RowInv'
<1>1. /\ UNCHANGED <<messages, members, status>> /\ SameMembers
      /\ txn[w].phase = "cleared"
    BY DEF Write, tables, SameMembers
<1>2. /\ txn'[w].phase = "written"
      /\ txn'[w].op = txn[w].op
      /\ txn'[w].user = txn[w].user
      /\ txn'[w].room = txn[w].room
      /\ txn'[w].op # "send" => txn'[w].message = txn[w].message
      /\ txn'[w].expected = txn[w].expected
      /\ txn'[w].revision = txn[w].revision
      /\ txn'[w].recalled = txn[w].recalled
      /\ \A v \in Worker : v # w => txn'[v] = txn[v]
    BY WriteTxn
<1>3. AuthorizedTxn(txn[w]) /\ ReadStands(txn[w])
    BY DEF RowInv, Authorized, RowRead
<1>4. ReadStands(txn[w])'
    BY <1>1, <1>2, <1>3 DEF ReadStands, Stored, KeyPhase
<1>5. AuthorizedTxn(txn[w])'
    BY <1>1, <1>2, <1>3
    DEF AuthorizedTxn, InRoom, Allowed, CanEdit, CanSend, CanRecall, MayRecall
<1>6. \A v \in Worker : v # w =>
          /\ ~(txn[v].phase \in InRoom /\ txn[v].room = txn[w].room)
          /\ txn[w].op # "send" =>
                ~(Changing(v) /\ txn[v].message = txn[w].message)
    BY <1>1 DEF RowInv, RoomsApart, RowsApart, Changing, InRoom, KeyPhase
<1>7. QED
    BY <1>1, <1>2, <1>4, <1>5, <1>6, RowMove

\* The commit writes a row nobody else has read under a lock.
LEMMA CommitRow ==
    ASSUME Shape, RowInv, FreshRow, NEW w \in Worker, Commit(w)
    PROVE  RowInv'
<1>1. /\ Releases(w) /\ txn[w].phase = "written"
      /\ UNCHANGED <<members, status>>
      /\ TxnShape(txn[w])
    BY CommitTxn DEF Commit, Shape
<1>2. /\ messages' = [messages EXCEPT ![txn[w].message] = NewRow(txn[w])]
      /\ txn[w].message \in MessageId
    BY <1>1, CommitChange, RowShape
<1>3. ASSUME NEW v \in Worker, v # w
      PROVE  AuthorizedTxn(txn[v])' /\ ReadStands(txn[v])'
    <2>1. /\ TxnShape(txn[v]) /\ AuthorizedTxn(txn[v]) /\ ReadStands(txn[v])
          /\ txn'[v] = txn[v]
        BY <1>1, <1>3 DEF Shape, RowInv, Authorized, RowRead, Releases
    <2>2. ASSUME Changing(v)
          PROVE  messages'[txn[v].message] = messages[txn[v].message]
        <3>1. txn[v].message \in MessageId /\ messages[txn[v].message].room # None
            BY <2>1, <2>2 DEF TxnShape, ReadStands, Stored, Changing, KeyPhase
        <3>2. txn[v].message # txn[w].message
            <4>1. CASE txn[w].op = "send"
                BY <1>1, <3>1, <4>1 DEF FreshRow, Blank
            <4>2. CASE txn[w].op # "send"
                BY <1>1, <1>3, <2>2, <4>2 DEF RowInv, RowsApart, Changing, KeyPhase
            <4>3. QED
                BY <4>1, <4>2
        <3>3. QED
            BY <1>2, <3>1, <3>2 DEF Shape, TypeOK
    <2>3. ASSUME NEW t, t = txn[v]
          PROVE  AuthorizedTxn(t)' /\ ReadStands(t)'
        BY <1>1, <2>1, <2>2, <2>3, HeldFrame DEF Changing, TxnShape
    <2>4. QED
        BY <2>1, <2>3
<1>4. AuthorizedTxn(txn[w])' /\ ReadStands(txn[w])'
    BY <1>1 DEF Releases, InTransaction, AuthorizedTxn, ReadStands, InRoom, KeyPhase
<1>5. Authorized' /\ RowRead'
    BY <1>3, <1>4 DEF Authorized, RowRead
<1>6. RoomsApart' /\ RowsApart'
    BY <1>1 DEF RowInv, RoomsApart, RowsApart, Changing, Releases,
                InTransaction, InRoom, KeyPhase
<1>7. SendersKnown'
    <2>1. NewRow(txn[w]).sender \in User
        <3>1. CASE txn[w].op = "send"
            BY <1>1, <3>1 DEF NewRow, Inserted, TxnShape
        <3>2. CASE txn[w].op # "send"
            <4>1. messages[txn[w].message].room # None
                BY <1>1, <3>2 DEF RowInv, RowRead, ReadStands, Stored, KeyPhase
            <4>2. messages[txn[w].message].sender \in User
                BY <1>2, <4>1 DEF RowInv, SendersKnown
            <4>3. messages[txn[w].message] \in Message
                BY <1>2 DEF Shape, TypeOK
            <4>4. Updated(txn[w]).sender = messages[txn[w].message].sender
                BY <4>3 DEF Updated, Message
            <4>5. QED
                BY <3>2, <4>2, <4>4 DEF NewRow
        <3>3. QED
            BY <3>1, <3>2
    <2>2. QED
        BY <1>2, <2>1 DEF RowInv, SendersKnown, Shape, TypeOK
<1>8. QED
    BY <1>5, <1>6, <1>7 DEF RowInv

\* A membership operation waits for the writers that depend on the membership,
\* and a room operation for the writers in the room.
LEMMA RoomStepRow ==
    ASSUME Shape, RowInv, NEW r \in Room,
           \/ \E u \in User :
                 \/ \E role \in {"member", "pending"} : Join(r, u, role)
                 \/ \E role \in Active : SetRole(r, u, role)
                 \/ SetMuted(r, u)
                 \/ Remove(r, u)
           \/ SetArchived(r)
           \/ DeleteRoom(r)
    PROVE  RowInv'
<1> USE DEF AdminStep
<1>0. UNCHANGED <<txn, messages>>
    BY DEF Join, SetRole, SetMuted, Remove, SetArchived, DeleteRoom
<1>1. ASSUME \A v \in Worker : AuthorizedTxn(txn[v])' /\ ReadStands(txn[v])'
      PROVE  RowInv'
    BY <1>0, <1>1
    DEF RowInv, RoomsApart, RowsApart, Changing, SendersKnown, Authorized, RowRead
<1>2. ASSUME NEW v \in Worker
      PROVE  AuthorizedTxn(txn[v])' /\ ReadStands(txn[v])'
    <2> DEFINE t0 == txn[v]
    <2>1. /\ TxnShape(t0) /\ AuthorizedTxn(t0) /\ ReadStands(t0)
          /\ SendersKnown
        BY DEF Shape, RowInv, Authorized, RowRead
    <2>2. /\ t0.phase \in InRoom => t0.room \in Room /\ t0.user \in User
          /\ t0.phase \in KeyPhase /\ t0.op # "send" =>
                /\ t0.message \in MessageId
                /\ messages[t0.message].room = t0.room
                /\ messages[t0.message].sender \in User
                /\ t0.room \in Room
          /\ t0.phase \in InRoom /\ t0.op # "send" => t0.phase \in KeyPhase
        BY <2>1, HeldTypes
    <2>3. SUFFICES ASSUME NEW t, t = t0
                   PROVE  AuthorizedTxn(t)' /\ ReadStands(t)'
        BY <1>0
    <2>a. t.phase = "admitted" => t.op = "send"
        BY <2>1, <2>3 DEF TxnShape
    <2> HIDE DEF t0
    <2>4. ASSUME NEW u \in User, NEW x, members' = [members EXCEPT ![r][u] = x],
                 UNCHANGED status,
                 \/ MemberFree(r, u)
                 \/ /\ members[r][u].role = "none"
                    /\ x.role \notin {"owner", "admin"}
          PROVE  AuthorizedTxn(t)' /\ ReadStands(t)'
        <3>1. members'[r][u] = x
            BY <2>4 DEF Shape, TypeOK
        <3>2. \A s \in Room, z \in User :
                  s # r \/ z # u => members'[s][z] = members[s][z]
            BY <2>4 DEF Shape, TypeOK
        <3>3. ASSUME t.phase \in InRoom
              PROVE  t.room # r \/ t.user # u
            <4>1. CASE MemberFree(r, u)
                BY <2>3, <3>3, <4>1 DEF MemberFree, HoldsMember, HoldsRoom, t0
            <4>2. CASE members[r][u].role = "none"
                BY <2>1, <2>2, <2>3, <3>3, <4>2
                DEF AuthorizedTxn, Allowed, CanSend, CanEdit, CanRecall,
                    MayRecall, Active, TxnShape, Op
            <4>3. QED
                BY <2>4, <4>1, <4>2
        <3>4. ASSUME t.phase \in InRoom, t.op # "send",
                     messages[t.message].sender # t.user,
                     members[t.room][t.user].role = "admin",
                     NEW s, s = messages[t.message].sender
              PROVE  \/ members'[t.room][s].role = members[t.room][s].role
                     \/ members'[t.room][s].role \notin {"owner", "admin"}
            <4>1. s \in User /\ t.room \in Room
                BY <2>2, <2>3, <3>4
            <4>2. CASE t.room # r \/ s # u
                BY <3>2, <4>1, <4>2
            <4>3. CASE t.room = r /\ s = u
                <5>1. t.op = "recall"
                    BY <2>1, <2>3, <3>4
                    DEF AuthorizedTxn, Allowed, CanEdit, TxnShape, Op, InRoom
                <5>2. ~MemberFree(r, u)
                    BY <2>3, <3>4, <4>3, <5>1
                    DEF MemberFree, HoldsMember, HoldsRoom, t0
                <5>3. QED
                    BY <2>4, <3>1, <4>3, <5>2
            <4>4. QED
                BY <4>2, <4>3
        <3>5. t.phase \in InRoom =>
                  /\ members'[t.room][t.user].role = members[t.room][t.user].role
                  /\ members'[t.room][t.user].muted = members[t.room][t.user].muted
            BY <2>2, <2>3, <3>2, <3>3
        <3>6. QED
            BY <1>0, <2>1, <2>3, <2>4, <2>a, <3>4, <3>5, HeldFrame
    <2>5. CASE \E u \in User : \E role \in {"member", "pending"} : Join(r, u, role)
        <3>1. PICK u \in User, role \in {"member", "pending"} : Join(r, u, role)
            BY <2>5
        <3> DEFINE x == [NoRow EXCEPT !.role = role, !.boundary = counter.message]
        <3>2. x.role = role
            BY DEF NoRow
        <3>3. members' = [members EXCEPT ![r][u] = x]
            BY <3>1 DEF Join
        <3> HIDE DEF x
        <3>4. QED
            BY <2>4, <3>1, <3>2, <3>3 DEF Join
    <2>6. CASE \E u \in User :
                  \/ \E role \in Active : SetRole(r, u, role)
                  \/ SetMuted(r, u)
                  \/ Remove(r, u)
        <3>1. PICK u \in User :
                  \/ \E role \in Active : SetRole(r, u, role)
                  \/ SetMuted(r, u)
                  \/ Remove(r, u)
            BY <2>6
        <3>2. MemberFree(r, u) /\ UNCHANGED status
            BY <3>1 DEF SetRole, SetMuted, Remove
        <3>3. \E x : members' = [members EXCEPT ![r][u] = x]
            <4>1. CASE Remove(r, u)
                BY <4>1 DEF Remove
            <4>2. ASSUME NEW role \in Active, SetRole(r, u, role)
                  PROVE  \E x : members' = [members EXCEPT ![r][u] = x]
                <5> DEFINE b == BoundaryAfter(members[r][u])
                <5>1. members' = [members EXCEPT ![r][u] =
                          [members[r][u] EXCEPT !.role = role, !.boundary = b]]
                    BY <4>2 DEF SetRole, Member, Shape, TypeOK
                <5>2. QED
                    BY <5>1
            <4>3. ASSUME SetMuted(r, u)
                  PROVE  \E x : members' = [members EXCEPT ![r][u] = x]
                <5>1. members' = [members EXCEPT ![r][u] =
                          [members[r][u] EXCEPT !.muted = ~members[r][u].muted]]
                    BY <4>3 DEF SetMuted, Member, Shape, TypeOK
                <5>2. QED
                    BY <5>1
            <4>4. QED
                BY <3>1, <4>1, <4>2, <4>3
        <3>4. QED
            BY <2>4, <3>2, <3>3
    <2>7. ASSUME \A z \in User : members'[t.room][z] = members[t.room][z],
                 t.phase \in InRoom => status'[t.room] = status[t.room],
                 t.phase \in KeyPhase /\ status'[t.room] = "deleted" =>
                     status[t.room] = "deleted"
          PROVE  AuthorizedTxn(t)' /\ ReadStands(t)'
        BY <1>0, <2>1, <2>2, <2>3, <2>7, <2>a, HeldFrame
    <2>8. CASE SetArchived(r)
        <3>1. t.phase \in InRoom => t.room # r
            BY <2>3, <2>8 DEF SetArchived, NoWriterIn, HoldsRoom, t0
        <3>2. /\ UNCHANGED members
              /\ status' = [status EXCEPT ![r] =
                              IF @ = "open" THEN "archived" ELSE "open"]
            BY <2>8 DEF SetArchived
        <3>3. /\ status'[r] # "deleted"
              /\ \A s \in Room : s # r => status'[s] = status[s]
            BY <3>2 DEF Shape, TypeOK
        <3>4. t.phase \in KeyPhase => t.room \in Room
            BY <2>1, <2>3 DEF TxnShape, KeyPhase
        <3>5. QED
            BY <2>2, <2>3, <2>7, <3>1, <3>2, <3>3, <3>4
    <2>9. CASE DeleteRoom(r)
        <3>1. t.phase \in InTransaction => t.room # r
            BY <2>3, <2>9 DEF DeleteRoom, t0
        <3>2. /\ members' = [members EXCEPT ![r] = [u \in User |-> NoRow]]
              /\ status' = [status EXCEPT ![r] = "deleted"]
            BY <2>9 DEF DeleteRoom
        <3>3. \A s \in Room : s # r =>
                  members'[s] = members[s] /\ status'[s] = status[s]
            BY <3>2 DEF Shape, TypeOK
        <3>4. t.phase \in InTransaction => t.room \in Room
            BY <2>1, <2>3 DEF TxnShape, InTransaction
        <3>5. CASE t.phase \in InTransaction
            BY <2>7, <3>1, <3>3, <3>4, <3>5
        <3>6. CASE t.phase \notin InTransaction
            BY <3>6 DEF AuthorizedTxn, ReadStands, InTransaction, InRoom, KeyPhase
        <3>7. QED
            BY <3>5, <3>6
    <2>10. QED
        BY <2>5, <2>6, <2>8, <2>9
<1>3. QED
    BY <1>1, <1>2

LEMMA RowStep ==
    ASSUME Shape, RowInv, FreshRow, [Next]_vars
    PROVE  RowInv'
<1>1. ASSUME NEW w \in Worker, Announce(w) \/ AdvanceOwnRead(w) \/ Crash(w)
      PROVE  RowInv'
    <2>1. SameMembers
        <3>1. CASE Announce(w) \/ Crash(w) \/ UNCHANGED members
            BY <3>1 DEF Announce, Crash, tables, SameMembers
        <3>2. CASE AdvanceOwnRead(w)
            <4>1. txn[w].room \in Room /\ txn[w].user \in User
                  /\ txn[w].message \in MessageId
                BY <3>2 DEF AdvanceOwnRead, Shape, TxnShape
            <4>2. QED
                BY <3>1, <3>2, <4>1, ForwardSame DEF AdvanceOwnRead
        <3>3. QED
            BY <1>1, <3>1, <3>2
    <2>2. QED
        BY <1>1, <2>1, AfterCommitTxn, RowReleases
<1>2. ASSUME NEW w \in Worker, WorkerStep(w)
      PROVE  RowInv'
    BY <1>1, <1>2, BeginSendRow, ClearSendRow, BeginChangeRow, ClearChangeRow,
       WriteRow, CommitRow
    DEF WorkerStep
<1>3. ASSUME SameMembers, UNCHANGED <<messages, status, txn>>
      PROVE  RowInv'
    <2>1. ASSUME NEW v \in Worker
          PROVE  AuthorizedTxn(txn[v])' /\ ReadStands(txn[v])'
        <3>1. TxnShape(txn[v]) /\ AuthorizedTxn(txn[v]) /\ ReadStands(txn[v])
            BY DEF Shape, RowInv, Authorized, RowRead
        <3>2. ASSUME NEW t, t = txn[v]
              PROVE  AuthorizedTxn(t)' /\ ReadStands(t)'
            BY <1>3, <3>1, <3>2, HeldSame
        <3>3. QED
            BY <1>3, <3>2
    <2>2. QED
        BY <1>3, <2>1
        DEF RowInv, RoomsApart, RowsApart, Changing, SendersKnown, Authorized,
            RowRead
<1>4. ASSUME NEW u \in User, NEW m \in MessageId, NEW k \in ReadCommand,
             MarkRead(u, m, k)
      PROVE  RowInv'
    <2>1. messages[m].room \in Room
        BY <1>4 DEF MarkRead, Stored, Shape, TypeOK, Message
    <2>2. QED
        BY <1>3, <1>4, <2>1, ForwardSame DEF MarkRead
<1>5. CASE UNCHANGED vars
    BY <1>3, <1>5 DEF vars, SameMembers
<1>6. QED
    BY <1>2, <1>4, <1>5, RoomStepRow DEF Next, RoomStep

-----------------------------------------------------------------------------
(* History.                                                                *)

\* A step that writes no row and deletes no room leaves history alone.
LEMMA HistoryQuiet ==
    ASSUME Shape, HistoryInv, UNCHANGED <<messages, changes, counter>>,
           \A r \in Room : status'[r] = "deleted" <=> status[r] = "deleted",
           \A v \in Worker :
               txn'[v].phase = "written" => /\ txn[v].phase = "written"
                                            /\ txn'[v].op = txn[v].op
                                            /\ txn'[v].message = txn[v].message
    PROVE  HistoryInv'
<1>1. \A m \in MessageId : messages[m].room = None \/ messages[m].room \in Room
    BY DEF Shape, TypeOK, Message
<1>2. \A c \in changes : c.room \in Room /\ c.message \in MessageId
    BY DEF Shape, TypeOK, Change
<1>3. \A m \in MessageId : Stored(m)' <=> Stored(m)
    BY <1>1 DEF Stored
<1>4. \A m : Of(m)' = Of(m)
    BY DEF Of
<1>5. FreshRow'
    BY DEF HistoryInv, FreshRow
<1>6. NoHistoryYet' /\ RevisionBelowChange'
    BY <1>4 DEF HistoryInv, NoHistoryYet, RevisionBelowChange
<1>7. LogRooms'
    BY <1>2 DEF HistoryInv, LogRooms
<1>8. RowMatchesHistory'
    BY <1>3, <1>4 DEF HistoryInv, RowMatchesHistory
<1>9. QED
    BY <1>5, <1>6, <1>7, <1>8 DEF HistoryInv

\* Deleting a room takes the whole history of its messages and no other.
LEMMA HistoryDelete ==
    ASSUME Shape, HistoryInv, NEW r \in Room, DeleteRoom(r)
    PROVE  HistoryInv'
<1> USE DEF AdminStep
<1>1. /\ UNCHANGED <<messages, counter, txn>>
      /\ status' = [status EXCEPT ![r] = "deleted"]
      /\ changes' = {c \in changes : c.room # r}
    BY DEF DeleteRoom
<1>2. \A s \in Room : status'[s] = IF s = r THEN "deleted" ELSE status[s]
    BY <1>1 DEF Shape, TypeOK
<1>3. \A m \in MessageId : messages[m].room = None \/ messages[m].room \in Room
    BY DEF Shape, TypeOK, Message
<1>4. \A c \in changes : c.room \in Room /\ c.message \in MessageId
    BY DEF Shape, TypeOK, Change
<1>5. \A m \in MessageId : Stored(m)' => Stored(m) /\ messages[m].room # r
    BY <1>1, <1>2, <1>3 DEF Stored
<1>6. \A m \in MessageId : messages[m].room # r => Of(m)' = Of(m)
    BY <1>1 DEF Of, HistoryInv, LogRooms
<1>7. FreshRow' /\ RevisionBelowChange'
    BY <1>1 DEF HistoryInv, FreshRow, RevisionBelowChange
<1>8. NoHistoryYet'
    BY <1>1 DEF HistoryInv, NoHistoryYet, Of
<1>9. LogRooms'
    BY <1>1, <1>2, <1>4 DEF HistoryInv, LogRooms
<1>10. RowMatchesHistory'
    BY <1>1, <1>5, <1>6 DEF HistoryInv, RowMatchesHistory
<1>11. QED
    BY <1>7, <1>8, <1>9, <1>10 DEF HistoryInv

\* What a commit puts on top of the history of its message: the next revision
\* of a message that has not been recalled, or the creation of a new one.
LEMMA CommitFacts ==
    ASSUME Shape, CounterInv, RowInv, HistoryInv, NEW w \in Worker,
           txn[w].phase = "written",
           NEW c, c = NewChange(txn[w])
    PROVE  /\ c.sequence = counter.change + 1
           /\ c.room = txn[w].room /\ c.room \in Room
           /\ status[c.room] # "deleted"
           /\ c.message = txn[w].message
           /\ c.revision = NewRow(txn[w]).revision
           /\ c.revision \in Nat \ {0}
           /\ NewRow(txn[w]).room = c.room
           /\ NewRow(txn[w]).change = c.sequence
           /\ c.kind \in Kind
           /\ c.kind = "created" <=> c.revision = 1
           /\ c.kind = "recalled" <=> NewRow(txn[w]).recalled
           /\ c.revision <= c.sequence
           /\ c.kind = "created" => Of(c.message) = {}
           /\ c.kind # "created" =>
                 /\ Stored(c.message)
                 /\ messages[c.message].room = c.room
                 /\ c.revision = messages[c.message].revision + 1
                 /\ ~messages[c.message].recalled
<1> DEFINE t == txn[w]
<1>1. /\ TxnShape(t) /\ t.phase = "written" /\ t.message \in MessageId
      /\ t.change = counter.change + 1
      /\ t.op \in Op /\ t.room \in Room
    BY DEF Shape, TxnShape, CounterInv, NextSequence
<1>2. /\ c.sequence = t.change /\ c.room = t.room /\ c.message = t.message
      /\ c.revision = NewRow(t).revision /\ c.kind = KindOf(t.op)
    BY DEF NewChange
<1>3. /\ messages[t.message] \in Message /\ counter.change \in Nat
      /\ messages[t.message].revision <= messages[t.message].change
      /\ messages[t.message].change <= counter.change
    BY <1>1 DEF Shape, TypeOK, HistoryInv, RevisionBelowChange
<1>4. CASE t.op = "send"
    <2>1. /\ NewRow(t).revision = 1 /\ NewRow(t).room = t.room
          /\ NewRow(t).change = t.change /\ NewRow(t).recalled = FALSE
        BY <1>4 DEF NewRow, Inserted
    <2>2. KindOf(t.op) = "created"
        BY <1>4 DEF KindOf
    <2>3. status[t.room] # "deleted"
        BY <1>1, <1>4 DEF RowInv, Authorized, AuthorizedTxn, CanSend, InRoom
    <2>4. Of(t.message) = {}
        <3>1. messages[t.message] = Blank
            BY <1>1, <1>4 DEF HistoryInv, FreshRow
        <3>2. messages[t.message].room = None
            BY <3>1 DEF Blank
        <3>3. QED
            BY <1>1, <3>2 DEF HistoryInv, NoHistoryYet
    <2>5. /\ c.kind = "created" /\ c.revision = 1
          /\ c.sequence = counter.change + 1
        BY <1>1, <1>2, <2>1, <2>2
    <2>6. c.revision <= c.sequence
        BY <1>3, <2>5
    <2>7. Of(c.message) = {}
        BY <1>2, <2>4
    <2>8. c.kind = "recalled" <=> NewRow(t).recalled
        BY <2>1, <2>5
    <2>9. /\ c.room = txn[w].room /\ c.room \in Room
          /\ status[c.room] # "deleted"
          /\ c.message = txn[w].message
          /\ NewRow(t).room = c.room
          /\ NewRow(t).change = c.sequence
          /\ c.revision = NewRow(txn[w]).revision
        BY <1>1, <1>2, <2>1, <2>3
    <2>10. /\ c.revision \in Nat \ {0}
           /\ c.kind \in Kind
           /\ c.kind = "created" <=> c.revision = 1
        BY <2>5 DEF Kind
    <2>11. c.kind # "created" => FALSE
        BY <2>5
    <2>12. /\ NewRow(txn[w]).room = c.room
           /\ NewRow(txn[w]).change = c.sequence
           /\ c.kind = "recalled" <=> NewRow(txn[w]).recalled
        BY <2>8, <2>9
    <2> HIDE DEF t
    <2>13. QED
        BY <2>5, <2>6, <2>7, <2>9, <2>10, <2>11, <2>12, Zenon DEF t
<1>5. CASE t.op # "send"
    <2>1. /\ Stored(t.message) /\ messages[t.message].room = t.room
          /\ ~messages[t.message].recalled
        <3>1. ReadStands(t)
            BY DEF RowInv, RowRead
        <3>2. QED
            BY <1>1, <1>3, <1>5, <3>1 DEF ReadStands, KeyPhase, Message
    <2>2. /\ NewRow(t).room = messages[t.message].room
          /\ NewRow(t).change = t.change
          /\ NewRow(t).revision = messages[t.message].revision + 1
          /\ NewRow(t).recalled = (messages[t.message].recalled \/ t.op = "recall")
        BY <1>3, <1>5 DEF NewRow, Updated, Message
    <2>3. /\ KindOf(t.op) \in {"edited", "recalled"}
          /\ KindOf(t.op) = "recalled" <=> t.op = "recall"
        BY <1>1, <1>5 DEF KindOf, Op
    <2>4. messages[t.message].revision \in Nat \ {0}
        <3>1. \E d \in Of(t.message) : d.revision = messages[t.message].revision
            BY <1>1, <2>1 DEF HistoryInv, RowMatchesHistory
        <3>2. QED
            BY <3>1 DEF Of, Shape, TypeOK, Change
    <2>5. status[t.room] # "deleted"
        BY <2>1 DEF Stored
    <2>6. messages[t.message].change \in Nat
        BY <1>3 DEF Message
    <2>7. /\ c.sequence = counter.change + 1
          /\ c.revision = messages[c.message].revision + 1
          /\ messages[c.message].revision \in Nat \ {0}
          /\ messages[c.message].revision <= counter.change
        BY <1>1, <1>2, <1>3, <2>2, <2>4, <2>6
    <2>8. /\ c.revision \in Nat \ {0}
          /\ c.revision <= c.sequence
          /\ c.revision # 1
        BY <1>3, <2>7
    <2>9. /\ c.kind \in Kind /\ c.kind # "created"
          /\ c.kind = "recalled" <=> t.op = "recall"
        BY <1>2, <2>3 DEF Kind
    <2>10. c.kind = "recalled" <=> NewRow(t).recalled
        BY <2>1, <2>2, <2>9
    <2>11. /\ Stored(c.message)
           /\ messages[c.message].room = c.room
           /\ ~messages[c.message].recalled
        BY <1>2, <2>1
    <2>12. /\ c.room = txn[w].room /\ c.room \in Room
           /\ status[c.room] # "deleted"
           /\ c.message = txn[w].message
           /\ NewRow(txn[w]).room = c.room
           /\ NewRow(txn[w]).change = c.sequence
           /\ c.revision = NewRow(txn[w]).revision
        BY <1>1, <1>2, <2>1, <2>2, <2>5
    <2> HIDE DEF t
    <2>13. QED
        BY <2>7, <2>8, <2>9, <2>10, <2>11, <2>12, Zenon DEF t
<1>6. QED
    BY <1>4, <1>5

LEMMA HistoryCommit ==
    ASSUME Shape, CounterInv, RowInv, HistoryInv, NEW w \in Worker, Commit(w)
    PROVE  HistoryInv'
<1> PICK c : c = NewChange(txn[w])
    OBVIOUS
<1> PICK new : new = NewRow(txn[w])
    OBVIOUS
<1> PICK m : m = txn[w].message
    OBVIOUS
<1>1. /\ txn[w].phase = "written" /\ m \in MessageId /\ new \in Message
      /\ UNCHANGED status
      /\ counter'.change = txn[w].change
    BY RowShape DEF Commit, NewRow
<1>2. changes' = changes \cup {c} /\ messages' = [messages EXCEPT ![m] = new]
    BY CommitChange
<1>3. /\ c.sequence = counter.change + 1 /\ counter'.change = c.sequence
      /\ c.room \in Room /\ status[c.room] # "deleted"
      /\ c.message = m
      /\ c.revision = new.revision /\ c.revision \in Nat \ {0}
      /\ new.room = c.room /\ new.change = c.sequence
      /\ c.kind = "created" <=> c.revision = 1
      /\ c.kind = "recalled" <=> new.recalled
      /\ c.revision <= c.sequence
      /\ c.kind = "created" => Of(m) = {}
      /\ c.kind # "created" =>
            /\ Stored(m) /\ messages[m].room = c.room
            /\ c.revision = messages[m].revision + 1
            /\ ~messages[m].recalled
    BY <1>1, CommitFacts, CommitChange
<1>4. /\ messages'[m] = new
      /\ \A n \in MessageId : n # m => messages'[n] = messages[n]
    BY <1>1, <1>2 DEF Shape, TypeOK
<1>5. /\ Of(m)' = Of(m) \cup {c}
      /\ \A n : n # m => Of(n)' = Of(n)
    BY <1>2, <1>3 DEF Of
<1>6. /\ counter.change \in Nat
      /\ \A d \in changes : /\ d \in Change /\ d.sequence \in Nat
                            /\ d.revision \in Nat /\ d.message \in MessageId
      /\ \A n \in MessageId : /\ messages[n].revision \in Nat
                              /\ messages[n].change \in Nat
    BY DEF Shape, TypeOK, Change, Message
<1>7. FreshRow'
    BY <1>1, CommitTxn
    DEF FreshRow, Releases, InTransaction, CounterInv, OneWriter
<1>8. NoHistoryYet'
    BY <1>3, <1>4, <1>5, ConstantsAssumption DEF HistoryInv, NoHistoryYet
<1>9. LogRooms'
    <2>1. \A d \in changes : d.message = m => c.kind # "created"
        BY <1>3 DEF Of
    <2>2. \A d \in changes : d.room = messages'[d.message].room
        BY <1>3, <1>4, <1>6, <2>1 DEF HistoryInv, LogRooms
    <2>3. QED
        BY <1>1, <1>2, <1>3, <1>4, <2>2 DEF HistoryInv, LogRooms
<1>10. RevisionBelowChange'
    BY <1>3, <1>4, <1>6 DEF HistoryInv, RevisionBelowChange
<1>11. ASSUME NEW n \in MessageId, n # m, Stored(n)'
       PROVE  Stored(n)
    BY <1>1, <1>4, <1>11 DEF Stored
<1>12. ASSUME NEW d \in Of(m)
       PROVE  /\ d.room = c.room /\ d.sequence < c.sequence
              /\ d.revision < c.revision /\ d.kind # "recalled"
              /\ d.kind = "created" <=> d.revision = 1
              /\ d \in changes /\ Stored(m)
    <2>1. d \in changes /\ d.message = m
        BY DEF Of
    <2>2. Stored(m) /\ c.revision = messages[m].revision + 1
          /\ messages[m].room = c.room /\ ~messages[m].recalled
        BY <1>3
    <2>3. /\ d.room = messages[m].room
          /\ d.revision <= messages[m].revision
          /\ d.kind = "created" <=> d.revision = 1
          /\ d.kind = "recalled" => d.revision = messages[m].revision
        BY <1>1, <2>2 DEF HistoryInv, RowMatchesHistory
    <2>4. d.sequence < c.sequence
        BY <1>3, <1>6, <2>1 DEF CounterInv, LogBounded
    <2>5. d.kind # "recalled"
        <3>1. PICK e \in Of(m) : /\ e.revision = messages[m].revision
                                 /\ e.kind = "recalled" <=> messages[m].recalled
            BY <1>1, <2>2 DEF HistoryInv, RowMatchesHistory
        <3>2. SUFFICES ASSUME d.kind = "recalled"
                       PROVE  FALSE
            OBVIOUS
        <3>3. e \in changes /\ e.kind # "recalled" /\ e.revision = d.revision
            BY <2>2, <2>3, <3>1, <3>2 DEF Of
        <3>4. ~(d.sequence < e.sequence) /\ ~(e.sequence < d.sequence)
            BY <1>1, <1>6, <2>1, <2>2, <3>1, <3>3
            DEF HistoryInv, RowMatchesHistory
        <3>5. d.sequence = e.sequence
            BY <1>6, <2>1, <3>3, <3>4
        <3>6. d = e
            BY <2>1, <3>3, <3>5 DEF CounterInv, SequenceUnique
        <3>7. QED
            BY <3>2, <3>3, <3>6
    <2>6. QED
        BY <1>3, <1>6, <2>1, <2>2, <2>3, <2>4, <2>5
<1>13. RowMatchesHistory'
    <2>1. ASSUME NEW n \in MessageId, Stored(n)', n # m
          PROVE  /\ \E d \in Of(n)' :
                       /\ d.sequence = messages'[n].change
                       /\ d.revision = messages'[n].revision
                       /\ d.kind = "recalled" <=> messages'[n].recalled
                 /\ \A d \in Of(n)' :
                       /\ d.room = messages'[n].room
                       /\ d.sequence <= messages'[n].change
                       /\ d.revision <= messages'[n].revision
                       /\ d.kind = "created" <=> d.revision = 1
                       /\ d.kind = "recalled" => d.revision = messages'[n].revision
                 /\ \A d, e \in Of(n)' :
                       d.sequence < e.sequence <=> d.revision < e.revision
        BY <1>4, <1>5, <1>11, <2>1 DEF HistoryInv, RowMatchesHistory
    <2>2. \E d \in Of(m)' :
              /\ d.sequence = messages'[m].change
              /\ d.revision = messages'[m].revision
              /\ d.kind = "recalled" <=> messages'[m].recalled
        BY <1>3, <1>4, <1>5
    <2>3. \A d \in Of(m)' :
              /\ d.room = messages'[m].room
              /\ d.sequence <= messages'[m].change
              /\ d.revision <= messages'[m].revision
              /\ d.kind = "created" <=> d.revision = 1
              /\ d.kind = "recalled" => d.revision = messages'[m].revision
        BY <1>3, <1>4, <1>5, <1>6, <1>12
    <2>4. \A d, e \in Of(m)' :
              d.sequence < e.sequence <=> d.revision < e.revision
        <3>1. \A d, e \in Of(m) :
                  d.sequence < e.sequence <=> d.revision < e.revision
            BY <1>1, <1>12 DEF HistoryInv, RowMatchesHistory
        <3>2. QED
            BY <1>3, <1>5, <1>6, <1>12, <3>1
    <2>5. QED
        BY <2>1, <2>2, <2>3, <2>4 DEF RowMatchesHistory
<1>14. QED
    BY <1>7, <1>8, <1>9, <1>10, <1>13 DEF HistoryInv

LEMMA HistoryStep ==
    ASSUME Shape, CounterInv, RowInv, HistoryInv, [Next]_vars
    PROVE  HistoryInv'
<1> USE DEF tables
<1>1. ASSUME NEW w \in Worker, UNCHANGED <<messages, changes, counter, status>>,
             \A v \in Worker : v # w => txn'[v] = txn[v],
             txn'[w].phase # "written"
      PROVE  HistoryInv'
    BY <1>1, HistoryQuiet
<1>2. ASSUME NEW w \in Worker, Releases(w),
             UNCHANGED <<messages, changes, counter, status>>
      PROVE  HistoryInv'
    BY <1>1, <1>2 DEF Releases, InTransaction
<1>3. ASSUME NEW w \in Worker, Enters(w, "cleared"),
             UNCHANGED <<messages, changes, counter, status>>
      PROVE  HistoryInv'
    BY <1>1, <1>3, EntersFields DEF Enters
<1>4. ASSUME NEW w \in Worker, NEW u \in User, NEW r \in Room, NEW k \in Command,
             BeginSend(w, u, r, k)
      PROVE  HistoryInv'
    BY <1>1, <1>4 DEF BeginSend, Idle, Shape, TypeOK
<1>5. ASSUME NEW w \in Worker, NEW op \in {"edit", "recall"}, NEW u \in User,
             NEW m \in MessageId, NEW k \in Command,
             NEW e \in 1..messages[m].revision, BeginChange(w, op, u, m, k, e)
      PROVE  HistoryInv'
    BY <1>1, <1>5 DEF BeginChange, Idle, Shape, TypeOK
<1>6. ASSUME NEW w \in Worker, Write(w)
      PROVE  HistoryInv'
    <2>1. UNCHANGED <<messages, changes, counter, status>>
        BY <1>6 DEF Write
    <2>2. FreshRow'
        BY <1>6, <2>1, WriteTxn DEF HistoryInv, FreshRow
    <2>3. \A m : Of(m)' = Of(m) /\ Stored(m)' = Stored(m)
        BY <2>1 DEF Of, Stored
    <2>4. NoHistoryYet' /\ LogRooms' /\ RevisionBelowChange' /\ RowMatchesHistory'
        BY <2>1, <2>3
        DEF HistoryInv, NoHistoryYet, LogRooms, RevisionBelowChange,
            RowMatchesHistory
    <2>5. QED
        BY <2>2, <2>4 DEF HistoryInv
<1>7. ASSUME NEW w \in Worker, WorkerStep(w)
      PROVE  HistoryInv'
    <2>1. CASE ClearSend(w)
        BY <1>2, <1>3, <2>1, ClearSendTxn DEF ClearSend
    <2>2. CASE ClearChange(w)
        BY <1>2, <1>3, <2>2, ClearChangeTxn DEF ClearChange
    <2>3. CASE Announce(w) \/ AdvanceOwnRead(w) \/ Crash(w)
        BY <1>2, <2>3, AfterCommitTxn
    <2>4. QED
        BY <1>4, <1>5, <1>6, <1>7, <2>1, <2>2, <2>3, HistoryCommit
        DEF WorkerStep
<1>8. ASSUME UNCHANGED <<messages, changes, counter, txn>>,
             \A r \in Room : status'[r] = "deleted" <=> status[r] = "deleted"
      PROVE  HistoryInv'
    BY <1>8, HistoryQuiet
<1>9. ASSUME NEW r \in Room, SetArchived(r)
      PROVE  HistoryInv'
    BY <1>8, <1>9 DEF SetArchived, AdminStep, Shape, TypeOK
<1>10. ASSUME RoomStep
       PROVE  HistoryInv'
    BY <1>8, <1>9, <1>10, HistoryDelete
    DEF RoomStep, Join, SetRole, SetMuted, Remove, AdminStep
<1>11. ASSUME NEW u \in User, NEW m \in MessageId, NEW k \in ReadCommand,
              MarkRead(u, m, k)
       PROVE  HistoryInv'
    BY <1>8, <1>11 DEF MarkRead
<1>12. CASE UNCHANGED vars
    BY <1>8, <1>12 DEF vars
<1>13. QED
    BY <1>7, <1>10, <1>11, <1>12 DEF Next

-----------------------------------------------------------------------------
(* The invariant.                                                          *)

LEMMA InitInv == Init => Inv
<1> SUFFICES ASSUME Init PROVE Inv
    OBVIOUS
<1>1. Shape
    BY InitShape
<1>2. \A w \in Worker : txn[w].phase = "idle"
    BY DEF Init, Idle
<1>3. changes = {} /\ receipts = {} /\ \A m \in MessageId : messages[m] = Blank
    BY DEF Init
<1>4. CounterInv
    BY <1>2, <1>3 DEF CounterInv, OneWriter, NextSequence, LogBounded, SequenceUnique
<1>5. KeyInv
    BY <1>2, <1>3
    DEF KeyInv, KeysApart, KeyUnspent, CommandAtMostOnce, InKey, KeyPhase
<1>6. RowInv
    BY <1>2, <1>3
    DEF RowInv, RoomsApart, Authorized, RowsApart, RowRead, SendersKnown,
        AuthorizedTxn, ReadStands, Changing, KeyPhase, InRoom, Blank
<1>7. HistoryInv
    <2>1. \A m \in MessageId : /\ messages[m].room = None
                               /\ messages[m].revision = 0
                               /\ messages[m].change = 0
        BY <1>3 DEF Blank
    <2>2. \A m : Of(m) = {}
        BY <1>3 DEF Of
    <2>3. counter.change = 0
        BY DEF Init
    <2>4. RowMatchesHistory
        BY <2>1 DEF RowMatchesHistory, Stored
    <2>5. QED
        BY <1>2, <1>3, <2>1, <2>2, <2>3, <2>4
        DEF HistoryInv, FreshRow, NoHistoryYet, LogRooms, RevisionBelowChange
<1>8. QED
    BY <1>1, <1>4, <1>5, <1>6, <1>7 DEF Inv

LEMMA StepInv == Inv /\ [Next]_vars => Inv'
<1> SUFFICES ASSUME Inv, [Next]_vars PROVE Inv'
    OBVIOUS
<1>1. Shape /\ CounterInv /\ KeyInv /\ RowInv /\ HistoryInv /\ FreshRow
    BY DEF Inv, HistoryInv
<1>2. QED
    BY <1>1, StepShape, CounterStep, KeyStep, RowStep, HistoryStep DEF Inv

\* Locks keep transactions apart, each transaction's view of what it locked
\* stands until it ends, and the committed tables agree with each other.
THEOREM Invariance == Spec => []Inv
BY InitInv, StepInv, PTL DEF Spec

\* An Idempotency-Key never takes effect twice, whichever of create, edit and
\* recall it is used or retried with and however the attempts interleave or
\* crash.
THEOREM CommandsTakeEffectOnce == Spec => []CommandAtMostOnce
<1>1. Inv => CommandAtMostOnce
    BY DEF Inv, KeyInv
<1>2. QED
    BY <1>1, Invariance, PTL

\* The row of every message that can be read is what its history in the change
\* log says.
THEOREM RowsMatchHistory == Spec => []RowMatchesHistory
<1>1. Inv => RowMatchesHistory
    BY DEF Inv, HistoryInv
<1>2. QED
    BY <1>1, Invariance, PTL

-----------------------------------------------------------------------------
(* What a step may never do.                                               *)

\* The log, the counter and the message rows are written by commits, and by the
\* deletion of a room, which only takes changes away.
LEMMA LogFrame ==
    ASSUME [Next]_vars
    PROVE  \/ \E w \in Worker : Commit(w)
           \/ \E r \in Room : DeleteRoom(r)
           \/ UNCHANGED <<counter, messages, changes>>
<1> USE DEF tables
<1>1. ASSUME NEW w \in Worker, WorkerStep(w)
      PROVE  Commit(w) \/ UNCHANGED <<counter, messages, changes>>
    <2>1. CASE ClearSend(w) \/ ClearChange(w)
        BY <2>1 DEF ClearSend, ClearChange
    <2>2. CASE Write(w) \/ Announce(w)
        BY <2>2 DEF Write, Announce
    <2>3. CASE AdvanceOwnRead(w) \/ Crash(w)
        BY <2>3 DEF AdvanceOwnRead, Crash
    <2>4. ASSUME NEW u \in User, NEW r \in Room, NEW k \in Command,
                 BeginSend(w, u, r, k)
          PROVE  UNCHANGED <<counter, messages, changes>>
        BY <2>4 DEF BeginSend
    <2>5. ASSUME NEW op \in {"edit", "recall"}, NEW u \in User,
                 NEW m \in MessageId, NEW k \in Command,
                 NEW e \in 1..messages[m].revision,
                 BeginChange(w, op, u, m, k, e)
          PROVE  UNCHANGED <<counter, messages, changes>>
        BY <2>5 DEF BeginChange
    <2>6. QED
        BY <1>1, <2>1, <2>2, <2>3, <2>4, <2>5 DEF WorkerStep
<1>2. ASSUME RoomStep
      PROVE  \/ \E r \in Room : DeleteRoom(r)
             \/ UNCHANGED <<counter, messages, changes>>
    <2>1. ASSUME NEW r \in Room, NEW u \in User,
                 \/ \E role \in {"member", "pending"} : Join(r, u, role)
                 \/ \E role \in Active : SetRole(r, u, role)
                 \/ SetMuted(r, u)
                 \/ Remove(r, u)
          PROVE  UNCHANGED <<counter, messages, changes>>
        BY <2>1 DEF Join, SetRole, SetMuted, Remove, AdminStep
    <2>2. ASSUME NEW r \in Room, SetArchived(r)
          PROVE  UNCHANGED <<counter, messages, changes>>
        BY <2>2 DEF SetArchived, AdminStep
    <2>3. QED
        BY <1>2, <2>1, <2>2 DEF RoomStep
<1>3. ASSUME NEW u \in User, NEW m \in MessageId, NEW k \in ReadCommand,
             MarkRead(u, m, k)
      PROVE  UNCHANGED <<counter, messages, changes>>
    BY <1>3 DEF MarkRead
<1>4. CASE UNCHANGED vars
    BY <1>4 DEF vars
<1>5. QED
    BY <1>1, <1>2, <1>3, <1>4 DEF Next

\* Changes grow by commits only.
LEMMA OnlyCommits ==
    ASSUME [Next]_vars, NEW c, c \in changes' \ changes
    PROVE  \E w \in Worker : Commit(w)
BY LogFrame DEF DeleteRoom

\* Message rows change by commits only.
LEMMA OnlyCommitsWrite ==
    ASSUME [Next]_vars
    PROVE  UNCHANGED messages \/ \E w \in Worker : Commit(w)
BY LogFrame DEF DeleteRoom, AdminStep

\* Changes become visible in sequence order without a gap, so a reader's
\* cursor never passes a change it has not seen.
THEOREM CommitsAreOrdered == Spec => CommitsInOrder
<1>1. Inv /\ [Next]_vars =>
          [\A c \in changes' \ changes : c.sequence = counter.change + 1]_vars
    <2> SUFFICES ASSUME Inv, [Next]_vars, NEW c, c \in changes' \ changes
                 PROVE  c.sequence = counter.change + 1
        OBVIOUS
    <2>1. PICK w \in Worker : Commit(w)
        BY OnlyCommits
    <2>2. c = NewChange(txn[w])
        BY <2>1, CommitChange
    <2>3. c.sequence = txn[w].change /\ txn[w].phase = "written"
        BY <2>1, <2>2, CommitChange DEF Commit
    <2>4. QED
        BY <2>3 DEF Inv, CounterInv, NextSequence
<1>2. QED
    BY <1>1, Invariance, PTL DEF Spec, CommitsInOrder

\* An edit or a recall commits on exactly the revision its If-Match named:
\* nobody's edit is overwritten unseen.
THEOREM NoUpdateIsLost == Spec => NoLostUpdate
<1>1. Inv /\ [Next]_vars =>
          [\A w \in Worker :
              /\ txn[w].phase = "written" /\ txn'[w].phase = "committed"
              /\ txn[w].op # "send"
              => messages[txn[w].message].revision = txn[w].expected]_vars
    <2> SUFFICES ASSUME Inv, NEW w \in Worker, txn[w].phase = "written",
                        txn[w].op # "send"
                 PROVE  messages[txn[w].message].revision = txn[w].expected
        OBVIOUS
    <2>1. ReadStands(txn[w])
        BY DEF Inv, RowInv, RowRead
    <2>2. QED
        BY <2>1 DEF ReadStands, KeyPhase
<1>2. QED
    BY <1>1, Invariance, PTL DEF Spec, NoLostUpdate

\* A recalled message takes no further change.
THEOREM RecallsAreFinal == Spec => RecallIsFinal
<1>1. Inv /\ [Next]_vars =>
          [\A m \in MessageId :
              messages[m].recalled => messages'[m] = messages[m]]_vars
    <2> SUFFICES ASSUME Inv, [Next]_vars, NEW m \in MessageId,
                        messages[m].recalled
                 PROVE  messages'[m] = messages[m]
        OBVIOUS
    <2>1. CASE UNCHANGED messages
        BY <2>1
    <2>2. ASSUME NEW w \in Worker, Commit(w)
          PROVE  messages'[m] = messages[m]
        <3>1. PICK n : n = txn[w].message
            OBVIOUS
        <3>2. txn[w].phase = "written"
            BY <2>2 DEF Commit
        <3>3. ~messages[n].recalled
            <4>1. CASE txn[w].op = "send"
                BY <3>1, <3>2, <4>1 DEF Inv, HistoryInv, FreshRow, Blank
            <4>2. CASE txn[w].op # "send"
                <5>1. ReadStands(txn[w])
                    BY DEF Inv, RowInv, RowRead
                <5>2. QED
                    BY <3>1, <3>2, <4>2, <5>1 DEF ReadStands, KeyPhase
            <4>3. QED
                BY <4>1, <4>2
        <3>4. \E x : messages' = [messages EXCEPT ![n] = x]
            BY <2>2, <3>1, CommitChange
        <3>5. QED
            BY <3>3, <3>4 DEF Inv, Shape, TypeOK
    <2>3. QED
        BY <2>1, <2>2, OnlyCommitsWrite
<1>2. QED
    BY <1>1, Invariance, PTL DEF Spec, RecallIsFinal

\* Both together: what edits and recalls have written stays, for any handlers.
THEOREM HistoryStands == Spec => HistoryIsKept
    BY NoUpdateIsLost, RecallsAreFinal, PTL DEF HistoryIsKept

\* What allowed a change when it was checked still allows it when it commits.
THEOREM AuthorizationHolds == Spec => AuthorizedAtCommit
<1>1. Inv /\ [Next]_vars =>
          [\A c \in changes' \ changes :
              CASE c.kind = "created"  -> CanSend(c.actor, c.room)
                [] c.kind = "edited"   -> CanEdit(c.actor, c.message)
                [] c.kind = "recalled" -> CanRecall(c.actor, c.message)]_vars
    <2> SUFFICES ASSUME Inv, [Next]_vars, NEW c, c \in changes' \ changes
                 PROVE  CASE c.kind = "created"  -> CanSend(c.actor, c.room)
                          [] c.kind = "edited"   -> CanEdit(c.actor, c.message)
                          [] c.kind = "recalled" -> CanRecall(c.actor, c.message)
        OBVIOUS
    <2>1. PICK w \in Worker : Commit(w)
        BY OnlyCommits
    <2>2. c = NewChange(txn[w])
        BY <2>1, CommitChange
    <2>3. /\ c.kind = KindOf(txn[w].op) /\ c.actor = txn[w].user
          /\ c.room = txn[w].room /\ c.message = txn[w].message
        BY <2>1, <2>2, CommitChange
    <2>4. txn[w].phase \in InRoom /\ txn[w].op \in Op
        BY <2>1 DEF Commit, InRoom, Inv, Shape, TxnShape
    <2>5. AuthorizedTxn(txn[w])
        BY DEF Inv, RowInv, Authorized
    <2>6. CASE txn[w].op = "send"
        BY <2>3, <2>4, <2>5, <2>6 DEF AuthorizedTxn, KindOf
    <2>7. CASE txn[w].op = "edit"
        BY <2>3, <2>4, <2>5, <2>7 DEF AuthorizedTxn, KindOf, Allowed
    <2>8. CASE txn[w].op = "recall"
        BY <2>3, <2>4, <2>5, <2>8 DEF AuthorizedTxn, KindOf, Allowed
    <2>9. QED
        BY <2>4, <2>6, <2>7, <2>8 DEF Op
<1>2. QED
    BY <1>1, Invariance, PTL DEF Spec, AuthorizedAtCommit

-----------------------------------------------------------------------------
(* Refinement.                                                             *)

\* A commit is the append of one change that continues its message's history.
LEMMA CommitAppends ==
    ASSUME Inv, NEW w \in Worker, Commit(w)
    PROVE  Log!LogNext
<1> PICK c : c = NewChange(txn[w])
    OBVIOUS
<1>1. /\ txn[w].phase = "written" /\ TxnShape(txn[w])
      /\ counter'.change = txn[w].change
      /\ changes' = changes \cup {c}
      /\ Shape /\ CounterInv /\ RowInv /\ HistoryInv
    BY CommitChange DEF Commit, Inv, Shape
<1>2. /\ c = [sequence |-> txn[w].change, message |-> txn[w].message,
              room |-> txn[w].room, revision |-> NewRow(txn[w]).revision,
              kind |-> KindOf(txn[w].op), actor |-> txn[w].user,
              command |-> txn[w].command]
      /\ c.actor = txn[w].user /\ c.command = txn[w].command
      /\ c.message = txn[w].message
    BY DEF NewChange
<1>3. /\ c.message \in MessageId /\ c.actor \in User /\ c.command \in Command
    BY <1>1, <1>2 DEF TxnShape
<1>4. /\ c.sequence = counter.change + 1
      /\ c.room \in Room
      /\ c.revision \in Nat \ {0}
      /\ c.kind \in Kind
      /\ c.kind = "created" <=> c.revision = 1
      /\ c.revision <= c.sequence
      /\ c.kind = "created" => Of(c.message) = {}
      /\ c.kind # "created" =>
            /\ Stored(c.message)
            /\ messages[c.message].room = c.room
            /\ c.revision = messages[c.message].revision + 1
            /\ ~messages[c.message].recalled
    BY <1>1, CommitFacts
<1>5. counter.change \in Nat
    BY <1>1 DEF Shape, TypeOK
<1>6. Log!Unspent(c.actor, c.command)
    BY <1>1, <1>2 DEF Inv, KeyInv, KeyUnspent, Unused, PriorChanges, Log!Unspent
<1>7. Log!Of(c.message) = Of(c.message)
    BY DEF Log!Of, Of
<1>8. Log!Continues(c)
    <2>1. CASE c.kind = "created"
        BY <1>4, <1>7, <2>1 DEF Log!Continues
    <2>2. CASE c.kind # "created"
        <3>1. PICK d \in Of(c.message) :
                 /\ d.revision = messages[c.message].revision
                 /\ d.kind = "recalled" <=> messages[c.message].recalled
            BY <1>1, <1>3, <1>4, <2>2 DEF HistoryInv, RowMatchesHistory
        <3>2. \A e \in Of(c.message) : /\ e.room = messages[c.message].room
                                       /\ e.revision <= d.revision
            BY <1>1, <1>3, <1>4, <2>2, <3>1 DEF HistoryInv, RowMatchesHistory
        <3>3. /\ d.kind # "recalled" /\ d.room = c.room
              /\ d.revision + 1 = c.revision
            BY <1>4, <2>2, <3>1, <3>2
        <3>4. QED
            BY <1>7, <2>2, <3>1, <3>2, <3>3 DEF Log!Continues
    <2>3. QED
        BY <2>1, <2>2
<1>9. Log!AppendChange(c)
    BY <1>1, <1>2, <1>4, <1>6, <1>8 DEF Log!AppendChange
<1>10. c.revision \in 1..(counter.change + 1) /\ c.kind \in Log!Kind
    BY <1>4, <1>5 DEF Kind, Log!Kind
<1>11. c = [sequence |-> counter.change + 1, message |-> c.message,
            room |-> c.room, revision |-> c.revision, kind |-> c.kind,
            actor |-> c.actor, command |-> c.command]
    BY <1>2, <1>4
<1>12. QED
    BY <1>3, <1>4, <1>9, <1>10, <1>11 DEF Log!LogNext

\* Seen through the counter and the change log alone, every handler, crash and
\* room operation is an append of the next change, the deletion of a room, or
\* nothing.
THEOREM Implementation == Spec => ImplementsChangeLog
<1>1. Init => Log!LogInit
    BY DEF Init, Log!LogInit
<1>2. Inv /\ [Next]_vars => [Log!LogNext]_Log!logVars
    <2> SUFFICES ASSUME Inv, [Next]_vars
                 PROVE  [Log!LogNext]_Log!logVars
        OBVIOUS
    <2>1. ASSUME NEW r \in Room, DeleteRoom(r)
          PROVE  Log!LogNext
        <3>1. Log!ForgetRoom(r)
            BY <2>1 DEF DeleteRoom, AdminStep, Log!ForgetRoom
        <3>2. QED
            BY <3>1 DEF Log!LogNext
    <2>2. CASE UNCHANGED <<counter, messages, changes>>
        BY <2>2 DEF Log!logVars
    <2>3. QED
        BY <2>1, <2>2, LogFrame, CommitAppends
<1>3. QED
    BY <1>1, <1>2, Invariance, PTL DEF Spec, ImplementsChangeLog, Log!LogSpec

-----------------------------------------------------------------------------
(* Read positions and join boundaries.                                     *)

\* What a step may do to one membership row.
Succeeds(a, b) ==
    /\ a.role # "none" /\ b.role # "none" => b.position >= a.position
    /\ a.role \notin Active /\ b.role \in Active => b.boundary = counter.message
    /\ b.boundary \in {a.boundary, counter.message, 0}

RowsSucceed ==
    \A r \in Room, u \in User : Succeeds(members[r][u], members'[r][u])

\* A step that writes one membership row.
LEMMA OneRow ==
    ASSUME Shape, NEW r \in Room, NEW u \in User, NEW x,
           members' = [members EXCEPT ![r][u] = x], Succeeds(members[r][u], x)
    PROVE  RowsSucceed
<1>1. ASSUME NEW q \in Room, NEW v \in User
      PROVE  members[q][v] \in Member
    BY DEF Shape, TypeOK
<1>2. ASSUME NEW q \in Room, NEW v \in User
      PROVE  Succeeds(members[q][v], members[q][v])
    BY <1>1 DEF Succeeds, Member
<1>3. ASSUME NEW q \in Room, NEW v \in User
      PROVE  members'[q][v] = IF q = r /\ v = u THEN x ELSE members[q][v]
    BY DEF Shape, TypeOK
<1>4. QED
    BY <1>2, <1>3 DEF RowsSucceed

LEMMA ForwardSucceeds ==
    ASSUME Shape, NEW r \in Room, NEW u \in User, NEW m \in MessageId,
           ForwardTo(r, u, m)
    PROVE  RowsSucceed
<1> DEFINE p == IF messages[m].sequence > members[r][u].position
                THEN messages[m].sequence ELSE members[r][u].position
           x == [members[r][u] EXCEPT !.position = p]
<1>1. messages[m].sequence \in Nat /\ members[r][u] \in Member
    BY DEF Shape, TypeOK, Message
<1>2. p \in Nat /\ p >= members[r][u].position
    BY <1>1 DEF Member
<1>3. members' = [members EXCEPT ![r][u] = x]
    BY DEF ForwardTo, Shape, TypeOK
<1> HIDE DEF p
<1>4. Succeeds(members[r][u], x)
    BY <1>1, <1>2 DEF Succeeds, Member
<1> HIDE DEF x
<1>5. QED
    BY <1>3, <1>4, OneRow

LEMMA MembersSucceed ==
    ASSUME Shape, [Next]_vars
    PROVE  RowsSucceed
<1>1. CASE UNCHANGED members
    <2>1. ASSUME NEW q \in Room, NEW v \in User
          PROVE  members[q][v] \in Member
        BY DEF Shape, TypeOK
    <2>2. QED
        BY <1>1, <2>1 DEF RowsSucceed, Succeeds, Member
<1>2. ASSUME NEW w \in Worker, AdvanceOwnRead(w), ~UNCHANGED members
      PROVE  RowsSucceed
    <2>1. TxnShape(txn[w]) /\ txn[w].phase = "announced"
        BY <1>2 DEF Shape, AdvanceOwnRead
    <2>2. QED
        BY <1>2, <2>1, ForwardSucceeds DEF AdvanceOwnRead, TxnShape
<1>3. ASSUME NEW w \in Worker, WorkerStep(w), ~AdvanceOwnRead(w)
      PROVE  UNCHANGED members
    BY <1>3 DEF WorkerStep, BeginSend, ClearSend, BeginChange, ClearChange, Write, Commit,
                Announce, Crash, tables
<1>4. ASSUME NEW u \in User, NEW m \in MessageId, NEW k \in ReadCommand, MarkRead(u, m, k)
      PROVE  RowsSucceed
    <2>1. messages[m].room \in Room
        BY <1>4 DEF MarkRead, Stored, Shape, TypeOK, Message
    <2>2. QED
        BY <1>4, <2>1, ForwardSucceeds DEF MarkRead
<1>5. ASSUME NEW r \in Room, NEW u \in User, NEW role \in {"member", "pending"},
             Join(r, u, role)
      PROVE  RowsSucceed
    <2> DEFINE x == [NoRow EXCEPT !.role = role, !.boundary = counter.message]
    <2>1. members' = [members EXCEPT ![r][u] = x] /\ members[r][u].role = "none"
        BY <1>5 DEF Join
    <2>2. Succeeds(members[r][u], x)
        BY <2>1 DEF Succeeds, NoRow
    <2> HIDE DEF x
    <2>3. QED
        BY <2>1, <2>2, OneRow
<1>6. ASSUME NEW r \in Room, NEW u \in User, NEW role \in Active, SetRole(r, u, role)
      PROVE  RowsSucceed
    <2> DEFINE b == BoundaryAfter(members[r][u])
               x == [members[r][u] EXCEPT !.role = role, !.boundary = b]
    <2>1. members[r][u] \in Member
        BY DEF Shape, TypeOK
    <2>2. members' = [members EXCEPT ![r][u] = x]
        BY <1>6 DEF SetRole, Member, Shape, TypeOK
    <2>3. /\ members[r][u].role # "none"
          /\ b = IF members[r][u].role = "pending" THEN counter.message
                 ELSE members[r][u].boundary
        BY <1>6 DEF SetRole, BoundaryAfter
    <2> HIDE DEF b
    <2>4. x.position = members[r][u].position /\ x.boundary = b
        BY <2>1 DEF Member
    <2>5. Succeeds(members[r][u], x)
        BY <2>1, <2>3, <2>4 DEF Succeeds, Member, Role, Active
    <2> HIDE DEF x
    <2>6. QED
        BY <2>2, <2>5, OneRow
<1>7. ASSUME NEW r \in Room, NEW u \in User, SetMuted(r, u)
      PROVE  RowsSucceed
    <2> DEFINE b == ~members[r][u].muted
               x == [members[r][u] EXCEPT !.muted = b]
    <2>1. members[r][u] \in Member
        BY DEF Shape, TypeOK
    <2>2. members' = [members EXCEPT ![r][u] = x]
        BY <1>7 DEF SetMuted, Member, Shape, TypeOK
    <2> HIDE DEF b
    <2>3. Succeeds(members[r][u], x)
        BY <2>1 DEF Succeeds, Member
    <2> HIDE DEF x
    <2>4. QED
        BY <2>2, <2>3, OneRow
<1>8. ASSUME NEW r \in Room, NEW u \in User, Remove(r, u)
      PROVE  RowsSucceed
    <2>1. Succeeds(members[r][u], NoRow)
        BY DEF Succeeds, NoRow, Active
    <2>2. QED
        BY <1>8, <2>1, OneRow DEF Remove
<1>9. ASSUME NEW r \in Room, SetArchived(r) \/ DeleteRoom(r)
      PROVE  RowsSucceed
    <2>1. CASE SetArchived(r)
        BY <1>1, <2>1 DEF SetArchived
    <2>2. CASE DeleteRoom(r)
        <3>1. ASSUME NEW q \in Room, NEW v \in User
              PROVE  members[q][v] \in Member
            BY DEF Shape, TypeOK
        <3>2. ASSUME NEW q \in Room, NEW v \in User
              PROVE  members'[q][v] = IF q = r THEN NoRow ELSE members[q][v]
            BY <2>2 DEF DeleteRoom, Shape, TypeOK
        <3>3. ASSUME NEW q \in Room, NEW v \in User
              PROVE  /\ Succeeds(members[q][v], members[q][v])
                     /\ Succeeds(members[q][v], NoRow)
            BY <3>1 DEF Succeeds, Member, NoRow, Active
        <3>4. QED
            BY <3>2, <3>3 DEF RowsSucceed
    <2>3. QED
        BY <1>9, <2>1, <2>2
<1>10. UNCHANGED vars => UNCHANGED members
    BY DEF vars
<1>11. QED
    BY <1>1, <1>2, <1>3, <1>4, <1>5, <1>6, <1>7, <1>8, <1>9, <1>10 DEF Next, RoomStep

\* A read position only moves forward while its membership lasts, whichever
\* read commands, sends and role changes cross.
THEOREM PositionsMoveForward == Spec => ReadPositionForward
<1>1. Inv /\ [Next]_vars =>
          [\A r \in Room, u \in User :
              members[r][u].role # "none" /\ members'[r][u].role # "none" =>
                  members'[r][u].position >= members[r][u].position]_vars
    BY MembersSucceed DEF Inv, RowsSucceed, Succeeds
<1>2. QED
    BY <1>1, Invariance, PTL DEF Spec, ReadPositionForward

\* Message sequences and boundaries come from the counter.
Drawn ==
    /\ \A m \in MessageId : messages[m].sequence <= counter.message
    /\ \A r \in Room, u \in User : members[r][u].boundary <= counter.message

\* The row a commit leaves: the message of a send is above the counter as it
\* was, and every other message is where it was.
LEMMA CommitDraws ==
    ASSUME Inv, Drawn, NEW w \in Worker, Commit(w), NEW m \in MessageId
    PROVE  /\ messages'[m].sequence <= counter'.message
           /\ counter.message <= counter'.message
           /\ messages[m].room = None /\ messages'[m].room # None =>
                 messages'[m].sequence > counter.message
<1>1. PICK n \in MessageId : n = txn[w].message
    BY DEF Commit, Inv, Shape, TxnShape, TypeOK
<1>2. messages' = [messages EXCEPT ![n] = NewRow(txn[w])]
    BY <1>1, CommitChange
<1>3. counter.message \in Nat /\ messages[n] \in Message /\ messages[m] \in Message
    BY DEF Inv, Shape, TypeOK
<1>4. CASE txn[w].op = "send"
    <2>1. /\ NewRow(txn[w]).sequence = counter.message + 1
          /\ counter'.message = counter.message + 1
        BY <1>4 DEF NewRow, Inserted, Commit
    <2>2. messages'[m] = IF m = n THEN NewRow(txn[w]) ELSE messages[m]
        BY <1>2 DEF Inv, Shape, TypeOK
    <2>3. QED
        BY <1>3, <2>1, <2>2 DEF Drawn, Message
<1>5. CASE txn[w].op # "send"
    <2>1. counter'.message = counter.message
        BY <1>5 DEF Commit
    <2>2. /\ NewRow(txn[w]).sequence = messages[n].sequence
          /\ NewRow(txn[w]).room = messages[n].room
        BY <1>1, <1>3, <1>5 DEF NewRow, Updated, Message
    <2>3. messages'[m] = IF m = n THEN NewRow(txn[w]) ELSE messages[m]
        BY <1>2 DEF Inv, Shape, TypeOK
    <2>4. QED
        BY <1>3, <2>1, <2>2, <2>3 DEF Drawn, Message
<1>6. QED
    BY <1>4, <1>5

LEMMA CommitKeepsMembers ==
    ASSUME NEW w \in Worker, Commit(w)
    PROVE  UNCHANGED members
BY DEF Commit

LEMMA StepDrawn ==
    ASSUME Inv, Drawn, [Next]_vars
    PROVE  Drawn'
<1>1. RowsSucceed
    BY MembersSucceed DEF Inv
<1>2. counter.message \in Nat /\ \A r \in Room, u \in User : members[r][u] \in Member
    BY DEF Inv, Shape, TypeOK
<1>3. CASE \E w \in Worker : Commit(w)
    <2>1. PICK w \in Worker : Commit(w)
        BY <1>3
    <2>2. /\ UNCHANGED members /\ counter'.message \in Nat
          /\ counter'.message >= counter.message
        BY <1>2, <2>1 DEF Commit
    <2>3. \A m \in MessageId : messages'[m].sequence <= counter'.message
        BY <2>1, CommitDraws
    <2>4. QED
        BY <1>2, <2>2, <2>3 DEF Drawn, Member
<1>4. CASE UNCHANGED <<messages, counter>>
    <2>1. ASSUME NEW r \in Room, NEW u \in User
          PROVE  members'[r][u].boundary <= counter.message
        BY <1>1, <1>2 DEF RowsSucceed, Succeeds, Drawn, Member
    <2>2. QED
        BY <1>4, <2>1 DEF Drawn
<1>5. QED
    BY <1>3, <1>4, LogFrame DEF DeleteRoom, AdminStep

\* A Join Boundary splits the history of its room: what is there when a user
\* becomes an active member is below it, what commits later above it, for any
\* sends, approvals and role changes that cross.
THEOREM BoundariesSplitHistory == Spec => BoundarySplitsHistory
<1>1. Init => Drawn
    <2>1. ASSUME Init, NEW r \in Room, NEW u \in User
          PROVE  members[r][u].boundary = 0
        BY <2>1 DEF Init, NoRow
    <2>2. ASSUME Init, NEW m \in MessageId
          PROVE  messages[m].sequence = 0
        BY <2>2 DEF Init, Blank
    <2>3. Init => counter.message = 0
        BY DEF Init
    <2>4. QED
        BY <2>1, <2>2, <2>3 DEF Drawn
<1>2. Inv /\ Drawn /\ [Next]_vars =>
          [\A r \in Room, u \in User, m \in MessageId :
              messages'[m].room = r =>
                /\ members[r][u].role \notin Active /\ members'[r][u].role \in Active
                      => messages'[m].sequence <= members'[r][u].boundary
                /\ messages[m].room = None /\ members[r][u].role # "none"
                      => messages'[m].sequence > members[r][u].boundary]_vars
    <2> SUFFICES ASSUME Inv, Drawn, [Next]_vars, NEW r \in Room, NEW u \in User,
                        NEW m \in MessageId, messages'[m].room = r
                 PROVE  /\ members[r][u].role \notin Active /\ members'[r][u].role \in Active
                              => messages'[m].sequence <= members'[r][u].boundary
                        /\ messages[m].room = None /\ members[r][u].role # "none"
                              => messages'[m].sequence > members[r][u].boundary
        OBVIOUS
    <2>1. /\ counter.message \in Nat /\ members[r][u].boundary \in Nat
          /\ Succeeds(members[r][u], members'[r][u]) /\ r # None
        BY MembersSucceed, ConstantsAssumption
           DEF Inv, Shape, TypeOK, Member, RowsSucceed
    <2>2. CASE UNCHANGED messages
        BY <2>1, <2>2 DEF Succeeds, Drawn
    <2>3. CASE \E w \in Worker : Commit(w)
        <3>1. PICK w \in Worker : Commit(w)
            BY <2>3
        <3>2. messages[m].room = None => messages'[m].sequence > counter.message
            BY <2>1, <3>1, CommitDraws
        <3>3. messages'[m].sequence \in Nat
            BY StepShape DEF Inv, Shape, TypeOK, Message
        <3>4. QED
            BY <2>1, <3>1, <3>2, <3>3, CommitKeepsMembers DEF Drawn
    <2>4. QED
        BY <2>2, <2>3, OnlyCommitsWrite
<1>3. QED
    BY <1>1, <1>2, Invariance, StepDrawn, PTL DEF Spec, BoundarySplitsHistory

-----------------------------------------------------------------------------
(* What is heard of a command.                                             *)

\* A receipt names the recall it found.
ReceiptsName ==
    \A q \in receipts :
        \E c \in Of(q.message) : c.sequence = q.change /\ c.kind = "recalled"

\* The change c is what the key of the transaction t stands for.
OwnChange(t, c) ==
    /\ c.sequence = t.change
    /\ c.kind = KindOf(t.op)
    /\ \/ c.actor = t.user /\ c.command = t.command
       \/ [actor |-> t.user, command |-> t.command,
           message |-> c.message, change |-> c.sequence] \in receipts

\* A transaction past its commit has a message, and its answer while the
\* message can be read.
AnswerStands(t) ==
    t.phase \in {"committed", "announced"} =>
        /\ messages[t.message].room # None
        /\ Stored(t.message) => \E c \in Of(t.message) : OwnChange(t, c)

AnswersStand == \A w \in Worker : AnswerStands(txn[w])

\* A change committed and not handed to the publisher yet.
Pending(w) == txn[w].phase = "committed" /\ ~txn[w].replayed

\* It has not been handed over by anybody, nor will anybody else do so.
PendingOnce ==
    /\ \A w \in Worker : Pending(w) =>
          /\ txn[w].change <= counter.change
          /\ \A i \in DOMAIN events : events[i] # txn[w].change
    /\ \A v, w \in Worker :
          Pending(v) /\ Pending(w) /\ txn[v].change = txn[w].change => v = w

EventInv == AnnouncedAtMostOnce /\ PendingOnce

HeardInv == Inv /\ ReceiptsName /\ AnswersStand /\ EventInv

\* The log of a message that exists stays as long as the message can be read.
LEMMA LogStays ==
    ASSUME Inv, [Next]_vars, NEW m \in MessageId, messages[m].room # None
    PROVE  /\ messages'[m].room = messages[m].room
           /\ Stored(m)' => /\ Stored(m)
                            /\ Of(m) \subseteq Of(m)'
                            /\ \A q \in receipts : q.message = m => q \in receipts'
<1> USE DEF tables
<1>1. ASSUME UNCHANGED <<messages, status>>, changes \subseteq changes',
             receipts \subseteq receipts'
      PROVE  /\ messages'[m].room = messages[m].room
             /\ Stored(m)' => /\ Stored(m)
                              /\ Of(m) \subseteq Of(m)'
                              /\ \A q \in receipts : q.message = m => q \in receipts'
    BY <1>1 DEF Stored, Of
<1>2. ASSUME NEW w \in Worker, Commit(w)
      PROVE  /\ messages'[m].room = messages[m].room
             /\ Stored(m)' => /\ Stored(m)
                              /\ Of(m) \subseteq Of(m)'
                              /\ \A q \in receipts : q.message = m => q \in receipts'
    <2>1. PICK c : c = NewChange(txn[w])
        OBVIOUS
    <2>2. /\ txn[w].phase = "written"
          /\ changes' = changes \cup {c}
          /\ messages' = [messages EXCEPT ![txn[w].message] = NewRow(txn[w])]
          /\ UNCHANGED <<receipts, status>>
        BY <1>2, <2>1, CommitChange DEF Commit
    <2>3. c.message = txn[w].message /\ NewRow(txn[w]).room = c.room
          /\ (c.kind = "created" => Of(c.message) = {})
          /\ (c.kind # "created" => messages[c.message].room = c.room)
          /\ c.kind = KindOf(txn[w].op)
        BY <1>2, <2>1, <2>2, CommitFacts, CommitChange DEF Inv
    <2>4. messages'[m].room = messages[m].room
        <3>1. CASE m # txn[w].message
            BY <2>2, <3>1 DEF Inv, Shape, TypeOK
        <3>2. CASE m = txn[w].message /\ txn[w].op # "send"
            <4>1. c.kind # "created"
                BY <2>2, <2>3, <3>2 DEF KindOf, Inv, Shape, TxnShape, Op
            <4>2. QED
                BY <2>2, <2>3, <3>2, <4>1 DEF Inv, Shape, TypeOK
        <3>3. CASE m = txn[w].message /\ txn[w].op = "send"
            BY <2>2, <3>3 DEF Inv, HistoryInv, FreshRow, Blank
        <3>4. QED
            BY <3>1, <3>2, <3>3
    <2>5. QED
        BY <2>2, <2>4 DEF Stored, Of
<1>3. ASSUME NEW r \in Room, DeleteRoom(r)
      PROVE  /\ messages'[m].room = messages[m].room
             /\ Stored(m)' => /\ Stored(m)
                              /\ Of(m) \subseteq Of(m)'
                              /\ \A q \in receipts : q.message = m => q \in receipts'
    <2>1. /\ UNCHANGED messages
          /\ status' = [status EXCEPT ![r] = "deleted"]
          /\ changes' = {c \in changes : c.room # r}
          /\ receipts' = {q \in receipts : messages[q.message].room # r}
        BY <1>3 DEF DeleteRoom, AdminStep
    <2>2. /\ status \in [Room -> {"open", "archived", "deleted"}]
          /\ messages[m].room \in Room
        BY DEF Inv, Shape, TypeOK, Message
    <2>3. Stored(m)' => Stored(m) /\ messages[m].room # r
        BY <2>1, <2>2 DEF Stored
    <2>4. messages[m].room # r => Of(m) \subseteq Of(m)'
        BY <2>1 DEF Inv, HistoryInv, LogRooms, Of
    <2>5. QED
        BY <2>1, <2>3, <2>4
<1>4. ASSUME NEW r \in Room, SetArchived(r)
      PROVE  /\ messages'[m].room = messages[m].room
             /\ Stored(m)' => /\ Stored(m)
                              /\ Of(m) \subseteq Of(m)'
                              /\ \A q \in receipts : q.message = m => q \in receipts'
    BY <1>4 DEF SetArchived, AdminStep, Stored, Of, Inv, Shape, TypeOK
<1>5. ASSUME NEW w \in Worker, WorkerStep(w), ~Commit(w)
      PROVE  /\ UNCHANGED <<messages, status, changes>>
             /\ receipts \subseteq receipts'
    <2>1. CASE ClearChange(w)
        BY <2>1 DEF ClearChange, Recorded, RecordNoop
    <2>2. CASE ClearSend(w) \/ Write(w) \/ Announce(w) \/ AdvanceOwnRead(w)
                  \/ Crash(w)
        BY <2>2 DEF ClearSend, Write, Announce, AdvanceOwnRead, Crash
    <2>3. QED
        BY <1>5, <2>1, <2>2 DEF WorkerStep, BeginSend, BeginChange
<1>6. ASSUME NEW u \in User, NEW n \in MessageId, NEW k \in ReadCommand,
             MarkRead(u, n, k)
      PROVE  UNCHANGED <<messages, status, changes, receipts>>
    BY <1>6 DEF MarkRead
<1>7. ASSUME NEW r \in Room, NEW u \in User,
             \/ \E role \in {"member", "pending"} : Join(r, u, role)
             \/ \E role \in Active : SetRole(r, u, role)
             \/ SetMuted(r, u)
             \/ Remove(r, u)
      PROVE  UNCHANGED <<messages, status, changes, receipts>>
    BY <1>7 DEF Join, SetRole, SetMuted, Remove, AdminStep
<1>8. CASE UNCHANGED vars
    BY <1>1, <1>8 DEF vars
<1>9. QED
    BY <1>1, <1>2, <1>3, <1>4, <1>5, <1>6, <1>7, <1>8 DEF Next, RoomStep

\* An answer that stands keeps standing.
LEMMA AnswerStays ==
    ASSUME Inv, [Next]_vars, NEW t, AnswerStands(t),
           t.phase \in {"committed", "announced"} => t.message \in MessageId
    PROVE  AnswerStands(t)'
<1> SUFFICES ASSUME t.phase \in {"committed", "announced"}
             PROVE  AnswerStands(t)'
    BY DEF AnswerStands
<1>1. /\ messages[t.message].room # None
      /\ Stored(t.message) => \E c \in Of(t.message) : OwnChange(t, c)
    BY DEF AnswerStands
<1>2. /\ messages'[t.message].room = messages[t.message].room
      /\ Stored(t.message)' =>
            /\ Stored(t.message)
            /\ Of(t.message) \subseteq Of(t.message)'
            /\ \A q \in receipts : q.message = t.message => q \in receipts'
    BY <1>1, LogStays
<1>3. ASSUME Stored(t.message)'
      PROVE  \E c \in Of(t.message)' : OwnChange(t, c)'
    <2>1. PICK c \in Of(t.message) : OwnChange(t, c)
        BY <1>1, <1>2, <1>3
    <2>2. c.message = t.message
        BY DEF Of
    <2>3. OwnChange(t, c)'
        BY <1>2, <1>3, <2>1, <2>2 DEF OwnChange
    <2>4. QED
        BY <1>2, <1>3, <2>3
<1>4. QED
    BY <1>1, <1>2, <1>3 DEF AnswerStands

\* Answers stand and receipts name recalls after every step.
LEMMA ReceiptsStep ==
    ASSUME Inv, ReceiptsName, [Next]_vars
    PROVE  ReceiptsName'
<1> USE DEF tables
<1>1. ASSUME NEW q \in receipts, q \in receipts'
      PROVE  \E c \in Of(q.message)' : c.sequence = q.change /\ c.kind = "recalled"
    <2>1. PICK c \in Of(q.message) : c.sequence = q.change /\ c.kind = "recalled"
        BY DEF ReceiptsName
    <2>2. c \in changes /\ c.message = q.message /\ q.message \in MessageId
        BY DEF Of, Inv, Shape, TypeOK, Receipt
    <2>3. messages[q.message].room # None
        BY <2>2 DEF Inv, HistoryInv, NoHistoryYet, Of
    <2>4. CASE \E r \in Room : DeleteRoom(r)
        <3>1. PICK r \in Room : DeleteRoom(r)
            BY <2>4
        <3>2. c \in changes'
            BY <1>1, <2>2, <3>1 DEF DeleteRoom, Inv, HistoryInv, LogRooms
        <3>3. QED
            BY <2>1, <2>2, <3>2 DEF Of
    <2>5. CASE \E w \in Worker : Commit(w)
        <3>1. changes \subseteq changes'
            BY <2>5, CommitChange
        <3>2. QED
            BY <2>1, <2>2, <3>1 DEF Of
    <2>6. CASE UNCHANGED <<counter, messages, changes>>
        BY <2>1, <2>6 DEF Of
    <2>7. QED
        BY <2>4, <2>5, <2>6, LogFrame
<1>2. ASSUME NEW w \in Worker, ClearChange(w), NEW q \in receipts' \ receipts
      PROVE  \E c \in Of(q.message)' : c.sequence = q.change /\ c.kind = "recalled"
    <2>1. RecordNoop(w) /\ UNCHANGED changes
        BY <1>2 DEF ClearChange, Recorded
    <2>2. PICK c \in Of(txn[w].message) :
              /\ c.kind = "recalled"
              /\ receipts' = receipts \cup
                   {[actor |-> txn[w].user, command |-> txn[w].command,
                     message |-> txn[w].message, change |-> c.sequence]}
        BY <2>1 DEF RecordNoop
    <2>3. q.message = txn[w].message /\ q.change = c.sequence
        BY <1>2, <2>2
    <2>4. QED
        BY <2>1, <2>2, <2>3 DEF Of
<1>3. ASSUME NEW w \in Worker, WorkerStep(w), ~ClearChange(w)
      PROVE  receipts' \subseteq receipts
    <2>1. CASE ClearSend(w) \/ Write(w) \/ Commit(w) \/ Announce(w)
                  \/ AdvanceOwnRead(w) \/ Crash(w)
        BY <2>1 DEF ClearSend, Write, Commit, Announce, AdvanceOwnRead, Crash
    <2>2. QED
        BY <1>3, <2>1 DEF WorkerStep, BeginSend, BeginChange
<1>4. ASSUME RoomStep
      PROVE  receipts' \subseteq receipts
    BY <1>4
    DEF RoomStep, Join, SetRole, SetMuted, Remove, SetArchived, DeleteRoom, AdminStep
<1>5. ASSUME NEW q \in receipts' \ receipts
      PROVE  \E w \in Worker : ClearChange(w)
    BY <1>3, <1>4, <1>5 DEF Next, MarkRead, vars
<1>6. QED
    BY <1>1, <1>2, <1>5 DEF ReceiptsName

LEMMA AnswersStep ==
    ASSUME Inv, ReceiptsName, AnswersStand, [Next]_vars
    PROVE  AnswersStand'
<1> USE DEF tables
<1>1. ASSUME NEW v \in Worker, txn'[v] = txn[v]
      PROVE  AnswerStands(txn[v])'
    <2>1. AnswerStands(txn[v])
        BY DEF AnswersStand
    <2>2. txn[v].phase \in {"committed", "announced"} => txn[v].message \in MessageId
        BY DEF Inv, Shape, TxnShape
    <2>3. ASSUME NEW t, t = txn[v]
          PROVE  AnswerStands(t)'
        BY <2>1, <2>2, <2>3, AnswerStays
    <2>4. QED
        BY <1>1, <2>3
<1>2. ASSUME NEW w \in Worker, WorkerStep(w)
      PROVE  AnswerStands(txn[w])'
    <2>0. TxnShape(txn[w]) /\ txn[w] \in Txn /\ txn \in [Worker -> Txn]
        BY DEF Inv, Shape, TypeOK
    \* An answer found in the log or in the receipts.
    <2>1. ASSUME NEW c \in changes', NEW m \in MessageId, c.message = m,
                 messages[m].room # None,
                 Replay(w, m, c.sequence), c.kind = KindOf(txn[w].op),
                 \/ c.actor = txn[w].user /\ c.command = txn[w].command
                 \/ [actor |-> txn[w].user, command |-> txn[w].command,
                     message |-> m, change |-> c.sequence] \in receipts',
                 UNCHANGED messages
          PROVE  AnswerStands(txn[w])'
        <3>1. txn'[w] = [txn[w] EXCEPT !.phase = "committed", !.message = m,
                            !.change = c.sequence, !.replayed = TRUE]
            BY <2>0, <2>1 DEF Replay, Txn
        <3>2. /\ txn'[w].message = m /\ txn'[w].change = c.sequence
              /\ txn'[w].op = txn[w].op /\ txn'[w].user = txn[w].user
              /\ txn'[w].command = txn[w].command
            BY <2>0, <3>1 DEF Txn
        <3>3. c \in Of(m)'
            BY <2>1 DEF Of
        <3>4. OwnChange(txn[w], c)'
            BY <2>1, <3>2 DEF OwnChange
        <3>5. QED
            BY <2>1, <3>2, <3>3, <3>4 DEF AnswerStands
    <2>2. ASSUME txn'[w].phase \notin {"committed", "announced"}
          PROVE  AnswerStands(txn[w])'
        BY <2>2 DEF AnswerStands
    <2>3. ASSUME NEW c \in changes
          PROVE  c.message \in MessageId /\ messages[c.message].room # None
        <3>1. c.message \in MessageId
            BY DEF Inv, Shape, TypeOK, Change
        <3>2. QED
            BY <3>1 DEF Inv, HistoryInv, NoHistoryYet, Of
    <2>4. End(w) => txn'[w].phase = "idle"
        BY <2>0 DEF End, Idle
    <2>5. ASSUME NEW p, Move(w, p)
          PROVE  txn'[w] = [txn[w] EXCEPT !.phase = p] /\ txn'[w].phase = p
        BY <2>0, <2>5 DEF Move, Txn
    <2>6. CASE ClearSend(w)
        <3>1. ASSUME NEW c \in PriorChanges(txn[w].user, txn[w].command),
                     c.kind = "created", Replay(w, c.message, c.sequence)
              PROVE  AnswerStands(txn[w])'
            <4>1. txn[w].op = "send" /\ KindOf("send") = "created"
                BY <2>0, <2>6 DEF ClearSend, TxnShape, KindOf
            <4>2. UNCHANGED <<messages, changes>>
                BY <2>6 DEF ClearSend
            <4>3. /\ c \in changes /\ c.actor = txn[w].user
                  /\ c.command = txn[w].command
                BY DEF PriorChanges
            <4>4. QED
                BY <2>1, <2>3, <3>1, <4>1, <4>2, <4>3
        <3>2. QED
            BY <2>2, <2>4, <2>5, <2>6, <3>1 DEF ClearSend
    <2>7. CASE ClearChange(w)
        <3>0. UNCHANGED <<messages, changes>>
            BY <2>7 DEF ClearChange
        <3>1. CASE Recorded(w)
            <4>1. ASSUME NEW c \in PriorChanges(txn[w].user, txn[w].command),
                         c.kind = KindOf(txn[w].op),
                         Replay(w, c.message, c.sequence)
                  PROVE  AnswerStands(txn[w])'
                <5>1. /\ c \in changes /\ c.actor = txn[w].user
                      /\ c.command = txn[w].command
                    BY DEF PriorChanges
                <5>2. QED
                    BY <2>1, <2>3, <3>0, <4>1, <5>1
            <4>2. ASSUME NEW q \in PriorReceipts(txn[w].user, txn[w].command),
                         txn[w].op = "recall", UNCHANGED receipts,
                         Replay(w, q.message, q.change)
                  PROVE  AnswerStands(txn[w])'
                <5>1. /\ q \in receipts' /\ q \in Receipt
                      /\ q.actor = txn[w].user /\ q.command = txn[w].command
                    BY <4>2 DEF PriorReceipts, Inv, Shape, TypeOK
                <5>2. PICK c \in Of(q.message) :
                          c.sequence = q.change /\ c.kind = "recalled"
                    BY <4>2, <5>1 DEF ReceiptsName
                <5>3. c \in changes /\ c.message = q.message
                    BY DEF Of
                <5>4. q = [actor |-> txn[w].user, command |-> txn[w].command,
                           message |-> c.message, change |-> c.sequence]
                    BY <5>1, <5>2, <5>3 DEF Receipt
                <5>5. c.kind = KindOf(txn[w].op)
                    BY <4>2, <5>2 DEF KindOf
                <5>6. QED
                    BY <2>1, <2>3, <3>0, <4>2, <5>1, <5>2, <5>3, <5>4, <5>5
            <4>3. QED
                BY <3>1, <4>1, <4>2 DEF Recorded
        <3>2. CASE RecordNoop(w) /\ txn[w].op = "recall"
            <4>1. PICK c \in Of(txn[w].message) :
                    /\ c.kind = "recalled"
                    /\ receipts' = receipts \cup
                         {[actor |-> txn[w].user, command |-> txn[w].command,
                           message |-> txn[w].message, change |-> c.sequence]}
                    /\ Replay(w, txn[w].message, c.sequence)
                BY <3>2 DEF RecordNoop
            <4>2. c \in changes /\ c.message = txn[w].message
                BY DEF Of
            <4>3. c.kind = KindOf(txn[w].op)
                BY <3>2, <4>1 DEF KindOf
            <4>4. QED
                BY <2>1, <2>3, <3>0, <4>1, <4>2, <4>3
        <3>3. QED
            BY <2>2, <2>4, <2>5, <2>7, <3>1, <3>2 DEF ClearChange
    <2>8. CASE Commit(w)
        <3>1. PICK c : c = NewChange(txn[w])
            OBVIOUS
        <3>2. /\ changes' = changes \cup {c}
              /\ messages' = [messages EXCEPT ![txn[w].message] = NewRow(txn[w])]
              /\ c.sequence = txn[w].change /\ c.message = txn[w].message
              /\ c.kind = KindOf(txn[w].op) /\ c.actor = txn[w].user
              /\ c.command = txn[w].command
              /\ txn[w].phase = "written" /\ Move(w, "committed")
            BY <2>8, <3>1, CommitChange DEF Commit
        <3>3. /\ txn'[w].message = txn[w].message /\ txn'[w].op = txn[w].op
              /\ txn'[w].change = txn[w].change /\ txn'[w].user = txn[w].user
              /\ txn'[w].command = txn[w].command
            BY <2>0, <2>5, <3>2 DEF Txn
        <3>4. txn[w].message \in MessageId
            BY <2>0, <3>2 DEF TxnShape
        <3>5. messages'[txn[w].message].room # None
            <4>1. NewRow(txn[w]).room = c.room /\ c.room \in Room
                BY <2>8, <3>1, <3>2, CommitFacts DEF Inv
            <4>2. QED
                BY <3>2, <3>4, <4>1, ConstantsAssumption DEF Inv, Shape, TypeOK
        <3>6. c \in Of(txn[w].message)' /\ OwnChange(txn[w], c)'
            BY <3>2, <3>3 DEF Of, OwnChange
        <3>7. QED
            BY <3>3, <3>5, <3>6 DEF AnswerStands
    <2>9. CASE Announce(w)
        <3>1. CASE End(w)
            BY <2>2, <2>4, <3>1
        <3>2. CASE Move(w, "announced")
            <4>1. /\ txn'[w].message = txn[w].message /\ txn'[w].op = txn[w].op
                  /\ txn'[w].change = txn[w].change /\ txn'[w].user = txn[w].user
                  /\ txn'[w].command = txn[w].command
                BY <2>0, <2>5, <3>2 DEF Txn
            <4>2. AnswerStands(txn[w]) /\ txn[w].phase = "committed"
                BY <2>9 DEF AnswersStand, Announce
            <4>3. UNCHANGED <<messages, changes, receipts, status>>
                BY <2>9 DEF Announce
            <4>4. QED
                BY <4>1, <4>2, <4>3 DEF AnswerStands, Stored, Of, OwnChange
        <3>3. QED
            BY <2>9, <3>1, <3>2 DEF Announce
    <2>10. CASE AdvanceOwnRead(w) \/ Crash(w)
        BY <2>2, <2>4, <2>10 DEF AdvanceOwnRead, Crash
    <2>11. CASE Write(w)
        BY <2>2, <2>11, WriteTxn DEF Inv
    <2>12. ASSUME NEW u \in User, NEW r \in Room, NEW k \in Command,
                  BeginSend(w, u, r, k)
           PROVE  AnswerStands(txn[w])'
        BY <2>0, <2>2, <2>12 DEF BeginSend, Idle
    <2>13. ASSUME NEW op \in {"edit", "recall"}, NEW u \in User,
                  NEW m \in MessageId, NEW k \in Command,
                  NEW e \in 1..messages[m].revision, BeginChange(w, op, u, m, k, e)
           PROVE  AnswerStands(txn[w])'
        BY <2>0, <2>2, <2>13 DEF BeginChange, Idle
    <2>14. QED
        BY <1>2, <2>6, <2>7, <2>8, <2>9, <2>10, <2>11, <2>12, <2>13 DEF WorkerStep
<1>3. ASSUME NEW w \in Worker, WorkerStep(w)
      PROVE  \A v \in Worker : v # w => txn'[v] = txn[v]
    <2>1. CASE Write(w)
        BY <2>1, WriteTxn DEF Inv
    <2>2. CASE ClearSend(w) \/ ClearChange(w)
        BY <2>2, ClearSendTxn, ClearChangeTxn DEF Inv, Releases, Enters
    <2>3. CASE Announce(w) \/ AdvanceOwnRead(w) \/ Crash(w)
        BY <2>3, AfterCommitTxn DEF Inv, Releases
    <2>4. CASE Commit(w)
        BY <2>4, CommitTxn DEF Inv, Releases
    <2>5. QED
        BY <1>3, <2>1, <2>2, <2>3, <2>4
        DEF WorkerStep, BeginSend, BeginChange, Inv, Shape, TypeOK
<1>4. CASE UNCHANGED txn
    BY <1>1, <1>4 DEF AnswersStand
<1>5. CASE \E w \in Worker : WorkerStep(w)
    BY <1>1, <1>2, <1>3, <1>5 DEF AnswersStand
<1>6. RoomStep => UNCHANGED txn
    BY DEF RoomStep, Join, SetRole, SetMuted, Remove, SetArchived, DeleteRoom, AdminStep
<1>7. QED
    BY <1>4, <1>5, <1>6 DEF Next, MarkRead, vars

\* Committed changes wait for the publisher once each, and below the counter.
LEMMA EventsStep ==
    ASSUME Inv, EventInv, [Next]_vars
    PROVE  EventInv'
<1> USE DEF tables
<1>0. events \in Seq(Nat) /\ txn \in [Worker -> Txn]
    BY DEF Inv, Shape, TypeOK
<1>1. ASSUME UNCHANGED <<events, counter>>,
             \A v \in Worker : Pending(v)' =>
                 Pending(v) /\ txn'[v].change = txn[v].change
      PROVE  EventInv'
    BY <1>1 DEF EventInv, AnnouncedAtMostOnce, PendingOnce
<1>2. ASSUME NEW w \in Worker, UNCHANGED <<events, counter>>,
             \A v \in Worker : v # w => txn'[v] = txn[v], ~Pending(w)'
      PROVE  EventInv'
    BY <1>1, <1>2 DEF Pending
<1>3. ASSUME NEW w \in Worker, Commit(w)
      PROVE  EventInv'
    <2>1. /\ txn[w].phase = "written" /\ txn[w].change = counter.change + 1
          /\ counter'.change = txn[w].change /\ UNCHANGED events
          /\ Move(w, "committed")
          /\ counter.change \in Nat
        BY <1>3 DEF Commit, Inv, CounterInv, NextSequence, Shape, TypeOK
    <2>2. /\ \A v \in Worker : v # w => txn'[v] = txn[v]
          /\ txn'[w].change = txn[w].change
        BY <1>0, <2>1 DEF Move, Txn
    <2>3. \A i \in DOMAIN events : events[i] \in Nat /\ events[i] <= counter.change
        BY <1>0 DEF EventInv, AnnouncedAtMostOnce
    <2>4. \A v \in Worker : Pending(v) => txn[v].change <= counter.change
                                          /\ txn[v].change \in Nat
        BY <1>0 DEF EventInv, PendingOnce, Txn
    <2>5. AnnouncedAtMostOnce'
        BY <2>1, <2>3 DEF EventInv, AnnouncedAtMostOnce
    <2>6. PendingOnce'
        <3>1. ASSUME NEW v \in Worker, Pending(v)'
              PROVE  /\ txn'[v].change <= counter'.change
                     /\ \A i \in DOMAIN events' : events'[i] # txn'[v].change
            <4>1. CASE v = w
                BY <2>1, <2>2, <2>3, <4>1
            <4>2. CASE v # w
                BY <2>1, <2>2, <2>4, <3>1, <4>2 DEF Pending, EventInv, PendingOnce
            <4>3. QED
                BY <4>1, <4>2
        <3>2. ASSUME NEW v \in Worker, v # w, Pending(v)'
              PROVE  Pending(v) /\ txn'[v].change # txn'[w].change
            BY <2>1, <2>2, <2>4, <3>2 DEF Pending
        <3>3. ASSUME NEW u \in Worker, NEW v \in Worker, Pending(u)', Pending(v)',
                     txn'[u].change = txn'[v].change
              PROVE  u = v
            BY <2>2, <3>2, <3>3 DEF EventInv, PendingOnce
        <3>4. QED
            BY <3>1, <3>3 DEF PendingOnce
    <2>7. QED
        BY <2>5, <2>6 DEF EventInv
<1>4. ASSUME NEW w \in Worker, Announce(w)
      PROVE  EventInv'
    <2>1. Releases(w) /\ UNCHANGED counter
        BY <1>4, AfterCommitTxn DEF Inv
    <2>2. ~Pending(w)'
        BY <1>0, <1>4 DEF Announce, End, Move, Idle, Pending, Txn
    <2>3. \A v \in Worker : v # w => txn'[v] = txn[v]
        BY <2>1 DEF Releases
    <2>4. CASE UNCHANGED events
        BY <1>2, <2>1, <2>2, <2>3, <2>4
    <2>5. CASE ~txn[w].replayed /\ events' = Append(events, txn[w].change)
        <3>1. Pending(w)
            BY <1>4, <2>5 DEF Pending, Announce
        <3>2. PICK n : n = txn[w].change
            OBVIOUS
        <3>3. /\ n \in Nat /\ n <= counter.change
              /\ \A i \in DOMAIN events : events[i] # n
            BY <1>0, <3>1, <3>2 DEF EventInv, PendingOnce, Txn
        <3>4. /\ DOMAIN events' = 1..(Len(events) + 1)
              /\ DOMAIN events = 1..Len(events)
              /\ events'[Len(events) + 1] = n
              /\ \A i \in 1..Len(events) : events'[i] = events[i]
              /\ Len(events) \in Nat
            BY <1>0, <2>5, <3>2, <3>3
        <3>5. \A i \in DOMAIN events' : i \in DOMAIN events \/ i = Len(events) + 1
            BY <3>4
        <3>6. AnnouncedAtMostOnce'
            <4>1. \A i \in DOMAIN events' : events'[i] <= counter.change
                BY <3>3, <3>4, <3>5 DEF EventInv, AnnouncedAtMostOnce
            <4>2. \A i, j \in DOMAIN events' : events'[i] = events'[j] => i = j
                BY <3>3, <3>4, <3>5 DEF EventInv, AnnouncedAtMostOnce
            <4>3. QED
                BY <2>1, <4>1, <4>2 DEF AnnouncedAtMostOnce
        <3>7. ASSUME NEW v \in Worker, Pending(v)'
              PROVE  v # w /\ Pending(v) /\ txn'[v] = txn[v] /\ txn[v].change # n
            <4>1. v # w /\ txn'[v] = txn[v]
                BY <2>2, <2>3, <3>7
            <4>2. Pending(v)
                BY <3>7, <4>1 DEF Pending
            <4>3. QED
                BY <3>1, <3>2, <4>1, <4>2 DEF EventInv, PendingOnce
        <3>8. PendingOnce'
            BY <2>1, <3>3, <3>4, <3>5, <3>7 DEF EventInv, PendingOnce
        <3>9. QED
            BY <3>6, <3>8 DEF EventInv
    <2>6. QED
        BY <1>4, <2>4, <2>5 DEF Announce, Published
<1>5. ASSUME NEW w \in Worker, WorkerStep(w), ~Commit(w), ~Announce(w)
      PROVE  EventInv'
    <2>1. ASSUME Enters(w, "cleared")
          PROVE  ~Pending(w)'
        BY <1>0, <2>1 DEF Enters, Pending, Txn
    <2>2. ASSUME End(w) \/ (\E m, n : Replay(w, m, n))
          PROVE  ~Pending(w)'
        <3>1. End(w) => txn'[w].phase = "idle"
            BY <1>0 DEF End, Idle
        <3>2. ASSUME NEW m, NEW n, Replay(w, m, n)
              PROVE  txn'[w].replayed = TRUE
            BY <1>0, <3>2 DEF Replay, Txn
        <3>3. QED
            BY <2>2, <3>1, <3>2 DEF Pending
    <2>3. Move(w, "cleared") => ~Pending(w)'
        BY <2>1, MoveEnters DEF Inv
    <2>4. CASE ClearSend(w)
        <3>1. ~Pending(w)' /\ UNCHANGED <<events, counter>>
            BY <2>2, <2>3, <2>4 DEF ClearSend
        <3>2. QED
            BY <1>2, <2>4, <3>1, ClearSendTxn DEF Inv, Releases, Enters
    <2>5. CASE ClearChange(w)
        <3>1. ~Pending(w)' /\ UNCHANGED <<events, counter>>
            BY <2>2, <2>3, <2>5 DEF ClearChange, Recorded, RecordNoop
        <3>2. QED
            BY <1>2, <2>5, <3>1, ClearChangeTxn DEF Inv, Releases, Enters
    <2>6. CASE Write(w)
        <3>1. ~Pending(w)' /\ UNCHANGED <<events, counter>>
            BY <2>6, WriteTxn DEF Write, Pending, Inv
        <3>2. QED
            BY <1>2, <2>6, <3>1, WriteTxn DEF Inv
    <2>7. CASE AdvanceOwnRead(w) \/ Crash(w)
        <3>1. ~Pending(w)' /\ UNCHANGED <<events, counter>>
            BY <2>2, <2>7 DEF AdvanceOwnRead, Crash
        <3>2. QED
            BY <1>2, <2>7, <3>1, AfterCommitTxn DEF Inv, Releases
    <2>8. ASSUME NEW u \in User, NEW r \in Room, NEW k \in Command,
                 BeginSend(w, u, r, k)
          PROVE  EventInv'
        BY <1>0, <1>2, <2>8 DEF BeginSend, Pending, Idle
    <2>9. ASSUME NEW op \in {"edit", "recall"}, NEW u \in User,
                 NEW m \in MessageId, NEW k \in Command,
                 NEW e \in 1..messages[m].revision, BeginChange(w, op, u, m, k, e)
          PROVE  EventInv'
        BY <1>0, <1>2, <2>9 DEF BeginChange, Pending, Idle
    <2>10. QED
        BY <1>5, <2>4, <2>5, <2>6, <2>7, <2>8, <2>9 DEF WorkerStep
<1>6. ASSUME UNCHANGED <<events, counter, txn>>
      PROVE  EventInv'
    BY <1>1, <1>6 DEF Pending
<1>7. RoomStep => UNCHANGED <<events, counter, txn>>
    BY DEF RoomStep, Join, SetRole, SetMuted, Remove, SetArchived, DeleteRoom, AdminStep
<1>8. QED
    BY <1>3, <1>4, <1>5, <1>6, <1>7 DEF Next, MarkRead, vars

LEMMA HeardInit == Init => HeardInv
<1> SUFFICES ASSUME Init PROVE HeardInv
    OBVIOUS
<1>1. \A w \in Worker : txn[w].phase = "idle"
    BY DEF Init, Idle
<1>2. QED
    BY <1>1, InitInv
    DEF HeardInv, Init, ReceiptsName, AnswersStand, AnswerStands, EventInv,
        AnnouncedAtMostOnce, PendingOnce, Pending

\* The answer to a command names the change its key stands for, for as long as
\* the message can be read, and each committed change is published at most
\* once, whatever is retried or replayed and wherever handlers die.
THEOREM AnswersAndEventsAreOwn == Spec => []HeardAsMade
<1>1. HeardInv /\ [Next]_vars => HeardInv'
    BY StepInv, ReceiptsStep, AnswersStep, EventsStep DEF HeardInv
<1>2. HeardInv => HeardAsMade
    <2> SUFFICES ASSUME HeardInv PROVE HeardAsMade
        OBVIOUS
    <2>1. AnswersWithOwnChange
        BY DEF HeardInv, AnswersStand, AnswerStands, OwnChange, AnswersWithOwnChange
    <2>2. QED
        BY <2>1 DEF HeardInv, EventInv, HeardAsMade
<1>3. QED
    BY <1>1, <1>2, HeardInit, PTL DEF Spec

=============================================================================
