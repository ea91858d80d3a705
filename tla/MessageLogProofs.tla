--------------------------- MODULE MessageLogProofs --------------------------
(***************************************************************************)
(* Proofs about MessageLog, for any number of users, rooms, messages, keys *)
(* and handlers.                                                           *)
(***************************************************************************)
EXTENDS MessageLog, TLAPS

\* What each phase has already fixed of a transaction.
TxnShape(t) ==
    /\ t \in Txn
    /\ t.phase # "idle" =>
          /\ t.op \in Op
          /\ t.user \in User
          /\ t.room \in Room
          /\ t.command \in Command
    /\ t.phase \in {"admitted", "announced"} => t.op = "send"
    /\ t.phase = "rowed" => t.op # "send"
    /\ \/ t.phase \in {"rowed", "written", "committed", "announced"}
       \/ t.phase = "cleared" /\ t.op # "send"
       => t.message \in MessageId
    /\ t.phase \in {"written", "committed", "announced"} => t.change # 0

Shape == TypeOK /\ \A w \in Worker : TxnShape(txn[w])

\* An idle transaction has the shape of one.
LEMMA IdleShape == TxnShape(Idle)
BY DEF TxnShape, Idle, Txn, Phase, Op

\* Replacing one transaction by a well-shaped one keeps all of them well shaped.
LEMMA TxnShapeStep ==
    ASSUME Shape, NEW w \in Worker, NEW t, TxnShape(t),
           txn' = [txn EXCEPT ![w] = t]
    PROVE  /\ txn' \in [Worker -> Txn]
           /\ \A v \in Worker : TxnShape(txn'[v])
BY DEF Shape, TypeOK, TxnShape

\* Shape holds initially.
LEMMA InitShape == Init => Shape
<1> SUFFICES ASSUME Init PROVE Shape
    OBVIOUS
<1> USE ConstantsAssumption DEF Init
<1>1. \A w \in Worker : TxnShape(txn[w])
    BY IdleShape
<1>2. txn \in [Worker -> Txn]
    BY IdleShape DEF TxnShape
<1>3. messages \in [MessageId -> Message]
    BY DEF Blank, Message
<1>4. members \in [Room -> [User -> Member]]
    <2>1. ASSUME NEW r \in Room, NEW u \in User
          PROVE  [NoRow EXCEPT !.role = InitialRole[r][u]] \in Member
        BY DEF NoRow, Member, Role
    <2>2. QED
        BY <2>1
<1>5. counter \in [message : Nat, change : Nat] /\ events \in Seq(Nat)
    OBVIOUS
<1>6. QED
    BY <1>1, <1>2, <1>3, <1>4, <1>5 DEF Shape, TypeOK

\* A step of a handler that only moves its own transaction keeps Shape.
LEMMA MoveShape ==
    ASSUME Shape, NEW w \in Worker, NEW t, TxnShape(t),
           txn' = [txn EXCEPT ![w] = t],
           UNCHANGED <<counter, messages, changes, receipts, reads, members,
                       status, events, admin>>
    PROVE  Shape'
BY TxnShapeStep DEF Shape, TypeOK

LEMMA BeginSendShape ==
    ASSUME Shape, NEW w \in Worker, NEW u \in User, NEW r \in Room,
           NEW k \in Command, BeginSend(w, u, r, k)
    PROVE  Shape'
<1> DEFINE t == [Idle EXCEPT !.phase = "admitted", !.op = "send", !.user = u,
                             !.room = r, !.command = k]
<1>1. TxnShape(t)
    BY DEF TxnShape, Idle, Txn, Phase, Op
<1>2. txn' = [txn EXCEPT ![w] = t]
    BY DEF BeginSend
<1> HIDE DEF t
<1>3. QED
    BY <1>1, <1>2, MoveShape DEF BeginSend, tables

\* Answering from a receipt of a known message and a real change.
LEMMA ReplayShape ==
    ASSUME Shape, NEW w \in Worker, txn[w].phase # "idle",
           NEW m \in MessageId, NEW n \in Nat \ {0}, Replay(w, m, n)
    PROVE  \E t : TxnShape(t) /\ txn' = [txn EXCEPT ![w] = t]
<1> DEFINE t == [txn[w] EXCEPT !.phase = "committed", !.message = m,
                               !.change = n, !.replayed = TRUE]
<1>1. TxnShape(t)
    BY DEF Shape, TxnShape, Txn, Phase, Op
<1>2. txn' = [txn EXCEPT ![w] = t]
    BY DEF Replay, Shape, TypeOK, Txn
<1>3. QED
    BY <1>1, <1>2

LEMMA EndShape ==
    ASSUME NEW w \in Worker, End(w)
    PROVE  \E t : TxnShape(t) /\ txn' = [txn EXCEPT ![w] = t]
BY IdleShape DEF End

LEMMA ClearSendShape ==
    ASSUME Shape, NEW w \in Worker, ClearSend(w)
    PROVE  Shape'
<1>0. TxnShape(txn[w]) /\ txn[w].phase = "admitted"
    BY DEF Shape, ClearSend
<1>1. \E t : TxnShape(t) /\ txn' = [txn EXCEPT ![w] = t]
    <2>1. CASE End(w)
        BY <2>1, EndShape
    <2>2. CASE \E c \in PriorChanges(txn[w].user, txn[w].command) :
                  Replay(w, c.message, c.sequence)
        BY <1>0, <2>2, ReplayShape DEF PriorChanges, Shape, TypeOK, Change
    <2>3. CASE Move(w, "cleared")
        <3> DEFINE t == [txn[w] EXCEPT !.phase = "cleared"]
        <3>1. txn' = [txn EXCEPT ![w] = t]
            BY <2>3 DEF Move, Shape, TypeOK
        <3>2. TxnShape(t)
            BY <1>0 DEF TxnShape, Txn, Phase, Op
        <3>3. QED
            BY <3>1, <3>2
    <2>4. QED
        BY <2>1, <2>2, <2>3 DEF ClearSend
<1>2. QED
    BY <1>1, MoveShape DEF ClearSend, tables

LEMMA BeginChangeShape ==
    ASSUME Shape, NEW w \in Worker, NEW op \in {"edit", "recall"},
           NEW u \in User, NEW m \in MessageId, NEW k \in Command,
           NEW e \in 1..messages[m].revision, BeginChange(w, op, u, m, k, e)
    PROVE  Shape'
<1> DEFINE t == [Idle EXCEPT !.phase = "rowed", !.op = op, !.user = u,
                             !.room = messages[m].room, !.command = k,
                             !.message = m, !.expected = e,
                             !.revision = messages[m].revision,
                             !.recalled = messages[m].recalled]
<1>1. /\ messages[m].room \in Room
      /\ messages[m].revision \in Nat
      /\ messages[m].recalled \in BOOLEAN
      /\ e \in Nat
    BY DEF Shape, TypeOK, BeginChange, Stored, Message
<1>2. TxnShape(t)
    BY <1>1 DEF TxnShape, Idle, Txn, Phase, Op
<1>3. txn' = [txn EXCEPT ![w] = t]
    BY DEF BeginChange
<1> HIDE DEF t
<1>4. QED
    BY <1>2, <1>3, MoveShape DEF BeginChange, tables

\* What the receipt step of an edit or a recall does to the tables: at most it
\* records the key of a recall that found the message recalled.
LEMMA ClearChangeShape ==
    ASSUME Shape, NEW w \in Worker, ClearChange(w)
    PROVE  Shape'
<1>0. TxnShape(txn[w]) /\ txn[w].phase = "rowed" /\ txn[w].message \in MessageId
    BY DEF Shape, ClearChange, TxnShape
<1>1. /\ \E t : TxnShape(t) /\ txn' = [txn EXCEPT ![w] = t]
      /\ receipts' \subseteq Receipt
    <2>0. receipts \subseteq Receipt /\ changes \subseteq Change
        BY DEF Shape, TypeOK
    <2>1. CASE End(w) /\ UNCHANGED receipts
        BY <2>0, <2>1, EndShape
    <2>2. CASE Move(w, "cleared") /\ UNCHANGED receipts
        <3> DEFINE t == [txn[w] EXCEPT !.phase = "cleared"]
        <3>1. txn' = [txn EXCEPT ![w] = t]
            BY <2>2 DEF Move, Shape, TypeOK
        <3>2. TxnShape(t)
            BY <1>0 DEF TxnShape, Txn, Phase, Op
        <3>3. QED
            BY <2>0, <2>2, <3>1, <3>2
    <2>3. CASE Recorded(w)
        <3>1. CASE \E c \in PriorChanges(txn[w].user, txn[w].command) :
                      Replay(w, c.message, c.sequence) /\ UNCHANGED receipts
            BY <1>0, <2>0, <3>1, ReplayShape DEF PriorChanges, Change
        <3>2. CASE \E q \in PriorReceipts(txn[w].user, txn[w].command) :
                      Replay(w, q.message, q.change) /\ UNCHANGED receipts
            BY <1>0, <2>0, <3>2, ReplayShape DEF PriorReceipts, Receipt
        <3>3. QED
            BY <2>3, <3>1, <3>2 DEF Recorded
    <2>4. CASE RecordNoop(w)
        <3>1. PICK c \in Of(txn[w].message) :
                /\ receipts' = receipts \cup
                     {[actor |-> txn[w].user, command |-> txn[w].command,
                       message |-> txn[w].message, change |-> c.sequence]}
                /\ Replay(w, txn[w].message, c.sequence)
            BY <2>4 DEF RecordNoop
        <3>2. c.sequence \in Nat \ {0}
            BY <2>0 DEF Of, Change
        <3>3. receipts' \subseteq Receipt
            BY <1>0, <2>0, <3>1, <3>2 DEF Receipt, TxnShape
        <3>4. QED
            BY <1>0, <3>1, <3>2, <3>3, ReplayShape
    <2>5. QED
        BY <2>1, <2>2, <2>3, <2>4 DEF ClearChange
<1>2. QED
    BY <1>1, TxnShapeStep DEF ClearChange, Shape, TypeOK

LEMMA WriteShape ==
    ASSUME Shape, NEW w \in Worker, Write(w)
    PROVE  Shape'
<1>0. TxnShape(txn[w]) /\ txn[w].phase = "cleared" /\ counter.change \in Nat
    BY DEF Shape, TypeOK, Write
<1>1. PICK m \in MessageId :
        txn' = [txn EXCEPT ![w].phase = "written", ![w].message = m,
                           ![w].change = Allocated]
    BY DEF Write
<1> DEFINE t == [txn[w] EXCEPT !.phase = "written", !.message = m,
                               !.change = Allocated]
<1>a. Allocated \in Nat \ {0}
    BY <1>0 DEF Allocated
<1>2. TxnShape(t)
    BY <1>0, <1>a DEF TxnShape, Txn, Phase, Op
<1>3. txn' = [txn EXCEPT ![w] = t]
    BY <1>1 DEF Shape, TypeOK, Txn
<1> HIDE DEF t
<1>4. QED
    BY <1>2, <1>3, MoveShape DEF Write, tables

\* The row an insert or an update leaves is a message of the transaction's room.
LEMMA RowShape ==
    ASSUME Shape, NEW w \in Worker, txn[w].phase = "written"
    PROVE  /\ txn[w].message \in MessageId
           /\ Inserted(txn[w]) \in Message
           /\ Updated(txn[w]) \in Message
<1>1. TxnShape(txn[w]) /\ counter.message \in Nat
    BY DEF Shape, TypeOK
<1>2. txn[w].message \in MessageId
    BY <1>1 DEF TxnShape
<1>3. Inserted(txn[w]) \in Message
    BY <1>1 DEF Inserted, Message, TxnShape, Txn
<1>4. messages[txn[w].message] \in Message
    BY <1>2 DEF Shape, TypeOK
<1> DEFINE b == messages[txn[w].message].recalled \/ txn[w].op = "recall"
           n == messages[txn[w].message].revision + 1
<1>a. b \in BOOLEAN
    OBVIOUS
<1>b. n \in Nat
    BY <1>4 DEF Message
<1>c. txn[w].change \in Nat
    BY <1>1 DEF TxnShape, Txn
<1>d. Updated(txn[w]) = [messages[txn[w].message] EXCEPT
            !.change = txn[w].change, !.revision = n, !.recalled = b]
    BY <1>4 DEF Updated, Message
<1> HIDE DEF b, n
<1>5. Updated(txn[w]) \in Message
    BY <1>4, <1>a, <1>b, <1>c, <1>d DEF Message
<1>6. QED
    BY <1>2, <1>3, <1>5

LEMMA CommitShape ==
    ASSUME Shape, NEW w \in Worker, Commit(w)
    PROVE  Shape'
<1> DEFINE new == IF txn[w].op = "send" THEN Inserted(txn[w])
                                        ELSE Updated(txn[w])
           c   == [sequence |-> txn[w].change, message |-> txn[w].message,
                   room |-> txn[w].room, revision |-> new.revision,
                   kind |-> KindOf(txn[w].op), actor |-> txn[w].user,
                   command |-> txn[w].command]
           t   == [txn[w] EXCEPT !.phase = "committed"]
<1>0. TxnShape(txn[w]) /\ txn[w].phase = "written"
    BY DEF Shape, Commit
<1>1. new \in Message /\ txn[w].message \in MessageId
    BY <1>0, RowShape
<1>2. new.revision \in Nat \ {0}
    <2>1. CASE txn[w].op = "send"
        BY <2>1 DEF Inserted
    <2>2. CASE txn[w].op # "send"
        <3>1. messages[txn[w].message] \in Message
            BY <1>1 DEF Shape, TypeOK
        <3>2. new = Updated(txn[w])
            BY <2>2
        <3>3. Updated(txn[w]).revision = messages[txn[w].message].revision + 1
            BY <3>1 DEF Updated, Message
        <3>4. QED
            BY <3>1, <3>2, <3>3 DEF Message
    <2>3. QED
        BY <2>1, <2>2
<1>3. messages' = [messages EXCEPT ![txn[w].message] = new]
    BY DEF Commit
<1>4. changes' = changes \cup {c}
    BY DEF Commit
<1>5. txn' = [txn EXCEPT ![w] = t]
    BY DEF Commit, Move, Shape, TypeOK
<1> HIDE DEF new
<1>6. KindOf(txn[w].op) \in Kind
    BY <1>0 DEF KindOf, Kind, TxnShape, Op
<1>7. c \in Change
    BY <1>0, <1>1, <1>2, <1>6 DEF Change, TxnShape, Txn
<1>8. TxnShape(t)
    BY <1>0 DEF TxnShape, Txn, Phase, Op
<1> HIDE DEF c, t
<1>9. counter' \in [message : Nat, change : Nat]
    BY <1>0 DEF Commit, Shape, TypeOK, TxnShape, Txn
<1>10. QED
    BY <1>1, <1>3, <1>4, <1>5, <1>7, <1>8, <1>9, TxnShapeStep
    DEF Commit, Shape, TypeOK

LEMMA AnnounceShape ==
    ASSUME Shape, NEW w \in Worker, Announce(w)
    PROVE  Shape'
<1>0. TxnShape(txn[w]) /\ txn[w].phase = "committed"
    BY DEF Shape, Announce
<1>1. \E t : TxnShape(t) /\ txn' = [txn EXCEPT ![w] = t]
    <2>1. CASE End(w)
        BY <2>1, EndShape
    <2>2. CASE Move(w, "announced") /\ txn[w].op = "send"
        <3> DEFINE t == [txn[w] EXCEPT !.phase = "announced"]
        <3>1. txn' = [txn EXCEPT ![w] = t]
            BY <2>2 DEF Move, Shape, TypeOK
        <3>2. TxnShape(t)
            BY <1>0, <2>2 DEF TxnShape, Txn, Phase, Op
        <3>3. QED
            BY <3>1, <3>2
    <2>3. QED
        BY <2>1, <2>2 DEF Announce
<1>2. events' \in Seq(Nat)
    <2>1. txn[w].change \in Nat
        BY <1>0 DEF TxnShape, Txn
    <2>2. events \in Seq(Nat)
        BY DEF Shape, TypeOK
    <2>3. Append(events, txn[w].change) \in Seq(Nat)
        BY <2>1, <2>2
    <2>4. QED
        BY <2>2, <2>3 DEF Announce, Published
<1>3. QED
    BY <1>1, <1>2, TxnShapeStep DEF Announce, tables, Shape, TypeOK

\* Moving a read position forward keeps the membership table typed.
LEMMA ForwardShape ==
    ASSUME Shape, NEW r \in Room, NEW u \in User, NEW m \in MessageId,
           ForwardTo(r, u, m)
    PROVE  members' \in [Room -> [User -> Member]]
<1>1. messages[m].sequence \in Nat /\ members[r][u] \in Member
    BY DEF Shape, TypeOK, Message
<1> DEFINE p == IF messages[m].sequence > members[r][u].position
                THEN messages[m].sequence ELSE members[r][u].position
<1>2. p \in Nat
    BY <1>1 DEF Member
<1>3. [members[r][u] EXCEPT !.position = p] \in Member
    BY <1>1, <1>2 DEF Member
<1>4. members' = [members EXCEPT ![r] =
                    [members[r] EXCEPT ![u] =
                        [members[r][u] EXCEPT !.position = p]]]
    BY DEF ForwardTo, Shape, TypeOK
<1> HIDE DEF p
<1>5. QED
    BY <1>3, <1>4 DEF Shape, TypeOK

LEMMA AdvanceOwnReadShape ==
    ASSUME Shape, NEW w \in Worker, AdvanceOwnRead(w)
    PROVE  Shape'
<1>0. TxnShape(txn[w]) /\ txn[w].phase = "announced"
    BY DEF Shape, AdvanceOwnRead
<1>1. members' \in [Room -> [User -> Member]]
    BY <1>0, ForwardShape DEF AdvanceOwnRead, TxnShape, Shape, TypeOK
<1>2. \E t : TxnShape(t) /\ txn' = [txn EXCEPT ![w] = t]
    BY EndShape DEF AdvanceOwnRead
<1>3. QED
    BY <1>1, <1>2, TxnShapeStep DEF AdvanceOwnRead, Shape, TypeOK

LEMMA MarkReadShape ==
    ASSUME Shape, NEW u \in User, NEW m \in MessageId, NEW k \in ReadCommand,
           MarkRead(u, m, k)
    PROVE  Shape'
<1>1. messages[m].room \in Room
    BY DEF MarkRead, Stored, Shape, TypeOK, Message
<1>2. members' \in [Room -> [User -> Member]]
    BY <1>1, ForwardShape DEF MarkRead
<1>3. reads' \subseteq Read
    BY <1>1 DEF MarkRead, Read, Shape, TypeOK
<1>4. QED
    BY <1>2, <1>3 DEF MarkRead, Shape, TypeOK

\* A membership or room operation leaves the handlers alone.
LEMMA RoomStepShape ==
    ASSUME Shape, NEW r \in Room,
           \/ \E u \in User :
                 \/ \E role \in {"member", "pending"} : Join(r, u, role)
                 \/ \E role \in Active : SetRole(r, u, role)
                 \/ SetMuted(r, u)
                 \/ Remove(r, u)
           \/ SetArchived(r)
           \/ DeleteRoom(r)
    PROVE  Shape'
<1> USE DEF AdminStep
<1>0. NoRow \in Member /\ counter.message \in Nat
    BY DEF NoRow, Member, Role, Shape, TypeOK
<1>1. ASSUME NEW u \in User, NEW x \in Member, AdminStep,
             members' = [members EXCEPT ![r][u] = x],
             UNCHANGED <<changes, receipts, reads, status>>
      PROVE  Shape'
    BY <1>1 DEF Shape, TypeOK
<1>2. ASSUME NEW u \in User, NEW role \in {"member", "pending"}, Join(r, u, role)
      PROVE  Shape'
    <2> DEFINE x == [NoRow EXCEPT !.role = role, !.boundary = counter.message]
    <2>1. x \in Member
        BY <1>0 DEF NoRow, Member, Role
    <2>2. members' = [members EXCEPT ![r][u] = x]
        BY <1>2 DEF Join
    <2> HIDE DEF x
    <2>3. QED
        BY <1>1, <1>2, <2>1, <2>2 DEF Join
<1>3. ASSUME NEW u \in User, NEW role \in Active, SetRole(r, u, role)
      PROVE  Shape'
    <2> DEFINE b == BoundaryAfter(members[r][u])
               x == [members[r][u] EXCEPT !.role = role, !.boundary = b]
    <2>1. b \in Nat /\ members[r][u] \in Member
        BY <1>0 DEF BoundaryAfter, Member, Shape, TypeOK
    <2>2. members' = [members EXCEPT ![r][u] = x]
        BY <1>3, <2>1 DEF SetRole, Member, Shape, TypeOK
    <2> HIDE DEF b
    <2>3. x \in Member
        BY <2>1 DEF Member, Role, Active
    <2> HIDE DEF x
    <2>4. QED
        BY <1>1, <1>3, <2>2, <2>3 DEF SetRole
<1>4. ASSUME NEW u \in User, SetMuted(r, u)
      PROVE  Shape'
    <2> DEFINE b == ~members[r][u].muted
               x == [members[r][u] EXCEPT !.muted = b]
    <2>0. b \in BOOLEAN
        OBVIOUS
    <2>2. members' = [members EXCEPT ![r][u] = x]
        BY <1>4 DEF SetMuted, Member, Shape, TypeOK
    <2> HIDE DEF b
    <2>3. members[r][u] \in Member
        BY DEF Shape, TypeOK
    <2>1. x \in Member
        BY <2>0, <2>3 DEF Member
    <2> HIDE DEF x
    <2>4. QED
        BY <1>1, <1>4, <2>1, <2>2 DEF SetMuted
<1>5. ASSUME NEW u \in User, Remove(r, u)
      PROVE  Shape'
    BY <1>0, <1>1, <1>5 DEF Remove
<1>6. ASSUME SetArchived(r)
      PROVE  Shape'
    BY <1>6 DEF SetArchived, Shape, TypeOK
<1>7. ASSUME DeleteRoom(r)
      PROVE  Shape'
    BY <1>0, <1>7 DEF DeleteRoom, Shape, TypeOK
<1>8. QED
    BY <1>2, <1>3, <1>4, <1>5, <1>6, <1>7

\* Shape is inductive.
LEMMA StepShape == Shape /\ [Next]_vars => Shape'
<1> SUFFICES ASSUME Shape, [Next]_vars PROVE Shape'
    OBVIOUS
<1>1. ASSUME NEW w \in Worker, WorkerStep(w)
      PROVE  Shape'
    <2>1. ASSUME Crash(w)
          PROVE  Shape'
        <3>1. txn' = [txn EXCEPT ![w] = Idle]
            BY <2>1 DEF Crash, End
        <3>2. QED
            BY <2>1, <3>1, IdleShape, MoveShape DEF Crash, tables
    <2>2. QED
        BY <1>1, <2>1, BeginSendShape, ClearSendShape, BeginChangeShape,
           ClearChangeShape, WriteShape, CommitShape, AnnounceShape,
           AdvanceOwnReadShape
        DEF WorkerStep
<1>2. ASSUME RoomStep
      PROVE  Shape'
    BY <1>2, RoomStepShape DEF RoomStep
<1>3. CASE UNCHANGED vars
    BY <1>3 DEF vars, Shape, TypeOK
<1>4. QED
    BY <1>1, <1>2, <1>3, MarkReadShape DEF Next

\* Every table and every transaction keeps its type, for any number of
\* handlers: a receipt names a known message and a real change, and nothing a
\* transaction carries past its checks is still absent.
THEOREM TypeCorrect == Spec => []TypeOK
<1>1. Shape => TypeOK
    BY DEF Shape
<1>2. QED
    BY <1>1, InitShape, StepShape, PTL DEF Spec

=============================================================================
