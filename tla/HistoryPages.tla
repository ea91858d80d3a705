----------------------------- MODULE HistoryPages -----------------------------
(***************************************************************************)
(* One member reads a room backwards, page by page, while messages arrive  *)
(* and the owner opens or closes the history. Messages from before the     *)
(* room counted its messages have position 0 and are told apart by when    *)
(* they were sent, and then by their id.                                   *)
(***************************************************************************)
EXTENDS Integers, FiniteSets, Sequences

CONSTANTS
    PageSize,   \* 50 in the code, and what a test or a client asks for
    Old,        \* instants at which messages of position 0 were sent
    Twins,      \* ids such messages of one instant can have
    MaxPosition,
    MaxToggles

ASSUME HistoryAssumption ==
    /\ PageSize \in Nat \ {0}
    /\ Old \subseteq Nat /\ Twins \subseteq Nat
    /\ IsFiniteSet(Old) /\ IsFiniteSet(Twins)
    /\ MaxPosition \in Nat /\ MaxToggles \in Nat

VARIABLES
    rows,       \* the messages of the room
    viewHistory,
    member,     \* join boundary and join time
    asking,     \* the request under way: what assertRoomMembership found
    nextCursor, \* beforeId of the next request
    seen,       \* what the member was given, the pages one after the other
    start,      \* the messages there were at the first request (history)
    toggles     \* of viewHistory, and since when the reading goes on undisturbed

hvars == <<rows, viewHistory, member, asking, nextCursor, seen, start, toggles>>

-----------------------------------------------------------------------------
Numbered(n) == [position |-> n, sent |-> n, id |-> 0]
OldRow      == [position : {0}, sent : Old, id : Twins]
HistoryRow  == OldRow \cup {Numbered(n) : n \in 1..MaxPosition}
Reading     == [step |-> "no", all |-> TRUE, boundary |-> 0, joined |-> 0]
Newest      == [position |-> MaxPosition + 1, sent |-> 0, id |-> 0]

HistoryInit ==
    /\ rows \in SUBSET OldRow
    /\ viewHistory \in BOOLEAN
    /\ member \in [boundary : 0..1, joined : Old]
    /\ asking = Reading /\ nextCursor = Newest /\ seen = <<>> /\ start = {}
    /\ toggles = [number |-> 0, plain |-> TRUE]

LastPosition == Cardinality({m \in rows : m.position > 0})

\* create, under the room's lock: positions are given in the order of commit.
NewMessage ==
    /\ LastPosition < MaxPosition
    /\ rows' = rows \cup {Numbered(LastPosition + 1)}
    /\ UNCHANGED <<viewHistory, member, asking, nextCursor, seen, start, toggles>>

Toggle ==
    /\ toggles.number < MaxToggles
    /\ viewHistory' = ~viewHistory
    /\ toggles' = [number |-> toggles.number + 1, plain |-> FALSE]
    /\ UNCHANGED <<rows, member, asking, nextCursor, seen, start>>

-----------------------------------------------------------------------------
(* listForRoom.                                                            *)

\* The room and the member are read before the messages are.
RequestPage ==
    /\ asking.step = "no"
    /\ asking' = [step |-> "checked", all |-> viewHistory,
                  boundary |-> member.boundary, joined |-> member.joined]
    /\ IF nextCursor = Newest THEN start' = rows /\ toggles' = [toggles EXCEPT !.plain = TRUE]
       ELSE UNCHANGED <<start, toggles>>
    /\ UNCHANGED <<rows, viewHistory, member, nextCursor, seen>>

MaySee(m, p) ==
    p.all \/ m.position > p.boundary \/ (m.position = 0 /\ m.sent >= p.joined)

\* ORDER BY, newest first.
Before(m, c) ==
    \/ m.position < c.position
    \/ m.position = c.position /\ m.sent < c.sent
    \/ m.position = c.position /\ m.sent = c.sent /\ m.id < c.id

\* Mutant: the cursor goes by position alone.
ByPosition(m, c) == m.position < c.position

BeforeCursor(m, c) == Before(m, c)

\* The newest of those before the cursor, and a full page of them at most.
Candidates == {m \in rows : MaySee(m, asking) /\ BeforeCursor(m, nextCursor)}
Later(m)   == {n \in Candidates : Before(m, n)}
Chosen     == {m \in Candidates : Cardinality(Later(m)) < PageSize}
InOrder    == [i \in 1..Cardinality(Chosen) |->
                 CHOOSE m \in Chosen : Cardinality(Later(m)) = i - 1]

\* findByRoom, and the member asks for the page before its last message next.
FindByRoom ==
    /\ asking.step = "checked"
    /\ seen' = seen \o InOrder
    /\ nextCursor' = IF Chosen = {} THEN nextCursor ELSE InOrder[Len(InOrder)]
    /\ asking' = IF Cardinality(Chosen) < PageSize THEN [Reading EXCEPT !.step = "ended"]
                 ELSE Reading
    /\ UNCHANGED <<rows, viewHistory, member, start, toggles>>

\* The room is opened again.
StartAgain ==
    /\ asking.step # "checked"
    /\ asking' = Reading /\ nextCursor' = Newest /\ seen' = <<>> /\ start' = {}
    /\ toggles' = [toggles EXCEPT !.plain = TRUE]
    /\ UNCHANGED <<rows, viewHistory, member>>

HistoryNext == NewMessage \/ Toggle \/ RequestPage \/ FindByRoom \/ StartAgain

HistorySpec == HistoryInit /\ [][HistoryNext]_hvars

-----------------------------------------------------------------------------
\* Every variable has its type.
HistoryTypeOK ==
    /\ rows \subseteq HistoryRow /\ start \subseteq rows /\ viewHistory \in BOOLEAN
    /\ asking \in [step : {"no", "checked", "ended"}, all : BOOLEAN,
                   boundary : 0..1, joined : Old \cup {0}]
    /\ nextCursor \in HistoryRow \cup {Newest}
    /\ member \in [boundary : 0..1, joined : Old]
    /\ toggles \in [number : 0..MaxToggles, plain : BOOLEAN]
    /\ seen \in Seq(HistoryRow)

Given == {seen[i] : i \in DOMAIN seen}
MineToSee(m) == MaySee(m, [all |-> viewHistory, boundary |-> member.boundary,
                           joined |-> member.joined])

\* Reading backwards gives every message once, newest first, and leaves none
\* out that was there and allowed from the start: not where messages arrive
\* between the pages, nor among those of one position or one instant. Where the
\* history is opened or closed meanwhile only the order is sure.
PagesMeetAll ==
    /\ \A i, j \in DOMAIN seen : i < j => Before(seen[j], seen[i])
    /\ toggles.plain =>
         /\ \A m \in Given : MineToSee(m)
         /\ \A m \in start :
              MineToSee(m) /\ (asking.step = "ended" \/ ~Before(m, nextCursor)) => m \in Given
=============================================================================
