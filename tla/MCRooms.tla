------------------------------ MODULE MCRooms --------------------------------
(* A group room and the private rooms of a pair, for TLC. They share no     *)
(* state: a behaviour moves the one its first state names, while the other  *)
(* stays as it is.                                                          *)
EXTENDS RoomMembership, PrivateRooms, TLC

CONSTANTS alice, bob, carol, p1, p2

VARIABLE kind   \* the type of room a behaviour is about

\* Before the group is created, and with an owner, an admin and one more.
Start(r) == [u \in User |-> CASE u = alice -> "owner" [] u = bob -> "admin"
                            [] OTHER -> r]
Starts  == {Start("member"), Start("pending"), [u \in User |-> "none"]}
Started == {Start("member"), Start("pending")}

\* All clerks in one process, or spread over two.
Together == {[k \in Clerk |-> p1]}
Apart == Together \cup
    {CHOOSE f \in [Clerk -> {p1, p2}] : \E j, k \in Clerk : f[j] # f[k]}

\* The choices that only one of the two makes when it begins.
RoomsBegin ==
    /\ Init /\ PairInit
    /\ kind # "private" => /\ place \in Together
                           /\ chats[1] = NoChat /\ request[alice] = "none"
    /\ kind # "group" => /\ role = Start("member") /\ approval

MCInit == kind \in {"group", "private"} /\ RoomsBegin

RoomsNext ==
    \/ kind = "group" /\ Next /\ UNCHANGED pvars
    \/ kind = "private" /\ PairNext /\ UNCHANGED mvars

MCNext == RoomsNext /\ UNCHANGED kind

MCSpec == MCInit /\ [][MCNext]_<<mvars, pvars, kind>>

\* Handlers are interchangeable; a clerk is not, having a process.
Sym == Permutations(Worker)
=============================================================================
