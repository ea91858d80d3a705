------------------------- MODULE PrivateRoomsProofs --------------------------
(***************************************************************************)
(* No message across a block, one room per pair, and friends can talk.     *)
(*                                                                         *)
(* The first rests on the advisory lock: a send that may still write holds *)
(* it, and so does a block that may still commit (Holds). A send that      *)
(* found its room gone when it began takes no lock, and is refused because *)
(* that room does not come back (Kept).                                    *)
(* The second rests on the lock of the pair in one process: while a clerk  *)
(* creates a room nobody else does.                                        *)
(* The third rests on both and on what the clerk at work has still to do   *)
(* for the room (Doing).                                                   *)
(***************************************************************************)
EXTENDS PrivateRooms, FiniteSetTheorems, WellFoundedInduction, TLAPS

DeskStep == {"rest", "lock", "check", "erase", "friend", "pending", "post",
             "update", "find", "shut", "measure", "reopen", "grant", "drop",
             "create", "second", "reread", "insert", "commit", "blocked",
             "begin", "authorize", "write"}

DeskShape == [step : DeskStep, call : Call \cup {"none"}, by : Person,
              chat : 0..MaxChat, clear : BOOLEAN, hit : SUBSET Chat,
              todo : SUBSET Person]
ChatShape == [in : SUBSET Person, readonly : BOOLEAN]

Shapes ==
    /\ desk \in [Clerk -> DeskShape]
    /\ chats \in [Chat -> ChatShape]
    /\ advisory \in Clerk \cup {NoClerk}
    /\ pairLock \in [{place[k] : k \in Clerk} -> Clerk \cup {NoClerk}]

\* A room that had both of them has both or is deleted for good.
Buried(r) == r.in = {} /\ r.readonly = TRUE
Kept(c) == c \in Chat /\ (chats[c].in = Person \/ Buried(chats[c]))

\* The locks a clerk holds at each step.
Holds(k) ==
    LET h == desk[k] IN
    /\ h.step = "commit" => advisory = k
    /\ h.step = "authorize" /\ chats[h.chat].in = Person => advisory = k
    /\ h.step = "write" => advisory = k /\ blocks = {}
    /\ Locking(h.call) /\ h.step \notin {"rest", "lock"} => pairLock[place[k]] = k

\* The room a clerk is at work on.
Room(k) ==
    LET h == desk[k] IN
    /\ h.step \in {"create", "second", "reread"} => h.call = "open"
    /\ h.step \in {"create", "second"} /\ OneProcess => Shared = {}
    /\ h.step = "second" => h.chat \in Chat /\ chats[h.chat].in = {h.by}
    /\ h.step \in {"reread", "begin", "authorize"} => Kept(h.chat)

NewRoomsApart ==
    \A j, k \in Clerk :
        At(j, "second") /\ At(k, "second") /\ desk[j].chat = desk[k].chat => j = k

OneShared == OneProcess => \A c, d \in Shared : c = d

Inv ==
    /\ Shapes
    /\ \A k \in Clerk : Holds(k) /\ Room(k)
    /\ NewRoomsApart /\ OneShared

-----------------------------------------------------------------------------
(* Two people, and neither of them alone.                                  *)

LEMMA TwoPeople == Person # {} /\ \A p : Person # {p} /\ {p} # {}
<1>1. Cardinality(Person) = 2 /\ Cardinality({}) = 0
  BY PairAssumption, FS_EmptySet
<1>2. \A p : Cardinality({p}) = 1
  BY FS_Singleton
<1>3. ASSUME Person = {} PROVE FALSE
  BY <1>1, <1>3
<1>4. ASSUME NEW p, Person = {p} PROVE FALSE
  <2>1. Cardinality({p}) = 2
    BY <1>1, <1>4, Zenon
  <2> QED
    BY <1>2, <2>1
<1> QED
  BY <1>3, <1>4

LEMMA Rested == AtRest \in DeskShape /\ AtRest.step = "rest" /\ AtRest.call = "none"
<1>1. (CHOOSE p \in Person : TRUE) \in Person
  BY TwoPeople
<1> QED
  BY <1>1, PairAssumption DEF AtRest, DeskShape, DeskStep, Call, Chat

(* The newest of several rooms.                                            *)

\* A nonempty set of numbers up to n has a greatest one.
LEMMA Greatest ==
    ASSUME NEW n \in Nat, NEW S \in SUBSET (1..n), S # {}
    PROVE  \E c \in S : \A d \in S : d <= c
<1> DEFINE Above(c) == (c + 1)..n
           T == {Above(c) : c \in S}
           R == StrictSubsetOrdering(1..n)
<1>2. IsWellFoundedOn(R, FiniteSubsetsOf(1..n))
  BY FS_StrictSubsetOrderingWellFounded
<1>3. T \subseteq FiniteSubsetsOf(1..n) /\ T # {}
  <2>1. ASSUME NEW c \in S PROVE Above(c) \in FiniteSubsetsOf(1..n)
    <3>1. IsFiniteSet(Above(c)) /\ Above(c) \in SUBSET (1..n)
      BY FS_Interval
    <3> QED
      BY <3>1 DEF FiniteSubsetsOf
  <2> QED
    BY <2>1
<1>4. PICK x \in T : \A y \in T : ~ (<<y, x>> \in R)
  <2> HIDE DEF T, R
  <2> QED BY <1>2, <1>3, WFMin
<1>5. PICK c \in S : x = Above(c)
  BY <1>4
<1>6. ASSUME NEW d \in S, ~ (d <= c) PROVE FALSE
  <2>1. /\ Above(d) \in SUBSET (1..n) /\ Above(c) \in SUBSET (1..n)
        /\ Above(d) \subseteq Above(c)
    BY <1>6
  <2>2. d \in Above(c) /\ d \notin Above(d)
    BY <1>6
  <2>3. <<Above(d), Above(c)>> \in R
    BY <2>1, <2>2 DEF StrictSubsetOrdering
  <2> QED
    BY <1>4, <1>5, <2>3
<1> QED
  BY <1>6

LEMMA Newest ==
    OurChat \in 0..MaxChat /\ (OurChat # 0 => OurChat \in Shared)
      /\ (OurChat = 0 => Shared = {})
<1>1. Shared \in SUBSET (1..MaxChat) /\ MaxChat \in Nat
  BY PairAssumption DEF Shared, Chat
<1>2. CASE Shared = {}
  BY <1>1, <1>2 DEF OurChat
<1>3. CASE Shared # {}
  <2>1. \E c \in Shared : \A d \in Shared : d <= c
    BY <1>1, <1>3, Greatest
  <2>2. OurChat \in Shared
    BY <1>3, <2>1 DEF OurChat
  <2> QED
    BY <1>1, <1>3, <2>2
<1> QED
  BY <1>2, <1>3

LEMMA ChatShapes ==
    /\ NoChat \in ChatShape /\ Gone \in ChatShape
    /\ NoChat.in = {} /\ ~ Buried(NoChat) /\ Buried(Gone)
  BY DEF NoChat, Gone, ChatShape, Buried

LEMMA InitInv == PairInit => Inv
<1> SUFFICES ASSUME PairInit PROVE Inv
  OBVIOUS
<1>1. /\ desk = [k \in Clerk |-> AtRest]
      /\ advisory = NoClerk
      /\ pairLock = [q \in {place[k] : k \in Clerk} |-> NoClerk]
  BY DEF PairInit
<1>2. PICK start \in {<<"accepted", FALSE, "open">>, <<"accepted", TRUE, "shut">>,
                     <<"none", FALSE, "shut">>, <<"pending", FALSE, "shut">>,
                     <<"accepted", FALSE, "absent">>} :
         chats = [c \in Chat |-> IF c > 1 \/ start[3] = "absent" THEN NoChat
                         ELSE [in |-> Person, readonly |-> start[3] = "shut"]]
  BY DEF PairInit
<1>3. chats \in [Chat -> ChatShape]
  BY <1>2, ChatShapes DEF ChatShape
<1>4. Shapes
  BY <1>1, <1>3, Rested DEF Shapes
<1>5. \A c \in Shared : c = 1
  BY <1>2, TwoPeople, PairAssumption DEF Shared, NoChat, Chat
<1>6. NewRoomsApart /\ \A k \in Clerk : Holds(k) /\ Room(k)
  BY <1>1, Rested DEF Holds, Room, NewRoomsApart, At, Locking
<1> QED
  BY <1>4, <1>5, <1>6 DEF Inv, OneShared

-----------------------------------------------------------------------------
(* Steps that leave the rooms and the advisory lock alone.                 *)

\* No other clerk loses the lock of its process.
LocksKept(k) ==
    /\ pairLock' \in [{place'[j] : j \in Clerk} -> Clerk \cup {NoClerk}]
    /\ \A j \in Clerk \ {k} :
         pairLock[place[j]] = j => pairLock'[place[j]] = j

Quiet == place' = place /\ chats' = chats /\ advisory' = advisory /\ blocks' \subseteq blocks

LEMMA DeskReplaced ==
    ASSUME Inv, NEW k \in Clerk, NEW h \in DeskShape,
           desk' = [desk EXCEPT ![k] = h]
    PROVE  /\ desk' \in [Clerk -> DeskShape] /\ desk'[k] = h
           /\ \A j \in Clerk \ {k} : desk'[j] = desk[j]
  BY DEF Inv, Shapes

\* What a step may do to rooms and to the advisory lock without another clerk
\* having to know: rooms keep who is in them, deleted rooms stay deleted, and
\* nobody blocks while another holds the lock.
Gentle(k) ==
    /\ place' = place
    /\ chats' \in [Chat -> ChatShape]
    /\ \A c \in Chat :
          /\ chats'[c].in = chats[c].in
          /\ Buried(chats[c]) => Buried(chats'[c])
    /\ advisory' \in Clerk \cup {NoClerk}
    /\ \A j \in Clerk \ {k} : advisory = j => advisory' = j /\ blocks' \subseteq blocks

LEMMA Gently ==
    ASSUME Inv, NEW k \in Clerk, NEW h \in DeskShape,
           desk' = [desk EXCEPT ![k] = h], Gentle(k), LocksKept(k),
           h.step # "second", Holds(k)', Room(k)'
    PROVE  Inv'
<1>1. /\ desk' \in [Clerk -> DeskShape] /\ desk'[k] = h
      /\ \A j \in Clerk \ {k} : desk'[j] = desk[j]
  BY DeskReplaced
<1>2. Shapes'
  BY <1>1 DEF Shapes, Gentle, LocksKept
<1>3. Shared' = Shared /\ (OneProcess' <=> OneProcess)
  BY DEF Gentle, Shared, OneProcess
<1>4. ASSUME NEW j \in Clerk \ {k} PROVE Holds(j)' /\ Room(j)'
  <2>1. Holds(j) /\ Room(j)
    BY DEF Inv
  <2>2. Room(j)'
    BY <1>1, <1>3, <2>1 DEF Room, Kept, Gentle
  <2>3. Holds(j)'
    BY <1>1, <2>1 DEF Holds, Room, Kept, Gentle, LocksKept
  <2> QED
    BY <2>2, <2>3
<1>5. NewRoomsApart'
  BY <1>1 DEF Inv, NewRoomsApart, At
<1>6. OneShared'
  BY <1>3 DEF Inv, OneShared
<1> QED
  BY <1>2, <1>4, <1>5, <1>6 DEF Inv

LEMMA Quietly ==
    ASSUME Inv, NEW k \in Clerk, NEW h \in DeskShape,
           desk' = [desk EXCEPT ![k] = h], Quiet, LocksKept(k),
           h.step # "second", Holds(k)', Room(k)'
    PROVE  Inv'
<1>1. Gentle(k)
  BY DEF Gentle, Quiet, Inv, Shapes
<1> QED
  BY <1>1, Gently

\* A request that ends gives back the lock of its process.
LEMMA DoneLocks ==
    ASSUME Inv, NEW k \in Clerk, place' = place, Done(k)
    PROVE  LocksKept(k)
  BY DEF Inv, Shapes, LocksKept, Done

LEMMA EndsGently ==
    ASSUME Inv, NEW k \in Clerk, Gentle(k), Done(k)
    PROVE  Inv'
<1>1. LocksKept(k) /\ desk' = [desk EXCEPT ![k] = AtRest]
  BY DoneLocks DEF Gentle, Done
<1>2. Holds(k)' /\ Room(k)'
  BY <1>1, Rested, DeskReplaced DEF Holds, Room, Locking
<1> QED
  BY <1>1, <1>2, Rested, Gently

LEMMA Ends ==
    ASSUME Inv, NEW k \in Clerk, Quiet, Done(k)
    PROVE  Inv'
<1>1. Gentle(k)
  BY DEF Gentle, Quiet, Inv, Shapes
<1> QED
  BY <1>1, EndsGently

\* Steps at which a clerk holds no more than the lock of its process, and
\* relies on nothing about its room.
Plain == {"check", "erase", "friend", "pending", "post", "update", "find",
          "shut", "measure", "reopen", "grant", "drop", "insert", "blocked"}

LEMMA GoesOn ==
    ASSUME Inv, NEW k \in Clerk, Quiet, pairLock' = pairLock,
           NEW h \in DeskShape, desk' = [desk EXCEPT ![k] = h],
           h.step \in Plain, h.call = desk[k].call,
           desk[k].step \notin {"rest", "lock"}
    PROVE  Inv'
<1>1. /\ desk' \in [Clerk -> DeskShape] /\ desk'[k] = h
  BY DeskReplaced
<1>2. LocksKept(k)
  BY DEF LocksKept, Inv, Shapes, Quiet
<1>3. Holds(k) /\ Room(k)
  BY DEF Inv
<1>4. Holds(k)'
  BY <1>1, <1>3 DEF Holds, Quiet, Plain
<1>5. Room(k)'
  BY <1>1 DEF Room, Plain
<1> QED
  BY <1>2, <1>4, <1>5, Quietly DEF Plain

\* The record of a clerk when its step alone changes, or other fields too.
LEMMA DeskFields ==
    ASSUME NEW h \in DeskShape
    PROVE  /\ h.call \in Call \cup {"none"} /\ h.by \in Person
           /\ h.chat \in 0..MaxChat /\ h.todo \subseteq Person /\ h.hit \subseteq Chat
           /\ \A s \in DeskStep :
                /\ [h EXCEPT !.step = s] \in DeskShape
                /\ [h EXCEPT !.step = s].step = s
                /\ [h EXCEPT !.step = s].call = h.call
                /\ [h EXCEPT !.step = s].chat = h.chat
                /\ [h EXCEPT !.step = s].by = h.by
                /\ [h EXCEPT !.step = s].todo = h.todo
                /\ [h EXCEPT !.step = s].hit = h.hit
  BY DEF DeskShape

-----------------------------------------------------------------------------
(* One action at a time: first those that move one clerk alone.            *)

\* What the invariant says of the clerk at work.
LEMMA Own ==
    ASSUME Inv, NEW k \in Clerk
    PROVE  /\ desk[k] \in DeskShape /\ Holds(k) /\ Room(k)
           /\ chats \in [Chat -> ChatShape] /\ Person # {}
           /\ \A s \in DeskStep :
                To(k, s) => desk' = [desk EXCEPT ![k] = [desk[k] EXCEPT !.step = s]]
  BY TwoPeople DEF Inv, Shapes, To

\* A clerk goes on to a plain step and changes nothing else of its record.
LEMMA Onward ==
    ASSUME Inv, NEW k \in Clerk, Quiet, pairLock' = pairLock,
           NEW s \in Plain, To(k, s), desk[k].step \notin {"rest", "lock"}
    PROVE  Inv'
<1> DEFINE h == [desk[k] EXCEPT !.step = s]
<1>1. s \in DeskStep
  BY DEF Plain, DeskStep
<1>2. /\ h \in DeskShape /\ h.step = s /\ h.call = desk[k].call
      /\ desk' = [desk EXCEPT ![k] = h]
  BY <1>1, Own, DeskFields
<1> HIDE DEF h
<1> QED
  BY <1>2, GoesOn

LEMMA ArriveInv ==
    ASSUME Inv, NEW k \in Clerk, NEW call \in Call, NEW p \in Person,
           Arrive(k, call, p)
    PROVE  Inv'
<1> DEFINE s == CASE Locking(call) -> "lock"
                  [] call \in {"ask", "accept", "send"} -> "check"
                  [] OTHER -> "erase"
           h == [AtRest EXCEPT !.call = call, !.by = p, !.step = s]
<1>1. /\ h \in DeskShape /\ h.step \in {"lock", "check", "erase"} /\ h.call = call
      /\ Locking(call) => h.step = "lock"
  BY Rested DEF DeskShape, DeskStep, Locking
<1>2. desk' = [desk EXCEPT ![k] = h] /\ Quiet /\ pairLock' = pairLock
  BY DEF Arrive, Quiet
<1> HIDE DEF h
<1>3. desk'[k] = h
  BY <1>1, <1>2, DeskReplaced
<1>4. LocksKept(k)
  BY <1>2 DEF LocksKept, Inv, Shapes, Quiet
<1>5. Holds(k)' /\ Room(k)'
  BY <1>1, <1>3 DEF Holds, Room
<1> QED
  BY <1>1, <1>2, <1>4, <1>5, Quietly

LEMMA LockPairInv ==
    ASSUME Inv, NEW k \in Clerk, LockPair(k)
    PROVE  Inv'
<1> DEFINE s == CASE desk[k].call = "block" -> "insert"
                  [] desk[k].call = "unblock" -> "erase"
                  [] OTHER -> "check"
           h == [desk[k] EXCEPT !.step = s]
<1>1. s \in DeskStep /\ s \in {"insert", "erase", "check"}
  BY DEF DeskStep
<1>2. /\ h \in DeskShape /\ h.step = s /\ h.call = desk[k].call
      /\ desk' = [desk EXCEPT ![k] = h] /\ Quiet
  BY <1>1, Own, DeskFields DEF LockPair, Quiet
<1> HIDE DEF h, s
<1>3. desk'[k] = h
  BY <1>2, DeskReplaced
<1>4. /\ pairLock' = [pairLock EXCEPT ![place[k]] = k]
      /\ pairLock[place[k]] = NoClerk /\ NoClerk \notin Clerk
  BY PairAssumption DEF LockPair, PairFree
<1>5. LocksKept(k) /\ pairLock'[place'[k]] = k
  BY <1>2, <1>4 DEF LocksKept, Inv, Shapes, Quiet
<1>6. Holds(k)' /\ Room(k)'
  BY <1>1, <1>2, <1>3, <1>5 DEF Holds, Room
<1> QED
  BY <1>1, <1>2, <1>5, <1>6, Quietly

LEMMA CheckInv ==
    ASSUME Inv, NEW k \in Clerk, Check(k)
    PROVE  Inv'
<1>1. Quiet /\ desk[k].step = "check"
  BY DEF Check, Reading, Quiet, At
<1>2. CASE Done(k)
  BY <1>1, <1>2, Ends
<1>3. ASSUME NEW s \in {"update", "friend"}, To(k, s), pairLock' = pairLock
      PROVE  Inv'
  BY <1>1, <1>3, Onward DEF Plain
<1>4. ASSUME NEW c \in Shared, pairLock' = pairLock, desk[k].call = "send",
             desk' = [desk EXCEPT ![k].step = "begin", ![k].chat = c]
      PROVE  Inv'
  <2> DEFINE h == [desk[k] EXCEPT !.step = "begin", !.chat = c]
  <2>1. c \in Chat /\ c \in 0..MaxChat /\ chats[c].in = Person
    BY PairAssumption DEF Shared, Chat
  <2>2. /\ h \in DeskShape /\ h.step = "begin" /\ h.chat = c /\ h.call = "send"
    BY <1>4, <2>1, Own DEF DeskShape, DeskStep
  <2>3. desk' = [desk EXCEPT ![k] = h]
    BY <1>4, Own DEF Inv, Shapes, DeskShape
  <2> HIDE DEF h
  <2>4. desk'[k] = h
    BY <2>2, <2>3, DeskReplaced
  <2>5. LocksKept(k)
    BY <1>1, <1>4 DEF LocksKept, Inv, Shapes, Quiet
  <2>6. Holds(k)' /\ Room(k)'
    BY <1>1, <2>1, <2>2, <2>4 DEF Holds, Room, Kept, Quiet, Locking
  <2> QED
    BY <1>1, <2>2, <2>3, <2>5, <2>6, Quietly
<1> QED
  BY <1>2, <1>3, <1>4 DEF Check

\* Friendships, and the rows of blocks and friendships that are deleted.
LEMMA FriendshipInv ==
    ASSUME Inv, NEW k \in Clerk,
           Befriended(k) \/ Reciprocal(k) \/ Post(k) \/ Answer(k) \/ Erase(k)
    PROVE  Inv'
<1>1. Quiet /\ desk[k].step \in Plain /\ {"find", "pending", "update", "post", "friend"} \subseteq Plain
  BY DEF Befriended, Reciprocal, Post, Answer, Erase, Reading, Quiet, At, Plain
<1>2. \/ Done(k)
      \/ \E s \in {"find", "pending", "update", "post", "friend"} :
            To(k, s) /\ pairLock' = pairLock
  BY DEF Befriended, Reciprocal, Post, Answer, Erase
<1> QED
  BY <1>1, <1>2, Ends, Onward DEF Plain

LEMMA FindChatInv ==
    ASSUME Inv, NEW k \in Clerk, FindChat(k)
    PROVE  Inv'
<1> DEFINE with(s) == [desk[k] EXCEPT !.step = s, !.chat = OurChat]
<1>1. Quiet /\ desk[k].step = "find" /\ desk[k] \in DeskShape
  BY Own DEF FindChat, Reading, Quiet, At
<1>2. \A s \in DeskStep :
         /\ with(s) \in DeskShape /\ with(s).step = s /\ with(s).call = desk[k].call
         /\ with(s).by = desk[k].by
  BY <1>1, Newest DEF DeskShape
<1>3. CASE Done(k)
  BY <1>1, <1>3, Ends
<1>4. ASSUME NEW s \in {"shut", "measure"}, pairLock' = pairLock,
             desk' = [desk EXCEPT ![k] = with(s)]
      PROVE  Inv'
  <2>1. s \in Plain /\ s \in DeskStep
    BY DEF Plain, DeskStep
  <2> HIDE DEF with
  <2> QED
    BY <1>1, <1>2, <1>4, <2>1, GoesOn
<1>5. CASE /\ desk' = [desk EXCEPT ![k] = with("create")] /\ pairLock' = pairLock
           /\ OurChat = 0 /\ desk[k].call = "open"
  <2>1. "create" \in DeskStep
    BY DEF DeskStep
  <2> HIDE DEF with
  <2>2. desk'[k] = with("create")
    BY <1>2, <1>5, <2>1, DeskReplaced
  <2>3. LocksKept(k)
    BY <1>1, <1>5 DEF LocksKept, Inv, Shapes, Quiet
  <2>4. Shared' = {}
    BY <1>1, <1>5, Newest DEF Shared, Quiet
  <2>5. Holds(k)' /\ Room(k)'
    BY <1>1, <1>2, <1>5, <2>1, <2>2, <2>4, Own DEF Holds, Room, Quiet
  <2> QED
    BY <1>1, <1>2, <1>5, <2>1, <2>3, <2>5, Quietly
<1> QED
  BY <1>3, <1>4, <1>5 DEF FindChat

LEMMA MeasureInv ==
    ASSUME Inv, NEW k \in Clerk, Measure(k)
    PROVE  Inv'
<1> DEFINE clear == Unblocked /\ desk[k].chat \in Shared
           h == [desk[k] EXCEPT !.step = "reopen", !.clear = clear]
<1>1. Quiet /\ desk[k].step = "measure" /\ pairLock' = pairLock /\ desk[k] \in DeskShape
  BY Own DEF Measure, Reading, Quiet, At
<1>2. h \in DeskShape /\ h.step = "reopen" /\ h.call = desk[k].call
  BY <1>1 DEF DeskShape, DeskStep
<1>3. desk' = [desk EXCEPT ![k] = h]
  BY <1>1 DEF Measure, Inv, Shapes, DeskShape
<1> HIDE DEF h
<1> QED
  BY <1>1, <1>2, <1>3, GoesOn DEF Plain

LEMMA SubscriptionsInv ==
    ASSUME Inv, NEW k \in Clerk, GrantBoth(k) \/ DropBoth(k)
    PROVE  Inv'
<1>1. /\ Quiet /\ desk[k].step \in {"grant", "drop"} /\ desk[k] \in DeskShape
      /\ \/ Done(k)
         \/ \E p \in desk[k].todo : /\ desk' = [desk EXCEPT ![k].todo = @ \ {p}]
                                    /\ pairLock' = pairLock
  BY Own DEF GrantBoth, DropBoth, Subscriptions, Quiet, At
<1>2. CASE Done(k)
  BY <1>1, <1>2, Ends
<1>3. ASSUME NEW p, desk' = [desk EXCEPT ![k].todo = @ \ {p}], pairLock' = pairLock
      PROVE  Inv'
  <2> DEFINE h == [desk[k] EXCEPT !.todo = @ \ {p}]
  <2>1. h \in DeskShape /\ h.step = desk[k].step /\ h.call = desk[k].call
    BY <1>1 DEF DeskShape
  <2>2. desk' = [desk EXCEPT ![k] = h]
    BY <1>3
  <2> HIDE DEF h
  <2> QED
    BY <1>1, <1>3, <2>1, <2>2, GoesOn DEF Plain
<1> QED
  BY <1>1, <1>2, <1>3

LEMMA FindBlockedInv ==
    ASSUME Inv, NEW k \in Clerk, FindBlocked(k)
    PROVE  Inv'
<1> DEFINE h == [desk[k] EXCEPT !.step = "drop", !.chat = OurChat, !.todo = Person]
<1>1. Quiet /\ desk[k].step = "blocked" /\ desk[k] \in DeskShape
  BY Own DEF FindBlocked, Reading, Quiet, At
<1>2. CASE Done(k)
  BY <1>1, <1>2, Ends
<1>3. CASE /\ pairLock' = pairLock
           /\ desk' = [desk EXCEPT ![k].step = "drop", ![k].chat = OurChat,
                                   ![k].todo = Person]
  <2>1. h \in DeskShape /\ h.step = "drop" /\ h.call = desk[k].call
    BY <1>1, Newest DEF DeskShape, DeskStep
  <2>2. desk' = [desk EXCEPT ![k] = h]
    BY <1>1, <1>3 DEF Inv, Shapes, DeskShape
  <2> HIDE DEF h
  <2> QED
    BY <1>1, <1>3, <2>1, <2>2, GoesOn DEF Plain
<1> QED
  BY <1>2, <1>3 DEF FindBlocked

-----------------------------------------------------------------------------
(* The room is written, or the advisory lock changes hands.                *)

LEMMA Marked ==
    ASSUME NEW r \in ChatShape, NEW b \in BOOLEAN
    PROVE  /\ [r EXCEPT !.readonly = b] \in ChatShape
           /\ [r EXCEPT !.readonly = b].in = r.in
           /\ [r EXCEPT !.readonly = b].readonly = b
  BY DEF ChatShape

LEMMA ShutInv ==
    ASSUME Inv, NEW k \in Clerk, Shut(k)
    PROVE  Inv'
<1>1. chats' = [chats EXCEPT ![desk[k].chat] = [@ EXCEPT !.readonly = TRUE]]
  BY DEF Shut
<1>2. Gentle(k)
  <2>1. chats' \in [Chat -> ChatShape]
    BY <1>1, Own, Marked
  <2>2. \A c \in Chat :
          /\ chats'[c].in = chats[c].in
          /\ Buried(chats[c]) => Buried(chats'[c])
    BY <1>1, Own, Marked DEF Buried
  <2> QED
    BY <2>1, <2>2 DEF Shut, Gentle, Inv, Shapes, Done
<1> QED
  BY <1>2, EndsGently DEF Shut

LEMMA ReopenInv ==
    ASSUME Inv, NEW k \in Clerk, Reopen(k)
    PROVE  Inv'
<1> DEFINE h == [desk[k] EXCEPT !.step = "grant", !.todo = Person]
           c == desk[k].chat
<1>1. desk[k] \in DeskShape /\ desk[k].step = "reopen"
  BY Own DEF Reopen, At
<1>2. CASE Done(k) /\ UNCHANGED chats
  <2>1. Quiet
    BY <1>2 DEF Reopen, Quiet
  <2> QED
    BY <1>2, <2>1, Ends
<1>3. CASE /\ c \in Shared /\ chats' = [chats EXCEPT ![c].readonly = FALSE]
           /\ desk' = [desk EXCEPT ![k].step = "grant", ![k].todo = Person]
           /\ UNCHANGED pairLock
  <2>1. h \in DeskShape /\ h.step = "grant" /\ h.call = desk[k].call
    BY <1>1 DEF DeskShape, DeskStep
  <2>2. desk' = [desk EXCEPT ![k] = h]
    BY <1>1, <1>3 DEF Inv, Shapes, DeskShape
  <2> HIDE DEF h
  <2>3. Gentle(k)
    <3>1. /\ chats' = [chats EXCEPT ![c] = [@ EXCEPT !.readonly = FALSE]]
          /\ ~ Buried(chats[c])
      BY <1>3, Own DEF Shared, Buried
    <3> QED
      BY <3>1, Own, Marked DEF Buried, Reopen, Gentle, Inv, Shapes
  <2>4. LocksKept(k)
    BY <1>3 DEF Reopen, LocksKept, Inv, Shapes
  <2>5. desk'[k] = h
    BY <2>1, <2>2, DeskReplaced
  <2>6. Holds(k)' /\ Room(k)'
    BY <1>1, <1>3, <2>1, <2>5, Own DEF Reopen, Holds, Room
  <2> QED
    BY <2>1, <2>2, <2>3, <2>4, <2>6, Gently
<1> QED
  BY <1>2, <1>3 DEF Reopen

LEMMA InsertBlockInv ==
    ASSUME Inv, NEW k \in Clerk, InsertBlock(k)
    PROVE  Inv'
<1> DEFINE hit == IF desk[k].by \in blocks THEN {} ELSE Shared
           h == [desk[k] EXCEPT !.step = "commit", !.hit = hit]
<1>1. desk[k] \in DeskShape /\ desk[k].step = "insert"
  BY Own DEF InsertBlock, At
<1>2. h \in DeskShape /\ h.step = "commit" /\ h.call = desk[k].call
  BY <1>1 DEF DeskShape, DeskStep, Shared
<1>3. desk' = [desk EXCEPT ![k] = h]
  BY <1>1 DEF InsertBlock, Inv, Shapes, DeskShape
<1> HIDE DEF h, hit
<1>4. Gentle(k)
  BY PairAssumption DEF InsertBlock, Gentle, Inv, Shapes
<1>5. LocksKept(k)
  BY DEF InsertBlock, LocksKept, Inv, Shapes
<1>6. desk'[k] = h
  BY <1>2, <1>3, DeskReplaced
<1>7. Holds(k)' /\ Room(k)'
  BY <1>1, <1>2, <1>6, Own DEF InsertBlock, Holds, Room
<1> QED
  BY <1>2, <1>3, <1>4, <1>5, <1>7, Gently

LEMMA CommitBlockInv ==
    ASSUME Inv, NEW k \in Clerk, CommitBlock(k)
    PROVE  Inv'
<1> DEFINE h == [desk[k] EXCEPT !.step = "blocked"]
<1>1. desk[k] \in DeskShape /\ desk[k].step = "commit" /\ advisory = k
  BY Own DEF CommitBlock, At, Holds
<1>2. "blocked" \in DeskStep
  BY DEF DeskStep
<1>3. /\ h \in DeskShape /\ h.step = "blocked" /\ h.call = desk[k].call
      /\ desk' = [desk EXCEPT ![k] = h]
  BY <1>1, <1>2, Own, DeskFields DEF CommitBlock
<1> HIDE DEF h
<1>4. Gentle(k)
  <2>1. chats' = [c \in Chat |-> IF c \in desk[k].hit
                   THEN [chats[c] EXCEPT !.readonly = TRUE] ELSE chats[c]]
    BY DEF CommitBlock
  <2>2. chats' \in [Chat -> ChatShape]
    BY <2>1, Own, Marked
  <2>3. \A c \in Chat :
          /\ chats'[c].in = chats[c].in
          /\ Buried(chats[c]) => Buried(chats'[c])
    BY <2>1, Own, Marked DEF Buried
  <2> QED
    BY <1>1, <2>2, <2>3 DEF CommitBlock, Gentle
<1>5. LocksKept(k)
  BY DEF CommitBlock, LocksKept, Inv, Shapes
<1>6. desk'[k] = h
  BY <1>3, DeskReplaced
<1>7. Holds(k)' /\ Room(k)'
  BY <1>1, <1>3, <1>6, Own DEF CommitBlock, Holds, Room
<1> QED
  BY <1>3, <1>4, <1>5, <1>7, Gently

LEMMA BeginInv ==
    ASSUME Inv, NEW k \in Clerk, Begin(k)
    PROVE  Inv'
<1> DEFINE h == [desk[k] EXCEPT !.step = "authorize"]
<1>1. desk[k] \in DeskShape /\ desk[k].step = "begin" /\ Kept(desk[k].chat)
  BY Own DEF Begin, At, Room
<1>2. "authorize" \in DeskStep
  BY DEF DeskStep
<1>3. /\ h \in DeskShape /\ h.step = "authorize" /\ h.call = desk[k].call
      /\ h.chat = desk[k].chat /\ desk' = [desk EXCEPT ![k] = h]
  BY <1>1, <1>2, Own, DeskFields DEF Begin
<1> HIDE DEF h
<1>4. Gentle(k)
  BY PairAssumption DEF Begin, Gentle, Inv, Shapes
<1>5. LocksKept(k)
  BY DEF Begin, LocksKept, Inv, Shapes
<1>6. desk'[k] = h
  BY <1>3, DeskReplaced
<1>7. Holds(k)' /\ Room(k)'
  BY <1>1, <1>3, <1>6, Own DEF Begin, Holds, Room, Kept, Shared
<1> QED
  BY <1>3, <1>4, <1>5, <1>7, Gently

LEMMA EndSendInv ==
    ASSUME Inv, NEW k \in Clerk, EndSend(k), UNCHANGED <<place, blocks, chats>>
    PROVE  Inv'
<1>1. Gentle(k)
  BY DEF EndSend, Gentle, Inv, Shapes
<1> QED
  BY <1>1, EndsGently DEF EndSend

LEMMA AuthorizeInv ==
    ASSUME Inv, NEW k \in Clerk, Authorize(k)
    PROVE  Inv'
<1> DEFINE h == [desk[k] EXCEPT !.step = "write"]
<1>1. /\ desk[k] \in DeskShape /\ desk[k].step = "authorize"
      /\ chats[desk[k].chat].in = Person => advisory = k
  BY Own DEF Authorize, At, Holds
<1>2. CASE EndSend(k)
  BY <1>2, EndSendInv DEF Authorize
<1>3. CASE /\ Authorized(desk[k].chat) /\ To(k, "write")
           /\ UNCHANGED <<pairLock, advisory>>
  <2>1. "write" \in DeskStep
    BY DEF DeskStep
  <2>2. /\ h \in DeskShape /\ h.step = "write" /\ h.call = desk[k].call
        /\ desk' = [desk EXCEPT ![k] = h]
    BY <1>1, <1>3, <2>1, Own, DeskFields
  <2> HIDE DEF h
  <2>3. Gentle(k)
    BY <1>3 DEF Authorize, Gentle, Inv, Shapes
  <2>4. LocksKept(k)
    BY <1>3 DEF Authorize, LocksKept, Inv, Shapes
  <2>5. desk'[k] = h
    BY <2>2, DeskReplaced
  <2>6. Holds(k)' /\ Room(k)'
    BY <1>1, <1>3, <2>2, <2>5, Own
       DEF Authorize, Authorized, Unblocked, Shared, Holds, Room
  <2> QED
    BY <2>2, <2>3, <2>4, <2>6, Gently
<1> QED
  BY <1>2, <1>3 DEF Authorize

-----------------------------------------------------------------------------
(* The room a clerk creates.                                               *)

\* Rooms other than one keep who is in them, and stay deleted.
Besides(c) ==
    \A d \in Chat \ {c} :
        /\ chats'[d].in = chats[d].in
        /\ Buried(chats[d]) => Buried(chats'[d])

\* Two clerks who open a conversation in one process are one.
LEMMA OneOpens ==
    ASSUME Inv, OneProcess, NEW j \in Clerk, NEW k \in Clerk,
           desk[j].step \in {"create", "second"}, desk[k].step \in {"create", "second"}
    PROVE  j = k
<1>1. \A i \in {j, k} : Holds(i) /\ Room(i)
  BY DEF Inv
<1>2. pairLock[place[j]] = j /\ pairLock[place[k]] = k
  BY <1>1 DEF Holds, Room, Locking
<1> QED
  BY <1>2 DEF OneProcess

LEMMA CreateChatInv ==
    ASSUME Inv, NEW k \in Clerk, CreateChat(k)
    PROVE  Inv'
<1>1. PICK c \in Chat :
        /\ chats[c] = NoChat
        /\ chats' = [chats EXCEPT ![c].in = {desk[k].by}]
        /\ desk' = [desk EXCEPT ![k].step = "second", ![k].chat = c]
  BY DEF CreateChat
<1> DEFINE h == [desk[k] EXCEPT !.step = "second", !.chat = c]
           p == desk[k].by
<1>2. /\ desk[k] \in DeskShape /\ desk[k].step = "create" /\ p \in Person
      /\ c \in 0..MaxChat /\ Person # {p} /\ {p} # {}
  <2>1. desk[k] \in DeskShape /\ desk[k].step = "create"
    BY Own DEF CreateChat, At
  <2>2. p \in Person
    BY <2>1 DEF DeskShape
  <2>3. c \in 0..MaxChat
    BY PairAssumption DEF Chat
  <2>4. Person # {p} /\ {p} # {}
    BY TwoPeople
  <2> QED
    BY <2>1, <2>2, <2>3, <2>4
<1>3. h \in DeskShape /\ h.step = "second" /\ h.call = desk[k].call /\ h.chat = c /\ h.by = p
  BY <1>2 DEF DeskShape, DeskStep
<1>4. desk' = [desk EXCEPT ![k] = h]
  BY <1>1, <1>2 DEF Inv, Shapes, DeskShape
<1> HIDE DEF h
<1>5. /\ desk' \in [Clerk -> DeskShape] /\ desk'[k] = h
      /\ \A j \in Clerk \ {k} : desk'[j] = desk[j]
  BY <1>3, <1>4, DeskReplaced
<1>6. /\ chats' \in [Chat -> ChatShape] /\ chats'[c].in = {p} /\ Besides(c)
      /\ chats[c].in = {} /\ ~ Buried(chats[c])
  BY <1>1, <1>2, Own, ChatShapes DEF ChatShape, Besides, Buried
<1>7. Shared' = Shared /\ (OneProcess' <=> OneProcess)
  BY <1>2, <1>6, Own DEF CreateChat, Shared, OneProcess, Besides
<1>8. Shapes'
  BY <1>5, <1>6 DEF CreateChat, Inv, Shapes
<1>9. ASSUME NEW j \in Clerk \ {k} PROVE Holds(j)' /\ Room(j)' /\ (At(j, "second") => desk[j].chat # c)
  <2>1. Holds(j) /\ Room(j)
    BY DEF Inv
  <2>2. At(j, "second") => desk[j].chat # c
    BY <1>6, <2>1, TwoPeople DEF Room, At
  <2>3. Kept(desk[j].chat) => desk[j].chat # c
    BY <1>6, Own DEF Kept
  <2>4. Room(j)'
    BY <1>5, <1>6, <1>7, <2>1, <2>2, <2>3 DEF Room, Kept, Besides, At
  <2>5. Holds(j)'
    BY <1>5, <1>6, <2>1, <2>3 DEF CreateChat, Holds, Room, Kept, Besides
  <2> QED
    BY <2>2, <2>4, <2>5
<1>10. Holds(k)' /\ Room(k)'
  BY <1>2, <1>3, <1>5, <1>6, <1>7, Own DEF CreateChat, Holds, Room
<1>11. NewRoomsApart'
  BY <1>3, <1>5, <1>9 DEF Inv, NewRoomsApart, At
<1>12. OneShared'
  BY <1>7 DEF Inv, OneShared
<1> QED
  BY <1>8, <1>9, <1>10, <1>11, <1>12 DEF Inv

LEMMA AddSecondInv ==
    ASSUME Inv, NEW k \in Clerk, AddSecond(k)
    PROVE  Inv'
<1> DEFINE c == desk[k].chat
           h == [desk[k] EXCEPT !.step = "reread"]
<1>1. /\ desk[k] \in DeskShape /\ desk[k].step = "second"
      /\ c \in Chat /\ chats[c].in = {desk[k].by}
      /\ OneProcess => Shared = {}
      /\ Person # {desk[k].by} /\ "reread" \in DeskStep
  BY Own, TwoPeople DEF AddSecond, At, Room, DeskStep
<1>2. /\ h \in DeskShape /\ h.step = "reread" /\ h.call = desk[k].call
      /\ h.chat = c /\ desk' = [desk EXCEPT ![k] = h]
  BY <1>1, Own, DeskFields DEF AddSecond
<1> HIDE DEF h
<1>3. /\ desk' \in [Clerk -> DeskShape] /\ desk'[k] = h
      /\ \A j \in Clerk \ {k} : desk'[j] = desk[j]
  BY <1>2, DeskReplaced
<1>4. /\ chats' \in [Chat -> ChatShape] /\ chats'[c].in = Person /\ Besides(c)
      /\ ~ Buried(chats[c])
  <2> DEFINE r == [in |-> Person, readonly |-> blocks # {}]
  <2>1. chats' = [chats EXCEPT ![c] = r]
    BY DEF AddSecond
  <2>2. r \in ChatShape /\ r.in = Person
    BY DEF ChatShape
  <2> HIDE DEF r
  <2>3. /\ chats' \in [Chat -> ChatShape] /\ chats'[c].in = Person
        /\ \A d \in Chat \ {c} : chats'[d] = chats[d]
    BY <1>1, <2>1, <2>2, Own
  <2>4. {desk[k].by} # {}
    BY TwoPeople
  <2> QED
    BY <1>1, <2>3, <2>4 DEF Besides, Buried
<1>5. Shared' = Shared \cup {c} /\ (OneProcess' <=> OneProcess)
  BY <1>1, <1>4, Own DEF AddSecond, Shared, OneProcess, Besides
<1>6. Shapes'
  BY <1>3, <1>4 DEF AddSecond, Inv, Shapes
<1>7. ASSUME NEW j \in Clerk \ {k} PROVE Holds(j)' /\ Room(j)'
  <2>1. Holds(j) /\ Room(j)
    BY DEF Inv
  <2>2. At(j, "second") => desk[j].chat # c
    BY <1>1 DEF Inv, NewRoomsApart, At
  <2>3. OneProcess => desk[j].step \notin {"create", "second"}
    BY <1>1, OneOpens
  <2>4. Room(j)'
    BY <1>1, <1>3, <1>4, <1>5, <2>1, <2>2, <2>3, Own DEF Room, Kept, Besides, At
  <2>5. Holds(j)'
    BY <1>1, <1>3, <1>4, <2>1, Own DEF AddSecond, Holds, Room, Kept, Besides
  <2> QED
    BY <2>4, <2>5
<1>8. Holds(k)' /\ Room(k)'
  BY <1>1, <1>2, <1>3, <1>4, Own DEF AddSecond, Holds, Room, Kept
<1>9. NewRoomsApart'
  BY <1>2, <1>3 DEF Inv, NewRoomsApart, At
<1>10. OneShared'
  BY <1>1, <1>5 DEF OneShared
<1> QED
  BY <1>6, <1>7, <1>8, <1>9, <1>10 DEF Inv

LEMMA RereadInv ==
    ASSUME Inv, NEW k \in Clerk, Reread(k)
    PROVE  Inv'
<1> DEFINE c == desk[k].chat
           h == [desk[k] EXCEPT !.step = "grant", !.todo = Person]
<1>1. /\ desk[k] \in DeskShape /\ desk[k].step = "reread" /\ Kept(c)
  BY Own DEF Reread, At, Room
<1>2. CASE /\ desk' = [desk EXCEPT ![k].step = "grant", ![k].todo = Person]
           /\ UNCHANGED <<pairLock, chats>>
  <2>1. h \in DeskShape /\ h.step = "grant" /\ h.call = desk[k].call
    BY <1>1 DEF DeskShape, DeskStep
  <2>2. desk' = [desk EXCEPT ![k] = h]
    BY <1>1, <1>2 DEF Inv, Shapes, DeskShape
  <2>3. Quiet
    BY <1>2 DEF Reread, Quiet
  <2> HIDE DEF h
  <2> QED
    BY <1>1, <1>2, <2>1, <2>2, <2>3, GoesOn DEF Plain
<1>3. CASE chats' = [chats EXCEPT ![c] = Gone] /\ Done(k)
  <2>1. /\ LocksKept(k) /\ desk' = [desk EXCEPT ![k] = AtRest]
    BY <1>3, DoneLocks DEF Reread, Done
  <2>2. /\ desk' \in [Clerk -> DeskShape] /\ desk'[k] = AtRest
        /\ \A j \in Clerk \ {k} : desk'[j] = desk[j]
    BY <2>1, Rested, DeskReplaced
  <2>3. /\ chats' \in [Chat -> ChatShape] /\ Buried(chats'[c]) /\ Besides(c)
        /\ chats[c].in = Person \/ chats[c].in = {}
    BY <1>1, <1>3, Own, ChatShapes DEF Kept, Besides, Buried
  <2>4. Shared' \subseteq Shared /\ (OneProcess' <=> OneProcess)
    BY <1>1, <2>3, Own DEF Reread, Shared, OneProcess, Besides, Buried
  <2>5. Shapes'
    BY <2>1, <2>2, <2>3 DEF Reread, Inv, Shapes, LocksKept
  <2>6. ASSUME NEW j \in Clerk \ {k} PROVE Holds(j)' /\ Room(j)'
    <3>1. Holds(j) /\ Room(j)
      BY DEF Inv
    <3>2. At(j, "second") => desk[j].chat # c
      BY <2>3, <3>1, TwoPeople DEF Room, At
    <3>3. Room(j)'
      BY <2>2, <2>3, <2>4, <3>1, <3>2 DEF Room, Kept, Besides, At
    <3>4. Holds(j)'
      BY <2>1, <2>2, <2>3, <3>1, Own DEF Reread, Holds, Room, Kept, Besides, Buried, LocksKept
    <3> QED
      BY <3>3, <3>4
  <2>7. Holds(k)' /\ Room(k)'
    BY <2>2, Rested DEF Holds, Room, Locking
  <2>8. NewRoomsApart'
    BY <2>2, Rested DEF Inv, NewRoomsApart, At
  <2>9. OneShared'
    BY <2>4 DEF Inv, OneShared
  <2> QED
    BY <2>5, <2>6, <2>7, <2>8, <2>9 DEF Inv
<1> QED
  BY <1>2, <1>3 DEF Reread

-----------------------------------------------------------------------------
(* The invariant holds, and what follows from it.                          *)

LEMMA NextInv == Inv /\ [PairNext]_pvars => Inv'
<1> SUFFICES ASSUME Inv, [PairNext]_pvars PROVE Inv'
  OBVIOUS
<1>1. CASE UNCHANGED pvars
  BY <1>1 DEF pvars, Inv, Shapes, Holds, Room, Kept, NewRoomsApart, OneShared,
              At, Shared, OneProcess
<1>2. ASSUME NEW k \in Clerk,
             \/ \E call \in Call, p \in Person : Arrive(k, call, p)
             \/ LockPair(k) \/ Check(k) \/ Befriended(k) \/ Reciprocal(k)
             \/ Post(k) \/ Answer(k) \/ Erase(k) \/ FindChat(k)
      PROVE  Inv'
  BY <1>2, ArriveInv, LockPairInv, CheckInv, FriendshipInv, FindChatInv
<1>3. ASSUME NEW k \in Clerk,
             \/ Shut(k) \/ Measure(k) \/ Reopen(k) \/ GrantBoth(k) \/ DropBoth(k)
             \/ CreateChat(k) \/ AddSecond(k) \/ Reread(k)
      PROVE  Inv'
  BY <1>3, ShutInv, MeasureInv, ReopenInv, SubscriptionsInv, CreateChatInv,
     AddSecondInv, RereadInv
<1>4. ASSUME NEW k \in Clerk, InsertBlock(k) \/ CommitBlock(k) \/ FindBlocked(k)
      PROVE  Inv'
  BY <1>4, InsertBlockInv, CommitBlockInv, FindBlockedInv
<1>5. ASSUME NEW k \in Clerk, Begin(k) \/ Authorize(k) PROVE Inv'
  BY <1>5, BeginInv, AuthorizeInv
<1>6. ASSUME NEW k \in Clerk, WriteMessage(k) PROVE Inv'
  BY <1>6, EndSendInv DEF WriteMessage
<1> QED
  BY <1>1, <1>2, <1>3, <1>4, <1>5, <1>6 DEF PairNext

\* The locks of the two people's pair exclude what they are meant to exclude,
\* and what a handler of roomService.ts or friendService.ts has read under one
\* still holds while it has it, for any handlers.
THEOREM Invariance == PairSpec => []Inv
  BY InitInv, NextInv, PTL DEF PairSpec

\* Only a send that has been authorized writes.
LEMMA OnlyWritesSend ==
    ASSUME PairNext, sent' # sent
    PROVE  \E k \in Clerk : WriteMessage(k)
  BY DEF PairNext, Arrive, LockPair, Check, Befriended, Reciprocal, Post, Answer,
         Erase, FindChat, Shut, Measure, Reopen, GrantBoth, DropBoth, Subscriptions,
         CreateChat, AddSecond, Reread, InsertBlock, CommitBlock, FindBlocked,
         Begin, Authorize, Reading

\* However many handlers there are and in however many processes, no message
\* of either person commits to a room they share while a block between them is
\* committed: the advisory lock keeps a block out from the check to the write.
THEOREM BlocksKeepMessagesOut == PairSpec => NoMessageAcrossBlock
<1>1. Inv /\ [PairNext]_pvars => [sent' # sent => blocks = {}]_pvars
  <2> SUFFICES ASSUME Inv, PairNext, sent' # sent PROVE blocks = {}
    OBVIOUS
  <2>1. PICK k \in Clerk : WriteMessage(k)
    BY OnlyWritesSend
  <2> QED
    BY <2>1 DEF WriteMessage, At, Inv, Holds
<1> QED
  BY <1>1, Invariance, PTL DEF PairSpec, NoMessageAcrossBlock

LEMMA InvMeansOneRoom == Inv => OneRoomPerPair
<1> SUFFICES ASSUME Inv, OneProcess PROVE Cardinality(Shared) <= 1
  BY DEF OneRoomPerPair
<1>1. \A c, d \in Shared : c = d
  BY DEF Inv, OneShared
<1>2. CASE Shared = {}
  <2>1. Cardinality(Shared) = 0
    BY <1>2, FS_EmptySet
  <2> QED
    BY <2>1
<1>3. CASE Shared # {}
  <2>1. PICK c \in Shared : TRUE
    BY <1>3
  <2>2. Shared = {c}
    BY <1>1, <2>1
  <2>3. Cardinality({c}) = 1
    BY FS_Singleton
  <2>4. Cardinality(Shared) = 1
    BY <2>2, <2>3
  <2> QED
    BY <2>4
<1> QED
  BY <1>2, <1>3

\* Where one process serves the pair, the lock it holds in its memory is enough
\* for them never to share two rooms, however many handlers open one.
THEOREM PairsShareOneRoom == PairSpec => []OneRoomPerPair
  BY Invariance, InvMeansOneRoom, PTL

\* Both together, for any number of handlers of the pair.
THEOREM PairsAreSerialized == PairSpec => PairIsSerialized
  BY BlocksKeepMessagesOut, PairsShareOneRoom, PTL DEF PairIsSerialized

-----------------------------------------------------------------------------
(* Friends can talk.                                                       *)
(*                                                                         *)
(* Where one process serves the pair and no friendship changed beside      *)
(* another request, one clerk at a time moves blocks, friendship and rooms *)
(* (Mover). While none does, an open room has both subscribed and the room *)
(* of unblocked friends is open; what a mover has still to do about it is  *)
(* read off its step (Doing).                                              *)

\* The steps of each call.
Route(h) ==
    /\ h.call = "none" <=> h.step = "rest"
    /\ h.step = "lock" => Locking(h.call)
    /\ h.step \in {"begin", "authorize", "write"} => h.call = "send"
    /\ h.call = "send" => h.step \in {"check", "begin", "authorize", "write"}
    /\ h.call = "reject" => h.step = "erase"
    /\ h.step \in {"insert", "commit", "blocked", "drop"} <=>
         h.call = "block" /\ h.step # "lock"
    /\ h.step = "check" => h.call \in {"open", "ask", "accept", "send"}
    /\ h.step = "erase" => h.call \in {"reject", "unfriend", "unblock"}
    /\ h.step = "friend" => h.call \in {"ask", "open", "unblock"}
    /\ h.step \in {"pending", "post"} => h.call = "ask"
    /\ h.step = "update" => h.call \in {"ask", "accept"}
    /\ h.step = "shut" => h.call = "unfriend"
    /\ h.step \in {"create", "second", "reread"} => h.call = "open"
    /\ h.step \in {"measure", "reopen", "grant"} => h.call # "unfriend"

Mover(h) == Friendly(h.call) \/ (Locking(h.call) /\ h.step # "lock")

\* A blocked pair's rooms are shut, the room of unblocked friends is not, and
\* both are subscribed to an open room.
BlockedShut == blocks # {} => \A c \in Shared : chats[c].readonly
FriendsOpen == AreFriends /\ blocks = {} => \A c \in Shared : ~chats[c].readonly
OpenIsLive  == \A c \in Shared : ~chats[c].readonly => live[c] = Person

Doing(h) ==
    /\ h.step \in {"insert", "commit", "check", "erase", "pending", "post", "update"}
         => FriendsOpen /\ OpenIsLive
    /\ h.step = "commit" => h.by \in blocks \/ h.hit = Shared
    /\ h.step \in {"blocked", "drop"} => blocks # {}
    /\ h.step \in {"friend", "find", "shut", "measure", "reopen"} => OpenIsLive
    /\ h.step = "friend" /\ h.call # "unblock" => FriendsOpen
    /\ h.step \in {"friend", "find", "create", "second", "reread"} /\ h.call = "open"
         => blocks = {}
    /\ h.step \in {"find", "shut"} /\ h.call = "unfriend" => ~AreFriends
    /\ h.step \in {"measure", "reopen", "reread", "grant"} => h.chat \in Shared
    /\ h.step = "reopen" => (h.clear <=> blocks = {})
    /\ h.step \in {"reread", "grant"} => ~chats[h.chat].readonly
    /\ h.step = "grant" => blocks = {} /\ Person \ h.todo \subseteq live[h.chat]

Calm == OneProcess /\ ~crossed

Rows ==
    /\ request \in [Person -> {"none", "pending", "accepted"}]
    /\ blocks \subseteq Person
    /\ live \in [Chat -> SUBSET Person]

FriendsAlone ==
    ~crossed => \A j, k \in Clerk :
        j # k /\ Friendly(desk[k].call) => desk[j].call = "none"

\* The work of the clerk that moves, or that none does.
Settled ==
    /\ BlockedShut
    /\ (\A k \in Clerk : ~Mover(desk[k])) => FriendsOpen /\ OpenIsLive
    /\ \A k \in Clerk : Mover(desk[k]) => Doing(desk[k])

FriendInv ==
    /\ Inv /\ Rows /\ FriendsAlone
    /\ \A k \in Clerk : Route(desk[k])
    /\ Calm => Settled

\* One clerk moves at a time.
LEMMA OneMover ==
    ASSUME FriendInv, Calm, NEW j \in Clerk, NEW k \in Clerk,
           Mover(desk[j]), Mover(desk[k])
    PROVE  j = k
<1> SUFFICES ASSUME j # k PROVE FALSE
  OBVIOUS
<1>1. ~ Friendly(desk[j].call) /\ ~ Friendly(desk[k].call)
  BY DEF FriendInv, FriendsAlone, Calm, Friendly, Mover, Locking
<1>2. Holds(j) /\ Holds(k) /\ Route(desk[j]) /\ Route(desk[k])
  BY DEF FriendInv, Inv
<1>3. pairLock[place[j]] = j /\ pairLock[place[k]] = k
  BY <1>1, <1>2 DEF Holds, Mover, Route, Locking
<1> QED
  BY <1>3 DEF Calm, OneProcess

\* A clerk that does not move, before or after its step.
LEMMA Still ==
    ASSUME FriendInv, Calm, NEW k \in Clerk,
           \A j \in Clerk \ {k} : desk'[j] = desk[j],
           ~ Mover(desk[k]), ~ Mover(desk'[k]),
           UNCHANGED <<blocks, chats, live>>, AreFriends' <=> AreFriends
    PROVE  Settled'
<1>1. /\ Shared' = Shared /\ (BlockedShut' <=> BlockedShut)
      /\ (FriendsOpen' <=> FriendsOpen) /\ (OpenIsLive' <=> OpenIsLive)
  BY DEF Shared, BlockedShut, FriendsOpen, OpenIsLive
<1>2. \A j \in Clerk : Mover(desk[j])' <=> Mover(desk[j])
  BY DEF Mover
<1>3. ASSUME NEW j \in Clerk, Mover(desk[j])
      PROVE  Doing(desk[j])'
  <2>1. j # k /\ Doing(desk[j])
    BY <1>3 DEF FriendInv, Settled
  <2>2. ASSUME NEW h, h = desk[j] PROVE Doing(h)'
    BY <1>1, <2>1, <2>2 DEF Doing
  <2> QED
    BY <2>1, <2>2
<1> QED
  BY <1>1, <1>2, <1>3 DEF FriendInv, Settled

\* The clerk that moves.
LEMMA Moves ==
    ASSUME FriendInv, Calm, NEW k \in Clerk, Mover(desk[k]),
           \A j \in Clerk \ {k} : desk'[j] = desk[j],
           BlockedShut',
           \/ Mover(desk'[k]) /\ Doing(desk[k])'
           \/ ~Mover(desk'[k]) /\ FriendsOpen' /\ OpenIsLive'
    PROVE  Settled'
<1>1. \A j \in Clerk \ {k} : ~ Mover(desk[j])'
  BY OneMover DEF Mover
<1>2. Mover(desk[k])' <=> Mover(desk'[k])
  BY DEF Mover
<1> QED
  BY <1>1, <1>2 DEF Settled

\* A clerk begins to move where none does.
LEMMA Starts ==
    ASSUME FriendInv, Calm, NEW k \in Clerk,
           \A j \in Clerk : ~ Mover(desk[j]),
           \A j \in Clerk \ {k} : desk'[j] = desk[j],
           UNCHANGED <<request, blocks, chats, live>>,
           desk'[k].step \in {"insert", "check", "erase", "lock"}
    PROVE  Settled'
<1>1. /\ Shared' = Shared /\ BlockedShut' /\ FriendsOpen' /\ OpenIsLive'
  BY DEF FriendInv, Settled, Shared, BlockedShut, FriendsOpen, OpenIsLive, AreFriends
<1>2. \A j \in Clerk \ {k} : ~ Mover(desk[j])'
  BY DEF Mover
<1>3. Doing(desk[k])'
  BY <1>1 DEF Doing
<1> QED
  BY <1>1, <1>2, <1>3 DEF Settled

\* What a step leaves of the record of its clerk.
LEMMA Ended ==
    ASSUME Inv, NEW k \in Clerk, Done(k)
    PROVE  /\ desk'[k].step = "rest" /\ desk'[k].call = "none"
           /\ ~ Mover(desk'[k]) /\ Route(desk[k])'
           /\ \A j \in Clerk \ {k} : desk'[j] = desk[j]
<1>1. desk' = [desk EXCEPT ![k] = AtRest]
  BY DEF Done
<1>2. /\ desk'[k] = AtRest
      /\ \A j \in Clerk \ {k} : desk'[j] = desk[j]
  BY <1>1, Rested, DeskReplaced
<1> QED
  BY <1>2, Rested DEF Mover, Friendly, Locking, Route

LEMMA Stepped ==
    ASSUME Inv, NEW k \in Clerk, NEW s \in DeskStep, To(k, s)
    PROVE  /\ desk'[k].step = s /\ desk'[k].call = desk[k].call
           /\ desk'[k].by = desk[k].by /\ desk'[k].chat = desk[k].chat
           /\ desk'[k].todo = desk[k].todo /\ desk'[k].hit = desk[k].hit
           /\ \A j \in Clerk \ {k} : desk'[j] = desk[j]
<1> DEFINE h == [desk[k] EXCEPT !.step = s]
<1>1. h \in DeskShape /\ desk' = [desk EXCEPT ![k] = h]
  BY Own, DeskFields
<1>2. /\ desk'[k] = h
      /\ \A j \in Clerk \ {k} : desk'[j] = desk[j]
  BY <1>1, DeskReplaced
<1> QED
  BY <1>2, Own, DeskFields

\* Nobody's call changes but the clerk's own, which may end.
LEMMA AloneStays ==
    ASSUME FriendInv, NEW k \in Clerk,
           \A j \in Clerk \ {k} : desk'[j] = desk[j],
           desk'[k].call \in {desk[k].call, "none"}, crossed' = crossed
    PROVE  FriendsAlone'
  BY DEF FriendInv, FriendsAlone, Friendly

-----------------------------------------------------------------------------
(* One action at a time.                                                   *)

LEMMA ArriveFriend ==
    ASSUME FriendInv, NEW k \in Clerk, NEW call \in Call, NEW p \in Person,
           Arrive(k, call, p)
    PROVE  FriendInv'
<1> DEFINE s == CASE Locking(call) -> "lock"
                  [] call \in {"ask", "accept", "send"} -> "check"
                  [] OTHER -> "erase"
           h == [AtRest EXCEPT !.call = call, !.by = p, !.step = s]
<1>1. /\ h \in DeskShape /\ h.call = call /\ h.step = s
  BY Rested DEF DeskShape, DeskStep, Locking
<1>2. /\ desk' = [desk EXCEPT ![k] = h]
      /\ UNCHANGED <<place, request, blocks, chats, live>>
      /\ desk[k].step = "rest"
  BY DEF Arrive, At
<1> HIDE DEF h
<1>3. /\ desk'[k] = h /\ \A j \in Clerk \ {k} : desk'[j] = desk[j]
  BY <1>1, <1>2, DeskReplaced DEF FriendInv
<1>4. Route(desk[k])'
  BY <1>1, <1>3 DEF Route, Locking, Call
<1>5. ~ crossed' => /\ ~ crossed
                    /\ \A j \in Clerk \ {k} : desk[j].call # "none" =>
                          ~ Friendly(desk[j].call) /\ ~ Friendly(call)
  BY DEF Arrive
<1>6. FriendsAlone'
  <2> SUFFICES ASSUME ~ crossed', NEW i \in Clerk, NEW j \in Clerk, i # j,
                      Friendly(desk'[j].call)
               PROVE  desk'[i].call = "none"
    BY DEF FriendsAlone, Friendly
  <2>1. ~ crossed /\ Friendly(call) => \A n \in Clerk \ {k} : desk[n].call = "none"
    BY <1>5
  <2>2. CASE j = k
    BY <1>1, <1>3, <1>5, <2>1, <2>2
  <2>3. CASE j # k
    BY <1>3, <1>5, <2>3 DEF Friendly
  <2> QED
    BY <2>2, <2>3
<1>7. ~ Mover(desk[k])
  BY <1>2 DEF FriendInv, Route, Mover, Friendly, Locking
<1>8. ASSUME Calm' PROVE Settled'
  <2>1. Calm
    BY <1>2, <1>5, <1>8 DEF Calm, OneProcess
  <2>2. CASE ~ Mover(h)
    BY <1>2, <1>3, <1>7, <2>1, <2>2, Still DEF AreFriends
  <2>3. CASE Mover(h)
    <3>0. Locking(call) => h.step = "lock"
      <4>1. Locking(call) => s = "lock"
        BY DEF Locking
      <4> QED
        BY <1>1, <4>1
    <3>1. Friendly(call)
      BY <1>1, <2>3, <3>0 DEF Mover, Locking, Friendly
    <3>2. \A j \in Clerk \ {k} : desk[j].call = "none"
      BY <1>5, <1>8, <3>1 DEF Calm
    <3>3. \A j \in Clerk : ~ Mover(desk[j])
      BY <1>7, <3>2 DEF Mover, Friendly, Locking
    <3>4. desk'[k].step \in {"check", "erase"}
      BY <1>1, <1>3, <3>1 DEF Friendly, Locking
    <3> QED
      BY <1>2, <1>3, <2>1, <3>3, <3>4, Starts
  <2> QED
    BY <2>2, <2>3
<1> QED
  BY <1>2, <1>3, <1>4, <1>6, <1>8, ArriveInv DEF FriendInv, Rows

LEMMA LockPairFriend ==
    ASSUME FriendInv, NEW k \in Clerk, LockPair(k)
    PROVE  FriendInv'
<1> DEFINE s == CASE desk[k].call = "block" -> "insert"
                  [] desk[k].call = "unblock" -> "erase"
                  [] OTHER -> "check"
<1>1. /\ s \in DeskStep /\ To(k, s) /\ desk[k].step = "lock" /\ Inv
      /\ Route(desk[k])
  BY DEF DeskStep, LockPair, At, FriendInv
<1>2. /\ desk'[k].step = s /\ desk'[k].call = desk[k].call
      /\ \A j \in Clerk \ {k} : desk'[j] = desk[j]
  BY <1>1, Stepped
<1>3. Route(desk[k])'
  BY <1>1, <1>2 DEF Route, Locking
<1>4. UNCHANGED <<place, request, blocks, chats, live, crossed>>
  BY DEF LockPair
<1>5. ASSUME Calm PROVE Settled'
  <2>1. ASSUME NEW j \in Clerk PROVE ~ Mover(desk[j])
    <3>1. ~ Friendly(desk[j].call)
      <4>1. Locking(desk[k].call)
        BY <1>1 DEF Route
      <4> QED
        BY <1>5, <4>1 DEF FriendInv, FriendsAlone, Calm, Locking, Friendly
    <3>2. ~ (Locking(desk[j].call) /\ desk[j].step # "lock")
      <4>1. pairLock[place[j]] = NoClerk /\ NoClerk \notin Clerk
        BY <1>5, PairAssumption DEF LockPair, PairFree, Calm, OneProcess
      <4>2. Holds(j) /\ Route(desk[j])
        BY DEF FriendInv, Inv
      <4> QED
        BY <4>1, <4>2 DEF Holds, Route, Locking
    <3> QED
      BY <3>1, <3>2 DEF Mover
  <2> QED
    BY <1>2, <1>4, <1>5, <2>1, Starts
<1>6. FriendsAlone'
  BY <1>2, <1>4, AloneStays
<1> QED
  BY <1>2, <1>3, <1>4, <1>5, <1>6, LockPairInv
     DEF FriendInv, Rows, Calm, OneProcess

\* What remains to show of a step: its own clerk's route, the types, and that
\* the work goes on.
LEMMA Assemble ==
    ASSUME FriendInv, Inv', Rows', NEW k \in Clerk,
           \A j \in Clerk \ {k} : desk'[j] = desk[j],
           desk'[k].call \in {desk[k].call, "none"},
           UNCHANGED <<place, crossed>>,
           Route(desk[k])', Calm => Settled'
    PROVE  FriendInv'
<1>1. FriendsAlone'
  BY AloneStays
<1>2. \A j \in Clerk : Route(desk[j])'
  BY DEF FriendInv, Route, Locking
<1> QED
  BY <1>1, <1>2 DEF FriendInv, Calm, OneProcess

\* A clerk that ends where blocks, friends and rooms are as they should be.
LEMMA EndsWell ==
    ASSUME FriendInv, Inv', Rows', NEW k \in Clerk, Done(k),
           UNCHANGED <<place, crossed>>,
           Calm => \/ /\ ~ Mover(desk[k]) /\ UNCHANGED <<blocks, chats, live>>
                      /\ AreFriends' <=> AreFriends
                   \/ /\ Mover(desk[k])
                      /\ BlockedShut' /\ FriendsOpen' /\ OpenIsLive'
    PROVE  FriendInv'
<1>1. Inv
  BY DEF FriendInv
<1>2. Calm => Settled'
  BY <1>1, Ended, Still, Moves
<1> QED
  BY <1>1, <1>2, Ended, Assemble

\* A clerk that moves on.
LEMMA MovesOn ==
    ASSUME FriendInv, Inv', Rows', NEW k \in Clerk,
           \A j \in Clerk \ {k} : desk'[j] = desk[j],
           desk'[k].call = desk[k].call,
           UNCHANGED <<place, crossed>>,
           Route(desk[k])', Mover(desk[k]), Mover(desk'[k]),
           Calm => BlockedShut' /\ Doing(desk[k])'
    PROVE  FriendInv'
  BY Moves, Assemble

\* Nothing but records changed.
LEMMA SameRooms ==
    ASSUME UNCHANGED <<request, blocks, chats, live>>
    PROVE  /\ Shared' = Shared /\ (BlockedShut' <=> BlockedShut)
           /\ (FriendsOpen' <=> FriendsOpen) /\ (OpenIsLive' <=> OpenIsLive)
           /\ (AreFriends' <=> AreFriends)
           /\ Rows' <=> Rows
  BY DEF Shared, BlockedShut, FriendsOpen, OpenIsLive, AreFriends, Rows

LEMMA Working ==
    ASSUME FriendInv, Calm, NEW k \in Clerk, Mover(desk[k])
    PROVE  Doing(desk[k]) /\ BlockedShut
  BY DEF FriendInv, Settled
LEMMA CheckFriend ==
    ASSUME FriendInv, NEW k \in Clerk, Check(k)
    PROVE  FriendInv'
<1>1. /\ Inv /\ Inv' /\ desk[k].step = "check" /\ Route(desk[k])
      /\ UNCHANGED <<place, request, blocks, chats, live, crossed>>
  BY CheckInv DEF FriendInv, Check, Reading, At
<1>2. Rows'
  BY <1>1, SameRooms DEF FriendInv
<1>3. CASE desk[k].call = "send"
  <2>1. ~ Mover(desk[k])
    BY <1>3 DEF Mover, Friendly, Locking
  <2>2. CASE Done(k)
    BY <1>1, <1>2, <2>1, <2>2, EndsWell DEF AreFriends
  <2>3. ASSUME NEW c \in Shared,
               desk' = [desk EXCEPT ![k].step = "begin", ![k].chat = c]
        PROVE  FriendInv'
    <3> DEFINE h == [desk[k] EXCEPT !.step = "begin", !.chat = c]
    <3>1. h \in DeskShape /\ h.step = "begin" /\ h.call = desk[k].call
      <4>1. desk[k] \in DeskShape /\ c \in 0..MaxChat
        BY <1>1, PairAssumption, Own DEF Shared, Chat
      <4> QED
        BY <4>1 DEF DeskShape, DeskStep
    <3>2. desk' = [desk EXCEPT ![k] = h]
      BY <2>3
    <3> HIDE DEF h
    <3>3. /\ desk'[k] = h /\ \A j \in Clerk \ {k} : desk'[j] = desk[j]
      BY <1>1, <3>1, <3>2, DeskReplaced
    <3>4. Route(desk[k])' /\ ~ Mover(desk'[k])
      BY <1>3, <3>1, <3>3 DEF Route, Mover, Friendly, Locking
    <3>5. Calm => Settled'
      BY <1>1, <2>1, <3>3, <3>4, Still DEF AreFriends
    <3> QED
      BY <1>1, <1>2, <3>1, <3>3, <3>4, <3>5, Assemble
  <2> QED
    BY <1>3, <2>2, <2>3 DEF Check
<1>4. CASE desk[k].call # "send"
  <2>1. Mover(desk[k])
    BY <1>1, <1>4 DEF Route, Mover, Friendly, Locking
  <2>2. Calm => FriendsOpen' /\ OpenIsLive' /\ BlockedShut'
    BY <1>1, <2>1, SameRooms, Working DEF Doing
  <2>3. CASE Done(k)
    BY <1>1, <1>2, <2>1, <2>2, <2>3, EndsWell
  <2>4. CASE To(k, IF desk[k].call = "accept" THEN "update" ELSE "friend")
             /\ blocks = {}
    <3> PICK s \in DeskStep : s = IF desk[k].call = "accept" THEN "update" ELSE "friend"
      BY DEF DeskStep
    <3>1. /\ desk'[k].step = s /\ desk'[k].call = desk[k].call
          /\ \A j \in Clerk \ {k} : desk'[j] = desk[j]
      BY <1>1, <2>4, Stepped
    <3>2. Route(desk[k])'
      BY <1>1, <1>4, <3>1 DEF Route
    <3>3. Mover(desk'[k])
      BY <1>1, <1>4, <3>1 DEF Route, Mover, Friendly, Locking
    <3>4. Calm => Doing(desk[k])'
      BY <1>1, <2>2, <2>4, <3>1 DEF Doing
    <3> QED
      BY <1>1, <1>2, <2>1, <2>2, <3>1, <3>2, <3>3, <3>4, MovesOn
  <2> QED
    BY <1>4, <2>3, <2>4 DEF Check
<1> QED
  BY <1>3, <1>4

\* A clerk of a friend request or an open goes on to a step with nothing new
\* to look after.
LEMMA BefriendedFriend ==
    ASSUME FriendInv, NEW k \in Clerk, Befriended(k)
    PROVE  FriendInv'
<1>1. /\ Inv /\ Inv' /\ desk[k].step = "friend" /\ Route(desk[k])
      /\ UNCHANGED <<place, request, blocks, chats, live, crossed>>
  BY FriendshipInv DEF FriendInv, Befriended, Reading, At
<1>2. Rows'
  BY <1>1, SameRooms DEF FriendInv
<1>3. Mover(desk[k]) /\ desk[k].call \in {"ask", "open", "unblock"}
  BY <1>1 DEF Route, Mover, Friendly, Locking
<1>4. Calm => /\ OpenIsLive' /\ BlockedShut'
              /\ desk[k].call # "unblock" => FriendsOpen'
              /\ desk[k].call = "open" => blocks' = {}
  BY <1>1, <1>3, SameRooms, Working DEF Doing
<1>5. CASE Done(k)
  <2>1. desk[k].call = "unblock" => FriendsOpen'
    BY <1>1, <1>3, <1>5, SameRooms DEF Befriended, FriendsOpen, AreFriends, Done, To,
       DeskShape, Inv, Shapes, AtRest
  <2> QED
    BY <1>1, <1>2, <1>3, <1>4, <1>5, <2>1, EndsWell
<1>6. ASSUME NEW s \in {"pending", "find"}, To(k, s),
             s = "pending" <=> desk[k].call = "ask"
      PROVE  FriendInv'
  <2>1. /\ desk'[k].step = s /\ desk'[k].call = desk[k].call
        /\ \A j \in Clerk \ {k} : desk'[j] = desk[j]
    BY <1>1, <1>6, Stepped DEF DeskStep
  <2>2. Route(desk[k])' /\ Mover(desk'[k])
    BY <1>3, <1>6, <2>1 DEF Route, Mover, Friendly, Locking
  <2>3. Calm => Doing(desk[k])'
    BY <1>3, <1>4, <1>6, <2>1 DEF Doing
  <2> QED
    BY <1>1, <1>2, <1>3, <1>4, <2>1, <2>2, <2>3, MovesOn
<1> QED
  BY <1>3, <1>5, <1>6 DEF Befriended

LEMMA ReciprocalFriend ==
    ASSUME FriendInv, NEW k \in Clerk, Reciprocal(k)
    PROVE  FriendInv'
<1>1. /\ Inv /\ Inv' /\ desk[k].step = "pending" /\ Route(desk[k])
      /\ UNCHANGED <<place, request, blocks, chats, live, crossed>>
  BY FriendshipInv DEF FriendInv, Reciprocal, Reading, At
<1>2. Mover(desk[k]) /\ desk[k].call = "ask"
  BY <1>1 DEF Route, Mover, Friendly
<1>3. Calm => OpenIsLive' /\ BlockedShut' /\ FriendsOpen'
  BY <1>1, <1>2, SameRooms, Working DEF Doing
<1>4. PICK s \in {"update", "post"} : To(k, s)
  BY DEF Reciprocal
<1>5. /\ desk'[k].step = s /\ desk'[k].call = desk[k].call
      /\ \A j \in Clerk \ {k} : desk'[j] = desk[j]
  BY <1>1, <1>4, Stepped DEF DeskStep
<1>6. Route(desk[k])' /\ Mover(desk'[k])
  BY <1>2, <1>5 DEF Route, Mover, Friendly, Locking
<1>7. Calm => Doing(desk[k])'
  BY <1>2, <1>3, <1>5 DEF Doing
<1> QED
  BY <1>1, <1>2, <1>3, <1>5, <1>6, <1>7, SameRooms, MovesOn DEF FriendInv

LEMMA PostFriend ==
    ASSUME FriendInv, NEW k \in Clerk, Post(k)
    PROVE  FriendInv'
<1>1. /\ Inv /\ Inv' /\ desk[k].step = "post" /\ Route(desk[k])
      /\ UNCHANGED <<place, blocks, chats, live, crossed>> /\ Done(k)
  BY FriendshipInv DEF FriendInv, Post, At
<1>2. Mover(desk[k])
  BY <1>1 DEF Route, Mover, Friendly
<1>3. PICK p \in Person :
        request' = [request EXCEPT ![p] = IF @ = "none" THEN "pending" ELSE @]
  BY <1>1, Own, DeskFields DEF Post
<1>4. Rows' /\ (AreFriends' <=> AreFriends)
  BY <1>1, <1>3 DEF Rows, FriendInv, AreFriends
<1>5. Calm => OpenIsLive' /\ BlockedShut' /\ FriendsOpen'
  BY <1>1, <1>2, <1>4, Working
     DEF Doing, OpenIsLive, BlockedShut, FriendsOpen, Shared
<1> QED
  BY <1>1, <1>2, <1>4, <1>5, EndsWell

LEMMA AnswerFriend ==
    ASSUME FriendInv, NEW k \in Clerk, Answer(k)
    PROVE  FriendInv'
<1>1. /\ Inv /\ Inv' /\ desk[k].step = "update" /\ Route(desk[k])
      /\ UNCHANGED <<place, blocks, chats, live, crossed>>
  BY FriendshipInv DEF FriendInv, Answer, At
<1>2. Mover(desk[k]) /\ desk[k].call \in {"ask", "accept"}
  BY <1>1 DEF Route, Mover, Friendly
<1>3. Calm => /\ OpenIsLive' /\ BlockedShut'
              /\ UNCHANGED request => FriendsOpen'
  BY <1>1, <1>2, Working
     DEF Doing, OpenIsLive, BlockedShut, FriendsOpen, Shared, AreFriends
<1>4. CASE Done(k) /\ UNCHANGED request
  BY <1>1, <1>2, <1>3, <1>4, EndsWell, SameRooms DEF FriendInv
<1>5. CASE /\ request' = [request EXCEPT ![Peer(desk[k].by)] = "accepted"]
           /\ To(k, "find")
  <2>1. /\ desk'[k].step = "find" /\ desk'[k].call = desk[k].call
        /\ \A j \in Clerk \ {k} : desk'[j] = desk[j]
    BY <1>1, <1>5, Stepped DEF DeskStep
  <2>2. Route(desk[k])' /\ Mover(desk'[k])
    BY <1>2, <2>1 DEF Route, Mover, Friendly, Locking
  <2>3. Calm => Doing(desk[k])'
    BY <1>2, <1>3, <2>1 DEF Doing
  <2>4. Rows'
    BY <1>1, <1>5 DEF Rows, FriendInv
  <2> QED
    BY <1>1, <1>2, <1>3, <2>1, <2>2, <2>3, <2>4, MovesOn
<1> QED
  BY <1>4, <1>5 DEF Answer

\* A clerk that moves on with a record of its own.
LEMMA MovesWith ==
    ASSUME FriendInv, Inv', Rows', NEW k \in Clerk, NEW h \in DeskShape,
           desk' = [desk EXCEPT ![k] = h], h.call = desk[k].call,
           UNCHANGED <<place, crossed>>,
           Route(h), Mover(desk[k]), Mover(h),
           Calm => BlockedShut' /\ Doing(h)'
    PROVE  FriendInv'
<1>1. /\ desk'[k] = h /\ \A j \in Clerk \ {k} : desk'[j] = desk[j]
  BY DeskReplaced DEF FriendInv
<1>2. Route(desk[k])' /\ (Calm => Doing(desk[k])')
  BY <1>1 DEF Route, Doing
<1> QED
  BY <1>1, <1>2, MovesOn

LEMMA EraseFriend ==
    ASSUME FriendInv, NEW k \in Clerk, Erase(k)
    PROVE  FriendInv'
<1>1. /\ Inv /\ Inv' /\ desk[k].step = "erase" /\ Route(desk[k])
      /\ UNCHANGED <<place, chats, live, crossed>>
      /\ Rows /\ Shared' = Shared
  BY FriendshipInv DEF FriendInv, Erase, At, Shared
<1>2. CASE /\ desk[k].call = "reject" /\ Done(k) /\ UNCHANGED blocks
           /\ request' = [request EXCEPT ![Peer(desk[k].by)] =
                            IF @ = "pending" THEN "none" ELSE @]
  <2>1. ~ Mover(desk[k])
    BY <1>2 DEF Mover, Friendly, Locking
  <2>2. Rows' /\ (AreFriends' <=> AreFriends)
    BY <1>1, <1>2 DEF Rows, AreFriends
  <2> QED
    BY <1>1, <1>2, <2>1, <2>2, EndsWell
<1>3. CASE /\ desk[k].call = "unfriend" /\ To(k, "find") /\ UNCHANGED blocks
           /\ request' = [p \in Person |-> "none"]
  <2>1. Mover(desk[k])
    BY <1>3 DEF Mover, Friendly
  <2>2. Calm => OpenIsLive' /\ BlockedShut'
    BY <1>1, <1>3, <2>1, Working DEF Doing, OpenIsLive, BlockedShut
  <2>3. Rows' /\ ~ AreFriends'
    BY <1>1, <1>3 DEF Rows, AreFriends
  <2>4. /\ desk'[k].step = "find" /\ desk'[k].call = desk[k].call
        /\ \A j \in Clerk \ {k} : desk'[j] = desk[j]
    BY <1>1, <1>3, Stepped DEF DeskStep
  <2>5. Route(desk[k])' /\ Mover(desk'[k])
    BY <1>3, <2>4 DEF Route, Mover, Friendly, Locking
  <2>6. Calm => Doing(desk[k])'
    BY <1>3, <2>2, <2>3, <2>4 DEF Doing
  <2> QED
    BY <1>1, <2>1, <2>2, <2>3, <2>4, <2>5, <2>6, MovesOn
<1>4. CASE /\ desk[k].call = "unblock" /\ To(k, "friend") /\ UNCHANGED request
           /\ blocks' = blocks \ {desk[k].by}
  <2>1. Mover(desk[k])
    BY <1>1, <1>4 DEF Mover, Locking
  <2>2. Calm => OpenIsLive' /\ BlockedShut'
    BY <1>1, <1>4, <2>1, Working DEF Doing, OpenIsLive, BlockedShut
  <2>3. Rows'
    BY <1>1, <1>4 DEF Rows
  <2>4. /\ desk'[k].step = "friend" /\ desk'[k].call = desk[k].call
        /\ \A j \in Clerk \ {k} : desk'[j] = desk[j]
    BY <1>1, <1>4, Stepped DEF DeskStep
  <2>5. Route(desk[k])' /\ Mover(desk'[k])
    BY <1>4, <2>4 DEF Route, Mover, Friendly, Locking
  <2>6. Calm => Doing(desk[k])'
    BY <1>4, <2>2, <2>4 DEF Doing
  <2> QED
    BY <1>1, <2>1, <2>2, <2>3, <2>4, <2>5, <2>6, MovesOn
<1> QED
  BY <1>2, <1>3, <1>4 DEF Erase

LEMMA FindChatFriend ==
    ASSUME FriendInv, NEW k \in Clerk, FindChat(k)
    PROVE  FriendInv'
<1> DEFINE with(s) == [desk[k] EXCEPT !.step = s, !.chat = OurChat]
<1>1. /\ Inv /\ Inv' /\ desk[k].step = "find" /\ Route(desk[k])
      /\ UNCHANGED <<place, request, blocks, chats, live, crossed>>
      /\ desk[k] \in DeskShape
  BY FindChatInv, Own DEF FriendInv, FindChat, Reading, At
<1>2. Mover(desk[k]) /\ desk[k].call \in Call \ {"send", "reject", "block"} /\ Rows'
  BY <1>1, SameRooms, DeskFields DEF FriendInv, Route, Mover, Friendly, Locking, Call
<1>3. Calm => /\ OpenIsLive' /\ BlockedShut'
              /\ desk[k].call = "open" => blocks' = {}
              /\ desk[k].call = "unfriend" => ~ AreFriends'
  BY <1>1, <1>2, SameRooms, Working DEF Doing
<1>4. \A s \in DeskStep :
         /\ with(s) \in DeskShape /\ with(s).step = s /\ with(s).call = desk[k].call
         /\ with(s).chat = OurChat
  BY <1>1, Newest DEF DeskShape
<1>5. CASE Done(k)
  <2>1. \/ desk[k].call = "unfriend"
        \/ OurChat = 0
        \/ ~ chats[OurChat].readonly
    <3> HIDE DEF with
    <3>1. desk'[k].step = "rest" /\ desk' # [desk EXCEPT ![k] = with("shut")]
      <4>1. "shut" \in DeskStep
        BY DEF DeskStep
      <4> QED
        BY <1>1, <1>4, <1>5, <4>1, Ended, DeskReplaced
    <3>2. desk' # [desk EXCEPT ![k] = with("create")]
          /\ desk' # [desk EXCEPT ![k] = with("measure")]
      <4>1. "create" \in DeskStep /\ "measure" \in DeskStep
        BY DEF DeskStep
      <4> QED
        BY <1>1, <1>4, <1>5, <4>1, Ended, DeskReplaced
    <3> USE DEF with
    <3> QED
      BY <3>1, <3>2 DEF FindChat, Reopened
  <2>2. Calm => FriendsOpen'
    <3>1. Calm => \A c \in Shared : c = OurChat
      BY <1>1, Newest DEF Inv, OneShared, Calm
    <3>2. OurChat = 0 => Shared = {}
      BY Newest
    <3> QED
      BY <1>1, <1>3, <2>1, <3>1, <3>2, SameRooms DEF FriendsOpen
  <2> QED
    BY <1>1, <1>2, <1>3, <1>5, <2>2, EndsWell
<1>6. ASSUME NEW s \in {"shut", "create", "measure"},
             desk' = [desk EXCEPT ![k] = with(s)],
             s = "shut" <=> desk[k].call = "unfriend",
             s = "create" => desk[k].call = "open",
             s = "measure" => OurChat # 0
      PROVE  FriendInv'
  <2> HIDE DEF with
  <2> PICK h \in DeskShape : h = with(s)
    BY <1>4 DEF DeskStep
  <2>1. h.step = s /\ h.call = desk[k].call /\ h.chat = OurChat
    BY <1>4 DEF DeskStep
  <2>2. Route(h) /\ Mover(h)
    BY <1>2, <1>6, <2>1 DEF Route, Mover, Friendly, Locking, Call
  <2>3. s = "measure" => OurChat \in Shared'
    BY <1>1, <1>6, Newest, SameRooms
  <2>4. Calm => Doing(h)'
    BY <1>1, <1>2, <1>3, <1>6, <2>1, <2>3 DEF Doing
  <2> QED
    BY <1>1, <1>2, <1>3, <1>6, <2>1, <2>2, <2>4, MovesWith
<1> QED
  BY <1>1, <1>5, <1>6 DEF FindChat

LEMMA ShutFriend ==
    ASSUME FriendInv, NEW k \in Clerk, Shut(k)
    PROVE  FriendInv'
<1>1. /\ Inv /\ Inv' /\ desk[k].step = "shut" /\ Route(desk[k])
      /\ UNCHANGED <<place, request, blocks, live, crossed>> /\ Done(k)
      /\ chats' = [chats EXCEPT ![desk[k].chat] = [@ EXCEPT !.readonly = TRUE]]
      /\ chats \in [Chat -> ChatShape]
  BY ShutInv, Own DEF FriendInv, Shut, At
<1>2. Mover(desk[k]) /\ desk[k].call = "unfriend" /\ Rows'
  BY <1>1 DEF FriendInv, Route, Mover, Friendly, Rows
<1>3. \A c \in Chat : /\ chats'[c].in = chats[c].in
                      /\ chats'[c].readonly = TRUE \/ chats'[c] = chats[c]
  BY <1>1, Marked
<1>4. Shared' = Shared
  BY <1>3 DEF Shared
<1>5. Calm => OpenIsLive' /\ BlockedShut' /\ FriendsOpen'
  <2> SUFFICES ASSUME Calm PROVE OpenIsLive' /\ BlockedShut' /\ FriendsOpen'
    OBVIOUS
  <2>1. OpenIsLive /\ BlockedShut /\ ~ AreFriends
    BY <1>1, <1>2, Working DEF Doing
  <2>2. ~ AreFriends'
    BY <1>1, <2>1 DEF AreFriends
  <2>3. Shared \subseteq Chat
    BY DEF Shared
  <2> QED
    BY <1>1, <1>3, <1>4, <2>1, <2>2, <2>3 DEF OpenIsLive, BlockedShut, FriendsOpen
<1> QED
  BY <1>1, <1>2, <1>5, EndsWell

LEMMA MeasureFriend ==
    ASSUME FriendInv, NEW k \in Clerk, Measure(k)
    PROVE  FriendInv'
<1>1. /\ Inv /\ Inv' /\ desk[k].step = "measure" /\ Route(desk[k])
      /\ UNCHANGED <<place, request, blocks, chats, live, crossed>>
      /\ desk[k] \in DeskShape
  BY MeasureInv, Own DEF FriendInv, Measure, Reading, At
<1>2. /\ Mover(desk[k]) /\ Rows' /\ desk[k].call # "unfriend"
      /\ desk[k].call \in Call \ {"send", "reject", "block"}
  BY <1>1, SameRooms, DeskFields DEF FriendInv, Route, Mover, Friendly, Locking, Call
<1>3. Calm => OpenIsLive' /\ BlockedShut' /\ desk[k].chat \in Shared
  BY <1>1, <1>2, SameRooms, Working DEF Doing
<1> DEFINE b == Unblocked /\ desk[k].chat \in Shared
           g == [desk[k] EXCEPT !.step = "reopen", !.clear = b]
<1> PICK h : h = g
  OBVIOUS
<1>4. /\ h \in DeskShape /\ h.step = "reopen" /\ h.call = desk[k].call
      /\ h.chat = desk[k].chat /\ (h.clear <=> Unblocked /\ desk[k].chat \in Shared)
  BY <1>1 DEF DeskShape, DeskStep
<1>5. desk' = [desk EXCEPT ![k] = h]
  BY <1>1 DEF Measure, Inv, Shapes, DeskShape
<1>6. Route(h) /\ Mover(h)
  BY <1>2, <1>4 DEF Route, Mover, Friendly, Locking, Call
<1>7. Calm => Doing(h)'
  BY <1>1, <1>2, <1>3, <1>4, SameRooms DEF Doing, Unblocked
<1> HIDE DEF g
<1> QED
  BY <1>1, <1>2, <1>3, <1>4, <1>5, <1>6, <1>7, MovesWith

\* The rows a step leaves alone.
LEMMA RowsStay ==
    ASSUME FriendInv, UNCHANGED <<request, blocks, live>>
    PROVE  Rows' /\ (AreFriends' <=> AreFriends)
  BY DEF FriendInv, Rows, AreFriends

LEMMA ReopenFriend ==
    ASSUME FriendInv, NEW k \in Clerk, Reopen(k)
    PROVE  FriendInv'
<1> DEFINE c == desk[k].chat
           g == [desk[k] EXCEPT !.step = "grant", !.todo = Person]
<1>1. /\ Inv /\ Inv' /\ desk[k].step = "reopen" /\ Route(desk[k])
      /\ UNCHANGED <<place, request, blocks, live, crossed>>
      /\ desk[k] \in DeskShape /\ Rows'
  BY ReopenInv, RowsStay, Own DEF FriendInv, Reopen, At
<1>2. Mover(desk[k]) /\ desk[k].call \in Call \ {"send", "reject", "block", "unfriend"}
  BY <1>1, DeskFields DEF Route, Mover, Friendly, Locking, Call
<1>3. Calm => /\ OpenIsLive /\ BlockedShut /\ c \in Shared
              /\ desk[k].clear <=> blocks = {}
  BY <1>1, <1>2, Working DEF Doing
<1>4. CASE /\ Done(k) /\ UNCHANGED chats /\ ~ (desk[k].clear /\ c \in Shared)
  <2>1. Calm => OpenIsLive' /\ BlockedShut' /\ FriendsOpen'
    BY <1>1, <1>3, <1>4, SameRooms DEF FriendsOpen
  <2> QED
    BY <1>1, <1>2, <1>4, <2>1, EndsWell
<1>5. CASE /\ desk[k].clear /\ c \in Shared
           /\ chats' = [chats EXCEPT ![c].readonly = FALSE]
           /\ desk' = [desk EXCEPT ![k].step = "grant", ![k].todo = Person]
  <2> PICK h : h = g
    OBVIOUS
  <2>1. /\ h \in DeskShape /\ h.step = "grant" /\ h.call = desk[k].call
        /\ h.chat = c /\ h.todo = Person
    BY <1>1 DEF DeskShape, DeskStep
  <2>2. desk' = [desk EXCEPT ![k] = h]
    BY <1>1, <1>5 DEF Inv, Shapes, DeskShape
  <2>3. Route(h) /\ Mover(h)
    BY <1>2, <2>1 DEF Route, Mover, Friendly, Locking, Call
  <2>4. c \in Shared' /\ chats'[c].readonly = FALSE
    BY <1>1, <1>5, Own, Marked DEF Shared, ChatShape
  <2>5. Calm => BlockedShut' /\ Doing(h)'
    BY <1>1, <1>2, <1>3, <1>5, <2>1, <2>4 DEF Doing, BlockedShut
  <2> HIDE DEF g
  <2> QED
    BY <1>1, <1>2, <2>1, <2>2, <2>3, <2>5, MovesWith
<1> QED
  BY <1>4, <1>5 DEF Reopen

LEMMA SubscriptionsFriend ==
    ASSUME FriendInv, NEW k \in Clerk, NEW step \in {"grant", "drop"},
           NEW joins \in BOOLEAN, joins <=> step = "grant",
           Subscriptions(k, step, joins)
    PROVE  FriendInv'
<1> DEFINE c == desk[k].chat
<1>1. /\ Inv /\ Inv' /\ desk[k].step = step /\ Route(desk[k])
      /\ UNCHANGED <<place, request, blocks, chats, crossed>>
      /\ desk[k] \in DeskShape /\ Rows /\ Shared' = Shared
  BY SubscriptionsInv, Own
     DEF FriendInv, Subscriptions, GrantBoth, DropBoth, At, Shared
<1>2. Mover(desk[k])
  BY <1>1, DeskFields DEF Route, Mover, Friendly, Locking, Call
<1>3. Calm => /\ BlockedShut
              /\ step = "grant" => /\ c \in Shared /\ ~ chats[c].readonly /\ blocks = {}
                                   /\ Person \ desk[k].todo \subseteq live[c]
              /\ step = "drop" => blocks # {}
  BY <1>1, <1>2, Working DEF Doing
<1>4. CASE desk[k].todo = {} /\ Done(k) /\ UNCHANGED live
  <2> SUFFICES ASSUME Calm PROVE BlockedShut' /\ FriendsOpen' /\ OpenIsLive'
    BY <1>1, <1>2, <1>4, RowsStay, EndsWell
  <2>1. BlockedShut /\ FriendsOpen /\ OpenIsLive
    <3>1. CASE step = "drop"
      BY <1>3, <3>1 DEF BlockedShut, FriendsOpen, OpenIsLive
    <3>2. CASE step = "grant"
      <4>1. \A d \in Shared : d = c
        BY <1>1, <1>3, <3>2 DEF Inv, OneShared, Calm
      <4>2. live[c] = Person
        BY <1>1, <1>3, <1>4, <3>2 DEF Rows, Shared
      <4> QED
        BY <1>3, <3>2, <4>1, <4>2 DEF BlockedShut, FriendsOpen, OpenIsLive
    <3> QED
      BY <3>1, <3>2
  <2> QED
    BY <1>1, <1>4, <2>1, SameRooms
<1>5. ASSUME NEW p \in desk[k].todo,
             live' = [live EXCEPT ![c] = IF joins THEN @ \cup {p} ELSE @ \ {p}],
             desk' = [desk EXCEPT ![k].todo = @ \ {p}]
      PROVE  FriendInv'
  <2> DEFINE g == [desk[k] EXCEPT !.todo = @ \ {p}]
  <2> PICK h : h = g
    OBVIOUS
  <2>1. /\ h \in DeskShape /\ h.step = step /\ h.call = desk[k].call
        /\ h.chat = c /\ h.todo = desk[k].todo \ {p}
    BY <1>1 DEF DeskShape
  <2>2. desk' = [desk EXCEPT ![k] = h]
    BY <1>1, <1>5 DEF Inv, Shapes, DeskShape
  <2>3. Route(h) /\ Mover(h)
    BY <1>1, <1>2, <2>1 DEF Route, Mover, Friendly, Locking
  <2>4. Rows' /\ p \in Person
    <3>1. p \in Person
      BY <1>1, DeskFields
    <3>2. live' \in [Chat -> SUBSET Person]
      BY <1>1, <1>5, <3>1 DEF Rows
    <3> QED
      BY <1>1, <3>1, <3>2 DEF Rows
  <2>5. ASSUME Calm PROVE BlockedShut' /\ Doing(h)'
    <3>1. BlockedShut'
      BY <1>1, <1>3, <2>5 DEF BlockedShut
    <3>2. CASE step = "drop"
      BY <1>1, <1>3, <2>1, <2>5, <3>1, <3>2 DEF Doing
    <3>3. CASE step = "grant"
      <4>1. joins = TRUE /\ c \in Chat /\ c \in Shared
        BY <1>3, <2>5, <3>3 DEF Shared
      <4>2. live'[c] = live[c] \cup {p}
        BY <1>1, <1>5, <4>1 DEF Rows
      <4>3. Person \ h.todo \subseteq live'[c]
        BY <1>3, <2>1, <2>5, <3>3, <4>2
      <4> QED
        BY <1>1, <1>3, <2>1, <2>5, <3>1, <3>3, <4>1, <4>3 DEF Doing
    <3> QED
      BY <3>1, <3>2, <3>3
  <2> HIDE DEF g
  <2> QED
    BY <1>1, <1>2, <2>1, <2>2, <2>3, <2>4, <2>5, MovesWith
<1> QED
  BY <1>4, <1>5 DEF Subscriptions

LEMMA CreateChatFriend ==
    ASSUME FriendInv, NEW k \in Clerk, CreateChat(k)
    PROVE  FriendInv'
<1>1. PICK c \in Chat :
        /\ chats[c] = NoChat
        /\ chats' = [chats EXCEPT ![c].in = {desk[k].by}]
        /\ desk' = [desk EXCEPT ![k].step = "second", ![k].chat = c]
        /\ desk[k].step = "create"
        /\ UNCHANGED <<place, request, blocks, live, crossed>>
  BY DEF CreateChat, At
<1>2. /\ Inv /\ Inv' /\ desk[k].step = "create" /\ Route(desk[k])
      /\ UNCHANGED <<place, request, blocks, live, crossed>>
      /\ desk[k] \in DeskShape /\ Rows' /\ c \in 0..MaxChat
  BY <1>1, CreateChatInv, RowsStay, Own, PairAssumption DEF FriendInv, Chat
<1>3. Mover(desk[k]) /\ desk[k].call = "open"
  BY <1>2 DEF Route, Mover, Locking
<1>4. Calm => blocks' = {}
  BY <1>2, <1>3, Working DEF Doing
<1> DEFINE g == [desk[k] EXCEPT !.step = "second", !.chat = c]
<1> PICK h : h = g
  OBVIOUS
<1>5. h \in DeskShape /\ h.step = "second" /\ h.call = desk[k].call
  BY <1>2 DEF DeskShape, DeskStep
<1>6. desk' = [desk EXCEPT ![k] = h]
  BY <1>1, <1>2 DEF Inv, Shapes, DeskShape
<1>7. Route(h) /\ Mover(h)
  BY <1>3, <1>5 DEF Route, Mover, Friendly, Locking
<1>8. Calm => BlockedShut' /\ Doing(h)'
  BY <1>3, <1>4, <1>5 DEF Doing, BlockedShut
<1> HIDE DEF g
<1> QED
  BY <1>2, <1>3, <1>5, <1>6, <1>7, <1>8, MovesWith

LEMMA AddSecondFriend ==
    ASSUME FriendInv, NEW k \in Clerk, AddSecond(k)
    PROVE  FriendInv'
<1>1. /\ Inv /\ Inv' /\ desk[k].step = "second" /\ Route(desk[k])
      /\ UNCHANGED <<place, request, blocks, live, crossed>>
      /\ To(k, "reread") /\ Rows' /\ desk[k].chat \in Chat
      /\ chats' = [chats EXCEPT ![desk[k].chat] =
                     [in |-> Person, readonly |-> blocks # {}]]
      /\ chats \in [Chat -> ChatShape]
  BY AddSecondInv, RowsStay, Own DEF FriendInv, AddSecond, At, Room
<1>2. Mover(desk[k]) /\ desk[k].call = "open"
  BY <1>1 DEF Route, Mover, Locking
<1>3. Calm => blocks' = {}
  BY <1>1, <1>2, Working DEF Doing
<1>4. /\ desk'[k].step = "reread" /\ desk'[k].call = desk[k].call
      /\ desk'[k].chat = desk[k].chat
      /\ \A j \in Clerk \ {k} : desk'[j] = desk[j]
  BY <1>1, Stepped DEF DeskStep
<1>5. Route(desk[k])' /\ Mover(desk'[k])
  BY <1>2, <1>4 DEF Route, Mover, Friendly, Locking
<1>6. desk[k].chat \in Shared' /\ (chats'[desk[k].chat].readonly <=> blocks # {})
  BY <1>1 DEF Shared
<1>7. Calm => BlockedShut' /\ Doing(desk[k])'
  BY <1>1, <1>2, <1>3, <1>4, <1>6 DEF Doing, BlockedShut
<1> QED
  BY <1>1, <1>2, <1>4, <1>5, <1>7, MovesOn

LEMMA RereadFriend ==
    ASSUME FriendInv, NEW k \in Clerk, Reread(k)
    PROVE  FriendInv'
<1> DEFINE c == desk[k].chat
           g == [desk[k] EXCEPT !.step = "grant", !.todo = Person]
<1>1. /\ Inv /\ Inv' /\ desk[k].step = "reread" /\ Route(desk[k])
      /\ UNCHANGED <<place, request, blocks, live, crossed>>
      /\ desk[k] \in DeskShape /\ Rows'
  BY RereadInv, RowsStay, Own DEF FriendInv, Reread, At
<1>2. Mover(desk[k]) /\ desk[k].call = "open"
  BY <1>1 DEF Route, Mover, Locking
<1>3. Calm => blocks = {} /\ c \in Shared /\ ~ chats[c].readonly
  BY <1>1, <1>2, Working DEF Doing
<1>4. CASE chats[c].readonly /\ Done(k)
  BY <1>1, <1>2, <1>3, <1>4, EndsWell
<1>5. CASE /\ ~ chats[c].readonly /\ UNCHANGED chats
           /\ desk' = [desk EXCEPT ![k].step = "grant", ![k].todo = Person]
  <2> PICK h : h = g
    OBVIOUS
  <2>1. /\ h \in DeskShape /\ h.step = "grant" /\ h.call = desk[k].call
        /\ h.chat = c /\ h.todo = Person
    BY <1>1 DEF DeskShape, DeskStep
  <2>2. desk' = [desk EXCEPT ![k] = h]
    BY <1>1, <1>5 DEF Inv, Shapes, DeskShape
  <2>3. Route(h) /\ Mover(h)
    BY <1>2, <2>1 DEF Route, Mover, Friendly, Locking
  <2>4. Calm => BlockedShut' /\ Doing(h)'
    BY <1>1, <1>2, <1>3, <1>5, <2>1 DEF Doing, BlockedShut, Shared
  <2> HIDE DEF g
  <2> QED
    BY <1>1, <1>2, <2>1, <2>2, <2>3, <2>4, MovesWith
<1> QED
  BY <1>4, <1>5 DEF Reread

LEMMA InsertBlockFriend ==
    ASSUME FriendInv, NEW k \in Clerk, InsertBlock(k)
    PROVE  FriendInv'
<1> DEFINE b == IF desk[k].by \in blocks THEN {} ELSE Shared
           g == [desk[k] EXCEPT !.step = "commit", !.hit = b]
<1>1. /\ Inv /\ Inv' /\ desk[k].step = "insert" /\ Route(desk[k])
      /\ UNCHANGED <<place, request, blocks, chats, live, crossed>>
      /\ desk[k] \in DeskShape /\ Rows'
  BY InsertBlockInv, RowsStay, Own DEF FriendInv, InsertBlock, At
<1>2. Mover(desk[k]) /\ desk[k].call = "block"
  BY <1>1 DEF Route, Mover, Locking
<1>3. Calm => FriendsOpen' /\ OpenIsLive' /\ BlockedShut'
  BY <1>1, <1>2, SameRooms, Working DEF Doing
<1> PICK h : h = g
  OBVIOUS
<1>4. /\ h \in DeskShape /\ h.step = "commit" /\ h.call = desk[k].call
      /\ h.by = desk[k].by /\ h.hit = b
  BY <1>1 DEF DeskShape, DeskStep, Shared
<1>5. desk' = [desk EXCEPT ![k] = h]
  BY <1>1 DEF InsertBlock, Inv, Shapes, DeskShape
<1>6. Route(h) /\ Mover(h)
  BY <1>2, <1>4 DEF Route, Mover, Friendly, Locking
<1>7. h.by \in blocks \/ h.hit = Shared
  BY <1>4
<1>8. Calm => Doing(h)'
  BY <1>1, <1>3, <1>4, <1>7, SameRooms DEF Doing
<1> HIDE DEF g
<1> QED
  BY <1>1, <1>2, <1>3, <1>4, <1>5, <1>6, <1>8, MovesWith

LEMMA CommitBlockFriend ==
    ASSUME FriendInv, NEW k \in Clerk, CommitBlock(k)
    PROVE  FriendInv'
<1>1. /\ Inv /\ Inv' /\ desk[k].step = "commit" /\ Route(desk[k])
      /\ UNCHANGED <<place, request, live, crossed>>
      /\ To(k, "blocked") /\ Rows /\ desk[k].by \in Person
      /\ chats \in [Chat -> ChatShape]
  BY CommitBlockInv, Own, DeskFields DEF FriendInv, CommitBlock, At
<1>2. Mover(desk[k]) /\ desk[k].call = "block"
  BY <1>1 DEF Route, Mover, Locking
<1>3. /\ blocks' = blocks \cup {desk[k].by}
      /\ chats' = [c \in Chat |-> IF c \in desk[k].hit
                     THEN [chats[c] EXCEPT !.readonly = TRUE] ELSE chats[c]]
  BY DEF CommitBlock
<1>4. Rows'
  BY <1>1, <1>3 DEF Rows
<1>5. /\ desk'[k].step = "blocked" /\ desk'[k].call = desk[k].call
      /\ \A j \in Clerk \ {k} : desk'[j] = desk[j]
  BY <1>1, Stepped DEF DeskStep
<1>6. Route(desk[k])' /\ Mover(desk'[k])
  BY <1>2, <1>5 DEF Route, Mover, Friendly, Locking
<1>7. \A c \in Chat : /\ chats'[c].in = chats[c].in
                      /\ \/ chats'[c].readonly = TRUE
                         \/ c \notin desk[k].hit /\ chats'[c] = chats[c]
  BY <1>1, <1>3, Marked
<1>8. Calm => BlockedShut'
  <2>1. Calm => /\ BlockedShut
                /\ desk[k].by \in blocks \/ desk[k].hit = Shared
    BY <1>1, <1>2, Working DEF Doing
  <2>2. Shared' = Shared /\ Shared \subseteq Chat
    BY <1>7 DEF Shared
  <2> QED
    BY <1>7, <2>1, <2>2 DEF BlockedShut
<1>9. Doing(desk[k])'
  BY <1>2, <1>3, <1>5 DEF Doing
<1> QED
  BY <1>1, <1>2, <1>4, <1>5, <1>6, <1>8, <1>9, MovesOn

LEMMA FindBlockedFriend ==
    ASSUME FriendInv, NEW k \in Clerk, FindBlocked(k)
    PROVE  FriendInv'
<1> DEFINE g == [desk[k] EXCEPT !.step = "drop", !.chat = OurChat, !.todo = Person]
<1>1. /\ Inv /\ Inv' /\ desk[k].step = "blocked" /\ Route(desk[k])
      /\ UNCHANGED <<place, request, blocks, chats, live, crossed>>
      /\ desk[k] \in DeskShape /\ Rows'
  BY FindBlockedInv, RowsStay, Own DEF FriendInv, FindBlocked, Reading, At
<1>2. Mover(desk[k]) /\ desk[k].call = "block"
  BY <1>1 DEF Route, Mover, Locking
<1>3. Calm => BlockedShut /\ blocks # {}
  BY <1>1, <1>2, Working DEF Doing
<1>4. CASE Done(k)
  <2>1. Calm => BlockedShut /\ FriendsOpen /\ OpenIsLive
    BY <1>3 DEF BlockedShut, FriendsOpen, OpenIsLive
  <2> QED
    BY <1>1, <1>2, <1>4, <2>1, SameRooms, EndsWell
<1>5. CASE desk' = [desk EXCEPT ![k].step = "drop", ![k].chat = OurChat,
                                ![k].todo = Person]
  <2> PICK h : h = g
    OBVIOUS
  <2>1. h \in DeskShape /\ h.step = "drop" /\ h.call = desk[k].call
    BY <1>1, Newest DEF DeskShape, DeskStep
  <2>2. desk' = [desk EXCEPT ![k] = h]
    BY <1>1, <1>5 DEF Inv, Shapes, DeskShape
  <2>3. Route(h) /\ Mover(h)
    BY <1>2, <2>1 DEF Route, Mover, Friendly, Locking
  <2>4. Calm => BlockedShut' /\ Doing(h)'
    BY <1>1, <1>2, <1>3, <2>1, SameRooms DEF Doing
  <2> HIDE DEF g
  <2> QED
    BY <1>1, <1>2, <2>1, <2>2, <2>3, <2>4, MovesWith
<1> QED
  BY <1>4, <1>5 DEF FindBlocked

\* A send moves nothing of what friends need.
LEMMA SendFriend ==
    ASSUME FriendInv, NEW k \in Clerk, Begin(k) \/ Authorize(k) \/ WriteMessage(k)
    PROVE  FriendInv'
<1>1. /\ Inv /\ Route(desk[k]) /\ desk[k].step \in {"begin", "authorize", "write"}
      /\ UNCHANGED <<place, request, blocks, chats, live, crossed>>
  BY DEF FriendInv, Begin, Authorize, WriteMessage, At
<1>2. Inv'
  BY <1>1, BeginInv, AuthorizeInv, EndSendInv DEF WriteMessage
<1>3. desk[k].call = "send" /\ ~ Mover(desk[k]) /\ Rows' /\ (AreFriends' <=> AreFriends)
  BY <1>1, RowsStay DEF Route, Mover, Friendly, Locking
<1>4. CASE Done(k)
  BY <1>1, <1>2, <1>3, <1>4, EndsWell
<1>5. ASSUME NEW s \in {"authorize", "write"}, To(k, s)
      PROVE  FriendInv'
  <2>1. /\ desk'[k].step = s /\ desk'[k].call = desk[k].call
        /\ \A j \in Clerk \ {k} : desk'[j] = desk[j]
    BY <1>1, <1>5, Stepped DEF DeskStep
  <2>2. Route(desk[k])' /\ ~ Mover(desk'[k])
    BY <1>3, <1>5, <2>1 DEF Route, Mover, Friendly, Locking
  <2>3. Calm => Settled'
    BY <1>1, <1>3, <2>1, <2>2, Still
  <2> QED
    BY <1>1, <1>2, <1>3, <2>1, <2>2, <2>3, Assemble
<1> QED
  BY <1>4, <1>5 DEF Begin, Authorize, WriteMessage, EndSend

-----------------------------------------------------------------------------
LEMMA FriendInit == PairInit => FriendInv
<1> SUFFICES ASSUME PairInit PROVE FriendInv
  OBVIOUS
<1>1. Inv /\ desk = [k \in Clerk |-> AtRest]
  BY InitInv DEF PairInit
<1>2. \A k \in Clerk : Route(desk[k]) /\ ~ Mover(desk[k]) /\ desk[k].call = "none"
  BY <1>1, Rested DEF Route, Mover, Friendly, Locking
<1>3. PICK start \in {<<"accepted", FALSE, "open">>, <<"accepted", TRUE, "shut">>,
                     <<"none", FALSE, "shut">>, <<"pending", FALSE, "shut">>,
                     <<"accepted", FALSE, "absent">>} :
         \E p \in Person :
           /\ request = [q \in Person |-> IF q = p THEN start[1] ELSE "none"]
           /\ blocks = IF start[2] THEN {p} ELSE {}
           /\ chats = [c \in Chat |-> IF c > 1 \/ start[3] = "absent" THEN NoChat
                         ELSE [in |-> Person, readonly |-> start[3] = "shut"]]
           /\ live = [c \in Chat |-> IF c = 1 /\ start[3] = "open" THEN Person
                                     ELSE {}]
  BY DEF PairInit
<1>4. PICK p \in Person :
           /\ request = [q \in Person |-> IF q = p THEN start[1] ELSE "none"]
           /\ blocks = IF start[2] THEN {p} ELSE {}
           /\ chats = [c \in Chat |-> IF c > 1 \/ start[3] = "absent" THEN NoChat
                         ELSE [in |-> Person, readonly |-> start[3] = "shut"]]
           /\ live = [c \in Chat |-> IF c = 1 /\ start[3] = "open" THEN Person
                                     ELSE {}]
  BY <1>3
<1>5. \/ start[1] = "accepted" /\ start[2] = FALSE /\ start[3] = "open"
      \/ start[1] = "accepted" /\ start[2] = TRUE /\ start[3] = "shut"
      \/ start[1] = "none" /\ start[2] = FALSE /\ start[3] = "shut"
      \/ start[1] = "pending" /\ start[2] = FALSE /\ start[3] = "shut"
      \/ start[1] = "accepted" /\ start[2] = FALSE /\ start[3] = "absent"
  <2>1. CASE start = <<"accepted", FALSE, "open">>
    BY <2>1
  <2>2. CASE start = <<"accepted", TRUE, "shut">>
    BY <2>2
  <2>3. CASE start = <<"none", FALSE, "shut">>
    BY <2>3
  <2>4. CASE start = <<"pending", FALSE, "shut">>
    BY <2>4
  <2>5. CASE start = <<"accepted", FALSE, "absent">>
    BY <2>5
  <2> QED
    BY <1>3, <2>1, <2>2, <2>3, <2>4, <2>5, Zenon
<1>6. Rows
  BY <1>4, <1>5 DEF Rows
<1>7. \A c \in Shared : /\ c = 1 /\ c \in Chat /\ start[3] # "absent"
                        /\ chats[c] = [in |-> Person, readonly |-> start[3] = "shut"]
  BY <1>4, TwoPeople, PairAssumption DEF Shared, NoChat, Chat
<1>8. CASE start[3] = "shut"
  <2>1. \A c \in Shared : chats[c].readonly = TRUE
    <3>1. ASSUME NEW r, r = [in |-> Person, readonly |-> TRUE]
          PROVE  r.readonly = TRUE
      BY <3>1
    <3>2. (start[3] = "shut") = TRUE
      BY <1>8
    <3>3. \A c \in Shared : chats[c] = [in |-> Person, readonly |-> TRUE]
      BY <1>7, <3>2, Zenon
    <3> QED
      BY <3>1, <3>3
  <2>2. blocks = {} => ~ AreFriends
    BY <1>4, <1>5, <1>8 DEF AreFriends
  <2> QED
    BY <1>1, <1>2, <1>6, <2>1, <2>2
       DEF FriendInv, FriendsAlone, Settled, BlockedShut, FriendsOpen, OpenIsLive
<1>9. CASE start[3] # "shut"
  <2>1. \A c \in Shared : chats[c].readonly = FALSE
    <3>1. ASSUME NEW r, r = [in |-> Person, readonly |-> FALSE]
          PROVE  r.readonly = FALSE
      BY <3>1
    <3>2. (start[3] = "shut") = FALSE
      BY <1>9
    <3>3. \A c \in Shared : chats[c] = [in |-> Person, readonly |-> FALSE]
      BY <1>7, <3>2, Zenon
    <3> QED
      BY <3>1, <3>3
  <2>3. \A c \in Shared : live[c] = Person
    <3>1. ASSUME NEW c \in Shared PROVE c = 1 /\ c \in Chat /\ start[3] = "open"
      BY <1>5, <1>7, <1>9
    <3> QED
      BY <1>4, <3>1
  <2>2. blocks = {}
    BY <1>4, <1>5, <1>9
  <2> QED
    BY <1>1, <1>2, <1>6, <2>1, <2>2, <2>3
       DEF FriendInv, FriendsAlone, Settled, BlockedShut, FriendsOpen, OpenIsLive
<1> QED
  BY <1>8, <1>9

LEMMA FriendStep == FriendInv /\ [PairNext]_pvars => FriendInv'
<1> SUFFICES ASSUME FriendInv, [PairNext]_pvars PROVE FriendInv'
  OBVIOUS
<1>1. CASE UNCHANGED pvars
  <2>1. Inv' /\ Rows' /\ FriendsAlone' /\ (Calm' <=> Calm)
    BY <1>1, NextInv DEF pvars, FriendInv, Rows, FriendsAlone, Calm, OneProcess
  <2>2. \A k \in Clerk : /\ Route(desk[k])' /\ (Mover(desk[k])' <=> Mover(desk[k]))
                         /\ Doing(desk[k]) => Doing(desk[k])'
    BY <1>1, SameRooms DEF pvars, FriendInv, Route, Mover, Doing
  <2> QED
    BY <1>1, <2>1, <2>2, SameRooms DEF pvars, FriendInv, Settled
<1>2. ASSUME NEW k \in Clerk,
             \/ \E call \in Call, p \in Person : Arrive(k, call, p)
             \/ LockPair(k) \/ Check(k) \/ Befriended(k) \/ Reciprocal(k) \/ Post(k)
             \/ Answer(k) \/ Erase(k) \/ FindChat(k) \/ Shut(k) \/ Measure(k)
             \/ Reopen(k) \/ GrantBoth(k) \/ DropBoth(k)
             \/ CreateChat(k) \/ AddSecond(k) \/ Reread(k)
             \/ InsertBlock(k) \/ CommitBlock(k) \/ FindBlocked(k)
             \/ Begin(k) \/ Authorize(k) \/ WriteMessage(k)
      PROVE  FriendInv'
  <2>1. GrantBoth(k) \/ DropBoth(k) => FriendInv'
    BY SubscriptionsFriend DEF GrantBoth, DropBoth
  <2> QED
    BY <1>2, <2>1, ArriveFriend, LockPairFriend, CheckFriend, BefriendedFriend,
       ReciprocalFriend, PostFriend, AnswerFriend, EraseFriend, FindChatFriend,
       ShutFriend, MeasureFriend, ReopenFriend, CreateChatFriend, AddSecondFriend,
       RereadFriend, InsertBlockFriend, CommitBlockFriend, FindBlockedFriend,
       SendFriend
<1> QED
  BY <1>1, <1>2 DEF PairNext

\* Where one process serves the pair and no friendship changed beside another
\* request: once every handler of friendService and createPrivate has ended,
\* friends who do not block each other can write in the room they share and
\* both are subscribed to it, however many handlers ran.
THEOREM FriendsTalk == PairSpec => []FriendsCanTalk
<1>1. FriendInv => FriendsCanTalk
  <2> SUFFICES ASSUME FriendInv, OneProcess, ~ crossed, AreFriends, blocks = {},
                      \A k \in Clerk : At(k, "rest"), NEW c \in Shared
               PROVE  ~ chats[c].readonly /\ live[c] = Person
    BY DEF FriendsCanTalk
  <2>1. \A k \in Clerk : ~ Mover(desk[k])
    BY DEF FriendInv, Route, Mover, At, Friendly, Locking
  <2> QED
    BY <2>1 DEF FriendInv, Settled, Calm, FriendsOpen, OpenIsLive
<1> QED
  BY <1>1, FriendInit, FriendStep, PTL DEF PairSpec

=============================================================================
