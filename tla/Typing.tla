------------------------------- MODULE Typing --------------------------------
(***************************************************************************)
(* Who is typing: the sockets of one user and one room in one process. A   *)
(* frame of a socket may have to wait for its membership to be read, while *)
(* the socket closes, other frames overtake it or the membership ends. A   *)
(* claim lasts until it is taken back, its time runs out or the socket     *)
(* closes; the room is told of a user's first word and last claim.         *)
(***************************************************************************)
EXTENDS Integers, FiniteSets

CONSTANTS
    Keyboard,   \* the user's sockets
    Frame       \* the typing frames they send, each once

VARIABLES
    live,       \* sockets that are connected (~disconnected)
    inRoom,     \* sockets in room_<id>
    belongs,    \* the membership row, not pending
    claims,     \* sockets with a timer in typingClaims
    checked,    \* those whose membership was read within typingTtlMs
    typers,     \* typingRooms[room][user]
    frames,     \* the frames sent: who, what, and where its handler is
    seen        \* whether the room was last told that the user types

tvars == <<live, inRoom, belongs, claims, checked, typers, frames, seen>>

-----------------------------------------------------------------------------
Unsent == [by |-> "nobody", typing |-> FALSE, step |-> "unsent"]

TypingInit ==
    /\ live = Keyboard /\ inRoom = Keyboard /\ belongs = TRUE
    /\ claims = {} /\ checked = {} /\ typers = {}
    /\ frames = [f \in Frame |-> Unsent] /\ seen = FALSE

\* removeTypingSocket, and the word to the room if it was the last claim.
Retract(s) ==
    /\ typers' = typers \ {s}
    /\ seen' = IF s \in typers /\ typers' = {} THEN FALSE ELSE seen

\* stopTyping: the one exit.
StopTyping(s) ==
    /\ claims' = claims \ {s} /\ checked' = checked \ {s}
    /\ Retract(s)

\* The claim is armed or its timer set anew, and the room is told each time.
Claim(s, now) ==
    /\ claims' = claims \cup {s}
    /\ checked' = IF now THEN checked \cup {s} ELSE checked
    /\ typers' = typers \cup {s}
    /\ seen' = TRUE

\* The rest of the handler once the membership is known; now says that it was
\* read for this frame.
Obey(s, typing, now) == IF typing THEN Claim(s, now) ELSE StopTyping(s)

Ignored == UNCHANGED <<claims, checked, typers, seen>>

-----------------------------------------------------------------------------
\* A frame comes. A socket in the room whose membership was read within the
\* claim's time is believed; otherwise the handler waits for findMember.
SendFrame(f, s, typing) ==
    LET believed == s \in inRoom /\ s \in checked IN
    /\ frames[f] = Unsent /\ s \in live
    /\ frames' = [frames EXCEPT ![f] =
                    [by |-> s, typing |-> typing,
                     step |-> IF believed THEN "done" ELSE "reading"]]
    /\ IF believed THEN Obey(s, typing, FALSE) ELSE Ignored
    /\ UNCHANGED <<live, inRoom, belongs>>

\* The database answers; the handler goes on later.
ReadMember(f) ==
    /\ frames[f].step = "reading"
    /\ frames' = [frames EXCEPT ![f].step = IF belongs THEN "member" ELSE "stranger"]
    /\ UNCHANGED <<live, inRoom, belongs>>
    /\ Ignored

\* Mutant: the socket is not looked at again after the read.
AnySocketLives(s) == TRUE

StillConnected(s) == s \in live

Resume(f) ==
    LET s == frames[f].by IN
    /\ frames[f].step \in {"member", "stranger"}
    /\ frames' = [frames EXCEPT ![f].step = "done"]
    /\ IF StillConnected(s) /\ frames[f].step = "member"
       THEN Obey(s, frames[f].typing, TRUE) ELSE Ignored
    /\ UNCHANGED <<live, inRoom, belongs>>

\* The time since the membership was read, and the claim's own. The claim was
\* armed no earlier than its membership was read.
CheckAges(s) ==
    /\ s \in checked
    /\ checked' = checked \ {s}
    /\ UNCHANGED <<live, inRoom, belongs, claims, typers, frames, seen>>

ClaimExpires(s) ==
    /\ s \in claims
    /\ StopTyping(s)
    /\ UNCHANGED <<live, inRoom, belongs, frames>>

\* The disconnect handler.
CloseSocket(s) ==
    /\ s \in live
    /\ live' = live \ {s} /\ inRoom' = inRoom \ {s}
    /\ StopTyping(s)
    /\ UNCHANGED <<belongs, frames>>

\* A revocation takes the sockets out of the room and then commits.
LeaveRoom ==
    /\ belongs /\ inRoom # {}
    /\ inRoom' = {}
    /\ UNCHANGED <<live, belongs, frames>>
    /\ Ignored

LoseMembership ==
    /\ belongs /\ inRoom = {}
    /\ belongs' = FALSE
    /\ UNCHANGED <<live, inRoom, frames>>
    /\ Ignored

TypingNext ==
    \/ \E f \in Frame :
         \/ \E s \in Keyboard, typing \in BOOLEAN : SendFrame(f, s, typing)
         \/ ReadMember(f) \/ Resume(f)
    \/ \E s \in Keyboard : CheckAges(s) \/ ClaimExpires(s) \/ CloseSocket(s)
    \/ LeaveRoom \/ LoseMembership

TypingSpec == TypingInit /\ [][TypingNext]_tvars

-----------------------------------------------------------------------------
\* Every variable has its type.
TypingTypeOK ==
    /\ live \subseteq Keyboard /\ inRoom \subseteq live /\ belongs \in BOOLEAN
    /\ claims \subseteq Keyboard /\ checked \subseteq claims
    /\ typers \subseteq Keyboard /\ seen \in BOOLEAN
    /\ \A f \in Frame : frames[f].step \in
         {"unsent", "reading", "member", "stranger", "done"}

\* The two maps and the room agree: a user counts as typing by the sockets
\* that are connected and have a timer, and the room has been told so exactly
\* while there is one, whatever frames waited for the membership meanwhile.
TypingFollowsSockets ==
    /\ claims = typers /\ claims \subseteq live
    /\ seen <=> typers # {}
=============================================================================
