--------------------------- MODULE RealtimeProofs ---------------------------
(*************************************************************************)
(* What happens beside the requests: the claims of typing sockets, the   *)
(* slots and subscriptions of sessions, the hourly alerts, the Redis     *)
(* connections, and presence.                                            *)
(*                                                                       *)
(* Typing: a handler arms a claim only for a socket that it sees connected *)
(* at that moment, so TypingFollowsSockets is inductive with the types.  *)
(* Slots: a slot follows the phase of its socket (SlotsFollow), so that  *)
(* every step takes or gives back one slot that was free or taken.       *)
(* Subscriptions: the lock of a user's rooms has one holder, and a socket *)
(* of a member that is not subscribed is in the care of a call that will *)
(* subscribe it, of a refresh, or of a lost delivery (SubscribedInv).    *)
(* Alerts are not lost: a run that has not failed has reached every      *)
(* contact but those it still has to do and the one it is at (Through).  *)
(* Nor repeated, while no run outlives its reservation: the run at work is *)
(* the only one and holds the lease (Alone), so an alert without a receipt *)
(* is of the run about to write that receipt (Receipted).                *)
(* Redis: what was told to the handler and what it still waits for are in *)
(* order (InTurn); a frame that was lost is behind a gap that is owed or *)
(* announced (GapInv), and every other one is delivered once (FrameInv). *)
(* Presence: the lease of an instance stands while it counts a socket    *)
(* (Leases); without faults what friends were told follows the leases.   *)
(*************************************************************************)
EXTENDS Typing, SocketSessions, EmergencyAlerts, RedisConnections,
        Presence, FiniteSetTheorems, TLAPS

TypingInv ==
    /\ seen \in BOOLEAN
    /\ TypingFollowsSockets

LEMMA StopTypingKeeps ==
    ASSUME TypingInv, NEW s, StopTyping(s), live' \in {live, live \ {s}}
    PROVE  TypingInv'
  BY DEF TypingInv, TypingFollowsSockets, StopTyping, Retract

LEMMA ClaimKeeps ==
    ASSUME TypingInv, NEW s, NEW now, Claim(s, now), s \in live, live' = live
    PROVE  TypingInv'
  BY DEF TypingInv, TypingFollowsSockets, Claim

LEMMA ObeyKeeps ==
    ASSUME TypingInv, NEW s, NEW typing, NEW now, Obey(s, typing, now), s \in live,
           live' = live
    PROVE  TypingInv'
  BY StopTypingKeeps, ClaimKeeps DEF Obey

LEMMA IgnoredKeeps ==
    ASSUME TypingInv, Ignored, live' = live
    PROVE  TypingInv'
  BY DEF TypingInv, TypingFollowsSockets, Ignored

LEMMA NextTyping ==
    ASSUME TypingInv, [TypingNext]_tvars
    PROVE  TypingInv'
<1>1. ASSUME NEW f \in Frame, NEW s \in Keyboard, NEW typing \in BOOLEAN,
             SendFrame(f, s, typing)
      PROVE  TypingInv'
  BY <1>1, ObeyKeeps, IgnoredKeeps DEF SendFrame
<1>2. ASSUME NEW f \in Frame, ReadMember(f)
      PROVE  TypingInv'
  BY <1>2, IgnoredKeeps DEF ReadMember
<1>3. ASSUME NEW f \in Frame, Resume(f)
      PROVE  TypingInv'
  BY <1>3, ObeyKeeps, IgnoredKeeps DEF Resume, StillConnected
<1>4. ASSUME NEW s \in Keyboard, CheckAges(s)
      PROVE  TypingInv'
  BY <1>4 DEF CheckAges, TypingInv, TypingFollowsSockets
<1>5. ASSUME NEW s \in Keyboard, ClaimExpires(s) \/ CloseSocket(s)
      PROVE  TypingInv'
  BY <1>5, StopTypingKeeps DEF ClaimExpires, CloseSocket
<1>6. CASE LeaveRoom \/ LoseMembership \/ UNCHANGED tvars
  BY <1>6, IgnoredKeeps DEF LeaveRoom, LoseMembership, Ignored, tvars
<1> QED
  BY <1>1, <1>2, <1>3, <1>4, <1>5, <1>6 DEF TypingNext

\* Nobody types whose socket is closed, and the room is told of the first word
\* and the last claim, for any sockets and frames: the handler of typing
\* frames, its expiry and the disconnect handler.
THEOREM TypingEndsWithSockets == TypingSpec => []TypingFollowsSockets
<1>1. TypingInit => TypingInv
  BY DEF TypingInit, TypingInv, TypingFollowsSockets
<1>2. TypingInv => TypingFollowsSockets
  BY DEF TypingInv
<1> QED
  BY <1>1, <1>2, NextTyping, PTL DEF TypingSpec

-----------------------------------------------------------------------------
Counted == {s \in Session : slot[s] \in {"reserved", "held"}}

SlotsFollow ==
    \A s \in Session :
        /\ phase[s] = "new" => slot[s] = "none"
        /\ phase[s] = "shaken" => slot[s] \in {"reserved", "lapsed"}
        /\ slot[s] = "reserved" => phase[s] = "shaken"
        /\ phase[s] = "open" => slot[s] = "held"

SlotInv ==
    /\ phase \in [Session -> {"new", "shaken", "open", "closed"}]
    /\ slot \in [Session -> {"none", "reserved", "lapsed", "held"}]
    /\ SlotsFollow
    /\ count \in Nat /\ count = Cardinality(Counted) /\ count <= Limit

LEMMA CountedFinite == IsFiniteSet(Counted)
  BY SessionAssumption, FS_Subset DEF Counted

\* A slot is taken, and counted.
LEMMA SlotTaken ==
    ASSUME SlotInv, NEW s \in Session, NEW how \in {"reserved", "held"},
           slot[s] \notin {"reserved", "held"}, slot' = [slot EXCEPT ![s] = how]
    PROVE  Cardinality(Counted)' = count + 1
<1>1. Counted' = Counted \cup {s} /\ s \notin Counted
  BY DEF Counted, SlotInv
<1> QED
  BY <1>1, CountedFinite, FS_AddElement DEF SlotInv

\* A slot is given back, and counted no more.
LEMMA SlotGivenBack ==
    ASSUME SlotInv, NEW s \in Session, NEW how \in {"none", "lapsed"},
           slot[s] \in {"reserved", "held"}, slot' = [slot EXCEPT ![s] = how]
    PROVE  Cardinality(Counted)' = count - 1 /\ count - 1 \in Nat
<1>1. Counted' = Counted \ {s} /\ s \in Counted
  BY DEF Counted, SlotInv
<1>2. Cardinality(Counted \ {s}) = Cardinality(Counted) - 1
  BY <1>1, CountedFinite, FS_RemoveElement
<1>3. Cardinality(Counted \ {s}) \in Nat
  BY CountedFinite, FS_RemoveElement, FS_CardinalityType
<1> QED
  BY <1>1, <1>2, <1>3 DEF SlotInv

\* The slots taken stay the same.
LEMMA SlotKept ==
    ASSUME SlotInv, NEW s \in Session, NEW how \in {"none", "lapsed", "reserved", "held"},
           slot[s] \in {"reserved", "held"} <=> how \in {"reserved", "held"},
           slot' = [slot EXCEPT ![s] = how]
    PROVE  Cardinality(Counted)' = count
<1>1. Counted' = Counted
  BY DEF Counted, SlotInv
<1> QED
  BY <1>1 DEF SlotInv

LEMMA HandshakeSlots ==
    ASSUME SlotInv, NEW s \in Session, Handshake(s)
    PROVE  SlotInv'
<1>1. slot[s] = "none" /\ slot' = [slot EXCEPT ![s] = "reserved"]
  BY DEF Handshake, SlotInv, SlotsFollow
<1>2. Cardinality(Counted)' = count + 1
  BY <1>1, SlotTaken
<1>3. SlotsFollow'
  BY <1>1 DEF Handshake, SlotInv, SlotsFollow
<1> QED
  BY <1>1, <1>2, <1>3, SessionAssumption DEF Handshake, SlotInv

LEMMA LapseSlots ==
    ASSUME SlotInv, NEW s \in Session, Lapse(s)
    PROVE  SlotInv'
<1>1. slot[s] = "reserved" /\ slot' = [slot EXCEPT ![s] = "lapsed"]
  BY DEF Lapse
<1>2. Cardinality(Counted)' = count - 1 /\ count - 1 \in Nat
  BY <1>1, SlotGivenBack
<1>3. SlotsFollow'
  BY <1>1 DEF Lapse, SlotInv, SlotsFollow
<1> QED
  BY <1>1, <1>2, <1>3, SessionAssumption DEF Lapse, SlotInv

LEMMA ConnectSlots ==
    ASSUME SlotInv, NEW s \in Session, Connect(s)
    PROVE  SlotInv'
<1>0. slot[s] \in {"reserved", "lapsed"} /\ phase[s] = "shaken"
  BY DEF Connect, SlotInv, SlotsFollow
<1>1. CASE ~ Settled(s) /\ count >= Limit
  <2>1. /\ slot' = [slot EXCEPT ![s] = "none"] /\ phase' = [phase EXCEPT ![s] = "closed"]
        /\ count' = count /\ slot[s] = "lapsed"
    BY <1>0, <1>1 DEF Connect, Settled
  <2>2. Cardinality(Counted)' = count
    BY <2>1, SlotKept
  <2>3. SlotsFollow'
    BY <1>0, <2>1 DEF SlotInv, SlotsFollow
  <2> QED
    BY <2>1, <2>2, <2>3 DEF SlotInv
<1>2. CASE ~ (~ Settled(s) /\ count >= Limit)
  <2>1. /\ slot' = [slot EXCEPT ![s] = "held"] /\ phase' = [phase EXCEPT ![s] = "open"]
        /\ count' = IF Settled(s) THEN count ELSE count + 1
    BY <1>2 DEF Connect
  <2>2. SlotsFollow'
    BY <1>0, <2>1 DEF SlotInv, SlotsFollow
  <2>3. CASE slot[s] = "reserved"
    <3>1. Cardinality(Counted)' = count
      BY <2>1, <2>3, SlotKept
    <3> QED
      BY <2>1, <2>2, <2>3, <3>1 DEF SlotInv, Settled
  <2>4. CASE slot[s] = "lapsed"
    <3>1. Cardinality(Counted)' = count + 1
      BY <2>1, <2>4, SlotTaken
    <3> QED
      BY <1>2, <2>1, <2>2, <2>4, <3>1, SessionAssumption DEF SlotInv, Settled
  <2> QED
    BY <1>0, <2>3, <2>4
<1> QED
  BY <1>1, <1>2

LEMMA DisconnectSlots ==
    ASSUME SlotInv, NEW s \in Session, Disconnect(s)
    PROVE  SlotInv'
<1>1. slot[s] = "held" /\ slot' = [slot EXCEPT ![s] = "none"]
  BY DEF Disconnect, SlotInv, SlotsFollow
<1>2. Cardinality(Counted)' = count - 1 /\ count - 1 \in Nat
  BY <1>1, SlotGivenBack
<1>3. SlotsFollow'
  BY <1>1 DEF Disconnect, SlotInv, SlotsFollow
<1> QED
  BY <1>1, <1>2, <1>3, SessionAssumption DEF Disconnect, SlotInv

LEMMA NextSlots ==
    ASSUME SlotInv, [SessionNext]_svars
    PROVE  SlotInv'
<1>1. CASE UNCHANGED Sessions
  BY <1>1 DEF Sessions, SlotInv, SlotsFollow, Counted
<1>2. ASSUME NEW s \in Session, RestoreRead(s) \/ RestoreJoin(s)
      PROVE  UNCHANGED Sessions
  BY <1>2 DEF RestoreRead, RestoreJoin
<1>3. BeginChange \/ Local => UNCHANGED Sessions
  BY DEF BeginChange, Local, AddUserToRoom, RemoveUserFromRoom, WriteRevocation
<1>4. RemotePublish \/ RemoteCommit \/ FrameArrives => UNCHANGED Sessions
  BY DEF RemotePublish, RemoteCommit, FrameArrives
<1>5. SubscriberDown \/ SubscriberRestored \/ RestoredSilently => UNCHANGED Sessions
  BY DEF SubscriberDown, SubscriberRestored, RestoredSilently
<1>6. Sweep => UNCHANGED Sessions
  BY DEF Sweep, Group, SweepRead, SweepReread, SweepLeave, PauseEnds, Sweeping
<1>7. UNCHANGED svars => UNCHANGED Sessions
  BY DEF svars, Sessions
<1> QED
  BY <1>1, <1>2, <1>3, <1>4, <1>5, <1>6, <1>7, HandshakeSlots, LapseSlots, ConnectSlots,
     DisconnectSlots DEF SessionNext

LEMMA InitSlots == SessionInit => SlotInv
<1> SUFFICES ASSUME SessionInit PROVE SlotInv
  OBVIOUS
<1>1. Counted = {}
  BY DEF SessionInit, Counted
<1> QED
  BY <1>1, FS_EmptySet, SessionAssumption DEF SessionInit, SlotInv, SlotsFollow

\* The count of a user's sessions is the number of slots they hold, and never
\* passes the limit, for any number of sockets and any limit: the handshake
\* middleware, its timer, settleReservation and the disconnect handler.
THEOREM SessionsAreCounted == SessionSpec => []SlotsCounted
<1>1. SlotInv => SlotsCounted
  BY DEF SlotInv, SlotsCounted, Counted
<1> QED
  BY InitSlots, NextSlots, <1>1, PTL DEF SessionSpec

RunShape == [step : {"asleep", "reclaim", "list", "next", "message", "receipt",
                     "record", "complete", "release"},
             todo : SUBSET Contact, at : Contact \cup {"nobody"}, failed : BOOLEAN]

AlertKinds ==
    /\ reserved \in {"none", "pending", "completed"}
    /\ lease \in BOOLEAN /\ overlapped \in BOOLEAN
    /\ contacts \subseteq Contact /\ messages \subseteq Contact /\ receipts \subseteq Contact
    /\ alerts \in [Contact -> 0..2]
    /\ check \in [Check -> RunShape]

Reached(c) == c \in messages /\ alerts[c] > 0

AtContact(h) == h.step \in {"message", "receipt", "record"}

Placed(h) ==
    /\ AtContact(h) <=> h.at # "nobody"
    /\ h.step \in {"receipt", "record"} => h.at \in messages
    /\ h.step = "record" => alerts[h.at] > 0

Through(h) ==
    /\ h.step = "next" \/ AtContact(h) =>
         h.failed \/ \A c \in contacts \ (h.todo \cup {h.at}) : Reached(c)
    /\ h.step = "complete" => \A c \in contacts : Reached(c)

LostInv ==
    /\ AlertKinds
    /\ \A c \in receipts : Reached(c)
    /\ \A k \in Check : Placed(check[k]) /\ Through(check[k])
    /\ NoAlertLost

Active(k) == check[k].step \notin {"asleep", "reclaim"}

Alone ==
    /\ \A j, k \in Check : Active(j) /\ Active(k) => j = k
    /\ \A k \in Check : Active(k) => reserved = "pending" /\ lease

Receipted ==
    \A c \in Contact :
        /\ alerts[c] <= 1
        /\ alerts[c] > 0 =>
             c \in receipts \/ \E k \in Check : check[k].step = "record" /\ check[k].at = c

OnceInv == ~ overlapped => Alone /\ Receipted

AlertInv == LostInv /\ OnceInv

-----------------------------------------------------------------------------
LEMMA InitAlerts == AlertInit => AlertInv
<1> SUFFICES ASSUME AlertInit PROVE AlertInv
  OBVIOUS
<1>1. Asleep \in RunShape /\ Asleep.step = "asleep" /\ Asleep.at = "nobody"
  BY DEF Asleep, RunShape
<1>2. AlertKinds /\ \A k \in Check : check[k] = Asleep
  <2>1. check \in [Check -> RunShape] /\ \A k \in Check : check[k] = Asleep
    BY <1>1 DEF AlertInit
  <2>2. alerts \in [Contact -> 0..2]
    BY DEF AlertInit
  <2> QED
    BY <2>1, <2>2 DEF AlertInit, AlertKinds
<1>3. Placed(Asleep) /\ Through(Asleep)
  BY <1>1 DEF Placed, Through, AtContact
<1>4. LostInv
  BY <1>2, <1>3 DEF AlertInit, LostInv, NoAlertLost
<1>5. OnceInv
  BY <1>1, <1>2 DEF AlertInit, OnceInv, Alone, Active, Receipted
<1> QED
  BY <1>4, <1>5 DEF AlertInv

\* A run goes on as h, and no other.
LEMMA RunReplaced ==
    ASSUME AlertInv, NEW k \in Check, NEW h \in RunShape, check' = [check EXCEPT ![k] = h]
    PROVE  /\ check' \in [Check -> RunShape] /\ check'[k] = h
           /\ \A j \in Check \ {k} : check'[j] = check[j]
  BY DEF AlertInv, LostInv, AlertKinds

\* A step of one run that leaves contacts, messages and alerts alone keeps
\* LostInv if the run it leaves is placed and through.
LEMMA QuietLost ==
    ASSUME AlertInv, NEW k \in Check, NEW h \in RunShape, check' = [check EXCEPT ![k] = h],
           UNCHANGED <<contacts, messages, alerts>>, receipts' \subseteq receipts \cup {check[k].at},
           reserved' \in {"none", "pending", "completed"}, lease' \in BOOLEAN,
           overlapped' \in BOOLEAN,
           check[k].step = "record" \/ receipts' = receipts,
           Placed(h), Through(h),
           reserved' = "completed" => reserved = "completed" \/ check[k].step = "complete"
    PROVE  LostInv'
<1>1. check[k].step = "record" => check[k].at \in Contact /\ Reached(check[k].at)
  BY AlertAssumption DEF AlertInv, LostInv, AlertKinds, RunShape, Placed, AtContact, Reached
<1>2. receipts' \subseteq Contact /\ \A c \in receipts' : Reached(c)
  BY <1>1 DEF AlertInv, LostInv, AlertKinds
<1>3. \A j \in Check : Placed(check'[j]) /\ Through(check'[j])
  BY RunReplaced DEF AlertInv, LostInv
<1>4. \A c \in Contact : Reached(c)' <=> Reached(c)
  BY DEF Reached
<1>5. \A j \in Check : Placed(check[j])' /\ Through(check[j])'
  BY <1>3, <1>4 DEF Placed, Through, AtContact, AlertInv, LostInv, AlertKinds
<1>6. NoAlertLost'
  <2>1. CASE reserved = "completed"
    BY <2>1 DEF AlertInv, LostInv, NoAlertLost
  <2>2. CASE check[k].step = "complete"
    BY <2>2 DEF AlertInv, LostInv, NoAlertLost, Through, Reached
  <2> QED
    BY <2>1, <2>2 DEF NoAlertLost
<1>7. AlertKinds'
  BY <1>2, RunReplaced DEF AlertInv, LostInv, AlertKinds
<1> QED
  BY <1>2, <1>4, <1>5, <1>6, <1>7 DEF LostInv, Reached

\* A step of one run that neither alerts nor leaves an alert without its
\* receipt keeps OnceInv if the run had the lease or has it now.
LEMMA QuietOnce ==
    ASSUME AlertInv, NEW k \in Check, NEW h \in RunShape, check' = [check EXCEPT ![k] = h],
           UNCHANGED alerts, receipts \subseteq receipts',
           overlapped \in BOOLEAN, overlapped => overlapped',
           check[k].step = "record" => overlapped' \/ check[k].at \in receipts',
           ~ overlapped' /\ h.step \notin {"asleep", "reclaim"} =>
             /\ Active(k) \/ (reserved # "pending" \/ ~ lease)
             /\ IF Active(k) THEN UNCHANGED <<reserved, lease>>
                             ELSE reserved' = "pending" /\ lease',
           h.step \in {"asleep", "reclaim"} => Active(k) \/ UNCHANGED <<reserved, lease>>
    PROVE  OnceInv'
<1> SUFFICES ASSUME ~ overlapped' PROVE Alone' /\ Receipted'
  BY DEF OnceInv
<1>1. Alone /\ Receipted
  BY DEF AlertInv, OnceInv
<1>2. \A j \in Check \ {k} : Active(j)' <=> Active(j)
  BY RunReplaced DEF Active
<1>3. Active(k)' <=> h.step \notin {"asleep", "reclaim"}
  BY RunReplaced DEF Active
<1>4. Alone'
  BY <1>1, <1>2, <1>3 DEF Alone
<1>5. Receipted'
  BY <1>1, RunReplaced DEF Receipted
<1> QED
  BY <1>4, <1>5

-----------------------------------------------------------------------------
\* Steps of a run, each described by the run it leaves.
LEMMA ReservingSteps ==
    ASSUME AlertInv, NEW k \in Check,
           InsertAlert(k) \/ ReclaimAlert(k) \/ CompleteAlert(k) \/ ReleaseAlert(k)
           \/ FailRun(k)
    PROVE  AlertInv'
<1>1. check[k] \in RunShape /\ AlertKinds /\ Placed(check[k]) /\ Through(check[k])
  BY DEF AlertInv, LostInv, AlertKinds
<1>2. PICK step \in {"asleep", "reclaim", "list", "release"} :
        check' = [check EXCEPT ![k].step = step]
  BY DEF InsertAlert, ReclaimAlert, CompleteAlert, ReleaseAlert, FailRun, Goto
<1> DEFINE h == [check[k] EXCEPT !.step = step]
<1>3. /\ h \in RunShape /\ h.step = step /\ h.at = check[k].at
      /\ check[k].step \in {"asleep", "reclaim", "list", "complete", "release"}
  BY <1>1 DEF RunShape, InsertAlert, ReclaimAlert, CompleteAlert, ReleaseAlert, FailRun
<1>4. check' = [check EXCEPT ![k] = h]
  BY <1>1, <1>2 DEF AlertKinds
<1>5. \A j \in Check \ {k} : check'[j] = check[j]
  BY <1>3, <1>4, RunReplaced
<1>6. check'[k].step = step
  BY <1>3, <1>4, RunReplaced
<1> HIDE DEF h
<1>7. Placed(h) /\ Through(h)
  BY <1>1, <1>3 DEF Placed, Through, AtContact
<1>8. UNCHANGED <<contacts, messages, receipts, alerts>>
  BY DEF InsertAlert, ReclaimAlert, CompleteAlert, ReleaseAlert, FailRun, Delivered, Log
<1> DEFINE Allowed ==
             /\ overlapped' \in BOOLEAN /\ (overlapped => overlapped')
             /\ reserved' \in {"none", "pending", "completed"} /\ lease' \in BOOLEAN
             /\ reserved' = "completed" => reserved = "completed" \/ check[k].step = "complete"
             /\ ~ overlapped' /\ h.step \notin {"asleep", "reclaim"} =>
                  /\ Active(k) \/ (reserved # "pending" \/ ~ lease)
                  /\ IF Active(k) THEN UNCHANGED <<reserved, lease>>
                                  ELSE reserved' = "pending" /\ lease'
             /\ h.step \in {"asleep", "reclaim"} => Active(k) \/ UNCHANGED <<reserved, lease>>
<1>9. Allowed
  <2>1. CASE InsertAlert(k)
    <3>1. h.step = IF reserved = "none" THEN "list" ELSE "reclaim"
      BY <1>1, <1>3, <1>6, <2>1 DEF InsertAlert, Goto, AlertKinds, RunShape
    <3> QED
      BY <1>1, <2>1, <3>1 DEF InsertAlert, Log, AlertKinds, Active
  <2>2. CASE ReclaimAlert(k)
    <3>1. h.step = IF Reclaimable THEN "list" ELSE "asleep"
      BY <1>1, <1>3, <1>6, <2>2 DEF ReclaimAlert, Goto, AlertKinds, RunShape
    <3> QED
      BY <1>1, <2>2, <3>1 DEF ReclaimAlert, Reclaimable, AlertKinds, Active
  <2>3. CASE CompleteAlert(k) \/ ReleaseAlert(k)
    <3>1. h.step = "asleep"
      BY <1>1, <1>3, <1>6, <2>3 DEF CompleteAlert, ReleaseAlert, Goto, AlertKinds, RunShape
    <3> QED
      BY <1>1, <2>3, <3>1 DEF CompleteAlert, ReleaseAlert, AlertKinds, Active
  <2>4. CASE FailRun(k)
    BY <1>1, <2>4 DEF FailRun, Log, AlertKinds, Active
  <2> QED
    BY <2>1, <2>2, <2>3, <2>4
<1>10. LostInv'
  BY <1>1, <1>3, <1>4, <1>7, <1>8, <1>9, QuietLost
<1>11. OnceInv'
  BY <1>1, <1>3, <1>4, <1>8, <1>9, QuietOnce DEF AlertKinds
<1> QED
  BY <1>10, <1>11 DEF AlertInv

\* A run goes on to its next contact.
LEMMA Turned ==
    ASSUME AlertInv, NEW k \in Check, NEW h \in RunShape, check' = [check EXCEPT ![k] = h],
           UNCHANGED <<reserved, lease, contacts, messages, receipts, alerts, overlapped>>,
           h.step \notin {"asleep", "reclaim"}, Active(k), check[k].step # "record",
           Placed(h), Through(h)
    PROVE  AlertInv'
<1>1. AlertKinds
  BY DEF AlertInv, LostInv
<1>2. LostInv' /\ OnceInv'
  BY <1>1, QuietLost, QuietOnce DEF AlertKinds
<1> QED
  BY <1>2 DEF AlertInv

\* A run lists its contacts, goes on to the next, or is through with them.
LEMMA TurningSteps ==
    ASSUME AlertInv, NEW k \in Check,
           ListContacts(k) \/ (\E c \in Contact : BeginContact(k, c)) \/ EndContacts(k)
    PROVE  AlertInv'
<1>1. check[k] \in RunShape /\ AlertKinds /\ Placed(check[k]) /\ Through(check[k])
  BY DEF AlertInv, LostInv, AlertKinds
<1>2. UNCHANGED <<reserved, lease, contacts, messages, receipts, alerts, overlapped>>
  BY DEF ListContacts, BeginContact, EndContacts, Log, Delivered
<1>3. CASE ListContacts(k)
  <2> DEFINE h == [check[k] EXCEPT !.todo = contacts,
                              !.step = IF contacts = {} THEN "release" ELSE "next",
                              !.failed = FALSE]
  <2>1. /\ h \in RunShape /\ h.todo = contacts /\ h.at = check[k].at
        /\ h.step = IF contacts = {} THEN "release" ELSE "next"
    BY <1>1 DEF RunShape, AlertKinds
  <2>2. check' = [check EXCEPT ![k] = h]
    BY <1>1, <1>3 DEF ListContacts, AlertKinds
  <2> HIDE DEF h
  <2>3. Placed(h) /\ Through(h) /\ check[k].step = "list"
    BY <1>1, <1>3, <2>1 DEF ListContacts, Placed, Through, AtContact
  <2> QED
    BY <1>2, <2>1, <2>2, <2>3, Turned DEF Active
<1>4. CASE \E c \in Contact : BeginContact(k, c)
  <2>1. PICK c \in Contact : BeginContact(k, c)
    BY <1>4
  <2> DEFINE h == [check[k] EXCEPT !.todo = @ \ {c},
                              !.at = IF c \in contacts THEN c ELSE "nobody",
                              !.step = IF c \in contacts THEN "message" ELSE "next"]
  <2>2. /\ h \in RunShape /\ h.todo = check[k].todo \ {c} /\ h.failed = check[k].failed
        /\ h.at = (IF c \in contacts THEN c ELSE "nobody")
        /\ h.step = IF c \in contacts THEN "message" ELSE "next"
    BY <1>1 DEF RunShape
  <2>3. check' = [check EXCEPT ![k] = h]
    BY <1>1, <2>1 DEF BeginContact, AlertKinds
  <2> HIDE DEF h
  <2>4. /\ check[k].step = "next" /\ check[k].at = "nobody"
        /\ \A d \in Contact : d # "nobody"
    BY <1>1, <2>1, AlertAssumption DEF BeginContact, Placed, AtContact
  <2>5. Placed(h)
    BY <2>2, <2>4 DEF Placed, AtContact
  <2>6. \A d \in contacts \ (h.todo \cup {h.at}) :
          d \in contacts \ (check[k].todo \cup {check[k].at})
    BY <1>1, <2>2, <2>4 DEF AlertKinds
  <2>7. Through(h)
    BY <1>1, <2>2, <2>4, <2>6 DEF Through, AtContact
  <2> QED
    BY <1>2, <2>2, <2>3, <2>4, <2>5, <2>7, Turned DEF Active
<1>5. CASE EndContacts(k)
  <2> DEFINE step == IF check[k].failed THEN "release" ELSE "complete"
             h == [check[k] EXCEPT !.step = step]
  <2>1. step \in {"release", "complete"}
    OBVIOUS
  <2> HIDE DEF step
  <2>2. h \in RunShape /\ h.step = step /\ h.todo = {} /\ h.at = check[k].at
    BY <1>1, <1>5, <2>1 DEF RunShape, EndContacts
  <2>3. check' = [check EXCEPT ![k] = h]
    BY <1>1, <1>5 DEF EndContacts, Goto, AlertKinds, step
  <2> HIDE DEF h
  <2>4. check[k].step = "next" /\ check[k].todo = {} /\ check[k].at = "nobody"
    BY <1>1, <1>5 DEF EndContacts, Placed, AtContact
  <2>5. step = "complete" => ~ check[k].failed
    BY DEF step
  <2>6. step = "complete" => \A c \in contacts : Reached(c)
    BY <1>1, <2>4, <2>5, AlertAssumption DEF Through, AlertKinds
  <2>7. Placed(h) /\ Through(h)
    BY <1>1, <2>1, <2>2, <2>4, <2>6 DEF Placed, Through, AtContact
  <2> QED
    BY <1>2, <2>1, <2>2, <2>3, <2>4, <2>7, Turned DEF Active
<1> QED
  BY <1>3, <1>4, <1>5

\* A delivery fails, or the process of a run dies.
LEMMA FailingSteps ==
    ASSUME AlertInv, NEW k \in Check, FailContact(k) \/ CrashRun(k)
    PROVE  AlertInv'
<1>1. check[k] \in RunShape /\ AlertKinds
  BY DEF AlertInv, LostInv, AlertKinds
<1>2. UNCHANGED <<reserved, lease, contacts, messages, receipts, alerts>>
  BY DEF FailContact, CrashRun, Log, Delivered
<1>3. /\ overlapped' \in BOOLEAN /\ (overlapped => overlapped')
      /\ check[k].step = "record" => overlapped'
  BY <1>1 DEF FailContact, CrashRun, AlertKinds
<1>4. PICK h \in RunShape :
        /\ check' = [check EXCEPT ![k] = h] /\ h.at = "nobody"
        /\ h.step = "asleep" \/ (h.step = "next" /\ h.failed /\ Active(k))
  <2>1. CASE FailContact(k)
    <3> DEFINE h == [DoneWith(k) EXCEPT !.failed = TRUE]
    <3>1. h \in RunShape /\ h.at = "nobody" /\ h.step = "next" /\ h.failed
      BY <1>1 DEF RunShape, DoneWith
    <3>2. check' = [check EXCEPT ![k] = h]
      BY <2>1 DEF FailContact
    <3>3. Active(k)
      BY <2>1 DEF FailContact, Active
    <3> HIDE DEF h
    <3> QED
      BY <3>1, <3>2, <3>3
  <2>2. CASE CrashRun(k)
    <3>1. Asleep \in RunShape /\ Asleep.at = "nobody" /\ Asleep.step = "asleep"
      BY DEF Asleep, RunShape
    <3> QED
      BY <2>2, <3>1 DEF CrashRun
  <2> QED
    BY <2>1, <2>2
<1>5. Placed(h) /\ Through(h)
  BY <1>4 DEF Placed, Through, AtContact
<1>6. LostInv'
  BY <1>1, <1>2, <1>3, <1>4, <1>5, QuietLost DEF AlertKinds
<1>7. OnceInv'
  BY <1>1, <1>2, <1>3, <1>4, QuietOnce DEF AlertKinds
<1> QED
  BY <1>6, <1>7 DEF AlertInv

\* A contact has been told once more: what was reached stays reached.
LEMMA Told ==
    ASSUME AlertInv, UNCHANGED <<contacts, receipts, reserved>>,
           messages \subseteq messages', \A c \in Contact : alerts[c] > 0 => alerts'[c] > 0
    PROVE  /\ \A c \in Contact : Reached(c) => Reached(c)'
           /\ \A c \in receipts' : Reached(c)'
           /\ NoAlertLost'
<1>1. \A c \in Contact : Reached(c) => Reached(c)'
  BY DEF Reached
<1>2. receipts \subseteq Contact /\ contacts \subseteq Contact
  BY DEF AlertInv, LostInv, AlertKinds
<1> QED
  BY <1>1, <1>2 DEF AlertInv, LostInv, NoAlertLost, Reached

LEMMA SendDurablyStep ==
    ASSUME AlertInv, NEW k \in Check, SendDurably(k)
    PROVE  AlertInv'
<1>1. check[k] \in RunShape /\ AlertKinds /\ Placed(check[k]) /\ Through(check[k])
  BY DEF AlertInv, LostInv, AlertKinds
<1> DEFINE h == [check[k] EXCEPT !.step = "receipt"]
<1>2. /\ h \in RunShape /\ h.step = "receipt" /\ h.at = check[k].at /\ h.todo = check[k].todo
      /\ h.failed = check[k].failed
  BY <1>1 DEF RunShape
<1>3. /\ check' = [check EXCEPT ![k] = h] /\ check[k].step = "message"
      /\ messages' = messages \cup {check[k].at}
      /\ UNCHANGED <<reserved, lease, contacts, receipts, alerts, overlapped>>
  BY <1>1 DEF SendDurably, Goto, Log, AlertKinds
<1>4. check[k].at \in Contact
  BY <1>1, <1>3 DEF Placed, AtContact, RunShape
<1> HIDE DEF h
<1>5. /\ \A c \in Contact : Reached(c) => Reached(c)'
      /\ \A c \in receipts' : Reached(c)'
      /\ NoAlertLost'
  BY <1>3, Told
<1>6. AlertKinds'
  BY <1>1, <1>2, <1>3, <1>4, RunReplaced DEF AlertKinds
<1>7. Placed(check[k])' /\ Through(check[k])'
  <2>1. check'[k] = h
    BY <1>2, <1>3, RunReplaced
  <2>2. Placed(check[k])'
    BY <1>1, <1>2, <1>3, <2>1 DEF Placed, AtContact
  <2> QED
    BY <1>1, <1>2, <1>3, <1>5, <2>1, <2>2 DEF Through, AtContact, AlertKinds
<1>8. \A j \in Check \ {k} : Placed(check[j])' /\ Through(check[j])'
  <2>1. TAKE j \in Check \ {k}
  <2>2. check'[j] = check[j] /\ Placed(check[j]) /\ Through(check[j])
    BY <1>2, <1>3, RunReplaced DEF AlertInv, LostInv
  <2> QED
    BY <1>1, <1>3, <1>5, <2>2 DEF Placed, Through, AtContact, AlertKinds
<1>9. \A j \in Check : Placed(check[j])' /\ Through(check[j])'
  BY <1>7, <1>8
<1>10. LostInv'
  BY <1>5, <1>6, <1>9 DEF LostInv
<1>11. OnceInv'
  BY <1>1, <1>2, <1>3, QuietOnce DEF AlertKinds, Active
<1> QED
  BY <1>10, <1>11 DEF AlertInv

LEMMA PublishAlertStep ==
    ASSUME AlertInv, NEW k \in Check, PublishAlert(k)
    PROVE  AlertInv'
<1> DEFINE c == check[k].at
<1>1. check[k] \in RunShape /\ AlertKinds /\ Placed(check[k]) /\ Through(check[k])
  BY DEF AlertInv, LostInv, AlertKinds
<1>2. /\ check[k].step = "receipt" /\ c \in Contact /\ c \in messages
      /\ UNCHANGED <<reserved, lease, contacts, messages, receipts, overlapped>>
  BY <1>1 DEF PublishAlert, Placed, AtContact, RunShape, Log
<1>3. CASE c \in receipts
  <2> DEFINE h == DoneWith(k)
  <2>1. /\ h \in RunShape /\ h.at = "nobody" /\ h.step = "next" /\ h.todo = check[k].todo
        /\ h.failed = check[k].failed
    BY <1>1 DEF DoneWith, RunShape
  <2>2. check' = [check EXCEPT ![k] = h] /\ UNCHANGED alerts
    BY <1>3 DEF PublishAlert, AlreadyAlerted
  <2> HIDE DEF h
  <2>3. Reached(c)
    BY <1>3 DEF AlertInv, LostInv
  <2>4. Placed(h) /\ Through(h)
    BY <1>1, <1>2, <2>1, <2>3 DEF Placed, Through, AtContact
  <2>5. LostInv'
    BY <1>1, <1>2, <2>1, <2>2, <2>4, QuietLost DEF AlertKinds
  <2>6. OnceInv'
    BY <1>1, <1>2, <2>1, <2>2, QuietOnce DEF AlertKinds, Active
  <2> QED
    BY <2>5, <2>6 DEF AlertInv
<1>4. CASE c \notin receipts
  <2> DEFINE h == [check[k] EXCEPT !.step = "record"]
  <2>1. /\ h \in RunShape /\ h.step = "record" /\ h.at = c /\ h.todo = check[k].todo
        /\ h.failed = check[k].failed
    BY <1>1 DEF RunShape
  <2>2. /\ check' = [check EXCEPT ![k] = h]
        /\ alerts' = [alerts EXCEPT ![c] = IF @ = 2 THEN 2 ELSE @ + 1]
    BY <1>1, <1>4 DEF PublishAlert, AlreadyAlerted, Goto, AlertKinds
  <2> HIDE DEF h
  <2>3. /\ alerts' \in [Contact -> 0..2] /\ alerts'[c] > 0
        /\ alerts'[c] = IF alerts[c] = 2 THEN 2 ELSE alerts[c] + 1
        /\ \A d \in Contact \ {c} : alerts'[d] = alerts[d]
    BY <1>1, <1>2, <2>2 DEF AlertKinds
  <2>4. /\ \A d \in Contact : Reached(d) => Reached(d)'
        /\ \A d \in receipts' : Reached(d)'
        /\ NoAlertLost'
    BY <1>2, <2>3, Told
  <2>5. AlertKinds'
    BY <1>1, <1>2, <2>1, <2>2, <2>3, RunReplaced DEF AlertKinds
  <2>6. Placed(check[k])' /\ Through(check[k])'
    <3>1. check'[k] = h /\ c # "nobody"
      BY <1>2, <2>1, <2>2, RunReplaced, AlertAssumption
    <3>2. Placed(check[k])'
      BY <1>1, <1>2, <2>1, <2>3, <3>1 DEF Placed, AtContact
    <3>3. h.failed \/ \A d \in contacts \ (h.todo \cup {h.at}) : Reached(d)
      BY <1>1, <1>2, <2>1 DEF Through, AtContact
    <3> QED
      BY <1>1, <1>2, <2>1, <2>4, <3>1, <3>2, <3>3 DEF Through, AlertKinds
  <2>7. \A j \in Check \ {k} : Placed(check[j])' /\ Through(check[j])'
    <3>1. TAKE j \in Check \ {k}
    <3>2. check'[j] = check[j] /\ Placed(check[j]) /\ Through(check[j])
      BY <2>1, <2>2, RunReplaced DEF AlertInv, LostInv
    <3>3. Placed(check[j])'
      <4>1. \A d \in Contact : alerts[d] > 0 => alerts'[d] > 0
        BY <2>3
      <4>2. check[j].step = "record" => check[j].at \in Contact
        BY <3>2 DEF Placed, AtContact, AlertInv, LostInv, AlertKinds, RunShape
      <4> QED
        BY <1>2, <3>2, <4>1, <4>2 DEF Placed, AtContact
    <3> QED
      BY <1>1, <1>2, <2>4, <3>2, <3>3 DEF Through, AtContact, AlertKinds
  <2>8. LostInv'
    <3>1. \A j \in Check : Placed(check[j])' /\ Through(check[j])'
      BY <2>6, <2>7
    <3> QED
      BY <2>4, <2>5, <3>1 DEF LostInv
  <2>9. ASSUME ~ overlapped' PROVE Alone' /\ Receipted'
    <3>1. Alone /\ Receipted
      BY <1>2, <2>9 DEF AlertInv, OnceInv
    <3>2. \A j \in Check : Active(j)' <=> Active(j)
      BY <1>2, <2>1, <2>2, RunReplaced DEF Active
    <3>3. Alone'
      BY <1>2, <3>1, <3>2 DEF Alone
    <3>4. alerts[c] = 0
      <4>1. ASSUME NEW j \in Check, check[j].step = "record", check[j].at = c PROVE FALSE
        BY <1>2, <3>1, <4>1 DEF Alone, Active
      <4> QED
        BY <1>1, <1>2, <1>4, <3>1, <4>1 DEF Receipted, AlertKinds
    <3>5. \A j \in Check : check[j].step = "record" => check'[j] = check[j]
      BY <1>2, <2>1, <2>2, RunReplaced
    <3>6. check'[k] = h
      BY <2>1, <2>2, RunReplaced
    <3> QED
      BY <1>2, <2>1, <2>3, <3>1, <3>3, <3>4, <3>5, <3>6 DEF Receipted
  <2> QED
    BY <2>8, <2>9 DEF AlertInv, OnceInv
<1> QED
  BY <1>3, <1>4

LEMMA RecordDeliveryStep ==
    ASSUME AlertInv, NEW k \in Check, RecordDelivery(k)
    PROVE  AlertInv'
<1> DEFINE h == DoneWith(k)
<1>1. check[k] \in RunShape /\ AlertKinds /\ Placed(check[k]) /\ Through(check[k])
  BY DEF AlertInv, LostInv, AlertKinds
<1>2. /\ h \in RunShape /\ h.at = "nobody" /\ h.step = "next" /\ h.todo = check[k].todo
      /\ h.failed = check[k].failed
  BY <1>1 DEF DoneWith, RunShape
<1>3. /\ check' = [check EXCEPT ![k] = h] /\ receipts' = receipts \cup {check[k].at}
      /\ check[k].step = "record"
      /\ UNCHANGED <<reserved, lease, contacts, messages, alerts, overlapped>>
  BY DEF RecordDelivery, Log
<1> HIDE DEF h
<1>4. Placed(h) /\ Through(h)
  BY <1>1, <1>2, <1>3 DEF Placed, Through, AtContact, Reached
<1>5. LostInv'
  BY <1>1, <1>2, <1>3, <1>4, QuietLost DEF AlertKinds
<1>6. OnceInv'
  BY <1>1, <1>2, <1>3, QuietOnce DEF AlertKinds, Active
<1> QED
  BY <1>5, <1>6 DEF AlertInv

LEMMA LeaseStep == AlertInv /\ LeaseRunsOut => AlertInv'
<1> SUFFICES ASSUME AlertInv, LeaseRunsOut PROVE AlertInv'
  OBVIOUS
<1>1. UNCHANGED <<reserved, contacts, messages, receipts, alerts, check>>
  BY DEF LeaseRunsOut, Delivered
<1>2. LostInv'
  BY <1>1 DEF AlertInv, LostInv, AlertKinds, Reached, Placed, Through, AtContact,
              NoAlertLost, LeaseRunsOut
<1>3. ~ overlapped' => ~ overlapped /\ \A k \in Check : ~ Active(k)
  BY DEF LeaseRunsOut, Active
<1>4. OnceInv'
  BY <1>1, <1>3 DEF AlertInv, OnceInv, Alone, Active, Receipted
<1> QED
  BY <1>2, <1>4 DEF AlertInv

LEMMA ContactStep ==
    ASSUME AlertInv, NEW c \in Contact, RemoveContact(c)
    PROVE  AlertInv'
<1>1. /\ UNCHANGED <<reserved, lease, messages, receipts, alerts, check, overlapped>>
      /\ contacts' \subseteq contacts
  BY DEF RemoveContact, Log, Delivered
<1>2. LostInv'
  BY <1>1 DEF AlertInv, LostInv, AlertKinds, Reached, Placed, Through, AtContact, NoAlertLost
<1>3. OnceInv'
  BY <1>1 DEF AlertInv, OnceInv, Alone, Active, Receipted
<1> QED
  BY <1>2, <1>3 DEF AlertInv

LEMMA NextAlerts ==
    ASSUME AlertInv, [AlertNext]_evars
    PROVE  AlertInv'
<1>1. CASE UNCHANGED evars
  BY <1>1 DEF evars, AlertInv, LostInv, AlertKinds, Reached, Placed, Through, AtContact,
              NoAlertLost, OnceInv, Alone, Active, Receipted
<1>2. ASSUME NEW k \in Check, GoOn(k) \/ FailContact(k) \/ FailRun(k) \/ CrashRun(k)
      PROVE  AlertInv'
  BY <1>2, ReservingSteps, TurningSteps, FailingSteps, SendDurablyStep, PublishAlertStep,
     RecordDeliveryStep DEF GoOn
<1> QED
  BY <1>1, <1>2, LeaseStep, ContactStep DEF AlertNext

-----------------------------------------------------------------------------
\* A completed incident has reached every contact that the user still has, for
\* any contacts, any runs and whatever fails or dies: the retries of
\* checkInactivity and notifyContacts.
THEOREM AlertsAreKept == AlertSpec => []NoAlertLost
<1>1. AlertInv => NoAlertLost
  BY DEF AlertInv, LostInv
<1> QED
  BY InitAlerts, NextAlerts, <1>1, PTL DEF AlertSpec

\* No contact is alerted twice of an incident, unless a run outlived its
\* reservation or stopped between an alert and its receipt.
THEOREM AlertsAreNotRepeated == AlertSpec => []AlertedOnce
<1>1. AlertInv => AlertedOnce
  BY DEF AlertInv, OnceInv, Receipted, AlertedOnce
<1> QED
  BY InitAlerts, NextAlerts, <1>1, PTL DEF AlertSpec

\* Both together: every contact is told, and told once.
THEOREM ContactsAreAlertedOnce == AlertSpec => []EachAlertedOnce
  BY AlertsAreKept, AlertsAreNotRepeated, PTL DEF EachAlertedOnce

(***************************************************************************)
(* The subscriber connection.                                              *)
(***************************************************************************)
Link == [up : BOOLEAN, ears : Int, served : BOOLEAN]

ChannelOp == [op : {"subscribe", "unsubscribe", "replay", "attach"},
              on : 0..MaxConnections, step : {"queued", "dropping", "subscribing"}]

Channel ==
    /\ conns \in [1..MaxConnections -> Link]
    /\ current \in 0..MaxConnections /\ active \in 0..MaxConnections
    /\ connecting \in BOOLEAN /\ suspect \in BOOLEAN /\ wanted \in BOOLEAN
    /\ closed \in BOOLEAN /\ missed \in BOOLEAN /\ silent \in BOOLEAN
    /\ queue \in Seq(ChannelOp)

\* Only the first operation runs, on a connection; what subscribes was asked
\* to, or replays or repairs.
InTurn ==
    \A n \in 1..Len(queue) :
      /\ queue[n].step # "queued" => n = 1 /\ queue[n].on # 0
      /\ queue[n].step = "subscribing" => queue[n].op # "unsubscribe"
      /\ queue[n].op = "replay" => queue[n].on # 0

\* A connection that is down serves nothing, nor does one not yet built.
Served ==
    /\ \A g \in 1..MaxConnections :
         /\ conns[g].served => conns[g].up
         /\ g > current => conns[g] = Down
    /\ connecting => current # 0 /\ ~conns[current].up

\* An announcement is owed only while the channel is out of reach.
OwedInGap == missed => Expected /\ ~closed /\ (silent \/ ~InReach)

GapInv == Channel /\ InTurn /\ Served /\ OwedInGap

\* The adapter subscribes once, before anything else is asked of the channel,
\* and whatever else has a connection is queued behind an operation that began.
OneSubscription ==
    /\ calls \in 0..MaxCalls
    /\ calls = 0 => queue = <<>> /\ ~wanted
    /\ \A n \in 1..Len(queue) : queue[n].op \in {"subscribe", "attach"} =>
         /\ n = 1
         /\ queue[n].step = "queued" =>
              \A m \in 2..Len(queue) : queue[m].op = "unsubscribe"

\* Replays are queued in the order of their connections, and none of a
\* registered channel is for a connection before the listener's.
InOrder ==
    /\ \A n \in 1..Len(queue) : queue[n].on <= current
    /\ active <= current
    /\ wanted => \A n \in 1..Len(queue) : queue[n].op = "replay" =>
         /\ active <= queue[n].on
         /\ \A m \in 1..(n - 1) :
              queue[m].op = "replay" \/ queue[m].step # "queued" =>
                queue[m].on <= queue[n].on
    /\ \A n \in 1..Len(queue) :
         /\ queue[n].step # "queued" => active <= queue[n].on
         /\ queue[n].step = "subscribing" => active = 0

\* The connection in use has the remembered listener and no other.
Remembered ==
    ~closed /\ current # 0 =>
      conns[current].ears = (IF active = current THEN 1 ELSE 0)

FrameInv == GapInv /\ OneSubscription /\ InOrder /\ Remembered

LEMMA QueueJoined ==
    ASSUME NEW q \in Seq(ChannelOp), NEW x \in ChannelOp, NEW r, r = Append(q, x)
    PROVE  /\ r \in Seq(ChannelOp) /\ r # <<>> /\ Len(r) = Len(q) + 1
           /\ \A n \in 1..Len(q) : r[n] = q[n]
           /\ r[Len(q) + 1] = x
           /\ q # <<>> => Head(r) = Head(q)
           /\ q = <<>> => Head(r) = x
  BY SMT

LEMMA QueueLeft ==
    ASSUME NEW q \in Seq(ChannelOp), q # <<>>, NEW r, r = Tail(q)
    PROVE  /\ r \in Seq(ChannelOp) /\ Len(r) = Len(q) - 1
           /\ Len(q) \in Nat \ {0}
           /\ \A n \in 1..Len(r) : r[n] = q[n + 1] /\ n + 1 \in 2..Len(q)
  BY SMT

LEMMA QueueHead ==
    ASSUME NEW q \in Seq(ChannelOp), q # <<>>
    PROVE  Head(q) = q[1] /\ q[1] \in ChannelOp /\ 1 \in 1..Len(q)
  BY SMT

LEMMA QueueAwaits ==
    ASSUME queue \in Seq(ChannelOp), queue # <<>>,
           NEW s \in {"dropping", "subscribing"}, NEW g \in 0..MaxConnections,
           Await(s, g)
    PROVE  /\ queue' \in Seq(ChannelOp) /\ Len(queue') = Len(queue) /\ queue' # <<>>
           /\ Head(queue) = queue[1] /\ Head(queue') = queue'[1]
           /\ queue'[1].op = queue[1].op /\ queue'[1].step = s /\ queue'[1].on = g
           /\ \A n \in 2..Len(queue) : queue'[n] = queue[n]
<1>1. Len(queue) \in Nat \ {0} /\ queue[1] \in ChannelOp /\ Head(queue) = queue[1]
  BY SMT
<1>2. queue \in [1..Len(queue) -> ChannelOp]
  BY SMT
<1> PICK h : h = [queue[1] EXCEPT !.step = s, !.on = g]
  OBVIOUS
<1>3. h \in ChannelOp /\ h.op = queue[1].op /\ h.step = s /\ h.on = g
  BY <1>1 DEF ChannelOp
<1>4. queue' = [n \in 1..Len(queue) |-> IF n = 1 THEN h ELSE queue[n]]
  BY <1>1, <1>2 DEF Await
<1>5. /\ queue' \in Seq(ChannelOp) /\ Len(queue') = Len(queue) /\ queue' # <<>>
      /\ Head(queue') = queue'[1]
  BY <1>1, <1>2, <1>3, <1>4
<1> QED
  BY <1>1, <1>3, <1>4, <1>5

LEMMA OweKeeps ==
    ASSUME GapInv, NEW told, Owe(told), missed /\ ~told => silent \/ ~InReach'
    PROVE  missed' \in BOOLEAN /\ silent' \in BOOLEAN /\ OwedInGap'
<1>1. /\ missed' = (Expected' /\ ~closed' /\ ((missed /\ ~told) \/ ~InReach'))
      /\ silent' = (silent /\ wanted' /\ ~(told /\ InReach'))
  BY DEF Owe
<1>2. missed' \in BOOLEAN /\ silent' \in BOOLEAN
  BY <1>1
<1>3. missed' => Expected' /\ ~closed' /\ ((missed /\ ~told) \/ ~InReach')
  BY <1>1, Zenon
<1>4. Expected' => wanted'
  BY DEF Expected
<1>5. (missed /\ ~told) /\ silent /\ wanted' => silent'
  BY <1>1, Zenon
<1> QED
  BY <1>2, <1>3, <1>4, <1>5 DEF OwedInGap

LEMMA GapInit ==
    ASSUME RedisAssumption, RedisInit
    PROVE  GapInv
<1>1. Channel
  <2>1. /\ connecting \in BOOLEAN /\ suspect \in BOOLEAN /\ wanted \in BOOLEAN
        /\ closed \in BOOLEAN /\ missed \in BOOLEAN /\ silent \in BOOLEAN
    BY Zenon DEF RedisInit
  <2>2. conns \in [1..MaxConnections -> Link]
    <3>1. Down \in Link
      BY DEF Down, Link
    <3> QED
      BY <3>1 DEF RedisInit
  <2> QED
    BY <2>1, <2>2 DEF RedisInit, RedisAssumption, Channel
<1>2. InTurn
  BY DEF RedisInit, InTurn
<1>3. Served
  BY DEF RedisInit, Served, Down
<1>4. OwedInGap
  BY DEF RedisInit, OwedInGap
<1> QED
  BY <1>1, <1>2, <1>3, <1>4 DEF GapInv

\* Where the queue stays and the connections gain no server, what was out of
\* reach stays so.
LEMMA QuietStep ==
    ASSUME GapInv, UNCHANGED <<queue, wanted>>, closed' = closed,
           Channel', Served', ~InReach => ~InReach', Owe(FALSE)
    PROVE  GapInv'
<1>1. InTurn'
  BY DEF GapInv, InTurn
<1>2. OwedInGap'
  BY OweKeeps DEF GapInv, OwedInGap
<1> QED
  BY <1>1, <1>2 DEF GapInv

LEMMA GapCall ==
    ASSUME RedisAssumption, GapInv, Call
    PROVE  GapInv'
<1> PICK o : o = IF calls % 2 = 0 THEN "subscribe" ELSE "unsubscribe"
  OBVIOUS
<1> PICK x : x = Operation(o, 0)
  OBVIOUS
<1>1. x \in ChannelOp /\ x.step = "queued" /\ x.op # "replay"
  <2>1. o \in {"subscribe", "unsubscribe"} /\ 0 \in 0..MaxConnections
    BY DEF RedisAssumption
  <2> QED
    BY <2>1 DEF Operation, ChannelOp
<1>2. queue' = Append(queue, x)
  BY DEF Call
<1>3. Channel'
  <2>1. missed' \in BOOLEAN /\ silent' \in BOOLEAN
    BY OweKeeps DEF Call, GapInv, OwedInGap, InReach, Usable
  <2> QED
    BY <1>1, <1>2, <2>1, QueueJoined DEF GapInv, Channel, Call
<1>4. InTurn'
  BY <1>1, <1>2, QueueJoined DEF GapInv, Channel, InTurn
<1>5. Served'
  BY DEF GapInv, Served, Call
<1>6. OwedInGap'
  BY OweKeeps DEF Call, GapInv, OwedInGap, InReach, Usable
<1> QED
  BY <1>3, <1>4, <1>5, <1>6 DEF GapInv

LEMMA GapOpen ==
    ASSUME RedisAssumption, GapInv, OpenRole
    PROVE  GapInv'
<1>1. current' \in 1..MaxConnections /\ current' > current
  BY DEF OpenRole, GapInv, Channel, RedisAssumption
<1>2. conns'[current'] = Down
  BY <1>1 DEF OpenRole, GapInv, Served
<1>3. ~InReach'
  BY <1>2 DEF InReach, Usable, Down
<1>4. missed' \in BOOLEAN /\ silent' \in BOOLEAN
  BY <1>3, OweKeeps DEF OpenRole
<1>5. Channel'
  <2>1. connecting' \in BOOLEAN /\ suspect' \in BOOLEAN
    BY Zenon DEF OpenRole
  <2>2. current' \in 0..MaxConnections /\ active' \in 0..MaxConnections
    BY <1>1 DEF OpenRole, RedisAssumption
  <2> QED
    BY <1>4, <2>1, <2>2 DEF GapInv, Channel, OpenRole
<1>6. Served'
  BY <1>1, <1>2 DEF GapInv, Channel, Served, OpenRole, Down
<1> QED
  BY <1>3, <1>5, <1>6, QuietStep DEF OpenRole

\* A connection that comes up serves nothing until something is subscribed.
LEMMA GapComesUp ==
    ASSUME GapInv, NEW told, Owe(told), current # 0, ~conns[current].up,
           conns' = [conns EXCEPT ![current].up = TRUE], Replay(current),
           connecting' = FALSE,
           UNCHANGED <<current, suspect, wanted, active, closed, calls, trouble>>
    PROVE  GapInv'
<1>1. current \in 1..MaxConnections /\ conns[current] \in Link
  BY DEF GapInv, Channel
<1>2. /\ conns' \in [1..MaxConnections -> Link]
      /\ ~conns'[current].served
      /\ \A g \in 1..MaxConnections : g # current => conns'[g] = conns[g]
  BY <1>1 DEF GapInv, Channel, Link, Served
<1>3. ~InReach'
  BY <1>2 DEF InReach
<1>4. missed' \in BOOLEAN /\ silent' \in BOOLEAN /\ OwedInGap'
  BY <1>3, OweKeeps
<1>5. Served'
  BY <1>1, <1>2 DEF GapInv, Channel, Served
<1>6. CASE wanted
  <2> PICK x : x = Operation("replay", current)
    OBVIOUS
  <2>1. x \in ChannelOp /\ x.step = "queued" /\ x.on # 0
    BY <1>1 DEF Operation, ChannelOp, GapInv, Channel
  <2>2. queue' = Append(queue, x)
    BY <1>6 DEF Replay
  <2>3. Channel'
    BY <1>2, <1>4, <2>1, <2>2, QueueJoined DEF GapInv, Channel
  <2>4. InTurn'
    BY <2>1, <2>2, QueueJoined DEF GapInv, Channel, InTurn
  <2> QED
    BY <1>4, <1>5, <2>3, <2>4 DEF GapInv
<1>7. CASE ~wanted
  BY <1>2, <1>4, <1>5, <1>7 DEF GapInv, Channel, InTurn, Replay
<1> QED
  BY <1>6, <1>7

LEMMA GapConnections ==
    ASSUME GapInv, ConnectFails \/ Drop \/ \E g \in 1..MaxConnections : Retire(g)
    PROVE  GapInv'
<1>1. CASE ConnectFails
  <2>1. InReach' = InReach
    BY <1>1 DEF ConnectFails, InReach, Usable
  <2>2. missed' \in BOOLEAN /\ silent' \in BOOLEAN
    BY <1>1, <2>1, OweKeeps DEF ConnectFails, GapInv, OwedInGap
  <2>3. Channel'
    BY <1>1, <2>2 DEF ConnectFails, GapInv, Channel
  <2>4. Served'
    BY <1>1 DEF ConnectFails, GapInv, Served
  <2> QED
    BY <1>1, <2>1, <2>3, <2>4, QuietStep DEF ConnectFails
<1>2. CASE Drop
  <2>1. current \in 1..MaxConnections /\ conns[current] \in Link
    BY <1>2 DEF Drop, Usable, GapInv, Channel
  <2>2. /\ conns' \in [1..MaxConnections -> Link]
        /\ ~conns'[current].served /\ ~conns'[current].up
        /\ \A g \in 1..MaxConnections : g # current => conns'[g] = conns[g]
    BY <1>2, <2>1 DEF Drop, GapInv, Channel, Link
  <2>3. ~InReach'
    BY <1>2, <2>2 DEF Drop, InReach
  <2>4. missed' \in BOOLEAN /\ silent' \in BOOLEAN
    BY <1>2, <2>3, OweKeeps DEF Drop
  <2>5. Channel'
    BY <1>2, <2>2, <2>4 DEF Drop, GapInv, Channel
  <2>6. Served'
    BY <1>2, <2>1, <2>2 DEF Drop, GapInv, Channel, Served
  <2> QED
    BY <1>2, <2>3, <2>5, <2>6, QuietStep DEF Drop
<1>3. ASSUME NEW g \in 1..MaxConnections, Retire(g)
      PROVE  GapInv'
  <2>1. /\ conns' \in [1..MaxConnections -> Link]
        /\ conns'[g] = Down
        /\ \A h \in 1..MaxConnections : h # g => conns'[h] = conns[h]
    BY <1>3 DEF Retire, GivenUp, GapInv, Channel, Link, Down
  <2>2. ~InReach => ~InReach'
    BY <1>3, <2>1 DEF Retire, GivenUp, GapInv, Channel, InReach, Usable, Down
  <2>3. missed' \in BOOLEAN /\ silent' \in BOOLEAN
    BY <1>3, <2>2, OweKeeps DEF Retire, GivenUp, GapInv, OwedInGap
  <2>4. Channel'
    BY <1>3, <2>1, <2>3 DEF Retire, GivenUp, GapInv, Channel
  <2>5. Served'
    <3>1. Down.served = FALSE /\ Down.up = FALSE
      BY DEF Down
    <3> HIDE DEF Down
    <3> QED
      BY <1>3, <2>1, <3>1 DEF Retire, GivenUp, GapInv, Channel, Served
  <2> QED
    BY <1>3, <2>2, <2>4, <2>5, QuietStep DEF Retire, GivenUp
<1> QED
  BY <1>1, <1>2, <1>3

\* What the client restores silently is marked so.
LEMMA GapSilently ==
    ASSUME GapInv, NEW g \in 1..MaxConnections, ReconnectsSilently(g)
    PROVE  GapInv'
<1> PICK s \in BOOLEAN : conns' = [conns EXCEPT ![g].up = TRUE, ![g].served = s]
  BY DEF ReconnectsSilently
<1>1. /\ conns' \in [1..MaxConnections -> Link] /\ conns'[g].up
      /\ \A h \in 1..MaxConnections : h # g => conns'[h] = conns[h]
  BY DEF GapInv, Channel, Link
<1>2. /\ UNCHANGED <<suspect, active, queue, current, connecting, wanted, closed>>
      /\ ~closed /\ (g < current \/ (g = current /\ ~connecting))
  BY DEF ReconnectsSilently, Book
<1>3. /\ missed' = (missed \/ (Expected /\ ~InReach'))
      /\ silent' = (silent \/ (g = current /\ Expected))
  BY DEF ReconnectsSilently
<1>4. missed' \in BOOLEAN /\ silent' \in BOOLEAN
  BY <1>3 DEF GapInv, Channel
<1>5. Channel' /\ InTurn'
  BY <1>1, <1>2, <1>4 DEF GapInv, Channel, InTurn
<1>6. Served'
  BY <1>1, <1>2 DEF GapInv, Channel, Served
<1>7. OwedInGap'
  <2>1. Expected' = Expected
    BY <1>2 DEF Expected
  <2>2. g # current => InReach' = InReach
    BY <1>1, <1>2 DEF GapInv, Channel, InReach, Usable
  <2> QED
    BY <1>2, <1>3, <2>1, <2>2 DEF GapInv, OwedInGap
<1> QED
  BY <1>5, <1>6, <1>7 DEF GapInv

\* The operation that runs goes on or is done with.
LEMMA TurnKept ==
    ASSUME GapInv, queue # <<>>,
           NEW s \in {"dropping", "subscribing"}, NEW g \in 1..MaxConnections,
           s = "subscribing" => Head(queue).op # "unsubscribe",
           Await(s, g)
    PROVE  queue' \in Seq(ChannelOp) /\ InTurn'
<1>1. queue \in Seq(ChannelOp) /\ g \in 0..MaxConnections /\ Len(queue) \in Nat
  BY DEF GapInv, Channel
<1>3. /\ queue' \in Seq(ChannelOp) /\ Len(queue') = Len(queue)
      /\ queue'[1].op = Head(queue).op /\ queue'[1].step = s /\ queue'[1].on = g
      /\ \A n \in 2..Len(queue) : queue'[n] = queue[n]
  BY <1>1, QueueAwaits
<1>4. ASSUME NEW n \in 1..Len(queue)
      PROVE  /\ queue'[n].step # "queued" => n = 1 /\ queue'[n].on # 0
             /\ queue'[n].step = "subscribing" => queue'[n].op # "unsubscribe"
             /\ queue'[n].op = "replay" => queue'[n].on # 0
  <2>1. CASE n = 1
    BY <1>3, <2>1
  <2>2. CASE n \in 2..Len(queue)
    BY <1>3, <2>2 DEF GapInv, InTurn
  <2> QED
    BY <1>1, <2>1, <2>2
<1> QED
  BY <1>3, <1>4 DEF InTurn

LEMMA TurnDone ==
    ASSUME GapInv, queue # <<>>, Finish
    PROVE  queue' \in Seq(ChannelOp) /\ InTurn'
<1>1. queue' \in Seq(ChannelOp)
  BY QueueLeft DEF GapInv, Channel, Finish
<1>2. \A n \in 1..Len(queue') : queue'[n] = queue[n + 1] /\ n + 1 \in 2..Len(queue)
  BY QueueLeft DEF GapInv, Channel, Finish
<1>3. Len(queue) \in Nat
  BY DEF GapInv, Channel
<1>4. \A n \in 2..Len(queue) : queue[n].step = "queued" /\ (queue[n].op = "replay" => queue[n].on # 0)
  BY <1>3 DEF GapInv, InTurn
<1> QED
  BY <1>1, <1>2, <1>4 DEF InTurn

\* Nothing but the queue, and what is remembered, changes.
LEMMA GapByQueue ==
    ASSUME GapInv, queue' \in Seq(ChannelOp), InTurn',
           UNCHANGED <<conns, current, connecting>>, closed' \in BOOLEAN,
           closed => closed',
           suspect' \in BOOLEAN, wanted' \in BOOLEAN,
           active' \in 0..MaxConnections, NEW told, Owe(told)
    PROVE  GapInv'
<1>1. ~InReach' \/ InReach' = InReach
  BY DEF InReach, Usable
<1>2. missed' \in BOOLEAN /\ silent' \in BOOLEAN /\ OwedInGap'
  BY <1>1, OweKeeps DEF GapInv, OwedInGap
<1>3. Channel'
  BY <1>2 DEF GapInv, Channel
<1>4. Served'
  BY DEF GapInv, Served
<1> QED
  BY <1>2, <1>3, <1>4 DEF GapInv

LEMMA GapBegins ==
    ASSUME RedisAssumption, GapInv,
           BeginAttach \/ BeginUnsubscribe \/ BeginReplay \/ Reattach
    PROVE  GapInv'
<1>1. 0 \in 0..MaxConnections
  BY DEF RedisAssumption
<1>2. Usable => current \in 1..MaxConnections
  BY DEF GapInv, Channel, Usable
<1>3. CASE BeginAttach
  <2>1. Head(queue).op # "unsubscribe"
    BY <1>3 DEF BeginAttach
  <2>2. queue' \in Seq(ChannelOp) /\ InTurn'
    <3>1. CASE Usable /\ active = 0
      BY <1>2, <1>3, <2>1, <3>1, TurnKept DEF BeginAttach, AttachListener
    <3>2. CASE ~(Usable /\ active = 0)
      <4>1. Finish
        BY <1>3, <3>2 DEF BeginAttach, AttachListener
      <4> QED
        BY <1>3, <4>1, TurnDone DEF BeginAttach
    <3> QED
      BY <3>1, <3>2
  <2>3. suspect' \in BOOLEAN
    BY <1>3 DEF BeginAttach, AttachListener
  <2>4. wanted' \in BOOLEAN
    BY <1>3 DEF BeginAttach, GapInv, Channel
  <2> QED
    BY <1>3, <2>2, <2>3, <2>4, GapByQueue DEF BeginAttach, GapInv, Channel
<1>4. CASE BeginUnsubscribe
  <2>1. queue' \in Seq(ChannelOp) /\ InTurn'
    BY <1>2, <1>4, TurnKept, TurnDone DEF BeginUnsubscribe
  <2>2. wanted' \in BOOLEAN
    BY <1>4, Zenon DEF BeginUnsubscribe
  <2> QED
    BY <1>4, <2>1, <2>2, GapByQueue DEF BeginUnsubscribe, GapInv, Channel
<1>5. CASE BeginReplay
  <2>1. Head(queue).on \in 1..MaxConnections /\ Head(queue).op # "unsubscribe"
    <3>1. Head(queue) = queue[1] /\ queue[1] \in ChannelOp /\ 1 \in 1..Len(queue)
      BY <1>5, QueueHead DEF BeginReplay, GapInv, Channel
    <3> QED
      BY <1>5, <3>1 DEF BeginReplay, GapInv, InTurn, ChannelOp
  <2>2. queue' \in Seq(ChannelOp) /\ InTurn'
    BY <1>5, <2>1, TurnKept, TurnDone DEF BeginReplay
  <2> QED
    BY <1>5, <2>2, GapByQueue DEF BeginReplay, Book, GapInv, Channel
<1>6. CASE Reattach
  <2>1. Operation("attach", 0) \in ChannelOp
    BY <1>1 DEF Operation, ChannelOp
  <2>2. queue' \in Seq(ChannelOp) /\ Len(queue') = 1 /\ queue'[1] = Operation("attach", 0)
    BY <1>6, <2>1 DEF Reattach
  <2>3. InTurn'
    BY <2>2 DEF InTurn, Operation
  <2> QED
    BY <1>6, <2>2, <2>3, GapByQueue DEF Reattach, Book, GapInv, Channel
<1> QED
  BY <1>3, <1>4, <1>5, <1>6

LEMMA GapAnswers ==
    ASSUME RedisAssumption, GapInv, Dropped \/ Subscribed \/ Rejected
    PROVE  GapInv'
<1> PICK c : c = Head(queue)
  OBVIOUS
<1>1. queue # <<>> /\ c.step \in {"dropping", "subscribing"}
  BY DEF Dropped, Subscribed, Rejected
<1>2. /\ c = queue[1] /\ c \in ChannelOp /\ 1 \in 1..Len(queue)
      /\ c.on \in 1..MaxConnections
      /\ c.step = "subscribing" => c.op # "unsubscribe"
  <2>1. c = queue[1] /\ c \in ChannelOp /\ 1 \in 1..Len(queue)
    BY <1>1, QueueHead DEF GapInv, Channel
  <2> QED
    BY <1>1, <2>1 DEF GapInv, InTurn, ChannelOp
<1>3. CASE Dropped
  <2>1. Without(c.on) \in Link /\ (Without(c.on).served => conns[c.on].served)
        /\ Without(c.on).up = conns[c.on].up
        /\ (Without(c.on).ears = conns[c.on].ears \/ Without(c.on).ears = conns[c.on].ears - 1)
        /\ (Without(c.on).ears # conns[c.on].ears /\ Without(c.on).served => Without(c.on).ears > 0)
    <3> PICK k : k = conns[c.on]
      OBVIOUS
    <3>1. k \in Link
      BY <1>2 DEF GapInv, Channel
    <3>2. CASE active = c.on
      <4> PICK b : b = (k.served /\ k.ears > 1)
        OBVIOUS
      <4>1. b \in BOOLEAN /\ (b => k.served) /\ (b => k.ears > 1)
        OBVIOUS
      <4> PICK e : e = k.ears - 1
        OBVIOUS
      <4>2. Without(c.on) = [k EXCEPT !.ears = e, !.served = b]
        BY <3>2 DEF Without
      <4>3. e \in Int
        BY <3>1 DEF Link
      <4> PICK w : w = Without(c.on)
        OBVIOUS
      <4>4. w \in Link /\ w.up = k.up /\ w.ears = e /\ w.served = b
        BY <3>1, <4>2, <4>3 DEF Link
      <4>5. w.served => k.served /\ w.ears > 0
        BY <3>1, <4>1, <4>4 DEF Link
      <4> HIDE DEF Without
      <4> QED
        BY <4>4, <4>5
    <3>3. CASE active # c.on
      BY <3>1, <3>3 DEF Without
    <3> QED
      BY <3>2, <3>3
  <2>2. /\ conns' \in [1..MaxConnections -> Link] /\ conns'[c.on] = Without(c.on)
        /\ \A h \in 1..MaxConnections : h # c.on => conns'[h] = conns[h]
    BY <1>2, <1>3, <2>1 DEF Dropped, GapInv, Channel
  <2>3. queue' \in Seq(ChannelOp) /\ InTurn'
    BY <1>1, <1>2, <1>3, TurnKept, TurnDone DEF Dropped
  <2>4. conns[c.on].up
    BY <1>3 DEF Dropped
  <2>5. Served'
    <3> HIDE DEF Without
    <3> QED
      <4>1. Down.up = FALSE
        BY DEF Down
      <4>2. c.on <= current
        BY <1>2, <2>4, <4>1 DEF GapInv, Channel, Served
      <4>3. UNCHANGED <<current, connecting>>
        BY <1>3 DEF Dropped, Book
      <4>4. \A g \in 1..MaxConnections : conns'[g].served => conns'[g].up
        BY <2>1, <2>2, <2>4 DEF GapInv, Served
      <4>5. \A g \in 1..MaxConnections : g > current => conns'[g] = Down
        BY <1>2, <2>2, <4>2 DEF GapInv, Channel, Served
      <4>6. connecting => current # 0 /\ ~conns'[current].up
        BY <2>1, <2>2, <2>4 DEF GapInv, Channel, Served
      <4> QED
        BY <4>3, <4>4, <4>5, <4>6 DEF Served
  <2>6. missed' \in BOOLEAN /\ silent' \in BOOLEAN /\ OwedInGap'
    <3>1. ~InReach => ~InReach'
      <4>1. CASE c.on = current
        <5> HIDE DEF Without
        <5> QED
          BY <1>2, <1>3, <2>1, <2>2, <2>4, <4>1 DEF Dropped, Book, InReach, Usable, GapInv, Channel, Link
      <4>2. CASE c.on # current
        BY <1>2, <1>3, <2>2, <4>2 DEF Dropped, Book, InReach, Usable, GapInv, Channel
      <4> QED
        BY <4>1, <4>2
    <3> QED
      BY <1>3, <3>1, OweKeeps DEF Dropped, GapInv, OwedInGap
  <2>7. Channel'
    BY <1>3, <2>2, <2>3, <2>6 DEF Dropped, Book, GapInv, Channel, RedisAssumption
  <2> QED
    BY <2>3, <2>5, <2>6, <2>7 DEF GapInv
<1>4. CASE Subscribed
  <2>1. /\ conns' \in [1..MaxConnections -> Link]
        /\ \A h \in 1..MaxConnections : h # c.on => conns'[h] = conns[h]
        /\ conns'[c.on].up
        /\ conns[c.on].up /\ active' = c.on
    <3> PICK k : k = conns[c.on]
      OBVIOUS
    <3>1. k \in Link
      BY <1>2 DEF GapInv, Channel
    <3> PICK e : e = k.ears + 1
      OBVIOUS
    <3> PICK h : h = [k EXCEPT !.ears = e, !.served = TRUE]
      OBVIOUS
    <3>2. h \in Link /\ h.up = k.up
      <4>1. e \in Int /\ TRUE \in BOOLEAN
        BY <3>1 DEF Link
      <4> QED
        BY <3>1, <4>1 DEF Link
    <3>3. conns' = [conns EXCEPT ![c.on] = h]
      BY <1>2, <1>4, <3>1 DEF Subscribed, GapInv, Channel, Link
    <3>4. conns[c.on].up /\ active' = c.on
      BY <1>4 DEF Subscribed
    <3> QED
      BY <1>2, <3>2, <3>3, <3>4 DEF GapInv, Channel
  <2>2. queue' \in Seq(ChannelOp) /\ InTurn'
    BY <1>1, <1>4, TurnDone DEF Subscribed
  <2>3. ~(missed /\ ~Announced(c.op, TRUE))
    <3>1. c.op \in {"subscribe", "replay", "attach"}
      BY <1>2, <1>4 DEF Subscribed, ChannelOp
    <3>2. c.op = "subscribe" => ~missed
      BY <1>1 DEF GapInv, OwedInGap, Expected
    <3> QED
      BY <3>1, <3>2 DEF Announced
  <2>4. missed' \in BOOLEAN /\ silent' \in BOOLEAN /\ OwedInGap'
    BY <1>4, <2>3, OweKeeps DEF Subscribed, Outcome
  <2>5. Channel'
    BY <1>2, <1>4, <2>1, <2>2, <2>4 DEF Subscribed, Book, GapInv, Channel
  <2>6. Served'
    <3>1. c.on <= current
      BY <1>2, <2>1 DEF GapInv, Channel, Served, Down
    <3>2. connecting => c.on # current
      BY <2>1 DEF GapInv, Served
    <3> QED
      BY <1>2, <1>4, <2>1, <3>1, <3>2 DEF Subscribed, Book, GapInv, Channel, Served
  <2> QED
    BY <2>2, <2>4, <2>5, <2>6 DEF GapInv
<1>5. CASE Rejected
  <2>1. queue' \in Seq(ChannelOp) /\ InTurn'
    BY <1>1, <1>5, TurnDone DEF Rejected
  <2>2. suspect' \in BOOLEAN
    BY <1>5 DEF Rejected
  <2> QED
    BY <1>5, <2>1, <2>2, GapByQueue DEF Rejected, Outcome, GapInv, Channel
<1> QED
  BY <1>3, <1>4, <1>5

LEMMA GapClose ==
    ASSUME RedisAssumption, GapInv, Close
    PROVE  GapInv'
<1>1. closed' \in BOOLEAN /\ wanted' \in BOOLEAN /\ missed' \in BOOLEAN /\ silent' \in BOOLEAN /\ ~missed'
  BY Zenon DEF Close
<1>2. Channel'
  BY <1>1 DEF Close, GapInv, Channel, RedisAssumption
<1>3. InTurn' /\ Served'
  BY DEF Close, GapInv, InTurn, Served
<1>4. OwedInGap'
  BY <1>1 DEF OwedInGap
<1> QED
  BY <1>2, <1>3, <1>4 DEF GapInv

LEMMA GapStep ==
    ASSUME RedisAssumption, GapInv, [RedisNext]_rvars
    PROVE  GapInv'
<1>1. CASE Call
  BY <1>1, GapCall
<1>2. CASE ConnectRedis \/ Replace
  BY <1>2, GapOpen DEF ConnectRedis, Replace
<1>3. CASE ConnectSucceeds
  BY <1>3, GapComesUp DEF ConnectSucceeds, GapInv, Served
<1>4. CASE ReconnectsItself
  <2>1. connecting' = FALSE
    BY <1>4 DEF ReconnectsItself, GapInv, Channel
  <2> QED
    BY <1>4, <2>1, GapComesUp DEF ReconnectsItself
<1>5. CASE ConnectFails \/ Drop \/ \E g \in 1..MaxConnections : Retire(g)
  BY <1>5, GapConnections
<1>6. CASE BeginAttach \/ BeginUnsubscribe \/ BeginReplay \/ Reattach
  BY <1>6, GapBegins
<1>7. CASE Dropped \/ Subscribed \/ Rejected
  BY <1>7, GapAnswers
<1>8. CASE Close
  BY <1>8, GapClose
<1>9. CASE \E g \in 1..MaxConnections : ReconnectsSilently(g)
  BY <1>9, GapSilently
<1>10. CASE UNCHANGED rvars
  BY <1>10 DEF rvars, GapInv, Channel, InTurn, Served, OwedInGap, Expected, InReach, Usable
<1> QED
  BY <1>1, <1>2, <1>3, <1>4, <1>5, <1>6, <1>7, <1>8, <1>9, <1>10
    DEF RedisNext, RunOperation

\* A handler of the channel is told of every gap of the connection in use:
\* once the queue has run and frames arrive again, none is owed, unless the
\* client has restored the connection without announcing it.
THEOREM GapsAreTold == RedisSpec => []GapsAreAnnounced
<1>1. RedisInit => GapInv
  BY GapInit, RedisAssumption
<1>2. GapInv /\ [RedisNext]_rvars => GapInv'
  BY GapStep, RedisAssumption
<1>3. GapInv => GapsAreAnnounced
  BY DEF GapInv, OwedInGap, GapsAreAnnounced
<1> QED
  BY <1>1, <1>2, <1>3, PTL DEF RedisSpec

LEMMA FrameInit ==
    ASSUME RedisAssumption, RedisInit
    PROVE  FrameInv
<1>1. GapInv
  BY GapInit
<1>2. OneSubscription
  BY DEF RedisInit, RedisAssumption, OneSubscription
<1>3. InOrder
  BY DEF RedisInit, RedisAssumption, InOrder
<1>4. Remembered
  BY DEF RedisInit, Remembered
<1> QED
  BY <1>1, <1>2, <1>3, <1>4 DEF FrameInv

\* The queue and the registration stay.
LEMMA OrderStands ==
    ASSUME FrameInv, Channel', UNCHANGED <<queue, calls>>, current <= current',
           wanted' => wanted, active' \in {0, active}
    PROVE  OneSubscription' /\ InOrder'
<1>1. /\ current \in Nat /\ current' \in Nat /\ active \in Nat
      /\ \A n \in 1..Len(queue) : queue[n].on \in Nat
  <2>1. \A n \in 1..Len(queue) : queue[n] \in ChannelOp
    BY DEF FrameInv, GapInv, Channel
  <2> QED
    BY <2>1 DEF FrameInv, GapInv, Channel, ChannelOp
<1>2. wanted' \in BOOLEAN /\ wanted \in BOOLEAN
  BY DEF FrameInv, GapInv, Channel
<1>3. OneSubscription'
  BY <1>2 DEF FrameInv, OneSubscription
<1>4. InOrder'
  BY <1>1, <1>2 DEF FrameInv, InOrder
<1> QED
  BY <1>3, <1>4

\* The running operation is done with.
LEMMA OrderFinished ==
    ASSUME FrameInv, Channel', InTurn', queue # <<>>, Finish,
           UNCHANGED <<calls, current>>,
           wanted' => wanted \/ \A m \in 2..Len(queue) : queue[m].op = "unsubscribe",
           active' <= current,
           wanted' => \A m \in 2..Len(queue) : queue[m].op = "replay" => active' <= queue[m].on
    PROVE  OneSubscription' /\ InOrder'
<1>1. /\ Len(queue) \in Nat \ {0} /\ Len(queue') = Len(queue) - 1
      /\ \A n \in 1..Len(queue') : queue'[n] = queue[n + 1] /\ n + 1 \in 2..Len(queue)
  BY QueueLeft DEF FrameInv, GapInv, Channel, Finish
<1>2. \A m \in 2..Len(queue) : /\ queue[m].op \notin {"subscribe", "attach"}
                              /\ queue[m].step = "queued"
                              /\ m \in 1..Len(queue)
  BY <1>1 DEF FrameInv, GapInv, InTurn, OneSubscription
<1>3. OneSubscription'
  BY <1>1, <1>2 DEF FrameInv, OneSubscription
<1>4. \A n \in 1..Len(queue') : queue'[n].on <= current' /\ queue'[n].step = "queued"
  BY <1>1, <1>2 DEF FrameInv, InOrder
<1>5. ASSUME wanted', NEW n \in 1..Len(queue'), queue'[n].op = "replay"
      PROVE  /\ active' <= queue'[n].on
             /\ \A m \in 1..(n - 1) :
                  queue'[m].op = "replay" \/ queue'[m].step # "queued" =>
                    queue'[m].on <= queue'[n].on
  <2>1. active' <= queue'[n].on
    BY <1>1, <1>5
  <2>2. wanted
    BY <1>1, <1>5
  <2>3. ASSUME NEW m \in 1..(n - 1),
               queue'[m].op = "replay" \/ queue'[m].step # "queued"
        PROVE  queue'[m].on <= queue'[n].on
    <3>1. m \in 1..Len(queue') /\ m + 1 \in 1..((n + 1) - 1)
      BY <1>1
    <3>2. queue'[m].op = "replay"
      BY <1>4, <2>3, <3>1
    <3>3. queue[n + 1].op = "replay" /\ queue[m + 1].op = "replay" /\ n + 1 \in 1..Len(queue)
      BY <1>1, <1>5, <3>1, <3>2
    <3>4. queue[m + 1].on <= queue[n + 1].on
      BY <2>2, <3>1, <3>3 DEF FrameInv, InOrder
    <3> QED
      BY <1>1, <3>1, <3>4
  <2> QED
    BY <2>1, <2>3
<1>6. InOrder'
  BY <1>4, <1>5 DEF InOrder
<1> QED
  BY <1>3, <1>6

\* The running operation waits for an answer on a connection.
LEMMA OrderAwaited ==
    ASSUME FrameInv, Channel', InTurn', queue # <<>>,
           NEW s \in {"dropping", "subscribing"}, NEW g \in 1..MaxConnections,
           Await(s, g), UNCHANGED <<calls, current>>,
           g <= current, active' \in {0, active}, active' <= g,
           s = "subscribing" => active' = 0,
           wanted' => \/ \A m \in 2..Len(queue) : queue[m].op = "unsubscribe"
                      \/ /\ wanted
                         /\ \A m \in 2..Len(queue) :
                              queue[m].op = "replay" => g <= queue[m].on
    PROVE  OneSubscription' /\ InOrder'
<1>1. /\ Len(queue) \in Nat \ {0} /\ Len(queue') = Len(queue) /\ queue' # <<>>
      /\ queue'[1].op = queue[1].op /\ queue'[1].step = s /\ queue'[1].on = g
      /\ \A n \in 2..Len(queue) : queue'[n] = queue[n]
  <2>1. queue \in Seq(ChannelOp) /\ g \in 0..MaxConnections
    BY DEF FrameInv, GapInv, Channel
  <2>2. Len(queue) \in Nat \ {0}
    BY <2>1
  <2> QED
    BY <2>1, <2>2, QueueAwaits
<1>2. \A m \in 2..Len(queue) : /\ queue[m].op \notin {"subscribe", "attach"}
                              /\ queue[m].step = "queued"
                              /\ m \in 1..Len(queue)
  BY <1>1 DEF FrameInv, GapInv, InTurn, OneSubscription
<1>3. \A n \in 1..Len(queue') : n = 1 \/ n \in 2..Len(queue)
  BY <1>1
<1>4. OneSubscription'
  BY <1>1, <1>2, <1>3 DEF FrameInv, OneSubscription
<1>5. /\ \A n \in 1..Len(queue') : queue'[n].on <= current'
      /\ active' <= current'
  <2>1. active' \in Nat /\ current \in Nat
    BY DEF FrameInv, GapInv, Channel
  <2> QED
    BY <1>1, <1>2, <1>3, <2>1 DEF FrameInv, InOrder
<1>6. ASSUME wanted', NEW n \in 1..Len(queue'), queue'[n].op = "replay"
      PROVE  /\ active' <= queue'[n].on
             /\ \A m \in 1..(n - 1) :
                  queue'[m].op = "replay" \/ queue'[m].step # "queued" =>
                    queue'[m].on <= queue'[n].on
  <2>1. CASE n = 1
    BY <1>1, <2>1
  <2>2. CASE n \in 2..Len(queue)
    <3>1. queue'[n] = queue[n] /\ n \in 1..Len(queue) /\ wanted
          /\ g <= queue[n].on
      BY <1>1, <1>2, <1>6, <2>2
    <3>2. active' <= queue[n].on
      <4>1. queue[n].on \in Nat
        <5>1. queue[n] \in ChannelOp
          BY <3>1 DEF FrameInv, GapInv, Channel
        <5> QED
          BY <5>1 DEF ChannelOp
      <4>2. active <= queue[n].on
        BY <1>6, <3>1 DEF FrameInv, InOrder
      <4> QED
        BY <4>1, <4>2
    <3>3. ASSUME NEW m \in 1..(n - 1),
                 queue'[m].op = "replay" \/ queue'[m].step # "queued"
          PROVE  queue'[m].on <= queue'[n].on
      <4>1. CASE m = 1
        BY <1>1, <3>1, <4>1
      <4>2. CASE m \in 2..Len(queue)
        BY <1>1, <1>6, <3>1, <3>3, <4>2 DEF FrameInv, InOrder
      <4> QED
        BY <1>1, <2>2, <4>1, <4>2
    <3> QED
      BY <3>1, <3>2, <3>3
  <2> QED
    BY <1>3, <2>1, <2>2
<1>7. ASSUME NEW n \in 1..Len(queue')
      PROVE  /\ queue'[n].step # "queued" => active' <= queue'[n].on
             /\ queue'[n].step = "subscribing" => active' = 0
  BY <1>1, <1>2, <1>3
<1>8. InOrder'
  BY <1>5, <1>6, <1>7 DEF InOrder
<1> QED
  BY <1>4, <1>8

LEMMA FrameCall ==
    ASSUME RedisAssumption, MaxCalls <= 2, FrameInv, Call
    PROVE  FrameInv'
<1>1. GapInv'
  BY GapStep DEF RedisNext, FrameInv
<1> PICK o : o = IF calls % 2 = 0 THEN "subscribe" ELSE "unsubscribe"
  OBVIOUS
<1> PICK x : x = Operation(o, 0)
  OBVIOUS
<1>2. calls \in {0, 1} /\ calls' = calls + 1
  BY DEF Call, FrameInv, OneSubscription, RedisAssumption
<1>3. /\ x.op = (IF calls = 0 THEN "subscribe" ELSE "unsubscribe")
      /\ x.on = 0 /\ x.step = "queued" /\ x \in ChannelOp
  <2>1. o = IF calls = 0 THEN "subscribe" ELSE "unsubscribe"
    BY <1>2
  <2>2. 0 \in 0..MaxConnections
    BY DEF RedisAssumption
  <2> QED
    BY <2>1, <2>2 DEF Operation, ChannelOp
<1>4. /\ Len(queue') = Len(queue) + 1 /\ Len(queue) \in Nat
      /\ \A n \in 1..Len(queue) : queue'[n] = queue[n]
      /\ queue'[Len(queue) + 1] = x
  <2>1. queue' = Append(queue, x) /\ queue \in Seq(ChannelOp)
    BY DEF Call, FrameInv, GapInv, Channel
  <2> QED
    BY <1>3, <2>1, QueueJoined
<1>5. \A n \in 1..Len(queue') : n \in 1..Len(queue) \/ queue'[n] = x
  BY <1>4
<1>6. OneSubscription'
  <2>1. CASE calls = 0
    <3>1. queue = <<>> /\ Len(queue) = 0
      BY <2>1 DEF FrameInv, OneSubscription
    <3> QED
      BY <1>2, <1>3, <1>4, <2>1, <3>1 DEF OneSubscription, Call, RedisAssumption
  <2>2. CASE calls = 1
    BY <1>2, <1>3, <1>4, <1>5, <2>2 DEF FrameInv, OneSubscription, Call, RedisAssumption
  <2> QED
    BY <1>2, <2>1, <2>2
<1>7. InOrder'
  <2>1. current \in Nat /\ UNCHANGED <<current, active, wanted>>
    BY DEF FrameInv, GapInv, Channel, Call
  <2>2. x.op # "replay"
    BY <1>3
  <2>3. \A n \in 1..Len(queue'), m \in 1..Len(queue') : m \in 1..(n - 1) => m \in 1..Len(queue)
    BY <1>4
  <2>4. ASSUME wanted', NEW n \in 1..Len(queue'), queue'[n].op = "replay"
        PROVE  /\ active' <= queue'[n].on
               /\ \A m \in 1..(n - 1) :
                    queue'[m].op = "replay" \/ queue'[m].step # "queued" =>
                      queue'[m].on <= queue'[n].on
    <3>1. n \in 1..Len(queue) /\ queue'[n] = queue[n]
      BY <1>4, <1>5, <2>2, <2>4
    <3>2. \A m \in 1..(n - 1) : m \in 1..Len(queue) /\ queue'[m] = queue[m]
      BY <1>4, <3>1
    <3> QED
      BY <2>1, <2>4, <3>1, <3>2 DEF FrameInv, InOrder
  <2>5. ASSUME NEW n \in 1..Len(queue')
        PROVE  /\ queue'[n].on <= current'
               /\ queue'[n].step # "queued" => active' <= queue'[n].on
               /\ queue'[n].step = "subscribing" => active' = 0
    BY <1>3, <1>4, <1>5, <2>1 DEF FrameInv, InOrder
  <2>6. active' <= current'
    BY <2>1 DEF FrameInv, InOrder
  <2> QED
    BY <2>4, <2>5, <2>6 DEF InOrder
<1>8. Remembered'
  BY DEF Call, FrameInv, Remembered
<1> QED
  BY <1>1, <1>6, <1>7, <1>8 DEF FrameInv

LEMMA FrameComesUp ==
    ASSUME RedisAssumption, FrameInv, ConnectSucceeds \/ ReconnectsItself
    PROVE  FrameInv'
<1>1. GapInv'
  BY GapStep DEF RedisNext, FrameInv
<1>2. /\ current \in 1..MaxConnections
      /\ conns' = [conns EXCEPT ![current].up = TRUE]
      /\ Replay(current) /\ Begun
      /\ UNCHANGED <<current, wanted, active, closed, calls>>
  BY DEF ConnectSucceeds, ReconnectsItself, FrameInv, GapInv, Channel, Served
<1>3. Remembered'
  <2>1. conns'[current].ears = conns[current].ears
    BY <1>2 DEF FrameInv, GapInv, Channel, Link
  <2> QED
    BY <1>2, <2>1 DEF FrameInv, Remembered
<1>4. CASE ~wanted
  <2>1. OneSubscription' /\ InOrder'
    BY <1>2, <1>4 DEF Replay, FrameInv, OneSubscription, InOrder
  <2> QED
    BY <1>1, <1>3, <2>1 DEF FrameInv
<1>5. CASE wanted
  <2> PICK x : x = Operation("replay", current)
    OBVIOUS
  <2>1. x.op = "replay" /\ x.on = current /\ x.step = "queued" /\ x \in ChannelOp
    <3>1. current \in 0..MaxConnections
      BY DEF FrameInv, GapInv, Channel
    <3> QED
      BY <3>1 DEF Operation, ChannelOp
  <2>2. /\ Len(queue') = Len(queue) + 1 /\ Len(queue) \in Nat
        /\ \A n \in 1..Len(queue) : queue'[n] = queue[n] /\ queue[n].on \in Nat
        /\ queue'[Len(queue) + 1] = x
    <3>1. queue' = Append(queue, x) /\ queue \in Seq(ChannelOp)
      BY <1>2, <1>5 DEF Replay, FrameInv, GapInv, Channel
    <3>2. \A n \in 1..Len(queue) : queue[n].on \in Nat
      <4>1. \A n \in 1..Len(queue) : queue[n] \in ChannelOp
        BY <3>1
      <4> QED
        BY <4>1 DEF ChannelOp
    <3> QED
      BY <2>1, <3>1, <3>2, QueueJoined
  <2>3. \A n \in 1..Len(queue') : n \in 1..Len(queue) \/ n = Len(queue) + 1
    BY <2>2
  <2>4. \A n \in 1..Len(queue) : n = 1 => queue[n].step # "queued"
    <3>1. queue # <<>> => Head(queue) = queue[1]
      OBVIOUS
    <3>2. \A n \in 1..Len(queue) : queue # <<>>
      OBVIOUS
    <3> QED
      BY <1>2, <3>1, <3>2 DEF Begun
  <2>5. OneSubscription'
    <3>1. ASSUME NEW n \in 1..Len(queue'), queue'[n].op \in {"subscribe", "attach"}
          PROVE  n = 1 /\ queue'[n].step # "queued"
      <4>1. n \in 1..Len(queue) /\ queue'[n] = queue[n]
        BY <2>1, <2>2, <2>3, <3>1
      <4>2. n = 1
        BY <3>1, <4>1 DEF FrameInv, OneSubscription
      <4> QED
        BY <2>4, <4>1, <4>2
    <3>2. calls' # 0 /\ calls' \in 0..MaxCalls
      BY <1>2, <1>5 DEF FrameInv, OneSubscription
    <3> QED
      BY <3>1, <3>2 DEF OneSubscription
  <2>6. InOrder'
    <3>1. active \in Nat /\ current \in Nat /\ active <= current
      BY DEF FrameInv, GapInv, Channel, InOrder
    <3>2. ASSUME NEW n \in 1..Len(queue'), queue'[n].op = "replay"
          PROVE  /\ active' <= queue'[n].on
                 /\ \A m \in 1..(n - 1) :
                      queue'[m].op = "replay" \/ queue'[m].step # "queued" =>
                        queue'[m].on <= queue'[n].on
      <4>1. CASE n \in 1..Len(queue)
        <5>1. \A m \in 1..(n - 1) : m \in 1..Len(queue) /\ queue'[m] = queue[m]
          BY <2>2, <4>1
        <5> QED
          BY <1>2, <1>5, <2>2, <3>2, <4>1, <5>1 DEF FrameInv, InOrder
      <4>2. CASE n = Len(queue) + 1
        <5>1. \A m \in 1..(n - 1) : m \in 1..Len(queue) /\ queue'[m] = queue[m]
          BY <2>2, <4>2
        <5> QED
          BY <1>2, <2>1, <2>2, <3>1, <4>2, <5>1 DEF FrameInv, InOrder
      <4> QED
        BY <2>3, <4>1, <4>2
    <3>3. ASSUME NEW n \in 1..Len(queue')
          PROVE  /\ queue'[n].on <= current'
                 /\ queue'[n].step # "queued" => active' <= queue'[n].on
                 /\ queue'[n].step = "subscribing" => active' = 0
      BY <1>2, <2>1, <2>2, <2>3, <3>1 DEF FrameInv, InOrder
    <3> QED
      BY <1>2, <3>1, <3>2, <3>3 DEF InOrder
  <2> QED
    BY <1>1, <1>3, <2>5, <2>6 DEF FrameInv
<1> QED
  BY <1>4, <1>5

LEMMA FrameConnections ==
    ASSUME RedisAssumption, FrameInv,
           \/ OpenRole /\ (ConnectRedis \/ Replace)
           \/ ConnectFails \/ Drop \/ Close
           \/ \E g \in 1..MaxConnections : ReconnectsSilently(g) \/ Retire(g)
    PROVE  FrameInv'
<1>1. GapInv'
  BY GapStep DEF RedisNext, FrameInv
<1>2. current \in Nat /\ active \in Nat /\ current \in 0..MaxConnections
  BY DEF FrameInv, GapInv, Channel
<1>3. Channel'
  BY <1>1 DEF GapInv
<1>4. CASE OpenRole
  <2>1. OneSubscription' /\ InOrder'
    <3>1. UNCHANGED <<queue, calls, wanted>> /\ current' = current + 1 /\ active' = 0
      BY <1>4 DEF OpenRole
    <3> QED
      BY <1>2, <1>3, <3>1, OrderStands
  <2>2. Remembered'
    <3>1. current' \in 1..MaxConnections /\ current' > current /\ active' = 0
      BY <1>2, <1>4 DEF OpenRole, RedisAssumption
    <3>2. conns'[current'] = Down
      BY <1>4, <3>1 DEF OpenRole, FrameInv, GapInv, Served
    <3> QED
      BY <3>1, <3>2 DEF Remembered, Down
  <2> QED
    BY <1>1, <2>1, <2>2 DEF FrameInv
<1>5. CASE ConnectFails \/ Drop
  <2>1. UNCHANGED <<queue, calls, wanted, current, active, closed>>
    BY <1>5 DEF ConnectFails, Drop
  <2>2. OneSubscription' /\ InOrder'
    BY <1>2, <1>3, <2>1, OrderStands
  <2>3. current # 0 => conns'[current].ears = conns[current].ears
    BY <1>2, <1>5 DEF ConnectFails, Drop, FrameInv, GapInv, Channel, Link
  <2>4. Remembered'
    BY <2>1, <2>3 DEF FrameInv, Remembered
  <2> QED
    BY <1>1, <2>2, <2>4 DEF FrameInv
<1>6. CASE Close
  <2>1. UNCHANGED <<queue, calls, current>> /\ active' = 0 /\ ~wanted' /\ closed'
    BY <1>6 DEF Close
  <2>2. OneSubscription' /\ InOrder'
    BY <1>2, <1>3, <2>1, OrderStands
  <2> QED
    BY <1>1, <2>1, <2>2 DEF FrameInv, Remembered
<1>7. ASSUME NEW g \in 1..MaxConnections, Retire(g)
      PROVE  FrameInv'
  <2>1. UNCHANGED <<queue, calls, wanted, current, active, closed>>
    BY <1>7 DEF Retire, GivenUp
  <2>2. OneSubscription' /\ InOrder'
    BY <1>2, <1>3, <2>1, OrderStands
  <2>3. Remembered'
    BY <1>2, <1>7, <2>1 DEF Retire, GivenUp, FrameInv, GapInv, Channel, Remembered
  <2> QED
    BY <1>1, <2>2, <2>3 DEF FrameInv
<1>8. ASSUME NEW g \in 1..MaxConnections, ReconnectsSilently(g)
      PROVE  FrameInv'
  <2>1. UNCHANGED <<queue, calls, wanted, current, active, closed>>
    BY <1>8 DEF ReconnectsSilently, Book
  <2>2. OneSubscription' /\ InOrder'
    BY <1>2, <1>3, <2>1, OrderStands
  <2>3. current # 0 => conns'[current].ears = conns[current].ears
    BY <1>2, <1>8 DEF ReconnectsSilently, FrameInv, GapInv, Channel, Link
  <2>4. Remembered'
    BY <2>1, <2>3 DEF FrameInv, Remembered
  <2> QED
    BY <1>1, <2>2, <2>4 DEF FrameInv
<1> QED
  BY <1>4, <1>5, <1>6, <1>7, <1>8

\* What is known of the operation at the head of the queue.
LEMMA FrameHead ==
    ASSUME FrameInv, queue # <<>>
    PROVE  /\ Head(queue) = queue[1] /\ 1 \in 1..Len(queue) /\ Len(queue) \in Nat \ {0}
           /\ queue[1] \in ChannelOp
           /\ \A m \in 2..Len(queue) : m \in 1..Len(queue) /\ 1 \in 1..(m - 1)
           /\ current \in Nat /\ active \in Nat /\ active <= current
           /\ queue[1].on <= current
           /\ wanted => \A m \in 2..Len(queue) :
                queue[m].op = "replay" => active <= queue[m].on
           /\ wanted /\ (queue[1].op = "replay" \/ queue[1].step # "queued") =>
                \A m \in 2..Len(queue) :
                  queue[m].op = "replay" => queue[1].on <= queue[m].on
           /\ wanted /\ queue[1].op = "replay" => active <= queue[1].on
           /\ queue[1].step # "queued" =>
                queue[1].on \in 1..MaxConnections /\ active <= queue[1].on
           /\ queue[1].op = "replay" => queue[1].on \in 1..MaxConnections
           /\ queue[1].step = "subscribing" => active = 0
<1>1. /\ Head(queue) = queue[1] /\ 1 \in 1..Len(queue) /\ queue[1] \in ChannelOp
      /\ Len(queue) \in Nat \ {0}
  <2>1. queue \in Seq(ChannelOp)
    BY DEF FrameInv, GapInv, Channel
  <2>2. Len(queue) \in Nat \ {0}
    BY <2>1
  <2> QED
    BY <2>1, <2>2, QueueHead
<1>2. \A m \in 2..Len(queue) : m \in 1..Len(queue) /\ 1 \in 1..(m - 1)
  BY <1>1
<1>3. current \in Nat /\ active \in Nat
  BY DEF FrameInv, GapInv, Channel
<1>4. queue[1].step # "queued" \/ queue[1].op = "replay" => queue[1].on \in 1..MaxConnections
  BY <1>1 DEF FrameInv, GapInv, InTurn, ChannelOp
<1> QED
  BY <1>1, <1>2, <1>3, <1>4 DEF FrameInv, InOrder

LEMMA FrameAttach ==
    ASSUME RedisAssumption, FrameInv, BeginAttach \/ Reattach
    PROVE  FrameInv'
<1>1. GapInv'
  BY GapStep DEF RedisNext, RunOperation, FrameInv
<1>2. Channel' /\ InTurn'
  BY <1>1 DEF GapInv
<1>3. CASE BeginAttach
  <2>1. queue # <<>> /\ UNCHANGED <<calls, current, active, conns, closed>>
    BY <1>3 DEF BeginAttach
  <2>2. \A m \in 2..Len(queue) : queue[m].op = "unsubscribe"
    BY <1>3, <2>1, FrameHead DEF BeginAttach, FrameInv, OneSubscription
  <2>3. OneSubscription' /\ InOrder'
    <3>1. CASE Usable /\ active = 0
      <4>1. Await("subscribing", current) /\ current \in 1..MaxConnections /\ current \in Nat
        BY <1>3, <3>1 DEF BeginAttach, AttachListener, Usable, FrameInv, GapInv, Channel
      <4> QED
        BY <1>2, <2>1, <2>2, <3>1, <4>1, OrderAwaited
    <3>2. CASE ~(Usable /\ active = 0)
      <4>1. Finish
        BY <1>3, <3>2 DEF BeginAttach, AttachListener
      <4>2. active' <= current
        BY <2>1 DEF FrameInv, InOrder
      <4> QED
        BY <1>2, <2>1, <2>2, <4>1, <4>2, OrderFinished
    <3> QED
      BY <3>1, <3>2
  <2>4. Remembered'
    BY <2>1 DEF FrameInv, Remembered
  <2> QED
    BY <1>1, <2>3, <2>4 DEF FrameInv
<1>4. CASE Reattach
  <2>1. /\ Len(queue') = 1 /\ queue'[1].op = "attach" /\ queue'[1].step = "queued"
        /\ queue'[1].on = 0
    BY <1>4 DEF Reattach, Operation
  <2>2. UNCHANGED <<calls, current, active, conns, closed, wanted>> /\ wanted
    BY <1>4 DEF Reattach, Reattachable, Book
  <2>3. OneSubscription'
    BY <2>1, <2>2 DEF FrameInv, OneSubscription
  <2>4. InOrder'
    <3>1. current \in Nat
      BY DEF FrameInv, GapInv, Channel
    <3> QED
      BY <2>1, <2>2, <3>1 DEF FrameInv, InOrder
  <2>5. Remembered'
    BY <2>2 DEF FrameInv, Remembered
  <2> QED
    BY <1>1, <2>3, <2>4, <2>5 DEF FrameInv
<1> QED
  BY <1>3, <1>4

LEMMA FrameBegins ==
    ASSUME RedisAssumption, FrameInv, BeginUnsubscribe \/ BeginReplay
    PROVE  FrameInv'
<1>1. GapInv'
  BY GapStep DEF RedisNext, RunOperation, FrameInv
<1>2. Channel' /\ InTurn'
  BY <1>1 DEF GapInv
<1>3. queue # <<>> /\ UNCHANGED <<calls, current, active, conns, closed>>
  BY DEF BeginUnsubscribe, BeginReplay, Book
<1>4. Remembered'
  BY <1>3 DEF FrameInv, Remembered
<1>5. active' <= current /\ active' \in {0, active}
  BY <1>3, FrameHead
<1>6. CASE BeginUnsubscribe
  <2>1. ~wanted'
    BY <1>6 DEF BeginUnsubscribe
  <2>2. ASSUME Finish
        PROVE  OneSubscription' /\ InOrder'
    BY <1>2, <1>3, <1>5, <2>1, <2>2, OrderFinished
  <2>3. ASSUME Usable, Await("dropping", current)
        PROVE  OneSubscription' /\ InOrder'
    <3>1. current \in 1..MaxConnections /\ current <= current
      BY <2>3 DEF Usable, FrameInv, GapInv, Channel
    <3> QED
      BY <1>2, <1>3, <1>5, <2>1, <2>3, <3>1, OrderAwaited
  <2>4. Finish \/ (Usable /\ Await("dropping", current))
    BY <1>6 DEF BeginUnsubscribe
  <2>5. OneSubscription' /\ InOrder'
    BY <2>2, <2>3, <2>4
  <2> QED
    BY <1>1, <1>4, <2>5 DEF FrameInv
<1>7. CASE BeginReplay
  <2>1. UNCHANGED wanted /\ queue[1].op = "replay" /\ Head(queue) = queue[1]
    BY <1>3, <1>7, FrameHead DEF BeginReplay, Book
  <2>2. CASE ~wanted
    <3>1. Finish
      BY <1>7, <2>2 DEF BeginReplay
    <3>2. OneSubscription' /\ InOrder'
      BY <1>2, <1>3, <1>5, <2>1, <2>2, <3>1, OrderFinished
    <3> QED
      BY <1>1, <1>4, <3>2 DEF FrameInv
  <2>3. CASE wanted
    <3> PICK g : g = queue[1].on
      OBVIOUS
    <3> PICK s : s = IF RemovesListener THEN "dropping" ELSE "subscribing"
      OBVIOUS
    <3>1. Await(s, g) /\ s \in {"dropping", "subscribing"}
      BY <1>7, <2>1, <2>3 DEF BeginReplay
    <3>2. g \in 1..MaxConnections /\ g <= current /\ active' <= g
      BY <1>3, <2>1, <2>3, FrameHead
    <3>3. \A m \in 2..Len(queue) : queue[m].op = "replay" => g <= queue[m].on
      BY <1>3, <2>1, <2>3, FrameHead
    <3>4. s = "subscribing" => active' = 0
      BY <1>3 DEF RemovesListener
    <3>5. OneSubscription' /\ InOrder'
      BY <1>2, <1>3, <1>5, <2>3, <3>1, <3>2, <3>3, <3>4, OrderAwaited
    <3> QED
      BY <1>1, <1>4, <3>5 DEF FrameInv
  <2> QED
    BY <2>2, <2>3
<1> QED
  BY <1>6, <1>7

LEMMA FrameAnswers ==
    ASSUME RedisAssumption, FrameInv, Dropped \/ Subscribed \/ Rejected
    PROVE  FrameInv'
<1>1. GapInv'
  BY GapStep DEF RedisNext, RunOperation, FrameInv
<1>2. Channel' /\ InTurn'
  BY <1>1 DEF GapInv
<1>3. queue # <<>> /\ UNCHANGED <<calls, current, wanted, closed>>
  BY DEF Dropped, Subscribed, Rejected, Book
<1> PICK c : c = queue[1]
  OBVIOUS
<1>4. /\ Head(queue) = c /\ c \in ChannelOp /\ c.step # "queued"
      /\ c.on \in 1..MaxConnections /\ c.on <= current /\ active <= c.on
      /\ current \in Nat /\ active \in Nat /\ active <= current
      /\ c.step = "subscribing" => active = 0
      /\ wanted => \A m \in 2..Len(queue) : queue[m].op = "replay" =>
           active <= queue[m].on /\ c.on <= queue[m].on
  <2>1. Head(queue) = c
    BY <1>3, FrameHead
  <2>2. c.step # "queued"
    BY <2>1 DEF Dropped, Subscribed, Rejected
  <2> QED
    BY <1>3, <2>1, <2>2, FrameHead
<1>5. \A m \in 2..Len(queue) : queue[m].on \in Nat
  <2>1. \A m \in 2..Len(queue) : queue[m] \in ChannelOp
    BY <1>3, FrameHead DEF FrameInv, GapInv, Channel
  <2> QED
    BY <2>1 DEF ChannelOp
<1>6. current # 0 => current \in 1..MaxConnections /\ conns[current] \in Link
  BY DEF FrameInv, GapInv, Channel
<1>7. CASE Dropped
  <2>1. active' = 0 /\ conns' = [conns EXCEPT ![c.on] = Without(c.on)]
    BY <1>4, <1>7 DEF Dropped
  <2>2. OneSubscription' /\ InOrder'
    <3>1. CASE Finish
      <4>1. wanted' => \A m \in 2..Len(queue) : queue[m].op = "replay" => active' <= queue[m].on
        BY <1>5, <2>1
      <4> QED
        BY <1>2, <1>3, <1>4, <2>1, <3>1, <4>1, OrderFinished
    <3>2. CASE Await("subscribing", c.on)
      BY <1>2, <1>3, <1>4, <2>1, <3>2, OrderAwaited
    <3> QED
      BY <1>4, <1>7, <3>1, <3>2 DEF Dropped
  <2>3. Remembered'
    <3> SUFFICES ASSUME ~closed, current # 0
                 PROVE  conns'[current].ears = 0
      BY <1>3, <2>1 DEF Remembered
    <3>1. conns[current].ears = IF active = current THEN 1 ELSE 0
      BY DEF FrameInv, Remembered
    <3>2. CASE active = current
      <4>1. c.on = current
        BY <1>4, <3>2
      <4>2. Without(current).ears = 0
        BY <1>6, <3>1, <3>2 DEF Without, Link
      <4> HIDE DEF Without
      <4> QED
        BY <1>6, <2>1, <4>1, <4>2 DEF FrameInv, GapInv, Channel
    <3>3. CASE active # current
      <4>1. c.on = current => Without(c.on) = conns[current]
        BY <3>3 DEF Without
      <4> HIDE DEF Without
      <4> QED
        BY <1>4, <1>6, <2>1, <3>1, <3>3, <4>1 DEF FrameInv, GapInv, Channel
    <3> QED
      BY <3>2, <3>3
  <2> QED
    BY <1>1, <2>2, <2>3 DEF FrameInv
<1>8. CASE Subscribed
  <2>1. /\ active' = c.on /\ Finish /\ active = 0
        /\ conns' = [conns EXCEPT ![c.on].ears = @ + 1, ![c.on].served = TRUE]
    BY <1>4, <1>8 DEF Subscribed
  <2>2. OneSubscription' /\ InOrder'
    BY <1>2, <1>3, <1>4, <2>1, OrderFinished
  <2>3. Remembered'
    <3> SUFFICES ASSUME ~closed, current # 0
                 PROVE  conns'[current].ears = (IF c.on = current THEN 1 ELSE 0)
      BY <1>3, <2>1 DEF Remembered
    <3>1. conns[current].ears = 0
      BY <2>1 DEF FrameInv, Remembered
    <3>2. CASE c.on = current
      BY <1>4, <1>6, <2>1, <3>1, <3>2 DEF FrameInv, GapInv, Channel, Link
    <3>3. CASE c.on # current
      BY <1>4, <1>6, <2>1, <3>1, <3>3 DEF FrameInv, GapInv, Channel
    <3> QED
      BY <3>2, <3>3
  <2> QED
    BY <1>1, <2>2, <2>3 DEF FrameInv
<1>9. CASE Rejected
  <2>1. Finish /\ UNCHANGED <<conns, active>>
    BY <1>9 DEF Rejected
  <2>2. OneSubscription' /\ InOrder'
    BY <1>2, <1>3, <1>4, <2>1, OrderFinished
  <2>3. Remembered'
    BY <1>3, <2>1 DEF FrameInv, Remembered
  <2> QED
    BY <1>1, <2>2, <2>3 DEF FrameInv
<1> QED
  BY <1>7, <1>8, <1>9

LEMMA FrameStep ==
    ASSUME RedisAssumption, MaxCalls <= 2, FrameInv, [RedisNext]_rvars
    PROVE  FrameInv'
<1>1. CASE Call
  BY <1>1, FrameCall
<1>2. CASE ConnectSucceeds \/ ReconnectsItself
  BY <1>2, FrameComesUp
<1>3. CASE \/ ConnectRedis \/ Replace \/ ConnectFails \/ Drop \/ Close
           \/ \E g \in 1..MaxConnections : ReconnectsSilently(g) \/ Retire(g)
  BY <1>3, FrameConnections DEF ConnectRedis, Replace
<1>4. CASE BeginAttach \/ Reattach
  BY <1>4, FrameAttach
<1>5. CASE BeginUnsubscribe \/ BeginReplay
  BY <1>5, FrameBegins
<1>6. CASE Dropped \/ Subscribed \/ Rejected
  BY <1>6, FrameAnswers
<1>7. CASE UNCHANGED rvars
  <2>1. GapInv'
    BY GapStep DEF FrameInv
  <2> QED
    BY <1>7, <2>1 DEF rvars, FrameInv, OneSubscription, InOrder, Remembered
<1> QED
  BY <1>1, <1>2, <1>3, <1>4, <1>5, <1>6, <1>7 DEF RedisNext, RunOperation

\* A handler that subscribes once and unsubscribes once, as the adapter does,
\* gets every frame once or is told that it may have missed some, whatever
\* becomes of the connections, but for those being retired (which repeat
\* frames) and those restored silently (which tell nothing). (The bound is the adapter's: a subscription
\* made anew after an unsubscription may find an old replay before it.)
THEOREM FramesReachTheHandler ==
    ASSUME MaxCalls <= 2
    PROVE  RedisSpec => []FramesAccountedFor
<1>1. RedisInit => FrameInv
  BY FrameInit, RedisAssumption
<1>2. FrameInv /\ [RedisNext]_rvars => FrameInv'
  BY FrameStep, RedisAssumption
<1>3. FrameInv => FramesAccountedFor
  <2>1. ASSUME FrameInv, queue = <<>>, ~suspect, NEW g \in 1..MaxConnections,
               \A h \in 1..MaxConnections : ~GivenUp(h), Copies(g) # 0
        PROVE  g = current /\ Copies(g) = 1
    <3>1. conns[g].up /\ Copies(g) = conns[g].ears
      BY <2>1 DEF Copies
    <3>2. conns[g] # Down /\ ~(g < current \/ closed)
      BY <2>1, <3>1 DEF GivenUp, Down
    <3>3. g = current /\ current # 0
      BY <2>1, <3>2 DEF FrameInv, GapInv, Channel, Served
    <3> QED
      BY <2>1, <3>1, <3>2, <3>3 DEF FrameInv, Remembered
  <2>2. FrameInv => EachFrameOnce
    BY <2>1 DEF EachFrameOnce
  <2>3. FrameInv => GapsAreAnnounced
    BY DEF FrameInv, GapInv, OwedInGap, GapsAreAnnounced
  <2> QED
    BY <2>2, <2>3 DEF FramesAccountedFor
<1> QED
  BY <1>1, <1>2, <1>3, PTL DEF RedisSpec

(***************************************************************************)
(* Presence.                                                               *)
(***************************************************************************)
Script ==
    {c \in [op : {"hold", "release"}, why : {"arrival", "beat", "left", "stop"},
            fresh : BOOLEAN, cold : BOOLEAN, body : BOOLEAN] :
       c.op = "hold" <=> c.why \in {"arrival", "beat"}}

Leases ==
    /\ conn \in [Instance -> SUBSET Socket] /\ grace \subseteq Instance
    /\ life \in [Instance -> {"up", "stopping", "gone"}]
    /\ raced \in BOOLEAN /\ overtaken \subseteq Instance
    /\ leases \subseteq Instance
    /\ pipe \in [Instance -> Seq(Script)]
    /\ news \in [Instance -> [Status -> Nat]]
    /\ shown \in Status
    /\ faults \in Nat

\* What the last command of a pipe is for, or the lease where all are answered:
\* whether the instance holds the user.
Holds(i) == IF Len(pipe[i]) = 0 THEN i \in leases
            ELSE pipe[i][Len(pipe[i])].op = "hold"

Followed ==
    /\ stale = {}
    /\ \A i \in Instance \ overtaken : Holds(i) <=> Held(i)
    /\ ~graceful => grace = {}
    /\ \A i \in Instance : life[i] # "up" => ~Held(i)

\* A beat goes out when nothing else is under way, and only holds are sent again
\* before it, so the lease is there when Redis runs it.
BeatsFirst ==
    \A i \in Instance \ overtaken : \A n \in 1..Len(pipe[i]) :
      pipe[i][n].why = "beat" =>
        i \in leases /\ \A m \in 1..n : pipe[i][m].op = "hold"

\* At most one announcement is under way, and it is what the leases say; with
\* none under way it has been made.
OneAnnouncement ==
    ~raced =>
      /\ \A i, j \in Instance, s, t \in Status :
           news[i][s] > 0 /\ news[j][t] > 0 => i = j /\ s = t
      /\ \A i \in Instance, s \in Status :
           news[i][s] > 0 => news[i][s] = 1 /\ (s = "online" <=> leases # {})
      /\ (\A i \in Instance : news[i] = Quiet) =>
           (shown = "online" <=> leases # {})

PresInv ==
    /\ Leases
    /\ faults = 0 => Followed /\ BeatsFirst
    /\ faults = 0 /\ overtaken = {} => OneAnnouncement

LEMMA PipeGrown ==
    ASSUME Leases, NEW i \in Instance, NEW c \in Script, Send(i, c)
    PROVE  /\ pipe' \in [Instance -> Seq(Script)]
           /\ pipe[i] \in Seq(Script) /\ Len(pipe[i]) \in Nat
           /\ pipe'[i] # <<>> /\ Len(pipe'[i]) = Len(pipe[i]) + 1
           /\ pipe'[i][Len(pipe[i]) + 1] = c
           /\ \A n \in 1..Len(pipe[i]) : pipe'[i][n] = pipe[i][n]
           /\ \A j \in Instance : j # i => pipe'[j] = pipe[j]
<1> PICK q : q = pipe[i]
  OBVIOUS
<1>1. q \in Seq(Script) /\ Len(q) \in Nat
  BY DEF Leases
<1>2. /\ Append(q, c) \in Seq(Script) /\ Append(q, c) # <<>>
      /\ Len(Append(q, c)) = Len(q) + 1 /\ Append(q, c)[Len(q) + 1] = c
      /\ \A n \in 1..Len(q) : Append(q, c)[n] = q[n]
  BY <1>1
<1>3. pipe' = [pipe EXCEPT ![i] = Append(q, c)]
  BY DEF Send
<1> QED
  BY <1>1, <1>2, <1>3 DEF Leases

LEMMA PipeCut ==
    ASSUME Leases, NEW i \in Instance, pipe[i] # <<>>,
           pipe' = [pipe EXCEPT ![i] = Tail(@)]
    PROVE  /\ pipe' \in [Instance -> Seq(Script)]
           /\ Head(pipe[i]) = pipe[i][1] /\ pipe[i][1] \in Script
           /\ Len(pipe[i]) \in Nat \ {0} /\ Len(pipe'[i]) = Len(pipe[i]) - 1
           /\ \A n \in 1..Len(pipe'[i]) : pipe'[i][n] = pipe[i][n + 1]
           /\ \A j \in Instance : j # i => pipe'[j] = pipe[j]
<1> PICK q : q = pipe[i]
  OBVIOUS
<1>1. q \in Seq(Script) /\ q # <<>>
  BY DEF Leases
<1>2. Len(q) \in Nat \ {0} /\ Head(q) = q[1] /\ q[1] \in Script
  BY <1>1
<1>4. /\ Tail(q) \in Seq(Script) /\ Len(Tail(q)) = Len(q) - 1
      /\ \A n \in 1..Len(Tail(q)) : Tail(q)[n] = q[n + 1]
  BY <1>1
<1>3. pipe' = [pipe EXCEPT ![i] = Tail(q)]
  OBVIOUS
<1> QED
  BY <1>2, <1>3, <1>4 DEF Leases

\* A command joins a pipe, and nothing is announced.
LEMMA Sent ==
    ASSUME PresInv, NEW i \in Instance, NEW c \in Script, Send(i, c),
           UNCHANGED <<leases, stale, news, shown, raced, overtaken, faults>>,
           conn' \in [Instance -> SUBSET Socket], grace' \subseteq Instance,
           life' \in [Instance -> {"up", "stopping", "gone"}],
           c.op = "hold" <=> Held(i)',
           \A j \in Instance : j # i => (Held(j)' <=> Held(j)),
           UNCHANGED graceful, graceful \/ grace' \subseteq grace,
           \A j \in Instance : life'[j] # "up" =>
             ~Held(j)' \/ (life[j] # "up" /\ Held(j)),
           c.why = "beat" =>
             pipe[i] = <<>> /\ (faults = 0 /\ i \notin overtaken => i \in leases)
    PROVE  PresInv'
<1>0. /\ pipe' \in [Instance -> Seq(Script)] /\ Len(pipe[i]) \in Nat
      /\ Len(pipe'[i]) = Len(pipe[i]) + 1
      /\ pipe'[i][Len(pipe[i]) + 1] = c
      /\ \A n \in 1..Len(pipe[i]) : pipe'[i][n] = pipe[i][n]
      /\ \A j \in Instance : j # i => pipe'[j] = pipe[j]
  BY PipeGrown DEF PresInv
<1>1. Leases'
  BY <1>0 DEF PresInv, Leases
<1>2. ASSUME faults = 0
      PROVE  Followed' /\ BeatsFirst'
  <2>1. Followed'
    <3>1. Holds(i)' <=> Held(i)'
      BY <1>0 DEF Holds
    <3>2. ASSUME NEW j \in Instance \ overtaken, j # i
          PROVE  Holds(j)' <=> Held(j)'
      <4>1. Holds(j)' <=> Holds(j)
        BY <1>0, <3>2 DEF Holds
      <4> QED
        BY <1>2, <3>2, <4>1 DEF PresInv, Followed
    <3>3. \A j \in Instance : life'[j] # "up" => ~Held(j)'
      BY <1>2 DEF PresInv, Followed
    <3>4. (~graceful' => grace' = {}) /\ stale' = {}
      BY <1>2 DEF PresInv, Followed
    <3> QED
      BY <3>1, <3>2, <3>3, <3>4 DEF Followed
  <2>2. BeatsFirst'
    <3>1. ASSUME NEW j \in Instance \ overtaken, NEW n \in 1..Len(pipe'[j]),
                 pipe'[j][n].why = "beat"
          PROVE  j \in leases' /\ \A m \in 1..n : pipe'[j][m].op = "hold"
      <4>1. CASE j # i
        BY <1>0, <1>2, <3>1, <4>1 DEF PresInv, BeatsFirst
      <4>2. CASE j = i /\ n \in 1..Len(pipe[i])
        <5>1. \A m \in 1..n : m \in 1..Len(pipe[i]) /\ pipe'[i][m] = pipe[i][m]
          BY <1>0, <4>2
        <5>2. pipe[i][n].why = "beat"
          BY <1>0, <3>1, <4>2
        <5>3. i \in leases /\ \A m \in 1..n : pipe[i][m].op = "hold"
          BY <1>2, <3>1, <4>2, <5>2 DEF PresInv, BeatsFirst
        <5> QED
          BY <4>2, <5>1, <5>3
      <4>3. CASE j = i /\ n = Len(pipe[i]) + 1
        <5>1. pipe[i] = <<>> /\ i \in leases /\ c.op = "hold"
          BY <1>0, <1>2, <3>1, <4>3 DEF PresInv, Script
        <5>2. Len(pipe[i]) = 0
          BY <5>1
        <5> QED
          BY <1>0, <4>3, <5>1, <5>2
      <4> QED
        BY <1>0, <4>1, <4>2, <4>3
    <3> QED
      BY <3>1 DEF BeatsFirst
  <2> QED
    BY <2>1, <2>2
<1>3. faults = 0 /\ overtaken = {} => OneAnnouncement'
  BY DEF PresInv, OneAnnouncement
<1> QED
  BY <1>1, <1>2, <1>3 DEF PresInv

\* Nothing is sent and nothing announced.
LEMMA NothingSent ==
    ASSUME PresInv, UNCHANGED <<pipe, leases, stale, news, shown, raced, overtaken, faults>>,
           conn' \in [Instance -> SUBSET Socket], grace' \subseteq Instance,
           life' \in [Instance -> {"up", "stopping", "gone"}],
           \A j \in Instance : Held(j)' <=> Held(j),
           UNCHANGED graceful, graceful \/ grace' \subseteq grace,
           \A j \in Instance : life'[j] # "up" =>
             ~Held(j)' \/ (life[j] # "up" /\ Held(j))
    PROVE  PresInv'
<1>1. Leases'
  BY DEF PresInv, Leases
<1>2. ASSUME faults = 0
      PROVE  Followed' /\ BeatsFirst'
  <2>1. BeatsFirst'
    BY <1>2 DEF PresInv, BeatsFirst
  <2>2. Followed'
    BY <1>2 DEF PresInv, Followed, Holds
  <2> QED
    BY <2>1, <2>2
<1>3. faults = 0 /\ overtaken = {} => OneAnnouncement'
  BY DEF PresInv, OneAnnouncement
<1> QED
  BY <1>1, <1>2, <1>3 DEF PresInv

LEMMA ToldTypes ==
    ASSUME Leases, NEW i \in Instance, Tell(i, "online") \/ Tell(i, "offline") \/ Untold
    PROVE  news' \in [Instance -> [Status -> Nat]] /\ raced' \in BOOLEAN
<1>1. ASSUME NEW s \in Status, Tell(i, s)
      PROVE  news' \in [Instance -> [Status -> Nat]] /\ raced' \in BOOLEAN
  <2>1. news[i] \in [Status -> Nat] /\ news[i][s] + 1 \in Nat
    BY DEF Leases
  <2>2. [news[i] EXCEPT ![s] = @ + 1] \in [Status -> Nat]
    BY <2>1
  <2>3. news' = [news EXCEPT ![i] = [news[i] EXCEPT ![s] = @ + 1]]
    BY <1>1 DEF Tell
  <2>4. raced' \in BOOLEAN
    BY <1>1 DEF Tell
  <2> QED
    BY <2>2, <2>3, <2>4 DEF Leases
<1>2. "online" \in Status /\ "offline" \in Status
  BY DEF Status
<1>3. CASE Untold
  BY <1>3 DEF Untold, Leases
<1> QED
  BY <1>1, <1>2, <1>3

LEMMA ScriptMade ==
    ASSUME NEW op \in {"hold", "release"},
           NEW why \in {"arrival", "beat", "left", "stop"}, NEW f \in BOOLEAN,
           op = "hold" <=> why \in {"arrival", "beat"}
    PROVE  /\ Command(op, why, f) \in Script
           /\ Command(op, why, f).op = op /\ Command(op, why, f).why = why
  BY DEF Command, Script

LEMMA Arrives ==
    ASSUME PresInv, NEW i \in Instance, NEW s \in Socket, TrackConnection(i, s)
    PROVE  PresInv'
<1> PICK f : f = (conn[i] = {} /\ i \notin grace)
  OBVIOUS
<1>1. f \in BOOLEAN
  OBVIOUS
<1> PICK c : c = Command("hold", "arrival", f)
  OBVIOUS
<1>2. c \in Script /\ c.op = "hold" /\ c.why = "arrival"
  BY <1>1, ScriptMade
<1>3. Send(i, c)
  BY DEF TrackConnection
<1>4. /\ conn' = [conn EXCEPT ![i] = @ \cup {s}] /\ grace' = grace \ {i}
      /\ life[i] = "up"
      /\ UNCHANGED <<life, graceful, leases, stale, news, shown, raced, overtaken, faults>>
  BY DEF TrackConnection
<1>5. /\ conn' \in [Instance -> SUBSET Socket] /\ s \in conn'[i]
      /\ \A j \in Instance : j # i => conn'[j] = conn[j]
  BY <1>4 DEF PresInv, Leases
<1>6. Held(i)' /\ \A j \in Instance : j # i => (Held(j)' <=> Held(j))
  BY <1>4, <1>5 DEF Held
<1> QED
  BY <1>2, <1>3, <1>4, <1>5, <1>6, Sent DEF PresInv, Leases

LEMMA Leaves ==
    ASSUME PresInv, NEW i \in Instance, NEW s \in Socket, TrackDisconnection(i, s)
    PROVE  PresInv'
<1> PICK c : c = Command("release", "left", FALSE)
  OBVIOUS
<1>1. c \in Script /\ c.op = "release" /\ c.why = "left"
  BY ScriptMade
<1>2. /\ conn' = [conn EXCEPT ![i] = @ \ {s}] /\ s \in conn[i]
      /\ UNCHANGED <<life, graceful, leases, stale, news, shown, raced, overtaken, faults>>
  BY DEF TrackDisconnection
<1>3. /\ conn' \in [Instance -> SUBSET Socket] /\ conn'[i] = conn[i] \ {s}
      /\ \A j \in Instance : j # i => conn'[j] = conn[j]
      /\ life \in [Instance -> {"up", "stopping", "gone"}] /\ grace \subseteq Instance
  BY <1>2 DEF PresInv, Leases
<1>4. Held(i)
  BY <1>2 DEF Held
<1>5. CASE conn[i] # {s}
  <2>1. UNCHANGED <<grace, pipe>>
    BY <1>5 DEF TrackDisconnection, LastSocket
  <2>2. \A j \in Instance : Held(j)' <=> Held(j)
    BY <1>2, <1>3, <1>5, <2>1 DEF Held
  <2> QED
    BY <1>2, <1>3, <1>4, <2>1, <2>2, NothingSent
<1>6. CASE conn[i] = {s} /\ graceful
  <2>1. grace' = grace \cup {i} /\ UNCHANGED pipe
    BY <1>6 DEF TrackDisconnection, LastSocket
  <2>2. \A j \in Instance : Held(j)' <=> Held(j)
    BY <1>2, <1>3, <1>4, <2>1 DEF Held
  <2> QED
    BY <1>2, <1>3, <1>6, <2>1, <2>2, NothingSent
<1>7. CASE conn[i] = {s} /\ ~graceful
  <2>1. Send(i, c) /\ UNCHANGED grace
    BY <1>7 DEF TrackDisconnection, LastSocket
  <2>2. \A j \in Instance : j # i => (Held(j)' <=> Held(j))
    BY <1>3, <2>1 DEF Held
  <2>3. CASE i \in grace
    <3>1. faults # 0
      BY <1>7, <2>3 DEF PresInv, Followed
    <3> QED
      BY <1>2, <1>3, <2>1, <3>1, <1>1, PipeGrown DEF PresInv, Leases
  <2>4. CASE i \notin grace
    <3>1. ~Held(i)'
      BY <1>3, <1>7, <2>1, <2>4 DEF Held
    <3> QED
      BY <1>1, <1>2, <1>3, <2>1, <2>2, <3>1, Sent
  <2> QED
    BY <2>3, <2>4
<1> QED
  BY <1>5, <1>6, <1>7

LEMMA Timers ==
    ASSUME PresInv, NEW i \in Instance,
           GraceEnds(i) \/ Heartbeat(i) \/ Stop(i) \/ Exit(i)
    PROVE  PresInv'
<1>1. /\ conn \in [Instance -> SUBSET Socket] /\ grace \subseteq Instance
      /\ life \in [Instance -> {"up", "stopping", "gone"}]
  BY DEF PresInv, Leases
<1>2. CASE GraceEnds(i)
  <2>1. /\ UNCHANGED <<conn, life, graceful, leases, stale, news, shown, raced, overtaken, faults>>
        /\ grace' = grace \ {i} /\ i \in grace
    BY <1>2 DEF GraceEnds
  <2>2. \A j \in Instance : j # i => (Held(j)' <=> Held(j))
    BY <2>1 DEF Held
  <2>3. CASE conn[i] = {}
    <3> PICK c : c = Command("release", "left", FALSE)
      OBVIOUS
    <3>1. c \in Script /\ c.op = "release" /\ c.why = "left" /\ Send(i, c)
      BY <1>2, <2>3, ScriptMade DEF GraceEnds
    <3>2. ~Held(i)'
      BY <2>1, <2>3 DEF Held
    <3> QED
      BY <1>1, <2>1, <2>2, <3>1, <3>2, Sent
  <2>4. CASE conn[i] # {}
    <3>1. Held(i) /\ Held(i)' /\ UNCHANGED pipe
      BY <1>2, <2>1, <2>4 DEF Held, GraceEnds
    <3> QED
      BY <1>1, <2>1, <2>2, <3>1, NothingSent
  <2> QED
    BY <2>3, <2>4
<1>3. CASE Heartbeat(i)
  <2> PICK c : c = Command("hold", "beat", FALSE)
    OBVIOUS
  <2>1. c \in Script /\ c.op = "hold" /\ Send(i, c)
    BY <1>3, ScriptMade DEF Heartbeat
  <2>2. /\ UNCHANGED <<conn, grace, life, graceful, leases, stale, news, shown, raced, overtaken, faults>>
        /\ pipe[i] = <<>> /\ life[i] = "up" /\ Held(i)
    BY <1>3 DEF Heartbeat, Beats
  <2>3. \A j \in Instance : Held(j)' <=> Held(j)
    BY <2>2 DEF Held
  <2>4. faults = 0 /\ i \notin overtaken => i \in leases
    <3>1. Len(pipe[i]) = 0
      BY <2>2
    <3> QED
      BY <2>2, <3>1 DEF PresInv, Followed, Holds
  <2> QED
    BY <1>1, <2>1, <2>2, <2>3, <2>4, Sent
<1>4. CASE Stop(i)
  <2>1. /\ UNCHANGED <<conn, graceful, leases, stale, news, shown, raced, overtaken, faults>>
        /\ grace' = grace \ {i} /\ conn[i] = {} /\ life[i] = "up"
        /\ life' = [life EXCEPT ![i] = "stopping"]
    BY <1>4 DEF Stop
  <2>2. ~Held(i)' /\ \A j \in Instance : j # i => (Held(j)' <=> Held(j))
    BY <2>1 DEF Held
  <2>3. /\ life' \in [Instance -> {"up", "stopping", "gone"}]
        /\ \A j \in Instance : life'[j] # "up" => life[j] # "up" \/ j = i
    BY <1>1, <2>1
  <2>4. \A j \in Instance : life'[j] # "up" =>
          ~Held(j)' \/ (life[j] # "up" /\ Held(j))
    BY <2>2, <2>3
  <2>5. CASE i \in grace
    <3> PICK c : c = Command("release", "stop", FALSE)
      OBVIOUS
    <3>1. c \in Script /\ c.op = "release" /\ c.why = "stop" /\ Send(i, c)
      BY <1>4, <2>5, ScriptMade DEF Stop
    <3> QED
      BY <1>1, <2>1, <2>2, <2>3, <2>4, <3>1, Sent
  <2>6. CASE i \notin grace
    <3>1. ~Held(i) /\ UNCHANGED pipe
      BY <1>4, <2>1, <2>6 DEF Held, Stop
    <3> QED
      BY <1>1, <2>1, <2>2, <2>3, <2>4, <3>1, NothingSent
  <2> QED
    BY <2>5, <2>6
<1>5. CASE Exit(i)
  <2>1. /\ UNCHANGED <<conn, grace, graceful, leases, stale, pipe, news, shown, raced, overtaken, faults>>
        /\ life[i] = "stopping" /\ life' = [life EXCEPT ![i] = "gone"]
    BY <1>5 DEF Exit
  <2>2. \A j \in Instance : Held(j)' <=> Held(j)
    BY <2>1 DEF Held
  <2>3. /\ life' \in [Instance -> {"up", "stopping", "gone"}]
        /\ \A j \in Instance : life'[j] # "up" => life[j] # "up"
    BY <1>1, <2>1
  <2> QED
    BY <1>1, <2>1, <2>2, <2>3, NothingSent
<1> QED
  BY <1>2, <1>3, <1>4, <1>5

\* After a fault only the types are left to show.
LEMMA Faults ==
    ASSUME PresInv, NEW i \in Instance, FailCommand(i) \/ Crash(i)
    PROVE  PresInv'
<1>1. faults' # 0 /\ faults' \in Nat
  BY DEF PresInv, Leases, FailCommand, Crash
<1>2. CASE FailCommand(i)
  <2>1. pipe' \in [Instance -> Seq(Script)] /\ Head(pipe[i]) \in Script
    BY <1>2, PipeCut DEF FailCommand, PresInv
  <2>2. leases' \subseteq Instance
    BY <1>2 DEF FailCommand, PresInv, Leases
  <2>3. news' \in [Instance -> [Status -> Nat]] /\ raced' \in BOOLEAN
    BY <1>2, ToldTypes DEF FailCommand, PresInv
  <2> QED
    BY <1>1, <1>2, <2>1, <2>2, <2>3 DEF FailCommand, PresInv, Leases
<1>3. CASE Crash(i)
  BY <1>1, <1>3 DEF Crash, PresInv, Leases, Quiet
<1> QED
  BY <1>2, <1>3

LEMMA Flushed ==
    ASSUME PresInv, Flush
    PROVE  PresInv'
<1>1. faults' # 0 /\ faults' \in Nat
  BY DEF PresInv, Leases, Flush
<1>2. ASSUME NEW c \in Script
      PROVE  [c EXCEPT !.cold = TRUE] \in Script
  BY DEF Script
<1>3. ASSUME NEW j \in Instance
      PROVE  [n \in 1..Len(pipe[j]) |-> [pipe[j][n] EXCEPT !.cold = TRUE]] \in Seq(Script)
  <2> PICK q : q = pipe[j]
    OBVIOUS
  <2>1. q \in Seq(Script) /\ Len(q) \in Nat
    BY DEF PresInv, Leases
  <2>2. \A n \in 1..Len(q) : [q[n] EXCEPT !.cold = TRUE] \in Script
    BY <1>2, <2>1
  <2> QED
    BY <2>1, <2>2
<1>4. pipe' \in [Instance -> Seq(Script)]
  BY <1>3 DEF Flush
<1> QED
  BY <1>1, <1>4 DEF Flush, PresInv, Leases

\* A refused command goes to the end of its pipe.
LEMMA PipeTurned ==
    ASSUME Leases, NEW i \in Instance, Refuse(i)
    PROVE  /\ pipe' \in [Instance -> Seq(Script)]
           /\ Len(pipe[i]) \in Nat \ {0} /\ Len(pipe'[i]) = Len(pipe[i])
           /\ \A n \in 1..Len(pipe[i]) - 1 : pipe'[i][n] = pipe[i][n + 1]
           /\ pipe'[i][Len(pipe[i])].op = pipe[i][1].op
           /\ pipe'[i][Len(pipe[i])].why = pipe[i][1].why
           /\ Head(pipe[i]) = pipe[i][1]
           /\ \A j \in Instance : j # i => pipe'[j] = pipe[j]
<1> PICK q : q = pipe[i]
  OBVIOUS
<1> PICK h : h = [Head(q) EXCEPT !.body = TRUE]
  OBVIOUS
<1>1. q \in Seq(Script) /\ q # <<>>
  BY DEF Leases, Refuse
<1>2. Head(q) \in Script /\ Tail(q) \in Seq(Script) /\ Head(q) = q[1]
  BY <1>1
<1>3. h \in Script /\ h.op = Head(q).op /\ h.why = Head(q).why
  BY <1>2 DEF Script
<1>4. /\ Len(q) \in Nat \ {0} /\ Len(Tail(q)) = Len(q) - 1
      /\ \A n \in 1..Len(q) - 1 : Tail(q)[n] = q[n + 1]
  BY <1>1
<1>5. /\ Append(Tail(q), h) \in Seq(Script) /\ Len(Append(Tail(q), h)) = Len(q)
      /\ Append(Tail(q), h)[Len(q)] = h
      /\ \A n \in 1..Len(q) - 1 : Append(Tail(q), h)[n] = q[n + 1]
  BY <1>2, <1>3, <1>4
<1>6. pipe' = [pipe EXCEPT ![i] = Append(Tail(q), h)]
  BY DEF Refuse
<1> QED
  BY <1>2, <1>3, <1>4, <1>5, <1>6 DEF Leases

LEMMA Refused ==
    ASSUME PresInv, NEW i \in Instance, Refuse(i)
    PROVE  PresInv'
<1>1. /\ pipe' \in [Instance -> Seq(Script)]
      /\ Len(pipe[i]) \in Nat \ {0} /\ Len(pipe'[i]) = Len(pipe[i])
      /\ \A n \in 1..Len(pipe[i]) - 1 : pipe'[i][n] = pipe[i][n + 1]
      /\ pipe'[i][Len(pipe[i])].op = pipe[i][1].op
      /\ pipe'[i][Len(pipe[i])].why = pipe[i][1].why
      /\ Head(pipe[i]) = pipe[i][1]
      /\ \A j \in Instance : j # i => pipe'[j] = pipe[j]
  BY PipeTurned DEF PresInv
<1>2. /\ overtaken' = IF \E n \in 2..Len(pipe[i]) : pipe[i][n].op # pipe[i][1].op
                      THEN overtaken \cup {i} ELSE overtaken
      /\ UNCHANGED <<conn, grace, life, graceful, leases, stale, news, shown, raced, faults>>
  BY <1>1 DEF Refuse
<1>3. Leases'
  BY <1>1, <1>2 DEF PresInv, Leases
<1>4. overtaken \subseteq overtaken'
  BY <1>2
<1>5. ASSUME i \notin overtaken'
      PROVE  \A n \in 1..Len(pipe[i]) : pipe'[i][n].op = pipe[i][1].op
                                       /\ pipe[i][n].op = pipe[i][1].op
  <2>1. \A n \in 2..Len(pipe[i]) : pipe[i][n].op = pipe[i][1].op
    BY <1>2, <1>5
  <2>2. ASSUME NEW n \in 1..Len(pipe[i]), n # Len(pipe[i])
        PROVE  pipe'[i][n].op = pipe[i][1].op
    <3>1. n \in 1..Len(pipe[i]) - 1 /\ n + 1 \in 2..Len(pipe[i])
      BY <1>1, <2>2
    <3> QED
      BY <1>1, <2>1, <3>1
  <2>3. ASSUME NEW n \in 1..Len(pipe[i]), n # 1
        PROVE  pipe[i][n].op = pipe[i][1].op
    <3>1. n \in 2..Len(pipe[i])
      BY <1>1, <2>3
    <3> QED
      BY <2>1, <3>1
  <2> QED
    BY <1>1, <2>2, <2>3
<1>6. ASSUME faults = 0
      PROVE  Followed' /\ BeatsFirst'
  <2>1. Followed /\ BeatsFirst
    BY <1>6 DEF PresInv
  <2>2. \A j \in Instance : Held(j)' <=> Held(j)
    BY <1>2 DEF Held
  <2>3. ASSUME NEW j \in Instance \ overtaken'
        PROVE  Holds(j)' <=> Holds(j)
    <3>1. CASE j = i
      <4>1. Len(pipe[i]) \in 1..Len(pipe[i])
        BY <1>1
      <4> QED
        BY <1>1, <1>5, <2>3, <3>1, <4>1 DEF Holds
    <3>2. CASE j # i
      BY <1>1, <1>2, <3>2 DEF Holds
    <3> QED
      BY <3>1, <3>2
  <2>4. Followed'
    BY <1>2, <1>4, <2>1, <2>2, <2>3 DEF Followed
  <2>5. ASSUME NEW j \in Instance \ overtaken', NEW n \in 1..Len(pipe'[j]),
               pipe'[j][n].why = "beat"
        PROVE  j \in leases' /\ \A m \in 1..n : pipe'[j][m].op = "hold"
    <3>1. CASE j # i
      BY <1>1, <1>2, <1>4, <2>1, <2>5, <3>1 DEF BeatsFirst
    <3>2. CASE j = i
      <4>1. PICK k \in 1..Len(pipe[i]) : pipe[i][k].why = "beat"
        <5>1. CASE n = Len(pipe[i])
          BY <1>1, <2>5, <3>2, <5>1
        <5>2. CASE n # Len(pipe[i])
          <6>1. n \in 1..Len(pipe[i]) - 1 /\ n + 1 \in 1..Len(pipe[i])
            BY <1>1, <3>2, <5>2
          <6> QED
            BY <1>1, <2>5, <3>2, <6>1
        <5> QED
          BY <5>1, <5>2
      <4>2. i \in leases /\ pipe[i][k].op = "hold"
        <5>1. k \in 1..k
          BY <1>1
        <5> QED
          BY <1>4, <2>1, <2>5, <3>2, <4>1, <5>1 DEF BeatsFirst
      <4>3. \A m \in 1..Len(pipe[i]) : pipe'[i][m].op = "hold"
        BY <1>5, <2>5, <3>2, <4>2
      <4>4. \A m \in 1..n : m \in 1..Len(pipe[i])
        BY <1>1, <3>2
      <4> QED
        BY <1>2, <3>2, <4>2, <4>3, <4>4
    <3> QED
      BY <3>1, <3>2
  <2>6. BeatsFirst'
    BY <2>5 DEF BeatsFirst
  <2> QED
    BY <2>4, <2>6
<1>7. faults = 0 /\ overtaken' = {} => OneAnnouncement'
  BY <1>2, <1>4 DEF PresInv, OneAnnouncement
<1> QED
  BY <1>2, <1>3, <1>6, <1>7 DEF PresInv

\* An announcement begins while there is none, and then is the only one.
LEMMA Announcing ==
    ASSUME Leases, OneAnnouncement, NEW i \in Instance, NEW s \in Status,
           Tell(i, s), s = "online" <=> leases' # {}
    PROVE  OneAnnouncement'
<1> SUFFICES ASSUME ~raced'
             PROVE  OneAnnouncement'
  BY DEF OneAnnouncement
<1>1. \A j \in Instance : news[j] = Quiet
  BY DEF Tell
<1>2. \A j \in Instance, t \in Status : news[j][t] = 0
  BY <1>1 DEF Quiet
<1>3. news' = [news EXCEPT ![i][s] = @ + 1]
  BY DEF Tell
<1>4. /\ news'[i][s] = 1
      /\ \A j \in Instance, t \in Status : j # i \/ t # s => news'[j][t] = 0
  BY <1>2, <1>3 DEF Leases
<1>5. news'[i] # Quiet
  BY <1>4 DEF Quiet
<1>6. \A t \in Status : (t = "online" <=> leases' # {}) <=> t = s
  BY DEF Status
<1> QED
  BY <1>4, <1>5, <1>6 DEF OneAnnouncement

LEMMA LastButOne ==
    ASSUME NEW a \in Nat \ {0}, NEW b, b = a - 1, a # 1
    PROVE  b # 0 /\ b \in 1..b /\ b + 1 = a
  OBVIOUS

LEMMA Runs ==
    ASSUME PresInv, NEW i \in Instance, Run(i)
    PROVE  PresInv'
<1> PICK c : c = Head(pipe[i])
  OBVIOUS
<1>1. /\ pipe' \in [Instance -> Seq(Script)]
      /\ c = pipe[i][1] /\ c \in Script
      /\ Len(pipe[i]) \in Nat \ {0} /\ Len(pipe'[i]) = Len(pipe[i]) - 1
      /\ \A n \in 1..Len(pipe'[i]) : pipe'[i][n] = pipe[i][n + 1]
      /\ \A j \in Instance : j # i => pipe'[j] = pipe[j]
  BY PipeCut DEF Run, PresInv
<1>2. /\ UNCHANGED <<conn, grace, life, graceful, shown, overtaken, faults>>
      /\ leases' = IF c.op = "hold" THEN leases \cup {i} ELSE leases \ {i}
      /\ stale' = stale \ {i}
      /\ IF First(c) THEN Tell(i, "online")
         ELSE IF LastToLeave(i, c) THEN Tell(i, "offline") ELSE Untold
  BY DEF Run
<1>3. /\ c.op \in {"hold", "release"}
      /\ c.op = "hold" => c.why \in {"arrival", "beat"}
  BY <1>1 DEF Script
<1>4. Leases'
  BY <1>1, <1>2, ToldTypes DEF PresInv, Leases
<1>5. ASSUME faults = 0
      PROVE  /\ Followed' /\ BeatsFirst'
             /\ overtaken = {} => OneAnnouncement'
  <2>1. stale' = {}
    BY <1>2, <1>5 DEF PresInv, Followed
  <2>2. Followed'
    <3>1. \A j \in Instance : Held(j)' <=> Held(j)
      BY <1>2 DEF Held
    <3>2. ASSUME NEW j \in Instance, j # i
          PROVE  Holds(j)' <=> Holds(j)
      BY <1>1, <1>2, <3>2 DEF Holds
    <3>3. Holds(i)' <=> Holds(i)
      <4>1. CASE Len(pipe[i]) = 1
        BY <1>1, <1>2, <4>1 DEF Holds
      <4>2. CASE Len(pipe[i]) # 1
        <5>1. /\ Len(pipe'[i]) # 0 /\ Len(pipe'[i]) \in 1..Len(pipe'[i])
              /\ Len(pipe'[i]) + 1 = Len(pipe[i])
          <6> PICK a : a = Len(pipe[i])
            OBVIOUS
          <6> PICK b : b = Len(pipe'[i])
            OBVIOUS
          <6>1. a \in Nat \ {0} /\ b = a - 1 /\ a # 1
            BY <1>1, <4>2
          <6>2. b # 0 /\ b \in 1..b /\ b + 1 = a
            BY <6>1, LastButOne
          <6> QED
            BY <6>2
        <5>2. pipe'[i][Len(pipe'[i])] = pipe[i][Len(pipe[i])]
          BY <1>1, <5>1
        <5> QED
          BY <1>1, <5>1, <5>2 DEF Holds
      <4> QED
        BY <4>1, <4>2
    <3> QED
      BY <1>2, <1>5, <2>1, <3>1, <3>2, <3>3 DEF PresInv, Followed
  <2>3. BeatsFirst'
    <3>1. ASSUME NEW j \in Instance \ overtaken, NEW n \in 1..Len(pipe'[j]),
                 pipe'[j][n].why = "beat"
          PROVE  j \in leases' /\ \A m \in 1..n : pipe'[j][m].op = "hold"
      <4>1. CASE j = i
        <5>1. n + 1 \in 1..Len(pipe[i]) /\ pipe[i][n + 1].why = "beat"
          BY <1>1, <3>1, <4>1
        <5>2. i \in leases /\ \A m \in 1..n + 1 : pipe[i][m].op = "hold"
          BY <1>5, <3>1, <4>1, <5>1 DEF PresInv, BeatsFirst
        <5>3. c.op = "hold" /\ i \in leases'
          <6>1. 1 \in 1..n + 1
            BY <1>1, <3>1, <4>1
          <6> QED
            BY <1>1, <1>2, <5>2, <6>1
        <5>4. \A m \in 1..n : m + 1 \in 1..n + 1 /\ pipe'[i][m] = pipe[i][m + 1]
          BY <1>1, <3>1, <4>1
        <5> QED
          BY <4>1, <5>2, <5>3, <5>4
      <4>2. CASE j # i
        BY <1>1, <1>2, <1>5, <3>1, <4>2 DEF PresInv, BeatsFirst
      <4> QED
        BY <4>1, <4>2
    <3> QED
      BY <1>2, <3>1 DEF BeatsFirst
  <2>4. ASSUME overtaken = {}
        PROVE  OneAnnouncement'
    <3>1. Leases /\ OneAnnouncement
      BY <1>5, <2>4 DEF PresInv
    <3>2. "online" \in Status /\ "offline" \in Status /\ "online" # "offline"
      BY DEF Status
    <3>3. CASE First(c)
      <4>1. Tell(i, "online") /\ leases' # {}
        BY <1>2, <3>3 DEF First
      <4> QED
        BY <3>1, <3>2, <4>1, Announcing
    <3>4. CASE ~First(c) /\ LastToLeave(i, c)
      <4>1. Tell(i, "offline") /\ leases' = {}
        BY <1>2, <1>3, <3>4 DEF LastToLeave
      <4> QED
        BY <3>1, <3>2, <4>1, Announcing
    <3>5. CASE ~First(c) /\ ~LastToLeave(i, c)
      <4>1. Untold
        BY <1>2, <3>5
      <4>2. leases' # {} <=> leases # {}
        <5>1. CASE c.op = "hold"
          <6>1. c.why \in {"arrival", "beat"}
            BY <1>3, <5>1
          <6>2. c.why = "beat" => i \in leases
            <7>1. 1 \in 1..Len(pipe[i])
              BY <1>1
            <7> QED
              BY <1>1, <1>5, <2>4, <7>1 DEF PresInv, BeatsFirst
          <6> QED
            BY <1>2, <3>5, <5>1, <6>1, <6>2 DEF First
        <5>2. CASE c.op = "release"
          BY <1>2, <3>5, <5>2 DEF LastToLeave
        <5> QED
          BY <1>3, <5>1, <5>2
      <4> QED
        BY <1>2, <3>1, <4>1, <4>2 DEF OneAnnouncement, Untold
    <3> QED
      BY <3>3, <3>4, <3>5
  <2> QED
    BY <2>2, <2>3, <2>4
<1> QED
  BY <1>2, <1>4, <1>5 DEF PresInv

LEMMA Broadcasts ==
    ASSUME PresInv, NEW i \in Instance, NEW s \in Status, Broadcast(i, s)
    PROVE  PresInv'
<1>1. /\ news[i][s] > 0 /\ news[i][s] \in Nat
      /\ news' = [news EXCEPT ![i][s] = @ - 1] /\ shown' = s
      /\ UNCHANGED <<conn, grace, life, graceful, leases, stale, pipe, raced, overtaken, faults>>
  BY DEF Broadcast, PresInv, Leases
<1>2. /\ news' \in [Instance -> [Status -> Nat]]
      /\ news'[i][s] = news[i][s] - 1
      /\ \A j \in Instance, t \in Status : j # i \/ t # s => news'[j][t] = news[j][t]
  BY <1>1 DEF PresInv, Leases
<1>3. Leases'
  BY <1>1, <1>2 DEF PresInv, Leases
<1>4. ASSUME faults = 0
      PROVE  /\ Followed' /\ BeatsFirst'
             /\ overtaken = {} => OneAnnouncement'
  <2>1. BeatsFirst'
    BY <1>1, <1>4 DEF PresInv, BeatsFirst
  <2>2. Followed'
    <3>1. \A j \in Instance : (Held(j)' <=> Held(j)) /\ (Holds(j)' <=> Holds(j))
      BY <1>1 DEF Held, Holds
    <3> QED
      BY <1>1, <1>4, <3>1 DEF PresInv, Followed
  <2>3. ASSUME overtaken = {}
        PROVE  OneAnnouncement'
    <3> SUFFICES ASSUME ~raced
                 PROVE  OneAnnouncement'
      BY <1>1 DEF OneAnnouncement
    <3>1. news[i][s] = 1 /\ (s = "online" <=> leases # {})
      BY <1>1, <1>4, <2>3 DEF PresInv, OneAnnouncement
    <3>2. \A j \in Instance, t \in Status : ~(news'[j][t] > 0)
      <4>1. ASSUME NEW j \in Instance, NEW t \in Status, j # i \/ t # s
            PROVE  ~(news[j][t] > 0)
        BY <1>1, <1>4, <2>3, <4>1 DEF PresInv, OneAnnouncement
      <4> QED
        BY <1>2, <3>1, <4>1
    <3> QED
      BY <1>1, <3>1, <3>2 DEF OneAnnouncement
  <2> QED
    BY <2>1, <2>2, <2>3
<1> QED
  BY <1>1, <1>3, <1>4 DEF PresInv

\* A lease that nobody refreshes ends: without a fault, that of an instance whose
\* commands overtook one another.
LEMMA Expires ==
    ASSUME PresInv, NEW i \in Instance, Expire(i)
    PROVE  PresInv'
<1>1. faults # 0 \/ i \in overtaken
  <2> SUFFICES ASSUME faults = 0, i \notin overtaken
               PROVE  FALSE
    OBVIOUS
  <2>1. Len(pipe[i]) = 0 /\ i \in leases
    BY DEF Expire
  <2>2. Held(i) /\ life[i] = "up" /\ stale = {}
    BY <2>1 DEF PresInv, Followed, Holds, Leases
  <2> QED
    BY <2>2 DEF Expire
<1>2. /\ leases' = leases \ {i}
      /\ UNCHANGED <<conn, grace, life, graceful, stale, pipe, news, shown, raced, overtaken, faults>>
  BY DEF Expire
<1>3. Leases'
  BY <1>2 DEF PresInv, Leases
<1>4. ASSUME faults = 0
      PROVE  Followed' /\ BeatsFirst'
  <2>1. \A j \in Instance : Held(j)' <=> Held(j)
    BY <1>2 DEF Held
  <2>2. \A j \in Instance \ overtaken : Holds(j)' <=> Holds(j)
    BY <1>1, <1>2, <1>4 DEF Holds
  <2>3. Followed'
    BY <1>2, <1>4, <2>1, <2>2 DEF PresInv, Followed
  <2>4. BeatsFirst'
    BY <1>1, <1>2, <1>4 DEF PresInv, BeatsFirst
  <2> QED
    BY <2>3, <2>4
<1> QED
  BY <1>1, <1>2, <1>3, <1>4 DEF PresInv

LEMMA PresStep ==
    ASSUME PresInv, [PresenceNext]_avars
    PROVE  PresInv'
<1>1. ASSUME NEW i \in Instance, NEW s \in Socket,
             TrackConnection(i, s) \/ TrackDisconnection(i, s)
      PROVE  PresInv'
  BY <1>1, Arrives, Leaves
<1>2. ASSUME NEW i \in Instance, GraceEnds(i) \/ Heartbeat(i) \/ Stop(i) \/ Exit(i)
      PROVE  PresInv'
  BY <1>2, Timers
<1>3. ASSUME NEW i \in Instance, FailCommand(i) \/ Crash(i)
      PROVE  PresInv'
  BY <1>3, Faults
<1>4. ASSUME NEW i \in Instance, Refuse(i) \/ Run(i) \/ Expire(i)
      PROVE  PresInv'
  BY <1>4, Refused, Runs, Expires
<1>5. ASSUME NEW i \in Instance, NEW s \in Status, Broadcast(i, s)
      PROVE  PresInv'
  BY <1>5, Broadcasts
<1>6. CASE OthersLoad
  <2>1. UNCHANGED <<conn, grace, life, graceful, leases, stale, pipe, news, shown, raced,
                    overtaken, faults>>
    BY <1>6 DEF OthersLoad
  <2>2. \A j \in Instance : Held(j)' <=> Held(j)
    BY <2>1 DEF Held
  <2> QED
    BY <2>1, <2>2, NothingSent DEF PresInv, Leases
<1>7. CASE Flush
  BY <1>7, Flushed
<1>8. CASE UNCHANGED avars
  <2>1. /\ UNCHANGED <<conn, grace, life, graceful, leases, stale, pipe, news>>
        /\ UNCHANGED <<shown, raced, overtaken, faults>>
    BY <1>8 DEF avars
  <2>2. \A j \in Instance : Held(j)' <=> Held(j)
    BY <2>1 DEF Held
  <2> QED
    BY <2>1, <2>2, NothingSent DEF PresInv, Leases
<1> QED
  BY <1>1, <1>2, <1>3, <1>4, <1>5, <1>6, <1>7, <1>8 DEF PresenceNext

LEMMA PresInit ==
    ASSUME PresenceInit
    PROVE  PresInv
<1>1. Leases
  <2>1. Quiet \in [Status -> Nat] /\ raced \in BOOLEAN /\ shown \in Status
    BY DEF PresenceInit, Quiet, Status
  <2>2. /\ conn \in [Instance -> SUBSET Socket] /\ pipe \in [Instance -> Seq(Script)]
        /\ life \in [Instance -> {"up", "stopping", "gone"}]
    BY DEF PresenceInit
  <2>3. news \in [Instance -> [Status -> Nat]]
    BY <2>1 DEF PresenceInit
  <2> QED
    BY <2>1, <2>2, <2>3 DEF PresenceInit, Leases
<1>3. Followed
  BY DEF PresenceInit, Followed, Holds, Held
<1>4. BeatsFirst
  BY DEF PresenceInit, BeatsFirst
<1>5. OneAnnouncement
  BY DEF PresenceInit, OneAnnouncement, Quiet
<1> QED
  BY <1>1, <1>3, <1>4, <1>5 DEF PresInv

\* For any sockets and instances of a user: where Redis never failed, whoever
\* counts the user as here has the lease once its commands are answered, but for
\* instances one of whose scripts overtook another on its first use.
THEOREM LeasesAreHeld == PresenceSpec => []LeaseWhileHeld
<1>1. PresInv => LeaseWhileHeld
  <2>1. \A i \in Instance : pipe[i] = <<>> => Len(pipe[i]) = 0
    OBVIOUS
  <2> QED
    BY <2>1 DEF PresInv, Followed, Holds, LeaseWhileHeld
<1> QED
  BY <1>1, PresInit, PresStep, PTL DEF PresenceSpec

\* And friends were told what the leases say, wherever no script overtook another
\* and no two announcements were under way at once.
THEOREM FriendsAreTold == PresenceSpec => []FriendsToldTruth
<1>1. PresInv => FriendsToldTruth
  BY DEF PresInv, OneAnnouncement, FriendsToldTruth
<1> QED
  BY <1>1, PresInit, PresStep, PTL DEF PresenceSpec

(***************************************************************************)
(* Subscriptions.                                                          *)
(***************************************************************************)
\* The holder of the lock is where the lock is taken for.
LockHeld ==
    /\ \A s \in Session : restore[s] = "joining" => lock = s
    /\ sweep.step = "leave" => lock = "sweep"

\* Where nothing crossed: a frame under way is of a revocation; while sockets
\* are about to leave there is no membership, or it was granted since and its
\* handler waits for the lock; and a member's open socket is in the room or
\* some handler is about to put it there.
Revoking == ~crossed /\ frame => remote = "published" \/ ~member

Emptying == sweep.step = "leave" => ~member \/ change = "joining"

Cared ==
    ~crossed /\ member /\ remote = "rest" =>
      \A s \in Open : \/ s \in joined
                      \/ restore[s] \in {"listed", "joining"}
                      \/ change \in {"joining", "writing"}

SubscribedInv ==
    /\ restore \in [Session -> {"no", "listed", "joining", "done"}]
    /\ phase \in [Session -> {"new", "shaken", "open", "closed"}]
    /\ remote \in {"rest", "published"}
    /\ LockHeld /\ Revoking /\ Emptying /\ Cared

LEMMA SocketSteps ==
    ASSUME SessionAssumption, SubscribedInv, NEW s \in Session,
           \/ Handshake(s) \/ Lapse(s) \/ Connect(s) \/ Disconnect(s)
           \/ RestoreRead(s) \/ RestoreJoin(s)
    PROVE  SubscribedInv'
<1> USE DEF SubscribedInv, LockHeld, Revoking, Emptying, Cared, Open, Cluster, Cycle,
            Sessions
<1>1. CASE Handshake(s)
  BY <1>1 DEF Handshake
<1>2. CASE Lapse(s)
  BY <1>2 DEF Lapse
<1>3. CASE Connect(s)
  BY <1>3 DEF Connect
<1>4. CASE Disconnect(s)
  BY <1>4 DEF Disconnect
<1>5. CASE RestoreRead(s)
  BY <1>5 DEF RestoreRead, SessionAssumption
<1>6. CASE RestoreJoin(s)
  BY <1>6 DEF RestoreJoin, SessionAssumption
<1> QED
  BY <1>1, <1>2, <1>3, <1>4, <1>5, <1>6

LEMMA ChangeSteps ==
    ASSUME SessionAssumption, SubscribedInv, BeginChange \/ Local
    PROVE  SubscribedInv'
<1> USE DEF SubscribedInv, LockHeld, Revoking, Emptying, Cared, Open, Cluster, Cycle,
            Sessions
<1>1. CASE BeginChange
  BY <1>1 DEF BeginChange
<1>2. CASE AddUserToRoom
  BY <1>2 DEF AddUserToRoom
<1>3. CASE RemoveUserFromRoom
  BY <1>3 DEF RemoveUserFromRoom
<1>4. CASE WriteRevocation
  BY <1>4 DEF WriteRevocation
<1> QED
  BY <1>1, <1>2, <1>3, <1>4 DEF Local

LEMMA ClusterSteps ==
    ASSUME SubscribedInv,
           \/ RemotePublish \/ RemoteCommit \/ FrameArrives
           \/ SubscriberDown \/ SubscriberRestored \/ RestoredSilently
    PROVE  SubscribedInv'
<1> USE DEF SubscribedInv, LockHeld, Revoking, Emptying, Cared, Open, Cluster, Cycle,
            Sessions
<1>1. CASE RemotePublish
  BY <1>1 DEF RemotePublish
<1>2. CASE RemoteCommit
  BY <1>2 DEF RemoteCommit
<1>3. CASE FrameArrives
  BY <1>3 DEF FrameArrives
<1>4. CASE SubscriberDown
  BY <1>4 DEF SubscriberDown
<1>5. CASE SubscriberRestored
  BY <1>5 DEF SubscriberRestored, Start
<1>6. CASE RestoredSilently
  BY <1>6 DEF RestoredSilently
<1> QED
  BY <1>1, <1>2, <1>3, <1>4, <1>5, <1>6

LEMMA SweepSteps ==
    ASSUME SessionAssumption, SubscribedInv, Sweep
    PROVE  SubscribedInv'
<1> USE DEF SubscribedInv, LockHeld, Revoking, Emptying, Cared, Open, Cluster, Cycle,
            Sessions, Sweeping
<1>1. Verified.step # "leave" /\ Unverified.step # "leave"
  BY DEF Verified, Unverified, Start, Idle
<1>2. CASE Group
  BY <1>2 DEF Group
<1>3. CASE SweepRead
  <2>1. UNCHANGED <<joined, lock, member, restore, change, crossed, phase, remote, frame>>
    BY <1>3 DEF SweepRead, ReadFails
  <2>2. sweep'.step # "leave"
    <3>1. \/ sweep' = Unverified \/ sweep' = Verified
          \/ sweep' = [sweep EXCEPT !.step = "lock"]
      BY <1>3 DEF SweepRead, ReadFails
    <3>2. [sweep EXCEPT !.step = "lock"].step # "leave"
      BY <1>3 DEF SweepRead
    <3> QED
      BY <1>1, <3>1, <3>2
  <2> QED
    BY <2>1, <2>2
<1>4. CASE SweepReread
  BY <1>1, <1>4, SessionAssumption DEF SweepReread, ReadFails, StillMember, SessionAssumption
<1>5. CASE SweepLeave
  BY <1>1, <1>5 DEF SweepLeave, SessionAssumption
<1>6. CASE PauseEnds
  BY <1>6 DEF PauseEnds, Start
<1> QED
  BY <1>2, <1>3, <1>4, <1>5, <1>6 DEF Sweep

\* For any sockets: no reconciliation, restore or grant costs a member a
\* subscription, where no revocation met one of them.
THEOREM MembersKeepTheirRoom == SessionSpec => []MembersStaySubscribed
<1>1. SessionInit => SubscribedInv
  BY DEF SessionInit, SubscribedInv, LockHeld, Revoking, Emptying, Cared, Open, Idle
<1>2. SubscribedInv /\ [SessionNext]_svars => SubscribedInv'
  <2> SUFFICES ASSUME SubscribedInv, [SessionNext]_svars
               PROVE  SubscribedInv'
    OBVIOUS
  <2>1. CASE UNCHANGED svars
    BY <2>1 DEF svars, SubscribedInv, LockHeld, Revoking, Emptying, Cared, Open
  <2> QED
    BY <2>1, SocketSteps, ChangeSteps, ClusterSteps, SweepSteps, SessionAssumption
      DEF SessionNext
<1>3. SubscribedInv => MembersStaySubscribed
  <2> SUFFICES ASSUME SubscribedInv, ~crossed, ~LocalAtWork, remote = "rest", member,
                      NEW s \in Open
               PROVE  s \in joined
    BY DEF MembersStaySubscribed
  <2>1. s \in Session
    BY DEF Open
  <2>2. restore[s] \in {"no", "done"} /\ change = "rest"
    BY <2>1 DEF LocalAtWork
  <2> QED
    BY <2>2 DEF SubscribedInv, Cared
<1> QED
  BY <1>1, <1>2, <1>3, PTL DEF SessionSpec
===============================================================================
