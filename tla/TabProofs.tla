------------------------------- MODULE TabProofs -------------------------------
(* What holds in a tab, whatever the number of calls, tokens, messages and    *)
(* changes: its session's monitoring page, its copy of the change log, the    *)
(* history of a room it reads page by page, and the badges of its rooms.      *)
EXTENDS PageSession, SyncClient, HistoryPages, RoomBadges,
        FiniteSetTheorems, WellFoundedInduction, TLAPS

-----------------------------------------------------------------------------
(* The monitoring page. An answer is heard only while the effect that asked  *)
(* for it runs, and the effects are cleaned up with every change of the      *)
(* token: what is still to be heard was asked under the token there is.      *)

PageShape  == [boot : {"off", "renewing", "loading", "on", "ended"},
               began : Int, token : Int, authed : BOOLEAN]
AdminShape == [here : BOOLEAN, access : {"checking", "allowed", "forbidden", "error"},
               verified : Int, data : Int]
LoadShape  == [token : Int, what : {"health", "data"}, live : BOOLEAN]

TabTyped ==
    /\ issued \in Nat /\ access \in Int
    /\ page \in PageShape /\ admin \in AdminShape /\ loads \subseteq LoadShape

Viewed == admin.here /\ page.authed /\ page.token # 0

TabInv ==
    /\ TabTyped
    /\ page.boot \in {"off", "renewing", "loading"} => ~ page.authed
    /\ \A l \in loads : l.live => page.authed /\ l.token = page.token
    /\ Viewed => admin.data \in {0, page.token}
    /\ Viewed /\ admin.access = "allowed" => admin.verified = page.token

LEMMA AtTheStart == Unmounted \in PageShape /\ NoAdmin \in AdminShape
  BY DEF Unmounted, NoAdmin, PageShape, AdminShape

LEMMA InitTab == PageInit => TabInv
  BY AtTheStart DEF PageInit, TabInv, TabTyped, Unmounted, NoAdmin, Viewed

\* Nobody hears what was in flight.
LEMMA CancelledLoads ==
    ASSUME loads \subseteq LoadShape
    PROVE  Cancelled \subseteq LoadShape /\ \A l \in Cancelled : ~ l.live
<1>1. \A l \in loads : [l EXCEPT !.live = FALSE] \in LoadShape
                       /\ ~ [l EXCEPT !.live = FALSE].live
  BY DEF LoadShape
<1> QED
  BY <1>1 DEF Cancelled

LEMMA AsksAnew ==
    ASSUME TabTyped, NEW t \in Int, Asks(t)
    PROVE  /\ admin' \in AdminShape /\ loads' \subseteq LoadShape
           /\ admin'.here = TRUE /\ admin'.data = 0 /\ admin'.access = "checking"
           /\ \A l \in loads' : l.live => l.token = t
<1> PICK q : q = [token |-> t, what |-> "health", live |-> TRUE]
  OBVIOUS
<1>1. q \in LoadShape /\ q.token = t
  BY DEF LoadShape
<1>2. admin' = [NoAdmin EXCEPT !.here = TRUE] /\ loads' = Cancelled \cup {q}
  BY DEF Asks
<1>3. /\ admin' \in AdminShape /\ admin'.here = TRUE /\ admin'.data = 0
      /\ admin'.access = "checking"
  <2>1. admin' = [here |-> TRUE, access |-> "checking", verified |-> 0, data |-> 0]
    BY <1>2 DEF NoAdmin
  <2> QED
    BY <2>1 DEF AdminShape
<1>4. Cancelled \subseteq LoadShape /\ \A l \in Cancelled : ~ l.live
  BY CancelledLoads DEF TabTyped
<1> QED
  BY <1>1, <1>2, <1>3, <1>4

LEMMA TokenChanges ==
    ASSUME TabInv, NEW boot \in {"off", "renewing", "loading", "on", "ended"},
           NEW t \in Int, NEW authed \in BOOLEAN,
           boot \in {"off", "renewing", "loading"} => ~ authed,
           TokenChanged(boot, t, authed), issued' \in Nat, access' \in Int
    PROVE  TabInv'
<1>1. TabTyped
  BY DEF TabInv
<1>2. /\ page' \in PageShape /\ page'.boot = boot /\ page'.token = t /\ page'.authed = authed
  BY <1>1 DEF TokenChanged, TabTyped, PageShape
<1>3. CASE t = page.token /\ authed = page.authed
  <2>1. UNCHANGED <<admin, loads>>
    BY <1>3 DEF TokenChanged
  <2> QED
    BY <1>1, <1>2, <1>3, <2>1 DEF TabInv, TabTyped, Viewed
<1>4. CASE ~ (t = page.token /\ authed = page.authed) /\ admin.here /\ authed /\ t # 0
  <2>1. Asks(t)
    BY <1>4 DEF TokenChanged
  <2>2. /\ admin' \in AdminShape /\ loads' \subseteq LoadShape /\ admin'.data = 0
        /\ admin'.access = "checking" /\ \A l \in loads' : l.live => l.token = t
    BY <1>1, <2>1, AsksAnew
  <2> QED
    BY <1>1, <1>2, <1>4, <2>2 DEF TabInv, TabTyped, Viewed
<1>5. CASE ~ (t = page.token /\ authed = page.authed) /\ ~ (admin.here /\ authed /\ t # 0)
  <2>1. loads' = Cancelled /\ UNCHANGED admin
    BY <1>5 DEF TokenChanged
  <2>2. loads' \subseteq LoadShape /\ \A l \in loads' : ~ l.live
    BY <1>1, <2>1, CancelledLoads DEF TabTyped
  <2>3. ~ Viewed'
    BY <1>2, <1>5, <2>1 DEF Viewed
  <2> QED
    BY <1>1, <1>2, <2>1, <2>2, <2>3 DEF TabInv, TabTyped
<1> QED
  BY <1>3, <1>4, <1>5

LEMMA SetAccessStep ==
    ASSUME TabInv, NEW t \in Int, SetAccess(t), issued' \in Nat
    PROVE  TabInv'
<1>1. access' = t
  BY DEF SetAccess
<1>2. CASE page.boot = "off"
  BY <1>1, <1>2 DEF SetAccess, TabInv, TabTyped, Viewed
<1>3. CASE page.boot # "off"
  <2>1. /\ page.boot \in {"off", "renewing", "loading", "on", "ended"}
        /\ page.authed \in BOOLEAN /\ TokenChanged(page.boot, t, page.authed)
        /\ page.boot \in {"off", "renewing", "loading"} => ~ page.authed
    BY <1>3 DEF SetAccess, TabInv, TabTyped, PageShape
  <2> QED
    BY <1>1, <2>1, TokenChanges
<1> QED
  BY <1>2, <1>3

LEMMA ClearStep ==
    ASSUME TabInv, clearSession, page.boot # "off", UNCHANGED issued
    PROVE  TabInv'
<1>1. TokenChanged("ended", 0, FALSE) /\ access' = 0 /\ issued' \in Nat
  BY DEF clearSession, TabInv, TabTyped
<1>2. 0 \in Int /\ FALSE \in BOOLEAN /\ access' \in Int
  BY <1>1
<1> QED
  BY <1>1, <1>2, TokenChanges

\* Signing in and out, and the bootstrap.
LEMMA SessionSteps ==
    ASSUME TabInv, SignIn \/ Booted \/ SignedIn \/ BootFailed \/ Logout \/ LoggedOut
                     \/ (\E here \in BOOLEAN : Mount(here))
    PROVE  TabInv'
<1>1. TabTyped
  BY DEF TabInv
<1>2. CASE SignIn
  <2>1. /\ issued' = issued + 1 /\ access' = issued + 1
        /\ UNCHANGED <<page, admin, loads>>
    BY <1>2 DEF SignIn
  <2> QED
    BY <1>1, <2>1 DEF TabInv, TabTyped, Viewed
<1>3. CASE Booted
  <2>1. /\ issued' = issued + 1 /\ access' = issued + 1 /\ UNCHANGED <<admin, loads>>
        /\ page' = [page EXCEPT !.boot = "loading", !.began = issued + 1,
                                !.token = issued + 1]
        /\ page.boot = "renewing"
    BY <1>3 DEF Booted
  <2>2. page' \in PageShape /\ page'.authed = page.authed /\ ~ page.authed
    <3>1. issued + 1 \in Int /\ page \in PageShape /\ ~ page.authed
      BY <1>1, <2>1 DEF TabInv, TabTyped
    <3> QED
      BY <2>1, <3>1 DEF PageShape
  <2>3. issued' \in Nat /\ access' \in Int
    BY <1>1, <2>1 DEF TabTyped
  <2> QED
    BY <1>1, <2>1, <2>2, <2>3 DEF TabInv, TabTyped, Viewed
<1>4. CASE SignedIn
  <2>1. /\ TokenChanged("on", page.began, TRUE) /\ access' = page.began /\ issued' = issued
        /\ page.began \in Int /\ issued' \in Nat
    BY <1>1, <1>4 DEF SignedIn, TabTyped, PageShape
  <2> QED
    BY <2>1, TokenChanges
<1>5. CASE BootFailed
  BY <1>5, ClearStep DEF BootFailed
<1>6. CASE Logout
  <2>1. /\ access' = 0 /\ page' = Unmounted /\ admin' = NoAdmin /\ loads' = Cancelled
        /\ issued' = issued
    BY <1>6 DEF Logout
  <2>2. loads' \subseteq LoadShape /\ \A l \in loads' : ~ l.live
    BY <1>1, <2>1, CancelledLoads DEF TabTyped
  <2>3. page' \in PageShape /\ admin' \in AdminShape /\ ~ page'.authed
    BY <2>1, AtTheStart DEF Unmounted
  <2> QED
    BY <1>1, <2>1, <2>2, <2>3 DEF TabInv, TabTyped, Viewed
<1>7. CASE LoggedOut
  <2>1. SetAccess(0) /\ issued' \in Nat /\ 0 \in Int
    BY <1>1, <1>7 DEF LoggedOut, TabTyped
  <2> QED
    BY <2>1, SetAccessStep
<1>8. ASSUME NEW here \in BOOLEAN, Mount(here) PROVE TabInv'
  <2>1. /\ page' = [boot |-> IF access = 0 THEN "renewing" ELSE "loading",
                    began |-> access, token |-> access, authed |-> FALSE]
        /\ admin' = [here |-> here, access |-> "checking", verified |-> 0, data |-> 0]
        /\ UNCHANGED <<issued, access, loads>> /\ page.boot = "off"
    BY <1>8 DEF Mount, Unmounted, NoAdmin
  <2>2. page' \in PageShape /\ admin' \in AdminShape /\ ~ page'.authed
    BY <1>1, <2>1 DEF TabTyped, PageShape, AdminShape
  <2> QED
    BY <1>1, <2>1, <2>2 DEF TabInv, TabTyped, Viewed
<1> QED
  BY <1>2, <1>3, <1>4, <1>5, <1>6, <1>7, <1>8

\* The refresh, and what only the calls see.
LEMMA CallSteps ==
    ASSUME TabInv,
           \/ Renew \/ Renewed \/ RenewFailed
           \/ \E t \in 1..MaxToken : TokenExpires(t)
           \/ \E c \in ApiCall : SendCall(c) \/ Answer(c) \/ Lose(c) \/ RefuseCall(c)
    PROVE  TabInv'
<1>1. TabTyped
  BY DEF TabInv
<1>2. ASSUME UNCHANGED <<access, page, admin, loads>>, issued' \in Nat PROVE TabInv'
  BY <1>2 DEF TabInv, TabTyped, Viewed
<1>3. CASE Renew
  BY <1>1, <1>2, <1>3 DEF Renew, TabTyped
<1>4. CASE Renewed
  <2>1. SetAccess(issued) /\ issued' \in Nat /\ issued \in Int
    BY <1>1, <1>4 DEF Renewed, TabTyped
  <2> QED
    BY <2>1, SetAccessStep
<1>5. CASE RenewFailed
  BY <1>1, <1>2, <1>5, ClearStep DEF RenewFailed, TabTyped
<1>6. CASE \E t \in 1..MaxToken : TokenExpires(t)
  BY <1>1, <1>2, <1>6 DEF TokenExpires, TabTyped
<1>7. CASE \E c \in ApiCall : SendCall(c) \/ Answer(c) \/ Lose(c) \/ RefuseCall(c)
  BY <1>1, <1>2, <1>7 DEF SendCall, Answer, Lose, RefuseCall, TabTyped
<1> QED
  BY <1>3, <1>4, <1>5, <1>6, <1>7

\* The monitoring page asks, and hears.
LEMMA AskSteps ==
    ASSUME TabInv, TurnPage \/ Recheck
    PROVE  TabInv'
<1>1. TabTyped /\ UNCHANGED <<issued, access, page>> /\ page.token \in Int
  BY DEF TabInv, TabTyped, TurnPage, Recheck, PageShape
<1>2. CASE Asks(page.token) /\ page.authed
  <2>1. /\ admin' \in AdminShape /\ loads' \subseteq LoadShape /\ admin'.data = 0
        /\ admin'.access = "checking" /\ \A l \in loads' : l.live => l.token = page.token
    BY <1>1, <1>2, AsksAnew
  <2> QED
    BY <1>1, <1>2, <2>1 DEF TabInv, TabTyped, Viewed
<1>3. CASE /\ admin' = [admin EXCEPT !.here = ~@] /\ loads' = Cancelled
           /\ ~ (~ admin.here /\ page.authed /\ page.token # 0)
  <2>1. loads' \subseteq LoadShape /\ \A l \in loads' : ~ l.live
    BY <1>1, <1>3, CancelledLoads DEF TabTyped
  <2>2. admin' \in AdminShape /\ (admin'.here <=> ~ admin.here)
    BY <1>1, <1>3 DEF TabTyped, AdminShape
  <2> QED
    BY <1>1, <1>3, <2>1, <2>2 DEF TabInv, TabTyped, Viewed
<1> QED
  BY <1>2, <1>3 DEF TurnPage, Recheck

LEMMA HearSteps ==
    ASSUME TabInv, Poll \/ \E l \in loads : Verify(l) \/ Show(l)
    PROVE  TabInv'
<1>1. /\ TabTyped /\ UNCHANGED <<issued, access, page>>
      /\ page.token \in Int /\ page.authed \in BOOLEAN
  BY DEF TabInv, TabTyped, Poll, Verify, Show, PageShape
<1>2. \A t \in Int : DataLoad(t) \in LoadShape /\ DataLoad(t).token = t
  BY DEF DataLoad, LoadShape
<1>3. CASE Poll
  <2>1. UNCHANGED admin /\ loads' = loads \cup {DataLoad(page.token)} /\ page.authed
    BY <1>3 DEF Poll, Watching
  <2> QED
    BY <1>1, <1>2, <2>1 DEF TabInv, TabTyped, Viewed
<1>4. ASSUME NEW l \in loads, loads' = loads \ {l}, UNCHANGED admin PROVE TabInv'
  BY <1>1, <1>4 DEF TabInv, TabTyped, Viewed
<1>5. ASSUME NEW l \in loads, l.live, NEW a \in {"forbidden", "error"},
             loads' = loads \ {l}, admin' = [admin EXCEPT !.access = a]
      PROVE  TabInv'
  <2>1. admin' \in AdminShape /\ admin'.access = a /\ admin'.data = admin.data
        /\ admin'.here = admin.here
    BY <1>1, <1>5 DEF TabTyped, AdminShape
  <2> QED
    BY <1>1, <1>5, <2>1 DEF TabInv, TabTyped, Viewed
<1>6. ASSUME NEW l \in loads, Verify(l) PROVE TabInv'
  <2>1. CASE /\ l.live /\ loads' = (loads \ {l}) \cup {DataLoad(l.token)}
             /\ admin' = [admin EXCEPT !.access = "allowed", !.verified = l.token]
    <3>1. l.token \in Int /\ l.token = page.token /\ page.authed
      BY <1>1, <2>1 DEF TabInv, TabTyped, LoadShape
    <3>2. /\ admin' \in AdminShape /\ admin'.verified = l.token
          /\ admin'.data = admin.data /\ admin'.here = admin.here
      BY <1>1, <2>1, <3>1 DEF TabTyped, AdminShape
    <3> QED
      BY <1>1, <1>2, <2>1, <3>1, <3>2 DEF TabInv, TabTyped, Viewed
  <2> QED
    BY <1>4, <1>5, <1>6, <2>1 DEF Verify, Heard
<1>7. ASSUME NEW l \in loads, Show(l) PROVE TabInv'
  <2>1. CASE l.live /\ loads' = loads \ {l} /\ admin' = [admin EXCEPT !.data = l.token]
    <3>1. l.token \in Int /\ l.token = page.token
      BY <1>1, <2>1 DEF TabInv, TabTyped, LoadShape
    <3>2. /\ admin' \in AdminShape /\ admin'.verified = admin.verified
          /\ admin'.data = l.token /\ admin'.here = admin.here
          /\ admin'.access = admin.access
      BY <1>1, <2>1, <3>1 DEF TabTyped, AdminShape
    <3> QED
      BY <1>1, <2>1, <3>1, <3>2 DEF TabInv, TabTyped, Viewed
  <2> QED
    BY <1>4, <1>5, <1>7, <2>1 DEF Show, Heard
<1> QED
  BY <1>3, <1>6, <1>7

LEMMA NextTab == TabInv /\ [PageNext]_pvars => TabInv'
<1>1. ASSUME TabInv, UNCHANGED pvars PROVE TabInv'
  BY <1>1 DEF pvars, TabInv, TabTyped, Viewed
<1> QED
  BY <1>1, SessionSteps, CallSteps, AskSteps, HearSteps DEF PageNext

\* The provider's token changes under a page that is loading and polling: the
\* data and the permission it shows were answered under the token there is now,
\* for any number of calls, refreshes and visits.
THEOREM MonitoringShowsItsSession == PageSpec => []ShownIsVerified
<1>1. TabInv => ShownIsVerified
  BY DEF TabInv, Viewed, ShownIsVerified
<1> QED
  BY <1>1, InitTab, NextTab, PTL DEF PageSpec

-----------------------------------------------------------------------------
(* The change log. An answer's page has all that is visible between the      *)
(* cursor and its end (PageInv), whatever is committed or deleted after it   *)
(* was read, and all there is above the cursor unless it is full (PageTaken).  *)
(* A merge, an event and a flush take no version back (ShownStep); so what   *)
(* is at or below the cursor stays held.                                     *)

\* A nonempty set of numbers has a least one, and a greatest one if it is bounded.
LEMMA Least ==
    ASSUME NEW S \in SUBSET Nat, S # {}
    PROVE  \E u \in S : \A v \in S : u <= v
<1> DEFINE T == {0..u : u \in S}
           R == StrictSubsetOrdering(Nat)
<1>2. IsWellFoundedOn(R, FiniteSubsetsOf(Nat))
  BY FS_StrictSubsetOrderingWellFounded
<1>3. T \subseteq FiniteSubsetsOf(Nat) /\ T # {}
  <2>1. ASSUME NEW u \in S PROVE 0..u \in FiniteSubsetsOf(Nat)
    <3>1. IsFiniteSet(0..u) /\ 0..u \in SUBSET Nat
      BY FS_Interval
    <3> QED
      BY <3>1 DEF FiniteSubsetsOf
  <2> QED
    BY <2>1
<1>4. PICK x \in T : \A y \in T : ~ (<<y, x>> \in R)
  <2> HIDE DEF T, R
  <2> QED BY <1>2, <1>3, WFMin
<1>5. PICK u \in S : x = 0..u
  BY <1>4
<1>6. ASSUME NEW v \in S, ~ (u <= v) PROVE FALSE
  <2>1. 0..v \in SUBSET Nat /\ 0..u \in SUBSET Nat /\ 0..v \subseteq 0..u
    BY <1>6
  <2>2. u \in 0..u /\ u \notin 0..v
    BY <1>6
  <2>3. <<0..v, 0..u>> \in R
    BY <2>1, <2>2 DEF StrictSubsetOrdering
  <2> QED
    BY <1>4, <1>5, <2>3
<1> QED
  BY <1>6

LEMMA Greatest ==
    ASSUME NEW n \in Nat, NEW S \in SUBSET (0..n), S # {}
    PROVE  \E u \in S : \A v \in S : v <= u
<1> DEFINE Bound == {b \in 0..n : \A v \in S : v <= b}
<1>1. Bound \in SUBSET Nat /\ n \in Bound
  OBVIOUS
<1>2. PICK b \in Bound : \A c \in Bound : b <= c
  BY <1>1, Least
<1>3. CASE b \in S
  BY <1>3
<1>4. CASE b \notin S
  <2>1. \A v \in S : v <= b - 1
    BY <1>4
  <2>2. b - 1 \in Bound
    <3>1. PICK v \in S : v <= b - 1
      BY <2>1
    <3> QED
      BY <2>1, <3>1
  <2> QED
    BY <1>2, <2>2
<1> QED
  BY <1>3, <1>4

\* The flush takes the buffered events one after the other.
LEMMA FlushingStep ==
    ASSUME Len(buffer) \in Nat
    PROVE  \A n \in 0..Len(buffer) :
             Flushing[n] = IF n = 0 THEN cache ELSE Applied(Flushing[n - 1], buffer[n])
<1> DEFINE Fits(f, n) ==
             f = [k \in 0..n |-> IF k = 0 THEN cache ELSE Applied(f[k - 1], buffer[k])]
           Bad == {n \in 0..Len(buffer) : ~ \E f : Fits(f, n)}
<1>1. Bad = {}
  <2> SUFFICES ASSUME Bad # {} PROVE FALSE
    OBVIOUS
  <2>1. PICK n \in Bad : \A m \in Bad : n <= m
    <3>1. Bad \in SUBSET Nat
      OBVIOUS
    <3> HIDE DEF Bad
    <3> QED
      BY <3>1, Least
  <2>2. CASE n = 0
    <3>1. Fits([k \in 0..0 |-> cache], 0)
      OBVIOUS
    <3> QED
      BY <2>1, <2>2, <3>1
  <2>3. CASE n # 0
    <3>1. n - 1 \in 0..Len(buffer) /\ n - 1 \notin Bad
      BY <2>1, <2>3
    <3>2. PICK f : Fits(f, n - 1)
      BY <3>1
    <3>3. PICK g : g = [k \in 0..n |->
                          IF k < n THEN f[k] ELSE Applied(f[n - 1], buffer[n])]
      OBVIOUS
    <3>4. ASSUME NEW k \in 0..n
          PROVE  g[k] = IF k = 0 THEN cache ELSE Applied(g[k - 1], buffer[k])
      <4>1. CASE k < n
        <5>1. g[k] = f[k] /\ k \in 0..(n - 1)
          BY <3>3, <4>1, <2>1
        <5>2. k # 0 => g[k - 1] = f[k - 1]
          BY <3>3, <4>1, <2>1
        <5> QED
          BY <5>1, <5>2, <3>2
      <4>2. CASE k = n
        <5>1. g[n - 1] = f[n - 1] /\ g[n] = Applied(f[n - 1], buffer[n])
          BY <3>3, <2>1, <2>3
        <5> QED
          BY <5>1, <4>2, <2>3
      <4> QED
        BY <4>1, <4>2, <2>1
    <3>5. Fits(g, n)
      BY <3>3, <3>4
    <3> QED
      BY <2>1, <3>5
  <2> QED
    BY <2>2, <2>3
<1>2. PICK f : Fits(f, Len(buffer))
  BY <1>1
<1>3. Fits(Flushing, Len(buffer))
  <2>1. Flushing = CHOOSE h : Fits(h, Len(buffer))
    BY DEF Flushing
  <2> HIDE DEF Fits
  <2> QED
    BY <1>2, <2>1
<1> QED
  BY <1>3
-----------------------------------------------------------------------------
(* The helpers of the merge.                                               *)

Shows(c) == c \in [MessageId -> Version]

\* Nothing of what c shows is newer than what d shows.
NoNewer(c, d) == \A m \in MessageId : d[m].version >= c[m].version

LEMMA AppliedForward ==
    ASSUME NEW c, Shows(c), NEW e \in Log!Change
    PROVE  Shows(Applied(c, e)) /\ NoNewer(c, Applied(c, e))
<1>1. e.message \in MessageId /\ e.sequence \in Nat /\ c[e.message].version \in Nat
  BY DEF Shows, Version, Log!Change
<1>2. PICK r : r = [version |-> e.sequence, recalled |-> e.kind = "recalled"]
  OBVIOUS
<1>3. r \in Version /\ r.version = e.sequence
  <2>1. (e.kind = "recalled") \in BOOLEAN
    OBVIOUS
  <2> QED
    BY <1>1, <1>2, <2>1 DEF Version
<1>4. Applied(c, e) = c \/ /\ Applied(c, e) = [c EXCEPT ![e.message] = r]
                           /\ c[e.message].version < e.sequence
  BY <1>2 DEF Applied
<1>5. CASE Applied(c, e) = c
  BY <1>5 DEF Shows, NoNewer, Version
<1>6. CASE Applied(c, e) = [c EXCEPT ![e.message] = r] /\ c[e.message].version < e.sequence
  <2>1. PICK d : d = Applied(c, e)
    OBVIOUS
  <2>2. d \in [MessageId -> Version]
    BY <1>3, <1>6, <2>1 DEF Shows
  <2>3. ASSUME NEW m \in MessageId PROVE d[m].version >= c[m].version
    BY <1>1, <1>3, <1>6, <2>1 DEF Shows, Version
  <2> QED
    BY <2>1, <2>2, <2>3 DEF Shows, NoNewer
<1> QED
  BY <1>4, <1>5, <1>6

LEMMA FlushedForward ==
    ASSUME Shows(cache), buffer \in Seq(Log!Change)
    PROVE  Shows(Flushed) /\ NoNewer(cache, Flushed)
<1> DEFINE Bad == {n \in 0..Len(buffer) :
                     ~ (Shows(Flushing[n]) /\ NoNewer(cache, Flushing[n]))}
<1>1. Len(buffer) \in Nat /\ \A n \in 1..Len(buffer) : buffer[n] \in Log!Change
  OBVIOUS
<1>2. Bad = {}
  <2> SUFFICES ASSUME Bad # {} PROVE FALSE
    OBVIOUS
  <2>1. PICK n \in Bad : \A m \in Bad : n <= m
    <3>1. Bad \in SUBSET Nat
      BY <1>1
    <3> HIDE DEF Bad
    <3> QED
      BY <3>1, Least
  <2>2. CASE n = 0
    <3>1. Flushing[n] = cache
      BY <1>1, <2>1, <2>2, FlushingStep
    <3>2. NoNewer(cache, cache)
      BY DEF NoNewer, Shows, Version
    <3> QED
      BY <2>1, <3>1, <3>2
  <2>3. CASE n # 0
    <3>1. n \in 1..Len(buffer) /\ n - 1 \in 0..Len(buffer) /\ n - 1 \notin Bad
      BY <1>1, <2>1, <2>3
    <3>2. Shows(Flushing[n - 1]) /\ NoNewer(cache, Flushing[n - 1])
      BY <3>1
    <3>3. Flushing[n] = Applied(Flushing[n - 1], buffer[n])
      BY <1>1, <2>1, <2>3, FlushingStep
    <3>4. Shows(Flushing[n]) /\ NoNewer(Flushing[n - 1], Flushing[n])
      BY <1>1, <3>1, <3>2, <3>3, AppliedForward
    <3>5. NoNewer(cache, Flushing[n])
      BY <3>2, <3>4 DEF NoNewer, Shows, Version
    <3> QED
      BY <2>1, <3>4, <3>5
  <2> QED
    BY <2>2, <2>3
<1> QED
  BY <1>1, <1>2 DEF Flushed

LEMMA MergeForward ==
    ASSUME Shows(cache), NEW n \in Nat, NEW copies \in SUBSET Copy,
           \A p \in copies : p.version <= n
    PROVE  /\ Shows(Merge(copies)) /\ NoNewer(cache, Merge(copies))
           /\ \A p \in copies : Merge(copies)[p.message].version >= p.version
<1>1. \A p \in copies : /\ p.message \in MessageId /\ p.version \in 0..n
                        /\ p.recalled \in BOOLEAN /\ Shown(p).version = p.version
                        /\ Shown(p) \in Version
  BY DEF Copy, Shown, Version
<1>2. ASSUME NEW m \in MessageId
      PROVE  /\ Merge(copies)[m] \in Version
             /\ Merge(copies)[m].version >= cache[m].version
             /\ \A p \in copies : p.message = m => Merge(copies)[m].version >= p.version
  <2>1. cache[m] \in Version /\ cache[m].version \in Nat
    BY DEF Shows, Version
  <2>2. PICK new : new = {p \in copies : p.message = m /\ p.version >= cache[m].version}
    OBVIOUS
  <2>3. Merge(copies)[m] =
          IF new = {} THEN cache[m]
          ELSE Shown(CHOOSE p \in new : \A q \in new : q.version <= p.version)
    BY <2>2 DEF Merge
  <2>4. CASE new = {}
    <3>1. \A p \in copies : p.message = m => p.version < cache[m].version
      BY <1>1, <2>1, <2>2, <2>4
    <3> QED
      BY <1>1, <2>1, <2>3, <2>4, <3>1
  <2>5. CASE new # {}
    <3>1. PICK S : S = {p.version : p \in new}
      OBVIOUS
    <3>2. S \in SUBSET (0..n) /\ S # {}
      BY <1>1, <2>2, <2>5, <3>1
    <3>3. PICK b \in S : \A v \in S : v <= b
      BY <3>2, Greatest
    <3>4. \E p \in new : \A q \in new : q.version <= p.version
      BY <3>1, <3>3
    <3>5. PICK p : p = CHOOSE q \in new : \A r \in new : r.version <= q.version
      OBVIOUS
    <3>6. p \in new /\ \A q \in new : q.version <= p.version
      BY <3>4, <3>5
    <3>7. Merge(copies)[m] = Shown(p)
      BY <2>3, <2>5, <3>5
    <3>8. \A q \in copies : q.message = m => q.version <= p.version
      BY <1>1, <2>1, <2>2, <3>6
    <3> QED
      BY <1>1, <2>1, <2>2, <3>6, <3>7, <3>8
  <2> QED
    BY <2>4, <2>5
<1>3. Merge(copies) \in [MessageId -> Version]
  <2>1. Merge(copies) = [m \in MessageId |-> Merge(copies)[m]]
    BY DEF Merge
  <2> QED
    BY <1>2, <2>1
<1> QED
  BY <1>1, <1>2, <1>3 DEF Shows, NoNewer
-----------------------------------------------------------------------------
(* The log grows above its head, and is cut by the deletion of rooms.      *)

LogInv ==
    /\ Log!LogTypeOK
    /\ IsFiniteSet(log)
    /\ \A c \in log : c.sequence <= head
    /\ \A c, d \in log : c.sequence = d.sequence => c = d

\* A step adds nothing at or below the head.
LogMoves ==
    /\ head' \in Nat /\ head <= head'
    /\ \A c \in log' : c.sequence \in Nat /\ (c \in log \/ c.sequence > head)

LEMMA LogStep ==
    ASSUME SyncAssumption, LogInv, Next
    PROVE  LogInv' /\ LogMoves
<1> USE DEF LogInv, LogMoves, Log!LogTypeOK
<1>1. ASSUME NEW m \in MessageId, NEW kind \in Kind, Commit(m, kind)
      PROVE  LogInv' /\ LogMoves
  <2>1. PICK v, c :
          /\ v \in 1..MaxChange
          /\ c = [sequence |-> head + 1, message |-> m, room |-> RoomOf[m],
                  revision |-> v, kind |-> kind, actor |-> "peer",
                  command |-> head + 1]
          /\ Log!AppendChange(c) /\ head < MaxChange
    BY <1>1 DEF Commit
  <2>2. c \in Log!Change /\ c.sequence = head + 1
    BY <2>1, SyncAssumption DEF SyncAssumption, Log!Change, Kind, Log!Kind
  <2>3. head' = head + 1 /\ log' = log \cup {c}
    BY <2>1, <2>2 DEF Log!AppendChange
  <2>4. IsFiniteSet(log')
    BY <2>3, FS_AddElement
  <2>5. \A d \in log : d.sequence \in Nat
    BY DEF Log!Change
  <2> QED
    BY <2>2, <2>3, <2>4, <2>5
<1>2. ASSUME NEW r \in Room, DeleteRoom(r) PROVE LogInv' /\ LogMoves
  <2>1. log' \in SUBSET log /\ head' = head /\ \A c \in log : c.sequence \in Nat
    BY <1>2 DEF DeleteRoom, Log!ForgetRoom, Log!Change
  <2>2. IsFiniteSet(log')
    BY <2>1, FS_Subset
  <2> QED
    BY <2>1, <2>2
<1>3. ASSUME UNCHANGED <<head, log>> PROVE LogInv' /\ LogMoves
  BY <1>3 DEF Log!Change
<1> QED
  BY <1>1, <1>2, <1>3 DEF Next, Publish, Connect, RestoreSubscriptions, EmitReady,
     Disconnect, Revoke, RestoreRevoked, Receive, Tick, ReadPage, ReadBounds,
     HandleAnswer, FinishFullSync, FailFullSync, FailCheckpoint, LoadRoom, RoomLoaded,
     serverVars

-----------------------------------------------------------------------------
(* What a page has read of the log.                                        *)

PageRead == sync.step \in {"read", "answered"}

\* A page has the changes above the cursor up to its end, each as a copy.
PageInv ==
    /\ cursor \in Nat /\ cursor <= head
    /\ PageRead =>
         /\ \A p \in sync.page : cursor < p.version /\ p.version <= head
         /\ \A c \in Visible : cursor < c.sequence /\ c.sequence <= PageEnd =>
              \E p \in sync.page : p.message = c.message /\ p.version = c.sequence

LEMMA EndOfPage ==
    ASSUME LogInv, PageInv, sync.page \subseteq Copy, PageRead
    PROVE  /\ PageEnd \in Nat /\ cursor <= PageEnd /\ PageEnd <= head
           /\ \A p \in sync.page : p.version <= PageEnd
           /\ sync.page = {} => PageEnd = cursor
           /\ sync.page # {} => \E p \in sync.page : p.version = PageEnd
<1>0. head \in Nat /\ \A p \in sync.page : p.version \in Nat /\ cursor < p.version
                                                             /\ p.version <= head
  BY DEF LogInv, Log!LogTypeOK, PageInv, Copy
<1>1. CASE sync.page = {}
  BY <1>0, <1>1 DEF PageEnd, PageInv
<1>2. CASE sync.page # {}
  <2>1. PICK S : S = {p.version : p \in sync.page}
    OBVIOUS
  <2>2. S \in SUBSET (0..head) /\ S # {}
    BY <1>0, <1>2, <2>1
  <2>3. \E x \in S : \A y \in S : x >= y
    <3>1. PICK u \in S : \A v \in S : v <= u
      BY <1>0, <2>2, Greatest
    <3> QED
      BY <2>2, <3>1
  <2>4. PageEnd = CHOOSE x \in S : \A y \in S : x >= y
    BY <1>2, <2>1 DEF PageEnd, Max
  <2>5. PageEnd \in S /\ \A y \in S : PageEnd >= y
    BY <2>3, <2>4
  <2> QED
    BY <1>0, <1>2, <2>1, <2>2, <2>5 DEF PageInv
<1> QED
  BY <1>1, <1>2

\* Where chain and cursor stay, the page still has what it read: what is
\* committed meanwhile is above its end.
LEMMA PageStays ==
    ASSUME LogInv, LogMoves, PageInv, sync.page \subseteq Copy, UNCHANGED <<sync, cursor>>
    PROVE  PageInv'
<1>1. PageRead' <=> PageRead
  BY DEF PageRead
<1>2. PageEnd' = PageEnd
  BY DEF PageEnd, Max
<1>3. head \in Nat /\ cursor \in Nat
  BY DEF LogInv, Log!LogTypeOK, PageInv
<1>4. CASE PageRead
  <2>1. ASSUME NEW c \in Visible', cursor < c.sequence, c.sequence <= PageEnd
        PROVE  c \in Visible
    <3>1. c \in log' /\ c.room \in Mine
      BY DEF Visible
    <3>2. CASE c \in log
      BY <3>1, <3>2 DEF Visible
    <3>3. CASE c.sequence > head
      <4>1. PageEnd \in Nat /\ PageEnd <= head /\ c.sequence \in Nat
        BY <1>4, <3>1, EndOfPage DEF LogMoves
      <4> QED
        BY <1>3, <2>1, <3>3, <4>1
    <3> QED
      BY <3>1, <3>2, <3>3 DEF LogMoves
  <2>2. ASSUME NEW p \in sync.page PROVE cursor < p.version /\ p.version <= head'
    <3>1. p.version \in Nat /\ cursor < p.version /\ p.version <= head
      BY <1>4 DEF PageInv, Copy
    <3> QED
      BY <1>3, <3>1 DEF LogMoves
  <2> QED
    BY <1>1, <1>2, <1>3, <1>4, <2>1, <2>2 DEF PageInv, LogMoves
<1>5. CASE ~ PageRead
  BY <1>1, <1>3, <1>5 DEF PageInv, LogMoves
<1> QED
  BY <1>4, <1>5
-----------------------------------------------------------------------------
(* findChangesForUser. A page that is not full has all there is above the  *)
(* cursor.                                                                 *)

Above == {c \in Visible : c.sequence > cursor}

UpTo(n) == {d \in Above : d.sequence <= n}

LEMMA PageIs ==
    Page = {c \in Above : Cardinality(UpTo(c.sequence)) <= PageLimit}
  BY DEF Page, Above, UpTo

LEMMA AboveIs ==
    ASSUME LogInv, cursor \in Nat
    PROVE  /\ IsFiniteSet(Above)
           /\ \A c \in Above : c \in log /\ c.sequence \in Nat /\ cursor < c.sequence
                               /\ c.sequence <= head /\ c.message \in MessageId
           /\ \A n : /\ IsFiniteSet(UpTo(n)) /\ Cardinality(UpTo(n)) \in Nat
                     /\ UpTo(n) \subseteq Above
           /\ \A m, n \in Nat : m <= n => Cardinality(UpTo(m)) <= Cardinality(UpTo(n))
<1>1. Above \in SUBSET log
  BY DEF Above, Visible
<1>2. IsFiniteSet(Above)
  BY <1>1, FS_Subset DEF LogInv
<1>3. \A c \in Above : c \in log /\ c.sequence \in Nat /\ cursor < c.sequence
                       /\ c.sequence <= head /\ c.message \in MessageId
  BY <1>1 DEF LogInv, Above, Log!LogTypeOK, Log!Change
<1>4. ASSUME NEW n PROVE /\ IsFiniteSet(UpTo(n)) /\ Cardinality(UpTo(n)) \in Nat
                         /\ UpTo(n) \subseteq Above
  <2>1. UpTo(n) \in SUBSET Above
    BY DEF UpTo
  <2>2. IsFiniteSet(UpTo(n))
    BY <1>2, <2>1, FS_Subset
  <2> QED
    BY <2>1, <2>2, FS_CardinalityType
<1>5. ASSUME NEW m \in Nat, NEW n \in Nat, m <= n
      PROVE  Cardinality(UpTo(m)) <= Cardinality(UpTo(n))
  <2>1. UpTo(m) \in SUBSET UpTo(n)
    BY <1>3, <1>5 DEF UpTo
  <2> QED
    BY <1>4, <2>1, FS_Subset
<1> QED
  BY <1>2, <1>3, <1>4, <1>5

\* The page has all that precedes what it has.
LEMMA PageIsInitial ==
    ASSUME LogInv, cursor \in Nat, PageLimit \in Nat,
           NEW c \in Above, NEW d \in Page, c.sequence <= d.sequence
    PROVE  c \in Page
<1>1. d \in Above /\ Cardinality(UpTo(d.sequence)) <= PageLimit
  BY PageIs
<1>2. Cardinality(UpTo(c.sequence)) <= Cardinality(UpTo(d.sequence))
  BY <1>1, AboveIs
<1>3. Cardinality(UpTo(c.sequence)) \in Nat /\ Cardinality(UpTo(d.sequence)) \in Nat
  BY AboveIs
<1> QED
  BY <1>1, <1>2, <1>3, PageIs

\* Where it leaves something out it is full.
LEMMA PageIsFull ==
    ASSUME LogInv, cursor \in Nat, PageLimit \in Nat \ {0}, Page # Above
    PROVE  Cardinality(Page) = PageLimit
<1>1. Page \in SUBSET Above /\ IsFiniteSet(Page) /\ Cardinality(Page) \in Nat
  <2>1. Page \in SUBSET Above
    BY PageIs
  <2>2. IsFiniteSet(Page)
    BY <2>1, AboveIs, FS_Subset
  <2> QED
    BY <2>1, <2>2, FS_CardinalityType
<1>2. PICK S : S = {c.sequence : c \in Above \ Page}
  OBVIOUS
<1>3. S \in SUBSET Nat /\ S # {}
  BY <1>1, <1>2, AboveIs
<1>4. PICK u \in S : \A v \in S : u <= v
  BY <1>3, Least
<1>5. PICK c \in Above \ Page : c.sequence = u
  BY <1>2, <1>4
<1>6. Page \cup {c} = UpTo(u)
  <2>1. ASSUME NEW d \in Page PROVE d.sequence <= u
    <3>1. ~ (c.sequence <= d.sequence)
      BY <1>5, PageIsInitial
    <3> QED
      BY <1>1, <1>5, <3>1, AboveIs
  <2>2. ASSUME NEW d \in Above, d.sequence <= u, d \notin Page PROVE d = c
    <3>1. d.sequence = u
      BY <1>2, <1>3, <1>4, <2>2, AboveIs
    <3> QED
      BY <1>5, <3>1, AboveIs DEF LogInv
  <2> QED
    BY <1>1, <1>3, <1>5, <2>1, <2>2 DEF UpTo
<1>7. Cardinality(UpTo(u)) = Cardinality(Page) + 1
  BY <1>1, <1>5, <1>6, FS_AddElement
<1>8. Cardinality(Page) >= PageLimit
  <2>1. ~ (Cardinality(UpTo(u)) <= PageLimit)
    BY <1>5, PageIs
  <2> QED
    BY <1>1, <1>7, <2>1
<1>9. Page # {}
  BY <1>1, <1>8, FS_EmptySet
<1>10. PICK T : T = {d.sequence : d \in Page}
  OBVIOUS
<1>11. T \in SUBSET (0..head) /\ T # {} /\ head \in Nat
  BY <1>1, <1>9, <1>10, AboveIs DEF LogInv, Log!LogTypeOK
<1>12. PICK w \in T : \A v \in T : v <= w
  BY <1>11, Greatest
<1>13. PICK e \in Page : e.sequence = w
  BY <1>10, <1>12
<1>14. Page \in SUBSET UpTo(w)
  BY <1>1, <1>10, <1>12 DEF UpTo
<1>15. Cardinality(Page) <= Cardinality(UpTo(w)) /\ Cardinality(UpTo(w)) <= PageLimit
  BY <1>13, <1>14, AboveIs, FS_Subset, PageIs
<1>16. Cardinality(UpTo(w)) \in Nat
  BY AboveIs
<1> QED
  BY <1>1, <1>8, <1>15, <1>16

AsCopy(c) == [message |-> c.message, version |-> c.sequence,
              recalled |-> IsRecalled(c.message)]

\* A page of copies has as many as the page has changes.
LEMMA CopiesCounted ==
    ASSUME LogInv, cursor \in Nat
    PROVE  Cardinality({AsCopy(c) : c \in Page}) = Cardinality(Page)
<1> DEFINE T == {AsCopy(c) : c \in Page}
           f == [c \in Page |-> AsCopy(c)]
<1>1. Page \in SUBSET Above
  BY PageIs
<1>2. IsFiniteSet(Page)
  BY <1>1, AboveIs, FS_Subset
<1>3. \A c \in Page : AsCopy(c).version = c.sequence
  BY DEF AsCopy
<1>4. f \in Surjection(Page, T)
  <2>1. f \in [Page -> T]
    OBVIOUS
  <2>2. \A t \in T : \E c \in Page : f[c] = t
    OBVIOUS
  <2> QED
    BY <2>1, <2>2 DEF Surjection
<1>5. f \in Injection(Page, T)
  <2>1. f \in [Page -> T]
    OBVIOUS
  <2>2. ASSUME NEW c \in Page, NEW d \in Page, f[c] = f[d] PROVE c = d
    <3>1. c.sequence = d.sequence
      BY <1>3, <2>2
    <3> QED
      BY <1>1, <3>1, AboveIs DEF LogInv
  <2> QED
    BY <2>1, <2>2 DEF Injection, IsInjective
<1>6. Cardinality(T) = Cardinality(Page)
  <2> HIDE DEF T, f
  <2> QED
    BY <1>2, <1>4, <1>5, FS_Surjection, FS_CardinalityType
<1> QED
  BY <1>6

SyncShape == [job : Job, step : Step, page : SUBSET Copy, resync : BOOLEAN]

LEMMA PageTaken ==
    ASSUME SyncAssumption, LogInv, cursor \in Nat, cursor <= head, sync \in SyncShape,
           ReadPage
    PROVE  /\ PageInv' /\ sync' \in SyncShape
           /\ sync'.job = sync.job /\ sync'.step = "read"
           /\ Cardinality(sync'.page) # PageLimit =>
                \A c \in Visible' : c.sequence <= PageEnd'
<1>1. PICK copies : copies = {AsCopy(c) : c \in Page}
  OBVIOUS
<1>2. /\ sync' = [sync EXCEPT !.step = "read", !.page = copies]
      /\ UNCHANGED <<head, log, cursor>>
  BY <1>1 DEF ReadPage, AsCopy, serverVars, clientVars
<1>3. copies \in SUBSET Copy
  <2>1. ASSUME NEW c \in Page PROVE AsCopy(c) \in Copy
    <3>1. c.message \in MessageId /\ c.sequence \in Nat \ {0}
      BY PageIs, AboveIs DEF LogInv, Log!LogTypeOK, Log!Change
    <3>2. IsRecalled(c.message) \in BOOLEAN
      BY DEF IsRecalled
    <3> QED
      BY <3>1, <3>2 DEF AsCopy, Copy
  <2> QED
    BY <1>1, <2>1
<1>4. /\ sync' \in SyncShape /\ sync'.page = copies /\ sync'.step = "read"
      /\ sync'.job = sync.job
  BY <1>2, <1>3 DEF SyncShape, Step
<1>5. LogInv' /\ Visible' = Visible
  BY <1>2 DEF LogInv, Log!LogTypeOK, Visible
<1>6. \A c \in Page : /\ c \in Above /\ AsCopy(c) \in copies
                      /\ AsCopy(c).version = c.sequence /\ AsCopy(c).message = c.message
  BY <1>1, PageIs DEF AsCopy
<1>7. ASSUME NEW p \in copies PROVE \E c \in Page : p = AsCopy(c)
  BY <1>1
<1>8. PICK top : top = PageEnd'
  OBVIOUS
<1>9. copies # {} => /\ \E d \in Page : d.sequence = top
                     /\ \A p \in copies : p.version <= top
  <2> SUFFICES ASSUME copies # {} PROVE /\ \E d \in Page : d.sequence = top
                                        /\ \A p \in copies : p.version <= top
    OBVIOUS
  <2>1. PICK S : S = {p.version : p \in copies}
    OBVIOUS
  <2>2. S \in SUBSET (0..head) /\ S # {} /\ head \in Nat
    BY <1>6, <1>7, <2>1, AboveIs DEF LogInv, Log!LogTypeOK
  <2>3. \E x \in S : \A y \in S : x >= y
    <3>1. PICK u \in S : \A v \in S : v <= u
      BY <2>2, Greatest
    <3> QED
      BY <2>2, <3>1
  <2>4. top = CHOOSE x \in S : \A y \in S : x >= y
    BY <1>4, <1>8, <2>1 DEF PageEnd, Max
  <2>5. top \in S /\ \A y \in S : y <= top
    BY <2>2, <2>3, <2>4
  <2> QED
    BY <1>6, <1>7, <2>1, <2>5
<1>10. copies = {} => top = cursor
  BY <1>2, <1>4, <1>8 DEF PageEnd
<1>11. PageInv'
  <2>1. ASSUME NEW p \in copies PROVE cursor < p.version /\ p.version <= head
    BY <1>6, <1>7, AboveIs
  <2>2. ASSUME NEW c \in Visible, cursor < c.sequence, c.sequence <= top
        PROVE  \E p \in copies : p.message = c.message /\ p.version = c.sequence
    <3>1. c \in Above
      BY <2>2 DEF Above
    <3>2. copies # {}
      BY <1>10, <2>2, <3>1, AboveIs
    <3>3. PICK d \in Page : d.sequence = top
      BY <1>9, <3>2
    <3>4. c \in Page
      BY <2>2, <3>1, <3>3, PageIsInitial, SyncAssumption DEF SyncAssumption
    <3> QED
      BY <1>6, <3>4
  <2> QED
    BY <1>2, <1>4, <1>5, <1>8, <2>1, <2>2 DEF PageInv, PageRead
<1>12. ASSUME Cardinality(copies) # PageLimit, NEW c \in Visible PROVE c.sequence <= top
  <2>1. Cardinality(Page) = Cardinality(copies)
    BY <1>1, CopiesCounted
  <2>2. Page = Above
    BY <1>12, <2>1, PageIsFull, SyncAssumption DEF SyncAssumption
  <2>3. c.sequence \in Nat
    BY DEF Visible, LogInv, Log!LogTypeOK, Log!Change
  <2>4. CASE c \in Above
    <3>1. AsCopy(c) \in copies
      BY <1>6, <2>2, <2>4
    <3>2. AsCopy(c).version <= top
      BY <1>9, <3>1
    <3> QED
      BY <1>6, <2>2, <2>4, <3>2
  <2>5. CASE c \notin Above
    <3>1. c.sequence <= cursor
      BY <2>3, <2>5 DEF Above
    <3>2. cursor <= top
      BY <1>2, <1>9, <1>10, <1>6, AboveIs
    <3>3. top \in Nat
      BY <1>9, <1>10, <1>6, AboveIs
    <3> QED
      BY <2>3, <3>1, <3>2, <3>3
  <2> QED
    BY <2>4, <2>5
<1> QED
  BY <1>4, <1>5, <1>8, <1>11, <1>12
-----------------------------------------------------------------------------
(* Types, and the versions the tab shows.                                  *)

LEMMA LatestIs ==
    ASSUME LogInv, NEW m, NEW c \in log, c.message = m
    PROVE  Latest(m) \in log /\ Latest(m).message = m
<1>1. PICK S : S = {d.sequence : d \in Log!Of(m)}
  OBVIOUS
<1>2. Log!Of(m) \subseteq log /\ c \in Log!Of(m) /\ \A d \in Log!Of(m) : d.message = m
  BY DEF Log!Of
<1>3. S \in SUBSET (0..head) /\ S # {} /\ head \in Nat
  BY <1>1, <1>2 DEF LogInv, Log!LogTypeOK, Log!Change
<1>4. PICK u \in S : \A v \in S : v <= u
  BY <1>3, Greatest
<1>5. \E d \in Log!Of(m) : \A e \in Log!Of(m) : e.sequence <= d.sequence
  BY <1>1, <1>4
<1>6. Latest(m) \in Log!Of(m)
  BY <1>5 DEF Latest
<1> QED
  BY <1>2, <1>6

LEMMA AskingIs ==
    ASSUME NEW job \in {"full", "checkpoint"}
    PROVE  /\ Asking(job) \in SyncShape
           /\ Asking(job).job = job /\ Asking(job).step = "asking"
  BY DEF Asking, NoSync, SyncShape, Job, Step

LEMMA NoSyncIs == NoSync \in SyncShape /\ NoSync.job = "none" /\ NoSync.step = "idle"
  BY DEF NoSync, SyncShape, Job, Step

LEMMA MergedPage ==
    ASSUME TypeOK, LogInv, PageInv, sync.step = "answered"
    PROVE  /\ Shows(Merge(sync.page)) /\ NoNewer(cache, Merge(sync.page))
           /\ \A p \in sync.page : Merge(sync.page)[p.message].version >= p.version
<1>1. Shows(cache) /\ head \in Nat /\ sync.page \in SUBSET Copy
  BY DEF TypeOK, Shows, LogInv, Log!LogTypeOK
<1>2. \A p \in sync.page : p.version <= head
  BY DEF PageInv, PageRead
<1> QED
  BY <1>1, <1>2, MergeForward

LEMMA MergedLoad ==
    ASSUME TypeOK, load # NoLoad
    PROVE  Shows(Merge({load})) /\ NoNewer(cache, Merge({load}))
<1>1. Shows(cache) /\ load \in Copy /\ load.version \in Nat
  BY DEF TypeOK, Shows, Copy
<1>2. {load} \in SUBSET Copy /\ \A p \in {load} : p.version <= load.version
  BY <1>1
<1> QED
  BY <1>1, <1>2, MergeForward

LEMMA ShownStep ==
    ASSUME SyncAssumption, TypeOK, LogInv, PageInv, Next
    PROVE  Shows(cache') /\ NoNewer(cache, cache')
<1>0. Shows(cache) /\ NoNewer(cache, cache)
  BY DEF TypeOK, Shows, NoNewer, Version
<1>1. ASSUME Receive PROVE Shows(cache') /\ NoNewer(cache, cache')
  <2>1. PICK e : e = Head(wire) /\ wire # <<>>
    BY <1>1 DEF Receive
  <2>2. e # Ready => e \in Log!Change
    BY <2>1 DEF TypeOK
  <2>3. cache' = cache \/ (e # Ready /\ cache' = Applied(cache, e))
    BY <1>1, <2>1 DEF Receive
  <2> QED
    BY <1>0, <2>2, <2>3, AppliedForward
<1>2. ASSUME HandleAnswer PROVE Shows(cache') /\ NoNewer(cache, cache')
  <2>1. sync.step = "answered" /\ (cache' = cache \/ cache' = Merge(sync.page))
    BY <1>2 DEF HandleAnswer
  <2> QED
    BY <1>0, <2>1, MergedPage
<1>3. ASSUME FinishFullSync PROVE Shows(cache') /\ NoNewer(cache, cache')
  <2>1. cache' = Flushed /\ buffer \in Seq(Log!Change)
    BY <1>3 DEF FinishFullSync, TypeOK
  <2> QED
    BY <1>0, <2>1, FlushedForward
<1>4. ASSUME RoomLoaded PROVE Shows(cache') /\ NoNewer(cache, cache')
  <2>1. load # NoLoad /\ cache' = Merge({load})
    BY <1>4 DEF RoomLoaded
  <2> QED
    BY <2>1, MergedLoad
<1>5. ASSUME cache' = cache PROVE Shows(cache') /\ NoNewer(cache, cache')
  BY <1>0, <1>5
<1> QED
  BY <1>1, <1>2, <1>3, <1>4, <1>5 DEF Next, Commit, DeleteRoom, Publish, Connect,
     RestoreSubscriptions, EmitReady, Disconnect, Revoke, RestoreRevoked, Tick,
     ReadPage, ReadBounds, FailFullSync, FailCheckpoint, LoadRoom, clientVars

\* What TypeOK says, by its parts.
Chain ==
    /\ sync \in SyncShape
    /\ sync.step = "idle" <=> sync.job = "none"
    /\ sync.job = "full" => syncing
    /\ sync.step = "refreshing" => sync.job = "full"
    /\ queued => sync.job = "checkpoint"
    /\ syncing \in BOOLEAN /\ queued \in BOOLEAN

Packet == Log!Change \cup {Ready}

Socket ==
    /\ server \in {"absent", "connected", "joined", "ready", "revoked"}
    /\ connected \in BOOLEAN
    /\ connected <=> server # "absent"
    /\ wire \in Seq(Packet)
    /\ ~connected => wire = <<>>
    /\ buffer \in Seq(Log!Change)
    /\ unsent \subseteq Log!Change
LEMMA TypedByParts ==
    /\ TypeOK => Chain /\ Socket
    /\ Chain' /\ Socket' /\ LogInv' /\ Shows(cache') /\ cursor' \in Nat
         /\ dirty' \in BOOLEAN /\ load' \in Copy \cup {NoLoad} /\ faults' \in Nat
         /\ promised' \in Nat => TypeOK'
  BY DEF TypeOK, Chain, Socket, Packet, SyncShape, LogInv, Shows

LEMMA Longer == ASSUME NEW S, NEW q \in Seq(S), NEW x \in S PROVE Append(q, x) \in Seq(S)
  OBVIOUS

LEMMA Packets == /\ Ready \in Packet /\ \A c \in Log!Change : c \in Packet /\ c # Ready
                 /\ \A e \in Packet : e # Ready => e \in Log!Change
  BY DEF Ready, Packet, Log!Change, Log!Kind

LEMMA SocketStep ==
    ASSUME SyncAssumption, TypeOK, LogInv, Next
    PROVE  Socket'
<1>0. Socket
  BY TypedByParts
<1>1. ASSUME NEW m \in MessageId, NEW kind \in Kind, Commit(m, kind) PROVE Socket'
  <2>1. PICK v, c :
          /\ v \in 1..MaxChange
          /\ c = [sequence |-> head + 1, message |-> m, room |-> RoomOf[m],
                  revision |-> v, kind |-> kind, actor |-> "peer",
                  command |-> head + 1]
          /\ head < MaxChange /\ unsent' = unsent \cup {c}
    BY <1>1 DEF Commit
  <2>2. c \in Log!Change
    BY <2>1, SyncAssumption DEF SyncAssumption, Log!Change, Kind, Log!Kind, LogInv,
       Log!LogTypeOK
  <2> QED
    BY <1>0, <1>1, <2>1, <2>2 DEF Commit, Socket, socketVars, clientVars
<1>2. ASSUME NEW c \in unsent, Publish(c) PROVE Socket'
  <2>1. wire' \in Seq(Packet) /\ (wire' = wire \/ server # "absent")
    <3>1. c \in Packet /\ wire \in Seq(Packet)
      BY <1>0, Packets DEF Socket
    <3>2. wire' = wire \/ (wire' = Append(wire, c) /\ server # "absent")
      BY <1>2 DEF Publish, Subscribed
    <3> QED
      BY <3>1, <3>2, Longer
  <2> QED
    BY <1>0, <1>2, <2>1 DEF Publish, Socket, clientVars
<1>3. ASSUME NEW r \in Room, DeleteRoom(r) PROVE Socket'
  BY <1>0, <1>3 DEF DeleteRoom, Socket, socketVars, clientVars
<1>4. ASSUME Connect \/ RestoreSubscriptions \/ EmitReady PROVE Socket'
  <2>1. wire' \in Seq(Packet)
    BY <1>0, <1>4, Packets, Longer DEF Connect, RestoreSubscriptions, EmitReady, Socket,
       socketVars
  <2> QED
    BY <1>0, <1>4, <2>1 DEF Connect, RestoreSubscriptions, EmitReady, Socket, socketVars,
       clientVars, serverVars
<1>5. ASSUME Disconnect \/ Revoke \/ RestoreRevoked PROVE Socket'
  <2>1. wire' \in Seq(Packet)
    <3>1. wire \in Seq(Packet) /\ <<>> \in Seq(Packet)
      BY <1>0 DEF Socket
    <3>2. wire' \in {wire, <<>>, Append(wire, Ready)}
      BY <1>5 DEF Disconnect, Revoke, RestoreRevoked
    <3> QED
      BY <3>1, <3>2, Packets, Longer
  <2> QED
    BY <1>0, <1>5, <2>1 DEF Disconnect, Revoke, RestoreRevoked, Socket, clientVars,
       serverVars
<1>6. ASSUME Receive PROVE Socket'
  <2>1. PICK e : e = Head(wire) /\ wire # <<>> /\ wire' = Tail(wire)
    BY <1>6 DEF Receive
  <2>2. e \in Packet /\ wire' \in Seq(Packet)
    BY <1>0, <2>1 DEF Socket
  <2>3. buffer' = buffer \/ (e # Ready /\ buffer' = Append(buffer, e))
    BY <1>6, <2>1 DEF Receive
  <2>4. buffer' \in Seq(Log!Change)
    <3>1. e # Ready => e \in Log!Change
      BY <2>2, Packets
    <3>2. buffer \in Seq(Log!Change)
      BY <1>0 DEF Socket
    <3> QED
      BY <2>3, <3>1, <3>2, Longer
  <2>5. connected
    BY <1>0, <2>1 DEF Socket
  <2> QED
    BY <1>0, <1>6, <2>2, <2>4, <2>5 DEF Receive, Socket, serverVars
<1>7. ASSUME FinishFullSync PROVE Socket'
  BY <1>0, <1>7 DEF FinishFullSync, Socket, serverVars, socketVars
<1>8. ASSUME FailFullSync PROVE Socket'
  <2>1. wire' = <<>> /\ wire' \in Seq(Packet)
    BY <1>8 DEF FailFullSync
  <2> QED
    BY <1>0, <1>8, <2>1 DEF FailFullSync, Socket, serverVars
<1>9. ASSUME UNCHANGED <<unsent, server, connected, wire, buffer>> PROVE Socket'
  BY <1>0, <1>9 DEF Socket
<1> QED
  BY <1>1, <1>2, <1>3, <1>4, <1>5, <1>6, <1>7, <1>8, <1>9 DEF Next, Tick, ReadPage,
     ReadBounds, HandleAnswer, FailCheckpoint, LoadRoom, RoomLoaded, clientVars,
     serverVars, socketVars

LEMMA ChainStep ==
    ASSUME SyncAssumption, TypeOK, LogInv, PageInv, Next
    PROVE  Chain'
<1>0. Chain
  BY TypedByParts
<1>1. ASSUME Receive PROVE Chain'
  <2>1. Synchronize \/ UNCHANGED <<sync, queued, syncing>>
    BY <1>1 DEF Receive
  <2>2. CASE Synchronize
    <3>1. CASE Coalesced
      BY <1>0, <2>2, <3>1 DEF Synchronize, Chain
    <3>2. CASE ~Coalesced /\ sync.job = "none"
      <4>1. sync' = Asking("full") /\ syncing' = TRUE /\ queued' = queued
        BY <2>2, <3>2 DEF Synchronize
      <4>2. ~ queued
        BY <1>0, <3>2 DEF Chain
      <4> QED
        BY <1>0, <4>1, <4>2, AskingIs DEF Chain
    <3>3. CASE ~Coalesced /\ sync.job # "none"
      <4>1. queued' = TRUE /\ UNCHANGED <<sync, syncing>>
        BY <2>2, <3>3 DEF Synchronize
      <4>2. sync.job = "checkpoint"
        BY <1>0, <3>3 DEF Coalesced, FullSyncOutstanding, Chain, SyncShape, Job
      <4> QED
        BY <1>0, <4>1, <4>2 DEF Chain
    <3> QED
      BY <3>1, <3>2, <3>3
  <2> QED
    BY <1>0, <2>1, <2>2 DEF Chain
<1>2. ASSUME Tick PROVE Chain'
  <2>1. sync' = Asking("checkpoint") /\ UNCHANGED <<queued, syncing>> /\ sync.job = "none"
    BY <1>2 DEF Tick, clientVars
  <2> QED
    BY <1>0, <2>1, AskingIs DEF Chain
<1>3. ASSUME ReadPage PROVE Chain'
  <2>1. /\ sync' \in SyncShape /\ sync'.job = sync.job /\ sync'.step = "read"
        /\ sync.step = "asking" /\ UNCHANGED <<queued, syncing>>
    <3>1. cursor \in Nat /\ cursor <= head /\ sync \in SyncShape
      BY <1>0 DEF PageInv, Chain
    <3> QED
      BY <1>3, <3>1, PageTaken DEF ReadPage, clientVars
  <2> QED
    BY <1>0, <2>1 DEF Chain
<1>4. ASSUME ReadBounds PROVE Chain'
  <2>1. PICK b \in BOOLEAN : sync' = [sync EXCEPT !.step = "answered", !.resync = b]
    BY <1>4 DEF ReadBounds, ResyncRequired
  <2>2. UNCHANGED <<queued, syncing>> /\ sync.step = "read"
    BY <1>4 DEF ReadBounds, clientVars
  <2>3. sync' \in SyncShape /\ sync'.job = sync.job /\ sync'.step = "answered"
    BY <1>0, <2>1 DEF Chain, SyncShape, Step
  <2> QED
    BY <1>0, <2>2, <2>3 DEF Chain
<1>5. ASSUME EndCheckpoint PROVE Chain'
  <2>1. CASE queued
    BY <1>0, <1>5, <2>1, AskingIs DEF EndCheckpoint, Chain
  <2>2. CASE ~queued
    BY <1>0, <1>5, <2>2, NoSyncIs DEF EndCheckpoint, Chain
  <2> QED
    BY <2>1, <2>2
<1>6. ASSUME HandleAnswer PROVE Chain'
  <2>1. sync.step = "answered" /\ sync.job \in {"full", "checkpoint"}
    BY <1>0, <1>6 DEF HandleAnswer, Chain, SyncShape, Job
  <2>2. CASE sync' = Asking(sync.job) /\ UNCHANGED <<syncing, queued>>
    BY <1>0, <2>1, <2>2, AskingIs DEF Chain
  <2>3. CASE /\ sync.job = "full" /\ UNCHANGED <<syncing, queued>>
             /\ sync' = [NoSync EXCEPT !.job = "full", !.step = "refreshing"]
    <3>1. sync' \in SyncShape /\ sync'.job = "full" /\ sync'.step = "refreshing"
      BY <2>3 DEF NoSync, SyncShape, Job, Step
    <3> QED
      BY <1>0, <2>3, <3>1 DEF Chain
  <2> QED
    BY <1>5, <1>6, <2>2, <2>3 DEF HandleAnswer
<1>7. ASSUME FinishFullSync \/ FailFullSync PROVE Chain'
  <2>1. sync' = NoSync /\ syncing' = FALSE /\ queued' = queued /\ sync.job = "full"
    BY <1>0, <1>7 DEF FinishFullSync, FailFullSync, Chain
  <2> QED
    BY <1>0, <2>1, NoSyncIs DEF Chain
<1>8. ASSUME Connect PROVE Chain'
  BY <1>0, <1>8 DEF Connect, Chain
<1>9. ASSUME UNCHANGED <<sync, queued, syncing>> PROVE Chain'
  BY <1>0, <1>9 DEF Chain
<1> QED
  BY <1>1, <1>2, <1>3, <1>4, <1>5, <1>6, <1>7, <1>8, <1>9 DEF Next, Commit, DeleteRoom,
     Publish, RestoreSubscriptions, EmitReady, Disconnect, Revoke, RestoreRevoked,
     FailCheckpoint, LoadRoom, RoomLoaded, clientVars
LEMMA NoPage ==
    ASSUME LogMoves, head \in Nat, cursor' \in Nat, cursor' <= head,
           sync'.step \notin {"read", "answered"}
    PROVE  PageInv'
  BY DEF PageInv, PageRead, LogMoves

LEMMA PageStep ==
    ASSUME SyncAssumption, TypeOK, LogInv, PageInv, Next
    PROVE  PageInv'
<1>0. /\ LogInv' /\ LogMoves /\ head \in Nat /\ cursor \in Nat /\ cursor <= head
      /\ sync \in SyncShape /\ sync.page \subseteq Copy
  BY LogStep, TypedByParts DEF LogInv, Log!LogTypeOK, PageInv, Chain, SyncShape
<1>1. ASSUME UNCHANGED <<sync, cursor>> PROVE PageInv'
  BY <1>0, <1>1, PageStays
<1>2. ASSUME EndCheckpoint, cursor' \in Nat, cursor' <= head PROVE PageInv'
  <2>1. sync'.step \in {"asking", "idle"}
    BY <1>2, AskingIs, NoSyncIs DEF EndCheckpoint
  <2> QED
    BY <1>0, <1>2, <2>1, NoPage
<1>3. ASSUME Receive PROVE PageInv'
  <2>1. cursor' = cursor /\ (sync' = sync \/ sync' = Asking("full"))
    BY <1>3 DEF Receive, Synchronize
  <2> QED
    BY <1>0, <1>1, <2>1, AskingIs, NoPage
<1>4. ASSUME Tick PROVE PageInv'
  <2>1. cursor' = cursor /\ sync' = Asking("checkpoint")
    BY <1>4 DEF Tick, clientVars
  <2> QED
    BY <1>0, <2>1, AskingIs, NoPage
<1>5. ASSUME ReadPage PROVE PageInv'
  BY <1>0, <1>5, PageTaken
<1>6. ASSUME ReadBounds PROVE PageInv'
  <2>1. PICK b \in BOOLEAN : sync' = [sync EXCEPT !.step = "answered", !.resync = b]
    BY <1>6 DEF ReadBounds, ResyncRequired
  <2>2. sync'.page = sync.page /\ sync.step = "read" /\ UNCHANGED <<cursor, head, log>>
    BY <1>0, <1>6, <2>1 DEF ReadBounds, SyncShape, clientVars, serverVars
  <2>3. PageEnd' = PageEnd /\ Visible' = Visible
    BY <2>2 DEF PageEnd, Max, Visible
  <2> QED
    BY <2>2, <2>3 DEF PageInv, PageRead
<1>7. ASSUME HandleAnswer PROVE PageInv'
  <2>1. PageEnd \in Nat /\ PageEnd <= head
    BY <1>0, <1>7, EndOfPage DEF HandleAnswer, PageRead
  <2>2. cursor' \in Nat /\ cursor' <= head
    BY <1>0, <1>7, <2>1 DEF HandleAnswer, NextCursor
  <2>3. CASE EndCheckpoint
    BY <1>2, <2>2, <2>3
  <2>4. CASE sync' = Asking(sync.job)
    <3>1. sync.job \in {"full", "checkpoint"}
      BY <1>7, TypedByParts DEF HandleAnswer, Chain, SyncShape, Job
    <3> QED
      BY <1>0, <2>2, <2>4, <3>1, AskingIs, NoPage
  <2>5. CASE sync' = [NoSync EXCEPT !.job = "full", !.step = "refreshing"]
    <3>1. sync'.step = "refreshing"
      BY <2>5 DEF NoSync
    <3> QED
      BY <1>0, <2>2, <3>1, NoPage
  <2> QED
    BY <1>7, <2>3, <2>4, <2>5 DEF HandleAnswer
<1>8. ASSUME FinishFullSync \/ FailFullSync PROVE PageInv'
  <2>1. sync' = NoSync /\ cursor' = cursor
    BY <1>8 DEF FinishFullSync, FailFullSync
  <2> QED
    BY <1>0, <2>1, NoSyncIs, NoPage
<1>9. ASSUME FailCheckpoint PROVE PageInv'
  BY <1>0, <1>2, <1>9 DEF FailCheckpoint
<1> QED
  BY <1>1, <1>3, <1>4, <1>5, <1>6, <1>7, <1>8, <1>9 DEF Next, Commit, DeleteRoom,
     Publish, Connect, RestoreSubscriptions, EmitReady, Disconnect, Revoke,
     RestoreRevoked, LoadRoom, RoomLoaded, clientVars

-----------------------------------------------------------------------------
(* Nothing falls behind the cursor.                                        *)

\* What a log that moved on has up to its head it had before.
LEMMA SeenBefore ==
    ASSUME LogInv, LogMoves, NEW c \in Visible', NEW n \in Nat, c.sequence <= n, n <= head
    PROVE  c \in Visible
  BY DEF LogInv, Log!LogTypeOK, LogMoves, Visible

LEMMA StillHolds ==
    ASSUME TypeOK, LogInv, NoNewer(cache, cache'), Shows(cache'), NEW c \in log, Holds(c)
    PROVE  Holds(c)'
<1>1. c.message \in MessageId /\ c.sequence \in Nat
  BY DEF LogInv, Log!LogTypeOK, Log!Change
<1>2. cache[c.message].version \in Nat /\ cache'[c.message].version \in Nat
  BY <1>1 DEF TypeOK, Shows, Version
<1> QED
  BY <1>1, <1>2 DEF NoNewer, Holds

\* An answer's page leaves nothing out up to its end.
LEMMA AnswerHolds ==
    ASSUME SyncAssumption, TypeOK, LogInv, PageInv, NothingBehindCursor, HandleAnswer,
           cache' = Merge(sync.page), NEW c \in Visible, c.sequence <= PageEnd
    PROVE  Holds(c)'
<1>1. sync.step = "answered" /\ PageRead
  BY DEF HandleAnswer, PageRead
<1>2. c \in log /\ c.sequence \in Nat /\ cursor \in Nat
  BY DEF Visible, LogInv, Log!LogTypeOK, Log!Change, PageInv
<1>3. CASE c.sequence <= cursor
  BY <1>1, <1>2, <1>3, MergedPage, StillHolds DEF NothingBehindCursor
<1>4. CASE cursor < c.sequence
  <2>1. PICK p \in sync.page : p.message = c.message /\ p.version = c.sequence
    BY <1>1, <1>4 DEF PageInv
  <2> QED
    BY <1>1, <2>1, MergedPage DEF Holds
<1> QED
  BY <1>2, <1>3, <1>4

LEMMA BehindStep ==
    ASSUME SyncAssumption, TypeOK, LogInv, PageInv, NothingBehindCursor, Next
    PROVE  NothingBehindCursor'
<1>0. /\ LogInv' /\ LogMoves /\ head \in Nat /\ cursor \in Nat /\ cursor <= head
      /\ Shows(cache') /\ NoNewer(cache, cache')
  BY LogStep, ShownStep DEF LogInv, Log!LogTypeOK, PageInv
<1>1. ASSUME cursor' = cursor PROVE NothingBehindCursor'
  <2>1. ASSUME NEW c \in Visible', c.sequence <= cursor PROVE Holds(c)'
    <3>1. c \in Visible /\ c \in log
      BY <1>0, <2>1, SeenBefore DEF Visible
    <3> QED
      BY <1>0, <2>1, <3>1, StillHolds DEF NothingBehindCursor
  <2> QED
    BY <1>1, <2>1 DEF NothingBehindCursor
<1>2. ASSUME HandleAnswer PROVE NothingBehindCursor'
  <2>0. Visible' = Visible /\ PageRead
    BY <1>2 DEF HandleAnswer, Visible, serverVars, PageRead
  <2>1. CASE sync.resync
    <3>1. cursor' = 0
      BY <1>2, <2>1 DEF HandleAnswer
    <3>2. \A c \in Visible : c.sequence \in Nat /\ c.sequence # 0
      BY DEF Visible, LogInv, Log!LogTypeOK, Log!Change
    <3> QED
      BY <2>0, <3>1, <3>2 DEF NothingBehindCursor
  <2>2. CASE ~ sync.resync
    <3>1. cursor' = PageEnd /\ cache' = Merge(sync.page)
      BY <1>2, <2>2 DEF HandleAnswer, NextCursor
    <3> QED
      BY <1>2, <2>0, <3>1, AnswerHolds DEF NothingBehindCursor
  <2> QED
    BY <2>1, <2>2
<1> QED
  BY <1>1, <1>2 DEF Next, Commit, DeleteRoom, Publish, Connect, RestoreSubscriptions,
     EmitReady, Disconnect, Revoke, RestoreRevoked, Receive, Tick, ReadPage, ReadBounds,
     FinishFullSync, FailFullSync, FailCheckpoint, LoadRoom, RoomLoaded, clientVars

CursorInv == TypeOK /\ LogInv /\ PageInv /\ NothingBehindCursor
LEMMA InitCursor == SyncAssumption /\ Init => CursorInv
<1> SUFFICES ASSUME SyncAssumption, Init PROVE CursorInv
  OBVIOUS
<1>1. head = 0 /\ log = {}
  BY DEF Init, Log!LogInit
<1>2. LogInv
  BY <1>1, FS_EmptySet DEF LogInv, Log!LogTypeOK
<1>3. sync = NoSync /\ PageInv /\ NothingBehindCursor
  BY <1>1, NoSyncIs DEF Init, PageInv, PageRead, NothingBehindCursor, Visible
<1>4. cache \in [MessageId -> Version]
  BY DEF Init, Unseen, Version
<1>5. Log!LogTypeOK /\ unsent \subseteq Log!Change
  BY <1>2 DEF LogInv, Init
<1>6. wire = <<>> /\ buffer = <<>> /\ cursor = 0 /\ faults = 0 /\ promised = 0
  BY DEF Init
<1>7. wire \in Seq(Log!Change \cup {Ready}) /\ buffer \in Seq(Log!Change)
  BY <1>6
<1>8. /\ syncing = TRUE /\ dirty = FALSE /\ queued = FALSE /\ connected = FALSE
      /\ server = "absent" /\ load = NoLoad
  BY DEF Init
<1>9. TypeOK
  BY <1>3, <1>4, <1>5, <1>6, <1>7, <1>8, NoSyncIs DEF TypeOK, SyncShape
<1> QED
  BY <1>2, <1>3, <1>9 DEF CursorInv

LEMMA TypeStep ==
    ASSUME SyncAssumption, TypeOK, LogInv, PageInv, Next
    PROVE  TypeOK'
<1>1. LogInv' /\ Chain' /\ Socket' /\ Shows(cache') /\ cursor' \in Nat
  BY LogStep, ChainStep, SocketStep, ShownStep, PageStep DEF PageInv
<1>2. dirty' \in BOOLEAN /\ faults' \in Nat /\ promised' \in Nat
  <2>1. dirty' = dirty \/ dirty' = TRUE \/ dirty' = FALSE \/ dirty' = (dirty \/ buffer # <<>>)
    BY DEF Next, Commit, DeleteRoom, Publish, Connect,
     RestoreSubscriptions, EmitReady, Disconnect, Revoke, RestoreRevoked, Receive, Tick,
     ReadPage, ReadBounds, HandleAnswer, FinishFullSync, FailFullSync, FailCheckpoint,
     LoadRoom, RoomLoaded, clientVars
  <2>2. faults' = faults \/ faults' = faults + 1
    BY DEF Next, Commit, DeleteRoom, Publish, Connect,
     RestoreSubscriptions, EmitReady, Disconnect, Revoke, RestoreRevoked, Receive, Tick,
     ReadPage, ReadBounds, HandleAnswer, FinishFullSync, FailFullSync, FailCheckpoint,
     LoadRoom, RoomLoaded, Fault
  <2>3. promised' = promised \/ promised' = 0 \/ promised' = head
    BY DEF Next, Commit, DeleteRoom, Publish, Connect,
     RestoreSubscriptions, EmitReady, Disconnect, Revoke, RestoreRevoked, Receive, Tick,
     ReadPage, ReadBounds, HandleAnswer, FinishFullSync, FailFullSync, FailCheckpoint,
     LoadRoom, RoomLoaded
  <2>4. dirty \in BOOLEAN /\ faults \in Nat /\ promised \in Nat /\ head \in Nat
    BY DEF TypeOK, LogInv, Log!LogTypeOK
  <2>5. dirty' \in BOOLEAN
    BY <2>1, <2>4, Zenon
  <2> QED
    BY <2>2, <2>3, <2>4, <2>5
<1>3. ASSUME NEW m \in Opened, LoadRoom(m) PROVE load' \in Copy
  <2>1. PICK c \in log : c.message = m
    BY <1>3 DEF LoadRoom, Visible
  <2>2. Latest(m) \in log
    BY <2>1, LatestIs
  <2>3. Latest(m).sequence \in Nat \ {0} /\ m \in MessageId
    BY <2>2, SyncAssumption DEF LogInv, Log!LogTypeOK, Log!Change, SyncAssumption
  <2>4. IsRecalled(m) \in BOOLEAN
    BY DEF IsRecalled
  <2> QED
    BY <1>3, <2>3, <2>4 DEF LoadRoom, Copy
<1>4. load' \in Copy \cup {NoLoad}
  BY <1>3 DEF TypeOK, Next, Commit, DeleteRoom, Publish, Connect,
     RestoreSubscriptions, EmitReady, Disconnect, Revoke, RestoreRevoked, Receive, Tick,
     ReadPage, ReadBounds, HandleAnswer, FinishFullSync, FailFullSync, FailCheckpoint,
     RoomLoaded
<1> QED
  BY <1>1, <1>2, <1>4, TypedByParts

LEMMA StepCursor == SyncAssumption /\ CursorInv /\ [Next]_vars => CursorInv'
<1>1. SyncAssumption /\ CursorInv /\ Next => CursorInv'
  BY LogStep, TypeStep, PageStep, BehindStep DEF CursorInv
<1>2. ASSUME CursorInv, UNCHANGED vars PROVE CursorInv'
  <2>1. Visible' = Visible /\ PageEnd' = PageEnd
    BY <1>2 DEF vars, serverVars, clientVars, Visible, PageEnd, Max
  <2> QED
    BY <1>2, <2>1 DEF vars, serverVars, socketVars, clientVars, CursorInv, TypeOK, LogInv,
       Log!LogTypeOK, PageInv, PageRead, NothingBehindCursor, Holds
<1> QED
  BY <1>1, <1>2

\* What TypeOK says of the tab and its socket, among it that events are held
\* back through a full sync and that a full sync waits only behind a checkpoint.
THEOREM TabIsTyped == Spec => []TypeOK
<1>1. CursorInv => TypeOK
  BY DEF CursorInv
<1> QED
  BY <1>1, InitCursor, StepCursor, SyncAssumption, PTL DEF Spec

\* However pages, live events, room loads, resets and failures overtake each
\* other, for any log and page size: no later GET /sync leaves out what the tab
\* lacks, and no copy that mergeMessages or an event's handler puts in is older than
\* the one it replaces.
THEOREM NothingIsOutdated == Spec => NeverOutdated
<1>1. CursorInv => NothingBehindCursor
  BY DEF CursorInv
<1>2. CursorInv /\ [Next]_vars =>
        [\A m \in MessageId : cache'[m].version >= cache[m].version]_vars
  BY SyncAssumption, ShownStep DEF CursorInv, NoNewer
<1>3. Init => CursorInv
  BY SyncAssumption, InitCursor
<1>4. CursorInv /\ [Next]_vars => CursorInv'
  BY SyncAssumption, StepCursor
<1> QED
  BY <1>1, <1>2, <1>3, <1>4, PTL DEF Spec, NeverOutdated, VersionsMoveForward

-----------------------------------------------------------------------------
(* Recovery, while no connection is lost and no socket revoked during a    *)
(* full sync. Then realtime_ready is heard only where none is outstanding  *)
(* (OneReady), so the sync it starts reads all that was promised.          *)

NoReady == \A i \in DOMAIN wire : wire[i] # Ready

OneReady ==
    /\ \A i, j \in DOMAIN wire : wire[i] = Ready /\ wire[j] = Ready => i = j
    /\ FullSyncOutstanding \/ server # "ready" => NoReady
    /\ FullSyncOutstanding => server = "ready"

Promised(n) == \A c \in Visible : c.sequence <= promised => c.sequence <= n

Kept == \A c \in Visible : c.sequence <= promised => Holds(c)

Promise ==
    /\ promised <= head
    /\ sync.job = "full" /\ PageRead /\ ~HasMore => Promised(PageEnd)
    /\ sync.step = "refreshing" => Promised(cursor)
    /\ connected /\ ~FullSyncOutstanding => Kept

LEMMA OneReadyStep ==
    ASSUME SyncAssumption, TypeOK, ~FaultDuringSync, OneReady, Next
    PROVE  OneReady'
<1>0. Chain /\ Socket
  BY TypedByParts
<1>1. ASSUME UNCHANGED <<wire, server>>, FullSyncOutstanding' => FullSyncOutstanding
      PROVE  OneReady'
  BY <1>1 DEF OneReady, NoReady
<1>2. ASSUME UNCHANGED <<sync, queued>>, NoReady, wire' = Append(wire, Ready),
             server' = "ready", ~FullSyncOutstanding
      PROVE  OneReady'
  <2>1. /\ Len(wire) \in Nat /\ DOMAIN wire = 1..Len(wire)
        /\ DOMAIN wire' = 1..(Len(wire) + 1)
        /\ \A i \in DOMAIN wire : wire'[i] = wire[i]
    BY <1>0, <1>2 DEF Socket
  <2>2. \A i \in DOMAIN wire' : wire'[i] = Ready => i = Len(wire) + 1
    BY <1>2, <2>1 DEF NoReady
  <2> QED
    BY <1>2, <2>2 DEF OneReady, FullSyncOutstanding
<1>3. ASSUME wire' = <<>>, ~FullSyncOutstanding' PROVE OneReady'
  BY <1>3 DEF OneReady, NoReady
<1>4. ASSUME NEW c \in unsent, Publish(c) PROVE OneReady'
  <2>1. c # Ready /\ UNCHANGED <<server, sync, queued>>
    BY <1>0, <1>4, Packets DEF Publish, Socket
  <2>2. CASE wire' = wire
    BY <1>1, <2>1, <2>2 DEF FullSyncOutstanding
  <2>3. CASE wire' = Append(wire, c)
    <3>1. /\ Len(wire) \in Nat /\ DOMAIN wire = 1..Len(wire)
          /\ DOMAIN wire' = 1..(Len(wire) + 1)
          /\ \A i \in DOMAIN wire : wire'[i] = wire[i]
          /\ wire'[Len(wire) + 1] = c
      BY <1>0, <2>3 DEF Socket
    <3>2. \A i \in DOMAIN wire' : wire'[i] = Ready => i \in DOMAIN wire /\ wire[i] = Ready
      BY <2>1, <3>1
    <3> QED
      BY <2>1, <3>2 DEF OneReady, NoReady, FullSyncOutstanding
  <2> QED
    BY <1>4, <2>2, <2>3 DEF Publish
<1>5. ASSUME Connect PROVE OneReady'
  <2>1. server = "absent" /\ wire = <<>> /\ UNCHANGED <<wire, sync, queued>>
    BY <1>0, <1>5 DEF Connect, Socket
  <2>2. ~FullSyncOutstanding'
    BY <2>1 DEF OneReady, FullSyncOutstanding
  <2> QED
    BY <1>3, <2>1, <2>2
<1>6. ASSUME RestoreSubscriptions PROVE OneReady'
  <2>1. server = "connected" /\ server' = "joined" /\ UNCHANGED <<wire, sync, queued>>
    BY <1>6 DEF RestoreSubscriptions, clientVars
  <2> QED
    BY <2>1 DEF OneReady, NoReady, FullSyncOutstanding
<1>7. ASSUME EmitReady \/ RestoreRevoked PROVE OneReady'
  <2>1. /\ server \in {"joined", "revoked"} /\ UNCHANGED <<sync, queued>>
        /\ wire' = Append(wire, Ready) /\ server' = "ready"
    BY <1>7 DEF EmitReady, RestoreRevoked
  <2> QED
    BY <1>2, <2>1 DEF OneReady
<1>8. ASSUME Disconnect PROVE OneReady'
  BY <1>3, <1>8 DEF Disconnect, FullSyncOutstanding
<1>9. ASSUME Revoke PROVE OneReady'
  <2>1. Calm /\ UNCHANGED <<wire, sync, queued>>
    BY <1>9 DEF Revoke
  <2> QED
    BY <2>1 DEF Calm, OneReady, NoReady, FullSyncOutstanding
<1>10. ASSUME Receive PROVE OneReady'
  <2>1. /\ Len(wire) \in Nat \ {0} /\ DOMAIN wire = 1..Len(wire)
        /\ DOMAIN wire' = 1..(Len(wire) - 1)
        /\ \A i \in DOMAIN wire' : wire'[i] = wire[i + 1]
        /\ Head(wire) = wire[1] /\ server' = server
    BY <1>0, <1>10 DEF Receive, Socket
  <2>2. CASE Head(wire) = Ready
    <3>1. \A i \in DOMAIN wire' : wire'[i] # Ready
      BY <2>1, <2>2 DEF OneReady
    <3>2. server = "ready"
      BY <2>1, <2>2 DEF OneReady, NoReady
    <3> QED
      BY <2>1, <3>1, <3>2 DEF OneReady, NoReady
  <2>3. CASE Head(wire) # Ready
    <3>1. UNCHANGED <<sync, queued>>
      BY <1>10, <2>3 DEF Receive
    <3> QED
      BY <2>1, <3>1 DEF OneReady, NoReady, FullSyncOutstanding
  <2> QED
    BY <2>2, <2>3
<1>11. ASSUME Tick PROVE OneReady'
  <2>1. sync' = Asking("checkpoint") /\ UNCHANGED <<wire, server, queued>>
    BY <1>11 DEF Tick, socketVars
  <2> QED
    BY <1>1, <2>1, AskingIs DEF FullSyncOutstanding
<1>12. ASSUME ReadPage \/ ReadBounds PROVE OneReady'
  <2>1. sync'.job = sync.job /\ UNCHANGED <<wire, server, queued>>
    BY <1>0, <1>12 DEF ReadPage, ReadBounds, socketVars, Chain, SyncShape
  <2> QED
    BY <1>1, <2>1 DEF FullSyncOutstanding
<1>13. ASSUME EndCheckpoint PROVE FullSyncOutstanding' => FullSyncOutstanding
  BY <1>0, <1>13, NoSyncIs DEF EndCheckpoint, FullSyncOutstanding, Chain
<1>14. ASSUME HandleAnswer PROVE OneReady'
  <2>1. FullSyncOutstanding' => FullSyncOutstanding
    <3>1. sync.job \in {"full", "checkpoint"}
      BY <1>0, <1>14 DEF HandleAnswer, Chain, SyncShape, Job
    <3>2. CASE sync' = Asking(sync.job) /\ queued' = queued
      BY <3>1, <3>2, AskingIs DEF FullSyncOutstanding
    <3>3. CASE sync.job = "full"
      BY <3>3 DEF FullSyncOutstanding
    <3> QED
      BY <1>13, <1>14, <3>2, <3>3 DEF HandleAnswer
  <2> QED
    BY <1>1, <1>14, <2>1 DEF HandleAnswer, socketVars
<1>15. ASSUME FinishFullSync PROVE OneReady'
  BY <1>1, <1>15, NoSyncIs DEF FinishFullSync, FullSyncOutstanding, socketVars
<1>16. ASSUME FailFullSync PROVE OneReady'
  <2>1. wire' = <<>> /\ sync' = NoSync /\ queued' = queued /\ ~queued
    BY <1>0, <1>16 DEF FailFullSync, Chain
  <2> QED
    BY <1>3, <2>1, NoSyncIs DEF FullSyncOutstanding
<1>17. ASSUME FailCheckpoint PROVE OneReady'
  BY <1>1, <1>13, <1>17 DEF FailCheckpoint, socketVars
<1>18. ASSUME UNCHANGED <<wire, server, sync, queued>> PROVE OneReady'
  BY <1>1, <1>18 DEF FullSyncOutstanding
<1> QED
  BY <1>4, <1>5, <1>6, <1>7, <1>8, <1>9, <1>10, <1>11, <1>12, <1>14, <1>15, <1>16, <1>17,
     <1>18 DEF Next, Commit, DeleteRoom, LoadRoom, RoomLoaded, socketVars
\* What was promised stays kept while nothing else is promised.
LEMMA KeptStays ==
    ASSUME SyncAssumption, CursorInv, Next, promised <= head, promised' = promised, Kept
    PROVE  Kept'
<1>1. /\ LogInv' /\ LogMoves /\ Shows(cache') /\ NoNewer(cache, cache')
      /\ promised \in Nat
  BY LogStep, ShownStep DEF CursorInv, TypeOK
<1>2. ASSUME NEW c \in Visible', c.sequence <= promised PROVE Holds(c)'
  <2>1. c \in Visible /\ c \in log
    BY <1>1, <1>2, SeenBefore DEF CursorInv, Visible
  <2> QED
    BY <1>1, <1>2, <2>1, StillHolds DEF CursorInv, Kept
<1> QED
  BY <1>2 DEF Kept

LEMMA PromisedStays ==
    ASSUME SyncAssumption, CursorInv, Next, promised <= head, promised' = promised,
           NEW n, Promised(n)
    PROVE  \A c \in Visible' : c.sequence <= promised => c.sequence <= n
<1>1. LogInv' /\ LogMoves /\ promised \in Nat
  BY LogStep DEF CursorInv, TypeOK
<1> QED
  BY <1>1, SeenBefore DEF CursorInv, Promised

LEMMA PromiseStep ==
    ASSUME SyncAssumption, CursorInv, OneReady, Promise, Next
    PROVE  Promise'
<1>0. /\ Chain /\ Socket /\ Chain' /\ LogInv' /\ LogMoves /\ NothingBehindCursor'
      /\ Shows(cache') /\ NoNewer(cache, cache')
      /\ promised \in Nat /\ promised <= head /\ head \in Nat /\ head' \in Nat
      /\ head <= head'
  BY TypedByParts, ChainStep, LogStep, ShownStep, BehindStep DEF CursorInv, TypeOK,
     LogInv, Log!LogTypeOK, Promise, LogMoves
<1>1. promised' = promised => promised' <= head'
  BY <1>0
<1>2. ASSUME promised' = promised, sync'.step \in {"idle", "asking"},
             connected' /\ ~FullSyncOutstanding' => Kept
      PROVE  Promise'
  <2>1. connected' /\ ~FullSyncOutstanding' => Kept'
    BY <1>0, <1>2, KeptStays
  <2> QED
    BY <1>1, <1>2, <2>1 DEF Promise, PageRead
<1>3. ASSUME UNCHANGED <<promised, sync, queued, cursor>>, connected' => connected
      PROVE  Promise'
  <2>1. /\ PageRead' = PageRead /\ PageEnd' = PageEnd /\ HasMore' = HasMore
        /\ FullSyncOutstanding' = FullSyncOutstanding
    BY <1>3 DEF PageRead, PageEnd, Max, HasMore, FullSyncOutstanding
  <2>2. sync.job = "full" /\ PageRead /\ ~HasMore => Promised(PageEnd)'
    BY <1>0, <1>3, <2>1, PromisedStays DEF Promise, Promised
  <2>3. sync.step = "refreshing" => Promised(cursor)'
    BY <1>0, <1>3, PromisedStays DEF Promise, Promised
  <2>4. connected' /\ ~FullSyncOutstanding' => Kept'
    BY <1>0, <1>3, <2>1, KeptStays DEF Promise
  <2> QED
    BY <1>1, <1>3, <2>1, <2>2, <2>3, <2>4 DEF Promise
<1>4. ASSUME Connect PROVE Promise'
  <2>1. promised' = 0 /\ UNCHANGED <<sync, queued, head, log>>
    BY <1>4 DEF Connect, serverVars
  <2>2. \A c \in Visible' : ~ (c.sequence <= promised')
    BY <1>0, <2>1 DEF Visible, LogInv, Log!LogTypeOK, Log!Change
  <2> QED
    BY <1>0, <2>1, <2>2 DEF Promise, Promised, Kept
<1>5. ASSUME Receive PROVE Promise'
  <2>0. /\ Len(wire) \in Nat \ {0} /\ DOMAIN wire = 1..Len(wire) /\ Head(wire) = wire[1]
    BY <1>0, <1>5 DEF Receive, Socket
  <2>1. CASE Head(wire) = Ready
    <3>1. ~FullSyncOutstanding
      BY <2>0, <2>1 DEF OneReady, NoReady
    <3>2. Synchronize /\ promised' = head /\ UNCHANGED <<head, log>>
      BY <1>5, <2>1 DEF Receive, serverVars
    <3>3. CASE sync.job = "none"
      <4>1. sync' = Asking("full")
        BY <3>1, <3>2, <3>3 DEF Synchronize, Coalesced
      <4> QED
        BY <1>0, <3>2, <4>1, AskingIs DEF Promise, PageRead, FullSyncOutstanding
    <3>4. CASE sync.job # "none"
      <4>1. queued' = TRUE /\ sync' = sync
        BY <3>1, <3>2, <3>4 DEF Synchronize, Coalesced
      <4>2. sync.job = "checkpoint" /\ sync.step # "refreshing"
        BY <1>0, <3>1, <3>4 DEF FullSyncOutstanding, Chain, SyncShape, Job
      <4> QED
        BY <1>0, <3>2, <4>1, <4>2 DEF Promise, FullSyncOutstanding
    <3> QED
      BY <3>3, <3>4
  <2>2. CASE Head(wire) # Ready
    <3>1. UNCHANGED <<sync, queued, promised, cursor, connected>>
      BY <1>5, <2>2 DEF Receive
    <3> QED
      BY <1>3, <3>1
  <2> QED
    BY <2>1, <2>2
<1>6. ASSUME Tick PROVE Promise'
  <2>1. /\ sync' = Asking("checkpoint") /\ sync.job = "none"
        /\ UNCHANGED <<promised, queued, connected>>
    BY <1>6 DEF Tick, socketVars
  <2> QED
    BY <1>0, <1>2, <2>1, AskingIs DEF Promise, FullSyncOutstanding, Chain
<1>7. ASSUME ReadPage PROVE Promise'
  <2>1. /\ sync' \in SyncShape /\ sync'.job = sync.job /\ sync'.step = "read"
        /\ Cardinality(sync'.page) # PageLimit =>
                \A c \in Visible' : c.sequence <= PageEnd'
    <3>1. cursor \in Nat /\ cursor <= head /\ sync \in SyncShape
      BY <1>0 DEF CursorInv, PageInv, Chain
    <3> QED
      BY <1>7, <3>1, PageTaken DEF CursorInv
  <2>2. UNCHANGED <<promised, queued, connected>>
    BY <1>7 DEF ReadPage, socketVars
  <2>3. ~HasMore' => Promised(PageEnd)'
    BY <2>1 DEF HasMore, Promised
  <2>4. connected' /\ ~FullSyncOutstanding' => Kept'
    BY <1>0, <2>1, <2>2, KeptStays DEF Promise, FullSyncOutstanding
  <2> QED
    BY <1>1, <2>1, <2>2, <2>3, <2>4 DEF Promise
<1>8. ASSUME ReadBounds PROVE Promise'
  <2>1. PICK b \in BOOLEAN : sync' = [sync EXCEPT !.step = "answered", !.resync = b]
    BY <1>8 DEF ReadBounds, ResyncRequired
  <2>2. sync'.page = sync.page /\ sync'.job = sync.job /\ sync'.step = "answered"
    BY <1>0, <2>1 DEF Chain, SyncShape
  <2>3. UNCHANGED <<promised, queued, connected, cursor, log>> /\ PageRead
    BY <1>8 DEF ReadBounds, socketVars, clientVars, serverVars, PageRead
  <2>4. PageEnd' = PageEnd /\ HasMore' = HasMore /\ Visible' = Visible
    BY <2>2, <2>3 DEF PageEnd, Max, HasMore, Visible
  <2>5. sync.job = "full" /\ ~HasMore => Promised(PageEnd)'
    BY <2>3, <2>4 DEF Promise, Promised
  <2>6. connected' /\ ~FullSyncOutstanding' => Kept'
    BY <1>0, <2>2, <2>3, KeptStays DEF Promise, FullSyncOutstanding
  <2> QED
    BY <1>1, <2>2, <2>3, <2>4, <2>5, <2>6 DEF Promise
<1>9. ASSUME EndCheckpoint, promised' = promised, sync.job = "checkpoint",
             connected' = connected
      PROVE  Promise'
  <2>1. sync'.step \in {"idle", "asking"} /\ (queued => sync'.job = "full")
    BY <1>9, AskingIs, NoSyncIs DEF EndCheckpoint
  <2>2. ~FullSyncOutstanding' => ~FullSyncOutstanding
    BY <1>9, <2>1 DEF FullSyncOutstanding
  <2> QED
    BY <1>2, <1>9, <2>1, <2>2 DEF Promise
<1>10. ASSUME HandleAnswer PROVE Promise'
  <2>0. /\ sync.job \in {"full", "checkpoint"} /\ sync.step = "answered" /\ PageRead
        /\ UNCHANGED <<promised, connected, log>>
    BY <1>0, <1>10 DEF HandleAnswer, Chain, SyncShape, Job, PageRead, socketVars, serverVars
  <2>1. CASE sync' = Asking(sync.job) /\ queued' = queued
    <3>1. FullSyncOutstanding' = FullSyncOutstanding
      BY <2>0, <2>1, AskingIs DEF FullSyncOutstanding
    <3> QED
      BY <1>2, <2>0, <2>1, <3>1, AskingIs DEF Promise
  <2>2. CASE /\ ~HasMore /\ sync.job = "full" /\ cursor' = PageEnd
             /\ sync' = [NoSync EXCEPT !.job = "full", !.step = "refreshing"]
    <3>1. sync'.job = "full" /\ sync'.step = "refreshing" /\ Visible' = Visible
      BY <2>0, <2>2 DEF NoSync, Visible
    <3>2. Promised(cursor)'
      BY <2>0, <2>2, <3>1 DEF Promise, Promised
    <3> QED
      BY <1>1, <2>0, <3>1, <3>2 DEF Promise, PageRead, FullSyncOutstanding
  <2>3. CASE sync.job = "checkpoint" /\ EndCheckpoint
    BY <1>9, <2>0, <2>3
  <2> QED
    BY <1>10, <2>1, <2>2, <2>3 DEF HandleAnswer, NextCursor
<1>11. ASSUME FinishFullSync PROVE Promise'
  <2>1. /\ sync' = NoSync /\ sync.step = "refreshing"
        /\ UNCHANGED <<promised, cursor, connected, queued>>
    BY <1>11 DEF FinishFullSync, socketVars
  <2>2. Kept
    BY <2>1 DEF Promise, Promised, Kept, CursorInv, NothingBehindCursor
  <2> QED
    BY <1>2, <2>1, <2>2, NoSyncIs
<1>12. ASSUME FailFullSync PROVE Promise'
  <2>1. sync' = NoSync /\ ~connected' /\ promised' = promised
    BY <1>12 DEF FailFullSync
  <2> QED
    BY <1>2, <2>1, NoSyncIs
<1>13. ASSUME FailCheckpoint PROVE Promise'
  BY <1>9, <1>13 DEF FailCheckpoint, socketVars
<1>14. ASSUME Disconnect PROVE Promise'
  BY <1>3, <1>14 DEF Disconnect, clientVars
<1> QED
  BY <1>3, <1>4, <1>5, <1>6, <1>7, <1>8, <1>10, <1>11, <1>12, <1>13, <1>14 DEF Next,
     Commit, DeleteRoom, Publish, RestoreSubscriptions, EmitReady, Revoke,
     RestoreRevoked, LoadRoom, RoomLoaded, clientVars, socketVars

RecoveryInv == CursorInv /\ OneReady /\ Promise

\* Where neither a loss of the connection nor a revocation falls into a full sync
\* (what falls into one may be promised and not read, see the run
\* sync_reconnect): once the sync that realtime_ready started is over, the tab
\* holds what was committed by then.
THEOREM ReadyIsKept ==
    ASSUME ~FaultDuringSync
    PROVE  Spec => []RecoveredAfterReady
<1>1. Init => RecoveryInv
  <2> SUFFICES ASSUME Init PROVE RecoveryInv
    OBVIOUS
  <2>1. CursorInv
    BY SyncAssumption, InitCursor
  <2>2. sync = NoSync /\ wire = <<>> /\ connected = FALSE /\ promised = 0 /\ head = 0
        /\ queued = FALSE
    BY DEF Init, Log!LogInit
  <2>3. ~FullSyncOutstanding
    BY <2>2, NoSyncIs DEF FullSyncOutstanding
  <2> QED
    BY <2>1, <2>2, <2>3, NoSyncIs DEF RecoveryInv, OneReady, NoReady, Promise
<1>2. RecoveryInv /\ [Next]_vars => RecoveryInv'
  <2>1. ASSUME RecoveryInv, Next PROVE RecoveryInv'
    BY <2>1, SyncAssumption, StepCursor, OneReadyStep, PromiseStep
       DEF RecoveryInv, CursorInv
  <2>2. ASSUME RecoveryInv, UNCHANGED vars PROVE RecoveryInv'
    <3>1. CursorInv'
      BY <2>2, SyncAssumption, StepCursor DEF RecoveryInv
    <3>2. OneReady'
      BY <2>2 DEF RecoveryInv, OneReady, NoReady, FullSyncOutstanding, vars, socketVars
    <3>3. /\ Visible' = Visible /\ PageEnd' = PageEnd /\ HasMore' = HasMore
          /\ PageRead' = PageRead /\ FullSyncOutstanding' = FullSyncOutstanding
      BY <2>2 DEF vars, serverVars, socketVars, clientVars, Visible, PageEnd, Max,
         HasMore, PageRead, FullSyncOutstanding
    <3>4. Promise'
      BY <2>2, <3>3 DEF RecoveryInv, Promise, Promised, Kept, Holds, vars, serverVars,
         socketVars, clientVars
    <3> QED
      BY <3>1, <3>2, <3>4 DEF RecoveryInv
  <2> QED
    BY <2>1, <2>2
<1>3. RecoveryInv => RecoveredAfterReady
  BY DEF RecoveryInv, Promise, Kept, RecoveredAfterReady
<1> QED
  BY <1>1, <1>2, <1>3, PTL DEF Spec

-----------------------------------------------------------------------------
(* The history of a room. A message's place in what remains to be read is  *)
(* the number of messages after it, so a page of the first PageSize places *)
(* leaves out nothing before its last.                                     *)

RowShape == [position : Nat, sent : Nat, id : Nat]

LEMMA RowsAre ==
    ASSUME HistoryAssumption
    PROVE  HistoryRow \cup {Newest} \subseteq RowShape
<1>1. ASSUME NEW m \in OldRow PROVE m \in RowShape
  <2>1. m.position \in {0} /\ m.sent \in Old /\ m.id \in Twins
        /\ m = [position |-> m.position, sent |-> m.sent, id |-> m.id]
    BY DEF OldRow
  <2>2. m.position \in Nat /\ m.sent \in Nat /\ m.id \in Nat
    BY <2>1 DEF HistoryAssumption
  <2> QED
    BY <2>1, <2>2 DEF RowShape
<1>2. \A n \in 1..MaxPosition : Numbered(n) \in RowShape
  BY DEF HistoryAssumption, Numbered, RowShape
<1>3. Newest \in RowShape
  BY DEF HistoryAssumption, Newest, RowShape
<1> QED
  BY <1>1, <1>2, <1>3 DEF HistoryRow

LEMMA BeforeOrders ==
    ASSUME NEW m \in RowShape, NEW n \in RowShape
    PROVE  /\ ~Before(m, m) /\ ~(Before(m, n) /\ Before(n, m))
           /\ Before(m, n) \/ Before(n, m) \/ m = n
           /\ \A o \in RowShape : Before(m, n) /\ Before(n, o) => Before(m, o)
<1>1. m.position = n.position /\ m.sent = n.sent /\ m.id = n.id => m = n
  BY DEF RowShape
<1>2. \A o \in RowShape : o.position \in Nat /\ o.sent \in Nat /\ o.id \in Nat
  BY DEF RowShape
<1> QED
  BY <1>1, <1>2 DEF Before

LEMMA RowsEnd ==
    ASSUME HistoryAssumption
    PROVE  \A m \in HistoryRow : Before(m, Newest) /\ m # Newest
  BY DEF HistoryAssumption, HistoryRow, OldRow, Numbered, Newest, Before

Place(m) == Cardinality(Later(m))

\* What the lemmas on pages suppose.
Readable == HistoryAssumption /\ IsFiniteSet(rows) /\ rows \subseteq HistoryRow

LEMMA CandidatesAre ==
    ASSUME Readable
    PROVE  /\ Candidates \subseteq RowShape /\ IsFiniteSet(Candidates)
           /\ \A m \in Candidates : Place(m) \in Nat /\ IsFiniteSet(Later(m))
<1>1. Candidates \subseteq RowShape
  BY RowsAre DEF Readable, Candidates
<1>2. IsFiniteSet(Candidates)
  BY FS_Subset DEF Readable, Candidates
<1>3. ASSUME NEW m \in Candidates PROVE Place(m) \in Nat /\ IsFiniteSet(Later(m))
  BY <1>2, FS_Subset, FS_CardinalityType DEF Later, Place
<1> QED
  BY <1>1, <1>2, <1>3

LEMMA PlacesDescend ==
    ASSUME Readable, NEW m \in Candidates, NEW n \in Candidates
    PROVE  /\ Before(m, n) => Place(n) < Place(m)
           /\ Place(n) < Place(m) => Before(m, n)
           /\ Place(n) = Place(m) => n = m
<1>1. ASSUME NEW x \in Candidates, NEW y \in Candidates, Before(x, y)
      PROVE  Place(y) < Place(x)
  <2>1. Later(y) \cup {y} \subseteq Later(x) /\ y \notin Later(y)
    BY <1>1, CandidatesAre, BeforeOrders DEF Later
  <2>2. Cardinality(Later(y) \cup {y}) = Place(y) + 1
    BY <2>1, CandidatesAre, FS_AddElement DEF Place
  <2>3. Cardinality(Later(y) \cup {y}) <= Place(x)
    BY <2>1, CandidatesAre, FS_Subset DEF Place
  <2> QED
    BY <2>2, <2>3, CandidatesAre
<1>2. Before(m, n) \/ Before(n, m) \/ m = n
  BY CandidatesAre, BeforeOrders
<1> QED
  BY <1>1, <1>2, CandidatesAre

\* Places below k are at most k.
LEMMA PlacesBelow ==
    ASSUME Readable, NEW S \in SUBSET Candidates, NEW k \in Nat,
           \A m \in S : Place(m) < k
    PROVE  IsFiniteSet(S) /\ Cardinality(S) \in Nat /\ Cardinality(S) <= k
<1>1. IsFiniteSet(S) /\ Cardinality(S) \in Nat
  BY CandidatesAre, FS_Subset, FS_CardinalityType
<1>2. CASE S = {}
  BY <1>1, <1>2, FS_EmptySet
<1>3. CASE S # {}
  <2> DEFINE P == {Place(m) : m \in S}
  <2>1. P \subseteq 0..k /\ P # {}
    BY <1>3, CandidatesAre
  <2>2. PICK u \in P : \A v \in P : v <= u
    <3> HIDE DEF P
    <3> QED BY <2>1, Greatest
  <2>3. PICK m \in S : u = Place(m)
    BY <2>2
  <2>4. \A n \in S : n # m => Before(m, n)
    <3> SUFFICES ASSUME NEW n \in S, n # m PROVE Before(m, n)
      OBVIOUS
    <3>1. Place(n) <= Place(m)
      BY <2>2, <2>3
    <3>2. Before(m, n) \/ Before(n, m)
      BY CandidatesAre, BeforeOrders
    <3>3. ~Before(n, m)
      BY <3>1, PlacesDescend, CandidatesAre
    <3> QED
      BY <3>2, <3>3
  <2>5. S \subseteq Later(m) \cup {m} /\ m \notin Later(m)
    BY <2>4, CandidatesAre, BeforeOrders DEF Later
  <2>6. IsFiniteSet(Later(m) \cup {m}) /\ Cardinality(Later(m) \cup {m}) = Place(m) + 1
    BY <2>5, CandidatesAre, FS_AddElement DEF Place
  <2>7. Cardinality(S) <= Place(m) + 1
    BY <2>5, <2>6, FS_Subset
  <2> QED
    BY <1>1, <2>7, CandidatesAre
<1> QED
  BY <1>2, <1>3

\* A page has one message of every place up to its length.
LEMMA PageHasPlaces ==
    ASSUME Readable
    PROVE  /\ Cardinality(Chosen) \in Nat /\ Cardinality(Chosen) <= PageSize
           /\ \A i \in 1..Cardinality(Chosen) : \E m \in Chosen : Place(m) = i - 1
<1>0. Chosen \subseteq Candidates /\ \A m \in Chosen : Place(m) < PageSize
  BY DEF Chosen, Place
<1>1. Cardinality(Chosen) \in Nat /\ Cardinality(Chosen) <= PageSize
  BY <1>0, PlacesBelow DEF Readable, HistoryAssumption
<1>2. ASSUME NEW i \in 1..Cardinality(Chosen)
      PROVE  \E m \in Chosen : Place(m) = i - 1
  <2> DEFINE P == {Place(m) : m \in {n \in Chosen : Place(n) >= i - 1}}
  <2>1. i - 1 \in Nat /\ i \in Nat
    BY <1>1
  <2>2. P # {}
    <3> SUFFICES ASSUME P = {} PROVE FALSE
      OBVIOUS
    <3>1. \A m \in Chosen : Place(m) < i - 1
      BY <1>0, <2>1, CandidatesAre
    <3>2. Cardinality(Chosen) <= i - 1
      BY <1>0, <2>1, <3>1, PlacesBelow
    <3> QED
      BY <1>1, <3>2
  <2>3. P \subseteq Nat
    BY <1>0, CandidatesAre
  <2>4. PICK u \in P : \A v \in P : u <= v
    <3> HIDE DEF P
    <3> QED BY <2>2, <2>3, Least
  <2>5. PICK m \in Chosen : Place(m) = u /\ Place(m) >= i - 1
    BY <2>4
  <2>6. \A n \in Later(m) : n \in Candidates /\ Place(n) < i - 1
    <3> SUFFICES ASSUME NEW n \in Later(m) PROVE n \in Candidates /\ Place(n) < i - 1
      OBVIOUS
    <3>1. n \in Candidates /\ Place(n) < Place(m)
      BY <1>0, PlacesDescend DEF Later
    <3>2. n \in Chosen
      BY <1>0, <3>1, CandidatesAre DEF Chosen, Place, Readable, HistoryAssumption
    <3>3. Place(n) >= i - 1 => u <= Place(n)
      <4>1. Place(n) >= i - 1 => Place(n) \in P
        BY <3>2
      <4> QED
        BY <2>4, <4>1
    <3>4. Place(n) \in Int /\ Place(m) \in Int
      BY <1>0, <3>1, CandidatesAre
    <3> QED
      BY <2>1, <2>5, <3>1, <3>3, <3>4
  <2>7. Place(m) <= i - 1
    BY <2>1, <2>6, PlacesBelow DEF Place
  <2> QED
    BY <1>0, <2>1, <2>5, <2>7, CandidatesAre
<1> QED
  BY <1>1, <1>2
\* What findByRoom answers is in order, newest first, leaves nothing out before
\* its last message, and nothing at all when it is not full.
LEMMA PageReads ==
    ASSUME Readable
    PROVE  /\ InOrder \in Seq(Chosen) /\ Len(InOrder) = Cardinality(Chosen)
           /\ Len(InOrder) = 0 <=> Chosen = {}
           /\ \A i, j \in 1..Len(InOrder) : i < j => Before(InOrder[j], InOrder[i])
           /\ \A m \in Chosen : \E i \in 1..Len(InOrder) : InOrder[i] = m
           /\ Chosen # {} => \A m \in Candidates \ Chosen : Before(m, InOrder[Len(InOrder)])
           /\ Cardinality(Chosen) < PageSize => Chosen = Candidates
<1> PICK c \in Nat : c = Cardinality(Chosen)
  BY PageHasPlaces
<1>0. Chosen \subseteq Candidates /\ \A m \in Candidates : m \in Chosen <=> Place(m) < PageSize
  BY DEF Chosen, Place
<1>1. PICK q : q = InOrder
  OBVIOUS
<1>2. q = [i \in 1..c |-> CHOOSE m \in Chosen : Place(m) = i - 1]
  BY <1>1 DEF InOrder, Place
<1>3. \A i \in 1..c : q[i] \in Chosen /\ Place(q[i]) = i - 1
  <2> SUFFICES ASSUME NEW i \in 1..c PROVE q[i] \in Chosen /\ Place(q[i]) = i - 1
    OBVIOUS
  <2>1. \E m \in Chosen : Place(m) = i - 1
    BY PageHasPlaces
  <2>2. q[i] = CHOOSE m \in Chosen : Place(m) = i - 1
    BY <1>2
  <2> QED
    BY <2>1, <2>2
<1>4. q \in Seq(Chosen) /\ Len(q) = c
  <2>1. q \in [1..c -> Chosen]
    BY <1>2, <1>3
  <2> QED
    BY <2>1
<1>5. c = 0 <=> Chosen = {}
  BY <1>0, CandidatesAre, FS_Subset, FS_EmptySet
<1>6. \A i, j \in 1..c : i < j => Before(q[j], q[i])
  BY <1>0, <1>3, PlacesDescend
<1>7. \A m \in Chosen : \E i \in 1..c : q[i] = m
  <2> SUFFICES ASSUME NEW m \in Chosen PROVE \E i \in 1..c : q[i] = m
    OBVIOUS
  <2>1. Later(m) \cup {m} \subseteq Chosen /\ m \notin Later(m)
    <3>1. \A n \in Later(m) : n \in Candidates /\ Place(n) < Place(m)
      BY <1>0, PlacesDescend DEF Later
    <3>2. \A n \in Later(m) : n \in Chosen
      BY <1>0, <3>1, CandidatesAre DEF Readable, HistoryAssumption
    <3> QED
      BY <1>0, <3>1, <3>2, CandidatesAre
  <2>2. Place(m) \in Nat /\ IsFiniteSet(Chosen) /\ IsFiniteSet(Later(m))
    BY <1>0, CandidatesAre, FS_Subset
  <2>3. Cardinality(Later(m) \cup {m}) = Place(m) + 1
    BY <2>1, <2>2, FS_AddElement DEF Place
  <2>4. Cardinality(Later(m) \cup {m}) <= c
    BY <2>1, <2>2, FS_Subset
  <2>5. Place(m) + 1 \in 1..c
    BY <2>2, <2>3, <2>4
  <2>6. Place(q[Place(m) + 1]) = Place(m) /\ q[Place(m) + 1] \in Chosen
    BY <1>3, <2>2, <2>5
  <2>7. q[Place(m) + 1] = m
    BY <1>0, <2>6, PlacesDescend
  <2> QED
    BY <2>5, <2>7
<1>8. Chosen # {} => \A m \in Candidates \ Chosen : Before(m, q[c])
  <2> SUFFICES ASSUME Chosen # {}, NEW m \in Candidates \ Chosen PROVE Before(m, q[c])
    OBVIOUS
  <2>1. c \in 1..c
    BY <1>5
  <2>2. q[c] \in Candidates /\ Place(q[c]) < PageSize /\ ~(Place(m) < PageSize)
    BY <1>0, <1>3, <2>1
  <2>3. Place(q[c]) < Place(m)
    BY <2>2, CandidatesAre DEF Readable, HistoryAssumption
  <2> QED
    BY <2>2, <2>3, PlacesDescend
<1>9. ASSUME c < PageSize PROVE Chosen = Candidates
  <2> DEFINE P == {Place(m) : m \in Candidates \ Chosen}
  <2> SUFFICES ASSUME P # {} PROVE FALSE
    BY <1>0
  <2>1. P \subseteq Nat
    BY CandidatesAre
  <2>2. PICK u \in P : \A v \in P : u <= v
    <3> HIDE DEF P
    <3> QED BY <2>1, Least
  <2>3. PICK m \in Candidates \ Chosen : Place(m) = u
    OBVIOUS
  <2>4. \A n \in Later(m) : n \in Chosen
    <3> SUFFICES ASSUME NEW n \in Later(m), n \notin Chosen PROVE FALSE
      OBVIOUS
    <3>1. n \in Candidates /\ Place(n) < Place(m)
      BY PlacesDescend DEF Later
    <3>2. Place(n) \in P
      BY <3>1
    <3>3. Place(m) <= Place(n)
      BY <2>2, <2>3, <3>2
    <3> QED
      BY <3>1, <3>3, CandidatesAre
  <2>5. Place(m) <= c
    BY <1>0, <2>4, CandidatesAre, FS_Subset DEF Place
  <2>6. Place(m) < PageSize
    BY <1>9, <2>5, CandidatesAre DEF Readable, HistoryAssumption
  <2> QED
    BY <1>0, <2>6
<1> QED
  BY <1>1, <1>4, <1>5, <1>6, <1>7, <1>8, <1>9

-----------------------------------------------------------------------------
(* The reading, page after page.                                           *)

\* The next page starts where the last one ended, and while nothing was opened
\* or closed the request under way looks at what the member may see.
Follows ==
    /\ nextCursor = IF Len(seen) = 0 THEN Newest ELSE seen[Len(seen)]
    /\ toggles.plain /\ asking.step = "checked" =>
         \A m \in HistoryRow : MaySee(m, asking) <=> MineToSee(m)

HistoryInv == HistoryTypeOK /\ IsFiniteSet(rows) /\ Follows /\ PagesMeetAll

LEMMA OldRowsFinite == ASSUME HistoryAssumption PROVE IsFiniteSet(OldRow)
<1> PICK f : f = [m \in OldRow |-> <<m.sent, m.id>>]
  OBVIOUS
<1>1. IsFiniteSet(Old \X Twins)
  BY FS_Product DEF HistoryAssumption
<1>2. f \in [OldRow -> Old \X Twins]
  BY DEF OldRow
<1>3. \A m, n \in OldRow : f[m] = f[n] => m = n
  BY DEF OldRow
<1>4. f \in Injection(OldRow, Old \X Twins)
  BY <1>2, <1>3 DEF Injection, IsInjective
<1> QED
  BY <1>1, <1>4, FS_Injection

LEMMA InitHistory == HistoryAssumption /\ HistoryInit => HistoryInv
<1> SUFFICES ASSUME HistoryAssumption, HistoryInit PROVE HistoryInv
  OBVIOUS
<1>1. rows \subseteq OldRow /\ IsFiniteSet(rows)
  BY OldRowsFinite, FS_Subset DEF HistoryInit
<1>2. HistoryTypeOK
  BY <1>1 DEF HistoryInit, HistoryTypeOK, HistoryRow, Reading, HistoryAssumption
<1> QED
  BY <1>1, <1>2 DEF HistoryInit, HistoryInv, Follows, PagesMeetAll, Given, Reading
LEMMA NewMessageStep ==
    ASSUME HistoryAssumption, HistoryInv, NewMessage
    PROVE  HistoryInv'
<1> USE DEF HistoryInv
<1>1. LastPosition \in Nat
  BY FS_Subset, FS_CardinalityType DEF LastPosition
<1>2. LastPosition + 1 \in 1..MaxPosition
  BY <1>1 DEF NewMessage, HistoryAssumption
<1>3. rows' = rows \cup {Numbered(LastPosition + 1)} /\ rows' \subseteq HistoryRow
  BY <1>2 DEF NewMessage, HistoryTypeOK, HistoryRow
<1>4. IsFiniteSet(rows')
  BY <1>3, FS_AddElement
<1>5. HistoryTypeOK'
  BY <1>3 DEF NewMessage, HistoryTypeOK
<1> QED
  BY <1>4, <1>5 DEF NewMessage, Follows, PagesMeetAll, Given, MineToSee

LEMMA ToggleStep ==
    ASSUME HistoryInv, Toggle
    PROVE  HistoryInv'
<1> USE DEF HistoryInv, Toggle
<1>1. toggles' = [number |-> toggles.number + 1, plain |-> FALSE]
  OBVIOUS
<1>2. toggles.number \in 0..MaxToggles /\ MaxToggles \in Nat
  BY HistoryAssumption DEF HistoryTypeOK, HistoryAssumption
<1>3. toggles' \in [number : 0..MaxToggles, plain : BOOLEAN] /\ toggles'.plain = FALSE
  BY <1>1, <1>2
<1>4. HistoryTypeOK'
  BY <1>3 DEF HistoryTypeOK
<1> QED
  BY <1>3, <1>4 DEF Follows, PagesMeetAll

LEMMA RequestStep ==
    ASSUME HistoryAssumption, HistoryInv, RequestPage
    PROVE  HistoryInv'
<1> USE DEF HistoryInv
<1>1. asking' = [step |-> "checked", all |-> viewHistory,
                 boundary |-> member.boundary, joined |-> member.joined]
  BY DEF RequestPage
<1>2. asking' \in [step : {"no", "checked", "ended"}, all : BOOLEAN,
                   boundary : 0..1, joined : Old \cup {0}]
      /\ asking'.step = "checked"
  BY <1>1 DEF HistoryTypeOK
<1>3. UNCHANGED <<rows, viewHistory, member, nextCursor, seen>>
  BY DEF RequestPage
<1>4. \A m \in HistoryRow : MaySee(m, asking') <=> MineToSee(m)'
  BY <1>1, <1>3 DEF MaySee, MineToSee
<1>5. CASE nextCursor = Newest
  <2>1. start' = rows /\ toggles' = [toggles EXCEPT !.plain = TRUE]
    BY <1>5 DEF RequestPage
  <2>2. HistoryTypeOK'
    BY <1>2, <1>3, <2>1 DEF HistoryTypeOK
  <2>3. Len(seen) = 0
    <3> SUFFICES ASSUME Len(seen) # 0 PROVE FALSE
      OBVIOUS
    <3>1. Len(seen) \in DOMAIN seen /\ seen[Len(seen)] \in HistoryRow
      BY DEF HistoryTypeOK
    <3> QED
      BY <1>5, <3>1, RowsEnd DEF Follows
  <2>4. DOMAIN seen = {}
    BY <2>3 DEF HistoryTypeOK
  <2>5. \A m \in rows : Before(m, nextCursor)
    BY <1>5, RowsEnd DEF HistoryTypeOK
  <2>6. PagesMeetAll'
    BY <1>2, <1>3, <2>1, <2>4, <2>5 DEF PagesMeetAll, Given
  <2> QED
    BY <1>3, <1>4, <1>5, <2>2, <2>3, <2>6 DEF Follows
<1>6. CASE nextCursor # Newest
  <2>1. start' = start /\ toggles' = toggles
    BY <1>6 DEF RequestPage
  <2>2. HistoryTypeOK'
    BY <1>2, <1>3, <2>1 DEF HistoryTypeOK
  <2>3. PagesMeetAll'
    BY <1>2, <1>3, <2>1 DEF PagesMeetAll, Given, MineToSee
  <2> QED
    BY <1>3, <1>4, <2>1, <2>2, <2>3 DEF Follows
<1> QED
  BY <1>5, <1>6

LEMMA StartAgainStep ==
    ASSUME HistoryInv, StartAgain
    PROVE  HistoryInv'
<1> USE DEF HistoryInv
<1>1. /\ asking' = Reading /\ nextCursor' = Newest /\ seen' = <<>> /\ start' = {}
      /\ toggles' = [number |-> toggles.number, plain |-> TRUE]
      /\ UNCHANGED <<rows, viewHistory, member>>
  BY DEF StartAgain, HistoryTypeOK
<1>2. Reading \in [step : {"no", "checked", "ended"}, all : BOOLEAN,
                  boundary : 0..1, joined : Old \cup {0}]
  BY DEF Reading
<1>3. HistoryTypeOK'
  BY <1>1, <1>2 DEF HistoryTypeOK
<1>4. DOMAIN seen' = {} /\ Len(seen') = 0 /\ asking'.step # "checked"
  BY <1>1 DEF Reading
<1> QED
  BY <1>1, <1>3, <1>4 DEF Follows, PagesMeetAll, Given

LEMMA FindStep ==
    ASSUME HistoryAssumption, HistoryInv, FindByRoom
    PROVE  HistoryInv'
<1> USE DEF HistoryInv
<1>0. Readable /\ seen \in Seq(HistoryRow) /\ asking.step = "checked"
  BY DEF Readable, HistoryTypeOK, FindByRoom
<1>1. PICK q : q = InOrder
  OBVIOUS
<1>2. /\ q \in Seq(Chosen) /\ Len(q) = Cardinality(Chosen)
      /\ Len(q) = 0 <=> Chosen = {}
      /\ \A i, j \in 1..Len(q) : i < j => Before(q[j], q[i])
      /\ \A m \in Chosen : \E i \in 1..Len(q) : q[i] = m
      /\ Chosen # {} => \A m \in Candidates \ Chosen : Before(m, q[Len(q)])
      /\ Cardinality(Chosen) < PageSize => Chosen = Candidates
  BY <1>0, <1>1, PageReads
<1>3. /\ seen' = seen \o q
      /\ nextCursor' = IF Chosen = {} THEN nextCursor ELSE q[Len(q)]
      /\ asking' = IF Len(q) < PageSize THEN [Reading EXCEPT !.step = "ended"] ELSE Reading
      /\ UNCHANGED <<rows, viewHistory, member, start, toggles>>
  BY <1>1, <1>2 DEF FindByRoom
<1>4. \A m \in Chosen :
        /\ m \in rows /\ m \in HistoryRow
        /\ MaySee(m, asking) /\ Before(m, nextCursor)
  BY <1>0 DEF Chosen, Candidates, BeforeCursor, Readable
<1>5. /\ q \in Seq(HistoryRow) /\ seen' \in Seq(HistoryRow)
      /\ Len(seen') = Len(seen) + Len(q)
      /\ \A i \in 1..Len(seen) : seen'[i] = seen[i]
      /\ \A i \in 1..Len(q) : seen'[Len(seen) + i] = q[i] /\ q[i] \in Chosen
  <2>1. \A i \in 1..Len(q) : q[i] \in Chosen
    BY <1>2
  <2>2. Chosen \subseteq HistoryRow
    BY <1>4
  <2>3. q \in Seq(HistoryRow)
    BY <1>2, <2>2
  <2> HIDE <1>2
  <2> QED
    BY <1>0, <1>3, <2>1, <2>3
<1>6. \A i \in DOMAIN seen' : i \notin 1..Len(seen) =>
        i - Len(seen) \in 1..Len(q) /\ seen'[i] = q[i - Len(seen)]
  <2> SUFFICES ASSUME NEW i \in DOMAIN seen', i \notin 1..Len(seen)
               PROVE  i - Len(seen) \in 1..Len(q) /\ seen'[i] = q[i - Len(seen)]
    OBVIOUS
  <2>1. i - Len(seen) \in 1..Len(q)
    BY <1>0, <1>2, <1>5
  <2>2. i = Len(seen) + (i - Len(seen))
    BY <1>0, <1>5
  <2>3. seen'[Len(seen) + (i - Len(seen))] = q[i - Len(seen)]
    BY <1>5, <2>1
  <2> QED
    BY <2>1, <2>2, <2>3
<1>7. HistoryTypeOK'
  <2>1. nextCursor' \in HistoryRow \cup {Newest}
    <3>1. Chosen # {} => q[Len(q)] \in HistoryRow
      BY <1>2, <1>5
    <3> QED
      BY <1>3, <3>1 DEF HistoryTypeOK
  <2>2. asking' \in [step : {"no", "checked", "ended"}, all : BOOLEAN,
                     boundary : 0..1, joined : Old \cup {0}]
    <3>1. PICK s \in {"no", "ended"} :
            asking' = [step |-> s, all |-> TRUE, boundary |-> 0, joined |-> 0]
      BY <1>3 DEF Reading
    <3> HIDE DEF HistoryInv
    <3> QED
      BY <3>1
  <2> QED
    BY <1>3, <1>5, <2>1, <2>2 DEF HistoryTypeOK
<1>8. Follows'
  <2>1. asking'.step # "checked"
    BY <1>3 DEF Reading
  <2>2. nextCursor' = IF Len(seen') = 0 THEN Newest ELSE seen'[Len(seen')]
    <3>0. Len(seen) \in Nat /\ Len(q) \in Nat
      BY <1>0, <1>2
    <3>1. CASE Len(q) = 0
      <4>1. Len(seen') = Len(seen) /\ nextCursor' = nextCursor
        BY <1>2, <1>3, <1>5, <3>0, <3>1
      <4>2. Len(seen) # 0 => seen'[Len(seen)] = seen[Len(seen)]
        BY <1>5, <3>0
      <4> QED
        BY <4>1, <4>2 DEF Follows
    <3>2. CASE Len(q) # 0
      <4>1. nextCursor' = q[Len(q)] /\ Len(q) \in 1..Len(q)
        BY <1>2, <1>3, <3>0, <3>2
      <4>2. Len(seen') # 0 /\ seen'[Len(seen) + Len(q)] = q[Len(q)]
        BY <1>5, <3>0, <3>2, <4>1
      <4> QED
        BY <1>5, <4>1, <4>2
    <3> QED
      BY <3>1, <3>2
  <2> QED
    BY <2>1, <2>2 DEF Follows
\* All that was given before comes after what the page may have.
<1>9. \A i \in 1..Len(seen) : \A m \in Chosen : Before(m, seen[i])
  <2> SUFFICES ASSUME NEW i \in 1..Len(seen), NEW m \in Chosen PROVE Before(m, seen[i])
    OBVIOUS
  <2>1. nextCursor = seen[Len(seen)] /\ Len(seen) \in 1..Len(seen) /\ DOMAIN seen = 1..Len(seen)
    BY <1>0 DEF Follows
  <2>2. Before(m, seen[Len(seen)])
    BY <1>4, <2>1
  <2>3. i < Len(seen) => Before(seen[Len(seen)], seen[i])
    BY <2>1 DEF PagesMeetAll
  <2>4. m \in RowShape /\ seen[i] \in RowShape /\ seen[Len(seen)] \in RowShape
    BY <1>0, <1>4, <2>1, RowsAre
  <2>5. i = Len(seen) \/ i < Len(seen)
    BY <1>0
  <2> QED
    BY <2>2, <2>3, <2>4, <2>5, BeforeOrders
<1>10. \A i, j \in DOMAIN seen' : i < j => Before(seen'[j], seen'[i])
  <2> SUFFICES ASSUME NEW i \in DOMAIN seen', NEW j \in DOMAIN seen', i < j
               PROVE  Before(seen'[j], seen'[i])
    OBVIOUS
  <2>1. CASE j \in 1..Len(seen)
    <3>1. i \in 1..Len(seen)
      BY <1>0, <1>5, <2>1
    <3> QED
      BY <1>0, <1>5, <2>1, <3>1 DEF PagesMeetAll
  <2>2. CASE j \notin 1..Len(seen) /\ i \in 1..Len(seen)
    BY <1>2, <1>5, <1>6, <1>9, <2>2
  <2>3. CASE j \notin 1..Len(seen) /\ i \notin 1..Len(seen)
    <3>1. i - Len(seen) < j - Len(seen)
      BY <1>0, <1>5
    <3> QED
      BY <1>2, <1>6, <2>3, <3>1
  <2> QED
    BY <2>1, <2>2, <2>3
<1>11. Given' = Given \cup Chosen
  <2>1. ASSUME NEW m \in Given' PROVE m \in Given \cup Chosen
    <3>1. PICK i \in DOMAIN seen' : seen'[i] = m
      BY DEF Given
    <3>2. i \in 1..Len(seen) => m \in Given
      BY <1>0, <1>5, <3>1 DEF Given
    <3>3. i \notin 1..Len(seen) => m \in Chosen
      BY <1>5, <1>6, <3>1
    <3> QED
      BY <3>2, <3>3
  <2>2. \A m \in Given : m \in Given'
    <3> SUFFICES ASSUME NEW m \in Given PROVE m \in Given'
      OBVIOUS
    <3>1. PICK i \in DOMAIN seen : seen[i] = m
      BY DEF Given
    <3>2. i \in 1..Len(seen)
      BY <1>0, <3>1
    <3>3. i \in DOMAIN seen' /\ seen'[i] = m
      BY <1>0, <1>5, <3>1, <3>2
    <3> QED
      BY <3>3 DEF Given
  <2>3. \A m \in Chosen : m \in Given'
    <3> SUFFICES ASSUME NEW m \in Chosen PROVE m \in Given'
      OBVIOUS
    <3>1. PICK i \in 1..Len(q) : q[i] = m
      BY <1>2
    <3>2. Len(seen) + i \in DOMAIN seen' /\ seen'[Len(seen) + i] = m
      BY <1>0, <1>2, <1>5, <3>1
    <3> QED
      BY <3>2 DEF Given
  <2> QED
    BY <2>1, <2>2, <2>3
<1>12. ASSUME toggles'.plain
       PROVE  /\ \A m \in Given' : MineToSee(m)'
              /\ \A m \in start' :
                   MineToSee(m)' /\ (asking'.step = "ended" \/ ~Before(m, nextCursor'))
                     => m \in Given'
  <2>1. toggles.plain /\ \A m \in HistoryRow : MaySee(m, asking) <=> MineToSee(m)
    BY <1>0, <1>3, <1>12 DEF Follows
  <2>2. \A m : MineToSee(m)' <=> MineToSee(m)
    BY <1>3 DEF MineToSee
  <2>3. \A m \in Given' : MineToSee(m)'
    BY <1>4, <1>11, <2>1, <2>2 DEF PagesMeetAll
  <2>4. ASSUME NEW m \in start', MineToSee(m)',
               asking'.step = "ended" \/ ~Before(m, nextCursor')
        PROVE  m \in Given'
    <3>1. m \in start /\ m \in rows /\ m \in HistoryRow /\ MineToSee(m) /\ MaySee(m, asking)
      BY <1>3, <2>1, <2>2, <2>4 DEF HistoryTypeOK
    <3>2. CASE ~Before(m, nextCursor)
      BY <1>11, <2>1, <3>1, <3>2 DEF PagesMeetAll
    <3>3. CASE Before(m, nextCursor)
      <4>1. m \in Candidates
        BY <3>1, <3>3 DEF Candidates, BeforeCursor
      <4>2. asking'.step = "ended" => Chosen = Candidates
        BY <1>2, <1>3 DEF Reading
      <4>3. ~Before(m, nextCursor') => m \in Chosen
        BY <1>2, <1>3, <3>3, <4>1
      <4> QED
        BY <1>11, <2>4, <4>1, <4>2, <4>3
    <3> QED
      BY <3>2, <3>3
  <2> QED
    BY <2>3, <2>4
<1> QED
  BY <1>3, <1>7, <1>8, <1>10, <1>12 DEF PagesMeetAll

\* While messages arrive between the pages, for any page size and any number of
\* messages at one position or one instant: reading backwards gives each message
\* once, newest first, and while the history is neither opened nor closed it
\* leaves out none that was there at the start and that the member may see.
THEOREM PagesLeaveNothingOut == HistorySpec => []PagesMeetAll
<1>1. HistoryInv /\ [HistoryNext]_hvars => HistoryInv'
  <2>1. ASSUME HistoryInv, UNCHANGED hvars PROVE HistoryInv'
    BY <2>1 DEF hvars, HistoryInv, HistoryTypeOK, Follows, PagesMeetAll, Given, MineToSee
  <2> QED
    BY <2>1, HistoryAssumption, NewMessageStep, ToggleStep, RequestStep, FindStep,
       StartAgainStep DEF HistoryNext
<1>2. HistoryInv => PagesMeetAll
  BY DEF HistoryInv
<1> QED
  BY <1>1, <1>2, HistoryAssumption, InitHistory, PTL DEF HistorySpec

-----------------------------------------------------------------------------
(* The badges of the sidebar.                                              *)

Posting   == [room : Line, mine : BOOLEAN]
Unreads   == [Line -> SUBSET (1..MaxLog)]

\* What is held, shown or on its way to be is one of the messages there are.
Posted ==
    /\ posts \in Seq(Posting) /\ Len(posts) <= MaxLog
    /\ position \in [Line -> 0..MaxLog]
    /\ \A f \in frames : f.what = "message" => f.n \in 1..Len(posts)
    /\ held \subseteq 1..Len(posts) /\ loaded \subseteq 1..Len(posts)
    /\ muted \subseteq 1..Len(posts)

\* Messages are only added, and read positions only move forward.
PostsGrow ==
    /\ Len(posts) <= Len(posts')
    /\ \A n \in 1..Len(posts) : posts'[n] = posts[n]
    /\ \A r \in Line : position[r] <= position'[r]

LEMMA PostedStep ==
    ASSUME LineAssumption, Posted, BadgesNext
    PROVE  Posted' /\ PostsGrow
<1> USE DEF Posted, PostsGrow
<1>0. DOMAIN posts = 1..Len(posts) /\ Len(posts) \in Nat
  OBVIOUS
<1>1. ASSUME NEW r \in Line, NEW mine \in BOOLEAN, Sends(r, mine)
      PROVE  Posted' /\ PostsGrow
  <2> PICK p \in Posting : p = [room |-> r, mine |-> mine]
    BY DEF Posting
  <2>1. /\ posts' = Append(posts, p) /\ Len(posts) < MaxLog
        /\ UNCHANGED <<position, held, loaded, muted>>
    BY <1>1 DEF Sends
  <2>2. /\ posts' \in Seq(Posting) /\ Len(posts') = Len(posts) + 1
        /\ \A n \in 1..Len(posts) : posts'[n] = posts[n]
    BY <2>1
  <2>3. \A f \in frames' : f.what = "message" => f.n \in 1..Len(posts')
    <3>1. frames' \subseteq frames \cup {[what |-> "message", n |-> Len(posts'), room |-> r]}
      BY <1>1 DEF Sends, Told
    <3> QED
      BY <1>0, <2>2, <3>1
  <2>4. Len(posts') <= MaxLog
    BY <1>0, <2>1, <2>2 DEF LineAssumption
  <2>5. \A s \in Line : position[s] <= position'[s]
    BY <2>1
  <2> QED
    BY <1>0, <2>1, <2>2, <2>3, <2>4, <2>5
<1>2. ASSUME NEW r \in Line, NEW n \in PostedIn(r), Reads(r, n)
      PROVE  Posted' /\ PostsGrow
  <2>1. n \in 0..MaxLog /\ n > position[r] /\ position' = [position EXCEPT ![r] = n]
    BY <1>0, <1>2 DEF Reads, PostedIn, LineAssumption
  <2>2. UNCHANGED <<posts, frames, held, loaded, muted>>
    BY <1>2 DEF Reads
  <2>3. \A s \in Line : position[s] <= position'[s]
    BY <2>1
  <2> QED
    BY <1>0, <2>1, <2>2, <2>3
<1>3. ASSUME UNCHANGED <<posts, position>>,
             \A f \in frames' : f \in frames \/ f.what # "message",
             held' \subseteq 1..Len(posts), loaded' \subseteq 1..Len(posts),
             muted' \subseteq 1..Len(posts)
      PROVE  Posted' /\ PostsGrow
  BY <1>0, <1>3
<1>4. \A r : PostedIn(r) \subseteq 1..Len(posts)
  BY <1>0 DEF PostedIn
<1>5. ASSUME NEW r \in Line, LoseRoom(r) PROVE Posted' /\ PostsGrow
  <2>1. frames' \subseteq frames \cup {[what |-> "removed", n |-> 0, room |-> r]}
    BY <1>5 DEF LoseRoom, Told
  <2> QED
    BY <1>3, <1>5, <2>1 DEF LoseRoom
<1>6. ASSUME NEW f \in frames, Hear(f) \/ Buffer(f) \/ HearRemoved(f)
      PROVE  Posted' /\ PostsGrow
  <2>1. CASE Hear(f)
    <3>1. /\ f.what = "message" /\ frames' = frames \ {f} /\ loaded' = loaded \cup {f.n}
          /\ UNCHANGED <<posts, position, held, muted>>
      BY <2>1 DEF Hear, Take, backend
    <3>2. loaded' \subseteq 1..Len(posts)
      BY <1>6, <3>1
    <3> QED
      BY <1>3, <3>1, <3>2
  <2>2. CASE Buffer(f)
    <3>1. /\ f.what = "message" /\ frames' = frames \ {f} /\ held' = held \cup {f.n}
          /\ UNCHANGED <<posts, position, loaded, muted>>
      BY <2>2 DEF Buffer, backend
    <3>2. held' \subseteq 1..Len(posts)
      BY <1>6, <3>1
    <3> QED
      BY <1>3, <3>1, <3>2
  <2>3. CASE HearRemoved(f)
    BY <1>3, <2>3 DEF HearRemoved, backend
  <2> QED
    BY <1>6, <2>1, <2>2, <2>3
<1>7. ASSUME NEW n \in DOMAIN posts, applyCanonicalMessage(n) PROVE Posted' /\ PostsGrow
  BY <1>0, <1>3, <1>7 DEF applyCanonicalMessage, backend
<1>8. ASSUME NEW r \in Line \cup {NoLine}, OpenRoom(r) PROVE Posted' /\ PostsGrow
  BY <1>3, <1>8 DEF OpenRoom, backend
<1>9. ASSUME MessagesLoaded \/ Pages PROVE Posted' /\ PostsGrow
  <2>1. /\ loaded' \subseteq 1..Len(posts)
        /\ UNCHANGED <<posts, position, frames, held, muted>>
    BY <1>4, <1>9 DEF MessagesLoaded, Pages, backend
  <2> QED
    BY <1>3, <2>1
<1>10. ASSUME SocketConnects \/ SocketDrops \/ ReadyHeard \/ ReadRooms \/ ReadCounts
              \/ SummaryLands \/ RecoveryFails
       PROVE  Posted' /\ PostsGrow
  BY <1>3, <1>10 DEF SocketConnects, SocketDrops, ReadyHeard, ReadRooms, ReadCounts,
     SummaryLands, RecoveryFails, backend
<1>11. ASSUME Flush PROVE Posted' /\ PostsGrow
  BY <1>3, <1>11 DEF Flush, Take, backend
<1>12. ASSUME NEW hidden \in SUBSET Line, EventRefresh(hidden) PROVE Posted' /\ PostsGrow
  BY <1>3, <1>12 DEF EventRefresh, backend
<1>13. ASSUME NEW s \in refresh, EventSummaryLands(s) PROVE Posted' /\ PostsGrow
  BY <1>3, <1>13 DEF EventSummaryLands, backend
<1> QED
  BY <1>1, <1>2, <1>5, <1>6, <1>7, <1>8, <1>9, <1>10, <1>11, <1>12, <1>13 DEF BadgesNext

\* The newest of a set, k at most, are all of it or k.
LEMMA NewestOf ==
    ASSUME NEW m \in Nat, NEW U \in SUBSET (0..m), NEW k \in Nat, NEW T,
           T = {n \in U : Cardinality({j \in U : j > n}) < k}
    PROVE  \A n \in U : n \in T \/ Cardinality(T) >= k
<1> DEFINE Newer(n) == {j \in U : j > n}
<1>1. IsFiniteSet(U) /\ IsFiniteSet(T)
  <2>1. IsFiniteSet(0..m)
    BY FS_Interval
  <2>2. IsFiniteSet(U)
    BY <2>1, FS_Subset
  <2> QED
    BY <2>2, FS_Subset
<1>2. \A n \in U : IsFiniteSet(Newer(n)) /\ Cardinality(Newer(n)) \in Nat
  BY <1>1, FS_Subset, FS_CardinalityType
<1> SUFFICES ASSUME U \ T # {} PROVE Cardinality(T) >= k
  OBVIOUS
<1>3. PICK n \in U \ T : \A j \in U \ T : j <= n
  BY Greatest
<1>4. Newer(n) \subseteq T
  <2>1. \A j \in U : j \in Int /\ n \in Int
    BY <1>3
  <2>2. \A j \in Newer(n) : j \in U /\ j \notin U \ T
    BY <1>3, <2>1
  <2> QED
    BY <2>2
<1>5. Cardinality(Newer(n)) <= Cardinality(T) /\ Cardinality(T) \in Nat
  BY <1>1, <1>4, FS_Subset, FS_CardinalityType
<1>6. ~(Cardinality(Newer(n)) < k)
  BY <1>3
<1>7. Cardinality(Newer(n)) \in Nat
  BY <1>2
<1> HIDE DEF Newer
<1> QED
  BY <1>5, <1>6, <1>7
SummaryShape == [rooms : SUBSET Line, unread : Unreads, read : Nat]

LEMMA SummariesAre ==
    ASSUME LineAssumption, Posted
    PROVE  /\ NoSummary \in SummaryShape
           /\ \A r : UnreadIn(r) \subseteq 1..Len(posts)
           /\ \A s \in SummaryShape :
                /\ Rooms(s) \in SummaryShape
                /\ Unread(s) \in SummaryShape
                /\ Unread(s).unread = [r \in Line |-> UnreadIn(r)]
                /\ Unread(s).read = Len(posts)
<1>0. Len(posts) \in Nat /\ DOMAIN posts = 1..Len(posts) /\ 1..Len(posts) \subseteq 1..MaxLog
  BY DEF Posted, LineAssumption
<1>1. \A r : UnreadIn(r) \subseteq 1..Len(posts)
  BY <1>0 DEF UnreadIn, PostedIn
<1>2. PICK u : u = [r \in Line |-> UnreadIn(r)]
  OBVIOUS
<1>3. u \in Unreads
  BY <1>0, <1>1, <1>2 DEF Unreads
<1>4. [r \in Line |-> {}] \in Unreads
  BY DEF Unreads
<1>5. NoSummary \in SummaryShape
  BY <1>4 DEF NoSummary, SummaryShape
<1>6. PICK l \in Nat : l = Len(posts)
  BY <1>0
<1>7. ASSUME NEW s \in SummaryShape
      PROVE  /\ Rooms(s) \in SummaryShape
             /\ Unread(s) \in SummaryShape
             /\ Unread(s).unread = u
             /\ Unread(s).read = l
  <2>1. Unread(s) = [s EXCEPT !.unread = u, !.read = l]
    BY <1>2, <1>6 DEF Unread
  <2>2. Rooms(s) \in SummaryShape
    BY DEF Rooms, SummaryShape
  <2> QED
    BY <1>3, <2>1, <2>2 DEF SummaryShape
<1> QED
  BY <1>1, <1>2, <1>5, <1>6, <1>7

\* Each badge is the number of the messages it stands for.
Tallied ==
    /\ counted \in Unreads /\ badge \in [Line -> Nat]
    /\ summary \in SummaryShape /\ refresh \subseteq SummaryShape
    /\ ~shaken => \A r \in Line : badge[r] = Cardinality(counted[r])

\* What a batch of messages adds to the badge of a room.
New(batch, r) == {n \in batch : posts[n].room = r /\ Counts(n)}

LEMMA TakeTallies ==
    ASSUME LineAssumption, Posted, Tallied, NEW batch \in SUBSET (1..Len(posts)),
           Take(batch), shaken' = (shaken \/ Recounted(batch) # {})
    PROVE  /\ counted' \in Unreads /\ badge' \in [Line -> Nat]
           /\ ~shaken' => \A r \in Line : badge'[r] = Cardinality(counted'[r])
           /\ \A r \in Line : r # open =>
                /\ counted'[r] = counted[r] \cup New(batch, r)
                /\ badge[r] <= badge'[r]
<1>0. 1..Len(posts) \subseteq 1..MaxLog
  BY DEF Posted, LineAssumption
<1>1. /\ badge' = [r \in Line |-> IF r = open THEN 0
                                  ELSE badge[r] + Cardinality(New(batch, r))]
      /\ counted' = [r \in Line |-> IF r = open THEN {} ELSE counted[r] \cup New(batch, r)]
  BY DEF Take, New
<1>2. \A r : New(batch, r) \subseteq 1..MaxLog
  BY <1>0 DEF New
<1>3. \A S \in SUBSET (1..MaxLog) : IsFiniteSet(S) /\ Cardinality(S) \in Nat
  <2>1. IsFiniteSet(1..MaxLog)
    BY FS_Interval DEF LineAssumption
  <2> QED
    BY <2>1, FS_Subset, FS_CardinalityType
<1>4. counted' \in Unreads
  BY <1>1, <1>2 DEF Tallied, Unreads
<1>5. badge' \in [Line -> Nat]
  BY <1>1, <1>2, <1>3 DEF Tallied
<1>6. \A r \in Line : r # open =>
        counted'[r] = counted[r] \cup New(batch, r) /\ badge[r] <= badge'[r]
  BY <1>1, <1>2, <1>3 DEF Tallied
<1>7. ASSUME ~shaken', NEW r \in Line PROVE badge'[r] = Cardinality(counted'[r])
  <2>1. CASE r = open
    BY <1>1, <2>1, FS_EmptySet
  <2>2. CASE r # open
    <3>1. New(batch, r) \cap counted[r] = {}
      BY <1>7 DEF New, Counts, CountsReplayed, Recounted
    <3>2. Cardinality(counted[r] \cup New(batch, r))
            = Cardinality(counted[r]) + Cardinality(New(batch, r))
              - Cardinality(New(batch, r) \cap counted[r])
      <4>1. IsFiniteSet(counted[r]) /\ IsFiniteSet(New(batch, r))
        BY <1>2, <1>3 DEF Tallied, Unreads
      <4>2. counted[r] \cap New(batch, r) = New(batch, r) \cap counted[r]
        OBVIOUS
      <4> QED
        BY <4>1, <4>2, FS_Union
    <3>3. Cardinality(New(batch, r) \cap counted[r]) = 0
      BY <3>1, FS_EmptySet
    <3>4. badge[r] = Cardinality(counted[r]) /\ badge[r] \in Nat
      BY <1>7 DEF Tallied
    <3>5. Cardinality(New(batch, r)) \in Nat
      BY <1>2, <1>3
    <3>6. badge'[r] = badge[r] + Cardinality(New(batch, r))
          /\ counted'[r] = counted[r] \cup New(batch, r)
      BY <1>1, <2>2
    <3> QED
      BY <3>2, <3>3, <3>4, <3>5, <3>6
  <2> QED
    BY <2>1, <2>2
<1> QED
  BY <1>4, <1>5, <1>6, <1>7

LEMMA SummaryTallies ==
    ASSUME LineAssumption, NEW s \in SummaryShape, refreshRoomsAndFolders(s)
    PROVE  /\ counted' = s.unread /\ counted' \in Unreads /\ badge' \in [Line -> Nat]
           /\ \A r \in Line : badge'[r] = Cardinality(counted'[r])
<1>1. s.unread \in Unreads
  BY DEF SummaryShape
<1>2. counted' = s.unread /\ badge' = [r \in Line |-> Cardinality(s.unread[r])]
  BY DEF refreshRoomsAndFolders
<1>3. \A r \in Line : Cardinality(s.unread[r]) \in Nat
  <2>1. IsFiniteSet(1..MaxLog)
    BY FS_Interval DEF LineAssumption
  <2> QED
    BY <1>1, <2>1, FS_Subset, FS_CardinalityType DEF Unreads
<1> QED
  BY <1>1, <1>2, <1>3

LEMMA TalliedStep ==
    ASSUME LineAssumption, Posted, Tallied, BadgesNext
    PROVE  Tallied'
<1>1. ASSUME UNCHANGED <<counted, badge, summary, refresh>>, shaken => shaken' PROVE Tallied'
  BY <1>1 DEF Tallied
<1>2. ASSUME NEW r \in Line, \/ \E mine \in BOOLEAN : Sends(r, mine)
                             \/ LoseRoom(r) \/ \E n \in PostedIn(r) : Reads(r, n)
      PROVE  Tallied'
  BY <1>1, <1>2 DEF Sends, LoseRoom, Reads
<1>3. ASSUME NEW f \in frames, Buffer(f) \/ HearRemoved(f) PROVE Tallied'
  BY <1>1, <1>3 DEF Buffer, HearRemoved
<1>4. ASSUME NEW f \in frames, Hear(f) PROVE Tallied'
  <2>1. {f.n} \subseteq 1..Len(posts)
    BY <1>4 DEF Hear, Posted
  <2>2. Take({f.n}) /\ shaken' = (shaken \/ Recounted({f.n}) # {})
        /\ UNCHANGED <<summary, refresh>>
    BY <1>4 DEF Hear
  <2> QED
    BY <2>1, <2>2, TakeTallies DEF Tallied
<1>5. ASSUME Flush PROVE Tallied'
  <2>1. held \subseteq 1..Len(posts)
    BY DEF Posted
  <2>2. Take(held) /\ shaken' = (shaken \/ Recounted(held) # {})
        /\ UNCHANGED <<summary, refresh>>
    BY <1>5 DEF Flush
  <2> QED
    BY <2>1, <2>2, TakeTallies DEF Tallied
<1>6. ASSUME NEW n \in DOMAIN posts, applyCanonicalMessage(n) PROVE Tallied'
  BY <1>1, <1>6 DEF applyCanonicalMessage
<1>7. ASSUME NEW r \in Line \cup {NoLine}, OpenRoom(r) PROVE Tallied'
  <2>1. /\ badge' = [s \in Line |-> IF s = r THEN 0 ELSE badge[s]]
        /\ counted' = [s \in Line |-> IF s = r THEN {} ELSE counted[s]]
        /\ UNCHANGED <<summary, refresh, shaken>>
    BY <1>7 DEF OpenRoom
  <2> QED
    BY <2>1, FS_EmptySet DEF Tallied, Unreads
<1>8. ASSUME MessagesLoaded \/ SocketConnects \/ SocketDrops \/ ReadyHeard \/ Pages
      PROVE  Tallied'
  BY <1>1, <1>8 DEF MessagesLoaded, SocketConnects, SocketDrops, ReadyHeard, Pages
<1>9. ASSUME ReadRooms \/ ReadCounts \/ RecoveryFails PROVE Tallied'
  <2>1. summary' \in SummaryShape
    BY <1>9, SummariesAre DEF ReadRooms, ReadCounts, RecoveryFails, Tallied
  <2> QED
    BY <1>9, <2>1 DEF ReadRooms, ReadCounts, RecoveryFails, Tallied
<1>10. ASSUME SummaryLands PROVE Tallied'
  <2>1. refreshRoomsAndFolders(summary) /\ summary' = NoSummary /\ refresh' = refresh
    BY <1>10 DEF SummaryLands
  <2> QED
    BY <2>1, SummariesAre, SummaryTallies DEF Tallied
<1>11. ASSUME NEW hidden \in SUBSET Line, EventRefresh(hidden) PROVE Tallied'
  <2>1. refresh' \subseteq SummaryShape
    BY <1>11, SummariesAre DEF EventRefresh, Tallied
  <2> QED
    BY <1>11, <2>1 DEF EventRefresh, Tallied
<1>12. ASSUME NEW s \in refresh, EventSummaryLands(s) PROVE Tallied'
  <2>1. /\ refreshRoomsAndFolders(s) /\ summary' = summary /\ refresh' \subseteq refresh
        /\ s \in SummaryShape
    BY <1>12 DEF EventSummaryLands, Tallied
  <2> QED
    BY <2>1, SummaryTallies DEF Tallied
<1> QED
  BY <1>2, <1>3, <1>4, <1>5, <1>6, <1>7, <1>8, <1>9, <1>10, <1>11, <1>12 DEF BadgesNext
\* A summary that was read has all that is unread up to its reading, or as many
\* as the server counts.
Covers(s) ==
    \A n \in 1..Len(posts) : LET r == posts[n].room IN
        n <= s.read /\ n > position[r] =>
            n \in s.unread[r] \/ Cardinality(s.unread[r]) >= CountLimit

\* Of what is in the tab's state, or was kept through a failed recovery, the
\* badges have counted what is unread.
StateIsCounted ==
    \A n \in loaded \cup muted : LET r == posts[n].room IN
        ~posts[n].mine /\ r \in lines \ looked /\ n > position[r] =>
            n \in counted[r] \/ badge[r] >= CountLimit

Recovering ==
    /\ socket \in [up : BOOLEAN, ready : BOOLEAN, syncing : BOOLEAN]
    /\ recovery # "none" => socket.syncing
    /\ lines \subseteq Line
    /\ recovery = "counts" => /\ Covers(summary) /\ summary.read <= Len(posts)
                              /\ \A n \in muted : n <= summary.read
    /\ recovery = "landed" => (open = NoLine \/ open \in looked)
                              /\ (~shaken => StateIsCounted)

BadgesInv == Posted /\ Tallied /\ Recovering

LEMMA RoomsOfPosts ==
    ASSUME Posted
    PROVE  \A n \in 1..Len(posts) : posts[n] \in Posting /\ posts[n].room \in Line
<1>1. \A n \in 1..Len(posts) : posts[n] \in Posting
  BY DEF Posted
<1> QED
  BY <1>1 DEF Posting

LEMMA CoversStays ==
    ASSUME LineAssumption, Posted, PostsGrow, Posted', NEW s \in SummaryShape, Covers(s),
           s.read <= Len(posts)
    PROVE  Covers(s)'
<1> SUFFICES ASSUME NEW n \in 1..Len(posts'), n <= s.read, n > position'[posts'[n].room]
             PROVE  \/ n \in s.unread[posts'[n].room]
                    \/ Cardinality(s.unread[posts'[n].room]) >= CountLimit
  BY DEF Covers
<1>1. Len(posts) \in Nat /\ s.read \in Nat
  BY DEF Posted, SummaryShape
<1>2. n \in 1..Len(posts) /\ posts'[n] = posts[n]
  BY <1>1 DEF PostsGrow
<1>3. posts[n].room \in Line
  BY <1>2, RoomsOfPosts
<1>4. position[posts[n].room] \in Nat /\ position'[posts[n].room] \in Nat
      /\ position[posts[n].room] <= position'[posts[n].room]
  BY <1>3 DEF PostsGrow, Posted, LineAssumption
<1>5. n > position[posts[n].room]
  BY <1>2, <1>4
<1> QED
  BY <1>2, <1>5 DEF Covers
LEMMA CoversWhenRead ==
    ASSUME LineAssumption, Posted, NEW s \in SummaryShape
    PROVE  Covers(Unread(s))
<1> PICK t : t = Unread(s)
  OBVIOUS
<1>1. t.unread = [r \in Line |-> UnreadIn(r)]
  BY SummariesAre
<1> SUFFICES ASSUME NEW n \in 1..Len(posts), n > position[posts[n].room]
             PROVE  \/ n \in t.unread[posts[n].room]
                    \/ Cardinality(t.unread[posts[n].room]) >= CountLimit
  BY DEF Covers
<1>2. PICK r \in Line : r = posts[n].room
  BY RoomsOfPosts
<1>3. PICK U : U = {k \in PostedIn(r) : k > position[r]}
  OBVIOUS
<1>4. n \in U
  BY <1>2, <1>3 DEF PostedIn, Posted
<1>5. U \in SUBSET (0..MaxLog)
  BY <1>3 DEF PostedIn, Posted, LineAssumption
<1>6. UnreadIn(r) = {k \in U : Cardinality({j \in U : j > k}) < CountLimit}
  BY <1>3 DEF UnreadIn
<1>7. n \in UnreadIn(r) \/ Cardinality(UnreadIn(r)) >= CountLimit
  BY <1>4, <1>5, <1>6, NewestOf DEF LineAssumption
<1> QED
  BY <1>1, <1>2, <1>7

LEMMA SocketStays ==
    ASSUME Recovering, BadgesNext
    PROVE  /\ socket' \in [up : BOOLEAN, ready : BOOLEAN, syncing : BOOLEAN]
           /\ recovery' # "none" => socket'.syncing
<1> USE DEF Recovering
<1>1. CASE SocketConnects
  BY <1>1 DEF SocketConnects
<1>2. CASE SocketDrops
  <2>1. socket' = [up |-> FALSE, ready |-> FALSE, syncing |-> socket.syncing]
        /\ recovery' = recovery
    BY <1>2 DEF SocketDrops
  <2> QED
    BY <2>1
<1>3. CASE ReadyHeard
  <2>1. (socket.syncing \/ recovery = "none") \in BOOLEAN
    OBVIOUS
  <2>2. PICK b \in BOOLEAN : b = (socket.syncing \/ recovery = "none")
    BY <2>1
  <2>3. socket' = [up |-> socket.up, ready |-> FALSE, syncing |-> b]
    BY <1>3, <2>2 DEF ReadyHeard
  <2>4. b = TRUE
    BY <2>2
  <2> QED
    BY <2>3, <2>4
<1>4. CASE Flush
  BY <1>4 DEF Flush
<1>5. CASE RecoveryFails
  BY <1>5 DEF RecoveryFails
<1>6. CASE Pages \/ ReadRooms \/ ReadCounts \/ SummaryLands
  BY <1>6 DEF Pages, ReadRooms, ReadCounts, SummaryLands
<1>7. CASE UNCHANGED <<socket, recovery>>
  BY <1>7
<1> QED
  BY <1>1, <1>2, <1>3, <1>4, <1>5, <1>6, <1>7 DEF BadgesNext, Sends, LoseRoom, Reads, Hear,
     Buffer, HearRemoved, applyCanonicalMessage, OpenRoom, MessagesLoaded, EventRefresh,
     EventSummaryLands, backend

LEMMA LinesStay ==
    ASSUME LineAssumption, Recovering, Tallied, BadgesNext
    PROVE  lines' \subseteq Line
<1>1. \A s \in SummaryShape : s.rooms \subseteq Line
  BY DEF SummaryShape
<1>2. summary.rooms \subseteq Line /\ \A s \in refresh : s.rooms \subseteq Line
  BY <1>1 DEF Tallied
<1>3. lines' \subseteq lines \/ lines' = summary.rooms \/ \E s \in refresh : lines' = s.rooms
  BY DEF BadgesNext, Sends, LoseRoom, Reads, Hear, Buffer, HearRemoved,
     applyCanonicalMessage, OpenRoom, MessagesLoaded, SocketConnects, SocketDrops,
     ReadyHeard, Pages, ReadRooms, ReadCounts, SummaryLands, Flush, RecoveryFails,
     EventRefresh, EventSummaryLands, refreshRoomsAndFolders
<1> QED
  BY <1>2, <1>3 DEF Recovering

LEMMA CountsStep ==
    ASSUME LineAssumption, BadgesInv, BadgesNext, recovery' = "counts"
    PROVE  /\ Covers(summary)' /\ summary'.read <= Len(posts')
           /\ \A n \in muted' : n <= summary'.read
<1> USE DEF BadgesInv
<1>0. Posted' /\ PostsGrow /\ Len(posts) \in Nat /\ Len(posts') \in Nat
  BY PostedStep DEF Posted
<1>1. CASE ReadCounts
  <2>1. summary' = Unread(summary) /\ UNCHANGED <<posts, position, muted>>
    BY <1>1 DEF ReadCounts, backend
  <2>2. summary \in SummaryShape
    BY DEF Tallied
  <2>3. Covers(Unread(summary)) /\ Unread(summary).read = Len(posts)
    BY <2>2, CoversWhenRead, SummariesAre
  <2>4. Covers(summary)'
    BY <2>1, <2>3 DEF Covers
  <2>5. summary'.read = Len(posts) /\ \A n \in muted : n <= Len(posts)
    BY <1>0, <2>1, <2>3 DEF Posted
  <2> QED
    BY <1>0, <2>1, <2>4, <2>5
<1>2. CASE recovery = "counts" /\ UNCHANGED <<summary, muted>>
  <2>1. summary \in SummaryShape /\ summary.read \in Nat
    BY DEF Tallied, SummaryShape
  <2>2. Covers(summary) /\ summary.read <= Len(posts) /\ \A n \in muted : n <= summary.read
    BY <1>2 DEF Recovering
  <2>3. \A s \in SummaryShape : Covers(s) /\ s.read <= Len(posts) => Covers(s)'
    BY <1>0, CoversStays
  <2>4. Covers(summary)'
    BY <1>2, <2>1, <2>2, <2>3 DEF Covers
  <2> QED
    BY <1>0, <1>2, <2>1, <2>2, <2>4 DEF PostsGrow
<1> QED
  BY <1>1, <1>2 DEF BadgesNext, Sends, LoseRoom, Reads, Hear, Buffer, HearRemoved,
     applyCanonicalMessage, OpenRoom, MessagesLoaded, SocketConnects, SocketDrops,
     ReadyHeard, Pages, ReadRooms, SummaryLands, Flush, RecoveryFails,
     EventRefresh, EventSummaryLands
LEMMA CountedStays ==
    ASSUME LineAssumption, Posted, Posted', PostsGrow, lines' \subseteq Line, StateIsCounted,
           lines' \subseteq lines, looked \subseteq looked',
           \A r \in lines' \ looked' : counted'[r] = counted[r] /\ badge'[r] = badge[r],
           \A n \in loaded' \cup muted' :
              n \in loaded \cup muted
              \/ (n \in 1..Len(posts) /\ (posts[n].mine \/ posts[n].room \in looked'))
    PROVE  StateIsCounted'
<1> SUFFICES ASSUME NEW n \in loaded' \cup muted', ~posts'[n].mine,
                    posts'[n].room \in lines' \ looked', n > position'[posts'[n].room]
             PROVE  n \in counted'[posts'[n].room] \/ badge'[posts'[n].room] >= CountLimit
  BY DEF StateIsCounted
<1>1. n \in 1..Len(posts) /\ posts'[n] = posts[n]
  BY DEF Posted, PostsGrow
<1>2. PICK r : r = posts[n].room
  OBVIOUS
<1>3. r \in lines' \ looked' /\ r \in Line /\ n \in loaded \cup muted
  BY <1>1, <1>2
<1>4. position[r] \in Nat /\ position'[r] \in Nat /\ position[r] <= position'[r]
  BY <1>3 DEF PostsGrow, Posted, LineAssumption
<1>5. n > position[r]
  BY <1>1, <1>2, <1>4
<1>6. n \in counted[r] \/ badge[r] >= CountLimit
  BY <1>1, <1>2, <1>3, <1>5 DEF StateIsCounted
<1> QED
  BY <1>1, <1>2, <1>3, <1>6

LEMMA LandedStep ==
    ASSUME LineAssumption, BadgesInv, BadgesNext, recovery' = "landed"
    PROVE  /\ open' = NoLine \/ open' \in looked'
           /\ ~shaken' => StateIsCounted'
<1> USE DEF BadgesInv
<1> DEFINE Goal == /\ open' = NoLine \/ open' \in looked'
                   /\ ~shaken' => StateIsCounted'
<1>0. Posted' /\ PostsGrow /\ lines' \subseteq Line
  BY PostedStep, LinesStay
<1>1. ASSUME UNCHANGED <<open, looked, recovery, loaded, muted, counted, badge, shaken>>,
             lines' \subseteq lines
      PROVE  Goal
  <2>1. StateIsCounted => StateIsCounted'
    BY <1>0, <1>1, CountedStays
  <2> QED
    BY <1>1, <2>1 DEF Recovering
<1>2. ASSUME NEW r \in Line, \/ \E mine \in BOOLEAN : Sends(r, mine)
                             \/ LoseRoom(r) \/ \E n \in PostedIn(r) : Reads(r, n)
      PROVE  Goal
  BY <1>1, <1>2 DEF Sends, LoseRoom, Reads
<1>3. ASSUME NEW f \in frames, Buffer(f) PROVE Goal
  BY <1>1, <1>3 DEF Buffer
<1>4. ASSUME NEW f \in frames, Hear(f) PROVE FALSE
  BY <1>4 DEF Hear, Recovering
<1>5. ASSUME NEW f \in frames, HearRemoved(f) PROVE Goal
  <2>1. /\ lines' \subseteq lines /\ open' = IF open = f.room THEN NoLine ELSE open
        /\ UNCHANGED <<looked, recovery, loaded, muted, counted, badge, shaken>>
    BY <1>5 DEF HearRemoved
  <2>2. StateIsCounted => StateIsCounted'
    BY <1>0, <2>1, CountedStays
  <2> QED
    BY <2>1, <2>2 DEF Recovering
<1>6. ASSUME NEW n \in DOMAIN posts, applyCanonicalMessage(n) PROVE Goal
  <2>1. /\ loaded' = loaded \cup {n} /\ posts[n].mine /\ n \in 1..Len(posts)
        /\ UNCHANGED <<open, lines, looked, recovery, muted, counted, badge, shaken>>
    BY <1>6 DEF applyCanonicalMessage, Posted
  <2>2. StateIsCounted => StateIsCounted'
    BY <1>0, <2>1, CountedStays
  <2> QED
    BY <2>1, <2>2 DEF Recovering
<1>7. ASSUME NEW r \in Line \cup {NoLine}, OpenRoom(r) PROVE Goal
  <2>1. /\ badge' = [s \in Line |-> IF s = r THEN 0 ELSE badge[s]]
        /\ counted' = [s \in Line |-> IF s = r THEN {} ELSE counted[s]]
        /\ looked' = looked \cup {q \in {r} \ {NoLine} : recovery = "landed"}
        /\ open' = r /\ UNCHANGED <<lines, recovery, loaded, muted, shaken>>
    BY <1>7 DEF OpenRoom
  <2>2. r = NoLine \/ r \in looked'
    BY <2>1
  <2>3. \A s \in lines' \ looked' : s \in Line /\ s # r
    BY <1>0, <2>2 DEF LineAssumption
  <2>4. \A s \in lines' \ looked' : counted'[s] = counted[s] /\ badge'[s] = badge[s]
    BY <2>1, <2>3
  <2>5. StateIsCounted => StateIsCounted'
    BY <1>0, <2>1, <2>4, CountedStays
  <2> QED
    BY <2>1, <2>2, <2>5 DEF Recovering
<1>8. ASSUME MessagesLoaded PROVE Goal
  <2>1. /\ reload # NoLine /\ loaded' = loaded \cup PostedIn(reload)
        /\ shaken' = (shaken \/ reload # open)
        /\ UNCHANGED <<open, lines, looked, recovery, muted, counted, badge>>
    BY <1>8 DEF MessagesLoaded
  <2>2. ASSUME ~shaken' PROVE StateIsCounted'
    <3>1. ~shaken /\ reload = open /\ open \in looked /\ StateIsCounted
      BY <2>1, <2>2 DEF Recovering
    <3>2. \A n \in PostedIn(reload) : n \in 1..Len(posts) /\ posts[n].room \in looked'
      BY <2>1, <3>1 DEF PostedIn, Posted
    <3> QED
      BY <1>0, <2>1, <3>1, <3>2, CountedStays
  <2> QED
    BY <2>1, <2>2 DEF Recovering
<1>9. ASSUME SocketConnects \/ SocketDrops \/ ReadyHeard PROVE Goal
  BY <1>1, <1>9 DEF SocketConnects, SocketDrops, ReadyHeard
<1>10. ASSUME Pages \/ ReadRooms \/ ReadCounts \/ Flush \/ RecoveryFails PROVE FALSE
  BY <1>10 DEF Pages, ReadRooms, ReadCounts, Flush, RecoveryFails
<1>11. ASSUME SummaryLands PROVE Goal
  <2>1. /\ recovery = "counts" /\ refreshRoomsAndFolders(summary)
        /\ loaded' \subseteq loaded /\ looked' = {open} \ {NoLine} /\ open' = open
        /\ shaken' = Hidden(summary) /\ UNCHANGED <<posts, position, muted>>
    BY <1>11 DEF SummaryLands, backend
  <2>2. Covers(summary) /\ \A n \in muted : n <= summary.read
    BY <2>1 DEF Recovering
  <2>3. counted' = summary.unread /\ \A r \in Line : badge'[r] = Cardinality(counted'[r])
    BY <2>1, SummaryTallies DEF Tallied
  <2>4. summary.read \in Nat
    BY DEF Tallied, SummaryShape
  <2>5. ASSUME ~Hidden(summary) PROVE StateIsCounted'
    <3> SUFFICES ASSUME NEW n \in loaded \cup muted, n > position[posts[n].room],
                        posts[n].room \in Line
                 PROVE  \/ n \in counted'[posts[n].room]
                        \/ badge'[posts[n].room] >= CountLimit
      BY <1>0, <2>1 DEF StateIsCounted
    <3>1. n \in 1..Len(posts) /\ n \in Nat
      BY DEF Posted
    <3>2. n <= summary.read
      BY <2>2, <2>4, <2>5, <3>1 DEF Hidden
    <3>3. \/ n \in summary.unread[posts[n].room]
          \/ Cardinality(summary.unread[posts[n].room]) >= CountLimit
      BY <2>2, <3>1, <3>2 DEF Covers
    <3> QED
      BY <2>3, <3>3
  <2> QED
    BY <2>1, <2>5
<1>12. ASSUME NEW hidden \in SUBSET Line, EventRefresh(hidden) PROVE Goal
  <2>1. /\ loaded' \subseteq loaded /\ shaken' = (shaken \/ hidden # {})
        /\ UNCHANGED <<open, lines, looked, recovery, muted, counted, badge>>
    BY <1>12 DEF EventRefresh
  <2>2. StateIsCounted => StateIsCounted'
    BY <1>0, <2>1, CountedStays
  <2> QED
    BY <2>1, <2>2 DEF Recovering
<1>13. ASSUME NEW s \in refresh, EventSummaryLands(s) PROVE Goal
  <2>1. shaken' = TRUE /\ UNCHANGED <<open, looked, recovery>>
    BY <1>13 DEF EventSummaryLands
  <2> QED
    BY <2>1 DEF Recovering
<1> QED
  BY <1>2, <1>3, <1>4, <1>5, <1>6, <1>7, <1>8, <1>9, <1>10, <1>11, <1>12, <1>13 DEF BadgesNext

LEMMA InitBadges == LineAssumption /\ BadgesInit => BadgesInv
<1> SUFFICES ASSUME LineAssumption, BadgesInit PROVE BadgesInv
  OBVIOUS
<1>1. Posted
  BY DEF BadgesInit, Posted, LineAssumption
<1>2. NoSummary \in SummaryShape
  BY <1>1, SummariesAre
<1>3. Tallied
  BY <1>2, FS_EmptySet DEF BadgesInit, Tallied, Unreads
<1>4. Recovering
  BY DEF BadgesInit, Recovering
<1> QED
  BY <1>1, <1>3, <1>4 DEF BadgesInv

LEMMA StepBadges == LineAssumption /\ BadgesInv /\ [BadgesNext]_wvars => BadgesInv'
<1>1. ASSUME LineAssumption, BadgesInv, BadgesNext PROVE BadgesInv'
  BY <1>1, PostedStep, TalliedStep, SocketStays, LinesStay, CountsStep, LandedStep
     DEF BadgesInv, Recovering
<1>2. ASSUME BadgesInv, UNCHANGED wvars PROVE BadgesInv'
  BY <1>2 DEF wvars, backend, BadgesInv, Posted, Tallied, Recovering, Covers, StateIsCounted
<1> QED
  BY <1>1, <1>2

\* What a flush applies was counted, or is counted now.
LEMMA FlushCounts ==
    ASSUME LineAssumption, BadgesInv, Flush, ~shaken
    PROVE  HeldAreCounted
<1> USE DEF BadgesInv
<1> SUFFICES ASSUME NEW n \in held, ~posts[n].mine, posts[n].room \in lines \ looked,
                    n > position[posts[n].room]
             PROVE  n \in counted'[posts[n].room] \/ badge'[posts[n].room] >= CountLimit
  BY DEF HeldAreCounted
<1>1. PICK r \in Line : r = posts[n].room
  BY RoomsOfPosts DEF Posted
<1>2. recovery = "landed" /\ Take(held) /\ held \in SUBSET (1..Len(posts))
      /\ shaken' = (shaken \/ Recounted(held) # {})
  BY DEF Flush, Posted
<1>3. r # open
  BY <1>1, <1>2 DEF Recovering, LineAssumption
<1>4. /\ counted'[r] = counted[r] \cup New(held, r) /\ badge[r] <= badge'[r]
      /\ badge' \in [Line -> Nat]
  BY <1>2, <1>3, TakeTallies
<1>5. CASE n \in loaded \cup muted
  <2>1. n \in counted[r] \/ badge[r] >= CountLimit
    BY <1>1, <1>2, <1>5 DEF Recovering, StateIsCounted
  <2>2. badge[r] \in Nat /\ badge'[r] \in Nat /\ CountLimit \in Nat
    BY <1>4 DEF Tallied, LineAssumption
  <2> QED
    BY <1>1, <1>4, <2>1, <2>2
<1>6. CASE n \notin loaded \cup muted
  <2>1. n \in New(held, r)
    BY <1>1, <1>3, <1>6 DEF New, Counts, CountsReplayed
  <2> QED
    BY <1>1, <1>4, <2>1
<1> QED
  BY <1>5, <1>6

\* However often the tab lost its connection and its recoveries failed, for any
\* number of rooms and messages and any limit of the server's count: a badge is
\* the number of the messages it stands for, and a flush leaves no unread message
\* it had kept uncounted, while none of what is named at shaken has happened.
THEOREM BadgesAreCounts == BadgesSpec => BadgesCountOnce
<1>1. BadgesInv => (~shaken => \A r \in lines : badge[r] = Cardinality(counted[r]))
  BY DEF BadgesInv, Tallied, Recovering
<1>2. BadgesInv /\ [BadgesNext]_wvars => [Flush /\ ~shaken => HeldAreCounted]_wvars
  BY LineAssumption, FlushCounts
<1>3. BadgesInit => BadgesInv
  BY LineAssumption, InitBadges
<1>4. BadgesInv /\ [BadgesNext]_wvars => BadgesInv'
  BY LineAssumption, StepBadges
<1> QED
  BY <1>1, <1>2, <1>3, <1>4, PTL DEF BadgesSpec, BadgesCountOnce
=============================================================================
