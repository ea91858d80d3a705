------------------------------ MODULE SocialData ------------------------------
(***************************************************************************)
(* Friends, requests and blocks as one tab shows them, for one other user. *)
(* Whatever the tab does, and whatever it hears the other user has done,   *)
(* ends in refreshSocialData: calls within 250 ms share one promise and    *)
(* put the fetch off, and a fetch reads its lists one by one. The handlers *)
(* are taken as one step each; PrivateRooms has their races.               *)
(***************************************************************************)
EXTENDS Integers

CONSTANTS
    MaxDeeds,   \* bound on what the two users do
    MaxFetches  \* bound on fetches under way

ASSUME SocialAssumption == MaxDeeds \in Nat /\ MaxFetches \in Nat

VARIABLES
    relation,   \* friendships and blocks of the pair, seen from this user
    shown,      \* the lists of the tab
    notices,    \* friend_request events on their way to the tab
    timer,      \* the refresh is put off and will run
    fetches,    \* refreshes under way
    deed,       \* what the tab is doing
    deeds,      \* number of deeds so far
    overtaken   \* a refresh was overtaken or failed, an event or an answer lost (history)

fvars == <<relation, shown, notices, timer, fetches, deed, deeds, overtaken>>

-----------------------------------------------------------------------------
Deed == {"send", "accept", "reject", "remove", "block", "unblock"}
List == {"friends", "request", "blocked"}

Open(r) == ~r.mine /\ ~r.theirs

\* What the lists say of a pair; mapFriendRequest tells the directions apart.
Listed(r) == [friends |-> r.link = "friends" /\ Open(r),
              request |-> IF r.link \in {"sent", "received"} THEN r.link ELSE "none",
              blocked |-> r.mine]

\* The pair seen from the other side.
Turned(r) == [link   |-> CASE r.link = "sent"     -> "received"
                           [] r.link = "received" -> "sent"
                           [] OTHER -> r.link,
              mine   |-> r.theirs,
              theirs |-> r.mine]

SocialInit ==
    /\ \E link \in {"none", "friends"} :
         relation = [link |-> link, mine |-> FALSE, theirs |-> FALSE]
    /\ shown = Listed(relation)
    /\ notices = 0 /\ timer = FALSE /\ fetches = {}
    /\ deed = [what |-> "none", step |-> "none"] /\ deeds = 0 /\ overtaken = FALSE

-----------------------------------------------------------------------------
(* The handlers of friendService, for the user who calls.                  *)

Allowed(what, r) ==
    CASE what = "send"   -> Open(r) /\ r.link \in {"none", "received"}
      [] what = "accept" -> Open(r) /\ r.link = "received"
      [] what = "reject" -> r.link = "received"
      [] OTHER           -> TRUE

\* A request that meets one of the other user accepts it.
Requested(r)  == [r EXCEPT !.link = IF @ = "received" THEN "friends" ELSE "sent"]
Separated(r)  == [r EXCEPT !.link = "none"]
Blocked(r, b) == [r EXCEPT !.mine = b]

Done(what, r) ==
    CASE what = "send"               -> Requested(r)
      [] what = "accept"             -> [r EXCEPT !.link = "friends"]
      [] what \in {"reject", "remove"} -> Separated(r)
      [] what \in {"block", "unblock"} -> Blocked(r, what = "block")

\* The other user does something, and the service tells this one.
TheyDo(what) ==
    /\ deeds < MaxDeeds /\ Allowed(what, Turned(relation))
    /\ relation' = Turned(Done(what, Turned(relation)))
    /\ notices' = notices + 1 /\ deeds' = deeds + 1
    /\ UNCHANGED <<shown, timer, fetches, deed, overtaken>>

LoseNotice ==
    /\ notices > 0
    /\ notices' = notices - 1 /\ overtaken' = TRUE
    /\ UNCHANGED <<relation, shown, timer, fetches, deed, deeds>>

-----------------------------------------------------------------------------
(* The tab.                                                                *)

\* The buttons of the friends panel.
Offered(what) ==
    CASE what = "send"                  -> TRUE
      [] what \in {"accept", "reject"}  -> shown.request = "received"
      [] what \in {"remove", "block"}   -> shown.friends
      [] what = "unblock"               -> shown.blocked

Ask(what) ==
    /\ deed.step = "none" /\ deeds < MaxDeeds /\ Offered(what)
    /\ deed' = [what |-> what, step |-> "asked"] /\ deeds' = deeds + 1
    /\ UNCHANGED <<relation, shown, notices, timer, fetches, overtaken>>

\* The cancel button of a request that was sent: the server is not asked.
CancelSent ==
    /\ deed.step = "none" /\ shown.request = "sent"
    /\ deed' = [what |-> "cancel", step |-> "waiting"] /\ timer' = TRUE
    /\ UNCHANGED <<relation, shown, notices, fetches, deeds, overtaken>>

ServeDeed ==
    /\ deed.step = "asked" /\ Allowed(deed.what, relation)
    /\ relation' = Done(deed.what, relation)
    /\ deed' = [deed EXCEPT !.step = "answered"]
    /\ UNCHANGED <<shown, notices, timer, fetches, deeds, overtaken>>

\* Refused, or the request or its answer is lost: the tab refreshes nothing.
DeedFails ==
    /\ deed.step \in {"asked", "answered"}
    /\ deed' = [what |-> "none", step |-> "none"]
    /\ overtaken' = (overtaken \/ deed.step = "answered")
    /\ UNCHANGED <<relation, shown, notices, timer, fetches, deeds>>

\* An acceptance is shown at once, and then everything is refreshed.
Answered ==
    /\ deed.step = "answered"
    /\ shown' = IF deed.what = "accept" /\ shown.request = "received"
                THEN [shown EXCEPT !.friends = TRUE, !.request = "none"] ELSE shown
    /\ timer' = TRUE /\ deed' = [deed EXCEPT !.step = "waiting"]
    /\ UNCHANGED <<relation, notices, fetches, deeds, overtaken>>

\* Mutant: an event during a fetch is taken to be covered by it.
UnlessFetching == timer \/ fetches = {}

Rearmed == TRUE

onFriendRequest ==
    /\ notices > 0
    /\ notices' = notices - 1 /\ timer' = Rearmed
    /\ UNCHANGED <<relation, shown, fetches, deed, deeds, overtaken>>

-----------------------------------------------------------------------------
(* refreshSocialData.                                                      *)

\* The timer runs: a later call makes a promise, and a fetch, of its own.
BeginFetch ==
    /\ timer
    /\ \E n \in 1..MaxFetches :
         /\ \A f \in fetches : f.number < n
         /\ fetches' = fetches \cup
              {[number |-> n, unread |-> List, got |-> shown,
                awaited |-> deed.step = "waiting"]}
    /\ timer' = FALSE
    /\ deed' = IF deed.step = "waiting" THEN [deed EXCEPT !.step = "fetching"] ELSE deed
    /\ UNCHANGED <<relation, shown, notices, deeds, overtaken>>

Read(f, list) ==
    /\ f \in fetches /\ list \in f.unread
    /\ fetches' = (fetches \ {f}) \cup
         {[f EXCEPT !.unread = @ \ {list}, !.got[list] = Listed(relation)[list]]}
    /\ UNCHANGED <<relation, shown, notices, timer, deed, deeds, overtaken>>

Resolve(f) ==
    /\ fetches' = fetches \ {f}
    /\ deed' = IF f.awaited THEN [what |-> "none", step |-> "none"] ELSE deed

\* A fetch that ends before one that began earlier is overwritten by that one.
Land(f) ==
    /\ f \in fetches /\ f.unread = {}
    /\ shown' = f.got
    /\ overtaken' = (overtaken \/ \E g \in fetches : g.number < f.number)
    /\ Resolve(f)
    /\ UNCHANGED <<relation, notices, timer, deeds>>

FetchFails(f) ==
    /\ f \in fetches
    /\ overtaken' = TRUE
    /\ Resolve(f)
    /\ UNCHANGED <<relation, shown, notices, timer, deeds>>

SocialNext ==
    \/ \E what \in Deed : TheyDo(what) \/ Ask(what)
    \/ CancelSent \/ ServeDeed \/ DeedFails \/ Answered \/ LoseNotice \/ onFriendRequest
    \/ BeginFetch
    \/ \E f \in fetches : Land(f) \/ FetchFails(f) \/ \E list \in List : Read(f, list)

SocialSpec == SocialInit /\ [][SocialNext]_fvars

-----------------------------------------------------------------------------
Lists == [friends : BOOLEAN, request : {"none", "sent", "received"}, blocked : BOOLEAN]

\* Every variable has its type.
SocialTypeOK ==
    /\ relation \in [link : {"none", "sent", "received", "friends"},
                     mine : BOOLEAN, theirs : BOOLEAN]
    /\ shown \in Lists
    /\ notices \in 0..MaxDeeds /\ deeds \in 0..MaxDeeds
    /\ timer \in BOOLEAN /\ overtaken \in BOOLEAN
    /\ fetches \subseteq [number : 1..MaxFetches, unread : SUBSET List, got : Lists,
                          awaited : BOOLEAN]
    /\ deed \in [what : Deed \cup {"none", "cancel"},
                 step : {"none", "asked", "answered", "waiting", "fetching"}]

\* Once nothing is on its way the tab shows the pair as the server has it, even
\* where the lists of a fetch were read before and after a change, calls were
\* put off and joined, and an acceptance was shown early: only an event or an
\* answer that was lost, a failed fetch or one that was overtaken undoes it.
ListsConverge ==
    (notices = 0 /\ ~timer /\ fetches = {} /\ deed.step = "none" /\ ~overtaken) =>
        shown = Listed(relation)
=============================================================================
