----------------------------- MODULE PageSession -----------------------------
(***************************************************************************)
(* The session of one tab. The access token lives in api.ts; the provider  *)
(* of the chat pages has a copy, which comes and goes with its pages. A    *)
(* call that is refused with 401 waits for the tab's one refresh, and is   *)
(* sent again with the new token. The monitoring page asks whether the     *)
(* token is an administrator's, and only then loads and polls, anew for    *)
(* every token.                                                            *)
(***************************************************************************)
EXTENDS Integers

CONSTANTS ApiCall, MaxToken   \* MaxToken bounds the access tokens ever issued

ASSUME PageAssumption == MaxToken \in Nat \ {0}

VARIABLES
    issued,     \* access tokens issued; the newest is number issued
    valid,      \* those the server takes
    access,     \* activeAccessToken, 0 for none
    refreshing, \* isRefreshing, and how far that refresh is
    call,       \* each call: where it is and the token it went with
    page,       \* the provider: its bootstrap, its token, isAuthenticated
    leaving,    \* the answer to POST /auth/logout has not come
    admin,      \* the monitoring page
    loads       \* its requests that have not been answered

pvars == <<issued, valid, access, refreshing, call, page, leaving, admin, loads>>

-----------------------------------------------------------------------------
Unmounted == [boot |-> "off", began |-> 0, token |-> 0, authed |-> FALSE]
NoAdmin   == [here |-> FALSE, access |-> "checking", verified |-> 0, data |-> 0]

PageInit ==
    /\ issued = 1 /\ valid = {1} /\ access = 0
    /\ refreshing = "no"
    /\ call = [c \in ApiCall |-> [step |-> "unsent", token |-> 0]]
    /\ page = Unmounted /\ leaving = FALSE /\ admin = NoAdmin /\ loads = {}

\* The cleanup of both effects: what is in flight is answered to nobody.
Cancelled == {[l EXCEPT !.live = FALSE] : l \in loads}

\* The effect that verifies: it forgets what the last token was shown and asks.
Asks(t) ==
    /\ admin' = [NoAdmin EXCEPT !.here = TRUE]
    /\ loads' = Cancelled \cup {[token |-> t, what |-> "health", live |-> TRUE]}

\* The provider has token t now; a session that is signed out asks nothing.
TokenChanged(boot, t, authed) ==
    /\ page' = [page EXCEPT !.boot = boot, !.token = t, !.authed = authed]
    /\ IF t = page.token /\ authed = page.authed THEN UNCHANGED <<admin, loads>>
       ELSE IF admin.here /\ authed /\ t # 0 THEN Asks(t)
       ELSE loads' = Cancelled /\ UNCHANGED admin

\* setActiveAccessToken and its event, which only mounted pages hear.
SetAccess(t) ==
    /\ access' = t
    /\ IF page.boot = "off" THEN UNCHANGED <<page, admin, loads>>
       ELSE TokenChanged(page.boot, t, page.authed)

clearSession ==
    /\ access' = 0
    /\ TokenChanged(IF page.boot = "off" THEN "off" ELSE "ended", 0, FALSE)

-----------------------------------------------------------------------------
(* Signing in and out, and the bootstrap of the pages.                     *)

\* login and register set the token before the pages are opened.
SignIn ==
    /\ page.boot = "off" /\ issued < MaxToken
    /\ issued' = issued + 1 /\ valid' = valid \cup {issued'}
    /\ access' = issued'
    /\ UNCHANGED <<refreshing, call, page, leaving, admin, loads>>

\* A tab without a token asks for one with its cookie, under the same lock.
Mount(here) ==
    /\ page.boot = "off"
    /\ page' = [Unmounted EXCEPT !.boot = IF access = 0 THEN "renewing" ELSE "loading",
                                 !.began = access, !.token = access]
    /\ admin' = [NoAdmin EXCEPT !.here = here]
    /\ UNCHANGED <<issued, valid, access, refreshing, call, leaving, loads>>

Booted ==
    /\ page.boot = "renewing" /\ issued < MaxToken
    /\ issued' = issued + 1 /\ valid' = valid \cup {issued'} /\ access' = issued'
    /\ page' = [page EXCEPT !.boot = "loading", !.began = issued', !.token = issued']
    /\ UNCHANGED <<refreshing, call, leaving, admin, loads>>

\* The profile has come. The token kept is the one the bootstrap began with,
\* even where its requests have refreshed since.
SignedIn ==
    /\ page.boot = "loading"
    /\ access' = page.began
    /\ TokenChanged("on", page.began, TRUE)
    /\ UNCHANGED <<issued, valid, refreshing, call, leaving>>

BootFailed ==
    /\ page.boot \in {"renewing", "loading"}
    /\ clearSession
    /\ UNCHANGED <<issued, valid, refreshing, call, leaving>>

\* The page goes away, by handleLogout or the redirect of an ended session.
Logout ==
    /\ page.boot \in {"on", "ended"}
    /\ leaving' = (leaving \/ page.token # 0)
    /\ access' = 0 /\ page' = Unmounted /\ admin' = NoAdmin /\ loads' = Cancelled
    /\ UNCHANGED <<issued, valid, refreshing, call>>

\* logout forgets the token the tab has when the server answers, whoever has
\* signed in since.
LoggedOut ==
    /\ leaving
    /\ leaving' = FALSE
    /\ SetAccess(0)
    /\ UNCHANGED <<issued, valid, refreshing, call>>

TokenExpires(t) ==
    /\ t \in valid /\ issued < MaxToken
    /\ valid' = valid \ {t}
    /\ UNCHANGED <<issued, access, refreshing, call, page, leaving, admin, loads>>

-----------------------------------------------------------------------------
(* request, for any call that is not to /auth.                             *)

SendCall(c) ==
    /\ call[c].step = "unsent" /\ page.token # 0
    /\ call' = [call EXCEPT ![c] = [step |-> "sent", token |-> page.token]]
    /\ UNCHANGED <<issued, valid, access, refreshing, page, leaving, admin, loads>>

\* The server's answer: success, or a failure that is not about the token.
Answer(c) ==
    /\ call[c].step = "sent" /\ call[c].token \in valid
    /\ \E end \in {"done", "failed"} : call' = [call EXCEPT ![c].step = end]
    /\ UNCHANGED <<issued, valid, access, refreshing, page, leaving, admin, loads>>

\* fetch itself fails: nobody knows whether the server has heard the call.
Lose(c) ==
    /\ call[c].step = "sent"
    /\ call' = [call EXCEPT ![c].step = "failed"]
    /\ UNCHANGED <<issued, valid, access, refreshing, page, leaving, admin, loads>>

\* 401: the first to hear it starts the refresh; everyone waits for its end.
RefuseCall(c) ==
    /\ call[c].step = "sent" /\ call[c].token \notin valid
    /\ call' = [call EXCEPT ![c].step = "waiting"]
    /\ refreshing' = IF refreshing = "no" THEN "asked" ELSE refreshing
    /\ UNCHANGED <<issued, valid, access, page, leaving, admin, loads>>

\* refreshTokens under runExclusiveRefresh, as the server decides it.
Renew ==
    /\ refreshing = "asked"
    /\ \/ /\ issued < MaxToken
          /\ refreshing' = "renewed"
          /\ issued' = issued + 1 /\ valid' = valid \cup {issued'}
       \/ refreshing' = "refused" /\ UNCHANGED <<issued, valid>>
    /\ UNCHANGED <<access, call, page, leaving, admin, loads>>

\* onTokenRefreshed: every subscriber sends its request again.
Renewed ==
    /\ refreshing = "renewed"
    /\ refreshing' = "no"
    /\ call' = [c \in ApiCall |-> IF call[c].step = "waiting"
                               THEN [step |-> "sent", token |-> issued] ELSE call[c]]
    /\ SetAccess(issued)
    /\ UNCHANGED <<issued, valid, leaving>>

\* Mutant: the failure path does not reset isRefreshing.
StillRefreshing == "ended"

AfterFailure == "no"

\* onRefreshFailed rejects every subscriber, and the pages end the session.
RenewFailed ==
    /\ refreshing = "refused"
    /\ refreshing' = AfterFailure
    /\ call' = [c \in ApiCall |-> IF call[c].step = "waiting"
                               THEN [call[c] EXCEPT !.step = "failed"] ELSE call[c]]
    /\ IF page.boot = "off" THEN UNCHANGED <<access, page, admin, loads>>
       ELSE clearSession
    /\ UNCHANGED <<issued, valid, leaving>>

-----------------------------------------------------------------------------
(* The monitoring page.                                                    *)

\* The path changes: coming back verifies again, leaving cancels.
TurnPage ==
    /\ page.boot # "off"
    /\ IF ~admin.here /\ page.authed /\ page.token # 0 THEN Asks(page.token)
       ELSE admin' = [admin EXCEPT !.here = ~@] /\ loads' = Cancelled
    /\ UNCHANGED <<issued, valid, access, refreshing, call, page, leaving>>

\* The effect that loads, and polls from then on.
Watching == /\ admin.here /\ page.authed /\ admin.access = "allowed"
            /\ admin.verified = page.token /\ page.token # 0

DataLoad(t) == [token |-> t, what |-> "data", live |-> TRUE]

\* Mutant: an answer is taken although its effect was cleaned up.
AnyAnswer(l) == TRUE

Heard(l) == l.live

\* adminMiddleware: the health check, answered.
Verify(l) ==
    /\ l \in loads /\ l.what = "health"
    /\ IF Heard(l)
       THEN \/ /\ admin' = [admin EXCEPT !.access = "allowed", !.verified = l.token]
               /\ loads' = (loads \ {l}) \cup {DataLoad(l.token)}
            \/ /\ \E a \in {"forbidden", "error"} : admin' = [admin EXCEPT !.access = a]
               /\ loads' = loads \ {l}
       ELSE loads' = loads \ {l} /\ UNCHANGED admin
    /\ UNCHANGED <<issued, valid, access, refreshing, call, page, leaving>>

\* A failed check is made again, which starts the effect anew.
Recheck ==
    /\ admin.here /\ page.authed /\ admin.access = "error" /\ page.token # 0
    /\ Asks(page.token)
    /\ UNCHANGED <<issued, valid, access, refreshing, call, page, leaving>>

\* Metrics, logs and slow queries: all three, or the error of one.
Show(l) ==
    /\ l \in loads /\ l.what = "data"
    /\ loads' = loads \ {l}
    /\ IF Heard(l)
       THEN \/ admin' = [admin EXCEPT !.data = l.token]
            \/ admin' = [admin EXCEPT !.access = "forbidden"]
            \/ UNCHANGED admin
       ELSE UNCHANGED admin
    /\ UNCHANGED <<issued, valid, access, refreshing, call, page, leaving>>

\* The timer of the next poll; a token that has changed ends the polling.
Poll ==
    /\ Watching /\ access = page.token
    /\ ~\E l \in loads : l.live
    /\ loads' = loads \cup {DataLoad(page.token)}
    /\ UNCHANGED <<issued, valid, access, refreshing, call, page, leaving, admin>>

PageNext ==
    \/ SignIn \/ Booted \/ SignedIn \/ BootFailed \/ Logout \/ LoggedOut
    \/ Renew \/ Renewed \/ RenewFailed
    \/ TurnPage \/ Recheck \/ Poll
    \/ \E here \in BOOLEAN : Mount(here)
    \/ \E t \in 1..MaxToken : TokenExpires(t)
    \/ \E c \in ApiCall : SendCall(c) \/ Answer(c) \/ Lose(c) \/ RefuseCall(c)
    \/ \E l \in loads : Verify(l) \/ Show(l)

\* A request is answered or fails, and so is a refresh; the event loop runs
\* what has been answered.
PageFairness ==
    /\ \A c \in ApiCall : WF_pvars(Answer(c)) /\ WF_pvars(RefuseCall(c))
    /\ WF_pvars(Renew) /\ WF_pvars(Renewed) /\ WF_pvars(RenewFailed)

PageSpec == PageInit /\ [][PageNext]_pvars /\ PageFairness

-----------------------------------------------------------------------------
\* Every variable has its type.
PageTypeOK ==
    /\ issued \in 1..MaxToken /\ valid \subseteq 1..issued /\ access \in 0..issued
    /\ refreshing \in {"no", "asked", "renewed", "refused"}
    /\ call \in [ApiCall -> [step : {"unsent", "sent", "waiting", "done", "failed"},
                          token : 0..issued]]
    /\ page \in [boot : {"off", "renewing", "loading", "on", "ended"},
                 began : 0..issued, token : 0..issued, authed : BOOLEAN]
    /\ leaving \in BOOLEAN
    /\ admin \in [here : BOOLEAN, access : {"checking", "allowed", "forbidden", "error"},
                  verified : 0..issued, data : 0..issued]
    /\ loads \subseteq [token : 1..issued, what : {"health", "data"}, live : BOOLEAN]

\* Nothing waits for ever: a call that was sent succeeds or fails, however
\* often its token runs out, whichever refresh it waits for, and whether or not
\* the user signs out meanwhile.
CallsSettle ==
    \A c \in ApiCall : call[c].step = "sent" ~> call[c].step \in {"done", "failed"}

\* What the monitoring page shows was loaded with the token that was verified
\* for it, the token of the session while it has one: an answer that was asked for
\* under an earlier token or an earlier visit is never shown.
ShownIsVerified ==
    admin.here /\ page.authed /\ page.token # 0 /\ admin.access = "allowed" =>
        admin.verified = page.token /\ admin.data \in {0, page.token}
=============================================================================
