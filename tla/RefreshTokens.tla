--------------------------- MODULE RefreshTokens -----------------------------
(***************************************************************************)
(* The refresh tokens of one user: the rows of refresh_tokens, the cookie  *)
(* each browser keeps one of them in, and the tabs of a browser, which ask *)
(* for a refresh under the browser's lock. A refresh reads the row of its  *)
(* token, and later inserts the successor and marks the row as replaced,   *)
(* without a second look at it. A token that comes again after it was      *)
(* replaced ends every session of the user.                                *)
(***************************************************************************)
EXTENDS Integers, Sequences

CONSTANTS
    Browser, Tab,
    BrowserOf,      \* the browser of a tab
    LockSettings,   \* whether navigator.locks exists
    MaxTokens,      \* bound on tokens issued
    MaxLeft         \* bound on answers that do not reach the browser

ASSUME TokenAssumption ==
    /\ BrowserOf \in [Tab -> Browser] /\ "free" \notin Tab
    /\ LockSettings \subseteq BOOLEAN
    /\ MaxTokens \in Nat /\ MaxLeft \in Nat

VARIABLES
    tokens,     \* the rows: whether revoked, replaced_by, and whom they replaced
                \* (history)
    cookie,     \* of a browser, 0 without one
    tab,        \* a tab's request: where it is, its token, what it found
    locked,     \* the tab that holds auth:refresh, by browser
    exclusive,  \* whether navigator.locks exists
    reused,     \* reuse detection has ended every session (history)
    left        \* pages left under a refresh, counted for the bound

kvars == <<tokens, cookie, tab, locked, exclusive, reused, left>>

-----------------------------------------------------------------------------
Idling == [step |-> "idle", token |-> 0, found |-> "nothing", kept |-> TRUE]

Fresh(old) == [revoked |-> FALSE, by |-> 0, from |-> old]

TokenInit ==
    /\ tokens = <<>> /\ cookie = [b \in Browser |-> 0]
    /\ tab = [t \in Tab |-> Idling] /\ locked = [b \in Browser |-> "free"]
    /\ exclusive \in LockSettings
    /\ reused = FALSE /\ left = 0

\* register and login: issueRefreshToken, and the cookie is set.
Login(b) ==
    /\ cookie[b] = 0 /\ Len(tokens) < MaxTokens
    /\ tokens' = Append(tokens, Fresh(0))
    /\ cookie' = [cookie EXCEPT ![b] = Len(tokens')]
    /\ UNCHANGED <<tab, locked, exclusive, reused, left>>

\* A request was refused with 401, or a page starts without an access token.
\* The cookie goes with the request as it is when the lock is had.
\* Mutant: nobody waits for the lock.
NotWaiting(t) == TRUE

MayRefresh(t) == exclusive => locked[BrowserOf[t]] = "free"

AskRefresh(t) ==
    LET b == BrowserOf[t] IN
    /\ tab[t].step = "idle" /\ cookie[b] # 0 /\ MayRefresh(t)
    /\ tab' = [tab EXCEPT ![t] = [Idling EXCEPT !.step = "sent", !.token = cookie[b]]]
    /\ locked' = IF exclusive THEN [locked EXCEPT ![b] = t] ELSE locked
    /\ UNCHANGED <<tokens, cookie, exclusive, reused, left>>

\* refresh reads the row; an expired or revoked token is refused.
ReadToken(t) ==
    LET k == tokens[tab[t].token] IN
    /\ tab[t].step = "sent"
    /\ \E found \in IF ~k.revoked THEN {"good", "expired"}
                    ELSE IF k.by # 0 THEN {"replaced"} ELSE {"revoked"} :
          tab' = [tab EXCEPT ![t].found = found,
                    ![t].step = CASE found = "good" -> "rotate"
                                  [] found = "replaced" -> "revoke"
                                  [] OTHER -> "refused"]
    /\ UNCHANGED <<tokens, cookie, locked, exclusive, reused, left>>

\* rotate: the successor is inserted and the row names it, in one transaction.
Replaced(k, next) == [k EXCEPT !.revoked = TRUE, !.by = next]

Rotate(t) ==
    LET old == tab[t].token IN
    /\ tab[t].step = "rotate" /\ Len(tokens) < MaxTokens
    /\ tokens' = Append([tokens EXCEPT ![old] = Replaced(@, Len(tokens) + 1)], Fresh(old))
    /\ tab' = [tab EXCEPT ![t].step = "renewed", ![t].token = Len(tokens')]
    /\ UNCHANGED <<cookie, locked, exclusive, reused, left>>

\* revokeAllForUser.
RevokeAll(t) ==
    /\ tab[t].step = "revoke"
    /\ tokens' = [n \in 1..Len(tokens) |-> [tokens[n] EXCEPT !.revoked = TRUE]]
    /\ reused' = TRUE
    /\ tab' = [tab EXCEPT ![t].step = "refused"]
    /\ UNCHANGED <<cookie, locked, exclusive, left>>

Unlock(t) == locked' = [locked EXCEPT ![BrowserOf[t]] =
                          IF @ = t THEN "free" ELSE @]

\* The answer sets the cookie, or clears it; the lock is given back.
AnswerRefresh(t) ==
    /\ tab[t].step \in {"renewed", "refused"}
    /\ IF tab[t].kept
       THEN /\ cookie' = [cookie EXCEPT ![BrowserOf[t]] =
                            IF tab[t].step = "renewed" THEN tab[t].token ELSE 0]
            /\ Unlock(t)
       ELSE UNCHANGED <<cookie, locked>>
    /\ tab' = [tab EXCEPT ![t] = Idling]
    /\ UNCHANGED <<tokens, exclusive, reused, left>>

\* The page is left, or the network lost, under a refresh: the lock is given
\* back, the handler goes on, and its answer sets no cookie.
LoseAnswer(t) ==
    /\ tab[t].step # "idle" /\ tab[t].kept /\ left < MaxLeft
    /\ left' = left + 1
    /\ tab' = [tab EXCEPT ![t].kept = FALSE]
    /\ Unlock(t)
    /\ UNCHANGED <<tokens, cookie, exclusive, reused>>

\* logout: the token of the cookie is revoked and the cookie cleared. It does
\* not wait for a refresh of another tab.
Logout(b) ==
    /\ cookie[b] # 0
    /\ tokens' = [tokens EXCEPT ![cookie[b]].revoked = TRUE]
    /\ cookie' = [cookie EXCEPT ![b] = 0]
    /\ UNCHANGED <<tab, locked, exclusive, reused, left>>

TokenNext ==
    \/ \E b \in Browser : Login(b) \/ Logout(b)
    \/ \E t \in Tab : \/ AskRefresh(t) \/ ReadToken(t) \/ Rotate(t)
                      \/ RevokeAll(t) \/ AnswerRefresh(t) \/ LoseAnswer(t)

TokenSpec == TokenInit /\ [][TokenNext]_kvars

-----------------------------------------------------------------------------
\* Every variable has its type.
TokenTypeOK ==
    /\ \A n \in 1..Len(tokens) :
         tokens[n] \in [revoked : BOOLEAN, by : 0..MaxTokens, from : 0..MaxTokens]
    /\ cookie \in [Browser -> 0..MaxTokens]
    /\ \A t \in Tab : tab[t].step \in
         {"idle", "sent", "rotate", "revoke", "renewed", "refused"}
    /\ locked \in [Browser -> Tab \cup {"free"}]
    /\ exclusive \in BOOLEAN /\ reused \in BOOLEAN

\* However their refreshes fall, the tabs of a browser that keep to its lock
\* never present a replaced token and never replace one twice, and so never
\* end the user's sessions, here or on another device, as long as every answer
\* arrives.
TabsKeepTheirSession ==
    exclusive /\ left = 0 =>
        /\ ~reused
        /\ \A m, n \in 1..Len(tokens) :
             m # n /\ tokens[m].from # 0 => tokens[m].from # tokens[n].from
=============================================================================
