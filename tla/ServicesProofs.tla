--------------------------- MODULE ServicesProofs ---------------------------
(*************************************************************************)
(* Tabs that wait for their browser's lock keep the user signed in; rows *)
(* name files that are there, and messages keep their attachments; a     *)
(* process stops in the order of its stages; the migration table names   *)
(* the beginning of a release; the caches of the service worker stay     *)
(* small and end with their session; and reports are of the newest       *)
(* records.                                                              *)
(*                                                                       *)
(* Tokens: while every answer arrives, a tab under way holds the lock of *)
(* its browser; so no other tab has sent the token that it replaces, and *)
(* no other browser has it (Apart). That token has no successor yet      *)
(* (Carried) and the cookie names one that has none, unless the answer   *)
(* with its successor is under way (Cookies).                            *)
(* Claims: a locked row is recorded, has no message, and no other send has *)
(* it (Held); so the commit finds every row it asked for still free.     *)
(* Files: what a handler is about to name was written whole (Attachments), *)
(* a name that a row has or had is of a handler past its update (Past), so *)
(* that the file a handler removes is no longer the row's (Pictures).    *)
(* Shutdown: a stage is entered only by way of the one before it.        *)
(* Migrations: a run that has read the table holds the lock, so its batch *)
(* is still what the table asks for when it commits (Planned). A batch   *)
(* upwards is the rest of the release behind the applied names, one      *)
(* downwards their end (WithoutLeaves: a filter that keeps what is       *)
(* between two places is that part of the sequence).                     *)
(* Caches: where one is over its limit, some worker has yet to list its  *)
(* keys or is about to delete enough of them, whatever others delete     *)
(* meanwhile (Trimmed).                                                  *)
(* Rings: a record that is not Capacity records old is in its slot       *)
(* (Holds), and sorting gives every place to one slot (PlacesAreTaken).  *)
(*************************************************************************)
EXTENDS RefreshTokens, Uploads, Shutdown, Migrations, PageCache, RecentRecords,
        SequenceTheorems, FiniteSetTheorems, WellFoundedInduction, TLAPS

TokenShape == [revoked : BOOLEAN, by : Nat, from : Nat]
TabShape   == [step : {"idle", "sent", "rotate", "revoke", "renewed", "refused"},
               token : Nat,
               found : {"nothing", "good", "expired", "replaced", "revoked"},
               kept : BOOLEAN]

Kinds ==
    /\ tokens \in Seq(TokenShape)
    /\ cookie \in [Browser -> Nat] /\ \A b \in Browser : cookie[b] <= Len(tokens)
    /\ tab \in [Tab -> TabShape]
    /\ locked \in [Browser -> Tab \cup {"free"}]

Carries(t) == tab[t].step \in {"sent", "rotate", "renewed"}

Locked ==
    \A t \in Tab :
        /\ tab[t].kept /\ tab[t].step # "revoke"
        /\ tab[t].step # "idle" => locked[BrowserOf[t]] = t

Carried ==
    \A t \in Tab : Carries(t) =>
        tab[t].token \in 1..Len(tokens) /\ tokens[tab[t].token].by = 0

Renewing(b) == \E t \in Tab : BrowserOf[t] = b /\ tab[t].step = "renewed"

Cookies ==
    \A b \in Browser :
        cookie[b] # 0 /\ ~ Renewing(b) => tokens[cookie[b]].by = 0

Lineage ==
    \A n \in 1..Len(tokens) : tokens[n].from # 0 =>
        tokens[n].from \in 1..Len(tokens) /\ tokens[tokens[n].from].by = n

Apart ==
    /\ \A b, c \in Browser : b # c /\ cookie[b] # 0 => cookie[b] # cookie[c]
    /\ \A t \in Tab, c \in Browser :
         Carries(t) /\ BrowserOf[t] # c => tab[t].token # cookie[c]
    /\ \A t, u \in Tab :
         Carries(t) /\ Carries(u) /\ BrowserOf[t] # BrowserOf[u] =>
            tab[t].token # tab[u].token

Good == Kinds /\ Locked /\ Carried /\ Cookies /\ Lineage /\ Apart /\ ~reused

Inv == left \in Nat /\ (exclusive /\ left = 0 => Good)

-----------------------------------------------------------------------------
(* Rows, and two tabs of one browser.                                      *)

LEMMA Rows ==
    ASSUME NEW s \in Seq(TokenShape), NEW r \in TokenShape
    PROVE  /\ Len(s) \in Nat
           /\ \A n \in 1..Len(s) : s[n] \in TokenShape
           /\ Append(s, r) \in Seq(TokenShape) /\ Len(Append(s, r)) = Len(s) + 1
           /\ \A n \in 1..Len(s) : Append(s, r)[n] = s[n]
           /\ Append(s, r)[Len(s) + 1] = r
  BY AppendProperties, ElementOfSeq, LenProperties

LEMMA RowReplaced ==
    ASSUME NEW s \in Seq(TokenShape), NEW n \in 1..Len(s), NEW r \in TokenShape
    PROVE  /\ [s EXCEPT ![n] = r] \in Seq(TokenShape)
           /\ Len([s EXCEPT ![n] = r]) = Len(s)
           /\ [s EXCEPT ![n] = r][n] = r
           /\ \A m \in 1..Len(s) : m # n => [s EXCEPT ![n] = r][m] = s[m]
  BY ExceptSeq, LenProperties

\* Two tabs of a browser are not under way together.
LEMMA OneAtATime ==
    ASSUME Good, NEW t \in Tab, NEW u \in Tab, BrowserOf[t] = BrowserOf[u],
           tab[t].step # "idle", tab[u].step # "idle"
    PROVE  t = u
  BY DEF Good, Locked

\* A tab under way is replaced by one that goes on.
LEMMA TabReplaced ==
    ASSUME Good, NEW t \in Tab, NEW h \in TabShape, tab' = [tab EXCEPT ![t] = h]
    PROVE  /\ tab' \in [Tab -> TabShape] /\ tab'[t] = h
           /\ \A u \in Tab \ {t} : tab'[u] = tab[u] /\ (Carries(u)' <=> Carries(u))
  BY DEF Good, Kinds, Carries

-----------------------------------------------------------------------------
LEMMA InitInv == TokenInit => Inv
<1> SUFFICES ASSUME TokenInit PROVE Inv
  OBVIOUS
<1>1. tokens = <<>> /\ tokens \in Seq(TokenShape) /\ Len(tokens) = 0
  BY DEF TokenInit
<1>2. Idling \in TabShape /\ Idling.step = "idle" /\ Idling.kept
  BY DEF Idling, TabShape
<1>3. Kinds
  BY <1>1, <1>2, TokenAssumption DEF TokenInit, Kinds
<1>4. Locked /\ Carried /\ Cookies /\ Lineage /\ Apart /\ ~reused
  BY <1>1, <1>2, TokenAssumption
     DEF TokenInit, Locked, Carried, Cookies, Lineage, Apart, Carries
<1> QED
  BY <1>3, <1>4 DEF Inv, Good, TokenInit

LEMMA LoginGood ==
    ASSUME Good, NEW b \in Browser, Login(b)
    PROVE  Good'
<1> DEFINE n == Len(tokens) + 1
<1>1. /\ tokens \in Seq(TokenShape) /\ Fresh(0) \in TokenShape /\ Fresh(0).by = 0
      /\ Fresh(0).from = 0
  BY DEF Good, Kinds, Fresh, TokenShape
<1>2. /\ tokens' \in Seq(TokenShape) /\ Len(tokens') = n /\ tokens'[n] = Fresh(0)
      /\ \A m \in 1..Len(tokens) : tokens'[m] = tokens[m]
      /\ Len(tokens) \in Nat /\ n \notin 1..Len(tokens) /\ n \in Nat
  BY <1>1, Rows DEF Login
<1>3. /\ cookie' = [cookie EXCEPT ![b] = n] /\ UNCHANGED <<tab, locked, reused>>
      /\ cookie[b] = 0
  BY <1>2 DEF Login
<1>4. Kinds'
  BY <1>2, <1>3 DEF Good, Kinds
<1>5. Locked' /\ ~reused' /\ \A t \in Tab : Carries(t)' <=> Carries(t)
  BY <1>3 DEF Good, Locked, Carries
<1>6. Carried'
  BY <1>2, <1>3, <1>5 DEF Good, Carried
<1>7. Cookies'
  BY <1>1, <1>2, <1>3 DEF Good, Kinds, Cookies, Renewing
<1>8. Lineage'
  BY <1>1, <1>2 DEF Good, Lineage
<1>9. Apart'
  BY <1>2, <1>3, <1>5 DEF Good, Kinds, Carried, Apart
<1> QED
  BY <1>4, <1>5, <1>6, <1>7, <1>8, <1>9 DEF Good

LEMMA LogoutGood ==
    ASSUME Good, NEW b \in Browser, Logout(b)
    PROVE  Good'
<1> DEFINE n == cookie[b]
           r == [tokens[n] EXCEPT !.revoked = TRUE]
<1>1. tokens \in Seq(TokenShape) /\ n \in 1..Len(tokens)
  BY Rows DEF Good, Kinds, Logout, Fresh, TokenShape
<1>2. r \in TokenShape /\ r.by = tokens[n].by /\ r.from = tokens[n].from
  <2>1. tokens[n] \in TokenShape
    BY <1>1, ElementOfSeq
  <2> QED
    BY <2>1 DEF TokenShape
<1>3. tokens' = [tokens EXCEPT ![n] = r]
  BY DEF Logout
<1>4. /\ tokens' \in Seq(TokenShape) /\ Len(tokens') = Len(tokens)
      /\ \A m \in 1..Len(tokens) : /\ tokens'[m].by = tokens[m].by
                                   /\ tokens'[m].from = tokens[m].from
  BY <1>1, <1>2, <1>3, RowReplaced
<1>5. cookie' = [cookie EXCEPT ![b] = 0] /\ UNCHANGED <<tab, locked, reused>>
  BY DEF Logout
<1> HIDE DEF r
<1>6. Kinds'
  BY <1>4, <1>5, LenProperties DEF Good, Kinds
<1>7. Locked' /\ ~reused' /\ \A t \in Tab : Carries(t)' <=> Carries(t)
  BY <1>5 DEF Good, Locked, Carries
<1>8. Carried' /\ Lineage'
  BY <1>4, <1>5, <1>7 DEF Good, Carried, Lineage
<1>9. Cookies'
  BY <1>1, <1>4, <1>5, LenProperties DEF Good, Kinds, Cookies, Renewing
<1>10. Apart'
  BY <1>1, <1>5, <1>7, LenProperties DEF Good, Kinds, Carried, Apart
<1> QED
  BY <1>6, <1>7, <1>8, <1>9, <1>10 DEF Good

\* A tab is free to ask only where no tab of its browser is under way.
LEMMA AskGood ==
    ASSUME Good, exclusive, NEW t \in Tab, AskRefresh(t)
    PROVE  Good'
<1> DEFINE b == BrowserOf[t]
           h == [Idling EXCEPT !.step = "sent", !.token = cookie[b]]
<1>1. b \in Browser /\ cookie[b] \in 1..Len(tokens) /\ Len(tokens) \in Nat
  <2>1. b \in Browser /\ cookie \in [Browser -> Nat] /\ cookie[b] # 0
    BY TokenAssumption DEF AskRefresh, Good, Kinds
  <2>2. cookie[b] <= Len(tokens) /\ Len(tokens) \in Nat
    BY <2>1, LenProperties DEF Good, Kinds
  <2> QED
    BY <2>1, <2>2
<1>2. h \in TabShape /\ h.step = "sent" /\ h.token = cookie[b] /\ h.kept
  <2>1. Idling \in TabShape /\ Idling.kept
    BY DEF Idling, TabShape
  <2>2. cookie[b] \in Nat
    BY <1>1
  <2>3. h \in TabShape /\ h.step = "sent" /\ h.token = cookie[b]
    BY <2>1, <2>2 DEF TabShape
  <2>4. h.kept = Idling.kept
    BY <2>1 DEF TabShape
  <2> QED
    BY <2>1, <2>3, <2>4
<1>3. /\ tab' = [tab EXCEPT ![t] = h] /\ locked' = [locked EXCEPT ![b] = t]
      /\ UNCHANGED <<tokens, cookie, reused>> /\ locked[b] = "free"
  BY DEF AskRefresh, MayRefresh
<1> HIDE DEF h
<1>4. /\ tab' \in [Tab -> TabShape] /\ tab'[t] = h
      /\ \A u \in Tab \ {t} : tab'[u] = tab[u] /\ (Carries(u)' <=> Carries(u))
  BY <1>2, <1>3, TabReplaced
<1>5. \A u \in Tab : BrowserOf[u] = b => tab[u].step = "idle"
  BY <1>3, TokenAssumption DEF Good, Locked
<1>6. Kinds'
  BY <1>1, <1>3, <1>4 DEF Good, Kinds
<1>7. Locked' /\ ~reused'
  BY <1>1, <1>2, <1>3, <1>4, <1>5 DEF Good, Kinds, Locked
<1>8. tokens[cookie[b]].by = 0
  BY <1>1, <1>5 DEF Good, Cookies, Renewing
<1>9. Carried'
  BY <1>1, <1>2, <1>3, <1>4, <1>8 DEF Good, Carried
<1>10. Cookies'
  BY <1>2, <1>3, <1>4, <1>5, <1>8 DEF Good, Cookies, Renewing
<1>11. Lineage'
  BY <1>3 DEF Good, Lineage
<1>12. Apart'
  BY <1>1, <1>2, <1>3, <1>4, TokenAssumption DEF Good, Apart
<1> QED
  BY <1>6, <1>7, <1>9, <1>10, <1>11, <1>12 DEF Good

\* The token of a tab under way was not replaced, so it is not found replaced.
LEMMA ReadGood ==
    ASSUME Good, NEW t \in Tab, ReadToken(t)
    PROVE  Good'
<1> DEFINE k == tokens[tab[t].token]
<1>1. tab[t] \in TabShape /\ tab[t].step = "sent" /\ Carries(t)
  BY DEF Good, Kinds, ReadToken, Carries
<1>2. k.by = 0 /\ tab[t].token \in 1..Len(tokens)
  BY <1>1 DEF Good, Carried
<1>3. PICK found \in {"good", "expired", "revoked"} :
        tab' = [tab EXCEPT ![t].found = found,
                    ![t].step = CASE found = "good" -> "rotate"
                                  [] found = "replaced" -> "revoke"
                                  [] OTHER -> "refused"]
  BY <1>2 DEF ReadToken
<1> DEFINE s == IF found = "good" THEN "rotate" ELSE "refused"
           h == [tab[t] EXCEPT !.found = found, !.step = s]
<1>4. /\ h \in TabShape /\ h.step = s /\ h.token = tab[t].token
      /\ h.kept = tab[t].kept
  BY <1>1 DEF TabShape
<1>5. tab' = [tab EXCEPT ![t] = h]
  BY <1>1, <1>3 DEF Good, Kinds, TabShape
<1> HIDE DEF h
<1>6. /\ tab' \in [Tab -> TabShape] /\ tab'[t] = h
      /\ \A u \in Tab \ {t} : tab'[u] = tab[u] /\ (Carries(u)' <=> Carries(u))
  BY <1>4, <1>5, TabReplaced
<1>7. UNCHANGED <<tokens, cookie, locked, reused>>
  BY DEF ReadToken
<1>8. Kinds' /\ Locked' /\ ~reused'
  BY <1>1, <1>4, <1>6, <1>7 DEF Good, Kinds, Locked
<1>9. Carried' /\ Lineage'
  BY <1>2, <1>4, <1>6, <1>7 DEF Good, Carried, Lineage
<1>10. Cookies'
  BY <1>1, <1>4, <1>6, <1>7 DEF Good, Cookies, Renewing
<1>11. Apart'
  BY <1>1, <1>4, <1>6, <1>7 DEF Good, Apart
<1> QED
  BY <1>8, <1>9, <1>10, <1>11 DEF Good

LEMMA RotateGood ==
    ASSUME Good, NEW t \in Tab, Rotate(t)
    PROVE  Good'
<1> DEFINE b == BrowserOf[t]
           old == tab[t].token
           n == Len(tokens) + 1
           r == Replaced(tokens[old], n)
           mid == [tokens EXCEPT ![old] = r]
           h == [tab[t] EXCEPT !.step = "renewed", !.token = n]
<1>1. tab[t] \in TabShape /\ tab[t].step = "rotate" /\ Carries(t) /\ b \in Browser
  BY TokenAssumption DEF Good, Kinds, Rotate, Carries
<1>2. /\ old \in 1..Len(tokens) /\ tokens[old].by = 0
      /\ tokens \in Seq(TokenShape) /\ Len(tokens) \in Nat
      /\ n \in Nat /\ n \notin 1..Len(tokens) /\ n # 0
  BY <1>1, LenProperties DEF Good, Carried, Kinds
<1>3. r \in TokenShape /\ r.by = n /\ r.from = tokens[old].from
  <2>1. tokens[old] \in TokenShape
    BY <1>2, ElementOfSeq
  <2> QED
    BY <1>2, <2>1 DEF Replaced, TokenShape
<1>4. Fresh(old) \in TokenShape /\ Fresh(old).by = 0 /\ Fresh(old).from = old
  BY <1>2 DEF Fresh, TokenShape
<1>5. tokens' = Append(mid, Fresh(old))
  BY DEF Rotate
<1>6. /\ mid \in Seq(TokenShape) /\ Len(mid) = Len(tokens) /\ mid[old] = r
      /\ \A m \in 1..Len(tokens) : m # old => mid[m] = tokens[m]
  <2> HIDE DEF r
  <2> QED BY <1>2, <1>3, RowReplaced
<1> HIDE DEF mid, r
<1>7. /\ tokens' \in Seq(TokenShape) /\ Len(tokens') = n /\ tokens'[n] = Fresh(old)
      /\ tokens'[old] = r
      /\ \A m \in 1..Len(tokens) : m # old => tokens'[m] = tokens[m]
  BY <1>2, <1>4, <1>5, <1>6, Rows
<1>8. h \in TabShape /\ h.step = "renewed" /\ h.token = n /\ h.kept = tab[t].kept
  BY <1>1, <1>2 DEF TabShape
<1>9. tab' = [tab EXCEPT ![t] = h] /\ UNCHANGED <<cookie, locked, reused>>
  BY <1>1, <1>7 DEF Rotate, Good, Kinds, TabShape
<1> HIDE DEF h
<1>10. /\ tab' \in [Tab -> TabShape] /\ tab'[t] = h
       /\ \A u \in Tab \ {t} : tab'[u] = tab[u] /\ (Carries(u)' <=> Carries(u))
  BY <1>8, <1>9, TabReplaced
<1>11. Kinds' /\ Locked' /\ ~reused'
  BY <1>1, <1>2, <1>7, <1>8, <1>9, <1>10 DEF Good, Kinds, Locked
<1>12. \A u \in Tab \ {t} : Carries(u) => tab[u].token # old
  BY <1>1, OneAtATime DEF Good, Apart, Carries
<1>13. Carried'
  BY <1>2, <1>4, <1>7, <1>8, <1>10, <1>12 DEF Good, Carried
<1>14. Lineage'
  <2>1. ASSUME NEW m \in 1..Len(tokens'), tokens'[m].from # 0
        PROVE  tokens'[m].from \in 1..Len(tokens') /\ tokens'[tokens'[m].from].by = m
    <3>1. CASE m = n
      BY <1>2, <1>3, <1>4, <1>7, <3>1
    <3>2. CASE m # n
      <4>1. m \in 1..Len(tokens) /\ tokens'[m].from = tokens[m].from
        BY <1>2, <1>3, <1>7, <2>1, <3>2
      <4>2. tokens[m].from \in 1..Len(tokens) /\ tokens[tokens[m].from].by = m
        BY <2>1, <4>1 DEF Good, Lineage
      <4>3. tokens[m].from # old
        BY <1>2, <4>1, <4>2
      <4> QED
        BY <1>2, <1>7, <4>1, <4>2, <4>3
    <3> QED
      BY <3>1, <3>2
  <2> QED
    BY <2>1 DEF Lineage
<1>15. ASSUME NEW c \in Browser, cookie'[c] # 0, ~ Renewing(c)' PROVE tokens'[cookie'[c]].by = 0
  <2>1. c # b
    BY <1>8, <1>10, <1>15 DEF Renewing
  <2>2. cookie[c] # old /\ cookie[c] \in 1..Len(tokens)
    BY <1>1, <1>2, <1>9, <1>15, <2>1 DEF Good, Apart, Kinds
  <2>3. ~ Renewing(c)
    BY <1>10, <1>15, <2>1 DEF Renewing
  <2> QED
    BY <1>7, <1>9, <1>15, <2>2, <2>3 DEF Good, Cookies
<1>16. Cookies'
  BY <1>15 DEF Cookies
<1>17. \A c \in Browser : cookie[c] # n
  BY <1>2 DEF Good, Kinds
<1>18. \A u \in Tab \ {t} : Carries(u) => tab[u].token # n
  BY <1>2 DEF Good, Carried
<1>19. Apart'
  BY <1>1, <1>8, <1>9, <1>10, <1>17, <1>18 DEF Good, Apart
<1> QED
  BY <1>11, <1>13, <1>14, <1>16, <1>19 DEF Good

LEMMA AnswerGood ==
    ASSUME Good, NEW t \in Tab, AnswerRefresh(t)
    PROVE  Good'
<1> DEFINE b == BrowserOf[t]
           v == IF tab[t].step = "renewed" THEN tab[t].token ELSE 0
<1>1. /\ tab[t] \in TabShape /\ tab[t].step \in {"renewed", "refused"} /\ b \in Browser
      /\ Idling \in TabShape /\ Idling.step = "idle" /\ Idling.kept
      /\ locked[b] = t /\ Len(tokens) \in Nat
  BY TokenAssumption, LenProperties
     DEF Good, Kinds, Locked, AnswerRefresh, Idling, TabShape
<1>2. /\ cookie' = [cookie EXCEPT ![b] = v] /\ locked' = [locked EXCEPT ![b] = "free"]
      /\ tab' = [tab EXCEPT ![t] = Idling] /\ UNCHANGED <<tokens, reused>>
  BY <1>1 DEF Good, Kinds, Locked, AnswerRefresh, Unlock
<1>3. /\ tab' \in [Tab -> TabShape] /\ tab'[t] = Idling
      /\ \A u \in Tab \ {t} : tab'[u] = tab[u] /\ (Carries(u)' <=> Carries(u))
  BY <1>1, <1>2, TabReplaced
<1>4. /\ v \in 0..Len(tokens)
      /\ v # 0 => Carries(t) /\ tokens[v].by = 0
      /\ v # 0 => v = tab[t].token
  BY <1>1 DEF Good, Carried, Carries
<1> HIDE DEF v
<1>5. ~ Carries(t)' /\ \A u \in Tab \ {t} : BrowserOf[u] = b => tab[u].step = "idle"
  BY <1>1, <1>3, OneAtATime DEF Carries
<1>6. Kinds'
  BY <1>1, <1>2, <1>3, <1>4, TokenAssumption DEF Good, Kinds
<1>7. Locked' /\ ~reused'
  BY <1>1, <1>2, <1>3, <1>5, TokenAssumption DEF Good, Kinds, Locked
<1>8. Carried' /\ Lineage'
  BY <1>2, <1>3, <1>5 DEF Good, Carried, Lineage
<1>9. \A c \in Browser \ {b} : Renewing(c)' <=> Renewing(c)
  BY <1>3 DEF Renewing
<1>10. Cookies'
  BY <1>1, <1>2, <1>4, <1>9 DEF Good, Kinds, Cookies
<1>11. Apart'
  BY <1>1, <1>2, <1>3, <1>4, <1>5, TokenAssumption DEF Good, Kinds, Carried, Apart
<1> QED
  BY <1>6, <1>7, <1>8, <1>10, <1>11 DEF Good

-----------------------------------------------------------------------------
LEMMA NextInv == Inv /\ [TokenNext]_kvars => Inv'
<1> SUFFICES ASSUME Inv, [TokenNext]_kvars PROVE Inv'
  OBVIOUS
<1>1. left' \in Nat /\ (exclusive' /\ left' = 0 => exclusive /\ left = 0)
  <2>1. exclusive' = exclusive /\ (left' = left \/ left' = left + 1)
    BY DEF TokenNext, kvars, Login, Logout, AskRefresh, ReadToken, Rotate,
           RevokeAll, AnswerRefresh, LoseAnswer
  <2> QED
    BY <2>1 DEF Inv
<1>2. SUFFICES ASSUME exclusive, left = 0, left' = 0, Good PROVE Good'
  BY <1>1 DEF Inv
<1>3. ASSUME NEW b \in Browser, Login(b) \/ Logout(b) PROVE Good'
  BY <1>2, <1>3, LoginGood, LogoutGood
<1>4. ASSUME NEW t \in Tab,
             AskRefresh(t) \/ ReadToken(t) \/ Rotate(t) \/ AnswerRefresh(t)
      PROVE  Good'
  BY <1>2, <1>4, AskGood, ReadGood, RotateGood, AnswerGood
<1>5. ASSUME NEW t \in Tab, RevokeAll(t) PROVE FALSE
  BY <1>2, <1>5 DEF Good, Locked, RevokeAll
<1>6. ASSUME NEW t \in Tab, LoseAnswer(t) PROVE FALSE
  BY <1>2, <1>6 DEF LoseAnswer
<1>7. CASE UNCHANGED kvars
  BY <1>2, <1>7 DEF kvars, Good, Kinds, Locked, Carried, Cookies, Lineage, Apart,
                    Carries, Renewing
<1> QED
  BY <1>3, <1>4, <1>5, <1>6, <1>7 DEF TokenNext

LEMMA InvKeepsSession == Inv => TabsKeepTheirSession
<1> SUFFICES ASSUME Good
             PROVE  /\ ~reused
                    /\ \A m, n \in 1..Len(tokens) :
                         m # n /\ tokens[m].from # 0 => tokens[m].from # tokens[n].from
  BY DEF Inv, TabsKeepTheirSession
<1>1. ASSUME NEW m \in 1..Len(tokens), NEW n \in 1..Len(tokens),
             tokens[m].from # 0, tokens[m].from = tokens[n].from
      PROVE  m = n
  BY <1>1 DEF Good, Lineage
<1> QED
  BY <1>1 DEF Good

\* However many browsers and tabs there are, and whoever logs in or out beside
\* a refresh: tabs that keep to their browser's lock never present a replaced
\* token and never replace one twice, as long as every answer arrives.
THEOREM SessionsAreKept == TokenSpec => []TabsKeepTheirSession
  BY InitInv, NextInv, InvKeepsSession, PTL DEF TokenSpec

SendShape == [step : {"new", "done", "failed"}, locked : SUBSET Upload]

Held ==
    \A s \in Message :
        /\ send[s].step # "new" => send[s].locked = {}
        /\ \A u \in send[s].locked : ~ LockedBy(s, u) /\ Unclaimed(u)

ClaimInv ==
    /\ recorded \in [Upload -> Names \cup {Nothing}]
    /\ claimedBy \in [Upload -> Message \cup {"nobody"}]
    /\ send \in [Message -> SendShape]
    /\ Held
    /\ SentWithAttachments

\* A nonempty set of numbers has a least one.
LEMMA Least ==
    ASSUME NEW S \in SUBSET Nat, S # {}
    PROVE  \E u \in S : \A v \in S : u <= v
<1> DEFINE T == {0..u : u \in S}
           R == StrictSubsetOrdering(Nat)
<1>2. IsWellFoundedOn(R, FiniteSubsetsOf(Nat))
  BY FS_StrictSubsetOrderingWellFounded
<1>3. T \subseteq FiniteSubsetsOf(Nat) /\ T # {}
  <2>1. ASSUME NEW u \in S PROVE 0..u \in FiniteSubsetsOf(Nat)
    <3>1. IsFiniteSet(0..u) /\ 0..u \in SUBSET Nat
      BY FS_Interval
    <3> QED
      BY <3>1 DEF FiniteSubsetsOf
  <2> QED
    BY <2>1
<1>4. PICK x \in T : \A y \in T : ~ (<<y, x>> \in R)
  <2> HIDE DEF T, R
  <2> QED BY <1>2, <1>3, WFMin
<1>5. PICK u \in S : x = 0..u
  BY <1>4
<1>6. ASSUME NEW v \in S, ~ (u <= v) PROVE FALSE
  <2>1. 0..v \in SUBSET Nat /\ 0..u \in SUBSET Nat /\ 0..v \subseteq 0..u
    BY <1>6
  <2>2. u \in 0..u /\ u \notin 0..v
    BY <1>6
  <2>3. <<0..v, 0..u>> \in R
    BY <2>1, <2>2 DEF StrictSubsetOrdering
  <2> QED
    BY <1>4, <1>5, <2>3
<1> QED
  BY <1>6

-----------------------------------------------------------------------------
\* The attachment that a send locks next is one that it still lacks.
LEMMA ForemostRemains ==
    ASSUME NEW S \in SUBSET Upload, S # {}
    PROVE  Foremost(S) \in S
<1>1. S \in SUBSET Nat
  BY UploadAssumption
<1>2. PICK u \in S : \A v \in S : u <= v
  BY <1>1, Least
<1> QED
  BY <1>2 DEF Foremost

LEMMA InitClaims == UploadInit => ClaimInv
<1> SUFFICES ASSUME UploadInit PROVE ClaimInv
  OBVIOUS
<1>1. send \in [Message -> SendShape]
  BY DEF UploadInit, SendShape
<1>2. \A s \in Message : send[s].step = "new" /\ send[s].locked = {}
  BY DEF UploadInit
<1> QED
  BY <1>1, <1>2 DEF UploadInit, ClaimInv, Held, SentWithAttachments

\* Steps that only record attachments keep the claims.
LEMMA RecordClaims ==
    ASSUME ClaimInv, UNCHANGED Claims,
           recorded' \in [Upload -> Names \cup {Nothing}],
           \A u \in Upload : recorded[u] # Nothing => recorded'[u] # Nothing
    PROVE  ClaimInv'
<1>1. \A s \in Message : send[s].locked \subseteq Upload
  BY DEF ClaimInv, SendShape
<1> QED
  BY <1>1 DEF ClaimInv, Claims, Held, LockedBy, Unclaimed, SentWithAttachments

LEMMA LockRowClaims ==
    ASSUME ClaimInv, NEW s \in Message, LockRow(s)
    PROVE  ClaimInv'
<1> DEFINE u == Foremost(Remaining(s))
           h == [send[s] EXCEPT !.locked = @ \cup {u}]
<1>1. Remaining(s) \in SUBSET Upload /\ Remaining(s) # {}
  BY UploadAssumption DEF LockRow, Remaining
<1>2. u \in Upload
  BY <1>1, ForemostRemains
<1>3. send[s] \in SendShape
  BY DEF ClaimInv
<1>4. /\ h \in SendShape /\ h.step = "new" /\ h.locked = send[s].locked \cup {u}
      /\ send[s].step = "new"
  BY <1>2, <1>3 DEF SendShape, LockRow
<1>5. send' = [send EXCEPT ![s] = h] /\ UNCHANGED <<recorded, claimedBy>>
  BY DEF LockRow, Storage
<1>6. ~ LockedBy(s, u) /\ Unclaimed(u)
  BY DEF LockRow, Claimable
<1> HIDE DEF h, u
<1>7. /\ send' \in [Message -> SendShape] /\ send'[s] = h
      /\ \A o \in Message \ {s} : send'[o] = send[o]
  BY <1>4, <1>5 DEF ClaimInv
<1>8. Held'
  BY <1>4, <1>5, <1>6, <1>7 DEF ClaimInv, Held, LockedBy, Unclaimed
<1>9. SentWithAttachments'
  BY <1>4, <1>5, <1>7 DEF ClaimInv, SentWithAttachments
<1> QED
  BY <1>5, <1>7, <1>8, <1>9 DEF ClaimInv

\* A send ends without its attachments.
LEMMA FailedClaims ==
    ASSUME ClaimInv, NEW s \in Message, UNCHANGED <<recorded, claimedBy>>,
           send' = [send EXCEPT ![s] = [step |-> "failed", locked |-> {}]]
    PROVE  ClaimInv'
<1> DEFINE h == [step |-> "failed", locked |-> {}]
<1>1. h \in SendShape /\ h.step = "failed" /\ h.locked = {}
  BY DEF SendShape
<1>2. send' = [send EXCEPT ![s] = h]
  OBVIOUS
<1> HIDE DEF h
<1>3. /\ send' \in [Message -> SendShape] /\ send'[s] = h
      /\ \A o \in Message \ {s} : send'[o] = send[o]
  BY <1>1, <1>2 DEF ClaimInv
<1> QED
  BY <1>1, <1>3 DEF ClaimInv, Held, LockedBy, Unclaimed, SentWithAttachments

LEMMA CommitClaims ==
    ASSUME ClaimInv, NEW s \in Message, CommitSend(s)
    PROVE  ClaimInv'
<1>1. CASE /\ send' = [send EXCEPT ![s] = [step |-> "failed", locked |-> {}]]
           /\ UNCHANGED claimedBy
  BY <1>1, FailedClaims DEF CommitSend, Storage
<1>2. CASE /\ send' = [send EXCEPT ![s] = [step |-> "done", locked |-> {}]]
           /\ claimedBy' = [u \in Upload |-> IF u \in AsksFor[s] THEN s ELSE claimedBy[u]]
  <2>1. UNCHANGED recorded
    BY DEF CommitSend, Storage
  <2>2. \A u \in AsksFor[s] : u \in send[s].locked /\ Unclaimed(u) /\ u \in Upload
    BY UploadAssumption DEF CommitSend, Remaining, ClaimInv, Held
  <2> DEFINE h == [step |-> "done", locked |-> {}]
  <2>3. h \in SendShape /\ h.step = "done" /\ h.locked = {}
    BY DEF SendShape
  <2>4. send' = [send EXCEPT ![s] = h]
    BY <1>2
  <2> HIDE DEF h
  <2>5. /\ send' \in [Message -> SendShape] /\ send'[s] = h
        /\ \A o \in Message \ {s} : send'[o] = send[o]
    BY <2>3, <2>4 DEF ClaimInv
  <2>6. claimedBy' \in [Upload -> Message \cup {"nobody"}]
    BY <1>2 DEF ClaimInv
  <2>7. ASSUME NEW o \in Message, NEW u \in send'[o].locked
        PROVE  ~ LockedBy(o, u)' /\ Unclaimed(u)'
    <3>1. o # s /\ u \in send[o].locked /\ u \in Upload
      BY <2>3, <2>5, <2>7 DEF ClaimInv, SendShape
    <3>2. ~ LockedBy(o, u) /\ Unclaimed(u) /\ u \notin send[s].locked
      BY <3>1 DEF ClaimInv, Held, LockedBy
    <3>3. ~ LockedBy(o, u)'
      BY <2>3, <2>5, <3>2 DEF LockedBy
    <3>4. u \notin AsksFor[s]
      BY <2>2, <3>2
    <3> QED
      BY <1>2, <2>1, <3>1, <3>2, <3>3, <3>4 DEF Unclaimed
  <2>8. Held'
    BY <2>3, <2>5, <2>7 DEF ClaimInv, Held
  <2>9. ASSUME NEW o \in Message, send'[o].step = "done", NEW u \in AsksFor[o]
        PROVE  claimedBy'[u] = o
    <3>1. u \in Upload
      BY UploadAssumption
    <3>2. CASE o = s
      BY <1>2, <2>1, <3>1, <3>2
    <3>3. CASE o # s
      <4>1. claimedBy[u] = o /\ o # "nobody"
        BY <2>5, <2>9, <3>3, UploadAssumption DEF ClaimInv, SentWithAttachments
      <4>2. u \notin AsksFor[s]
        BY <2>2, <4>1 DEF Unclaimed
      <4> QED
        BY <1>2, <3>1, <4>1, <4>2
    <3> QED
      BY <3>2, <3>3
  <2>10. SentWithAttachments'
    BY <2>9 DEF SentWithAttachments
  <2> QED
    BY <2>1, <2>5, <2>6, <2>8, <2>10 DEF ClaimInv
<1> QED
  BY <1>1, <1>2 DEF CommitSend

LEMMA StopClaims ==
    ASSUME ClaimInv, StopUploads
    PROVE  ClaimInv'
<1> DEFINE h == [step |-> "failed", locked |-> {}]
<1>1. h \in SendShape /\ h.step = "failed" /\ h.locked = {}
  BY DEF SendShape
<1>2. /\ send' = [s \in Message |-> IF send[s].locked = {} THEN send[s] ELSE h]
      /\ UNCHANGED <<recorded, claimedBy>>
  BY DEF StopUploads
<1> HIDE DEF h
<1>3. send' \in [Message -> SendShape]
  BY <1>1, <1>2 DEF ClaimInv
<1>4. \A s \in Message : send'[s] = send[s] \/ send'[s] = h
  BY <1>2
<1>5. \A s \in Message : send'[s].locked = {}
  BY <1>1, <1>2
<1> QED
  BY <1>1, <1>2, <1>3, <1>4, <1>5 DEF ClaimInv, Held, SentWithAttachments

LEMMA NextClaims ==
    ASSUME ClaimInv, [UploadNext]_uvars
    PROVE  ClaimInv'
<1>1. CASE UNCHANGED uvars
  BY <1>1, RecordClaims DEF uvars, Claims, ClaimInv
<1>2. ASSUME NEW u \in Upload,
             \/ SaveRaw(u) \/ KeepRaw(u) \/ StartWebP(u) \/ EndWebP(u) \/ FailWebP(u)
      PROVE  ClaimInv'
  <2>1. UNCHANGED <<recorded, Claims>>
    BY <1>2 DEF SaveRaw, KeepRaw, StartWebP, EndWebP, FailWebP
  <2> QED
    BY <2>1, RecordClaims DEF ClaimInv
<1>3. ASSUME NEW u \in Upload, Record(u)
      PROVE  ClaimInv'
  <2>1. /\ UNCHANGED Claims /\ {Raw(u), WebP(u)} \subseteq Names
        /\ Raw(u) # Nothing /\ WebP(u) # Nothing
    BY <1>3 DEF Record, Names, Raw, WebP, Nothing
  <2>2. \E n \in {Raw(u), WebP(u), recorded[u]} : recorded' = [recorded EXCEPT ![u] = n]
    BY <1>3 DEF Record, ClaimInv
  <2> QED
    BY <2>1, <2>2, RecordClaims DEF ClaimInv
<1>4. ASSUME NEW s \in Message, LockRow(s) \/ RefuseClaim(s) \/ CommitSend(s)
      PROVE  ClaimInv'
  <2>1. RefuseClaim(s) => ClaimInv'
    BY FailedClaims DEF RefuseClaim, Storage
  <2> QED
    BY <1>4, <2>1, LockRowClaims, CommitClaims
<1>5. ASSUME NEW a \in Avatar,
             \/ ReadAvatar(a) \/ SaveAvatar(a) \/ PointAvatar(a) \/ RemoveOld(a)
             \/ UndoAvatar(a)
      PROVE  ClaimInv'
  <2>1. UNCHANGED <<recorded, Claims>>
    BY <1>5 DEF ReadAvatar, SaveAvatar, PointAvatar, RemoveOld, UndoAvatar, Storage
  <2> QED
    BY <2>1, RecordClaims DEF ClaimInv
<1> QED
  BY <1>1, <1>2, <1>3, <1>4, <1>5, StopClaims DEF UploadNext

\* A message that was sent has and keeps every attachment it was sent with,
\* for any sends of any attachments: the row locks of createMessage.
THEOREM MessagesKeepAttachments == UploadSpec => []SentWithAttachments
<1>1. ClaimInv => SentWithAttachments
  BY DEF ClaimInv
<1> QED
  BY InitClaims, NextClaims, <1>1, PTL DEF UploadSpec

-----------------------------------------------------------------------------
Steps == {"new", "read", "saved", "pointed", "undo", "done", "failed"}

Pictured == {Picture(a) : a \in Avatar}

AvatarShape == [step : Steps, old : Pictured \cup {Nothing}]

FileKinds ==
    /\ disk \in [Names -> {"absent", "partial", "complete"}]
    /\ upload \in [Upload -> {"new", "saved", "keep", "encode", "swapped", "done", "failed"}]
    /\ recorded \in [Upload -> Names \cup {Nothing}]
    /\ avatar \in [Avatar -> AvatarShape]
    /\ avatarUrl \in Pictured \cup {Nothing}
    /\ unlinked \in BOOLEAN

Attachments ==
    \A u \in Upload :
        /\ upload[u] \in {"saved", "keep", "encode"} => disk[Raw(u)] = "complete"
        /\ upload[u] = "swapped" => disk[WebP(u)] = "complete"
        /\ recorded[u] # Nothing =>
             /\ upload[u] = "done" /\ recorded[u] \in {Raw(u), WebP(u)}
             /\ disk[recorded[u]] = "complete"

Early(a) == avatar[a].step \in {"new", "read", "saved"}

Past ==
    \A a \in Avatar : Early(a) =>
        /\ avatarUrl # Picture(a)
        /\ \A b \in Avatar : avatar[b].old # Picture(a)

Pictures ==
    /\ \A a \in Avatar :
         /\ avatar[a].step = "saved" => disk[Picture(a)] = "complete"
         /\ avatar[a].step = "pointed" => avatarUrl # avatar[a].old
         /\ avatar[a].step = "undo" /\ ~ unlinked => avatarUrl # Picture(a)
    /\ avatarUrl # Nothing /\ ~ unlinked => disk[avatarUrl] = "complete"

FileInv == FileKinds /\ Attachments /\ Past /\ Pictures

-----------------------------------------------------------------------------
\* No two files have a name in common.
LEMMA OwnNames ==
    /\ \A u, v \in Upload : Raw(u) # WebP(v) /\ Raw(u) # Nothing /\ WebP(u) # Nothing
    /\ \A u, v \in Upload : u # v => Raw(u) # Raw(v) /\ WebP(u) # WebP(v)
    /\ \A u \in Upload : Raw(u) \notin Pictured /\ WebP(u) \notin Pictured
    /\ \A a \in Avatar : Picture(a) # Nothing
    /\ \A a, b \in Avatar : a # b => Picture(a) # Picture(b)
    /\ \A u \in Upload : Raw(u) \in Names /\ WebP(u) \in Names
    /\ Pictured \subseteq Names /\ \A a \in Avatar : Picture(a) \in Pictured
  BY DEF Raw, WebP, Picture, Pictured, Nothing, Names

LEMMA InitFiles == UploadInit => FileInv
<1> SUFFICES ASSUME UploadInit PROVE FileInv
  OBVIOUS
<1>1. avatar \in [Avatar -> AvatarShape] /\ \A a \in Avatar : avatar[a].step = "new"
                                                           /\ avatar[a].old = Nothing
  BY DEF UploadInit, AvatarShape, Steps
<1>2. Attachments /\ Past /\ Pictures
  BY <1>1, OwnNames DEF UploadInit, Attachments, Past, Pictures
<1> QED
  BY <1>1, <1>2 DEF UploadInit, FileInv, FileKinds

\* A handler of an attachment touches its own files and its own row.
LEMMA UploadFiles ==
    ASSUME FileInv, NEW u \in Upload, UNCHANGED Avatars,
           disk' \in [Names -> {"absent", "partial", "complete"}],
           \A n \in Names \ {Raw(u), WebP(u)} : disk'[n] = disk[n],
           upload' \in [Upload -> {"new", "saved", "keep", "encode", "swapped", "done", "failed"}],
           recorded' \in [Upload -> Names \cup {Nothing}],
           \A v \in Upload \ {u} : upload'[v] = upload[v] /\ recorded'[v] = recorded[v],
           upload'[u] \in {"saved", "keep", "encode"} => disk'[Raw(u)] = "complete",
           upload'[u] = "swapped" => disk'[WebP(u)] = "complete",
           recorded'[u] # Nothing =>
             upload'[u] = "done" /\ recorded'[u] \in {Raw(u), WebP(u)}
             /\ disk'[recorded'[u]] = "complete"
    PROVE  FileInv'
<1>1. FileKinds'
  BY DEF FileInv, FileKinds, Avatars
<1>2. ASSUME NEW v \in Upload \ {u}
      PROVE  /\ disk'[Raw(v)] = disk[Raw(v)] /\ disk'[WebP(v)] = disk[WebP(v)]
             /\ upload'[v] = upload[v] /\ recorded'[v] = recorded[v]
  BY OwnNames
<1>3. Attachments'
  BY <1>2 DEF FileInv, Attachments
<1>4. \A n \in Pictured : disk'[n] = disk[n]
  BY OwnNames
<1>5. Past' /\ Pictures'
  BY <1>4, OwnNames DEF FileInv, FileKinds, Past, Pictures, Early, Avatars
<1> QED
  BY <1>1, <1>3, <1>5 DEF FileInv

\* A handler of an avatar touches pictures only.
LEMMA PictureFiles ==
    ASSUME FileInv, UNCHANGED Storage,
           disk' \in [Names -> {"absent", "partial", "complete"}],
           \A n \in Names \ Pictured : disk'[n] = disk[n]
    PROVE  Attachments'
<1>1. \A u \in Upload : disk'[Raw(u)] = disk[Raw(u)] /\ disk'[WebP(u)] = disk[WebP(u)]
  BY OwnNames
<1> QED
  BY <1>1 DEF FileInv, Attachments, Storage

\* A handler of an avatar goes on.
LEMMA AvatarReplaced ==
    ASSUME FileInv, NEW a \in Avatar, NEW h \in AvatarShape,
           avatar' = [avatar EXCEPT ![a] = h]
    PROVE  /\ avatar' \in [Avatar -> AvatarShape] /\ avatar'[a] = h
           /\ \A b \in Avatar \ {a} : avatar'[b] = avatar[b]
  BY DEF FileInv, FileKinds

LEMMA AttachmentSteps ==
    ASSUME FileInv, NEW u \in Upload,
           \/ SaveRaw(u) \/ KeepRaw(u) \/ StartWebP(u) \/ EndWebP(u) \/ FailWebP(u)
           \/ Record(u)
    PROVE  FileInv'
<1> USE DEF FileInv, FileKinds
<1>1. UNCHANGED Avatars
  BY DEF SaveRaw, KeepRaw, StartWebP, EndWebP, FailWebP, Record
<1>2. CASE SaveRaw(u)
  BY <1>1, <1>2, UploadFiles, OwnNames DEF SaveRaw, Put, Now, Attachments
<1>3. CASE KeepRaw(u)
  BY <1>1, <1>3, UploadFiles, OwnNames DEF KeepRaw, Now, Attachments
<1>4. CASE StartWebP(u)
  BY <1>1, <1>4, UploadFiles, OwnNames DEF StartWebP, Beside, Now, Attachments
<1>5. CASE EndWebP(u)
  <2>1. PICK rest \in {"absent", disk[Raw(u)]} :
          disk' = [disk EXCEPT ![WebP(u)] = "complete", ![Raw(u)] = rest]
    BY <1>5 DEF EndWebP
  <2> QED
    BY <1>1, <1>5, <2>1, UploadFiles, OwnNames DEF EndWebP, Now, Attachments
<1>6. CASE FailWebP(u)
  <2>1. PICK rest \in {"absent", "partial"} : disk' = [disk EXCEPT ![WebP(u)] = rest]
    BY <1>6 DEF FailWebP, Put
  <2> QED
    BY <1>1, <1>6, <2>1, UploadFiles, OwnNames DEF FailWebP, Now, Attachments
<1>7. CASE Record(u)
  BY <1>1, <1>7, UploadFiles, OwnNames DEF Record, Now, Attachments
<1> QED
  BY <1>2, <1>3, <1>4, <1>5, <1>6, <1>7

LEMMA AvatarSteps ==
    ASSUME FileInv, NEW a \in Avatar,
           \/ ReadAvatar(a) \/ SaveAvatar(a) \/ PointAvatar(a) \/ RemoveOld(a)
           \/ UndoAvatar(a)
    PROVE  FileInv'
<1>0. /\ avatar[a] \in AvatarShape /\ Picture(a) \in Names /\ UNCHANGED Storage
      /\ avatar[a].old \in Pictured \cup {Nothing}
  BY OwnNames DEF FileInv, FileKinds, AvatarShape, ReadAvatar, SaveAvatar, PointAvatar,
                  RemoveOld, UndoAvatar
<1>1. CASE ReadAvatar(a)
  <2> DEFINE h == [step |-> "read", old |-> avatarUrl]
  <2>1. h \in AvatarShape /\ h.step = "read" /\ h.old = avatarUrl /\ avatar[a].step = "new"
    BY <1>1 DEF AvatarShape, Steps, FileInv, FileKinds, ReadAvatar
  <2>2. avatar' = [avatar EXCEPT ![a] = h] /\ UNCHANGED <<disk, avatarUrl, unlinked>>
    BY <1>1 DEF ReadAvatar
  <2> HIDE DEF h
  <2>3. FileKinds' /\ Attachments'
    BY <1>0, <2>1, <2>2, AvatarReplaced, PictureFiles DEF FileInv, FileKinds, Storage
  <2>4. Past' /\ Pictures'
    BY <2>1, <2>2, AvatarReplaced DEF FileInv, Past, Pictures, Early
  <2> QED
    BY <2>3, <2>4 DEF FileInv
<1>2. CASE SaveAvatar(a)
  <2>1. PICK step \in {"saved", "failed"} :
          /\ avatar' = [avatar EXCEPT ![a].step = step]
          /\ disk' = [disk EXCEPT ![Picture(a)] =
                        IF step = "saved" THEN "complete" ELSE "partial"]
    BY <1>2 DEF SaveAvatar, Put
  <2> DEFINE h == [avatar[a] EXCEPT !.step = step]
  <2>2. h \in AvatarShape /\ h.step = step /\ h.old = avatar[a].old /\ avatar[a].step = "read"
    BY <1>0, <1>2 DEF AvatarShape, Steps, SaveAvatar
  <2>3. avatar' = [avatar EXCEPT ![a] = h] /\ UNCHANGED <<avatarUrl, unlinked>>
    BY <1>2, <2>1 DEF SaveAvatar, FileInv, FileKinds
  <2> HIDE DEF h
  <2>4. /\ disk' \in [Names -> {"absent", "partial", "complete"}]
        /\ \A n \in Names \ {Picture(a)} : disk'[n] = disk[n]
        /\ step = "saved" => disk'[Picture(a)] = "complete"
    BY <1>0, <2>1 DEF FileInv, FileKinds
  <2>5. FileKinds' /\ Attachments'
    BY <1>0, <2>2, <2>3, <2>4, OwnNames, AvatarReplaced, PictureFiles
       DEF FileInv, FileKinds, Storage
  <2>6. Past'
    BY <2>2, <2>3, AvatarReplaced DEF FileInv, Past, Early
  <2>7. \A b \in Avatar \ {a} : disk'[Picture(b)] = disk[Picture(b)]
    BY <2>4, OwnNames
  <2>8. avatarUrl # Picture(a)
    BY <2>2 DEF FileInv, Past, Early
  <2>9. avatarUrl # Nothing => disk'[avatarUrl] = disk[avatarUrl]
    BY <2>4, <2>8, OwnNames DEF FileInv, FileKinds
  <2>10. Pictures'
    BY <2>2, <2>3, <2>4, <2>7, <2>8, <2>9, AvatarReplaced DEF FileInv, Pictures
  <2> QED
    BY <2>5, <2>6, <2>10 DEF FileInv
<1>3. CASE PointAvatar(a)
  <2>1. PICK step \in {"pointed", "undo"} :
          /\ avatar' = [avatar EXCEPT ![a].step = step]
          /\ avatarUrl' = IF step = "pointed" THEN Picture(a) ELSE avatarUrl
    BY <1>3 DEF PointAvatar
  <2> DEFINE h == [avatar[a] EXCEPT !.step = step]
  <2>2. h \in AvatarShape /\ h.step = step /\ h.old = avatar[a].old /\ avatar[a].step = "saved"
    BY <1>0, <1>3 DEF AvatarShape, Steps, PointAvatar
  <2>3. avatar' = [avatar EXCEPT ![a] = h] /\ UNCHANGED <<disk, unlinked>>
    BY <1>3, <2>1 DEF PointAvatar, FileInv, FileKinds
  <2> HIDE DEF h
  <2>4. FileKinds' /\ Attachments'
    BY <1>0, <2>1, <2>2, <2>3, OwnNames, AvatarReplaced, PictureFiles
       DEF FileInv, FileKinds, Storage
  <2>5. Past'
    <3>1. /\ \A b \in Avatar : avatar'[b].old = avatar[b].old
          /\ \A b \in Avatar \ {a} : avatar'[b].step = avatar[b].step
          /\ avatar'[a].step \in {"pointed", "undo"}
      BY <2>2, <2>3, AvatarReplaced
    <3>2. avatarUrl' \in {avatarUrl, Picture(a)}
      BY <2>1
    <3> QED
      BY <3>1, <3>2, OwnNames DEF FileInv, Past, Early
  <2>6. \A b \in Avatar : avatar[b].old # Picture(a)
    BY <2>2 DEF FileInv, Past, Early
  <2>7. Pictures'
    BY <2>1, <2>2, <2>3, <2>6, OwnNames, AvatarReplaced DEF FileInv, Pictures, Past, Early
  <2> QED
    BY <2>4, <2>5, <2>7 DEF FileInv
<1>4. CASE RemoveOld(a)
  <2>1. CASE /\ disk' = [n \in Names |-> IF n = Replaces(a) THEN "absent" ELSE disk[n]]
             /\ avatar' = [avatar EXCEPT ![a].step = "done"]
             /\ UNCHANGED unlinked
    <3> DEFINE h == [avatar[a] EXCEPT !.step = "done"]
    <3>1. h \in AvatarShape /\ h.step = "done" /\ h.old = avatar[a].old
      BY <1>0 DEF AvatarShape, Steps
    <3>2. avatar' = [avatar EXCEPT ![a] = h] /\ UNCHANGED avatarUrl
      BY <1>4, <2>1 DEF RemoveOld, FileInv, FileKinds
    <3>3. avatar[a].step = "pointed"
      BY <1>4 DEF RemoveOld
    <3> HIDE DEF h
    <3>4. /\ disk' \in [Names -> {"absent", "partial", "complete"}]
          /\ \A n \in Names : n # avatar[a].old => disk'[n] = disk[n]
      BY <2>1 DEF Replaces, FileInv, FileKinds
    <3>5. \A n \in Names \ Pictured : disk'[n] = disk[n]
      BY <1>0, <2>1, OwnNames DEF Replaces, Nothing, Names, Raw, WebP, Picture
    <3>6. FileKinds' /\ Attachments'
      BY <1>0, <2>1, <3>1, <3>2, <3>4, <3>5, AvatarReplaced, PictureFiles
         DEF FileInv, FileKinds, Storage
    <3>7. Past'
      BY <3>1, <3>2, AvatarReplaced DEF FileInv, Past, Early
    <3>8. \A b \in Avatar : avatar[b].step = "saved" => disk'[Picture(b)] = disk[Picture(b)]
      BY <3>4, OwnNames DEF FileInv, Past, Early
    <3>9. avatarUrl # Nothing => disk'[avatarUrl] = disk[avatarUrl]
      BY <3>3, <3>4, OwnNames DEF FileInv, FileKinds, Pictures
    <3>10. Pictures'
      BY <2>1, <3>1, <3>2, <3>8, <3>9, AvatarReplaced DEF FileInv, Pictures
    <3> QED
      BY <3>6, <3>7, <3>10 DEF FileInv
  <2>2. CASE /\ unlinked' = TRUE /\ UNCHANGED disk
             /\ avatar' = [avatar EXCEPT ![a].step = "undo"]
    <3> DEFINE h == [avatar[a] EXCEPT !.step = "undo"]
    <3>1. h \in AvatarShape /\ h.step = "undo" /\ h.old = avatar[a].old
      BY <1>0 DEF AvatarShape, Steps
    <3>2. avatar' = [avatar EXCEPT ![a] = h] /\ UNCHANGED avatarUrl
      BY <1>4, <2>2 DEF RemoveOld, FileInv, FileKinds
    <3> HIDE DEF h
    <3>3. FileKinds' /\ Attachments'
      BY <1>0, <2>2, <3>1, <3>2, AvatarReplaced, PictureFiles
         DEF FileInv, FileKinds, Storage
    <3>4. Past' /\ Pictures'
      BY <2>2, <3>1, <3>2, AvatarReplaced DEF FileInv, Past, Pictures, Early
    <3> QED
      BY <3>3, <3>4 DEF FileInv
  <2> QED
    BY <1>4, <2>1, <2>2 DEF RemoveOld
<1>5. CASE UndoAvatar(a)
  <2> DEFINE h == [avatar[a] EXCEPT !.step = "failed"]
  <2>1. h \in AvatarShape /\ h.step = "failed" /\ h.old = avatar[a].old
    BY <1>0 DEF AvatarShape, Steps
  <2>2. avatar' = [avatar EXCEPT ![a] = h] /\ UNCHANGED <<avatarUrl, unlinked>>
    BY <1>5 DEF UndoAvatar, FileInv, FileKinds
  <2>3. avatar[a].step = "undo"
    BY <1>5 DEF UndoAvatar
  <2> HIDE DEF h
  <2>4. /\ disk' \in [Names -> {"absent", "partial", "complete"}]
        /\ \A n \in Names \ {Picture(a)} : disk'[n] = disk[n]
    BY <1>5 DEF UndoAvatar, Put, FileInv, FileKinds
  <2>5. FileKinds' /\ Attachments'
    BY <1>0, <2>1, <2>2, <2>4, OwnNames, AvatarReplaced, PictureFiles
       DEF FileInv, FileKinds, Storage
  <2>6. Past'
    BY <2>1, <2>2, AvatarReplaced DEF FileInv, Past, Early
  <2>7. \A b \in Avatar \ {a} : disk'[Picture(b)] = disk[Picture(b)]
    BY <2>4, OwnNames
  <2>8. avatarUrl # Nothing /\ ~ unlinked => disk'[avatarUrl] = disk[avatarUrl]
    BY <2>3, <2>4, OwnNames DEF FileInv, FileKinds, Pictures
  <2>9. Pictures'
    BY <2>1, <2>2, <2>7, <2>8, AvatarReplaced DEF FileInv, Pictures
  <2> QED
    BY <2>5, <2>6, <2>9 DEF FileInv
<1> QED
  BY <1>1, <1>2, <1>3, <1>4, <1>5

LEMMA StopFiles ==
    ASSUME FileInv, StopUploads
    PROVE  FileInv'
<1>1. \A a \in Avatar :
        LET h == [avatar[a] EXCEPT !.step = "failed"] IN
        h \in AvatarShape /\ h.step = "failed" /\ h.old = avatar[a].old
  BY DEF FileInv, FileKinds, AvatarShape, Steps
<1>2. /\ UNCHANGED <<disk, recorded, avatarUrl, unlinked>>
      /\ upload' = [u \in Upload |-> IF upload[u] \in {"new", "done"} THEN upload[u]
                                     ELSE "failed"]
      /\ avatar' = [a \in Avatar |-> IF avatar[a].step \in {"new", "done"} THEN avatar[a]
                                     ELSE [avatar[a] EXCEPT !.step = "failed"]]
  BY DEF StopUploads
<1>3. /\ avatar' \in [Avatar -> AvatarShape]
      /\ \A a \in Avatar : /\ avatar'[a].old = avatar[a].old
                           /\ avatar'[a].step \in {avatar[a].step, "failed"}
                           /\ avatar'[a].step \notin {"saved", "pointed", "undo"}
  BY <1>1, <1>2 DEF FileInv, FileKinds
<1>4. FileKinds' /\ Attachments'
  BY <1>2, <1>3 DEF FileInv, FileKinds, Attachments
<1>5. Past' /\ Pictures'
  BY <1>2, <1>3 DEF FileInv, Past, Pictures, Early
<1> QED
  BY <1>4, <1>5 DEF FileInv

LEMMA NextFiles ==
    ASSUME FileInv, [UploadNext]_uvars
    PROVE  FileInv'
<1>1. CASE UNCHANGED <<disk, upload, recorded, avatar, avatarUrl, unlinked>>
  BY <1>1 DEF FileInv, FileKinds, Attachments, Past, Pictures, Early
<1>2. ASSUME NEW s \in Message, LockRow(s) \/ RefuseClaim(s) \/ CommitSend(s)
      PROVE  UNCHANGED <<disk, upload, recorded, avatar, avatarUrl, unlinked>>
  BY <1>2 DEF LockRow, RefuseClaim, CommitSend, Storage, Avatars
<1> QED
  BY <1>1, <1>2, AttachmentSteps, AvatarSteps, StopFiles DEF UploadNext, uvars

\* A row never names a file that is missing or cut short, for any uploads, any
\* failures of their writes and any stop: what the attachment handler and
\* uploadAvatar leave behind. An avatar is sound as long as no removal of an
\* earlier file has failed.
THEOREM NamedFilesAreWhole == UploadSpec => []RowsNameWholeFiles
<1>1. FileInv => RowsNameWholeFiles
  BY DEF FileInv, Attachments, Pictures, RowsNameWholeFiles
<1> QED
  BY InitFiles, NextFiles, <1>1, PTL DEF UploadSpec

-----------------------------------------------------------------------------
StopInv ==
    /\ requested \in [Incoming -> {"coming", "active", "answered", "cut", "refused"}]
    /\ seconds \in Nat
    /\ stage \in {"releasing", "closing"} => Drained
    /\ stage = "closing" => leases # "held"
    /\ \A c \in Incoming : requested[c] = "cut" => seconds >= 10
    /\ StopsInOrder
    /\ ended = "drained" => stage = "exited"

LEMMA NextStop ==
    ASSUME StopInv, [ShutdownNext]_dvars
    PROVE  StopInv'
<1> USE DEF StopInv, StopsInOrder, Drained
<1>1. ASSUME NEW c \in Incoming, Serve(c)
      PROVE  StopInv'
  BY <1>1 DEF Serve
<1>2. ASSUME NEW c \in Incoming, AnswerCall(c)
      PROVE  StopInv'
  BY <1>2 DEF AnswerCall
<1>3. ASSUME NEW s \in Signal, HandleSignal(s) \/ RepeatSignal(s)
      PROVE  StopInv'
  BY <1>3 DEF HandleSignal, RepeatSignal
<1>4. CASE FinishDrain
  BY <1>4 DEF FinishDrain
<1>5. CASE ForceStop
  BY <1>5 DEF ForceStop
<1>6. CASE StopPresence
  BY <1>6 DEF StopPresence
<1>7. CASE CloseRedis
  BY <1>7 DEF CloseRedis
<1>8. CASE PassTenSeconds
  BY <1>8 DEF PassTenSeconds, Stopping
<1>9. CASE ExceedDeadline \/ UNCHANGED dvars
  BY <1>9 DEF ExceedDeadline, Stopping, dvars
<1> QED
  BY <1>1, <1>2, <1>3, <1>4, <1>5, <1>6, <1>7, <1>8, <1>9 DEF ShutdownNext

\* A process that drained has answered what it had let in or cut it off after
\* ten seconds, and then gave up its leases and its Redis connections, for any
\* requests and signals: the shutdown of index.ts and server.ts.
THEOREM ShutdownIsOrdered == ShutdownSpec => []StopsInOrder
<1>1. ShutdownInit => StopInv
  BY DEF ShutdownInit, StopInv, StopsInOrder, Drained
<1>2. StopInv => StopsInOrder
  BY DEF StopInv
<1> QED
  BY <1>1, <1>2, NextStop, PTL DEF ShutdownSpec

-----------------------------------------------------------------------------
(* Filters. What the recursive function keeps is shown by the least index at *)
(* which it would keep something else.                                     *)

KeptStep(F, list, out) ==
    \A n \in 0..Len(list) :
        F[n] = IF n = 0 THEN <<>>
               ELSE IF list[n] \in out THEN F[n - 1]
               ELSE Append(F[n - 1], list[n])

IsKept(F, list, out, k) ==
    F = [n \in 0..k |-> IF n = 0 THEN <<>>
                        ELSE IF list[n] \in out THEN F[n - 1]
                        ELSE Append(F[n - 1], list[n])]

\* The recursive function exists: it does so up to any index.
LEMMA KeptExists ==
    ASSUME NEW list, NEW out, Len(list) \in Nat
    PROVE  \E F : IsKept(F, list, out, Len(list))
<1> DEFINE Fits(F, k) == IsKept(F, list, out, k)
           Bad == {k \in 0..Len(list) : ~ \E F : Fits(F, k)}
<1> SUFFICES ASSUME Bad # {} PROVE FALSE
  OBVIOUS
<1>1. PICK k \in Bad : \A j \in Bad : k <= j
  <2>1. Bad \in SUBSET Nat
    OBVIOUS
  <2> HIDE DEF Bad
  <2> QED
    BY <2>1, Least
<1>2. k # 0
  <2>1. PICK F : F = [n \in 0..0 |-> <<>>]
    OBVIOUS
  <2>2. Fits(F, 0)
    BY <2>1 DEF IsKept
  <2> QED
    BY <1>1, <2>2
<1>3. k - 1 \in 0..Len(list) /\ k - 1 \notin Bad
  <2>1. k \in 0..Len(list)
    BY <1>1
  <2>2. k - 1 \in 0..Len(list) /\ ~(k <= k - 1)
    BY <1>2, <2>1
  <2> HIDE DEF Bad
  <2> QED
    BY <1>1, <2>2
<1>4. PICK F : Fits(F, k - 1)
  BY <1>3
<1>5. PICK v : v = IF list[k] \in out THEN F[k - 1] ELSE Append(F[k - 1], list[k])
  OBVIOUS
<1>6. PICK G : G = [n \in 0..k |-> IF n = k THEN v ELSE F[n]]
  OBVIOUS
<1>7. ASSUME NEW n \in 0..k
      PROVE  G[n] = IF n = 0 THEN <<>>
                    ELSE IF list[n] \in out THEN G[n - 1]
                    ELSE Append(G[n - 1], list[n])
  <2>0. k \in Nat
    BY <1>1
  <2>1. CASE n = k
    <3>1. G[k] = v /\ G[k - 1] = F[k - 1]
      BY <1>2, <1>6, <2>0
    <3> QED
      BY <1>2, <1>5, <2>1, <3>1
  <2>2. CASE n # k
    <3>1. n \in 0..(k - 1) /\ G[n] = F[n]
      BY <1>6, <2>0, <2>2
    <3>2. n # 0 => G[n - 1] = F[n - 1]
      BY <1>6, <2>0, <3>1
    <3>3. F[n] = IF n = 0 THEN <<>>
                 ELSE IF list[n] \in out THEN F[n - 1]
                 ELSE Append(F[n - 1], list[n])
      BY <1>4, <3>1 DEF IsKept
    <3> QED
      BY <3>1, <3>2, <3>3
  <2> QED
    BY <2>1, <2>2
<1>8. Fits(G, k)
  BY <1>6, <1>7 DEF IsKept
<1> QED
  BY <1>1, <1>8

LEMMA WithoutIs ==
    ASSUME NEW list, NEW out, Len(list) \in Nat
    PROVE  \E F : KeptStep(F, list, out) /\ Without(list, out) = F[Len(list)]
<1> PICK F : F = CHOOSE G : IsKept(G, list, out, Len(list))
  OBVIOUS
<1>1. IsKept(F, list, out, Len(list))
  BY KeptExists
<1>2. KeptStep(F, list, out)
  BY <1>1 DEF KeptStep, IsKept
<1>3. Without(list, out) = F[Len(list)]
  BY DEF Without, IsKept
<1> QED
  BY <1>2, <1>3

\* Where the names are all but a stretch of the list, that stretch is left.
LEMMA WithoutLeaves ==
    ASSUME NEW S, NEW list \in Seq(S), NEW out,
           NEW a \in 0..Len(list), NEW b \in 0..Len(list),
           \A i \in 1..Len(list) : list[i] \in out <=> ~(a < i /\ i <= b)
    PROVE  Without(list, out) = SubSeq(list, a + 1, b)
<1> DEFINE Least2(n) == IF n <= b THEN n ELSE b
<1>0. Len(list) \in Nat
  BY LenProperties
<1>1. PICK F : KeptStep(F, list, out) /\ Without(list, out) = F[Len(list)]
  BY <1>0, WithoutIs
<1> DEFINE Bad == {n \in 0..Len(list) : F[n] # SubSeq(list, a + 1, Least2(n))}
<1>2. ASSUME Bad # {} PROVE FALSE
  <2>1. PICK n \in Bad : \A j \in Bad : n <= j
    <3>1. Bad \in SUBSET Nat
      OBVIOUS
    <3> HIDE DEF Bad
    <3> QED
      BY <1>2, <3>1, Least
  <2>2. n \in 0..Len(list) /\ F[n] # SubSeq(list, a + 1, Least2(n))
    BY <2>1
  <2>3. n # 0
    <3>1. F[0] = <<>>
      BY <1>0, <1>1 DEF KeptStep
    <3>2. SubSeq(list, a + 1, Least2(0)) = <<>>
      BY SubSeqEmpty
    <3> QED
      BY <2>2, <3>1, <3>2
  <2>4. n - 1 \in 0..Len(list) /\ n \in 1..Len(list)
    BY <1>0, <2>2, <2>3
  <2>5. F[n - 1] = SubSeq(list, a + 1, Least2(n - 1))
    <3>1. n - 1 \notin Bad
      BY <2>1, <2>2
    <3> QED
      BY <2>4, <3>1
  <2>6. F[n] = IF list[n] \in out THEN F[n - 1] ELSE Append(F[n - 1], list[n])
    BY <1>1, <2>2, <2>3 DEF KeptStep
  <2>7. CASE a < n /\ n <= b
    <3>1. F[n] = Append(F[n - 1], list[n]) /\ F[n - 1] = SubSeq(list, a + 1, n - 1)
      BY <2>4, <2>5, <2>6, <2>7
    <3>2. SubSeq(list, a + 1, n) = SubSeq(list, a + 1, n - 1) \o <<list[n]>>
      BY <2>4, <2>7, SubSeqRecursiveSecond
    <3>3. SubSeq(list, a + 1, n - 1) \in Seq(S) /\ list[n] \in S
      BY <2>4, SubSeqProperties, ElementOfSeq
    <3>4. Append(SubSeq(list, a + 1, n - 1), list[n])
            = SubSeq(list, a + 1, n - 1) \o <<list[n]>>
      BY <3>3, AppendIsConcat
    <3> QED
      BY <2>2, <2>7, <3>1, <3>2, <3>4
  <2>8. CASE ~(a < n)
    <3>1. F[n] = SubSeq(list, a + 1, Least2(n - 1))
      BY <2>4, <2>5, <2>6, <2>8
    <3>2. Least2(n) < a + 1 /\ Least2(n - 1) < a + 1 /\ Least2(n) \in Int /\ Least2(n - 1) \in Int
      BY <2>4, <2>8
    <3> HIDE DEF Least2
    <3>3. SubSeq(list, a + 1, Least2(n)) = <<>> /\ SubSeq(list, a + 1, Least2(n - 1)) = <<>>
      BY <3>2, SubSeqEmpty
    <3> QED
      BY <2>2, <3>1, <3>3
  <2>9. CASE ~(n <= b)
    <3>1. F[n] = SubSeq(list, a + 1, Least2(n - 1))
      BY <2>4, <2>5, <2>6, <2>9
    <3>2. Least2(n - 1) = b /\ Least2(n) = b
      BY <2>4, <2>9
    <3> QED
      BY <2>2, <3>1, <3>2
  <2> QED
    BY <2>7, <2>8, <2>9
<1>3. Len(list) \notin Bad
  BY <1>2
<1>4. F[Len(list)] = SubSeq(list, a + 1, Least2(Len(list)))
  BY <1>0, <1>3
<1> QED
  BY <1>0, <1>1, <1>4

\* What a sequence has in it.
LEMMA SetOf ==
    ASSUME NEW S, NEW s \in Seq(S)
    PROVE  \A x : x \in ToSet(s) <=> \E i \in 1..Len(s) : s[i] = x
<1>1. DOMAIN s = 1..Len(s)
  OBVIOUS
<1> QED
  BY <1>1 DEF ToSet

-----------------------------------------------------------------------------
(* The runs. *)

\* What any release calls a migration.
Migrated == UNION {ToSet(files) : files \in Releases}

\* A run's record.
RunShape == [step : {"ended", "lock", "read", "apply", "unlock"},
             files : Releases \cup {<<>>}, down : 0..2,
             plan : Seq(Migrated), batch : Seq(Migrated)]

\* What a run that is about to commit has found out, while it holds the lock.
Planned(r) ==
    /\ run[r].files \in Releases /\ SameOrder(applied, run[r].files)
    /\ run[r].batch = IF run[r].down = 0 THEN Pending(applied, run[r].files)
                      ELSE NewestFirst(applied, run[r].down)

MigrationInv ==
    /\ applied \in Seq(Migrated) /\ run \in [Runner -> RunShape]
    /\ \A r \in Runner : run[r].step \in {"read", "apply", "unlock"} => holder = r
    /\ \A r \in Runner : run[r].step # "ended" => run[r].files \in Releases
    /\ \A r \in Runner : run[r].step = "apply" => Planned(r)
    /\ AppliedInOrder

\* A release is a sequence of names, each once.
LEMMA ReleasesAre ==
    ASSUME MigrationAssumption
    PROVE  /\ Releases \subseteq Seq(Migrated)
           /\ \A files \in Releases : \A i, j \in 1..Len(files) :
                files[i] = files[j] => i = j
<1>1. ASSUME NEW files \in Releases PROVE files \in Seq(Migrated)
  <2>1. ToSet(files) \subseteq Migrated /\ files \in Seq(ToSet(files))
    BY DEF Migrated, MigrationAssumption
  <2> QED
    BY <2>1, SeqMonotonic
<1>2. ASSUME NEW files \in Releases, NEW i \in 1..Len(files), NEW j \in 1..Len(files),
             files[i] = files[j]
      PROVE  i = j
  <2>1. DOMAIN files = 1..Len(files)
    BY <1>1, LenProperties
  <2> QED
    BY <1>2, <2>1 DEF MigrationAssumption, IsInjective
<1> QED
  BY <1>1, <1>2

\* The beginnings of a sequence.
LEMMA PrefixIs ==
    ASSUME NEW S, NEW s \in Seq(S), NEW t \in Seq(S)
    PROVE  IsPrefix(s, t) <=> Len(s) <= Len(t) /\ \A i \in 1..Len(s) : s[i] = t[i]
<1>0. Len(s) \in Nat /\ Len(t) \in Nat
  BY LenProperties
<1>1. SubSeq(s, 1, Len(s)) = s
  BY SubSeqFull
<1>2. ASSUME Len(s) <= Len(t)
      PROVE  /\ SubSeq(t, 1, Len(s)) \in Seq(S) /\ Len(SubSeq(t, 1, Len(s))) = Len(s)
             /\ \A i \in 1..Len(s) : SubSeq(t, 1, Len(s))[i] = t[i]
  <2>1. \A i \in 1..Len(s) : t[i] \in S
    BY <1>0, <1>2, ElementOfSeq
  <2>2. /\ SubSeq(t, 1, Len(s)) \in Seq(S)
        /\ Len(SubSeq(t, 1, Len(s))) = IF 1 <= Len(s) THEN Len(s) - 1 + 1 ELSE 0
        /\ \A i \in 1..(Len(s) - 1 + 1) : SubSeq(t, 1, Len(s))[i] = t[1 + i - 1]
    BY <1>0, <2>1, SubSeqProperties
  <2> QED
    BY <1>0, <2>2
<1>3. Len(s) <= Len(t) /\ (\A i \in 1..Len(s) : s[i] = t[i]) => s = SubSeq(t, 1, Len(s))
  BY <1>2, SeqEqual
<1> QED
  BY <1>1, <1>2, <1>3 DEF IsPrefix

\* What stands between two places of a sequence.
LEMMA PartIs ==
    ASSUME NEW S, NEW s \in Seq(S), NEW n \in Nat, n = Len(s), NEW k \in 0..n,
           NEW m \in 0..n
    PROVE  /\ SubSeq(s, k + 1, m) \in Seq(S)
           /\ Len(SubSeq(s, k + 1, m)) = IF k <= m THEN m - k ELSE 0
           /\ \A i \in 1..(m - k) : SubSeq(s, k + 1, m)[i] = s[k + i]
<1>1. \A i \in (k + 1)..m : s[i] \in S
  <2>1. \A i \in (k + 1)..m : i \in 1..Len(s)
    OBVIOUS
  <2> QED
    BY <2>1, ElementOfSeq
<1>2. PICK l \in Int : l = k + 1
  OBVIOUS
<1>3. /\ SubSeq(s, l, m) \in Seq(S)
      /\ Len(SubSeq(s, l, m)) = IF l <= m THEN m - l + 1 ELSE 0
      /\ \A i \in 1..(m - l + 1) : SubSeq(s, l, m)[i] = s[l + i - 1]
  BY <1>1, <1>2, SubSeqProperties
<1>4. \A i \in 1..(m - k) : i \in 1..(m - l + 1) /\ l + i - 1 = k + i
  BY <1>2
<1> QED
  BY <1>2, <1>3, <1>4

\* Going up makes the applied list the release's, where that is longer.
LEMMA UpExtends ==
    ASSUME MigrationAssumption, applied \in Seq(Migrated), AppliedInOrder,
           NEW files \in Releases, SameOrder(applied, files)
    PROVE  /\ Pending(applied, files) \in Seq(Migrated)
           /\ \E g \in Releases : IsPrefix(applied \o Pending(applied, files), g)
<1>0. files \in Seq(Migrated)
  BY ReleasesAre
<1>1. PICK a \in Nat, b \in Nat : a = Len(applied) /\ b = Len(files)
  BY <1>0, LenProperties
<1>2. \A i \in 1..a : i <= b => applied[i] = files[i]
  BY <1>1 DEF SameOrder
<1>3. CASE a <= b
  <2>1. ASSUME NEW i \in 1..b PROVE files[i] \in ToSet(applied) <=> ~(a < i /\ i <= b)
    <3>1. ASSUME NEW j \in 1..a, applied[j] = files[i] PROVE i = j
      BY <1>1, <1>2, <1>3, <3>1, ReleasesAre
    <3>2. files[i] \in ToSet(applied) <=> \E j \in 1..a : applied[j] = files[i]
      BY <1>1, SetOf
    <3>3. CASE i <= a
      <4>1. i \in 1..a /\ applied[i] = files[i] /\ ~(a < i)
        BY <1>2, <3>3
      <4> QED
        BY <3>2, <4>1
    <3>4. CASE ~(i <= a)
      <4>1. a < i /\ i <= b /\ i \notin 1..a
        BY <3>4
      <4> QED
        BY <3>1, <3>2, <4>1
    <3> QED
      BY <3>3, <3>4
  <2>2. a \in 0..Len(files) /\ b \in 0..Len(files)
    BY <1>1, <1>3
  <2>3. Pending(applied, files) = SubSeq(files, a + 1, b)
    <3>1. \A i \in 1..Len(files) : files[i] \in ToSet(applied) <=> ~(a < i /\ i <= b)
      BY <1>1, <2>1
    <3> QED
      BY <1>0, <2>2, <3>1, WithoutLeaves DEF Pending
  <2>4. applied = SubSeq(files, 1, a)
    <3>1. IsPrefix(applied, files)
      BY <1>0, <1>1, <1>2, <1>3, PrefixIs
    <3> QED
      BY <1>1, <3>1 DEF IsPrefix
  <2>5. SubSeq(files, 1, a) \o SubSeq(files, a + 1, b) = SubSeq(files, 1, b)
    <3>1. 1 \in 1..(Len(files) + 1) /\ a \in (1 - 1)..Len(files) /\ b \in a..Len(files)
      BY <1>1, <1>3
    <3> QED
      BY <1>0, <3>1, ConcatAdjacentSubSeq
  <2>6. applied \o Pending(applied, files) = files
    BY <1>0, <1>1, <2>3, <2>4, <2>5, SubSeqFull
  <2>7. Pending(applied, files) \in Seq(Migrated)
    BY <1>0, <1>1, <1>3, <2>3, PartIs
  <2>8. IsPrefix(files, files)
    BY <1>0, <1>1, PrefixIs
  <2> QED
    BY <2>6, <2>7, <2>8
<1>4. CASE ~(a <= b)
  <2>1. ASSUME NEW i \in 1..b PROVE files[i] \in ToSet(applied)
    <3>1. i \in 1..a /\ i <= b
      BY <1>4
    <3> QED
      BY <1>1, <1>2, <3>1, SetOf
  <2>2. \A i \in 1..Len(files) : files[i] \in ToSet(applied) <=> ~(0 < i /\ i <= 0)
    BY <1>1, <2>1
  <2>3. Pending(applied, files) = SubSeq(files, 0 + 1, 0)
    <3>1. 0 \in 0..Len(files)
      BY <1>1
    <3> QED
      BY <1>0, <2>2, <3>1, WithoutLeaves DEF Pending
  <2>4. Pending(applied, files) = <<>>
    BY <2>3, SubSeqEmpty
  <2>5. applied \o <<>> = applied /\ <<>> \in Seq(Migrated)
    BY ConcatEmptySeq
  <2> QED
    BY <2>4, <2>5 DEF AppliedInOrder
<1> QED
  BY <1>3, <1>4

\* The batch of a way down: the part behind k, backwards.
LEMMA NewestAre ==
    ASSUME NEW S, NEW s \in Seq(S), NEW n \in Nat, n = Len(s), NEW k \in 0..n
    PROVE  /\ Reverse(SubSeq(s, k + 1, n)) \in Seq(S)
           /\ Len(Reverse(SubSeq(s, k + 1, n))) = n - k
           /\ \A i \in 1..(n - k) : Reverse(SubSeq(s, k + 1, n))[i] = s[n - i + 1]
<1>1. PICK t : t = SubSeq(s, k + 1, n)
  OBVIOUS
<1>2. PICK d \in Nat : d = n - k
  <2>1. n - k \in Nat
    OBVIOUS
  <2> QED
    BY <2>1
<1>3. n \in 0..n /\ k <= n
  OBVIOUS
<1>4. t \in Seq(S) /\ Len(t) = d /\ \A i \in 1..d : t[i] = s[k + i]
  BY <1>1, <1>2, <1>3, PartIs
<1>5. PICK q : q = Reverse(t)
  OBVIOUS
<1>6. q = [i \in 1..d |-> t[d - i + 1]]
  BY <1>4, <1>5 DEF Reverse
<1>7. \A i \in 1..d : d - i + 1 \in 1..d /\ k + (d - i + 1) = n - i + 1
  BY <1>2
<1>8. \A i \in 1..d : t[d - i + 1] \in S
  BY <1>4, <1>7, ElementOfSeq
<1>9. q \in [1..d -> S]
  BY <1>6, <1>8
<1>10. q \in Seq(S) /\ Len(q) = d
  BY <1>6, <1>9
<1>11. \A i \in 1..d : q[i] = s[n - i + 1]
  <2>1. ASSUME NEW i \in 1..d PROVE q[i] = s[n - i + 1]
    <3>1. PICK j \in 1..d : j = d - i + 1 /\ k + j = n - i + 1
      BY <1>7
    <3>2. q[i] = t[j]
      BY <1>6, <3>1
    <3>3. t[j] = s[k + j]
      BY <1>4
    <3> QED
      BY <3>1, <3>2, <3>3
  <2> QED
    BY <2>1
<1> QED
  BY <1>1, <1>2, <1>5, <1>10, <1>11

\* Going down leaves the beginning of the applied list.
LEMMA DownShortens ==
    ASSUME MigrationAssumption, applied \in Seq(Migrated), AppliedInOrder, NEW c \in 1..2
    PROVE  /\ NewestFirst(applied, c) \in Seq(Migrated)
           /\ Without(applied, ToSet(NewestFirst(applied, c))) \in Seq(Migrated)
           /\ \E g \in Releases : IsPrefix(Without(applied, ToSet(NewestFirst(applied, c))), g)
<1>1. PICK n \in Nat : n = Len(applied)
  BY LenProperties
<1>2. PICK k \in 0..n : k + 1 = IF n > c THEN n - c + 1 ELSE 1
  <2>1. CASE n > c
    <3>1. n - c \in 0..n /\ (n - c) + 1 = n - c + 1
      BY <1>1, <2>1
    <3> QED
      BY <2>1, <3>1
  <2>2. CASE ~(n > c)
    <3>1. 0 \in 0..n /\ 0 + 1 = 1
      BY <1>1
    <3> QED
      BY <2>2, <3>1
  <2> QED
    BY <2>1, <2>2
<1>3. PICK q : q = NewestFirst(applied, c)
  OBVIOUS
<1>4. q = Reverse(SubSeq(applied, k + 1, n))
  BY <1>1, <1>2, <1>3 DEF NewestFirst
<1>5. /\ q \in Seq(Migrated) /\ Len(q) = n - k
      /\ \A i \in 1..(n - k) : q[i] = applied[n - i + 1]
  BY <1>1, <1>4, NewestAre
<1>6. PICK g \in Releases : IsPrefix(applied, g)
  BY DEF AppliedInOrder
<1>7. /\ g \in Seq(Migrated) /\ n <= Len(g) /\ Len(g) \in Nat
      /\ \A i \in 1..n : applied[i] = g[i]
  BY <1>1, <1>6, ReleasesAre, PrefixIs, LenProperties
<1>8. \A i, j \in 1..n : applied[i] = applied[j] => i = j
  <2> SUFFICES ASSUME NEW i \in 1..n, NEW j \in 1..n, applied[i] = applied[j]
               PROVE  i = j
    OBVIOUS
  <2>1. i \in 1..Len(g) /\ j \in 1..Len(g) /\ g[i] = g[j]
    BY <1>1, <1>7
  <2> QED
    BY <2>1, ReleasesAre
<1>9. ASSUME NEW i \in 1..n PROVE applied[i] \in ToSet(q) <=> ~(0 < i /\ i <= k)
  <2>1. ASSUME NEW j \in 1..Len(q), q[j] = applied[i] PROVE ~(i <= k)
    <3>1. j \in 1..(n - k) /\ n - j + 1 \in 1..n /\ n - j + 1 > k
      BY <1>1, <1>2, <1>5
    <3>2. i = n - j + 1
      BY <1>5, <1>8, <2>1, <3>1
    <3> QED
      BY <1>2, <3>1, <3>2
  <2>2. ASSUME ~(i <= k) PROVE \E j \in 1..Len(q) : q[j] = applied[i]
    <3>1. n - i + 1 \in 1..(n - k) /\ n - (n - i + 1) + 1 = i
      BY <1>1, <1>2, <2>2
    <3>2. q[n - i + 1] = applied[i]
      BY <1>5, <3>1
    <3> QED
      BY <1>5, <3>1, <3>2
  <2>3. 0 < i
    OBVIOUS
  <2> QED
    BY <1>5, <2>1, <2>2, <2>3, SetOf
<1>10. Without(applied, ToSet(q)) = SubSeq(applied, 0 + 1, k)
  <2>1. 0 \in 0..Len(applied) /\ k \in 0..Len(applied)
    BY <1>1, <1>2
  <2>2. \A i \in 1..Len(applied) : applied[i] \in ToSet(q) <=> ~(0 < i /\ i <= k)
    BY <1>1, <1>9
  <2> QED
    BY <2>1, <2>2, WithoutLeaves
<1>11. PICK u : u = SubSeq(applied, 0 + 1, k)
  OBVIOUS
<1>12. u \in Seq(Migrated) /\ Len(u) = k /\ \A i \in 1..k : u[i] = applied[i]
  <2>1. 0 \in 0..n /\ k - 0 = k /\ 0 <= k
    BY <1>1, <1>2
  <2>2. /\ u \in Seq(Migrated) /\ Len(u) = IF 0 <= k THEN k - 0 ELSE 0
        /\ \A i \in 1..(k - 0) : u[i] = applied[0 + i]
    BY <1>1, <1>2, <1>11, <2>1, PartIs
  <2>3. \A i \in 1..k : 0 + i = i
    OBVIOUS
  <2> QED
    BY <2>1, <2>2, <2>3
<1>13. IsPrefix(u, g)
  <2>1. k <= Len(g) /\ \A i \in 1..k : u[i] = g[i]
    BY <1>1, <1>2, <1>7, <1>12
  <2> QED
    BY <1>7, <1>12, <2>1, PrefixIs
<1> QED
  BY <1>3, <1>5, <1>10, <1>11, <1>12, <1>13
\* A run moves to x: the table is not touched, and the lock only passes between
\* this run and nobody.
LEMMA RunMoves ==
    ASSUME MigrationAssumption, MigrationInv, NEW r \in Runner, NEW x \in RunShape,
           run' = [run EXCEPT ![r] = x], applied' = applied,
           \/ holder' = holder
           \/ holder = "nobody" /\ holder' = r
           \/ holder = r /\ holder' = "nobody",
           x.step \in {"read", "apply", "unlock"} => holder' = r,
           x.step # "ended" => x.files \in Releases,
           x.step = "apply" => Planned(r)'
    PROVE  MigrationInv'
<1>1. /\ run' \in [Runner -> RunShape] /\ run'[r] = x
      /\ \A s \in Runner : s # r => run'[s] = run[s]
  BY DEF MigrationInv
<1>2. ASSUME NEW s \in Runner, run'[s].step \in {"read", "apply", "unlock"}
      PROVE  holder' = s
  <2>1. CASE s = r
    BY <1>1, <1>2, <2>1
  <2>2. CASE s # r
    <3>1. holder = s
      BY <1>1, <1>2, <2>2 DEF MigrationInv
    <3> QED
      BY <2>2, <3>1 DEF MigrationAssumption
  <2> QED
    BY <2>1, <2>2
<1>3. ASSUME NEW s \in Runner, run'[s].step # "ended" PROVE run'[s].files \in Releases
  BY <1>1, <1>3 DEF MigrationInv
<1>4. ASSUME NEW s \in Runner, run'[s].step = "apply" PROVE Planned(s)'
  <2>1. CASE s = r
    BY <1>1, <1>4, <2>1
  <2>2. CASE s # r
    <3>1. run'[s] = run[s] /\ Planned(s)
      BY <1>1, <1>4, <2>2 DEF MigrationInv
    <3> QED
      BY <3>1 DEF Planned, SameOrder, Pending, NewestFirst
  <2> QED
    BY <2>1, <2>2
<1>5. applied' \in Seq(Migrated) /\ AppliedInOrder'
  BY DEF MigrationInv, AppliedInOrder
<1> QED
  BY <1>1, <1>2, <1>3, <1>4, <1>5 DEF MigrationInv

\* A run that has ended is one.
LEMMA EndedIs ==
    Ended \in RunShape /\ Ended.step = "ended"
<1>1. <<>> \in Seq(Migrated)
  BY EmptySeq
<1> QED
  BY <1>1 DEF Ended, RunShape

\* What a new step leaves of a run.
LEMMA StepOf ==
    ASSUME run \in [Runner -> RunShape], NEW r \in Runner,
           NEW st \in {"ended", "lock", "read", "apply", "unlock"}
    PROVE  \E x \in RunShape :
             /\ [run EXCEPT ![r].step = st] = [run EXCEPT ![r] = x]
             /\ x.step = st /\ x.files = run[r].files /\ x.down = run[r].down
             /\ x.plan = run[r].plan /\ x.batch = run[r].batch
<1>1. PICK x : x = [run[r] EXCEPT !.step = st]
  OBVIOUS
<1>2. run[r] \in RunShape
  OBVIOUS
<1>3. x \in RunShape /\ x.step = st /\ x.files = run[r].files /\ x.down = run[r].down
        /\ x.plan = run[r].plan /\ x.batch = run[r].batch
  BY <1>1, <1>2 DEF RunShape
<1>4. [run EXCEPT ![r].step = st] = [run EXCEPT ![r] = x]
  BY <1>1
<1> QED
  BY <1>3, <1>4

\* A run that lets go ends; the lock was its own or is not touched.
LEMMA Released ==
    ASSUME MigrationAssumption, MigrationInv, NEW r \in Runner, ReleaseLock(r),
           applied' = applied
    PROVE  MigrationInv'
<1>1. run' = [run EXCEPT ![r] = Ended] /\ (holder' = holder \/ (holder = r /\ holder' = "nobody"))
  BY DEF ReleaseLock
<1>2. Ended \in RunShape /\ Ended.step = "ended"
  BY EndedIs
<1>3. PICK x \in RunShape : x = Ended
  BY <1>2
<1> QED
  BY <1>1, <1>2, <1>3, RunMoves

\* The commit, while the lock keeps every other run from having read the table.
LEMMA CommitKeeps ==
    ASSUME MigrationAssumption, MigrationInv, NEW r \in Runner, CommitBatch(r)
    PROVE  MigrationInv'
<1>1. /\ run[r] \in RunShape /\ run[r].step = "apply" /\ holder = r /\ Planned(r)
      /\ run[r].files \in Releases
  BY DEF MigrationInv, CommitBatch
<1>2. PICK x \in RunShape :
        /\ run' = [run EXCEPT ![r] = x]
        /\ x.step = "unlock" /\ x.files = run[r].files
  <2>1. run' = [run EXCEPT ![r].step = "unlock"]
    BY DEF CommitBatch
  <2> QED
    BY <2>1, StepOf DEF MigrationInv
<1>3. /\ run' \in [Runner -> RunShape] /\ run'[r] = x
      /\ \A s \in Runner : s # r => run'[s] = run[s]
  BY <1>2 DEF MigrationInv
<1>4. \A s \in Runner : s # r => run[s].step \notin {"read", "apply", "unlock"}
  BY <1>1 DEF MigrationInv
<1>5. applied' \in Seq(Migrated) /\ AppliedInOrder'
  <2>1. applied' = TableAfter(r) /\ applied \in Seq(Migrated) /\ AppliedInOrder
    BY DEF CommitBatch, MigrationInv
  <2>2. CASE run[r].down = 0
    <3>1. /\ applied' = applied \o run[r].batch
          /\ run[r].batch = Pending(applied, run[r].files)
          /\ SameOrder(applied, run[r].files)
      BY <1>1, <2>1, <2>2 DEF TableAfter, Planned
    <3>2. PICK files \in Releases : files = run[r].files
      BY <1>1
    <3>3. /\ Pending(applied, files) \in Seq(Migrated)
          /\ \E g \in Releases : IsPrefix(applied \o Pending(applied, files), g)
      BY <2>1, <3>1, <3>2, UpExtends
    <3>4. applied \o Pending(applied, files) \in Seq(Migrated)
      BY <2>1, <3>3, ConcatProperties
    <3> QED
      BY <3>1, <3>2, <3>3, <3>4 DEF AppliedInOrder
  <2>3. CASE run[r].down # 0
    <3>1. /\ applied' = Without(applied, ToSet(run[r].batch))
          /\ run[r].batch = NewestFirst(applied, run[r].down)
      BY <1>1, <2>1, <2>3 DEF TableAfter, Planned
    <3>2. PICK c \in 1..2 : c = run[r].down
      <4>1. run[r].down \in 0..2
        BY <1>1 DEF RunShape
      <4> QED
        BY <2>3, <4>1
    <3>3. /\ Without(applied, ToSet(NewestFirst(applied, c))) \in Seq(Migrated)
          /\ \E g \in Releases : IsPrefix(Without(applied, ToSet(NewestFirst(applied, c))), g)
      BY <2>1, DownShortens
    <3> QED
      BY <3>1, <3>2, <3>3 DEF AppliedInOrder
  <2> QED
    BY <2>2, <2>3
<1>6. holder' = r
  BY <1>1 DEF CommitBatch
<1>7. \A s \in Runner : run'[s].step \in {"read", "apply", "unlock"} => holder' = s
  BY <1>3, <1>4, <1>6
<1>8. \A s \in Runner : run'[s].step # "ended" => run'[s].files \in Releases
  BY <1>1, <1>2, <1>3 DEF MigrationInv
<1>9. \A s \in Runner : run'[s].step # "apply"
  BY <1>2, <1>3, <1>4
<1> QED
  BY <1>3, <1>5, <1>7, <1>8, <1>9 DEF MigrationInv

\* Every step keeps the invariant.
LEMMA MigrationKeeps ==
    ASSUME MigrationAssumption, MigrationInv, [MigrationNext]_nvars
    PROVE  MigrationInv'
<1>1. CASE UNCHANGED nvars
  BY <1>1 DEF nvars, MigrationInv, Planned, SameOrder, Pending, NewestFirst, AppliedInOrder
<1>2. ASSUME NEW r \in Runner, StartRun(r) PROVE MigrationInv'
  <2>1. PICK files \in Releases, down \in 0..2 :
          run' = [run EXCEPT ![r] =
                    [Ended EXCEPT !.step = "lock", !.files = files, !.down = down]]
    BY <1>2 DEF StartRun
  <2>2. PICK x : x = [Ended EXCEPT !.step = "lock", !.files = files, !.down = down]
    OBVIOUS
  <2>3. x \in RunShape /\ x.step = "lock" /\ x.files \in Releases
    BY <2>2, EndedIs DEF Ended, RunShape
  <2>4. applied' = applied /\ holder' = holder
    BY <1>2 DEF StartRun
  <2> QED
    BY <2>1, <2>2, <2>3, <2>4, RunMoves
<1>3. ASSUME NEW r \in Runner, TakeLock(r) PROVE MigrationInv'
  <2>1. run[r].step = "lock" /\ applied' = applied
    BY <1>3 DEF TakeLock
  <2>2. CASE LockGranted
    <3>1. holder = "nobody" /\ holder' = r /\ run' = [run EXCEPT ![r].step = "read"]
      BY <1>3, <2>2 DEF TakeLock, LockGranted
    <3>2. PICK x \in RunShape :
            run' = [run EXCEPT ![r] = x] /\ x.step = "read" /\ x.files = run[r].files
      BY <3>1, StepOf DEF MigrationInv
    <3>3. x.files \in Releases
      BY <2>1, <3>2 DEF MigrationInv
    <3> QED
      BY <2>1, <3>1, <3>2, <3>3, RunMoves
  <2>3. CASE ~LockGranted
    <3>1. run' = [run EXCEPT ![r] = Ended] /\ holder' = holder
      BY <1>3, <2>3 DEF TakeLock
    <3>2. PICK x \in RunShape : x = Ended
      BY EndedIs
    <3> QED
      BY <2>1, <3>1, <3>2, EndedIs, RunMoves
  <2> QED
    BY <2>2, <2>3
<1>4. ASSUME NEW r \in Runner, ReadApplied(r) PROVE MigrationInv'
  <2>1. run[r].step = "read" /\ applied' = applied
    BY <1>4 DEF ReadApplied
  <2>2. run[r] \in RunShape /\ run[r].files \in Releases /\ holder = r
    BY <2>1 DEF MigrationInv
  <2>3. PICK batch : batch = IF run[r].down = 0 THEN Pending(applied, run[r].files)
                             ELSE NewestFirst(applied, run[r].down)
    OBVIOUS
  <2>4. \/ ReleaseLock(r)
        \/ /\ SameOrder(applied, run[r].files)
           /\ run' = [run EXCEPT ![r].step = "apply", ![r].plan = batch,
                                 ![r].batch = batch]
           /\ holder' = holder
    BY <1>4, <2>3 DEF ReadApplied
  <2>5. CASE ReleaseLock(r)
    BY <2>1, <2>5, Released
  <2>6. ASSUME SameOrder(applied, run[r].files),
               run' = [run EXCEPT ![r].step = "apply", ![r].plan = batch,
                                  ![r].batch = batch],
               holder' = holder
        PROVE  MigrationInv'
    <3>1. batch \in Seq(Migrated)
      <4>1. applied \in Seq(Migrated) /\ AppliedInOrder
        BY DEF MigrationInv
      <4>2. CASE run[r].down = 0
        <5>1. PICK files \in Releases : files = run[r].files
          BY <2>2
        <5> QED
          BY <2>3, <2>6, <4>1, <4>2, <5>1, UpExtends
      <4>3. CASE run[r].down # 0
        <5>1. run[r].down \in 0..2
          BY <2>2 DEF RunShape
        <5>2. PICK c \in 1..2 : c = run[r].down
          BY <4>3, <5>1
        <5> QED
          BY <2>3, <4>1, <4>3, <5>2, DownShortens
      <4> QED
        BY <4>2, <4>3
    <3>2. PICK x : x = [run[r] EXCEPT !.step = "apply", !.plan = batch, !.batch = batch]
      OBVIOUS
    <3>3. /\ x \in RunShape /\ x.step = "apply" /\ x.files = run[r].files
          /\ x.down = run[r].down /\ x.batch = batch
      BY <2>2, <3>1, <3>2 DEF RunShape
    <3>4. run' = [run EXCEPT ![r] = x]
      BY <2>6, <3>2
    <3>5. run'[r] = x
      BY <3>4 DEF MigrationInv
    <3>6. Planned(r)'
      <4>1. run'[r].files \in Releases /\ SameOrder(applied', run'[r].files)
        BY <2>1, <2>2, <2>6, <3>3, <3>5
      <4>2. run'[r].batch = IF run'[r].down = 0 THEN Pending(applied', run'[r].files)
                            ELSE NewestFirst(applied', run'[r].down)
        BY <2>1, <2>3, <3>3, <3>5
      <4> QED
        BY <4>1, <4>2 DEF Planned
    <3> QED
      BY <2>1, <2>2, <2>6, <3>3, <3>4, <3>6, RunMoves
  <2> QED
    BY <2>4, <2>5, <2>6
<1>5. ASSUME NEW r \in Runner, ExecuteFile(r) PROVE MigrationInv'
  <2>1. /\ run[r].step = "apply" /\ run[r].plan # <<>>
        /\ run' = [run EXCEPT ![r].plan = Tail(@)]
        /\ applied' = applied /\ holder' = holder
    BY <1>5 DEF ExecuteFile
  <2>2. /\ run[r] \in RunShape /\ run[r].files \in Releases /\ holder = r /\ Planned(r)
    BY <2>1 DEF MigrationInv
  <2>3. PICK rest : rest = Tail(run[r].plan)
    OBVIOUS
  <2>4. rest \in Seq(Migrated)
    <3>1. run[r].plan \in Seq(Migrated)
      BY <2>2 DEF RunShape
    <3> QED
      BY <2>1, <2>3, <3>1, HeadTailProperties
  <2>5. PICK x : x = [run[r] EXCEPT !.plan = rest]
    OBVIOUS
  <2>6. /\ x \in RunShape /\ x.step = "apply" /\ x.files = run[r].files
        /\ x.down = run[r].down /\ x.batch = run[r].batch
    BY <2>1, <2>2, <2>4, <2>5 DEF RunShape
  <2>7. run' = [run EXCEPT ![r] = x]
    BY <2>1, <2>3, <2>5
  <2>8. run'[r] = x
    BY <2>7 DEF MigrationInv
  <2>9. Planned(r)'
    <3>1. run'[r].files \in Releases /\ SameOrder(applied', run'[r].files)
      BY <2>1, <2>2, <2>6, <2>8 DEF Planned
    <3>2. run'[r].batch = IF run'[r].down = 0 THEN Pending(applied', run'[r].files)
                          ELSE NewestFirst(applied', run'[r].down)
      BY <2>1, <2>2, <2>6, <2>8 DEF Planned
    <3> QED
      BY <3>1, <3>2 DEF Planned
  <2> QED
    BY <2>1, <2>2, <2>6, <2>7, <2>9, RunMoves
<1>6. ASSUME NEW r \in Runner, CommitBatch(r) PROVE MigrationInv'
  BY <1>6, CommitKeeps
<1>7. ASSUME NEW r \in Runner, FailBatch(r) PROVE MigrationInv'
  <2>1. /\ run[r].step = "apply" /\ run' = [run EXCEPT ![r].step = "unlock"]
        /\ applied' = applied /\ holder' = holder
    BY <1>7 DEF FailBatch
  <2>2. holder = r /\ run[r].files \in Releases
    BY <2>1 DEF MigrationInv
  <2>3. PICK x \in RunShape :
          run' = [run EXCEPT ![r] = x] /\ x.step = "unlock" /\ x.files = run[r].files
    BY <2>1, StepOf DEF MigrationInv
  <2> QED
    BY <2>1, <2>2, <2>3, RunMoves
<1>8. ASSUME NEW r \in Runner, UnlockRun(r) \/ LoseRun(r) PROVE MigrationInv'
  <2>1. ReleaseLock(r) /\ applied' = applied
    BY <1>8 DEF UnlockRun, LoseRun
  <2> QED
    BY <2>1, Released
<1> QED
  BY <1>1, <1>2, <1>3, <1>4, <1>5, <1>6, <1>7, <1>8 DEF MigrationNext

\* The empty table begins every release.
LEMMA MigrationStarts ==
    ASSUME MigrationAssumption, MigrationInit
    PROVE  MigrationInv
<1>1. applied \in Seq(Migrated) /\ run \in [Runner -> RunShape]
  BY EndedIs, EmptySeq DEF MigrationInit
<1>2. \A r \in Runner : run[r].step = "ended"
  BY EndedIs DEF MigrationInit
<1>3. AppliedInOrder
  <2>1. PICK g \in Releases : TRUE
    BY DEF MigrationAssumption
  <2>2. g \in Seq(Migrated)
    BY ReleasesAre
  <2>3. <<>> \in Seq(Migrated) /\ Len(<<>>) = 0 /\ Len(g) \in Nat
    BY <2>2, EmptySeq, LenProperties
  <2>4. IsPrefix(<<>>, g)
    <3>1. PICK e \in Seq(Migrated) : e = <<>> /\ Len(e) = 0
      BY <2>3
    <3>2. Len(e) <= Len(g) /\ \A i \in 1..Len(e) : e[i] = g[i]
      BY <2>3, <3>1
    <3>3. IsPrefix(e, g)
      BY <2>2, <3>2, PrefixIs
    <3> QED
      BY <3>1, <3>3
  <2> QED
    BY <2>4 DEF AppliedInOrder, MigrationInit
<1> QED
  BY <1>1, <1>2, <1>3 DEF MigrationInv

\* What the migration table names is the beginning of some release, with each
\* name once, whatever runs overlap, fail in a file or die (migrate.ts: the
\* advisory lock, assertMigrationOrder, one transaction for the batch).
THEOREM AppliedIsAPrefix == MigrationSpec => []AppliedInOrder
<1>1. MigrationInit => MigrationInv
  BY MigrationAssumption, MigrationStarts
<1>2. MigrationInv /\ [MigrationNext]_nvars => MigrationInv'
  BY MigrationAssumption, MigrationKeeps
<1>3. MigrationInv => AppliedInOrder
  BY DEF MigrationInv
<1> QED
  BY <1>1, <1>2, <1>3, PTL DEF MigrationSpec

-----------------------------------------------------------------------------
(* Caches. A cache has an address once, so that its length is the number of *)
(* its addresses. Where it is over its limit and no trim has failed, a       *)
(* worker has yet to list its keys, or to delete enough of them (Trimmed).  *)
(* A page of an earlier session is there only while the clearing is to come. *)

Distinct(s) == \A i, j \in 1..Len(s) : s[i].url = s[j].url => i = j

Addresses(s) == {s[i].url : i \in 1..Len(s)}

\* One more entry, of an address that is not there.
LEMMA OneMore ==
    ASSUME NEW S, NEW s \in Seq(S), NEW e \in S
    PROVE  /\ Append(s, e) \in Seq(S)
           /\ \A x : x \in ToSet(Append(s, e)) <=> x \in ToSet(s) \/ x = e
           /\ Distinct(s) /\ (\A x \in ToSet(s) : x.url # e.url) => Distinct(Append(s, e))
<1>1. PICK n \in Nat : n = Len(s)
  BY LenProperties
<1>2. PICK t : t = Append(s, e)
  OBVIOUS
<1>3. /\ t \in Seq(S) /\ Len(t) = n + 1 /\ t[n + 1] = e
      /\ \A i \in 1..n : t[i] = s[i]
  BY <1>1, <1>2, AppendProperties
<1>4. \A i : i \in 1..(n + 1) <=> i \in 1..n \/ i = n + 1
  BY <1>1
<1>5. \A x : x \in ToSet(t) <=> x \in ToSet(s) \/ x = e
  <2>1. \A x : x \in ToSet(s) <=> \E i \in 1..n : s[i] = x
    BY <1>1, SetOf
  <2>2. \A x : x \in ToSet(t) <=> \E i \in 1..(n + 1) : t[i] = x
    BY <1>3, SetOf
  <2> QED
    BY <1>3, <1>4, <2>1, <2>2
<1>6. ASSUME Distinct(s), \A x \in ToSet(s) : x.url # e.url PROVE Distinct(t)
  <2>1. \A i \in 1..n : t[i].url # e.url
    BY <1>1, <1>3, <1>6, SetOf
  <2>2. \A i, j \in 1..n : t[i].url = t[j].url => i = j
    BY <1>1, <1>3, <1>6 DEF Distinct
  <2>3. \A i, j \in 1..(n + 1) : t[i].url = t[j].url => i = j
    BY <1>3, <1>4, <2>1, <2>2
  <2> QED
    BY <1>3, <2>3 DEF Distinct
<1> QED
  BY <1>2, <1>3, <1>5, <1>6

\* What is left of a list without some of it.
LEMMA WithoutKeeps ==
    ASSUME NEW S, NEW list \in Seq(S), NEW out
    PROVE  /\ Without(list, out) \in Seq(S)
           /\ \A x : x \in ToSet(Without(list, out)) <=> x \in ToSet(list) /\ x \notin out
           /\ Distinct(list) => Distinct(Without(list, out))
<1>0. PICK l \in Nat : l = Len(list)
  BY LenProperties
<1>1. PICK F : KeptStep(F, list, out) /\ Without(list, out) = F[l]
  BY <1>0, WithoutIs
<1> DEFINE Keeps(n) ==
      /\ F[n] \in Seq(S)
      /\ \A x : x \in ToSet(F[n]) <=> x \notin out /\ \E i \in 1..n : list[i] = x
      /\ Distinct(list) => Distinct(F[n])
           Bad == {n \in 0..l : ~ Keeps(n)}
<1>2. ASSUME Bad # {} PROVE FALSE
  <2>1. PICK n \in Bad : \A j \in Bad : n <= j
    <3>1. Bad \in SUBSET Nat
      OBVIOUS
    <3> HIDE DEF Bad
    <3> QED
      BY <1>2, <3>1, Least
  <2>2. n \in 0..l /\ ~ Keeps(n)
    BY <2>1
  <2>3. F[n] = IF n = 0 THEN <<>>
               ELSE IF list[n] \in out THEN F[n - 1]
               ELSE Append(F[n - 1], list[n])
    BY <1>0, <1>1, <2>2 DEF KeptStep
  <2>4. n # 0
    <3>1. ASSUME n = 0 PROVE Keeps(0)
      <4>1. F[0] = <<>> /\ 1..0 = {}
        BY <2>3, <3>1
      <4>2. <<>> \in Seq(S) /\ ToSet(<<>>) = {} /\ Distinct(<<>>)
        BY DEF ToSet, Distinct
      <4> QED
        BY <4>1, <4>2
    <3> QED
      BY <2>2, <3>1
  <2>5. n \in Nat /\ n - 1 \in 0..l /\ ~(n <= n - 1) /\ n \in 1..Len(list)
    BY <1>0, <2>2, <2>4
  <2>6. Keeps(n - 1)
    <3>1. n - 1 \notin Bad
      <4> HIDE DEF Bad
      <4> QED
        BY <2>1, <2>5
    <3> HIDE DEF Keeps
    <3> QED
      BY <2>5, <3>1
  <2>7. list[n] \in S
    BY <2>5, ElementOfSeq
  <2>8. \A i : i \in 1..n <=> i \in 1..(n - 1) \/ i = n
    BY <2>5
  <2>9. CASE list[n] \in out
    <3>1. F[n] = F[n - 1]
      BY <2>3, <2>4, <2>9
    <3>2. \A x : x \notin out =>
            ((\E i \in 1..n : list[i] = x) <=> \E i \in 1..(n - 1) : list[i] = x)
      BY <2>8, <2>9
    <3>3. Keeps(n)
      BY <2>6, <3>1, <3>2
    <3> QED
      BY <2>2, <3>3
  <2>10. CASE list[n] \notin out
    <3>1. F[n] = Append(F[n - 1], list[n])
      BY <2>3, <2>4, <2>10
    <3>2. PICK f : f = F[n - 1]
      OBVIOUS
    <3>3. /\ F[n] \in Seq(S)
          /\ \A x : x \in ToSet(F[n]) <=> x \in ToSet(f) \/ x = list[n]
          /\ Distinct(f) /\ (\A x \in ToSet(f) : x.url # list[n].url) => Distinct(F[n])
      BY <2>6, <2>7, <3>1, <3>2, OneMore
    <3>4. ASSUME Distinct(list) PROVE \A x \in ToSet(f) : x.url # list[n].url
      <4> SUFFICES ASSUME NEW x \in ToSet(f) PROVE x.url # list[n].url
        OBVIOUS
      <4>1. PICK i \in 1..(n - 1) : list[i] = x
        BY <2>6, <3>2
      <4>2. i \in 1..Len(list) /\ i # n
        BY <1>0, <2>5
      <4> QED
        BY <2>5, <3>4, <4>1, <4>2 DEF Distinct
    <3>5. \A x : (\E i \in 1..n : list[i] = x)
                   <=> (\E i \in 1..(n - 1) : list[i] = x) \/ x = list[n]
      BY <2>8
    <3>6. \A x : x \in ToSet(F[n]) <=> x \notin out /\ \E i \in 1..n : list[i] = x
      BY <2>6, <2>10, <3>2, <3>3, <3>5
    <3>7. Keeps(n)
      BY <2>6, <3>2, <3>3, <3>4, <3>6
    <3> QED
      BY <2>2, <3>7
  <2> QED
    BY <2>9, <2>10
<1>3. Keeps(l)
  <2>1. l \in 0..l /\ l \notin Bad
    BY <1>0, <1>2
  <2> HIDE DEF Keeps
  <2> QED
    BY <2>1
<1>4. \A x : x \in ToSet(list) <=> \E i \in 1..l : list[i] = x
  BY <1>0, SetOf
<1> QED
  BY <1>1, <1>3, <1>4

\* The first so many entries have as many addresses.
LEMMA AsManyAddresses ==
    ASSUME NEW S, NEW s \in Seq(S), Distinct(s), NEW n \in 0..Len(s)
    PROVE  /\ IsFiniteSet({s[i].url : i \in 1..n})
           /\ Cardinality({s[i].url : i \in 1..n}) = n
<1>1. n \in Nat /\ \A i \in 1..n : i \in 1..Len(s)
  BY LenProperties
<1>2. PICK f : f = [i \in 1..n |-> s[i].url]
  OBVIOUS
<1>3. PICK T : T = {s[i].url : i \in 1..n}
  OBVIOUS
<1>4. f \in Bijection(1..n, T)
  <2>1. f \in [1..n -> T]
    BY <1>2, <1>3
  <2>2. \A i, j \in 1..n : f[i] = f[j] => i = j
    BY <1>1, <1>2 DEF Distinct
  <2>3. \A u \in T : \E i \in 1..n : f[i] = u
    BY <1>2, <1>3
  <2> QED
    BY <2>1, <2>2, <2>3 DEF Bijection, Injection, Surjection, IsInjective
<1>5. ExistsBijection(1..n, T)
  BY <1>4 DEF ExistsBijection
<1> QED
  BY <1>1, <1>3, <1>5, FS_NatBijection, FS_CountingElements

\* So a cache is as long as its addresses are many, and without those of its
\* first entries that much shorter.
LEMMA AddressesCount ==
    ASSUME NEW S, NEW s \in Seq(S), Distinct(s)
    PROVE  /\ IsFiniteSet(Addresses(s)) /\ Cardinality(Addresses(s)) = Len(s)
           /\ \A n \in 0..Len(s) :
                Cardinality(Addresses(s) \ {s[i].url : i \in 1..n}) = Len(s) - n
<1>1. PICK l \in Nat : l = Len(s)
  BY LenProperties
<1>2. IsFiniteSet(Addresses(s)) /\ Cardinality(Addresses(s)) = Len(s)
  <2>1. l \in 0..Len(s)
    BY <1>1
  <2> QED
    BY <1>1, <2>1, AsManyAddresses DEF Addresses
<1>3. ASSUME NEW n \in 0..Len(s)
      PROVE  Cardinality(Addresses(s) \ {s[i].url : i \in 1..n}) = Len(s) - n
  <2>1. PICK T : T = {s[i].url : i \in 1..n}
    OBVIOUS
  <2>2. IsFiniteSet(T) /\ Cardinality(T) = n
    BY <2>1, AsManyAddresses
  <2>3. Addresses(s) \cap T = T
    BY <1>1, <2>1 DEF Addresses
  <2>4. Cardinality(Addresses(s) \ T) = Cardinality(Addresses(s)) - Cardinality(T)
    BY <1>2, <2>3, FS_Difference
  <2> QED
    BY <1>2, <2>1, <2>2, <2>4
<1> QED
  BY <1>2, <1>3

\* One list behind the other.
LEMMA Joined ==
    ASSUME NEW S, NEW s \in Seq(S), NEW t \in Seq(S), Distinct(s), Distinct(t),
           \A x \in ToSet(s), y \in ToSet(t) : x.url # y.url
    PROVE  /\ s \o t \in Seq(S) /\ Distinct(s \o t)
           /\ \A x : x \in ToSet(s \o t) => x \in ToSet(s) \/ x \in ToSet(t)
<1>1. PICK m \in Nat, n \in Nat : m = Len(s) /\ n = Len(t)
  BY LenProperties
<1>2. PICK u : u = s \o t
  OBVIOUS
<1>3. /\ u \in Seq(S) /\ Len(u) = m + n
      /\ \A i \in 1..(m + n) : u[i] = IF i <= m THEN s[i] ELSE t[i - m]
  BY <1>1, <1>2, ConcatProperties
<1>4. ASSUME NEW i \in 1..(m + n)
      PROVE  \/ i \in 1..m /\ u[i] = s[i] /\ u[i] \in ToSet(s)
             \/ i - m \in 1..n /\ u[i] = t[i - m] /\ u[i] \in ToSet(t)
  <2>1. CASE i <= m
    <3>1. i \in 1..m /\ u[i] = s[i]
      BY <1>1, <1>3, <2>1
    <3> QED
      BY <1>1, <3>1, SetOf
  <2>2. CASE ~(i <= m)
    <3>1. i - m \in 1..n /\ u[i] = t[i - m]
      BY <1>1, <1>3, <2>2
    <3> QED
      BY <1>1, <3>1, SetOf
  <2> QED
    BY <2>1, <2>2
<1>5. ASSUME NEW i \in 1..(m + n), NEW j \in 1..(m + n), u[i].url = u[j].url PROVE i = j
  <2>1. CASE i \in 1..m /\ u[i] = s[i] /\ u[i] \in ToSet(s)
    <3>1. j \in 1..m /\ u[j] = s[j]
      BY <1>4, <1>5, <2>1
    <3> QED
      BY <1>1, <1>5, <2>1, <3>1 DEF Distinct
  <2>2. CASE i - m \in 1..n /\ u[i] = t[i - m] /\ u[i] \in ToSet(t)
    <3>1. j - m \in 1..n /\ u[j] = t[j - m]
      BY <1>4, <1>5, <2>2
    <3>2. i - m = j - m
      BY <1>1, <1>5, <2>2, <3>1 DEF Distinct
    <3> QED
      BY <1>1, <3>2
  <2> QED
    BY <1>4, <2>1, <2>2
<1>6. \A x : x \in ToSet(u) => x \in ToSet(s) \/ x \in ToSet(t)
  BY <1>3, <1>4, SetOf
<1> QED
  BY <1>2, <1>3, <1>5, <1>6 DEF Distinct

\* A finite set in a row.
LEMMA Listed ==
    ASSUME NEW S, NEW T \in SUBSET S, IsFiniteSet(T)
    PROVE  /\ SetToSeq(T) \in Seq(S) /\ \A x \in ToSet(SetToSeq(T)) : x \in T
           /\ (\A x, y \in T : x.url = y.url => x = y) => Distinct(SetToSeq(T))
<1>1. PICK c \in Nat : c = Cardinality(T) /\ ExistsBijection(1..c, T)
  BY FS_CardinalityType
<1>2. PICK g : g \in Bijection(1..c, T)
  BY <1>1 DEF ExistsBijection
<1>3. g \in [1..c -> T] /\ IsInjective(g)
  BY <1>2 DEF Bijection, Injection
<1>4. PICK f : f = SetToSeq(T)
  OBVIOUS
<1>5. f \in [1..c -> T] /\ IsInjective(f)
  BY <1>1, <1>3, <1>4 DEF SetToSeq
<1>6. f \in Seq(S) /\ Len(f) = c /\ DOMAIN f = 1..c
  BY <1>5
<1>7. \A i \in 1..c : f[i] \in T
  BY <1>5
<1>8. \A x \in ToSet(f) : x \in T
  BY <1>6, <1>7 DEF ToSet
<1>9. (\A x, y \in T : x.url = y.url => x = y) => Distinct(f)
  BY <1>5, <1>6, <1>7 DEF Distinct, IsInjective
<1> QED
  BY <1>4, <1>6, <1>8, <1>9
-----------------------------------------------------------------------------
(* The workers. *)

Address == WebPage \cup Asset \cup {"offline"}

EntryShape == [url : Address, session : Nat, late : BOOLEAN]

WorkShape == [step : {"idle", "fetching", "trimming", "deleting"},
              kind : {"static", "pages"}, version : 0..MaxVersion,
              urls : SUBSET Address, session : Nat, keys : Seq(Address)]

CacheKinds ==
    /\ caches \in [CacheKind -> [WorkerVersion -> Seq(EntryShape)]]
    /\ active \in 0..MaxVersion /\ installing \in 0..MaxVersion
    /\ work \in [Load -> WorkShape] /\ session \in Nat /\ session # 0
    /\ "worker" \in clearing => active # 0

\* What a worker is at is of one of its versions, and pages are of a session.
AtWork ==
    \A l \in Load : work[l].step # "idle" =>
        /\ work[l].version # 0 /\ IsFiniteSet(work[l].urls)
        /\ work[l].kind = "pages" => work[l].session # 0
        /\ work[l].step = "deleting" => work[l].keys # <<>>

Unmixed == \A k \in CacheKind, v \in WorkerVersion : Distinct(caches[k][v])

On(l, k, v) == work[l].kind = k /\ work[l].version = v

Leaving(l) == ToSet(work[l].keys)

\* A worker will see to it that these entries are few enough.
Trims(l, entries) ==
    \/ work[l].step = "trimming"
    \/ /\ work[l].step = "deleting"
       /\ Cardinality(Addresses(entries) \ Leaving(l)) <= Limit(work[l].kind)

Trimmed ==
    \A k \in {"static", "pages"}, v \in WorkerVersion :
        \/ Len(caches[k][v]) <= Limit(k)
        \/ <<k, v>> \in untrimmed
        \/ \E l \in Load : On(l, k, v) /\ Trims(l, caches[k][v])

Signed ==
    \A v \in WorkerVersion : \A e \in ToSet(caches["pages"][v]) :
        e.session = session \/ e.late \/ "page" \in clearing

CacheInv == CacheKinds /\ AtWork /\ Unmixed /\ Trimmed /\ Signed

\* A limit is a number.
LEMMA LimitIs ==
    ASSUME CacheAssumption
    PROVE  \A k \in {"static", "pages"} : Limit(k) \in Nat
BY DEF Limit, CacheAssumption

\* Caches that are left as they are or emptied, the one of a worker that is
\* being installed apart.
LEMMA CachesGo ==
    ASSUME CacheAssumption, CacheInv, work' = work, session' = session,
           untrimmed' = untrimmed,
           caches' \in [CacheKind -> [WorkerVersion -> Seq(EntryShape)]],
           \A k \in CacheKind, v \in WorkerVersion :
               \/ caches'[k][v] = caches[k][v]
               \/ caches'[k][v] = <<>>
               \/ k = "precache" /\ Len(caches'[k][v]) = 1,
           \/ clearing' = clearing
           \/ "page" \in clearing'
           \/ "page" \notin clearing
           \/ \A v \in WorkerVersion : caches'["pages"][v] = <<>>
    PROVE  AtWork' /\ Unmixed' /\ Trimmed' /\ Signed'
<1>0. Len(<<>>) = 0 /\ 1..0 = {} /\ ToSet(<<>>) = {}
  BY DEF ToSet
<1>1. AtWork'
  BY DEF CacheInv, AtWork
<1>2. Unmixed'
  <2> SUFFICES ASSUME NEW k \in CacheKind, NEW v \in WorkerVersion
               PROVE  Distinct(caches'[k][v])
    BY DEF Unmixed
  <2>1. CASE caches'[k][v] = caches[k][v]
    BY <2>1 DEF CacheInv, Unmixed
  <2>2. CASE caches'[k][v] = <<>>
    BY <1>0, <2>2 DEF Distinct
  <2>3. CASE Len(caches'[k][v]) = 1
    BY <2>3 DEF Distinct
  <2> QED
    BY <2>1, <2>2, <2>3
<1>3. Trimmed'
  <2>1. ASSUME NEW k \in {"static", "pages"}, NEW v \in WorkerVersion
        PROVE  \/ Len(caches'[k][v]) <= Limit(k)
               \/ <<k, v>> \in untrimmed
               \/ \E l \in Load : On(l, k, v)' /\ Trims(l, caches[k][v])'
    <3>0. k \in CacheKind /\ k # "precache" /\ Limit(k) \in Nat
      BY LimitIs DEF CacheKind
    <3>1. CASE caches'[k][v] = <<>>
      BY <1>0, <3>0, <3>1
    <3>2. CASE caches'[k][v] = caches[k][v]
      <4>1. \A l \in Load : On(l, k, v)' <=> On(l, k, v)
        BY DEF On
      <4>2. \A l \in Load : Trims(l, caches[k][v])' <=> Trims(l, caches[k][v])
        BY <3>2 DEF Trims, Leaving, Limit
      <4> QED
        BY <3>2, <4>1, <4>2 DEF CacheInv, Trimmed
    <3> QED
      BY <3>0, <3>1, <3>2
  <2> QED
    BY <2>1 DEF Trimmed, Limit
<1>4. Signed'
  <2> SUFFICES ASSUME NEW v \in WorkerVersion, NEW e \in ToSet(caches'["pages"][v])
               PROVE  e.session = session \/ e.late \/ "page" \in clearing'
    BY DEF Signed
  <2>1. caches'["pages"][v] = caches["pages"][v]
    BY <1>0 DEF CacheKind
  <2>2. ~(\A w \in WorkerVersion : caches'["pages"][w] = <<>>)
    BY <1>0
  <2> QED
    BY <2>1, <2>2 DEF CacheInv, Signed
<1> QED
  BY <1>1, <1>2, <1>3, <1>4

\* A worker that neither was nor will be trimming goes on.
LEMMA WorkerMoves ==
    ASSUME CacheInv, NEW l \in Load, NEW x \in WorkShape,
           work[l].step \in {"idle", "fetching"}, work' = [work EXCEPT ![l] = x],
           x.step # "idle" => x.version # 0 /\ IsFiniteSet(x.urls)
                              /\ (x.kind = "pages" => x.session # 0)
                              /\ x.step # "deleting",
           untrimmed' = untrimmed,
           caches' = caches, active' = active, installing' = installing,
           session' = session, clearing' = clearing
    PROVE  CacheInv'
<1>1. /\ work' \in [Load -> WorkShape] /\ work'[l] = x
      /\ \A m \in Load : m # l => work'[m] = work[m]
  BY DEF CacheInv, CacheKinds
<1>2. CacheKinds' /\ Unmixed' /\ Signed'
  BY <1>1 DEF CacheInv, CacheKinds, Unmixed, Signed
<1>3. AtWork'
  BY <1>1 DEF CacheInv, AtWork
<1>4. Trimmed'
  <2>1. ASSUME NEW k \in {"static", "pages"}, NEW v \in WorkerVersion,
               ~(Len(caches[k][v]) <= Limit(k)), <<k, v>> \notin untrimmed
        PROVE  \E m \in Load : On(m, k, v)' /\ Trims(m, caches[k][v])'
    <3>1. PICK m \in Load : On(m, k, v) /\ Trims(m, caches[k][v])
      BY <2>1 DEF CacheInv, Trimmed
    <3>2. m # l
      BY <3>1 DEF Trims
    <3>3. work'[m] = work[m]
      BY <1>1, <3>2
    <3>4. On(m, k, v)'
      BY <3>1, <3>3 DEF On
    <3>5. Trims(m, caches[k][v])'
      BY <3>1, <3>3 DEF Trims, Leaving, Limit
    <3> QED
      BY <3>4, <3>5
  <2> QED
    BY <2>1 DEF Trimmed, Limit
<1> QED
  BY <1>2, <1>3, <1>4 DEF CacheInv

\* A worker replaces the entries of the cache it is on.
LEMMA CacheReplaced ==
    ASSUME CacheInv, NEW l \in Load, work[l].step # "idle", NEW c \in Seq(EntryShape),
           caches' = [caches EXCEPT ![work[l].kind][work[l].version] = c]
    PROVE  /\ work[l].kind \in CacheKind /\ work[l].version \in WorkerVersion
           /\ caches' \in [CacheKind -> [WorkerVersion -> Seq(EntryShape)]]
           /\ caches'[work[l].kind][work[l].version] = c
           /\ \A k \in CacheKind, v \in WorkerVersion :
                ~ On(l, k, v) => caches'[k][v] = caches[k][v]
<1>1. /\ work[l].kind \in {"static", "pages"} /\ work[l].version \in 0..MaxVersion
      /\ work[l].version # 0
  BY DEF CacheInv, CacheKinds, AtWork, WorkShape
<1>2. PICK k \in CacheKind, v \in WorkerVersion : k = work[l].kind /\ v = work[l].version
  <2>1. work[l].kind \in CacheKind
    BY <1>1 DEF CacheKind
  <2>2. work[l].version \in WorkerVersion
    BY <1>1 DEF WorkerVersion
  <2> QED
    BY <2>1, <2>2
<1>3. caches \in [CacheKind -> [WorkerVersion -> Seq(EntryShape)]]
  BY DEF CacheInv, CacheKinds
<1>4. caches' = [caches EXCEPT ![k] = [caches[k] EXCEPT ![v] = c]]
  BY <1>2, <1>3
<1>5. [caches[k] EXCEPT ![v] = c] \in [WorkerVersion -> Seq(EntryShape)]
  BY <1>3
<1>6. caches' \in [CacheKind -> [WorkerVersion -> Seq(EntryShape)]]
  BY <1>3, <1>4, <1>5
<1>7. caches'[k][v] = c
  BY <1>3, <1>4
<1>8. \A j \in CacheKind, w \in WorkerVersion :
        ~(j = k /\ w = v) => caches'[j][w] = caches[j][w]
  BY <1>3, <1>4
<1> QED
  BY <1>2, <1>6, <1>7, <1>8 DEF On
\* A worker at rest is one.
LEMMA RestingIs ==
    Resting \in WorkShape /\ Resting.step = "idle"
<1>1. <<>> \in Seq(Address)
  BY EmptySeq
<1>2. 0 \in 0..MaxVersion
  BY CacheAssumption
<1> QED
  BY <1>1, <1>2 DEF Resting, WorkShape

\* A request comes to the worker in charge.
LEMMA BeginLoadKeeps ==
    ASSUME CacheInv, NEW l \in Load, NEW kind \in {"static", "pages"},
           NEW urls \in SUBSET Address, IsFiniteSet(urls), BeginLoad(l, kind, urls)
    PROVE  CacheInv'
<1>1. PICK s : s = IF kind = "pages" THEN session ELSE 0
  OBVIOUS
<1>2. s \in Nat /\ (kind = "pages" => s # 0)
  BY <1>1 DEF CacheInv, CacheKinds
<1>3. active \in 0..MaxVersion /\ active # 0
  BY DEF CacheInv, CacheKinds, BeginLoad
<1>4. PICK x : x = [step |-> "fetching", kind |-> kind, version |-> active, urls |-> urls,
                    keys |-> <<>>, session |-> s]
  OBVIOUS
<1>5. <<>> \in Seq(Address)
  BY EmptySeq
<1>6. /\ x \in WorkShape /\ x.step = "fetching" /\ x.version = active /\ x.urls = urls
      /\ x.kind = kind /\ x.session = s
  BY <1>2, <1>3, <1>4, <1>5 DEF WorkShape
<1>7. /\ work[l].step = "idle" /\ work' = [work EXCEPT ![l] = x]
      /\ caches' = caches /\ active' = active /\ installing' = installing
      /\ session' = session /\ clearing' = clearing /\ untrimmed' = untrimmed
  BY <1>1, <1>4 DEF BeginLoad
<1> QED
  BY <1>2, <1>3, <1>6, <1>7, WorkerMoves

\* A store adds entries, and its worker is about to trim.
LEMMA StoreKeeps ==
    ASSUME CacheInv, NEW l \in Load, Store(l)
    PROVE  CacheInv'
<1>1. /\ work[l] \in WorkShape /\ work[l].step = "fetching" /\ work[l].version # 0
      /\ IsFiniteSet(work[l].urls) /\ (work[l].kind = "pages" => work[l].session # 0)
  BY DEF CacheInv, CacheKinds, AtWork, Store
<1>2. PICK k \in {"static", "pages"}, v \in WorkerVersion :
        k = work[l].kind /\ v = work[l].version
  <2>1. work[l].kind \in {"static", "pages"} /\ work[l].version \in WorkerVersion
    BY <1>1 DEF WorkShape, WorkerVersion
  <2> QED
    BY <2>1
<1>3. k \in CacheKind
  BY DEF CacheKind
<1>4. PICK old : old = caches[k][v]
  OBVIOUS
<1>5. old \in Seq(EntryShape) /\ Distinct(old)
  BY <1>3, <1>4 DEF CacheInv, CacheKinds, Unmixed
<1>6. PICK urls, s : urls = work[l].urls /\ s = work[l].session
  OBVIOUS
<1>7. urls \in SUBSET Address /\ IsFiniteSet(urls) /\ s \in Nat
  BY <1>1, <1>6 DEF WorkShape
<1>8. PICK late \in BOOLEAN : late = (s \notin {0, session})
  OBVIOUS
<1>9. PICK T : T = {[url |-> u, session |-> s, late |-> late] : u \in urls}
  OBVIOUS
<1>10. /\ T \in SUBSET EntryShape /\ \A x, y \in T : x.url = y.url => x = y
       /\ \A x \in T : x.url \in urls /\ x.session = s /\ x.late = late
  BY <1>7, <1>9 DEF EntryShape
<1>11. IsFiniteSet(T)
  <2>1. PICK f : f = [x \in T |-> x.url]
    OBVIOUS
  <2>2. f \in [T -> urls] /\ \A x, y \in T : f[x] = f[y] => x = y
    BY <1>10, <2>1
  <2>3. f \in Injection(T, urls)
    BY <2>2 DEF Injection, IsInjective
  <2> QED
    BY <1>7, <2>3, FS_Injection
<1>12. PICK a, b : a = Keeping(old, urls) /\ b = SetToSeq(T)
  OBVIOUS
<1>13. /\ a \in Seq(EntryShape) /\ Distinct(a)
       /\ \A x \in ToSet(a) : x \in ToSet(old) /\ x.url \notin urls
  BY <1>5, <1>12, WithoutKeeps DEF Keeping
<1>14. /\ b \in Seq(EntryShape) /\ Distinct(b) /\ \A x \in ToSet(b) : x \in T
  BY <1>10, <1>11, <1>12, Listed
<1>15. \A x \in ToSet(a), y \in ToSet(b) : x.url # y.url
  BY <1>10, <1>13, <1>14
<1>16. PICK c \in Seq(EntryShape) : c = a \o b
  BY <1>13, <1>14, <1>15, Joined
<1>17. Distinct(c) /\ \A x \in ToSet(c) : x \in ToSet(a) \/ x \in ToSet(b)
  BY <1>13, <1>14, <1>15, <1>16, Joined
<1>18. caches' = [caches EXCEPT ![work[l].kind][work[l].version] = c]
  <2>1. Stored(l, old) = c
    BY <1>6, <1>8, <1>9, <1>12, <1>16 DEF Stored
  <2> QED
    BY <1>2, <1>4, <2>1 DEF Store
<1>19. /\ caches' \in [CacheKind -> [WorkerVersion -> Seq(EntryShape)]]
       /\ caches'[k][v] = c
       /\ \A j \in CacheKind, w \in WorkerVersion :
            ~(j = k /\ w = v) => caches'[j][w] = caches[j][w]
  <2>1. work[l].step # "idle"
    BY <1>1
  <2>2. /\ caches' \in [CacheKind -> [WorkerVersion -> Seq(EntryShape)]]
        /\ caches'[work[l].kind][work[l].version] = c
        /\ \A j \in CacheKind, w \in WorkerVersion :
             ~ On(l, j, w) => caches'[j][w] = caches[j][w]
    BY <1>16, <1>18, <2>1, CacheReplaced
  <2> QED
    BY <1>2, <2>2 DEF On
<1>20. PICK x \in WorkShape :
         /\ work' = [work EXCEPT ![l] = x] /\ x.step = "trimming"
         /\ x.kind = k /\ x.version = v /\ x.urls = {} /\ x.session = s
  <2>1. PICK x : x = [work[l] EXCEPT !.step = "trimming", !.urls = {}]
    OBVIOUS
  <2>2. /\ x \in WorkShape /\ x.step = "trimming" /\ x.kind = work[l].kind
        /\ x.version = work[l].version /\ x.urls = {}
        /\ x.session = work[l].session
    BY <1>1, <2>1 DEF WorkShape
  <2>3. work' = [work EXCEPT ![l] = x]
    BY <2>1 DEF Store
  <2> QED
    BY <1>2, <1>6, <2>2, <2>3
<1>21. /\ work' \in [Load -> WorkShape] /\ work'[l] = x
       /\ \A m \in Load : m # l => work'[m] = work[m]
  BY <1>20 DEF CacheInv, CacheKinds
<1>22. /\ active' = active /\ installing' = installing /\ session' = session
       /\ clearing' = clearing /\ untrimmed' = untrimmed
  BY DEF Store
<1>23. CacheKinds'
  BY <1>19, <1>21, <1>22 DEF CacheInv, CacheKinds
<1>24. AtWork'
  BY <1>1, <1>2, <1>6, <1>20, <1>21, FS_EmptySet DEF CacheInv, AtWork
<1>25. Unmixed'
  BY <1>17, <1>19 DEF CacheInv, Unmixed
<1>26. Trimmed'
  <2>1. ASSUME NEW j \in {"static", "pages"}, NEW w \in WorkerVersion,
               ~(Len(caches'[j][w]) <= Limit(j)), <<j, w>> \notin untrimmed
        PROVE  \E m \in Load : On(m, j, w)' /\ Trims(m, caches[j][w])'
    <3>1. CASE j = k /\ w = v
      <4>1. On(l, j, w)' /\ Trims(l, caches[j][w])'
        BY <1>20, <1>21, <3>1 DEF On, Trims
      <4> QED
        BY <4>1
    <3>2. CASE ~(j = k /\ w = v)
      <4>1. caches'[j][w] = caches[j][w]
        BY <1>19, <3>2 DEF CacheKind
      <4>2. PICK m \in Load : On(m, j, w) /\ Trims(m, caches[j][w])
        BY <2>1, <4>1 DEF CacheInv, Trimmed
      <4>3. work'[m] = work[m]
        BY <1>1, <1>21, <4>2 DEF Trims
      <4>4. On(m, j, w)'
        BY <4>2, <4>3 DEF On
      <4>5. Trims(m, caches[j][w])'
        BY <4>1, <4>2, <4>3 DEF Trims, Leaving, Limit
      <4> QED
        BY <4>4, <4>5
    <3> QED
      BY <3>1, <3>2
  <2> QED
    BY <1>22, <2>1 DEF Trimmed, Limit
<1>27. Signed'
  <2> SUFFICES ASSUME NEW w \in WorkerVersion, NEW e \in ToSet(caches'["pages"][w])
               PROVE  e.session = session \/ e.late \/ "page" \in clearing
    BY <1>22 DEF Signed
  <2>0. "pages" \in CacheKind
    BY DEF CacheKind
  <2>1. CASE e \in ToSet(caches["pages"][w])
    BY <2>1 DEF CacheInv, Signed
  <2>2. CASE e \notin ToSet(caches["pages"][w])
    <3>1. "pages" = k /\ w = v /\ e \in ToSet(c)
      BY <1>19, <2>0, <2>2
    <3>2. e \in ToSet(a) => e \in ToSet(caches["pages"][w])
      BY <1>4, <1>13, <3>1
    <3>3. e \in T
      BY <1>14, <1>17, <2>2, <3>1, <3>2
    <3>4. e.session = s /\ e.late = late /\ s # 0
      BY <1>1, <1>2, <1>6, <1>10, <3>1, <3>3
    <3> QED
      BY <1>8, <3>4
  <2> QED
    BY <2>1, <2>2
<1> QED
  BY <1>23, <1>24, <1>25, <1>26, <1>27 DEF CacheInv
\* A worker lists the keys of its cache. Where they are too many, those it is
\* to delete are those beyond the limit.
LEMMA ListKeysKeeps ==
    ASSUME CacheAssumption, CacheInv, NEW l \in Load, ListKeys(l)
    PROVE  CacheInv'
<1>1. /\ work[l] \in WorkShape /\ work[l].step = "trimming" /\ work[l].version # 0
      /\ IsFiniteSet(work[l].urls) /\ (work[l].kind = "pages" => work[l].session # 0)
  BY DEF CacheInv, CacheKinds, AtWork, ListKeys
<1>2. PICK k \in {"static", "pages"}, v \in WorkerVersion :
        k = work[l].kind /\ v = work[l].version
  <2>1. work[l].kind \in {"static", "pages"} /\ work[l].version \in WorkerVersion
    BY <1>1 DEF WorkShape, WorkerVersion
  <2> QED
    BY <2>1
<1>3. k \in CacheKind
  BY DEF CacheKind
<1>4. PICK c : c = caches[k][v]
  OBVIOUS
<1>5. c \in Seq(EntryShape) /\ Distinct(c)
  BY <1>3, <1>4 DEF CacheInv, CacheKinds, Unmixed
<1>6. PICK n \in Nat, most \in Nat : n = Len(c) /\ most = Limit(k)
  BY <1>5, LenProperties, LimitIs
<1>7. PICK keys : keys = Urls(c)
  OBVIOUS
<1>8. keys \in Seq(Address) /\ Len(keys) = n /\ \A i \in 1..n : keys[i] = c[i].url
  <2>1. DOMAIN c = 1..n /\ \A i \in 1..n : c[i] \in EntryShape
    BY <1>5, <1>6, ElementOfSeq
  <2>2. \A i \in 1..n : c[i].url \in Address
    BY <2>1 DEF EntryShape
  <2>3. keys \in [1..n -> Address]
    BY <1>7, <2>1, <2>2 DEF Urls
  <2> QED
    BY <1>6, <1>7, <2>1, <2>3 DEF Urls
<1>17. ASSUME ~(n <= most)
       PROVE  LET out == SubSeq(keys, 1, n - most) IN
              /\ out \in Seq(Address) /\ out # <<>>
              /\ \A u : u \in ToSet(out) <=> \E i \in 1..(n - most) : c[i].url = u
  <2>1. PICK d \in 1..n : d = n - most
    <3>1. n - most \in 1..n
      BY <1>6, <1>17
    <3> QED
      BY <3>1
  <2>2. PICK out : out = SubSeq(keys, 1, d)
    OBVIOUS
  <2>3. \A i \in 1..d : i \in 1..n /\ 1 + i - 1 = i /\ keys[i] \in Address
    BY <1>6, <1>8, ElementOfSeq
  <2>4. out \in Seq(Address) /\ Len(out) = d /\ \A i \in 1..d : out[i] = keys[i]
    BY <2>2, <2>3, SubSeqProperties
  <2>5. \A i \in 1..d : out[i] = c[i].url
    BY <1>8, <2>3, <2>4
  <2>6. out # <<>>
    BY <2>4
  <2>7. \A u : u \in ToSet(out) <=> \E i \in 1..d : c[i].url = u
    BY <2>4, <2>5, SetOf
  <2> QED
    BY <2>1, <2>2, <2>4, <2>6, <2>7
<1>18. PICK out : out = SubSeq(keys, 1, n - most)
  OBVIOUS
<1>9. PICK x \in WorkShape :
        /\ work' = [work EXCEPT ![l] = x]
        /\ \/ n <= most /\ x = Resting
           \/ /\ ~(n <= most) /\ x.step = "deleting" /\ x.kind = k /\ x.version = v
              /\ x.urls = work[l].urls /\ x.session = work[l].session /\ x.keys = out
  <2>1. work' = [work EXCEPT ![l] = IF Excess(keys, most) > 0
                   THEN [work[l] EXCEPT !.step = "deleting", !.keys = out] ELSE Resting]
    BY <1>2, <1>4, <1>6, <1>7, <1>8, <1>18 DEF ListKeys, Excess
  <2>2. Excess(keys, most) > 0 <=> ~(n <= most)
    BY <1>6, <1>8 DEF Excess
  <2>3. PICK y : y = [work[l] EXCEPT !.step = "deleting", !.keys = out]
    OBVIOUS
  <2>4. ASSUME out \in Seq(Address)
        PROVE  /\ y \in WorkShape /\ y.step = "deleting" /\ y.kind = k /\ y.version = v
               /\ y.urls = work[l].urls /\ y.session = work[l].session /\ y.keys = out
    BY <1>1, <1>2, <2>3, <2>4 DEF WorkShape
  <2>5. CASE n <= most
    <3>1. work' = [work EXCEPT ![l] = Resting]
      BY <2>1, <2>2, <2>5
    <3> QED
      BY <2>5, <3>1, RestingIs
  <2>6. CASE ~(n <= most)
    <3>1. work' = [work EXCEPT ![l] = y]
      BY <2>1, <2>2, <2>3, <2>6
    <3> QED
      BY <1>17, <1>18, <2>4, <2>6, <3>1
  <2> QED
    BY <2>5, <2>6
<1>10. /\ work' \in [Load -> WorkShape] /\ work'[l] = x
       /\ \A m \in Load : m # l => work'[m] = work[m]
  BY <1>9 DEF CacheInv, CacheKinds
<1>11. /\ caches' = caches /\ active' = active /\ installing' = installing
       /\ session' = session /\ clearing' = clearing
       /\ untrimmed' = untrimmed \ {<<k, v>>}
  BY <1>2 DEF ListKeys
<1>12. CacheKinds' /\ Unmixed' /\ Signed'
  BY <1>10, <1>11 DEF CacheInv, CacheKinds, Unmixed, Signed
<1>13. AtWork'
  BY <1>1, <1>2, <1>9, <1>10, <1>17, <1>18, RestingIs DEF CacheInv, AtWork
<1>14. Trimmed'
  <2>1. ASSUME NEW j \in {"static", "pages"}, NEW w \in WorkerVersion,
               ~(Len(caches[j][w]) <= Limit(j)), <<j, w>> \notin untrimmed'
        PROVE  \E m \in Load : On(m, j, w)' /\ Trims(m, caches[j][w])'
    <3>2. CASE ~(j = k /\ w = v)
      <4>0. <<j, w>> \notin untrimmed
        BY <1>11, <2>1, <3>2
      <4>3. PICK m \in Load : On(m, j, w) /\ Trims(m, caches[j][w])
        BY <2>1, <4>0 DEF CacheInv, Trimmed
      <4>1. work'[m] = work[m]
        BY <1>2, <1>10, <3>2, <4>3 DEF On
      <4>2. On(m, j, w)'
        BY <4>1, <4>3 DEF On
      <4>4. Trims(m, caches[j][w])'
        BY <1>11, <4>1, <4>3 DEF Trims, Leaving, Limit
      <4> QED
        BY <4>2, <4>4
    <3>3. CASE j = k /\ w = v
      <4>1. j = k /\ w = v /\ ~(n <= most)
        BY <1>4, <1>6, <2>1, <3>3
      <4>2. /\ work'[l].step = "deleting" /\ work'[l].kind = k /\ work'[l].version = v
            /\ work'[l].keys = out
        BY <1>9, <1>10, <4>1
      <4>3. PICK d \in 0..n : d = n - most
        <5>1. n - most \in 0..n
          BY <1>6, <4>1
        <5> QED
          BY <5>1
      <4>4. Leaving(l)' = {c[i].url : i \in 1..d}
        BY <1>17, <1>18, <4>1, <4>2, <4>3 DEF Leaving
      <4>5. Cardinality(Addresses(c) \ {c[i].url : i \in 1..d}) = n - d
        BY <1>5, <1>6, <4>3, AddressesCount
      <4>6. n - d = most
        BY <1>6, <4>3
      <4>7. caches'[j][w] = c
        BY <1>4, <1>11, <4>1
      <4>8. Cardinality(Addresses(c) \ Leaving(l)') <= most
        <5>1. Addresses(c) \ Leaving(l)' = Addresses(c) \ {c[i].url : i \in 1..d}
          BY <4>4
        <5>2. Cardinality(Addresses(c) \ Leaving(l)') = n - d
          BY <4>5, <5>1
        <5> QED
          BY <1>6, <4>6, <5>2
      <4>9. Trims(l, caches[j][w])'
        BY <1>6, <4>2, <4>7, <4>8 DEF Trims, Limit, Addresses
      <4>10. On(l, j, w)'
        BY <4>1, <4>2 DEF On
      <4> QED
        BY <4>9, <4>10
    <3> QED
      BY <3>2, <3>3
  <2> QED
    BY <1>11, <2>1 DEF Trimmed, Limit
<1> QED
  BY <1>12, <1>13, <1>14 DEF CacheInv

\* A worker deletes the next of what it has listed. If it is the one to see to the
\* limit it has that much less to do, and with the last the cache is within it; if
\* it is another, that one has no more to do than before.
LEMMA DeleteOldestKeeps ==
    ASSUME CacheAssumption, CacheInv, NEW l \in Load, DeleteOldest(l)
    PROVE  CacheInv'
<1>1. /\ work[l] \in WorkShape /\ work[l].step = "deleting" /\ work[l].version # 0
  BY DEF CacheInv, CacheKinds, AtWork, DeleteOldest
<1>2. PICK k \in {"static", "pages"}, v \in WorkerVersion :
        k = work[l].kind /\ v = work[l].version
  <2>1. work[l].kind \in {"static", "pages"} /\ work[l].version \in WorkerVersion
    BY <1>1 DEF WorkShape, WorkerVersion
  <2> QED
    BY <2>1
<1>3. k \in CacheKind
  BY DEF CacheKind
<1>4. PICK old : old = caches[k][v]
  OBVIOUS
<1>5. old \in Seq(EntryShape) /\ Distinct(old)
  BY <1>3, <1>4 DEF CacheInv, CacheKinds, Unmixed
<1>19. work[l].keys \in Seq(Address) /\ work[l].keys # <<>>
  BY <1>1 DEF CacheInv, AtWork, DeleteOldest, WorkShape
<1>20. PICK keys, gone, rest : keys = work[l].keys /\ gone = Head(keys) /\ rest = Tail(keys)
  OBVIOUS
<1>21. /\ rest \in Seq(Address) /\ Len(keys) \in Nat /\ Len(keys) # 0
       /\ Len(rest) = Len(keys) - 1 /\ \A i \in 1..Len(rest) : rest[i] = keys[i + 1]
       /\ gone = keys[1] /\ keys \in Seq(Address)
  BY <1>19, <1>20, HeadTailProperties, LenProperties, EmptySeq
<1>22. \A u : u \in ToSet(keys) => u = gone \/ u \in ToSet(rest)
  <2> SUFFICES ASSUME NEW u \in ToSet(keys), u # gone PROVE u \in ToSet(rest)
    OBVIOUS
  <2>1. PICK i \in 1..Len(keys) : keys[i] = u
    BY <1>21, SetOf
  <2>2. PICK j \in 1..Len(rest) : j + 1 = i
    <3>1. i - 1 \in 1..Len(rest) /\ (i - 1) + 1 = i
      BY <1>21, <2>1
    <3> QED
      BY <3>1
  <2>3. rest[j] = u
    BY <1>21, <2>1, <2>2
  <2> QED
    BY <1>21, <2>3, SetOf
<1>6. PICK out : out = {gone}
  OBVIOUS
<1>7. PICK c : c = Keeping(old, out)
  OBVIOUS
<1>8. /\ c \in Seq(EntryShape) /\ Distinct(c)
      /\ \A x : x \in ToSet(c) <=> x \in ToSet(old) /\ x.url \notin out
  BY <1>5, <1>7, WithoutKeeps DEF Keeping
<1>9. Addresses(c) = Addresses(old) \ out
  <2>1. \A u : u \in Addresses(c) <=> \E x \in ToSet(c) : x.url = u
    BY <1>8, SetOf DEF Addresses
  <2>2. \A u : u \in Addresses(old) <=> \E x \in ToSet(old) : x.url = u
    BY <1>5, SetOf DEF Addresses
  <2> QED
    BY <1>8, <2>1, <2>2
<1>10. caches' = [caches EXCEPT ![work[l].kind][work[l].version] = c]
  BY <1>2, <1>4, <1>6, <1>7, <1>20 DEF DeleteOldest
<1>11. /\ caches' \in [CacheKind -> [WorkerVersion -> Seq(EntryShape)]]
       /\ caches'[k][v] = c
       /\ \A j \in CacheKind, w \in WorkerVersion :
            ~(j = k /\ w = v) => caches'[j][w] = caches[j][w]
  <2>1. work[l].step # "idle"
    BY <1>1
  <2>2. /\ caches' \in [CacheKind -> [WorkerVersion -> Seq(EntryShape)]]
        /\ caches'[work[l].kind][work[l].version] = c
        /\ \A j \in CacheKind, w \in WorkerVersion :
             ~ On(l, j, w) => caches'[j][w] = caches[j][w]
    BY <1>8, <1>10, <2>1, CacheReplaced
  <2> QED
    BY <1>2, <2>2 DEF On
<1>12. /\ active' = active /\ installing' = installing
       /\ session' = session /\ clearing' = clearing /\ untrimmed' = untrimmed
  BY DEF DeleteOldest
<1>23. PICK x \in WorkShape :
         /\ work' = [work EXCEPT ![l] = x]
         /\ \/ Len(keys) = 1 /\ x = Resting
            \/ /\ Len(keys) # 1 /\ x.step = "deleting" /\ x.kind = k /\ x.version = v
               /\ x.urls = work[l].urls /\ x.session = work[l].session /\ x.keys = rest
  <2>1. work' = [work EXCEPT ![l] = IF Len(keys) = 1 THEN Resting
                                    ELSE [work[l] EXCEPT !.keys = rest]]
    BY <1>20 DEF DeleteOldest
  <2>2. PICK y : y = [work[l] EXCEPT !.keys = rest]
    OBVIOUS
  <2>3. /\ y \in WorkShape /\ y.step = "deleting" /\ y.kind = k /\ y.version = v
        /\ y.urls = work[l].urls /\ y.session = work[l].session /\ y.keys = rest
    BY <1>1, <1>2, <1>21, <2>2 DEF WorkShape
  <2>4. CASE Len(keys) = 1
    <3>1. work' = [work EXCEPT ![l] = Resting]
      BY <2>1, <2>4
    <3> QED
      BY <2>4, <3>1, RestingIs
  <2>5. CASE Len(keys) # 1
    <3>1. work' = [work EXCEPT ![l] = y]
      BY <2>1, <2>2, <2>5
    <3> QED
      BY <2>3, <2>5, <3>1
  <2> QED
    BY <2>4, <2>5
<1>13. /\ work' \in [Load -> WorkShape] /\ work'[l] = x
       /\ \A m \in Load : m # l => work'[m] = work[m]
  BY <1>23 DEF CacheInv, CacheKinds
<1>24. rest # <<>> \/ Len(keys) = 1
  BY <1>21
<1>14. CacheKinds'
  BY <1>11, <1>12, <1>13 DEF CacheInv, CacheKinds
<1>15. AtWork'
  BY <1>1, <1>2, <1>13, <1>23, <1>24, RestingIs DEF CacheInv, AtWork
<1>16. Unmixed'
  BY <1>8, <1>11 DEF CacheInv, Unmixed
<1>17. Signed'
  <2> SUFFICES ASSUME NEW w \in WorkerVersion, NEW e \in ToSet(caches'["pages"][w])
               PROVE  e.session = session \/ e.late \/ "page" \in clearing
    BY <1>12 DEF Signed
  <2>1. e \in ToSet(caches["pages"][w])
    <3>1. "pages" \in CacheKind
      BY DEF CacheKind
    <3> QED
      BY <1>4, <1>8, <1>11, <3>1
  <2> QED
    BY <2>1 DEF CacheInv, Signed
<1>18. Trimmed'
  <2>1. ASSUME NEW j \in {"static", "pages"}, NEW w \in WorkerVersion,
               ~(Len(caches'[j][w]) <= Limit(j)), <<j, w>> \notin untrimmed
        PROVE  \E m \in Load : On(m, j, w)' /\ Trims(m, caches[j][w])'
    <3>0. j \in CacheKind /\ Limit(j) \in Nat
      BY LimitIs DEF CacheKind
    <3>1. CASE ~(j = k /\ w = v)
      <4>1. caches'[j][w] = caches[j][w]
        BY <1>11, <3>0, <3>1
      <4>2. PICK m \in Load : On(m, j, w) /\ Trims(m, caches[j][w])
        BY <2>1, <4>1 DEF CacheInv, Trimmed
      <4>3. work'[m] = work[m]
        BY <1>2, <1>13, <3>1, <4>2 DEF On
      <4>4. On(m, j, w)'
        BY <4>2, <4>3 DEF On
      <4>5. Trims(m, caches[j][w])'
        BY <4>1, <4>2, <4>3 DEF Trims, Leaving, Limit
      <4> QED
        BY <4>4, <4>5
    <3>2. CASE j = k /\ w = v
      <4>1. /\ Len(old) \in Nat /\ Len(c) \in Nat
            /\ IsFiniteSet(Addresses(old)) /\ Cardinality(Addresses(old)) = Len(old)
            /\ Cardinality(Addresses(c)) = Len(c)
        BY <1>5, <1>8, AddressesCount, LenProperties
      <4>2. caches'[j][w] = c /\ ~(Len(c) <= Limit(k))
        BY <1>11, <2>1, <3>2
      <4>3. Len(c) <= Len(old)
        BY <1>9, <4>1, FS_Subset
      <4>4. ~(Len(old) <= Limit(k))
        BY <3>0, <3>2, <4>1, <4>2, <4>3
      <4>5. PICK m \in Load : On(m, k, v) /\ Trims(m, old)
        BY <1>4, <2>1, <3>2, <4>4 DEF CacheInv, Trimmed
      <4>6. m = l => work'[m].step = "deleting" /\ work'[m].keys = rest
        <5>1. ASSUME m = l, Len(keys) = 1 PROVE FALSE
          <6>1. Cardinality(Addresses(old) \ ToSet(keys)) <= Limit(k)
            BY <1>1, <1>2, <1>20, <4>5, <5>1 DEF Trims, Leaving
          <6>2. \A u : u \notin ToSet(rest)
            <7>1. 1..Len(rest) = {}
              BY <1>21, <5>1
            <7> QED
              BY <1>21, <7>1, SetOf
          <6>3. gone \in ToSet(keys)
            BY <1>21, SetOf
          <6>4. Addresses(old) \ ToSet(keys) = Addresses(c)
            BY <1>6, <1>9, <1>22, <6>2, <6>3
          <6> QED
            BY <4>1, <4>2, <6>1, <6>4
        <5> QED
          BY <1>13, <1>23, <5>1
      <4>7. work'[m] = work[m] \/ (m = l /\ work'[m].kind = k /\ work'[m].version = v)
        BY <1>13, <1>23, <4>6, RestingIs
      <4>8. On(m, j, w)'
        BY <3>2, <4>5, <4>7 DEF On
      <4>9. Trims(m, caches[j][w])'
        <5>1. CASE work[m].step = "trimming"
          BY <1>1, <4>7, <5>1 DEF Trims
        <5>2. CASE work[m].step # "trimming"
          <6>1. /\ work[m].step = "deleting" /\ work[m].kind = k
                /\ Cardinality(Addresses(old) \ Leaving(m)) <= Limit(k)
            BY <4>5, <5>2 DEF Trims, On
          <6>2. PICK S : S = Addresses(old) \ Leaving(m)
            OBVIOUS
          <6>3. PICK R : R = Addresses(c) \ ToSet(work'[m].keys)
            OBVIOUS
          <6>8. Addresses(c) \ ToSet(work'[m].keys) \subseteq Addresses(old) \ Leaving(m)
            <7>1. CASE m = l
              BY <1>6, <1>9, <1>20, <1>22, <4>6, <7>1 DEF Leaving
            <7>2. CASE m # l
              BY <1>9, <4>7, <7>2 DEF Leaving
            <7> QED
              BY <7>1, <7>2
          <6>4. IsFiniteSet(S) /\ R \in SUBSET S
            BY <4>1, <6>2, <6>3, <6>8, FS_Subset
          <6>5. /\ Cardinality(R) \in Nat /\ Cardinality(S) \in Nat
                /\ Cardinality(R) <= Cardinality(S)
            BY <6>4, FS_Subset, FS_CardinalityType
          <6>6. Cardinality(R) <= Limit(k)
            BY <3>0, <3>2, <6>1, <6>2, <6>5
          <6>7. work'[m].step = "deleting" /\ work'[m].kind = k
            BY <4>6, <4>7, <6>1
          <6> QED
            BY <4>2, <6>3, <6>6, <6>7 DEF Trims, Leaving, Limit, Addresses
        <5> QED
          BY <5>1, <5>2
      <4> QED
        BY <4>8, <4>9
    <3> QED
      BY <3>1, <3>2
  <2> QED
    BY <1>12, <2>1 DEF Trimmed, Limit
<1> QED
  BY <1>14, <1>15, <1>16, <1>17, <1>18 DEF CacheInv

\* A trim that fails says so of its cache.
LEMMA TrimFailsKeeps ==
    ASSUME CacheAssumption, CacheInv, NEW l \in Load, TrimFails(l)
    PROVE  CacheInv'
<1>1. /\ work' = [work EXCEPT ![l] = Resting]
      /\ caches' = caches /\ active' = active /\ installing' = installing
      /\ session' = session /\ clearing' = clearing
      /\ untrimmed' = untrimmed \cup {<<work[l].kind, work[l].version>>}
  BY DEF TrimFails
<1>2. /\ work' \in [Load -> WorkShape] /\ work'[l] = Resting
      /\ \A m \in Load : m # l => work'[m] = work[m]
  BY <1>1, RestingIs DEF CacheInv, CacheKinds
<1>3. CacheKinds' /\ Unmixed' /\ Signed'
  BY <1>1, <1>2 DEF CacheInv, CacheKinds, Unmixed, Signed
<1>4. AtWork'
  BY <1>2, RestingIs DEF CacheInv, AtWork
<1>5. Trimmed'
  <2>1. ASSUME NEW k \in {"static", "pages"}, NEW v \in WorkerVersion,
               ~(Len(caches[k][v]) <= Limit(k)), <<k, v>> \notin untrimmed'
        PROVE  \E m \in Load : On(m, k, v)' /\ Trims(m, caches[k][v])'
    <3>1. PICK m \in Load : On(m, k, v) /\ Trims(m, caches[k][v])
      BY <1>1, <2>1 DEF CacheInv, Trimmed
    <3>2. work'[m] = work[m]
      BY <1>1, <1>2, <2>1, <3>1 DEF On
    <3>3. On(m, k, v)'
      BY <3>1, <3>2 DEF On
    <3>4. Trims(m, caches[k][v])'
      BY <1>1, <3>1, <3>2 DEF Trims, Leaving, Limit
    <3> QED
      BY <3>3, <3>4
  <2> QED
    BY <1>1, <2>1 DEF Trimmed, Limit
<1> QED
  BY <1>3, <1>4, <1>5 DEF CacheInv

\* Caches and workers that are left as they are.
LEMMA CachesStay ==
    ASSUME CacheInv, work' = work, caches' = caches, untrimmed' = untrimmed
    PROVE  AtWork' /\ Unmixed' /\ Trimmed'
<1>1. AtWork' /\ Unmixed'
  BY DEF CacheInv, AtWork, Unmixed
<1>2. ASSUME NEW k \in {"static", "pages"}, NEW v \in WorkerVersion,
             ~(Len(caches[k][v]) <= Limit(k)), <<k, v>> \notin untrimmed
      PROVE  \E l \in Load : On(l, k, v)' /\ Trims(l, caches[k][v])'
  <2>1. PICK l \in Load : On(l, k, v) /\ Trims(l, caches[k][v])
    BY <1>2 DEF CacheInv, Trimmed
  <2>2. On(l, k, v)'
    BY <2>1 DEF On
  <2>3. Trims(l, caches[k][v])'
    BY <2>1 DEF Trims, Leaving, Limit
  <2> QED
    BY <2>2, <2>3
<1> QED
  BY <1>1, <1>2 DEF Trimmed, Limit

\* The steps of versions and of the clearing.
LEMMA OtherCacheSteps ==
    ASSUME CacheAssumption, CacheInv,
           \/ Register \/ (\E v \in WorkerVersion : Install(v) \/ Activate(v))
           \/ SignOut \/ ClearByWorker \/ ClearByPage
    PROVE  CacheInv'
<1>0. /\ caches \in [CacheKind -> [WorkerVersion -> Seq(EntryShape)]]
      /\ active \in 0..MaxVersion /\ installing \in 0..MaxVersion
      /\ work \in [Load -> WorkShape] /\ session \in Nat /\ session # 0
      /\ "worker" \in clearing => active # 0
  BY DEF CacheInv, CacheKinds
<1>1. <<>> \in Seq(EntryShape) /\ "precache" \in CacheKind /\ "pages" \in CacheKind
      /\ "pages" # "precache"
  BY EmptySeq DEF CacheKind
<1>2. CASE Register
  <2>1. /\ untrimmed' = untrimmed /\ caches' = caches /\ work' = work /\ session' = session /\ clearing' = clearing
        /\ active' = active /\ installing' = active + 1 /\ active < MaxVersion
    BY <1>2 DEF Register
  <2>2. AtWork' /\ Unmixed' /\ Trimmed' /\ Signed'
    BY <1>0, <2>1, CachesGo
  <2>3. active + 1 \in 0..MaxVersion
    BY <1>0, <2>1 DEF CacheAssumption
  <2> QED
    BY <1>0, <2>1, <2>2, <2>3 DEF CacheInv, CacheKinds
<1>3. ASSUME NEW v \in WorkerVersion, Install(v) PROVE CacheInv'
  <2>1. /\ untrimmed' = untrimmed /\ work' = work /\ session' = session /\ clearing' = clearing /\ active' = active
    BY <1>3 DEF Install
  <2>2. PICK e : e = [url |-> "offline", session |-> 0, late |-> FALSE]
    OBVIOUS
  <2>3. e \in EntryShape
    BY <2>2 DEF EntryShape, Address
  <2>4. PICK c \in Seq(EntryShape) : c = <<e>> /\ Len(c) = 1
    <3>1. <<e>> \in Seq(EntryShape) /\ Len(<<e>>) = 1
      BY <2>3
    <3> QED
      BY <3>1
  <2>5. /\ installing' \in 0..MaxVersion
        /\ caches' = caches \/ caches' = [caches EXCEPT !["precache"][v] = c]
    BY <1>0, <1>3, <2>2, <2>4, CacheAssumption DEF Install
  <2>6. CASE caches' = caches
    <3>1. AtWork' /\ Unmixed' /\ Trimmed' /\ Signed'
      BY <1>0, <2>1, <2>6, CachesGo
    <3> QED
      BY <1>0, <2>1, <2>5, <2>6, <3>1 DEF CacheInv, CacheKinds
  <2>7. CASE caches' = [caches EXCEPT !["precache"][v] = c]
    <3>1. PICK k \in CacheKind : k = "precache"
      BY <1>1
    <3>2. caches' = [caches EXCEPT ![k] = [caches[k] EXCEPT ![v] = c]]
      BY <2>7, <3>1
    <3>3. [caches[k] EXCEPT ![v] = c] \in [WorkerVersion -> Seq(EntryShape)]
      BY <1>0
    <3>4. caches' \in [CacheKind -> [WorkerVersion -> Seq(EntryShape)]]
      BY <1>0, <3>2, <3>3
    <3>5. \A j \in CacheKind, w \in WorkerVersion :
            caches'[j][w] = caches[j][w] \/ (j = "precache" /\ Len(caches'[j][w]) = 1)
      BY <1>0, <2>4, <3>1, <3>2
    <3>6. AtWork' /\ Unmixed' /\ Trimmed' /\ Signed'
      BY <2>1, <3>4, <3>5, CachesGo
    <3> QED
      BY <1>0, <2>1, <2>5, <3>4, <3>6 DEF CacheInv, CacheKinds
  <2> QED
    BY <2>5, <2>6, <2>7
<1>4. ASSUME NEW v \in WorkerVersion, Activate(v) PROVE CacheInv'
  <2>1. /\ untrimmed' = untrimmed /\ work' = work /\ session' = session /\ clearing' = clearing
        /\ active' = v /\ installing' = 0
        /\ caches' = [k \in CacheKind |-> [w \in WorkerVersion |->
                        IF w = v THEN caches[k][w] ELSE <<>>]]
    BY <1>4 DEF Activate
  <2>2. caches' \in [CacheKind -> [WorkerVersion -> Seq(EntryShape)]]
    BY <1>0, <1>1, <2>1
  <2>3. \A j \in CacheKind, w \in WorkerVersion :
          caches'[j][w] = caches[j][w] \/ caches'[j][w] = <<>>
    BY <2>1
  <2>4. AtWork' /\ Unmixed' /\ Trimmed' /\ Signed'
    BY <2>1, <2>2, <2>3, CachesGo
  <2>5. v \in 0..MaxVersion /\ v # 0 /\ 0 \in 0..MaxVersion
    BY CacheAssumption DEF WorkerVersion
  <2> QED
    BY <1>0, <2>1, <2>2, <2>4, <2>5 DEF CacheInv, CacheKinds
<1>5. CASE SignOut
  <2>1. /\ untrimmed' = untrimmed /\ caches' = caches /\ work' = work /\ active' = active /\ installing' = installing
        /\ session' = session + 1 /\ "page" \in clearing'
        /\ "worker" \in clearing' => active # 0
    BY <1>5 DEF SignOut
  <2>2. Signed'
    BY <2>1 DEF Signed
  <2>3. AtWork' /\ Unmixed' /\ Trimmed'
    BY <2>1, CachesStay
  <2>5. session + 1 \in Nat /\ session + 1 # 0
    BY <1>0
  <2> QED
    BY <1>0, <2>1, <2>2, <2>3, <2>5 DEF CacheInv, CacheKinds
<1>6. CASE ClearByWorker
  <2>1. /\ untrimmed' = untrimmed /\ work' = work /\ session' = session /\ active' = active /\ installing' = installing
        /\ active # 0 /\ clearing' = clearing \ {"worker"}
        /\ caches' = [caches EXCEPT !["pages"][active] = <<>>]
    BY <1>0, <1>6 DEF ClearByWorker
  <2>2. PICK k \in CacheKind, v \in WorkerVersion : k = "pages" /\ v = active
    BY <1>0, <1>1, <2>1 DEF WorkerVersion
  <2>3. caches' = [caches EXCEPT ![k] = [caches[k] EXCEPT ![v] = <<>>]]
    BY <2>1, <2>2
  <2>4. [caches[k] EXCEPT ![v] = <<>>] \in [WorkerVersion -> Seq(EntryShape)]
    BY <1>0, <1>1
  <2>5. caches' \in [CacheKind -> [WorkerVersion -> Seq(EntryShape)]]
    BY <1>0, <2>3, <2>4
  <2>6. \A j \in CacheKind, w \in WorkerVersion :
          caches'[j][w] = caches[j][w] \/ caches'[j][w] = <<>>
    BY <1>0, <2>3
  <2>7. "page" \in clearing => "page" \in clearing'
    BY <2>1
  <2>8. AtWork' /\ Unmixed' /\ Trimmed' /\ Signed'
    BY <2>1, <2>5, <2>6, <2>7, CachesGo
  <2> QED
    BY <1>0, <2>1, <2>5, <2>8 DEF CacheInv, CacheKinds
<1>7. CASE ClearByPage
  <2>1. /\ untrimmed' = untrimmed /\ work' = work /\ session' = session /\ active' = active /\ installing' = installing
        /\ clearing' = clearing \ {"page"}
    BY <1>7 DEF ClearByPage
  <2>2. PICK k \in CacheKind : k = "pages"
    BY <1>1
  <2>3. PICK bare : bare = [v \in WorkerVersion |-> <<>>]
    OBVIOUS
  <2>4. bare \in [WorkerVersion -> Seq(EntryShape)] /\ \A v \in WorkerVersion : bare[v] = <<>>
    BY <1>1, <2>3
  <2>5. caches' = [caches EXCEPT ![k] = bare]
    BY <1>7, <2>2, <2>3 DEF ClearByPage, IsPageCache
  <2>6. caches' \in [CacheKind -> [WorkerVersion -> Seq(EntryShape)]]
    BY <1>0, <2>4, <2>5
  <2>7. \A j \in CacheKind, w \in WorkerVersion :
          caches'[j][w] = caches[j][w] \/ caches'[j][w] = <<>>
    BY <1>0, <2>4, <2>5
  <2>8. \A v \in WorkerVersion : caches'["pages"][v] = <<>>
    BY <1>0, <2>2, <2>4, <2>5
  <2>9. AtWork' /\ Unmixed' /\ Trimmed' /\ Signed'
    BY <2>1, <2>6, <2>7, <2>8, CachesGo
  <2> QED
    BY <1>0, <2>1, <2>6, <2>9 DEF CacheInv, CacheKinds
<1> QED
  BY <1>2, <1>3, <1>4, <1>5, <1>6, <1>7

\* Every step keeps the invariant.
LEMMA CacheKeeps ==
    ASSUME CacheAssumption, CacheInv, [CacheNext]_cvars
    PROVE  CacheInv'
<1>1. CASE UNCHANGED cvars
  <2>1. AtWork' /\ Unmixed' /\ Trimmed'
    BY <1>1, CachesStay DEF cvars
  <2> QED
    BY <1>1, <2>1 DEF cvars, CacheInv, CacheKinds, Signed
<1>2. ASSUME NEW l \in Load, NEW p \in WebPage, NavigateTo(l, p) PROVE CacheInv'
  <2>1. {p} \in SUBSET Address /\ IsFiniteSet({p})
    BY FS_Singleton DEF Address
  <2>2. PICK k \in {"static", "pages"}, urls \in SUBSET Address : k = "pages" /\ urls = {p}
    BY <2>1
  <2> QED
    BY <1>2, <2>1, <2>2, BeginLoadKeeps DEF NavigateTo
<1>3. ASSUME NEW l \in Load, NEW a \in Asset, FetchAsset(l, a) PROVE CacheInv'
  <2>1. {a} \in SUBSET Address /\ IsFiniteSet({a})
    BY FS_Singleton DEF Address
  <2>2. PICK k \in {"static", "pages"}, urls \in SUBSET Address : k = "static" /\ urls = {a}
    BY <2>1
  <2>3. BeginLoad(l, k, urls)
    BY <1>3, <2>2 DEF FetchAsset
  <2> QED
    BY <2>1, <2>2, <2>3, BeginLoadKeeps
<1>4. ASSUME NEW l \in Load, CacheAppShell(l) PROVE CacheInv'
  <2>1. PICK urls \in SUBSET Asset : BeginLoad(l, "static", urls)
    BY <1>4 DEF CacheAppShell
  <2>2. urls \in SUBSET Address /\ IsFiniteSet(urls)
    BY FS_Subset, CacheAssumption DEF Address, CacheAssumption
  <2>3. PICK k \in {"static", "pages"} : k = "static"
    OBVIOUS
  <2> QED
    BY <2>1, <2>2, <2>3, BeginLoadKeeps
<1>5. ASSUME NEW l \in Load, NotStored(l) PROVE CacheInv'
  <2>1. PICK x \in WorkShape : x = Resting /\ x.step = "idle"
    BY RestingIs
  <2>2. /\ work[l].step = "fetching" /\ work' = [work EXCEPT ![l] = x]
        /\ caches' = caches /\ active' = active /\ installing' = installing
        /\ session' = session /\ clearing' = clearing /\ untrimmed' = untrimmed
    BY <1>5, <2>1 DEF NotStored
  <2> QED
    BY <2>1, <2>2, WorkerMoves
<1>6. ASSUME NEW l \in Load, Store(l) \/ ListKeys(l) \/ DeleteOldest(l) \/ TrimFails(l)
      PROVE  CacheInv'
  BY <1>6, StoreKeeps, ListKeysKeeps, DeleteOldestKeeps, TrimFailsKeeps
<1>7. CASE \/ Register \/ (\E v \in WorkerVersion : Install(v) \/ Activate(v))
           \/ SignOut \/ ClearByWorker \/ ClearByPage
  BY <1>7, OtherCacheSteps
<1> QED
  BY <1>1, <1>2, <1>3, <1>4, <1>5, <1>6, <1>7 DEF CacheNext

\* With no caches none is too large or too old.
LEMMA CacheStarts ==
    ASSUME CacheAssumption, CacheInit
    PROVE  CacheInv
<1>0. /\ <<>> \in Seq(EntryShape) /\ Len(<<>>) = 0 /\ 1..0 = {} /\ ToSet(<<>>) = {}
      /\ 0 \in 0..MaxVersion
  BY EmptySeq DEF ToSet, CacheAssumption
<1>1. \A k \in CacheKind, v \in WorkerVersion : caches[k][v] = <<>>
  BY DEF CacheInit
<1>2. CacheKinds
  BY <1>0, RestingIs DEF CacheInit, CacheKinds
<1>3. AtWork
  BY RestingIs DEF CacheInit, AtWork
<1>4. Unmixed
  BY <1>0, <1>1 DEF Unmixed, Distinct
<1>5. Trimmed
  <2>1. \A k \in {"static", "pages"} : k \in CacheKind /\ 0 <= Limit(k)
    BY LimitIs DEF CacheKind
  <2> QED
    BY <1>0, <1>1, <2>1 DEF Trimmed
<1>6. Signed
  BY <1>0, <1>1 DEF Signed, CacheKind
<1> QED
  BY <1>2, <1>3, <1>4, <1>5, <1>6 DEF CacheInv

\* A cache nobody is trimming is within its limit, if no trim of it has failed since
\* its keys were last listed, and a page in one is of the session there is, was on
\* its way when an earlier one ended, or is about to be cleared (sw.js: trimCache
\* after every store, its failures swallowed; the clearing at a sign-out).
THEOREM CachesStaySmall == CacheSpec => []CachesAreKeptSmall
<1>1. CacheInit => CacheInv
  BY CacheAssumption, CacheStarts
<1>2. CacheInv /\ [CacheNext]_cvars => CacheInv'
  BY CacheAssumption, CacheKeeps
<1>3. ASSUME CacheInv PROVE CachesBounded
  <2>1. ASSUME NEW k \in {"static", "pages"}, NEW v \in WorkerVersion,
               \A l \in Load : work[l].step \in {"idle", "fetching"}
                               \/ work[l].kind # k \/ work[l].version # v
        PROVE  Len(caches[k][v]) <= Limit(k) \/ <<k, v>> \in untrimmed
    <3>1. \A l \in Load : ~(On(l, k, v) /\ Trims(l, caches[k][v]))
      BY <2>1 DEF On, Trims
    <3> QED
      BY <1>3, <3>1 DEF CacheInv, Trimmed
  <2> QED
    BY <2>1 DEF CachesBounded
<1>4. CacheInv => PagesEndWithSession
  BY DEF CacheInv, Signed, PagesEndWithSession
<1>5. CacheInv => CachesAreKeptSmall
  BY <1>3, <1>4 DEF CachesAreKeptSmall
<1> QED
  BY <1>1, <1>2, <1>5, PTL DEF CacheSpec

-----------------------------------------------------------------------------
(* Rings. A slot of the last Capacity records has its record (Holds); the   *)
(* remainders of so many successive numbers differ. The place of a slot in  *)
(* the sort is a number of slots, and every place is some slot's.           *)

\* Remainders, as far as they are needed.
LEMMA Modulo ==
    ASSUME NEW c \in Nat, c # 0, NEW a \in Nat
    PROVE  a % c \in 0..(c - 1) /\ a = c * (a \div c) + (a % c) /\ a \div c \in Nat
<1>1. a % c \in 0..(c - 1)
  OBVIOUS
<1>2. a = c * (a \div c) + (a % c)
  OBVIOUS
<1>3. a \div c \in Nat
  OBVIOUS
<1> QED
  BY <1>1, <1>2, <1>3

\* A small number is its own remainder.
LEMMA ModuloSmall ==
    ASSUME NEW c \in Nat, c # 0, NEW a \in Nat, a < c
    PROVE  a % c = a
OBVIOUS

\* A multiple is no less.
LEMMA Multiple ==
    ASSUME NEW c \in Nat, NEW k \in Int, k >= 1
    PROVE  c * k >= c
OBVIOUS

\* Two numbers less than c apart have different remainders.
LEMMA RemaindersDiffer ==
    ASSUME NEW c \in Nat, c # 0, NEW a \in Nat, NEW b \in Nat, a < b, b - a < c
    PROVE  a % c # b % c
<1> SUFFICES ASSUME a % c = b % c PROVE FALSE
  OBVIOUS
<1>1. a = c * (a \div c) + (a % c) /\ b = c * (b \div c) + (b % c)
  BY Modulo
<1>2. a \div c \in Nat /\ b \div c \in Nat /\ a % c \in 0..(c - 1)
  BY Modulo
<1> PICK p : p = a \div c
  OBVIOUS
<1> PICK q : q = b \div c
  OBVIOUS
<1> PICK m : m = a % c
  OBVIOUS
<1>3. b - a = c * q - c * p
  BY <1>1, <1>2
<1>4. c * q - c * p = c * (q - p)
  OBVIOUS
<1>5. q - p >= 1 => c * (q - p) >= c
  BY Multiple
<1>6. q - p <= 0 => c * (q - p) <= 0
  OBVIOUS
<1> QED
  BY <1>3, <1>4, <1>5, <1>6

\* A ring has the last of what was recorded, each in the slot of its number.
Holds(ring, h) ==
    /\ ring \in [Slot -> Nat]
    /\ \A j \in 1..Len(h) : Len(h) - j < Capacity => ring[(j - 1) % Capacity] = h[j]

RingInv ==
    /\ queries \in Seq(Duration) /\ timed \in Seq(Duration)
    /\ written = Len(queries) /\ sampled = Len(timed)
    /\ Holds(slots, queries) /\ Holds(window, timed)

\* One record more.
LEMMA HoldsMore ==
    ASSUME RingAssumption, NEW h \in Seq(Duration), NEW ring, Holds(ring, h),
           NEW d \in Duration
    PROVE  /\ Append(h, d) \in Seq(Duration) /\ Len(Append(h, d)) = Len(h) + 1
           /\ Holds([ring EXCEPT ![SlotOf(Len(h))] = d], Append(h, d))
<1>1. PICK n \in Nat : n = Len(h)
  BY LenProperties
<1>2. PICK t : t = Append(h, d)
  OBVIOUS
<1>3. /\ t \in Seq(Duration) /\ Len(t) = n + 1 /\ t[n + 1] = d
      /\ \A i \in 1..n : t[i] = h[i]
  BY <1>1, <1>2, AppendProperties
<1>4. PICK c \in Nat : c = Capacity /\ c # 0
  BY DEF RingAssumption
<1>5. PICK s \in Slot : s = n % c
  BY <1>1, <1>4, Modulo DEF Slot
<1>6. PICK new : new = [ring EXCEPT ![s] = d]
  OBVIOUS
<1>7. new \in [Slot -> Nat] /\ new[s] = d /\ \A x \in Slot : x # s => new[x] = ring[x]
  <2>1. d \in Nat
    BY DEF RingAssumption
  <2> QED
    BY <1>6, <2>1 DEF Holds
<1>8. ASSUME NEW j \in 1..(n + 1), n + 1 - j < c PROVE new[(j - 1) % c] = t[j]
  <2>1. CASE j = n + 1
    BY <1>1, <1>3, <1>5, <1>7, <2>1
  <2>2. CASE j # n + 1
    <3>1. PICK a \in Nat : a = j - 1 /\ a < n /\ n - a < c /\ j \in 1..n
      <4>1. j - 1 \in Nat /\ j - 1 < n /\ n - (j - 1) < c /\ j \in 1..n
        BY <1>1, <1>4, <1>8, <2>2
      <4> QED
        BY <4>1
    <3>2. a % c \in Slot /\ a % c # s
      BY <1>1, <1>4, <1>5, <3>1, Modulo, RemaindersDiffer DEF Slot
    <3>3. ring[a % c] = h[j]
      <4>1. n - j < c
        BY <1>1, <1>4, <1>8
      <4> QED
        BY <1>1, <1>4, <3>1, <4>1 DEF Holds
    <3>4. t[j] = h[j]
      BY <1>3, <3>1
    <3> QED
      BY <1>7, <3>1, <3>2, <3>3, <3>4
  <2> QED
    BY <2>1, <2>2
<1>9. Holds(new, t)
  BY <1>3, <1>4, <1>7, <1>8 DEF Holds
<1> QED
  BY <1>1, <1>2, <1>3, <1>4, <1>5, <1>6, <1>9 DEF SlotOf

\* Every step keeps the invariant.
LEMMA RingKeeps ==
    ASSUME RingAssumption, RingInv, [RingNext]_gvars
    PROVE  RingInv'
<1>1. CASE UNCHANGED gvars
  BY <1>1 DEF gvars, RingInv, Holds
<1>2. ASSUME NEW d \in Duration, QueryEnds(d) PROVE RingInv'
  <2>1. /\ queries \in Seq(Duration) /\ Holds(slots, queries) /\ written = Len(queries)
        /\ timed \in Seq(Duration) /\ Holds(window, timed) /\ sampled = Len(timed)
    BY DEF RingInv
  <2>2. /\ slots' = [slots EXCEPT ![SlotOf(Len(queries))] = d]
        /\ written' = Len(queries) + 1 /\ queries' = Append(queries, d)
        /\ window' = window /\ sampled' = sampled /\ timed' = timed
    BY <1>2, <2>1 DEF QueryEnds
  <2>3. /\ queries' \in Seq(Duration) /\ Len(queries') = Len(queries) + 1
        /\ Holds(slots', queries')
    BY <2>1, <2>2, HoldsMore
  <2> QED
    BY <2>1, <2>2, <2>3 DEF RingInv
<1>3. ASSUME NEW d \in Duration, RequestEnds(d) PROVE RingInv'
  <2>1. /\ queries \in Seq(Duration) /\ Holds(slots, queries) /\ written = Len(queries)
        /\ timed \in Seq(Duration) /\ Holds(window, timed) /\ sampled = Len(timed)
    BY DEF RingInv
  <2>2. /\ window' = [window EXCEPT ![SlotOf(Len(timed))] = d]
        /\ sampled' = Len(timed) + 1 /\ timed' = Append(timed, d)
        /\ slots' = slots /\ written' = written /\ queries' = queries
    BY <1>3, <2>1 DEF RequestEnds
  <2>3. /\ timed' \in Seq(Duration) /\ Len(timed') = Len(timed) + 1
        /\ Holds(window', timed')
    BY <2>1, <2>2, HoldsMore
  <2> QED
    BY <2>1, <2>2, <2>3 DEF RingInv
<1>4. CASE ResetWindow
  <2>1. /\ timed' = <<>> /\ sampled' = 0 /\ window' = [i \in Slot |-> 0]
        /\ slots' = slots /\ written' = written /\ queries' = queries
    BY <1>4 DEF ResetWindow
  <2>2. <<>> \in Seq(Duration) /\ Len(<<>>) = 0 /\ 1..0 = {}
    BY EmptySeq
  <2>3. Holds(window', timed')
    BY <2>1, <2>2 DEF Holds
  <2> QED
    BY <2>1, <2>2, <2>3 DEF RingInv
<1> QED
  BY <1>1, <1>2, <1>3, <1>4 DEF RingNext

\* Empty rings hold what there is.
LEMMA RingStarts == RingInit => RingInv
<1> SUFFICES ASSUME RingInit PROVE RingInv
  OBVIOUS
<1>1. <<>> \in Seq(Duration) /\ Len(<<>>) = 0 /\ 1..0 = {}
  BY EmptySeq
<1>2. Holds(slots, queries) /\ Holds(window, timed)
  BY <1>1 DEF RingInit, Holds
<1> QED
  BY <1>1, <1>2 DEF RingInit, RingInv

\* The last records of a ring, oldest first.
AreLast(t, ring, k) ==
    \A i \in 1..Len(t) : t[i] = ring[(k + i - 1) % Capacity]

LEMMA LastAre ==
    ASSUME RingAssumption, NEW h \in Seq(Duration), NEW ring, Holds(ring, h),
           NEW n \in Nat, n = Len(h), NEW k \in Nat, k <= n, n - k <= Capacity
    PROVE  /\ SubSeq(h, k + 1, n) \in Seq(Duration)
           /\ Len(SubSeq(h, k + 1, n)) = n - k
           /\ AreLast(SubSeq(h, k + 1, n), ring, k)
<1>1. n \in 0..n /\ k \in 0..n /\ k <= n
  OBVIOUS
<1>2. PICK t : t = SubSeq(h, k + 1, n)
  OBVIOUS
<1>3. t \in Seq(Duration) /\ Len(t) = n - k /\ \A i \in 1..(n - k) : t[i] = h[k + i]
  BY <1>1, <1>2, PartIs
<1>4. ASSUME NEW i \in 1..(n - k) PROVE t[i] = ring[(k + i - 1) % Capacity]
  <2>1. PICK j \in 1..n : j = k + i /\ n - j < Capacity
    <3>1. k + i \in 1..n /\ n - (k + i) < Capacity
      BY DEF RingAssumption
    <3> QED
      BY <3>1
  <2>2. ring[(j - 1) % Capacity] = h[j]
    BY <2>1 DEF Holds
  <2> QED
    BY <1>3, <2>1, <2>2
<1> QED
  BY <1>2, <1>3, <1>4 DEF AreLast

\* The listing shows the newest queries.
LEMMA ListingIsNewest ==
    ASSUME RingAssumption, RingInv
    PROVE  RecentIsNewest
<1>0. /\ queries \in Seq(Duration) /\ Holds(slots, queries) /\ written = Len(queries)
  BY DEF RingInv
<1>1. PICK n \in Nat : n = Len(queries)
  BY <1>0, LenProperties
<1>2. PICK c \in Nat : c = Capacity /\ c # 0
  BY DEF RingAssumption
<1>3. ASSUME NEW limit \in 0..(c + 1)
      PROVE  Recent(limit) = Newest(queries, Lesser(limit, c))
  <2>1. PICK w : w = Lesser(limit, Retained(n))
    OBVIOUS
  <2>2. w \in 0..n /\ w <= c /\ Lesser(Lesser(limit, c), n) = w
    BY <1>1, <1>2, <1>3, <2>1 DEF Lesser, Retained
  <2>3. PICK k \in 0..n : k = n - w /\ n - k = w /\ n - w + 1 = k + 1
    <3>1. n - w \in 0..n /\ n - (n - w) = w
      BY <1>1, <2>2
    <3> QED
      BY <3>1
  <2>4. PICK s : s = SubSeq(queries, k + 1, n)
    OBVIOUS
  <2>8. /\ s \in Seq(Duration) /\ Len(s) = w
        /\ \A i \in 1..w : s[i] = slots[(k + i - 1) % c]
    <3>1. n - k <= Capacity
      BY <1>2, <2>2, <2>3
    <3>2. queries \in Seq(Duration) /\ Holds(slots, queries) /\ n = Len(queries)
      BY <1>0, <1>1
    <3>3. k \in Nat /\ k <= n
      BY <1>1, <2>3
    <3>4. /\ SubSeq(queries, k + 1, n) \in Seq(Duration)
          /\ Len(SubSeq(queries, k + 1, n)) = n - k
          /\ AreLast(SubSeq(queries, k + 1, n), slots, k)
      BY <1>1, <3>1, <3>2, <3>3, LastAre
    <3> QED
      BY <1>2, <2>3, <2>4, <3>4 DEF AreLast
  <2>5. Newest(queries, Lesser(limit, c)) = s
    BY <1>1, <2>2, <2>3, <2>4 DEF Newest
  <2>6. Recent(limit) = [i \in 1..w |-> slots[(k + i - 1) % c]]
    BY <1>0, <1>1, <1>2, <2>1, <2>3 DEF Recent
  <2>7. s = [i \in 1..w |-> s[i]]
    BY <2>8
  <2> QED
    BY <2>5, <2>6, <2>7, <2>8
<1> QED
  BY <1>2, <1>3 DEF RecentIsNewest

\* So many numbers.
LEMMA Counted ==
    ASSUME NEW r \in Nat
    PROVE  /\ IsFiniteSet(1..r) /\ Cardinality(1..r) = r
           /\ IsFiniteSet(0..(r - 1)) /\ Cardinality(0..(r - 1)) = r
<1>1. PICK f : f = [i \in 1..r |-> i]
  OBVIOUS
<1>2. f \in Bijection(1..r, 1..r)
  BY <1>1 DEF Bijection, Injection, Surjection, IsInjective
<1>3. PICK T : T = 0..(r - 1)
  OBVIOUS
<1>4. PICK g : g = [i \in 1..r |-> i - 1]
  OBVIOUS
<1>5. g \in Bijection(1..r, T)
  <2>1. g \in [1..r -> T] /\ \A i, j \in 1..r : g[i] = g[j] => i = j
    BY <1>3, <1>4
  <2>2. ASSUME NEW t \in T PROVE \E i \in 1..r : g[i] = t
    <3>1. t + 1 \in 1..r /\ (t + 1) - 1 = t
      BY <1>3
    <3> QED
      BY <1>4, <3>1
  <2> QED
    BY <2>1, <2>2 DEF Bijection, Injection, Surjection, IsInjective
<1>6. ExistsBijection(1..r, 1..r) /\ ExistsBijection(1..r, T)
  BY <1>2, <1>5 DEF ExistsBijection
<1> QED
  BY <1>3, <1>6, FS_NatBijection, FS_CountingElements

\* Every place is some slot's, and counts durations that are no more.
LEMMA PlacesAreTaken ==
    ASSUME NEW r \in Nat, r = Retained(sampled), InWindow \subseteq Slot,
           window \in [Slot -> Nat], NEW k \in 1..r
    PROVE  \E i \in InWindow : PlaceOf(i) = k
<1>1. /\ InWindow = 0..(r - 1) /\ IsFiniteSet(InWindow) /\ Cardinality(InWindow) = r
  BY Counted DEF InWindow
<1>2. \A i \in InWindow : window[i] \in Nat /\ i \in Nat
  BY <1>1
<1>3. ASSUME NEW i \in InWindow
      PROVE  /\ IsFiniteSet(UpTo(i)) /\ PlaceOf(i) = Cardinality(UpTo(i))
             /\ PlaceOf(i) \in 1..r
  <2>1. UpTo(i) \in SUBSET InWindow /\ i \in UpTo(i)
    BY <1>2 DEF UpTo
  <2>2. /\ IsFiniteSet(UpTo(i)) /\ Cardinality(UpTo(i)) <= r /\ Cardinality(UpTo(i)) \in Nat
        /\ Cardinality(UpTo(i)) # 0
    BY <1>1, <2>1, FS_Subset, FS_CardinalityType, FS_EmptySet
  <2>3. PlaceOf(i) = Cardinality(UpTo(i))
    BY DEF PlaceOf
  <2> QED
    BY <2>2, <2>3
<1>4. ASSUME NEW i \in InWindow, NEW j \in InWindow, j \in UpTo(i), j # i
      PROVE  PlaceOf(j) # PlaceOf(i)
  <2>1. UpTo(j) \in SUBSET UpTo(i)
    BY <1>2, <1>4 DEF UpTo
  <2>2. i \notin UpTo(j) /\ i \in UpTo(i)
    BY <1>2, <1>4 DEF UpTo
  <2> QED
    BY <1>3, <2>1, <2>2, FS_Subset
<1>5. ASSUME NEW i \in InWindow, NEW j \in InWindow, i # j
      PROVE  j \in UpTo(i) \/ i \in UpTo(j)
  <2>1. window[i] \in Nat /\ window[j] \in Nat /\ i \in Nat /\ j \in Nat
    BY <1>2
  <2>2. \/ window[j] < window[i] \/ (window[j] = window[i] /\ j <= i)
        \/ window[i] < window[j] \/ (window[i] = window[j] /\ i <= j)
    BY <2>1
  <2>3. CASE window[j] < window[i] \/ (window[j] = window[i] /\ j <= i)
    BY <1>5, <2>1, <2>3 DEF UpTo
  <2>4. CASE window[i] < window[j] \/ (window[i] = window[j] /\ i <= j)
    BY <1>5, <2>1, <2>4 DEF UpTo
  <2> QED
    BY <2>2, <2>3, <2>4
<1>6. PICK f : f = [i \in InWindow |-> PlaceOf(i)]
  OBVIOUS
<1>7. f \in Injection(InWindow, 1..r)
  <2>1. f \in [InWindow -> 1..r]
    BY <1>3, <1>6
  <2>2. \A i, j \in InWindow : f[i] = f[j] => i = j
    BY <1>4, <1>5, <1>6
  <2> QED
    BY <2>1, <2>2 DEF Injection, IsInjective
<1>8. IsFiniteSet(1..r) /\ Cardinality(1..r) = r
  BY Counted
<1>9. f \in Surjection(InWindow, 1..r)
  BY <1>1, <1>7, <1>8, FS_Injection
<1> QED
  BY <1>6, <1>9 DEF Surjection

\* The last durations are those in the window, in some order.
LEMMA WindowIsLast ==
    ASSUME RingAssumption, RingInv, NEW n \in Nat, n = Len(timed),
           NEW r \in Nat, r = Retained(n), NEW last, last = Newest(timed, Capacity)
    PROVE  /\ Len(last) = r /\ (r = 0 => last = <<>>)
           /\ InWindow \subseteq Slot /\ window \in [Slot -> Nat]
           /\ \E g \in Bijection(1..r, InWindow) :
                \A i \in 1..r : last[i] = window[g[i]]
<1>0. /\ timed \in Seq(Duration) /\ Holds(window, timed) /\ sampled = n
  BY DEF RingInv
<1>1. PICK c \in Nat : c = Capacity /\ c # 0
  BY DEF RingAssumption
<1>2. r \in 0..n /\ r <= c /\ Lesser(c, n) = r /\ (r = n \/ r = c)
  BY <1>1 DEF Lesser, Retained
<1>3. PICK k \in 0..n : k = n - r /\ n - k = r /\ n - r + 1 = k + 1
  <2>1. n - r \in 0..n /\ n - (n - r) = r
    BY <1>2
  <2> QED
    BY <2>1
<1>16. last = SubSeq(timed, k + 1, n)
  BY <1>1, <1>2, <1>3 DEF Newest
<1>4. Len(last) = r /\ \A i \in 1..r : last[i] = window[(k + i - 1) % c]
  <2>1. n - k <= Capacity
    BY <1>1, <1>2, <1>3
  <2>3. timed \in Seq(Duration) /\ Holds(window, timed) /\ k \in Nat /\ k <= n
    BY <1>0, <1>3
  <2>2. /\ Len(SubSeq(timed, k + 1, n)) = n - k
        /\ AreLast(SubSeq(timed, k + 1, n), window, k)
    BY <2>1, <2>3, LastAre
  <2> QED
    BY <1>1, <1>3, <1>16, <2>2 DEF AreLast
<1>5. ASSUME r = 0 PROVE last = <<>>
  <2>1. PICK m \in Int : m = k + 1 /\ n < m
    <3>1. k + 1 \in Int /\ n < k + 1
      BY <1>3, <1>5
    <3> QED
      BY <3>1
  <2>2. n \in Int
    OBVIOUS
  <2> QED
    BY <1>16, <2>1, <2>2, SubSeqEmpty
<1>6. InWindow = 0..(r - 1) /\ Slot = 0..(c - 1)
  BY <1>0, <1>1 DEF InWindow, Slot
<1>7. InWindow \subseteq Slot
  BY <1>1, <1>2, <1>6
<1>8. PICK g : g = [i \in 1..r |-> (k + i - 1) % c]
  OBVIOUS
<1>9. ASSUME NEW i \in 1..r PROVE g[i] \in InWindow
  <2>1. PICK a \in Nat : a = k + i - 1 /\ (r = n => a < r)
    <3>1. k \in Nat /\ i \in Nat /\ i >= 1 /\ i <= r
      BY <1>3
    <3>2. k + i - 1 \in Nat
      BY <3>1
    <3>3. ASSUME r = n PROVE k + i - 1 < r
      <4>1. k = 0
        BY <1>3, <3>3
      <4> QED
        BY <3>1, <4>1
    <3> QED
      BY <3>2, <3>3
  <2>2. g[i] = a % c /\ a % c \in 0..(c - 1)
    BY <1>1, <1>8, <2>1, Modulo
  <2>3. CASE r = n
    <3>1. a < c /\ a < r
      BY <1>1, <1>2, <2>1, <2>3
    <3>2. a % c = a
      BY <1>1, <3>1, ModuloSmall
    <3> QED
      BY <1>6, <2>2, <3>1, <3>2
  <2>4. CASE r = c
    BY <1>6, <2>2, <2>4
  <2> QED
    BY <1>2, <2>3, <2>4
<1>10. ASSUME NEW i \in 1..r, NEW j \in 1..r, i < j PROVE g[i] # g[j]
  <2>1. k + i - 1 \in Nat /\ k + j - 1 \in Nat
    OBVIOUS
  <2>2. PICK a \in Nat, b \in Nat : a = k + i - 1 /\ b = k + j - 1
    BY <2>1
  <2>3. a < b /\ b - a < c
    BY <1>1, <1>2, <1>10, <2>2
  <2>4. a % c # b % c
    BY <1>1, <2>3, RemaindersDiffer
  <2> QED
    BY <1>8, <2>2, <2>4
<1>11. g \in Injection(1..r, InWindow)
  <2>1. g \in [1..r -> InWindow]
    BY <1>8, <1>9
  <2>2. \A i, j \in 1..r : i # j => i < j \/ j < i
    OBVIOUS
  <2>3. \A i, j \in 1..r : g[i] = g[j] => i = j
    BY <1>10, <2>2
  <2> QED
    BY <2>1, <2>3 DEF Injection, IsInjective
<1>12. /\ IsFiniteSet(1..r) /\ Cardinality(1..r) = r
       /\ IsFiniteSet(InWindow) /\ Cardinality(InWindow) = r
  BY <1>6, Counted
<1>13. g \in Surjection(1..r, InWindow)
  BY <1>11, <1>12, FS_Injection
<1>14. g \in Bijection(1..r, InWindow)
  BY <1>11, <1>13 DEF Bijection
<1>15. \A i \in 1..r : last[i] = window[g[i]]
  BY <1>4, <1>8
<1> QED
  BY <1>0, <1>4, <1>5, <1>7, <1>14, <1>15 DEF Holds

\* The slots of durations that are no more than v.
NoMore(v) == {j \in InWindow : window[j] <= v}

\* So many slots as records are of durations that are no more.
LEMMA AsManySlots ==
    ASSUME NEW r \in Nat, NEW last, Len(last) = r, window \in [Slot -> Nat],
           InWindow \subseteq Slot, NEW g \in Bijection(1..r, InWindow),
           \A i \in 1..r : last[i] = window[g[i]], NEW v \in Nat
    PROVE  /\ IsFiniteSet(Within(last, v)) /\ Cardinality(Within(last, v)) \in Nat
           /\ IsFiniteSet(NoMore(v))
           /\ Cardinality(Within(last, v)) = Cardinality(NoMore(v))
<1>1. PICK A : A = Within(last, v)
  OBVIOUS
<1>2. PICK B : B = NoMore(v)
  OBVIOUS
<1>3. PICK h : h = [i \in A |-> g[i]]
  OBVIOUS
<1>4. /\ g \in [1..r -> InWindow] /\ \A i, j \in 1..r : g[i] = g[j] => i = j
      /\ \A j \in InWindow : \E i \in 1..r : g[i] = j
  BY DEF Bijection, Injection, Surjection, IsInjective
<1>5. /\ \A i : i \in A <=> i \in 1..r /\ window[g[i]] <= v
      /\ \A j : j \in B <=> j \in InWindow /\ window[j] <= v
  BY <1>1, <1>2 DEF Within, NoMore
<1>6. h \in [A -> B] /\ \A i, j \in A : h[i] = h[j] => i = j
  BY <1>3, <1>4, <1>5
<1>7. \A j \in B : \E i \in A : h[i] = j
  BY <1>3, <1>4, <1>5
<1>8. h \in Bijection(A, B)
  BY <1>6, <1>7 DEF Bijection, Injection, Surjection, IsInjective
<1>9. IsFiniteSet(A) /\ Cardinality(A) \in Nat
  <2>1. A \in SUBSET (1..r) /\ IsFiniteSet(1..r)
    BY <1>5, Counted
  <2> QED
    BY <2>1, FS_Subset, FS_CardinalityType
<1>10. ExistsBijection(A, B)
  BY <1>8 DEF ExistsBijection
<1>11. IsFiniteSet(B) /\ Cardinality(A) = Cardinality(B)
  BY <1>9, <1>8, <1>10, FS_Bijection
<1> QED
  BY <1>1, <1>2, <1>9, <1>11

\* The rank of a percentile is the least number that is enough hundredths.
LEMMA RankIsLeast ==
    ASSUME NEW r \in Nat, r >= 1, NEW percent \in {50, 95, 99}
    PROVE  /\ Rank(percent, r) \in 1..r
           /\ 100 * Rank(percent, r) >= percent * r
           /\ 100 * (Rank(percent, r) - 1) < percent * r
<1>1. CASE percent = 50
  BY <1>1 DEF Rank, Ceil, Lesser
<1>2. CASE percent = 95
  BY <1>2 DEF Rank, Ceil, Lesser
<1>3. CASE percent = 99
  BY <1>3 DEF Rank, Ceil, Lesser
<1> QED
  BY <1>1, <1>2, <1>3

\* The percentiles are those of the last requests.
LEMMA PercentilesAreNearest ==
    ASSUME RingAssumption, RingInv
    PROVE  PercentileIsNearestRank
<1>0. timed \in Seq(Duration) /\ sampled = Len(timed)
  BY DEF RingInv
<1>1. PICK n \in Nat : n = Len(timed)
  BY <1>0, LenProperties
<1>2. PICK last : last = Newest(timed, Capacity)
  OBVIOUS
<1>3. PICK r \in Nat : r = Retained(n)
  BY <1>1 DEF Retained, Lesser, RingAssumption
<1>4. /\ Len(last) = r /\ (r = 0 => last = <<>>)
      /\ InWindow \subseteq Slot /\ window \in [Slot -> Nat]
      /\ \E g \in Bijection(1..r, InWindow) :
           \A i \in 1..r : last[i] = window[g[i]]
  BY <1>1, <1>2, <1>3, WindowIsLast
<1>5. PICK g \in Bijection(1..r, InWindow) : \A i \in 1..r : last[i] = window[g[i]]
  BY <1>4
<1>6. ASSUME last # <<>>, NEW percent \in {50, 95, 99}, NEW p, p = Percentile(percent)
      PROVE  /\ 100 * Cardinality(Within(last, p)) >= percent * Len(last)
             /\ \A i \in 1..Len(last) :
                  last[i] < p => 100 * Cardinality(Within(last, last[i])) < percent * Len(last)
  <2>1. r >= 1
    BY <1>4, <1>6
  <2>2. PICK k \in 1..r : /\ k = Rank(percent, r) /\ 100 * k >= percent * r
                          /\ 100 * (k - 1) < percent * r
    BY <1>6, <2>1, RankIsLeast
  <2>3. r = Retained(sampled)
    BY <1>0, <1>1, <1>3
  <2>4. PICK i0 \in InWindow : i0 = (CHOOSE i \in InWindow : PlaceOf(i) = k) /\ PlaceOf(i0) = k
    BY <1>4, <2>3, PlacesAreTaken
  <2>5. p = window[i0] /\ p \in Nat
    BY <1>4, <1>6, <2>2, <2>3, <2>4 DEF Percentile, Sorted
  <2>6. Cardinality(UpTo(i0)) = k /\ i0 \in InWindow
    BY <2>4 DEF PlaceOf
  <2>7. \A v \in Nat : /\ Cardinality(Within(last, v)) \in Nat
                       /\ IsFiniteSet(NoMore(v))
                       /\ Cardinality(Within(last, v)) = Cardinality(NoMore(v))
    BY <1>4, <1>5, AsManySlots
  <2>8. 100 * Cardinality(Within(last, p)) >= percent * Len(last)
    <3>1. UpTo(i0) \in SUBSET NoMore(p)
      BY <1>4, <2>5, <2>6 DEF UpTo, NoMore
    <3>3. PICK m \in Nat : m = Cardinality(Within(last, p))
      BY <2>5, <2>7
    <3>4. IsFiniteSet(NoMore(p)) /\ Cardinality(NoMore(p)) = m
      BY <2>5, <2>7, <3>3
    <3>5. Cardinality(UpTo(i0)) <= Cardinality(NoMore(p))
      BY <3>1, <3>4, FS_Subset
    <3>2. m = Cardinality(Within(last, p)) /\ k <= m
      BY <2>6, <3>3, <3>4, <3>5
    <3> QED
      BY <1>4, <1>6, <2>2, <3>2, <3>3
  <2>9. ASSUME NEW i \in 1..Len(last), last[i] < p
        PROVE  100 * Cardinality(Within(last, last[i])) < percent * Len(last)
    <3>1. PICK v \in Nat : v = last[i] /\ v < p
      <4>1. g[i] \in InWindow
        BY <1>4, <1>5, <2>9 DEF Bijection, Injection
      <4> QED
        BY <1>4, <1>5, <2>9, <4>1
    <3>2. NoMore(v) \in SUBSET UpTo(i0) /\ i0 \in UpTo(i0) /\ i0 \notin NoMore(v)
      <4>1. \A j \in InWindow : window[j] \in Nat /\ j \in Nat
        BY <1>4 DEF Slot
      <4>2. \A j \in InWindow : window[j] <= v => window[j] < window[i0]
        BY <2>5, <3>1, <4>1
      <4>3. i0 <= i0 /\ ~ (window[i0] <= v)
        BY <2>5, <2>6, <3>1, <4>1
      <4> QED
        BY <2>6, <4>2, <4>3 DEF UpTo, NoMore
    <3>3. IsFiniteSet(UpTo(i0))
      <4>1. IsFiniteSet(InWindow) /\ UpTo(i0) \in SUBSET InWindow
        BY <2>3, Counted DEF InWindow, UpTo
      <4> QED
        BY <4>1, FS_Subset
    <3>4. PICK m \in Nat : m = Cardinality(Within(last, v))
      BY <2>7, <3>1
    <3>5. Cardinality(NoMore(v)) = m
      BY <2>7, <3>1, <3>4
    <3>6. NoMore(v) # UpTo(i0)
      BY <3>2
    <3>7. /\ Cardinality(NoMore(v)) <= Cardinality(UpTo(i0))
          /\ Cardinality(NoMore(v)) # Cardinality(UpTo(i0))
      BY <3>2, <3>3, <3>6, FS_Subset
    <3>8. m < k
      BY <2>2, <2>6, <3>4, <3>5, <3>7
    <3> QED
      BY <1>4, <1>6, <2>2, <3>1, <3>4, <3>8
  <2> QED
    BY <2>8, <2>9
<1> QED
  BY <1>2, <1>6 DEF PercentileIsNearestRank

\* An administrator is shown the newest records and nothing else: the slow
\* queries listed are the last ones, oldest first, and the percentiles are those
\* of the last Capacity requests since the reset, however often the rings have
\* wrapped.
THEOREM ReportsAreOfTheNewest == RingSpec => []ReportsAreRecent
<1>1. RingInv /\ [RingNext]_gvars => RingInv'
  BY RingAssumption, RingKeeps
<1>2. RingInv => ReportsAreRecent
  BY RingAssumption, ListingIsNewest, PercentilesAreNearest DEF ReportsAreRecent
<1> QED
  BY RingStarts, <1>1, <1>2, PTL DEF RingSpec
=============================================================================
