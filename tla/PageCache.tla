------------------------------ MODULE PageCache ------------------------------
(***************************************************************************)
(* The browser's caches, which the service workers of successive versions  *)
(* fill while pages are loaded: one of whole pages, one of static files    *)
(* and one installed with the worker. A worker that has been replaced      *)
(* finishes what it is doing, and a page that signs out has the pages      *)
(* deleted while others may be on their way.                               *)
(***************************************************************************)
EXTENDS Integers, FiniteSets, SequencesExt, Filtering

CONSTANTS
    Load,           \* requests a worker can be handling
    WebPage, Asset,
    PagesKept,      \* 30 in the code
    AssetsKept,     \* 150 in the code
    MaxVersion,     \* bound on versions of the worker
    MaxSession      \* bound on sessions

ASSUME CacheAssumption ==
    /\ PagesKept \in Nat /\ AssetsKept \in Nat /\ IsFiniteSet(Asset)
    /\ MaxVersion \in Nat /\ MaxSession \in Nat

VARIABLES
    caches,     \* every cache, by kind and version, oldest entry first
    active,     \* the version that controls the pages, 0 for none
    installing, \* the version that is being installed, 0 for none
    work,       \* what the workers are doing
    session,    \* number of the session in the browser
    clearing,   \* what has yet to run of the clearing after a sign-out
    untrimmed   \* history: the caches whose trimming has failed since their keys
                \* were last listed

cvars == <<caches, active, installing, work, session, clearing, untrimmed>>

-----------------------------------------------------------------------------
WorkerVersion == 1..MaxVersion
CacheKind     == {"precache", "static", "pages"}
Resting == [step |-> "idle", kind |-> "pages", version |-> 0, urls |-> {},
            session |-> 0, keys |-> <<>>]

CacheInit ==
    /\ caches = [k \in CacheKind |-> [v \in WorkerVersion |-> <<>>]]
    /\ active = 0 /\ installing = 0
    /\ work = [l \in Load |-> Resting]
    /\ session = 1 /\ clearing = {} /\ untrimmed = {}

Urls(entries) == [i \in DOMAIN entries |-> entries[i].url]

Keeping(entries, urls) == Without(entries, {e \in ToSet(entries) : e.url \in urls})

Limit(kind) == IF kind = "pages" THEN PagesKept ELSE AssetsKept

-----------------------------------------------------------------------------
(* Versions of the worker.                                                 *)

Register ==
    /\ installing = 0 /\ active < MaxVersion
    /\ installing' = active + 1
    /\ UNCHANGED <<caches, active, work, session, clearing, untrimmed>>

\* install: the offline page is there before skipWaiting lets the worker on.
Install(v) ==
    /\ installing = v /\ active # v /\ caches["precache"][v] = <<>>
    /\ \/ caches' = [caches EXCEPT !["precache"][v] =
                       <<[url |-> "offline", session |-> 0, late |-> FALSE]>>]
          /\ UNCHANGED installing
       \/ installing' = 0 /\ UNCHANGED caches
    /\ UNCHANGED <<active, work, session, clearing, untrimmed>>

\* activate deletes the caches of every other version and takes the pages.
Activate(v) ==
    /\ installing = v /\ caches["precache"][v] # <<>>
    /\ caches' = [k \in CacheKind |-> [w \in WorkerVersion |-> IF w = v THEN caches[k][w] ELSE <<>>]]
    /\ active' = v /\ installing' = 0
    /\ UNCHANGED <<work, session, clearing, untrimmed>>

-----------------------------------------------------------------------------
(* What a worker does with a request, in the version that it came to.      *)

BeginLoad(l, kind, urls) ==
    /\ work[l].step = "idle" /\ active # 0
    /\ work' = [work EXCEPT ![l] = [step |-> "fetching", kind |-> kind,
                  version |-> active, urls |-> urls, keys |-> <<>>,
                  session |-> IF kind = "pages" THEN session ELSE 0]]
    /\ UNCHANGED <<caches, active, installing, session, clearing, untrimmed>>

\* networkFirstNavigation.
NavigateTo(l, p) == BeginLoad(l, "pages", {p})

\* cacheFirst: a file that no cache has.
FetchAsset(l, a) ==
    /\ \A k \in CacheKind, v \in WorkerVersion : a \notin ToSet(Urls(caches[k][v]))
    /\ BeginLoad(l, "static", {a})

\* CACHE_APP_SHELL: the files a page has loaded, those that are not missing.
CacheAppShell(l) == \E urls \in SUBSET Asset : BeginLoad(l, "static", urls)

\* The network fails or the response is not to be stored; a page falls back to
\* what the caches have.
NotStored(l) ==
    /\ work[l].step = "fetching"
    /\ work' = [work EXCEPT ![l] = Resting]
    /\ UNCHANGED <<caches, active, installing, session, clearing, untrimmed>>

\* cache.put and cache.add: an entry that was there is replaced by a new last.
Stored(l, entries) ==
    Keeping(entries, work[l].urls)
      \o SetToSeq({[url |-> u, session |-> work[l].session,
                    late |-> work[l].session \notin {0, session}] : u \in work[l].urls})

Store(l) ==
    /\ work[l].step = "fetching"
    /\ caches' = [caches EXCEPT ![work[l].kind][work[l].version] = Stored(l, @)]
    /\ work' = [work EXCEPT ![l] = [@ EXCEPT !.step = "trimming", !.urls = {}]]
    /\ UNCHANGED <<active, installing, session, clearing, untrimmed>>

Excess(keys, limit) == Len(keys) - limit

\* trimCache: the keys are listed, and the first of them deleted one by one.
ListKeys(l) ==
    LET keys == Urls(caches[work[l].kind][work[l].version])
        out  == SubSeq(keys, 1, Excess(keys, Limit(work[l].kind)))
    IN
    /\ work[l].step = "trimming"
    /\ work' = [work EXCEPT ![l] = IF Excess(keys, Limit(work[l].kind)) > 0
                  THEN [@ EXCEPT !.step = "deleting", !.keys = out] ELSE Resting]
    /\ untrimmed' = untrimmed \ {<<work[l].kind, work[l].version>>}
    /\ UNCHANGED <<caches, active, installing, session, clearing>>

DeleteOldest(l) ==
    LET keys == work[l].keys IN
    /\ work[l].step = "deleting"
    /\ caches' = [caches EXCEPT ![work[l].kind][work[l].version] = Keeping(@, {Head(keys)})]
    /\ work' = [work EXCEPT ![l] = IF Len(keys) = 1 THEN Resting
                                   ELSE [@ EXCEPT !.keys = Tail(keys)]]
    /\ UNCHANGED <<active, installing, session, clearing, untrimmed>>

\* Opening the cache, listing its keys or a deletion fails, which is swallowed:
\* what had yet to be deleted stays.
TrimFails(l) ==
    /\ work[l].step \in {"trimming", "deleting"}
    /\ work' = [work EXCEPT ![l] = Resting]
    /\ untrimmed' = untrimmed \cup {<<work[l].kind, work[l].version>>}
    /\ UNCHANGED <<caches, active, installing, session, clearing>>

-----------------------------------------------------------------------------
(* The page signs out: a message to its worker, and the caches itself.     *)

SignOut ==
    /\ clearing = {} /\ session < MaxSession
    /\ session' = session + 1
    /\ clearing' = {"page"} \cup IF active = 0 THEN {} ELSE {"worker"}
    /\ UNCHANGED <<caches, active, installing, work, untrimmed>>

\* CLEAR_PAGE_CACHE, to whichever worker controlled the page; it is enough for
\* the caches of one version.
ClearByWorker ==
    /\ "worker" \in clearing
    /\ caches' = [caches EXCEPT !["pages"][active] = <<>>]
    /\ clearing' = clearing \ {"worker"}
    /\ UNCHANGED <<active, installing, work, session, untrimmed>>

\* Mutant: only the caches of the current version are deleted.
OfVersion(v) == v = active

IsPageCache(v) == v \in WorkerVersion

ClearByPage ==
    /\ "page" \in clearing
    /\ caches' = [caches EXCEPT !["pages"] =
                    [v \in WorkerVersion |-> IF IsPageCache(v) THEN <<>> ELSE @[v]]]
    /\ clearing' = clearing \ {"page"}
    /\ UNCHANGED <<active, installing, work, session, untrimmed>>

CacheNext ==
    \/ Register \/ \E v \in WorkerVersion : Install(v) \/ Activate(v)
    \/ \E l \in Load :
         \/ \E p \in WebPage : NavigateTo(l, p)
         \/ \E a \in Asset : FetchAsset(l, a)
         \/ CacheAppShell(l) \/ NotStored(l) \/ Store(l)
         \/ ListKeys(l) \/ DeleteOldest(l) \/ TrimFails(l)
    \/ SignOut \/ ClearByWorker \/ ClearByPage

CacheSpec == CacheInit /\ [][CacheNext]_cvars

-----------------------------------------------------------------------------
Entry == [url : WebPage \cup Asset \cup {"offline"}, session : 0..session, late : BOOLEAN]

\* Every variable has its type.
CacheTypeOK ==
    /\ \A k \in CacheKind, v \in WorkerVersion : ToSet(caches[k][v]) \subseteq Entry
    /\ active \in 0..MaxVersion /\ installing \in 0..MaxVersion
    /\ session \in 1..MaxSession /\ clearing \subseteq {"page", "worker"}
    /\ \A l \in Load : work[l].step \in {"idle", "fetching", "trimming", "deleting"}
    /\ untrimmed \subseteq CacheKind \X WorkerVersion

\* Once nobody works on a cache it is within its limit, however the stores and
\* the trims of several requests have crossed, unless a trim of it has failed
\* since its keys were last listed: then it waits for the next store to be cut.
CachesBounded ==
    \A k \in {"static", "pages"}, v \in WorkerVersion :
        (\A l \in Load : work[l].step \in {"idle", "fetching"}
                         \/ work[l].kind # k \/ work[l].version # v) =>
            Len(caches[k][v]) <= Limit(k) \/ <<k, v>> \in untrimmed

\* A sign-out takes the pages of its session with it, those of a replaced
\* worker's version as well: what is left of an earlier session was still on
\* its way when it ended.
PagesEndWithSession ==
    clearing = {} =>
        \A v \in WorkerVersion : \A e \in ToSet(caches["pages"][v]) :
            e.session = session \/ e.late

\* The caches keep no more than they should, and not for longer.
CachesAreKeptSmall == CachesBounded /\ PagesEndWithSession
=============================================================================
