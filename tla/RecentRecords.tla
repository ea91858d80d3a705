---------------------------- MODULE RecentRecords ----------------------------
(***************************************************************************)
(* The two ring buffers of a process: the slow queries an administrator    *)
(* may list, and the durations its latency percentiles are taken from.     *)
(* Both keep a counter of all writes and overwrite the oldest slot.        *)
(***************************************************************************)
EXTENDS Integers, Sequences, FiniteSets

CONSTANTS
    Capacity,       \* slots of either ring
    Duration,       \* durations of queries and requests, in milliseconds
    Threshold,      \* of a slow query
    MaxWritten      \* bound on queries and requests

ASSUME RingAssumption ==
    /\ Capacity \in Nat \ {0} /\ MaxWritten \in Nat
    /\ Duration \subseteq Nat /\ Threshold \in Nat

VARIABLES
    slots,      \* the slow queries held, by slot
    written,    \* slow queries ever
    window,     \* the durations held, by slot
    sampled,    \* durations ever
    queries,    \* what was slow (history)
    timed       \* what was timed (history)

gvars == <<slots, written, window, sampled, queries, timed>>

Slot == 0..(Capacity - 1)

RingInit ==
    /\ slots = [i \in Slot |-> 0] /\ written = 0 /\ queries = <<>>
    /\ window = [i \in Slot |-> 0] /\ sampled = 0 /\ timed = <<>>

\* The slot the next write goes to.
\* Mutant: the slot is counted from one.
SlotAfter(n) == (n + 1) % Capacity

SlotOf(n) == n % Capacity

\* instrumentSql times every query; push keeps a slow one.
QueryEnds(d) ==
    /\ Len(queries) < MaxWritten /\ d > Threshold
    /\ slots' = [slots EXCEPT ![SlotOf(written)] = d]
    /\ written' = written + 1
    /\ queries' = Append(queries, d)
    /\ UNCHANGED <<window, sampled, timed>>

\* record, after every response. A duration that is not finite is left out.
RequestEnds(d) ==
    /\ Len(timed) < MaxWritten
    /\ window' = [window EXCEPT ![SlotOf(sampled)] = d]
    /\ sampled' = sampled + 1
    /\ timed' = Append(timed, d)
    /\ UNCHANGED <<slots, written, queries>>

\* reset clears the window.
ResetWindow ==
    /\ sampled > 0
    /\ window' = [i \in Slot |-> 0] /\ sampled' = 0 /\ timed' = <<>>
    /\ UNCHANGED <<slots, written, queries>>

RingNext ==
    \/ \E d \in Duration : QueryEnds(d) \/ RequestEnds(d)
    \/ ResetWindow

RingSpec == RingInit /\ [][RingNext]_gvars

-----------------------------------------------------------------------------
Lesser(m, n) == IF m < n THEN m ELSE n

Retained(n) == Lesser(n, Capacity)

\* recent: from the oldest of the wanted records on.
Recent(limit) ==
    LET wanted == Lesser(limit, Retained(written))
    IN  [i \in 1..wanted |-> slots[(written - wanted + i - 1) % Capacity]]

\* snapshot sorts the slots that were written, each to the place after all that
\* are less, the equal ones in their order; a percentile is the entry of its
\* rank, in hundredths.
InWindow == 0..(Retained(sampled) - 1)

UpTo(i) ==
    {j \in InWindow : window[j] < window[i] \/ (window[j] = window[i] /\ j <= i)}

PlaceOf(i) == Cardinality(UpTo(i))

Sorted ==
    [n \in 1..Retained(sampled) |-> window[CHOOSE i \in InWindow : PlaceOf(i) = n]]

Ceil(n, d) == (n + d - 1) \div d

Rank(percent, n) == Lesser(IF Ceil(percent * n, 100) > 1
                           THEN Ceil(percent * n, 100) ELSE 1, n)

Percentile(percent) == Sorted[Rank(percent, Retained(sampled))]

-----------------------------------------------------------------------------
Newest(history, n) == SubSeq(history, Len(history) - Lesser(n, Len(history)) + 1,
                             Len(history))

\* The slow queries listed are the newest, oldest first, as many as asked for
\* and still held, before and after the buffer has wrapped.
RecentIsNewest ==
    \A limit \in 0..(Capacity + 1) : Recent(limit) = Newest(queries, Lesser(limit, Capacity))

Within(last, v) == {i \in 1..Len(last) : last[i] <= v}

\* A percentile is the least duration of the last Capacity requests that so
\* many of them do not exceed.
PercentileIsNearestRank ==
    LET last == Newest(timed, Capacity)
        AtMost(v) == Cardinality(Within(last, v))
    IN  last # <<>> => \A percent \in {50, 95, 99} :
          LET p == Percentile(percent)
          IN  /\ 100 * AtMost(p) >= percent * Len(last)
              /\ \A i \in 1..Len(last) :
                   last[i] < p => 100 * AtMost(last[i]) < percent * Len(last)

\* What an administrator is shown is about the newest records and nothing else:
\* no slot is read that was not written, or was reset, or has been overwritten.
ReportsAreRecent == RecentIsNewest /\ PercentileIsNearestRank
=============================================================================
