------------------------------ MODULE Metrics ------------------------------
(***************************************************************************)
(* The latencies of src/src/vkllm/metrics.py: a bounded window of the last *)
(* ones, and the percentiles that a snapshot takes of it.  (The counters   *)
(* are variables of Scheduler.tla.)  Every method holds one lock, so a     *)
(* snapshot is of one moment.  Latencies are integers, and a percentile is *)
(* an integer of 1 to 100: snapshot asks for 50 and 99.                    *)
(***************************************************************************)
EXTENDS Integers, Sequences, FiniteSets, SequencesExt

CONSTANTS
  Window,        \* the length of the window
  Pcts,          \* percentiles
  Latencies,     \* values of a latency
  MaxRecords     \* bound: calls of record_completion

ASSUME MetricsAssumption ==
  /\ Window \in Nat \ {0}
  /\ Pcts \subseteq 1..100
  /\ Latencies \subseteq Nat
  /\ MaxRecords \in Nat

VARIABLES
  latencies,     \* the window
  recorded       \* history: every latency so far

metricsVars == <<latencies, recorded>>

-----------------------------------------------------------------------------
(* The window *)

MetricsInit == latencies = <<>> /\ recorded = <<>>

\* (bug variant) a full window keeps what it has
PushedIfRoom(latency) ==
  IF Len(latencies) < Window THEN Append(latencies, latency) ELSE latencies

\* deque(maxlen=window).append: the oldest makes room.
Pushed(latency) ==
  IF Len(latencies) < Window
  THEN Append(latencies, latency)
  ELSE Append(Tail(latencies), latency)

RecordCompletion ==
  \E latency \in Latencies :
    /\ Len(recorded) < MaxRecords
    /\ latencies' = Pushed(latency)
    /\ recorded' = Append(recorded, latency)

MetricsNext == RecordCompletion

MetricsSpec == MetricsInit /\ [][MetricsNext]_metricsVars

-----------------------------------------------------------------------------
(* The percentile *)

\* Python's round of x / 100: half to even.
Round(x) ==
  LET whole == x \div 100
      rest == x % 100
  IN  CASE rest < 50 -> whole
        [] rest > 50 -> whole + 1
        [] OTHER -> whole + (whole % 2)

\* (bug variant) n + 1 steps from end to end
PositionPast(n, pct) == Round(pct * (n + 1))

\* Where pct percent of the way from the first sample to the last one lies.
Position(n, pct) == Round(pct * (n - 1))

\* The index (from 0) into n sorted samples.
Rank(n, pct) ==
  LET k == IF Position(n, pct) > n - 1 THEN n - 1 ELSE Position(n, pct)
  IN  IF k < 0 THEN 0 ELSE k

Percentile(sorted_vals, pct) ==
  IF sorted_vals = <<>> THEN 0
  ELSE sorted_vals[Rank(Len(sorted_vals), pct) + 1]

\* The indices of the samples below v, and of those up to v.
Below(s, v) == {j \in DOMAIN s : s[j] < v}
UpTo(s, v) == {j \in DOMAIN s : s[j] <= v}

\* sorted: fewer than k samples are below the k-th, and k or more up to it.
Sorted(s) ==
  [k \in 1..Len(s) |->
     CHOOSE v \in ToSet(s) :
       Cardinality(Below(s, v)) < k /\ k <= Cardinality(UpTo(s, v))]

Snapshot ==
  LET lat == Sorted(latencies)
  IN  [p50 |-> Percentile(lat, 50), p99 |-> Percentile(lat, 99),
       samples |-> Len(lat)]

-----------------------------------------------------------------------------
(* Properties *)

\* A percentile cuts the window where it says: of the other n - 1 samples, at
\* most pct percent are below it and at most the rest above it, give or take the
\* half place that rounding moves it.
PercentileCuts ==
  latencies # <<>> =>
    \A pct \in Pcts :
      LET n == Len(latencies)
          v == Percentile(Sorted(latencies), pct)
      IN  /\ 100 * Cardinality(Below(latencies, v)) <= pct * (n - 1) + 50
          /\ 100 * (n - Cardinality(UpTo(latencies, v)))
               <= (100 - pct) * (n - 1) + 50

\* A snapshot tells of the last requests only, as many as the window holds:
\* both percentiles are latencies among these, the median not above the other.
SnapshotIsRecent ==
  LET old == IF Len(recorded) > Window THEN Len(recorded) - Window ELSE 0
      recent == ToSet(SubSeq(recorded, old + 1, Len(recorded)))
  IN  /\ Snapshot.samples = Len(recorded) - old
      /\ recorded # <<>> => {Snapshot.p50, Snapshot.p99} \subseteq recent
      /\ Snapshot.p50 <= Snapshot.p99

-----------------------------------------------------------------------------
(* What a comment says and the code does not do *)

\* The index of the nearest rank: of the first sample with at least pct percent
\* of the n samples up to it.
NearestRank(n, pct) == (pct * n + 99) \div 100 - 1

\* metrics.py: nearest-rank percentile.  The code rounds an interpolated place
\* instead, half to even: its median of four samples is the third.
RankIsNearest ==
  latencies # <<>> =>
    \A pct \in Pcts :
      Rank(Len(latencies), pct) = NearestRank(Len(latencies), pct)
=============================================================================
