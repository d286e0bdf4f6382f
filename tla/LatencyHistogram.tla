-------------------------- MODULE LatencyHistogram --------------------------
(***************************************************************************)
(* telemetry/metrics.hpp and metrics.cpp: workers add latencies to buckets *)
(* of powers of two while the metrics thread asks for a percentile, which  *)
(* walks the buckets twice, one relaxed load after the other.              *)
(***************************************************************************)
EXTENDS Integers, FiniteSetsExt

CONSTANTS LatencyBits,   \* width of a latency, 64 in the code
          Latencies,     \* the ones that are recorded
          MaxSamples     \* bound: how many

VARIABLES buckets,       \* buckets_
          reader         \* the call of percentile

histogramVars == <<buckets, reader>>

BucketIds == 0 .. LatencyBits      \* the code has more, which no latency reaches
Percentiles == {<<1, 2>>, <<19, 20>>, <<99, 100>>}   \* p50, p95, p99

Pow2[n \in BucketIds] == IF n = 0 THEN 1 ELSE 2 * Pow2[n - 1]

ASSUME HistogramAssumption ==
    /\ LatencyBits \in Nat /\ MaxSamples \in Nat
    /\ \A latency \in Latencies : latency \in Nat /\ latency < Pow2[LatencyBits]

\* Samples in the buckets below n, in those up to i, and in all.
Below(b, n) ==
    LET sum[i \in 0 .. LatencyBits + 1] == IF i = 0 THEN 0 ELSE sum[i - 1] + b[i - 1] IN sum[n]
UpTo(b, i) == Below(b, i + 1)
Samples(b) == Below(b, LatencyBits + 1)

HistogramInit ==
    /\ buckets = [i \in BucketIds |-> 0]
    /\ reader = [at |-> "idle"]

\* 64 - clz: the number of bits of a latency
bucket_for(latency) == Min({i \in BucketIds : latency < Pow2[i]})

Record(latency) ==
    /\ Samples(buckets) < MaxSamples
    /\ buckets' = [buckets EXCEPT ![bucket_for(latency)] = @ + 1]
    /\ UNCHANGED reader

\* get_all_metrics asks for p50, p95 and p99.
PercentileCalled ==
    /\ reader.at = "idle"
    /\ \E p \in Percentiles :
          reader' = [at |-> "sum", p |-> p, i |-> 0, total |-> 0, count |-> 0, target |-> 0,
                     result |-> 0, start |-> buckets]
    /\ UNCHANGED buckets

\* total += b.load(); after the last bucket the target is known.
PercentileSums ==
    LET total == reader.total + buckets[reader.i] IN
    /\ reader.at = "sum"
    /\ reader' = IF reader.i < LatencyBits
                 THEN [reader EXCEPT !.i = @ + 1, !.total = total]
                 ELSE [reader EXCEPT !.i = 0, !.total = total,
                                     !.target = (total * reader.p[1]) \div reader.p[2],
                                     !.at = IF total = 0 THEN "returned" ELSE "count"]
    /\ UNCHANGED buckets

Exceeds(count, target) == count > target   \* mutant: > for >=
Reaches(count, target) == count >= target

\* count += buckets_[i].load(); the bucket that reaches the target gives its lower bound.
PercentileCounts ==
    LET count == reader.count + buckets[reader.i] IN
    /\ reader.at = "count"
    /\ reader' = [reader EXCEPT
                     !.count = count,
                     !.i = IF Reaches(count, reader.target) THEN @ ELSE @ + 1,
                     !.result = IF Reaches(count, reader.target) THEN Pow2[Max({reader.i - 1, 0})]
                                ELSE 0,
                     !.at = IF Reaches(count, reader.target) \/ reader.i = LatencyBits
                            THEN "returned" ELSE "count"]
    /\ UNCHANGED buckets

HistogramNext ==
    \/ \E latency \in Latencies : Record(latency)
    \/ PercentileCalled \/ PercentileSums \/ PercentileCounts

HistogramSpec == HistogramInit /\ [][HistogramNext]_histogramVars

\* A percentile computed while latencies are recorded is one of some moment of the call:
\* its rank lies between p of the samples there were at the call and p of those there
\* are at the return, and the bucket it names is where a sample of that rank is.  A
\* percentile is 0 only if nothing was recorded before.  A target of 0 names the first
\* bucket, empty or not, and is left out (metrics.cpp:6-22).
PercentileRank ==
    reader.at = "returned" =>
        IF reader.total = 0 THEN Samples(reader.start) = 0
        ELSE reader.target > 0 =>
             /\ (Samples(reader.start) * reader.p[1]) \div reader.p[2] <= reader.target
             /\ reader.target * reader.p[2] <= Samples(buckets) * reader.p[1]
             /\ reader.result > 0
             /\ UpTo(reader.start, reader.i - 1) < reader.target
             /\ reader.target <= UpTo(buckets, reader.i)

=============================================================================
