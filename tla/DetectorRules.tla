--------------------------- MODULE DetectorRules ---------------------------
(***************************************************************************)
(* The windows of the anomaly detector and its decision, as its handler    *)
(* has them and the smoke test restates them.  Time is counted in          *)
(* 15-minute buckets: keys are aligned to 900 s, so the bucket of          *)
(* now - 15 min * i is the bucket of now, less i.                          *)
(***************************************************************************)
EXTENDS Integers, Functions

CONSTANTS
    CurrentBuckets,    \* CURRENT_WINDOW_BUCKETS
    BaselineBuckets,   \* BASELINE_WINDOW_BUCKETS
    WindowsPerHour,    \* BASELINE_WINDOWS_PER_HOUR
    Threshold,         \* anomaly_threshold
    MinRequests,       \* anomaly_min_requests
    AutoBlock,         \* anomaly_auto_block
    BlockTTL,          \* anomaly_auto_block_ttl_seconds, in buckets
    InvocationTime,    \* the function's Timeout, in buckets, rounded up
    MaxTime            \* bound on the clock

ASSUME RulesAssumption ==
    /\ CurrentBuckets \in Nat \ {0}
    /\ BaselineBuckets \in Nat
    /\ WindowsPerHour \in Nat \ {0}
    /\ Threshold \in Nat
    /\ MinRequests \in Nat \ {0}
    /\ AutoBlock \in BOOLEAN
    /\ BlockTTL \in Nat
    /\ InvocationTime \in Nat
    /\ MaxTime \in Nat

Buckets == 0..MaxTime
NoRecord == -1

\* Bucket i of the series that goes back from now; there is none before time 0.
SeriesBucket(now, i) == now - i

\* What a user's counters, by bucket, hold for bucket b.
CountAt(counts, b) == IF b \in Buckets THEN counts[b] ELSE 0

\* Mutant: a window that takes in one bucket too many.
CurrentOffsetsOneMore == 0 .. CurrentBuckets

\* The offsets of the current window, and the last one of the baseline window
\* that starts where the current one ends (_bucket_series).
CurrentOffsets == 0 .. (CurrentBuckets - 1)
LastOffset == CurrentBuckets + BaselineBuckets - 1
BaselineOffsets == CurrentBuckets .. LastOffset

\* max(1, baseline_window_buckets // BASELINE_WINDOWS_PER_HOUR)
BaselineHours ==
    LET hours == BaselineBuckets \div WindowsPerHour IN IF hours > 1 THEN hours ELSE 1

\* max(1, baseline / hours), times the hours.
Normal(baseline) == IF baseline > BaselineHours THEN baseline ELSE BaselineHours

\* ratio >= threshold, without the division.
IsAnomaly(current, baseline) ==
    /\ current >= MinRequests
    /\ current * BaselineHours >= Threshold * Normal(baseline)

-----------------------------------------------------------------------------
\* The requests in the buckets at the given offsets before now.
WindowTotal(counts, now, offsets) ==
    SumFunction([i \in offsets |-> CountAt(counts, SeriesBucket(now, i))])

=============================================================================
