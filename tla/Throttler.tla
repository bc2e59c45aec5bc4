------------------------------ MODULE Throttler ------------------------------
(***************************************************************************)
(* BoarThrottler (core/throttler.py): how many workers the moving average  *)
(* of the latest latencies allows.  Latencies are whole numbers of a unit  *)
(* that TargetLatency is given in too; averages are compared exactly, by   *)
(* multiplying out, where the code divides floating-point numbers.         *)
(***************************************************************************)
EXTENDS Naturals, Sequences
LOCAL INSTANCE SequencesExt

CONSTANTS
    TargetLatency,  \* target_latency_ms
    MaxWorkers,     \* max_workers
    WindowSize      \* maxlen of latency_history

ASSUME ThrottlerAssumption ==
    /\ TargetLatency \in Nat \ {0}
    /\ MaxWorkers \in Nat \ {0}
    /\ WindowSize \in Nat \ {0}

AtLeastOne(n) == IF n < 1 THEN 1 ELSE n

\* The deque drops its oldest latency when it is full.
Remember(history, latency) ==
    LET h == Append(history, latency)
    IN  IF Len(h) > WindowSize THEN Tail(h) ELSE h

Total(history) == FoldSeq(+, 0, history)

\* The average exceeds n / d times the target.
Above(history, n, d) == d * Total(history) > n * TargetLatency * Len(history)
Below(history, n, d) == d * Total(history) < n * TargetLatency * Len(history)

\* _adjust_throttle: halve, step down, step up, or stay.
Adjust(workers, history) ==
    IF Above(history, 2, 1) THEN AtLeastOne(workers \div 2)
    ELSE IF Above(history, 1, 1) THEN AtLeastOne(workers - 1)
    ELSE IF Below(history, 4, 5) /\ workers < MaxWorkers THEN workers + 1
    ELSE workers
=============================================================================
