---------------------------- MODULE TuningPolicy ----------------------------
(***************************************************************************)
(* The decisions of the auto-tuner: which labels a workload gets, which    *)
(* settings the policy wants for them, and whether a trial made things     *)
(* better or worse.  Pure functions; TuningController calls them.          *)
(*                                                                         *)
(* Times to first token are in milliseconds, rates in tokens per second    *)
(* and error rates in percent, with the thresholds the code defaults to.   *)
(***************************************************************************)
EXTENDS Integers, Sequences

CONSTANTS
  MinChunk, MaxChunk, ChunkStep,      \* PolicyConfig
  MinBudget, MaxBudget, BudgetStep,
  MaxConcurrent,
  Window,                             \* queue_high_window_sec
  MinSamples                          \* queue_high_min_samples

ASSUME PolicyAssumption ==
  /\ MinChunk \in Nat \ {0} /\ MaxChunk \in Nat /\ MinChunk <= MaxChunk
  /\ MinBudget \in Nat \ {0} /\ MaxBudget \in Nat /\ MinBudget <= MaxBudget
  /\ ChunkStep \in Nat /\ BudgetStep \in Nat
  /\ MaxConcurrent \in Nat \ {0}
  /\ Window \in Nat /\ MinSamples \in Nat

Goals == {"latency", "throughput", "balanced"}

(* The settings a plan may change; use_paged_kv_cache is in no plan. *)
Keys == {"chunk", "budget", "concurrent", "prefix"}
Settings == [chunk : Int, budget : Int, concurrent : Int, prefix : BOOLEAN]

-----------------------------------------------------------------------------
(* WorkloadClassifier *)

QueueHighThreshold == 2

(* _prune_queue_samples: the oldest go, until one is within the window.  Ages
   stand for timestamps: the oldest sample, the first, has the greatest age. *)
Fresh(samples) ==
  LET n == CHOOSE n \in 0 .. Len(samples) :
             /\ \A i \in 1 .. n : samples[i].age > Window
             /\ n < Len(samples) => samples[n + 1].age <= Window
  IN  SubSeq(samples, n + 1, Len(samples))

QueueHigh(samples) ==
  LET n == Len(samples) IN
  /\ n >= MinSamples /\ n > 0
  /\ \A i \in 1 .. n : samples[i].queued >= QueueHighThreshold
  /\ 10 * (samples[1].age - samples[n].age) >= 9 * Window

Labels(m, samples) ==
  [queueHigh        |-> QueueHigh(samples),
   prefixFriendly   |-> m.prefixFriendly,
   latencySensitive |-> m.ttft >= 500,
   throughputLow    |-> m.tps < 10 /\ (m.active > 0 \/ m.queued > 0),
   errorElevated    |-> m.err >= 5]

-----------------------------------------------------------------------------
(* TuningPolicy *)

AtLeast(low, n) == IF n < low THEN low ELSE n
AtMost(high, n) == IF n > high THEN high ELSE n
(* Slip: the bounds are forgotten. *)
StepInt_Unclamped(current, delta, low, high) == current + delta

(* _step_int; the current value stands for None *)
StepInt(current, delta, low, high) ==
  IF delta = 0 THEN current ELSE AtLeast(low, AtMost(high, current + delta))

ChunkDelta(labels, goal, cacheInitialized) ==
  CASE goal = "latency" /\ (labels.latencySensitive \/ labels.queueHigh)
         -> - ChunkStep
    [] goal = "balanced" /\ (labels.latencySensitive
                              \/ (labels.queueHigh /\ cacheInitialized))
         -> (- ChunkStep) \div 2
    [] OTHER -> 0

BudgetDelta(labels, goal) ==
  CASE goal = "latency" /\ labels.latencySensitive -> - BudgetStep
    [] goal = "throughput" /\ labels.throughputLow -> BudgetStep
    [] goal = "balanced" /\ labels.throughputLow   -> AtLeast(1, BudgetStep \div 2)
    [] OTHER -> 0

ConcurrencyDelta(labels, goal, cacheInitialized) ==
  IF goal # "latency" /\ labels.queueHigh /\ ~cacheInitialized THEN 1 ELSE 0

(* The settings the rules want, from which the plan is what differs.  No
   two rules want different values for one setting. *)
Wanted(current, labels, goal, paged, cacheInitialized) ==
  [chunk      |-> StepInt(current.chunk, ChunkDelta(labels, goal, cacheInitialized),
                          MinChunk, MaxChunk),
   budget     |-> StepInt(current.budget, BudgetDelta(labels, goal),
                          MinBudget, MaxBudget),
   concurrent |-> StepInt(current.concurrent,
                          ConcurrencyDelta(labels, goal, cacheInitialized),
                          1, MaxConcurrent),
   prefix     |-> current.prefix
                   \/ (labels.prefixFriendly /\ paged /\ ~cacheInitialized)]

(* propose(): the keys it would change, each with its new value; no key at
   all is the code's None. *)
Propose(current, labels, goal, paged, cacheInitialized) ==
  LET want == Wanted(current, labels, goal, paged, cacheInitialized)
      keys == {k \in Keys : want[k] # current[k] /\ ~labels.errorElevated}
  IN  [k \in keys |-> want[k]]

-----------------------------------------------------------------------------
(* TuningController._is_regression and _is_improvement *)

ErrorsRose(base, now) == now.err > base.err + 2

LatencyRegressed(base, now) ==
  base.ttft > 0 /\ 100 * now.ttft > 105 * base.ttft
ThroughputRegressed(base, now) ==
  base.tps > 0 /\ 100 * now.tps < 95 * base.tps

IsRegression(goal, base, now) ==
  \/ ErrorsRose(base, now)
  \/ (goal # "throughput" /\ LatencyRegressed(base, now))
  \/ (goal # "latency" /\ ThroughputRegressed(base, now))

LatencyImproved(base, now) == base.ttft > 0 /\ now.ttft < base.ttft
ThroughputImproved(base, now) ==
  IF base.tps <= 0 THEN now.tps > 0 ELSE 100 * now.tps >= 105 * base.tps
BothHeldOneBetter(base, now) ==
  /\ base.ttft <= 0 \/ 100 * now.ttft <= 102 * base.ttft
  /\ base.tps <= 0 \/ 100 * now.tps >= 98 * base.tps
  /\ now.ttft < base.ttft \/ now.tps > base.tps

IsImprovement(goal, base, now) ==
  /\ ~ErrorsRose(base, now)
  /\ CASE goal = "latency"    -> LatencyImproved(base, now)
       [] goal = "throughput" -> ThroughputImproved(base, now)
       [] OTHER               -> BothHeldOneBetter(base, now)
=============================================================================
