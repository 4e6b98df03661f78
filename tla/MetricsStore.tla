---------------------------- MODULE MetricsStore ----------------------------
(***************************************************************************)
(* Snapshots of the metrics while the engine works.  A reader (a request   *)
(* of the dashboard, a tick of the tuning controller, the end of a         *)
(* benchmark) looks at the scheduler's queues without the engine's lock,   *)
(* at the store's rates under the store's lock, and at totals and time     *)
(* series without it; the engine reports one locked call at a time.        *)
(*                                                                         *)
(* Of the engine are left the places its requests go through, and of the   *)
(* store the completions: their total, and their timestamps, a deque of    *)
(* bounded length, which here holds requests whose age TimePasses moves.   *)
(* The other totals are in EngineMetrics; the probe's readings and the     *)
(* samples of durations are left out.                                      *)
(***************************************************************************)
EXTENDS Naturals, Sequences, FiniteSets, SequencesExt

CONSTANTS
  Requests, Readers,
  MaxConcurrent,      \* max_concurrent_requests
  Window,             \* window_sec
  MaxTimestamps       \* maxlen of _completion_timestamps

ASSUME StoreAssumption == /\ MaxConcurrent \in Nat \ {0} /\ Window \in Nat
                          /\ MaxTimestamps \in Nat \ {0} /\ IsFiniteSet(Requests)

VARIABLES
  waiting, running,           \* the scheduler's queues
  leaving,                    \* what has left running and is not reported yet
  completed,                  \* what has been reported
  total_completed,
  completion_timestamps,      \* newest last
  age,                        \* age[i]: time since i was reported, up to Window + 1
  rpc,                        \* rpc[d]: where reader d is in snapshot()
  view,                       \* view[d]: what it has read
  disturbed                   \* readers under whose iteration a series has grown

engineVars == <<waiting, running, leaving, completed>>
storeVars == <<total_completed, completion_timestamps, age>>
readerVars == <<rpc, view, disturbed>>
vars == <<engineVars, storeVars, readerVars>>

Nothing == [active |-> {}, queued |-> {}, completed |-> 0]

Init ==
  /\ waiting = <<>> /\ running = {} /\ leaving = {} /\ completed = {}
  /\ total_completed = 0 /\ completion_timestamps = <<>>
  /\ age = [i \in Requests |-> 0]
  /\ rpc = [d \in Readers |-> "idle"]
  /\ view = [d \in Readers |-> Nothing]
  /\ disturbed = {}

-----------------------------------------------------------------------------
(* The engine.  One request leaves and is reported before anything else is
   done under the engine's lock. *)

Enqueue(i) ==
  /\ leaving = {}
  /\ i \notin ToSet(waiting) \cup running \cup completed
  /\ waiting' = Append(waiting, i)
  /\ UNCHANGED <<running, leaving, completed, storeVars, readerVars>>

(* In between a request is in neither queue, which counts it less, not more:
   one action. *)
Admit ==
  /\ leaving = {} /\ waiting # <<>> /\ Cardinality(running) < MaxConcurrent
  /\ waiting' = Tail(waiting) /\ running' = running \cup {Head(waiting)}
  /\ UNCHANGED <<leaving, completed, storeVars, readerVars>>

(* A point is added to a series: whoever iterates over it will see that it
   has changed. *)
Disturb(R) == disturbed' = disturbed \cup {d \in R : rpc[d] = "copy"}

(* record_prefill_step or record_decode_step *)
RecordStep ==
  /\ leaving = {} /\ running # {}
  /\ Disturb(Readers)
  /\ UNCHANGED <<engineVars, storeVars, rpc, view>>

Leave(i) ==
  /\ leaving = {} /\ i \in running
  /\ running' = running \ {i} /\ leaving' = {i}
  /\ UNCHANGED <<waiting, completed, storeVars, readerVars>>

(* Slip: the newest timestamps are the ones that are lost. *)
Newest_Dropped(q) == SubSeq(q, 1, IF Len(q) < MaxTimestamps THEN Len(q) ELSE MaxTimestamps)

(* what a deque of bounded length keeps *)
Newest(q) == IF Len(q) <= MaxTimestamps THEN q ELSE Tail(q)

RecordCompletion(i) ==
  /\ i \in leaving
  /\ leaving' = {} /\ completed' = completed \cup {i}
  /\ total_completed' = total_completed + 1
  /\ completion_timestamps' = Newest(Append(completion_timestamps, i))
  /\ UNCHANGED <<waiting, running, age, readerVars>>

TimePasses ==
  /\ age' = [i \in Requests |-> IF i \in completed /\ age[i] <= Window THEN age[i] + 1 ELSE age[i]]
  /\ age' # age
  /\ UNCHANGED <<engineVars, total_completed, completion_timestamps, readerVars>>

-----------------------------------------------------------------------------
(* The readers *)

ReaderGoes(d, p) == rpc' = [rpc EXCEPT ![d] = p]

(* active = len(scheduler.running) *)
CountRunning(d) ==
  /\ rpc[d] = "idle"
  /\ view' = [view EXCEPT ![d] = [Nothing EXCEPT !.active = running]]
  /\ ReaderGoes(d, "queue")
  /\ UNCHANGED <<engineVars, storeVars, disturbed>>

(* queued = len(scheduler.waiting) *)
CountWaiting(d) ==
  /\ rpc[d] = "queue"
  /\ view' = [view EXCEPT ![d].queued = ToSet(waiting)]
  /\ ReaderGoes(d, "sample")
  /\ UNCHANGED <<engineVars, storeVars, disturbed>>

(* Slip: the queues are looked at in the order a request goes through them. *)
CountQueues_WaitingFirst(d) ==
  \/ /\ rpc[d] = "idle"
     /\ view' = [view EXCEPT ![d] = [Nothing EXCEPT !.queued = ToSet(waiting)]]
     /\ ReaderGoes(d, "queue")
     /\ UNCHANGED <<engineVars, storeVars, disturbed>>
  \/ /\ rpc[d] = "queue"
     /\ view' = [view EXCEPT ![d].active = running]
     /\ ReaderGoes(d, "sample")
     /\ UNCHANGED <<engineVars, storeVars, disturbed>>

CountQueues(d) == CountRunning(d) \/ CountWaiting(d)

(* record_runtime_sample *)
Sample(d) ==
  /\ rpc[d] = "sample"
  /\ Disturb(Readers) /\ ReaderGoes(d, "rates")
  /\ UNCHANGED <<engineVars, storeVars, view>>

(* _rate, times the window *)
Recent(q) == Cardinality({j \in DOMAIN q : age[q[j]] <= Window})

(* the part of snapshot() under the store's lock *)
Rates(d) ==
  /\ rpc[d] = "rates"
  /\ Disturb(Readers) /\ ReaderGoes(d, "totals")
  /\ UNCHANGED <<engineVars, storeVars, view>>

Totals(d) ==
  /\ rpc[d] = "totals"
  /\ view' = [view EXCEPT ![d].completed = total_completed]
  /\ ReaderGoes(d, "copy")
  /\ UNCHANGED <<engineVars, storeVars, disturbed>>

(* as_list of every series: one that grows meanwhile may raise, unless it was
   done with *)
CopyEnds(d, p) ==
  /\ rpc[d] = "copy"
  /\ disturbed' = disturbed \ {d}
  /\ ReaderGoes(d, p)
  /\ UNCHANGED <<engineVars, storeVars, view>>
Copied(d) == CopyEnds(d, "ok")
CopyRaises(d) == d \in disturbed /\ CopyEnds(d, "error")

(* a reader that polls *)
Again(d) ==
  /\ rpc[d] \in {"ok", "error"}
  /\ ReaderGoes(d, "idle") /\ view' = [view EXCEPT ![d] = Nothing]
  /\ UNCHANGED <<engineVars, storeVars, disturbed>>

Engine == Admit \/ RecordStep \/ \E i \in Requests : Leave(i) \/ RecordCompletion(i)
Snapshot(d) == \/ CountQueues(d) \/ Sample(d) \/ Rates(d) \/ Totals(d)
               \/ Copied(d) \/ CopyRaises(d)

-----------------------------------------------------------------------------
(* A snapshot counts no request twice and no more active ones than there are
   slots, though it looks at the two queues at different times and a request
   moves from one to the other in between.  (One that finishes meanwhile is
   counted as active and as completed.) *)
SnapshotCountsOnce ==
  \A d \in Readers :
    /\ view[d].active \cap view[d].queued = {}
    /\ Cardinality(view[d].active) <= MaxConcurrent

(* The deque of timestamps gives the true number of completions in the window
   as long as that is not more than it can hold, and its full length beyond. *)
RateSaturates ==
  LET recent == Cardinality({i \in completed : age[i] <= Window}) IN
    /\ total_completed = Cardinality(completed)
    /\ Recent(completion_timestamps) = IF recent < MaxTimestamps THEN recent ELSE MaxTimestamps
=============================================================================
