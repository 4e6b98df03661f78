-------------------------- MODULE TuningController --------------------------
(***************************************************************************)
(* The auto-tuner: loops that try a change of settings on the engine,      *)
(* judge it after an evaluation window and keep it or take it back; the    *)
(* admin handlers that start and stop it and change its goal, each in a    *)
(* thread of the server's pool; and what it sees of the engine.            *)
(*                                                                         *)
(* stop() waits for the loop's thread for a limited time, and start() in   *)
(* two handlers at once creates two threads, so more than one loop can be  *)
(* alive.  A loop touches the engine under the worker's lock; everything   *)
(* else it shares with the other threads is unprotected, and an action     *)
(* reads or writes it once.                                                *)
(*                                                                         *)
(* Time is kept as ages that TimePasses moves, each up to a cap beyond     *)
(* which the code does not tell ages apart.                                *)
(***************************************************************************)
EXTENDS TuningPolicy, FiniteSets

CONSTANTS
  Loops,            \* tuning threads
  Admins,           \* handler threads
  NoLoop, NoAttempt,
  Interval, Evaluation, Cooldown, MinCompleted,   \* ControllerConfig
  Paged,            \* engine.use_paged_kv_cache
  Starts,           \* settings the engine may start with
  Readings,         \* metrics a snapshot may show
  MaxAttempts,      \* bound on the attempts explored
  MaxSamples        \* bound on the samples within a window

(* An attempt: the change, the settings to go back to and the metrics to
   compare with, and how long ago it began *)
Plans == UNION {[keys -> Int \cup BOOLEAN] : keys \in SUBSET Keys}
Snapshots == [ttft : Nat, tps : Nat, err : Nat]
Attempts == [changes : Plans, previous : Settings, baseline : Snapshots, age : Nat]

ASSUME ControllerAssumption ==
  /\ NoLoop \notin Loops /\ NoAttempt \notin Attempts
  /\ Interval \in Nat /\ Evaluation \in Nat /\ Cooldown \in Nat
  /\ MinCompleted \in Nat /\ MaxAttempts \in Nat /\ MaxSamples \in Nat
  /\ Paged \in BOOLEAN
  /\ Starts \subseteq Settings
  /\ Readings \subseteq [ttft : Nat, tps : Nat, err : Nat, queued : Nat,
                         active : Nat, prefixFriendly : BOOLEAN]

VARIABLES
  settings,          \* the engine's settings
  cacheInitialized,  \* engine.cache is not None
  completed,         \* whether MinCompleted requests have completed
  goal, pending, lastAge, stop, thread, enabled,   \* the controller
  samples,           \* the classifier's queue samples
  attempted, promoted, rolledBack,                 \* OptimizationTracker
  pc,                \* pc[l]: where loop l is
  age,               \* age[l]: since its tick, or its wait, began
  job,               \* job[l]: the attempt in its hands
  seen,              \* seen[l]: the metrics it judges by
  apc, target,       \* where a handler is, and the thread it joins
  accepted,          \* settings nobody tries out: the first or a promoted one
  overlapped         \* whether two loops were ever alive at once

engineVars == <<settings, cacheInitialized, completed>>
trackerVars == <<attempted, promoted, rolledBack>>
loopVars == <<pc, age, job, seen>>
adminVars == <<thread, enabled, apc, target>>
vars == <<engineVars, goal, pending, lastAge, stop, samples, trackerVars,
          loopVars, adminVars, accepted, overlapped>>

MaxOf(m, n) == IF m > n THEN m ELSE n
AgeCap == MaxOf(Interval, MaxOf(Evaluation, Cooldown))
Older(n, cap) == IF n < cap THEN n + 1 ELSE n

Merge(old, changes) ==
  [k \in Keys |-> IF k \in DOMAIN changes THEN changes[k] ELSE old[k]]

Snapshot(m) == [ttft |-> m.ttft, tps |-> m.tps, err |-> m.err]

Init ==
  /\ settings \in Starts /\ cacheInitialized = FALSE
  /\ completed = (MinCompleted = 0)
  /\ goal \in Goals /\ pending = NoAttempt /\ lastAge = AgeCap
  /\ stop = FALSE /\ thread = NoLoop /\ enabled = FALSE
  /\ samples = << >>
  /\ attempted = 0 /\ promoted = 0 /\ rolledBack = 0
  /\ pc = [l \in Loops |-> "off"] /\ age = [l \in Loops |-> 0]
  /\ job = [l \in Loops |-> NoAttempt] /\ seen = [l \in Loops |-> NoAttempt]
  /\ apc = [a \in Admins |-> "idle"] /\ target = [a \in Admins |-> NoLoop]
  /\ accepted = settings /\ overlapped = FALSE

-----------------------------------------------------------------------------
(* What the tuner sees of the engine: the first step makes the cache, and
   only a step completes requests. *)
FirstStep ==
  /\ ~cacheInitialized
  /\ cacheInitialized' = TRUE
  /\ UNCHANGED <<settings, completed, goal, pending, lastAge, stop, samples,
                 trackerVars, loopVars, adminVars, accepted, overlapped>>

RequestsComplete ==
  /\ cacheInitialized /\ ~completed
  /\ completed' = TRUE
  /\ UNCHANGED <<settings, cacheInitialized, goal, pending, lastAge, stop,
                 samples, trackerVars, loopVars, adminVars, accepted, overlapped>>

(* Engine.reconfigure refuses to change the prefix cache or to add slots
   once there is a cache, and to take slots away that requests run in,
   which "crowded" stands for. *)
PrefixRefused(changes) ==
  /\ "prefix" \in DOMAIN changes /\ changes["prefix"] # settings["prefix"]
  /\ cacheInitialized
ConcurrencyRefused(changes, crowded) ==
  /\ "concurrent" \in DOMAIN changes /\ cacheInitialized
  /\ \/ changes["concurrent"] > settings["concurrent"]
     \/ changes["concurrent"] < settings["concurrent"] /\ crowded

(* What a refused call leaves behind: the prefix cache is looked at before
   anything is set, the number of slots after everything else is. *)
Reconfigured(changes, crowded) ==
  IF PrefixRefused(changes) THEN settings
  ELSE IF ConcurrencyRefused(changes, crowded)
       THEN [Merge(settings, changes) EXCEPT !["concurrent"] = settings["concurrent"]]
       ELSE Merge(settings, changes)

Refused(changes, crowded) ==
  PrefixRefused(changes) \/ ConcurrencyRefused(changes, crowded)

-----------------------------------------------------------------------------
(* The tuning loop *)

Goes(l, from, to) == pc[l] = from /\ pc' = [pc EXCEPT ![l] = to]
Waits(l) == /\ age' = [age EXCEPT ![l] = 0]
            /\ job' = [job EXCEPT ![l] = NoAttempt]
            /\ seen' = [seen EXCEPT ![l] = NoAttempt]

(* while not _stop.is_set() *)
LoopEnds(l) ==
  /\ Goes(l, "check", "off") /\ stop
  /\ Waits(l)
  /\ UNCHANGED <<engineVars, goal, pending, lastAge, stop, samples,
                 trackerVars, adminVars, accepted, overlapped>>

(* Slip: the cooldown is looked at before the pending attempt. *)
TickDue_CooldownFirst ==
  IF lastAge >= Cooldown THEN "plan"
  ELSE IF pending # NoAttempt /\ pending.age >= Evaluation THEN "judge" ELSE "wait"

(* tick(): what there is to do, by the time read at its beginning *)
TickDue ==
  IF pending # NoAttempt
    THEN IF pending.age >= Evaluation THEN "judge" ELSE "wait"
    ELSE IF lastAge >= Cooldown THEN "plan" ELSE "wait"

(* Slip: a tick that finds the evaluation unfinished dates the attempt anew. *)
TickBegins_Redates(l) ==
  /\ Goes(l, "check", TickDue) /\ ~stop
  /\ age' = [age EXCEPT ![l] = 0]
  /\ pending' = IF pending = NoAttempt THEN pending ELSE [pending EXCEPT !.age = 0]
  /\ UNCHANGED <<engineVars, goal, lastAge, stop, samples, trackerVars,
                 job, seen, adminVars, accepted, overlapped>>

(* A tick, from the top of the loop *)
TickBegins(l) ==
  /\ Goes(l, "check", TickDue) /\ ~stop
  /\ age' = [age EXCEPT ![l] = 0]
  /\ UNCHANGED <<engineVars, goal, pending, lastAge, stop, samples, trackerVars,
                 job, seen, adminVars, accepted, overlapped>>

(* _stop.wait(interval) *)
LoopWakes(l) ==
  /\ Goes(l, "wait", "check")
  /\ stop \/ age[l] >= Interval
  /\ age' = [age EXCEPT ![l] = 0]
  /\ UNCHANGED <<engineVars, goal, pending, lastAge, stop, samples, trackerVars,
                 job, seen, adminVars, accepted, overlapped>>

(* Slip: no request need have completed. *)
TooFewCompleted_Never == FALSE

(* _maybe_start_attempt up to record_attempt *)
TooFewCompleted == ~completed
NothingToJudgeBy(l) ==
  /\ Goes(l, "plan", "wait") /\ TooFewCompleted
  /\ Waits(l)
  /\ UNCHANGED <<engineVars, goal, pending, lastAge, stop, samples,
                 trackerVars, adminVars, accepted, overlapped>>

(* observability.snapshot() raises when the engine moves a series it copies
   without the lock (MetricsStore.CopyRaises), which _loop catches; the next
   tick tries again. *)
SnapshotRaises(l) ==
  /\ \/ Goes(l, "plan", "wait")
     \/ Goes(l, "judge", "wait")
  /\ Waits(l)
  /\ UNCHANGED <<engineVars, goal, pending, lastAge, stop, samples,
                 trackerVars, adminVars, accepted, overlapped>>

Observed(m) == Fresh(Append(samples, [age |-> 0, queued |-> m.queued]))
PlanAttempt(l, m) ==
  LET labels == Labels(m, Observed(m))
      changes == Propose(settings, labels, goal, Paged, cacheInitialized)
      planned == DOMAIN changes # {} IN
  /\ pc[l] = "plan" /\ ~TooFewCompleted
  /\ planned => attempted < MaxAttempts
  /\ Len(Observed(m)) <= MaxSamples
  /\ samples' = Observed(m)
  /\ IF planned
       THEN /\ pc' = [pc EXCEPT ![l] = "apply"]
            /\ attempted' = attempted + 1
            /\ job' = [job EXCEPT ![l] = [changes |-> changes, previous |-> settings,
                                          baseline |-> Snapshot(m), age |-> 0]]
            /\ UNCHANGED <<age, seen>>
       ELSE /\ pc' = [pc EXCEPT ![l] = "wait"]
            /\ Waits(l)
            /\ UNCHANGED attempted
  /\ UNCHANGED <<engineVars, goal, pending, lastAge, stop, promoted, rolledBack,
                 adminVars, accepted, overlapped>>

(* _apply_changes, when the worker's lock is free *)
ApplyPlan(l, crowded) ==
  /\ pc[l] = "apply"
  /\ settings' = Reconfigured(job[l].changes, crowded)
  /\ IF Refused(job[l].changes, crowded)
       THEN pc' = [pc EXCEPT ![l] = "wait"] /\ Waits(l)
       ELSE pc' = [pc EXCEPT ![l] = "note"] /\ UNCHANGED <<age, job, seen>>
  /\ UNCHANGED <<cacheInitialized, completed, goal, pending, lastAge, stop,
                 samples, trackerVars, adminVars, accepted, overlapped>>

(* The attempt is dated from the beginning of the tick. *)
NoteAttempt(l) ==
  /\ Goes(l, "note", "wait")
  /\ pending' = [job[l] EXCEPT !.age = age[l]]
  /\ lastAge' = age[l]
  /\ Waits(l)
  /\ UNCHANGED <<engineVars, goal, stop, samples, trackerVars, adminVars,
                 accepted, overlapped>>

(* _finish_evaluation: _is_regression.  When another loop has settled the
   attempt meanwhile, the assertion fails and _loop catches it. *)
LookForRegression(l, m) ==
  /\ pc[l] = "judge"
  /\ IF pending = NoAttempt
       THEN pc' = [pc EXCEPT ![l] = "wait"] /\ Waits(l)
       ELSE /\ job' = [job EXCEPT ![l] = pending]
            /\ UNCHANGED age
            /\ IF IsRegression(goal, pending.baseline, Snapshot(m))
                 THEN pc' = [pc EXCEPT ![l] = "rollback"] /\ UNCHANGED seen
                 ELSE /\ pc' = [pc EXCEPT ![l] = "weigh"]
                      /\ seen' = [seen EXCEPT ![l] = Snapshot(m)]
  /\ UNCHANGED <<engineVars, goal, pending, lastAge, stop, samples, trackerVars,
                 adminVars, accepted, overlapped>>

(* _pending = None *)
Settle(l) == /\ pending' = NoAttempt /\ lastAge' = age[l]
             /\ pc' = [pc EXCEPT ![l] = "wait"] /\ Waits(l)

Promote(l) ==
  /\ pc[l] = "weigh" /\ IsImprovement(goal, job[l].baseline, seen[l])
  /\ promoted' = promoted + 1
  /\ Settle(l)
  /\ accepted' = settings
  /\ UNCHANGED <<engineVars, goal, stop, samples, attempted, rolledBack,
                 adminVars, overlapped>>

FindNeutral(l) ==
  /\ Goes(l, "weigh", "rollback") /\ ~IsImprovement(goal, job[l].baseline, seen[l])
  /\ seen' = [seen EXCEPT ![l] = NoAttempt]
  /\ UNCHANGED <<engineVars, goal, pending, lastAge, stop, samples, trackerVars,
                 age, job, adminVars, accepted, overlapped>>

(* Slip: one key is set back. *)
Reverted_FirstKeyOnly(attempt) ==
  [k \in {CHOOSE key \in DOMAIN attempt.changes : TRUE} |-> attempt.previous[k]]

(* _rollback sets the changed keys back; refused, it leaves the attempt
   pending for the next tick. *)
Reverted(attempt) == [k \in DOMAIN attempt.changes |-> attempt.previous[k]]
RollBack(l, crowded) ==
  /\ pc[l] = "rollback"
  /\ settings' = Reconfigured(Reverted(job[l]), crowded)
  /\ IF Refused(Reverted(job[l]), crowded)
       THEN /\ pc' = [pc EXCEPT ![l] = "wait"] /\ Waits(l)
            /\ UNCHANGED <<pending, lastAge, rolledBack>>
       ELSE Settle(l) /\ rolledBack' = rolledBack + 1
  /\ UNCHANGED <<cacheInitialized, completed, goal, stop, samples, attempted,
                 promoted, adminVars, accepted, overlapped>>

-----------------------------------------------------------------------------
(* The admin handlers, and the server's shutdown, which stops too *)

SetGoal(a, g) ==
  /\ apc[a] = "idle"
  /\ goal # g /\ goal' = g
  /\ UNCHANGED <<engineVars, pending, lastAge, stop, samples, trackerVars,
                 loopVars, adminVars, accepted, overlapped>>

(* start(): with a live thread nothing is created, nor is the flag cleared *)
Alive(l) == l # NoLoop /\ pc[l] # "off"
StartFinds(a) ==
  /\ apc[a] = "idle"
  /\ IF Alive(thread) THEN enabled' = TRUE /\ UNCHANGED apc
                      ELSE apc' = [apc EXCEPT ![a] = "create"] /\ UNCHANGED enabled
  /\ UNCHANGED <<engineVars, goal, pending, lastAge, stop, samples, trackerVars,
                 loopVars, thread, target, accepted, overlapped>>

StartCreates(a, l) ==
  /\ apc[a] = "create" /\ pc[l] = "off"
  /\ apc' = [apc EXCEPT ![a] = "idle"]
  /\ stop' = FALSE /\ enabled' = TRUE
  /\ thread' = l /\ pc' = [pc EXCEPT ![l] = "check"]
  /\ overlapped' = (overlapped \/ \E k \in Loops : pc[k] # "off")
  /\ UNCHANGED <<engineVars, goal, pending, lastAge, samples, trackerVars,
                 age, job, seen, target, accepted>>

StopSets(a) ==
  /\ apc[a] = "idle" /\ apc' = [apc EXCEPT ![a] = "read"]
  /\ enabled' = FALSE /\ stop' = TRUE
  /\ UNCHANGED <<engineVars, goal, pending, lastAge, samples, trackerVars,
                 loopVars, thread, target, accepted, overlapped>>

(* Slip: no look whether there is a thread. *)
StopReads_Unchecked(a) ==
  /\ apc[a] = "read" /\ apc' = [apc EXCEPT ![a] = "join"]
  /\ target' = [target EXCEPT ![a] = thread]
  /\ UNCHANGED <<engineVars, goal, pending, lastAge, stop, samples, trackerVars,
                 loopVars, thread, enabled, accepted, overlapped>>

(* if self._thread *)
StopReads(a) ==
  /\ apc[a] = "read"
  /\ apc' = [apc EXCEPT ![a] = IF thread = NoLoop THEN "idle" ELSE "join"]
  /\ target' = [target EXCEPT ![a] = thread]
  /\ UNCHANGED <<engineVars, goal, pending, lastAge, stop, samples, trackerVars,
                 loopVars, thread, enabled, accepted, overlapped>>

(* join(timeout) gives up on a loop that waits for the worker's lock, which
   a step may hold for long, and on one that another handler has told to go
   on. *)
StopJoins(a) ==
  /\ apc[a] = "join"
  /\ \/ pc[target[a]] \in {"off", "apply", "rollback"}
     \/ ~stop
  /\ apc' = [apc EXCEPT ![a] = "idle"]
  /\ target' = [target EXCEPT ![a] = NoLoop]
  /\ thread' = NoLoop
  /\ UNCHANGED <<engineVars, goal, pending, lastAge, stop, samples, trackerVars,
                 loopVars, enabled, accepted, overlapped>>

-----------------------------------------------------------------------------

(* A sample is forgotten as soon as no later observe would keep it. *)
TimePasses ==
  /\ lastAge' = Older(lastAge, AgeCap)
  /\ pending' = IF pending = NoAttempt THEN pending
                ELSE [pending EXCEPT !.age = Older(@, AgeCap)]
  /\ age' = [l \in Loops |-> IF pc[l] = "off" THEN age[l] ELSE Older(age[l], AgeCap)]
  /\ samples' = Fresh([i \in 1 .. Len(samples) |->
                        [samples[i] EXCEPT !.age = @ + 1]])
  /\ UNCHANGED <<engineVars, goal, stop, trackerVars, pc, job, seen, adminVars,
                 accepted, overlapped>>

Loop(l) ==
  \/ LoopEnds(l) \/ TickBegins(l) \/ LoopWakes(l)
  \/ NothingToJudgeBy(l) \/ SnapshotRaises(l)
  \/ \E m \in Readings : PlanAttempt(l, m)
  \/ \E crowded \in BOOLEAN : ApplyPlan(l, crowded)
  \/ NoteAttempt(l)
  \/ \E m \in Readings : LookForRegression(l, m)
  \/ Promote(l) \/ FindNeutral(l)
  \/ \E crowded \in BOOLEAN : RollBack(l, crowded)

Admin(a) ==
  \/ \E g \in Goals : SetGoal(a, g)
  \/ StartFinds(a) \/ \E l \in Loops : StartCreates(a, l)
  \/ StopSets(a) \/ StopReads(a) \/ StopJoins(a)

Next ==
  \/ FirstStep \/ RequestsComplete \/ TimePasses
  \/ \E l \in Loops : Loop(l)
  \/ \E a \in Admins : Admin(a)

Spec == Init /\ [][Next]_vars

(* A live loop goes on, time does, and metrics asked for again and again are
   there in the end. *)
FairSpec ==
  /\ Spec /\ WF_vars(TimePasses)
  /\ \A l \in Loops : /\ WF_vars(Loop(l))
                       /\ SF_vars(\E m \in Readings : LookForRegression(l, m))

-----------------------------------------------------------------------------
(* Properties *)

IsPlan(changes) ==
  /\ DOMAIN changes \subseteq Keys
  /\ \A k \in DOMAIN changes :
       changes[k] \in (IF k = "prefix" THEN BOOLEAN ELSE Int)
IsAttempt(j) ==
  /\ DOMAIN j = {"changes", "previous", "baseline", "age"}
  /\ IsPlan(j.changes) /\ j.previous \in Settings
  /\ j.baseline \in Snapshots /\ j.age \in 0 .. AgeCap

(* What the variables hold.  A loop has an attempt in its hands from plan to
   note and while it weighs or rolls back, metrics while it weighs, and a
   handler a thread while it joins one. *)
TypeOK ==
  /\ settings \in Settings /\ accepted \in Settings
  /\ cacheInitialized \in BOOLEAN /\ completed \in BOOLEAN
  /\ goal \in Goals /\ stop \in BOOLEAN /\ enabled \in BOOLEAN
  /\ overlapped \in BOOLEAN
  /\ pending = NoAttempt \/ IsAttempt(pending)
  /\ lastAge \in 0 .. AgeCap /\ age \in [Loops -> 0 .. AgeCap]
  /\ thread \in Loops \cup {NoLoop}
  /\ samples \in Seq([age : 0 .. Window, queued : Nat])
  /\ attempted \in Nat /\ promoted \in Nat /\ rolledBack \in Nat
  /\ pc \in [Loops -> {"off", "check", "plan", "apply", "note", "judge",
                       "weigh", "rollback", "wait"}]
  /\ DOMAIN job = Loops /\ DOMAIN seen = Loops
  /\ \A l \in Loops :
       /\ IF pc[l] \in {"apply", "note", "weigh", "rollback"}
            THEN IsAttempt(job[l]) ELSE job[l] = NoAttempt
       /\ IF pc[l] = "weigh" THEN seen[l] \in Snapshots ELSE seen[l] = NoAttempt
  /\ apc \in [Admins -> {"idle", "create", "read", "join"}]
  /\ target \in [Admins -> Loops \cup {NoLoop}]
  /\ \A a \in Admins : apc[a] = "join" <=> target[a] # NoLoop

(* A chunk that fits the smallest budget, both within the policy's bounds *)
Tunable(s) ==
  /\ s.chunk \in MinChunk .. MaxChunk /\ s.budget \in MinBudget .. MaxBudget
  /\ s.chunk <= MinBudget

(* However attempts of several loops are mixed, applied late, kept or taken
   back to settings read long before, an engine that starts with a chunk
   size that fits every budget the policy may choose keeps one: the tuner
   never makes Scheduler.schedule pass a prefill over for ever. *)
SettingsInBounds == (\A s \in Starts : Tunable(s)) => Tunable(settings)

(* The controller plans only after a request has completed, which takes a
   step, which makes the cache; so no plan ever adds slots or turns the
   prefix cache on, and reconfigure refuses none.  It also means that two
   of the policy's rules never apply in the server. *)
CacheShapeKept ==
  MinCompleted > 0 =>
    \E s \in Starts : /\ s.concurrent = settings.concurrent
                      /\ s.prefix = settings.prefix

Open(l) == pc[l] \in {"apply", "note"}
OpenAttempts ==
  (IF pending = NoAttempt THEN 0 ELSE 1) + Cardinality({l \in Loops : Open(l)})

(* What the tracker shows adds up: an attempt it counts is promoted, rolled
   back or open.  The README says of the tuner that it "promotes or rolls
   back after an evaluation window". *)
EveryAttemptJudged == attempted = promoted + rolledBack + OpenAttempts

(* As long as no two loops were alive at once, at most one attempt is open
   and the tracker's counts add up. *)
AttemptsAccounted ==
  ~overlapped /\ MinCompleted > 0 => EveryAttemptJudged /\ OpenAttempts <= 1

(* As long as no two loops were alive at once, with no attempt open the
   engine runs with the settings it started with or those last promoted,
   whatever was tried in between and whenever the tuner was stopped. *)
TrialUndone ==
  ~overlapped /\ MinCompleted > 0 /\ OpenAttempts = 0 => settings = accepted

(* An attempt is judged in the end unless the tuner is stopped: the loop
   comes back to it, also after a tick that a raise cut short, and nothing
   else keeps one pending. *)
AttemptSettles == pending # NoAttempt ~> (pending = NoAttempt \/ stop)
=============================================================================
