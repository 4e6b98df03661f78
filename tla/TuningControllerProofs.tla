----------------------- MODULE TuningControllerProofs -----------------------
(***************************************************************************)
(* What holds for any number of loops and handlers, any step sizes and     *)
(* bounds, and any metrics: the settings stay within the policy's bounds   *)
(* and nothing that needs a cache of another shape is ever tried; every    *)
(* variable holds what its place in the code says; and while no two loops  *)
(* are alive at once, attempts add up and a rollback restores what was     *)
(* there before.                                                           *)
(***************************************************************************)
EXTENDS TuningController, FiniteSetTheorems, SequenceTheorems, WellFoundedInduction, TLAPS

-----------------------------------------------------------------------------
(* The policy *)

(* A step stays within its bounds, and one that is not upwards does not go
   up. *)
LEMMA StepWithinBounds ==
  ASSUME NEW low \in Int, NEW high \in Int, NEW current \in low .. high,
         NEW delta \in Int
  PROVE  /\ StepInt(current, delta, low, high) \in low .. high
         /\ delta <= 0 => StepInt(current, delta, low, high) <= current
  BY DEF StepInt, AtLeast, AtMost

LEMMA StepIsInt ==
  ASSUME NEW low \in Int, NEW high \in Int, NEW current \in Int, NEW delta \in Int
  PROVE  StepInt(current, delta, low, high) \in Int
  BY DEF StepInt, AtLeast, AtMost

(* No rule raises the chunk size. *)
LEMMA DeltaTypes ==
  ASSUME NEW labels, NEW g, NEW ready
  PROVE  /\ ChunkDelta(labels, g, ready) \in Int
         /\ ChunkDelta(labels, g, ready) <= 0
         /\ BudgetDelta(labels, g) \in Int
         /\ ConcurrencyDelta(labels, g, ready) \in Int
<1>1. /\ - ChunkStep \in Int /\ - ChunkStep <= 0
      /\ (- ChunkStep) \div 2 \in Int /\ (- ChunkStep) \div 2 <= 0
  BY PolicyAssumption
<1>2. /\ BudgetStep \in Int /\ - BudgetStep \in Int
      /\ AtLeast(1, BudgetStep \div 2) \in Int
  BY PolicyAssumption DEF AtLeast
<1>3. ChunkDelta(labels, g, ready) \in {- ChunkStep, (- ChunkStep) \div 2, 0}
  BY DEF ChunkDelta
<1>4. BudgetDelta(labels, g) \in {- BudgetStep, BudgetStep, AtLeast(1, BudgetStep \div 2), 0}
  BY DEF BudgetDelta
<1>5. ConcurrencyDelta(labels, g, ready) \in Int
  BY DEF ConcurrencyDelta
<1>. QED  BY <1>1, <1>2, <1>3, <1>4, <1>5

(* The values a plan may give to the keys it has *)
TunableChunk(c) == c \in MinChunk .. MaxChunk /\ c <= MinBudget
TunablePlan(changes) ==
  /\ "chunk" \in DOMAIN changes => TunableChunk(changes["chunk"])
  /\ "budget" \in DOMAIN changes => changes["budget"] \in MinBudget .. MaxBudget

LEMMA WantedTypes ==
  ASSUME NEW s \in Settings, NEW labels, NEW g, NEW ready
  PROVE  LET want == Wanted(s, labels, g, Paged, ready) IN
         /\ want["chunk"] \in Int /\ want["budget"] \in Int
         /\ want["concurrent"] \in Int /\ want["prefix"] \in BOOLEAN
<1>1. /\ s.chunk \in Int /\ s.budget \in Int /\ s.concurrent \in Int /\ s.prefix \in BOOLEAN
  BY DEF Settings
<1>2. /\ MinChunk \in Int /\ MaxChunk \in Int /\ MinBudget \in Int /\ MaxBudget \in Int
      /\ MaxConcurrent \in Int
  BY PolicyAssumption
<1>3. /\ ChunkDelta(labels, g, ready) \in Int /\ BudgetDelta(labels, g) \in Int
      /\ ConcurrencyDelta(labels, g, ready) \in Int
  BY DeltaTypes
<1>4. /\ StepInt(s.chunk, ChunkDelta(labels, g, ready), MinChunk, MaxChunk) \in Int
      /\ StepInt(s.budget, BudgetDelta(labels, g), MinBudget, MaxBudget) \in Int
      /\ StepInt(s.concurrent, ConcurrencyDelta(labels, g, ready), 1, MaxConcurrent) \in Int
  <2>1. StepInt(s.chunk, ChunkDelta(labels, g, ready), MinChunk, MaxChunk) \in Int
    BY <1>1, <1>2, <1>3, StepIsInt
  <2>2. StepInt(s.budget, BudgetDelta(labels, g), MinBudget, MaxBudget) \in Int
    BY <1>1, <1>2, <1>3, StepIsInt
  <2>3. StepInt(s.concurrent, ConcurrencyDelta(labels, g, ready), 1, MaxConcurrent) \in Int
    BY <1>1, <1>2, <1>3 DEF StepInt, AtLeast, AtMost
  <2>. QED  BY <2>1, <2>2, <2>3
<1>5. s.prefix \/ (labels.prefixFriendly /\ Paged /\ ~ready) \in BOOLEAN
  BY Zenon
<1>. QED  BY <1>4, <1>5 DEF Wanted

LEMMA ProposeIsPlan ==
  ASSUME NEW s \in Settings, NEW labels, NEW g, NEW ready
  PROVE  /\ IsPlan(Propose(s, labels, g, Paged, ready))
         /\ Propose(s, labels, g, Paged, ready) \in Plans
<1>. DEFINE want == Wanted(s, labels, g, Paged, ready)
            keys == {k \in Keys : want[k] # s[k] /\ ~labels.errorElevated}
<1>1. /\ want["chunk"] \in Int /\ want["budget"] \in Int
      /\ want["concurrent"] \in Int /\ want["prefix"] \in BOOLEAN
  BY WantedTypes
<1>. HIDE DEF want
<1>2. Propose(s, labels, g, Paged, ready) = [k \in keys |-> want[k]]
  BY DEF Propose, want
<1>3. [k \in keys |-> want[k]] \in [keys -> Int \cup BOOLEAN] /\ keys \in SUBSET Keys
  BY <1>1 DEF Keys
<1>4. Propose(s, labels, g, Paged, ready) \in Plans
  BY <1>2, <1>3 DEF Plans
<1>. QED  BY <1>1, <1>2, <1>4 DEF IsPlan, Keys

LEMMA ProposeIsTunable ==
  ASSUME NEW s \in Settings, Tunable(s), NEW labels, NEW g, NEW ready
  PROVE  TunablePlan(Propose(s, labels, g, Paged, ready))
<1>. DEFINE want == Wanted(s, labels, g, Paged, ready)
<1>a. /\ MinChunk \in Int /\ MaxChunk \in Int
      /\ MinBudget \in Int /\ MaxBudget \in Int
  BY PolicyAssumption
<1>b. /\ s.chunk \in MinChunk .. MaxChunk /\ s.chunk <= MinBudget
      /\ s.budget \in MinBudget .. MaxBudget
  BY DEF Tunable
<1>1. TunableChunk(want["chunk"])
  <2>. DEFINE d == ChunkDelta(labels, g, ready)
              c == StepInt(s.chunk, d, MinChunk, MaxChunk)
  <2>1. d \in Int /\ d <= 0
    BY DeltaTypes
  <2>. HIDE DEF d
  <2>2. c \in MinChunk .. MaxChunk /\ c <= s.chunk
    BY <1>a, <1>b, <2>1, StepWithinBounds
  <2>3. want["chunk"] = c
    BY DEF Wanted, d
  <2>. QED  BY <1>a, <1>b, <2>2, <2>3 DEF TunableChunk
<1>2. want["budget"] \in MinBudget .. MaxBudget
  <2>1. BudgetDelta(labels, g) \in Int
    BY DeltaTypes
  <2>2. StepInt(s.budget, BudgetDelta(labels, g), MinBudget, MaxBudget)
          \in MinBudget .. MaxBudget
    BY <1>a, <1>b, <2>1, StepWithinBounds
  <2>. QED  BY <2>2 DEF Wanted
<1>. HIDE DEF want
<1>3. Propose(s, labels, g, Paged, ready) =
        [k \in {k \in Keys : want[k] # s[k] /\ ~labels.errorElevated} |-> want[k]]
  BY DEF Propose, want
<1>. QED  BY <1>1, <1>2, <1>3 DEF TunablePlan

(* With a cache there is no plan for more slots or the prefix cache. *)
LEMMA ProposeKeepsShape ==
  ASSUME NEW s \in Settings, NEW labels, NEW g, NEW ready, ready
  PROVE  DOMAIN Propose(s, labels, g, Paged, ready) \subseteq {"chunk", "budget"}
<1>. DEFINE want == Wanted(s, labels, g, Paged, ready)
<1>1. ConcurrencyDelta(labels, g, ready) = 0
  BY DEF ConcurrencyDelta
<1>2. want["concurrent"] = s["concurrent"]
  BY <1>1 DEF Wanted, StepInt
<1>3. want["prefix"] = s["prefix"]
  BY DEF Wanted, Settings
<1>. HIDE DEF want
<1>4. Propose(s, labels, g, Paged, ready) =
        [k \in {k \in Keys : want[k] # s[k] /\ ~labels.errorElevated} |-> want[k]]
  BY DEF Propose, want
<1>. QED  BY <1>2, <1>3, <1>4 DEF Keys

-----------------------------------------------------------------------------
(* Plans, settings and attempts in good order *)

TunableStarts == \A s \in Starts : Tunable(s)
SameShape(s) ==
  \E t \in Starts : t.concurrent = s.concurrent /\ t.prefix = s.prefix

SettingsFine(s) == /\ s \in Settings
                   /\ TunableStarts => Tunable(s)
                   /\ MinCompleted > 0 => SameShape(s)
PlanFine(changes) == /\ IsPlan(changes)
                     /\ TunableStarts => TunablePlan(changes)
                     /\ MinCompleted > 0 => DOMAIN changes \subseteq {"chunk", "budget"}
AttemptFine(j) == /\ DOMAIN j = {"changes", "previous", "baseline", "age"}
                  /\ PlanFine(j.changes) /\ SettingsFine(j.previous)

LEMMA ProposeFine ==
  ASSUME NEW s, SettingsFine(s), NEW labels, NEW g, NEW ready,
         MinCompleted > 0 => ready
  PROVE  PlanFine(Propose(s, labels, g, Paged, ready))
  BY ProposeIsPlan, ProposeIsTunable, ProposeKeepsShape
  DEF PlanFine, SettingsFine

LEMMA RevertedFine ==
  ASSUME NEW j, AttemptFine(j)
  PROVE  PlanFine(Reverted(j))
<1>. DEFINE ch == j.changes
<1>1. /\ DOMAIN Reverted(j) = DOMAIN ch
      /\ \A k \in DOMAIN ch : Reverted(j)[k] = j.previous[k]
  BY DEF Reverted
<1>2. DOMAIN ch \subseteq Keys /\ j.previous \in Settings
  BY DEF AttemptFine, PlanFine, IsPlan, SettingsFine
<1>3. \A k \in Keys : j.previous[k] \in (IF k = "prefix" THEN BOOLEAN ELSE Int)
  BY <1>2 DEF Settings, Keys
<1>4. IsPlan(Reverted(j))
  BY <1>1, <1>2, <1>3 DEF IsPlan
<1>5. TunableStarts => TunablePlan(Reverted(j))
  BY <1>1 DEF TunablePlan, AttemptFine, SettingsFine, Tunable, TunableChunk
<1>6. MinCompleted > 0 => DOMAIN Reverted(j) \subseteq {"chunk", "budget"}
  BY <1>1 DEF AttemptFine, PlanFine
<1>. QED  BY <1>4, <1>5, <1>6 DEF PlanFine

LEMMA MergeFine ==
  ASSUME NEW s, SettingsFine(s), NEW ch, PlanFine(ch)
  PROVE  SettingsFine(Merge(s, ch))
<1>. DEFINE m == Merge(s, ch)
<1>1. /\ DOMAIN m = Keys
      /\ \A k \in Keys : m[k] = IF k \in DOMAIN ch THEN ch[k] ELSE s[k]
      /\ m = [k \in Keys |-> m[k]]
  BY DEF Merge
<1>. HIDE DEF m
<1>2. /\ s["chunk"] \in Int /\ s["budget"] \in Int
      /\ s["concurrent"] \in Int /\ s["prefix"] \in BOOLEAN
  BY DEF SettingsFine, Settings
<1>3. /\ m["chunk"] \in Int /\ m["budget"] \in Int
      /\ m["concurrent"] \in Int /\ m["prefix"] \in BOOLEAN
  BY <1>1, <1>2 DEF PlanFine, IsPlan, Keys
<1>4. m \in Settings
  BY <1>1, <1>3 DEF Settings, Keys
<1>5. TunableStarts => Tunable(m)
  BY <1>1 DEF Keys, SettingsFine, PlanFine, Tunable, TunablePlan, TunableChunk
<1>6. MinCompleted > 0 => SameShape(m)
  BY <1>1 DEF Keys, SettingsFine, PlanFine, SameShape
<1>. QED  BY <1>4, <1>5, <1>6 DEF SettingsFine, m

LEMMA ReconfiguredFine ==
  ASSUME SettingsFine(settings), NEW ch, PlanFine(ch), NEW crowded
  PROVE  SettingsFine(Reconfigured(ch, crowded))
<1>. DEFINE m == Merge(settings, ch)
            e == [m EXCEPT !["concurrent"] = settings["concurrent"]]
<1>1. SettingsFine(m)
  BY MergeFine
<1>. HIDE DEF m
<1>2. /\ e \in Settings
      /\ e["chunk"] = m["chunk"] /\ e["budget"] = m["budget"]
      /\ e["concurrent"] = settings["concurrent"] /\ e["prefix"] = m["prefix"]
  BY <1>1 DEF SettingsFine, Settings
<1>3. MinCompleted > 0 => e["prefix"] = settings["prefix"]
  <2>1. MinCompleted > 0 => "prefix" \notin DOMAIN ch
    BY DEF PlanFine
  <2>. QED  BY <1>2, <2>1 DEF m, Merge, Keys
<1>4. SettingsFine(e)
  BY <1>1, <1>2, <1>3 DEF SettingsFine, Tunable, SameShape
<1>. QED  BY <1>1, <1>4 DEF Reconfigured, m

-----------------------------------------------------------------------------
(* The invariant: the settings and every attempt, pending or in the hands of
   a loop, are in good order, and requests complete only after the cache is
   made.  The properties alone are not inductive: a rollback sets what an
   attempt remembers, and a plan what an earlier look at the settings said. *)

InHand(l) == pc[l] \in {"apply", "note", "weigh", "rollback"}

Inv ==
  /\ DOMAIN pc = Loops /\ DOMAIN job = Loops
  /\ SettingsFine(settings)
  /\ MinCompleted > 0 /\ completed => cacheInitialized
  /\ pending = NoAttempt \/ AttemptFine(pending)
  /\ \A l \in Loops : InHand(l) => AttemptFine(job[l])

LEMMA InitInv == Init => Inv
<1>. SUFFICES ASSUME Init PROVE Inv
  OBVIOUS
<1>1. SettingsFine(settings)
  BY ControllerAssumption DEF Init, SettingsFine, SameShape, TunableStarts
<1>2. MinCompleted > 0 => ~completed
  <2>1. MinCompleted > 0 => ~(MinCompleted = 0)
    BY ControllerAssumption
  <2>2. completed <=> (MinCompleted = 0)
    BY Zenon DEF Init
  <2>. QED  BY <2>1, <2>2, Zenon
<1>. QED  BY <1>1, <1>2 DEF Init, Inv, InHand

(* A loop that goes where it holds no attempt *)
LEMMA EmptyHanded ==
  ASSUME Inv, NEW l \in Loops,
         NEW to \in {"off", "check", "plan", "judge", "wait"},
         pc' = [pc EXCEPT ![l] = to],
         job' = job \/ job' = [job EXCEPT ![l] = NoAttempt]
  PROVE  /\ DOMAIN pc' = Loops /\ DOMAIN job' = Loops
         /\ \A k \in Loops : InHand(k)' => AttemptFine(job[k])'
  BY DEF Inv, InHand, AttemptFine

(* A loop that goes anywhere, with a good attempt or the one it has *)
LEMMA GoodInHand ==
  ASSUME Inv, NEW l \in Loops, NEW to,
         pc' = [pc EXCEPT ![l] = to],
         \/ InHand(l) /\ job' = job
         \/ \E j : AttemptFine(j) /\ job' = [job EXCEPT ![l] = j]
  PROVE  /\ DOMAIN pc' = Loops /\ DOMAIN job' = Loops
         /\ \A k \in Loops : InHand(k)' => AttemptFine(job[k])'
  BY DEF Inv, InHand, AttemptFine

(* Settling an attempt: there is none pending any more. *)
LEMMA SettleInv ==
  ASSUME Inv, NEW l \in Loops, Settle(l), SettingsFine(settings)',
         UNCHANGED <<cacheInitialized, completed>>
  PROVE  Inv'
<1>1. /\ DOMAIN pc' = Loops /\ DOMAIN job' = Loops
      /\ \A k \in Loops : InHand(k)' => AttemptFine(job[k])'
  BY EmptyHanded DEF Settle, Waits
<1>. QED  BY <1>1 DEF Inv, Settle

LEMMA LoopInv ==
  ASSUME Inv, NEW l \in Loops, Loop(l)
  PROVE  Inv'
<1>1. CASE LoopEnds(l)
  <2>1. /\ DOMAIN pc' = Loops /\ DOMAIN job' = Loops
        /\ \A k \in Loops : InHand(k)' => AttemptFine(job[k])'
    BY <1>1, EmptyHanded DEF LoopEnds, Goes, Waits
  <2>. QED  BY <1>1, <2>1 DEF LoopEnds, Inv, engineVars
<1>2. CASE TickBegins(l)
  <2>0. TickDue \in {"judge", "wait", "plan"}
    BY DEF TickDue
  <2>1. /\ DOMAIN pc' = Loops /\ DOMAIN job' = Loops
        /\ \A k \in Loops : InHand(k)' => AttemptFine(job[k])'
    BY <1>2, <2>0, EmptyHanded DEF TickBegins, Goes
  <2>. QED  BY <1>2, <2>1 DEF TickBegins, Inv, engineVars
<1>3. CASE LoopWakes(l)
  <2>1. /\ DOMAIN pc' = Loops /\ DOMAIN job' = Loops
        /\ \A k \in Loops : InHand(k)' => AttemptFine(job[k])'
    BY <1>3, EmptyHanded DEF LoopWakes, Goes
  <2>. QED  BY <1>3, <2>1 DEF LoopWakes, Inv, engineVars
<1>4. CASE NothingToJudgeBy(l)
  <2>1. /\ DOMAIN pc' = Loops /\ DOMAIN job' = Loops
        /\ \A k \in Loops : InHand(k)' => AttemptFine(job[k])'
    BY <1>4, EmptyHanded DEF NothingToJudgeBy, Goes, Waits
  <2>. QED  BY <1>4, <2>1 DEF NothingToJudgeBy, Inv, engineVars
<1>12. CASE SnapshotRaises(l)
  <2>1. /\ DOMAIN pc' = Loops /\ DOMAIN job' = Loops
        /\ \A k \in Loops : InHand(k)' => AttemptFine(job[k])'
    BY <1>12, EmptyHanded DEF SnapshotRaises, Goes, Waits
  <2>. QED  BY <1>12, <2>1 DEF SnapshotRaises, Inv, engineVars
<1>5. ASSUME NEW m \in Readings, PlanAttempt(l, m)
      PROVE  Inv'
  <2>. DEFINE labels == Labels(m, Observed(m))
              changes == Propose(settings, labels, goal, Paged, cacheInitialized)
              attempt == [changes |-> changes, previous |-> settings,
                          baseline |-> Snapshot(m), age |-> 0]
  <2>1. MinCompleted > 0 => cacheInitialized
    BY <1>5 DEF PlanAttempt, TooFewCompleted, Inv
  <2>2. PlanFine(changes)
    BY <2>1, ProposeFine DEF Inv
  <2>3. AttemptFine(attempt)
    BY <2>2 DEF AttemptFine, Inv
  <2>. HIDE DEF attempt
  <2>4. CASE DOMAIN changes # {}
    <3>1. /\ pc' = [pc EXCEPT ![l] = "apply"]
          /\ job' = [job EXCEPT ![l] = attempt]
      BY <1>5, <2>4 DEF PlanAttempt, attempt
    <3>2. /\ DOMAIN pc' = Loops /\ DOMAIN job' = Loops
          /\ \A k \in Loops : InHand(k)' => AttemptFine(job[k])'
      BY <2>3, <3>1, GoodInHand
    <3>. QED  BY <1>5, <3>2 DEF PlanAttempt, Inv, engineVars
  <2>5. CASE ~(DOMAIN changes # {})
    <3>1. /\ pc' = [pc EXCEPT ![l] = "wait"]
          /\ job' = [job EXCEPT ![l] = NoAttempt]
      BY <1>5, <2>5 DEF PlanAttempt, Waits
    <3>2. /\ DOMAIN pc' = Loops /\ DOMAIN job' = Loops
          /\ \A k \in Loops : InHand(k)' => AttemptFine(job[k])'
      BY <3>1, EmptyHanded
    <3>. QED  BY <1>5, <3>2 DEF PlanAttempt, Inv, engineVars
  <2>. QED  BY <2>4, <2>5
<1>6. ASSUME NEW crowded \in BOOLEAN, ApplyPlan(l, crowded)
      PROVE  Inv'
  <2>1. PlanFine(job[l].changes)
    BY <1>6 DEF ApplyPlan, Inv, InHand, AttemptFine
  <2>2. SettingsFine(settings)'
    BY <1>6, <2>1, ReconfiguredFine DEF ApplyPlan, Inv
  <2>3. /\ DOMAIN pc' = Loops /\ DOMAIN job' = Loops
        /\ \A k \in Loops : InHand(k)' => AttemptFine(job[k])'
    <3>1. CASE Refused(job[l].changes, crowded)
      BY <1>6, <3>1, EmptyHanded DEF ApplyPlan, Waits
    <3>2. CASE ~Refused(job[l].changes, crowded)
      BY <1>6, <3>2, GoodInHand DEF ApplyPlan, InHand
    <3>. QED  BY <3>1, <3>2
  <2>. QED  BY <1>6, <2>2, <2>3 DEF ApplyPlan, Inv
<1>7. CASE NoteAttempt(l)
  <2>1. AttemptFine(job[l])
    BY <1>7 DEF NoteAttempt, Goes, Inv, InHand
  <2>2. AttemptFine(pending)'
    BY <1>7, <2>1 DEF NoteAttempt, AttemptFine
  <2>3. /\ DOMAIN pc' = Loops /\ DOMAIN job' = Loops
        /\ \A k \in Loops : InHand(k)' => AttemptFine(job[k])'
    BY <1>7, EmptyHanded DEF NoteAttempt, Goes, Waits
  <2>. QED  BY <1>7, <2>2, <2>3 DEF NoteAttempt, Inv, engineVars
<1>8. ASSUME NEW m \in Readings, LookForRegression(l, m)
      PROVE  Inv'
  <2>1. /\ DOMAIN pc' = Loops /\ DOMAIN job' = Loops
        /\ \A k \in Loops : InHand(k)' => AttemptFine(job[k])'
    <3>1. CASE pending = NoAttempt
      BY <1>8, <3>1, EmptyHanded DEF LookForRegression, Waits
    <3>2. CASE pending # NoAttempt
      <4>1. AttemptFine(pending) /\ job' = [job EXCEPT ![l] = pending]
        BY <1>8, <3>2 DEF LookForRegression, Inv
      <4>2. PICK to : pc' = [pc EXCEPT ![l] = to]
        BY <1>8, <3>2 DEF LookForRegression
      <4>. QED  BY <4>1, <4>2, GoodInHand
    <3>. QED  BY <3>1, <3>2
  <2>. QED  BY <1>8, <2>1 DEF LookForRegression, Inv, engineVars
<1>9. CASE Promote(l)
  BY <1>9, SettleInv DEF Promote, Inv, engineVars
<1>10. CASE FindNeutral(l)
  <2>1. /\ DOMAIN pc' = Loops /\ DOMAIN job' = Loops
        /\ \A k \in Loops : InHand(k)' => AttemptFine(job[k])'
    BY <1>10, GoodInHand DEF FindNeutral, Goes, InHand
  <2>. QED  BY <1>10, <2>1 DEF FindNeutral, Inv, engineVars
<1>11. ASSUME NEW crowded \in BOOLEAN, RollBack(l, crowded)
       PROVE  Inv'
  <2>1. PlanFine(Reverted(job[l]))
    BY <1>11, RevertedFine DEF RollBack, Inv, InHand
  <2>2. SettingsFine(settings)'
    BY <1>11, <2>1, ReconfiguredFine DEF RollBack, Inv
  <2>3. CASE Refused(Reverted(job[l]), crowded)
    <3>1. /\ DOMAIN pc' = Loops /\ DOMAIN job' = Loops
          /\ \A k \in Loops : InHand(k)' => AttemptFine(job[k])'
      BY <1>11, <2>3, EmptyHanded DEF RollBack, Waits
    <3>. QED  BY <1>11, <2>2, <2>3, <3>1 DEF RollBack, Inv
  <2>4. CASE ~Refused(Reverted(job[l]), crowded)
    BY <1>11, <2>2, <2>4, SettleInv DEF RollBack
  <2>. QED  BY <2>3, <2>4
<1>. QED  BY <1>1, <1>2, <1>3, <1>4, <1>5, <1>6, <1>7, <1>8, <1>9, <1>10, <1>11,
        <1>12 DEF Loop

LEMMA AdminInv ==
  ASSUME Inv, NEW a \in Admins, Admin(a)
  PROVE  Inv'
<1>1. ASSUME NEW l \in Loops, StartCreates(a, l)
      PROVE  Inv'
  <2>1. /\ DOMAIN pc' = Loops /\ DOMAIN job' = Loops
        /\ \A k \in Loops : InHand(k)' => AttemptFine(job[k])'
    BY <1>1, EmptyHanded DEF StartCreates
  <2>. QED  BY <1>1, <2>1 DEF StartCreates, Inv, engineVars
<1>2. ASSUME UNCHANGED <<engineVars, pending, loopVars>>
      PROVE  Inv'
  BY <1>2 DEF Inv, InHand, AttemptFine, engineVars, loopVars
<1>3. CASE \E g \in Goals : SetGoal(a, g)
  BY <1>2, <1>3 DEF SetGoal
<1>4. CASE StartFinds(a)
  BY <1>2, <1>4 DEF StartFinds
<1>5. CASE StopSets(a) \/ StopReads(a) \/ StopJoins(a)
  BY <1>2, <1>5 DEF StopSets, StopReads, StopJoins
<1>. QED  BY <1>1, <1>3, <1>4, <1>5 DEF Admin

LEMMA NextInv == Inv /\ [Next]_vars => Inv'
<1>. SUFFICES ASSUME Inv, [Next]_vars PROVE Inv'
  OBVIOUS
<1>1. CASE FirstStep
  BY <1>1 DEF FirstStep, Inv, InHand, loopVars
<1>2. CASE RequestsComplete
  BY <1>2 DEF RequestsComplete, Inv, InHand, loopVars
<1>3. CASE TimePasses
  <2>1. AttemptFine(pending) => AttemptFine([pending EXCEPT !.age = Older(@, AgeCap)])
    BY DEF AttemptFine
  <2>2. pending' = NoAttempt \/ AttemptFine(pending')
    BY <1>3, <2>1 DEF TimePasses, Inv
  <2>. QED  BY <1>3, <2>2 DEF TimePasses, Inv, InHand, engineVars
<1>4. CASE \E l \in Loops : Loop(l)
  BY <1>4, LoopInv
<1>5. CASE \E a \in Admins : Admin(a)
  BY <1>5, AdminInv
<1>6. CASE UNCHANGED vars
  BY <1>6 DEF vars, engineVars, loopVars, Inv, InHand
<1>. QED  BY <1>1, <1>2, <1>3, <1>4, <1>5, <1>6 DEF Next

(* TuningController.tick, _rollback and TuningPolicy.propose, from any number
   of threads, leave the engine with a chunk size that fits its budget and
   with settings within PolicyConfig, if it starts so. *)
THEOREM BoundsKept == Spec => []SettingsInBounds
<1>1. Inv => SettingsInBounds
  BY DEF Inv, SettingsFine, SettingsInBounds, TunableStarts
<1>. QED  BY <1>1, InitInv, NextInv, PTL DEF Spec

(* With min_completed_requests at least 1, _maybe_start_attempt proposes only
   once the engine has a cache, and so never a change that needs another one:
   the number of slots and the prefix cache stay as they were. *)
THEOREM ShapeKept == Spec => []CacheShapeKept
<1>1. Inv => CacheShapeKept
  BY DEF Inv, SettingsFine, CacheShapeKept, SameShape
<1>. QED  BY <1>1, InitInv, NextInv, PTL DEF Spec
-----------------------------------------------------------------------------
(* What the variables hold. *)

(* A set of natural numbers has a least one, from the well-foundedness of
   strict inclusion on finite sets. *)
LEMMA LeastNat ==
  ASSUME NEW T \in SUBSET Nat, T # {}
  PROVE  \E m \in T : \A y \in T : m <= y
<1>. DEFINE Segments == {0..x : x \in T}
            R == StrictSubsetOrdering(Nat)
<1>1. IsWellFoundedOn(R, FiniteSubsetsOf(Nat))
  BY FS_StrictSubsetOrderingWellFounded
<1>2. Segments \subseteq FiniteSubsetsOf(Nat)
  <2>1. ASSUME NEW x \in T PROVE 0..x \in FiniteSubsetsOf(Nat)
    <3>1. IsFiniteSet(0..x)
      <4>1. x \in Int /\ 0 \in Int
        OBVIOUS
      <4>. QED BY ONLY <4>1, FS_Interval, Zenon
    <3>2. 0..x \subseteq Nat
      OBVIOUS
    <3>. QED BY <3>1, <3>2 DEF FiniteSubsetsOf
  <2>. QED BY <2>1
<1>3. Segments # {}
  OBVIOUS
<1>4. PICK s \in Segments : \A y \in Segments : ~ (<<y, s>> \in R)
  <2>. HIDE DEF Segments, R
  <2>. QED BY <1>1, <1>2, <1>3, WFMin
<1>5. PICK m \in T : s = 0..m
  OBVIOUS
<1>6. ASSUME NEW y \in T, ~(m <= y) PROVE FALSE
  <2>1. <<0..y, 0..m>> \in R
    <3>1. 0..y \subseteq 0..m /\ 0..y \subseteq Nat /\ 0..m \subseteq Nat
      BY <1>6
    <3>2. m \in 0..m /\ m \notin 0..y
      BY <1>6
    <3>. QED  BY <3>1, <3>2 DEF StrictSubsetOrdering
  <2>. QED BY <1>4, <1>5, <2>1
<1>. QED BY <1>6

SampleTypes == [age : Nat, queued : Nat]
InOrder(q) == \A i, j \in 1..Len(q) : i < j => q[i].age >= q[j].age

(* Pruning keeps the order, and what it leaves is within the window because
   the first is. *)
LEMMA FreshOnes ==
  ASSUME NEW q \in Seq(SampleTypes), InOrder(q)
  PROVE  /\ Fresh(q) \in Seq([age : 0 .. Window, queued : Nat])
         /\ InOrder(Fresh(q))
<1>. DEFINE cut(n) == /\ \A i \in 1 .. n : q[i].age > Window
                      /\ n < Len(q) => q[n + 1].age <= Window
            T == {n \in 0 .. Len(q) : n < Len(q) => q[n + 1].age <= Window}
            c == CHOOSE n \in 0 .. Len(q) : cut(n)
<1>1. Len(q) \in Nat /\ DOMAIN q = 1..Len(q) /\ \A i \in 1..Len(q) : q[i] \in SampleTypes
  BY LenProperties, ElementOfSeq
<1>2. \E n \in 0 .. Len(q) : cut(n)
  <2>1. T \in SUBSET Nat /\ Len(q) \in T
    BY <1>1
  <2>2. PICK m \in T : \A y \in T : m <= y
    <3>. HIDE DEF T
    <3>. QED  BY <2>1, LeastNat
  <2>3. ASSUME NEW i \in 1 .. m PROVE q[i].age > Window
    <3>1. m \in 0 .. Len(q)
      OBVIOUS
    <3>. HIDE DEF T
    <3>2. /\ i - 1 \in 0 .. Len(q) /\ i - 1 < Len(q) /\ ~(m <= i - 1)
          /\ (i - 1) + 1 = i /\ i \in 1..Len(q)
      BY <1>1, <3>1
    <3>3. i - 1 \notin T
      BY <2>2, <3>2
    <3>4. ~(i - 1 < Len(q) => q[(i - 1) + 1].age <= Window)
      BY <3>2, <3>3 DEF T
    <3>5. ~(q[i].age <= Window) /\ q[i] \in SampleTypes
      BY <1>1, <3>2, <3>4
    <3>6. q[i].age \in Nat
      BY <3>5 DEF SampleTypes
    <3>. QED  BY <3>5, <3>6, PolicyAssumption
  <2>. QED  BY <2>2, <2>3
<1>3. c \in 0 .. Len(q) /\ cut(c)
  <2>. HIDE DEF cut
  <2>. QED  BY <1>2
<1>4. Fresh(q) = SubSeq(q, c + 1, Len(q))
  BY DEF Fresh
<1>. HIDE DEF c, T
<1>5. /\ Fresh(q) \in Seq(SampleTypes) /\ Len(Fresh(q)) = Len(q) - c
      /\ \A i \in 1 .. Len(q) - c : Fresh(q)[i] = q[c + i]
  <2>1. \A i \in c + 1 .. Len(q) : q[i] \in SampleTypes
    BY <1>1, <1>3
  <2>2. /\ Fresh(q) \in Seq(SampleTypes)
        /\ Len(Fresh(q)) = IF c + 1 <= Len(q) THEN Len(q) - (c + 1) + 1 ELSE 0
        /\ \A i \in 1 .. Len(q) - (c + 1) + 1 : Fresh(q)[i] = q[(c + 1) + i - 1]
    BY <1>1, <1>3, <1>4, <2>1, SubSeqProperties
  <2>3. \A i \in 1 .. Len(q) - c : (c + 1) + i - 1 = c + i /\ i \in 1 .. Len(q) - (c + 1) + 1
    BY <1>1, <1>3
  <2>4. PICK n, k \in Nat : n = Len(q) /\ k = c /\ k <= n
    <3>1. c \in Nat /\ c <= Len(q)
      BY <1>1, <1>3
    <3>. QED  BY <1>1, <3>1
  <2>5. (IF k + 1 <= n THEN n - (k + 1) + 1 ELSE 0) = n - k
    BY <2>4
  <2>6. Len(Fresh(q)) = Len(q) - c
    BY <2>2, <2>4, <2>5
  <2>. QED  BY <2>2, <2>3, <2>6
<1>6. InOrder(Fresh(q))
  <2>1. \A i \in 1 .. Len(q) - c : c + i \in 1 .. Len(q)
    BY <1>1, <1>3
  <2>2. \A i, j \in 1 .. Len(q) - c : i < j => c + i < c + j
    BY <1>1, <1>3
  <2>. QED  BY <1>5, <2>1, <2>2 DEF InOrder
<1>7. ASSUME NEW i \in 1 .. Len(q) - c PROVE q[c + i] \in [age : 0 .. Window, queued : Nat]
  <2>1. c + i \in 1 .. Len(q) /\ c + 1 \in 1 .. Len(q) /\ c < Len(q) /\ (i = 1 \/ c + 1 < c + i)
    BY <1>1, <1>3
  <2>2. q[c + 1].age <= Window /\ q[c + 1].age \in Nat /\ q[c + i].age \in Nat
    BY <1>1, <1>3, <2>1 DEF SampleTypes
  <2>3. q[c + i].age <= q[c + 1].age
    BY <1>1, <2>1, <2>2 DEF InOrder
  <2>4. q[c + i].age \in 0 .. Window
    BY <2>2, <2>3, PolicyAssumption
  <2>. QED  BY <1>1, <2>1, <2>4 DEF SampleTypes
<1>8. \A i \in 1 .. Len(Fresh(q)) : Fresh(q)[i] \in [age : 0 .. Window, queued : Nat]
  BY <1>5, <1>7
<1>9. Fresh(q) = [i \in 1 .. Len(Fresh(q)) |-> Fresh(q)[i]] /\ Len(Fresh(q)) \in Nat
  BY <1>5, LenProperties
<1>10. Fresh(q) \in Seq([age : 0 .. Window, queued : Nat])
  <2>. DEFINE fresh == Fresh(q)
              S == [age : 0 .. Window, queued : Nat]
  <2>. HIDE DEF fresh, S
  <2>1. Len(fresh) \in Nat /\ fresh = [i \in 1 .. Len(fresh) |-> fresh[i]]
        /\ \A i \in 1 .. Len(fresh) : fresh[i] \in S
    BY <1>8, <1>9 DEF fresh, S
  <2>2. fresh \in Seq(S)
    BY <2>1
  <2>. QED  BY <2>2 DEF fresh, S
<1>. QED  BY <1>6, <1>10

Kept == [age : 0 .. Window, queued : Nat]

LEMMA KeptOnes ==
  ASSUME NEW q \in Seq(Kept)
  PROVE  /\ q \in Seq(SampleTypes)
         /\ Len(q) \in Nat /\ DOMAIN q = 1 .. Len(q)
         /\ \A i \in 1 .. Len(q) : /\ q[i].age \in Nat /\ q[i].age <= Window
                                   /\ q[i] \in SampleTypes
<1>1. Len(q) \in Nat /\ DOMAIN q = 1 .. Len(q) /\ \A i \in 1 .. Len(q) : q[i] \in Kept
  BY LenProperties, ElementOfSeq
<1>2. \A s \in Kept : s \in SampleTypes /\ s.age \in Nat /\ s.age <= Window
  BY PolicyAssumption DEF Kept, SampleTypes
<1>3. q = [i \in 1 .. Len(q) |-> q[i]]
  BY <1>1, LenProperties
<1>4. q \in Seq(SampleTypes)
  <2>. HIDE DEF SampleTypes
  <2>1. \A i \in 1 .. Len(q) : q[i] \in SampleTypes
    BY <1>1, <1>2
  <2>2. Kept \subseteq SampleTypes
    BY <1>2
  <2>. QED  BY <2>2
<1>. QED  BY <1>1, <1>2, <1>4

(* A new sample is the youngest. *)
LEMMA ObservedOnes ==
  ASSUME samples \in Seq(Kept), InOrder(samples), NEW m \in Readings
  PROVE  Observed(m) \in Seq(Kept) /\ InOrder(Observed(m))
<1>. DEFINE new == [age |-> 0, queued |-> m.queued]
            q == Append(samples, new)
<1>1. new \in SampleTypes /\ new.age = 0
  BY ControllerAssumption DEF SampleTypes
<1>2. /\ q \in Seq(SampleTypes) /\ Len(q) = Len(samples) + 1
      /\ q[Len(samples) + 1] = new
      /\ \A i \in 1 .. Len(samples) : q[i] = samples[i]
  <2>. HIDE DEF new
  <2>. QED  BY <1>1, KeptOnes, AppendProperties
<1>3. InOrder(q)
  <2>. HIDE DEF q, new
  <2>. SUFFICES ASSUME NEW i \in 1 .. Len(q), NEW j \in 1 .. Len(q), i < j
                PROVE  q[i].age >= q[j].age
    BY DEF InOrder
  <2>1. Len(samples) \in Nat /\ i \in 1 .. Len(samples)
    BY <1>2, KeptOnes
  <2>2. q[i] = samples[i] /\ samples[i].age \in Nat
    BY <1>2, <2>1, KeptOnes
  <2>3. CASE j \in 1 .. Len(samples)
    BY <1>2, <2>1, <2>3 DEF InOrder
  <2>4. CASE j = Len(samples) + 1
    BY <1>1, <1>2, <2>2, <2>4
  <2>. QED  BY <1>2, <2>1, <2>3, <2>4
<1>4. Observed(m) = Fresh(q)
  BY DEF Observed
<1>. HIDE DEF q
<1>. QED  BY <1>2, <1>3, <1>4, FreshOnes DEF Kept

LEMMA AgedOnes ==
  ASSUME samples \in Seq(Kept), InOrder(samples), TimePasses
  PROVE  samples' \in Seq(Kept) /\ InOrder(samples)'
<1>. DEFINE q == [i \in 1 .. Len(samples) |-> [samples[i] EXCEPT !.age = @ + 1]]
<1>1. samples' = Fresh(q)
  BY DEF TimePasses
<1>2. Len(samples) \in Nat
  BY KeptOnes
<1>3. \A i \in 1 .. Len(samples) : q[i] \in SampleTypes /\ q[i].age = samples[i].age + 1
  <2>1. \A s \in SampleTypes : LET older == [s EXCEPT !.age = @ + 1] IN
          older \in SampleTypes /\ older.age = s.age + 1
    BY DEF SampleTypes
  <2>. QED  BY <2>1, KeptOnes
<1>4. Len(q) = Len(samples)
  BY <1>2
<1>5. q \in Seq(SampleTypes)
  <2>. DEFINE n == Len(samples)
              S == SampleTypes
  <2>1. q = [i \in 1 .. n |-> q[i]] /\ n \in Nat /\ \A i \in 1 .. n : q[i] \in S
    BY <1>2, <1>3
  <2>. HIDE DEF q, n, S
  <2>2. q \in Seq(S)
    BY <2>1
  <2>. QED  BY <2>2 DEF S
<1>6. InOrder(q)
  <2>. HIDE DEF q
  <2>1. \A i \in 1 .. Len(q) : q[i].age = samples[i].age + 1 /\ samples[i].age \in Nat
    BY <1>3, <1>4, KeptOnes
  <2>2. \A i, j \in 1 .. Len(q) : i < j => samples[i].age >= samples[j].age
    BY <1>4 DEF InOrder
  <2>. SUFFICES ASSUME NEW i \in 1 .. Len(q), NEW j \in 1 .. Len(q), i < j
                PROVE  q[i].age >= q[j].age
    BY DEF InOrder
  <2>3. PICK m, n \in Nat : m = samples[i].age /\ n = samples[j].age /\ m >= n
    BY <2>1, <2>2
  <2>4. q[i].age = m + 1 /\ q[j].age = n + 1
    BY <2>1, <2>3
  <2>. QED  BY <2>3, <2>4
<1>. HIDE DEF q
<1>7. Fresh(q) \in Seq(Kept) /\ InOrder(Fresh(q))
  BY <1>5, <1>6, FreshOnes DEF Kept
<1>. QED  BY <1>1, <1>7 DEF InOrder

Stages == {"off", "check", "plan", "apply", "note", "judge", "weigh",
           "rollback", "wait"}
Busy == {"apply", "note", "weigh", "rollback"}
Holds(l) ==
  /\ IF pc[l] \in Busy THEN IsAttempt(job[l]) ELSE job[l] = NoAttempt
  /\ IF pc[l] = "weigh" THEN seen[l] \in Snapshots ELSE seen[l] = NoAttempt

EngineTypes ==
  /\ settings \in Settings /\ accepted \in Settings
  /\ cacheInitialized \in BOOLEAN /\ completed \in BOOLEAN
  /\ overlapped \in BOOLEAN
ControllerTypes ==
  /\ goal \in Goals /\ stop \in BOOLEAN
  /\ pending = NoAttempt \/ IsAttempt(pending)
  /\ lastAge \in 0 .. AgeCap
  /\ attempted \in Nat /\ promoted \in Nat /\ rolledBack \in Nat
SamplesTypes == samples \in Seq(Kept) /\ InOrder(samples)
LoopTypes ==
  /\ pc \in [Loops -> Stages] /\ age \in [Loops -> 0 .. AgeCap]
  /\ DOMAIN job = Loops /\ DOMAIN seen = Loops
  /\ \A l \in Loops : Holds(l)
AdminTypes ==
  /\ thread \in Loops \cup {NoLoop} /\ enabled \in BOOLEAN
  /\ apc \in [Admins -> {"idle", "create", "read", "join"}]
  /\ target \in [Admins -> Loops \cup {NoLoop}]
  /\ \A a \in Admins : apc[a] = "join" <=> target[a] # NoLoop

(* TypeOK, and the samples in the order they were taken, without which the
   ones that pruning leaves need not be within the window *)
TypeInv == EngineTypes /\ ControllerTypes /\ SamplesTypes /\ LoopTypes /\ AdminTypes

LEMMA TypeInvTypes == TypeInv => TypeOK
  BY DEF TypeInv, EngineTypes, ControllerTypes, SamplesTypes, LoopTypes, AdminTypes,
         TypeOK, Kept, Stages, Busy, Holds

LEMMA CapTypes ==
  /\ AgeCap \in Nat
  /\ \A n \in 0 .. AgeCap : Older(n, AgeCap) \in 0 .. AgeCap
<1>1. AgeCap \in Nat
  BY ControllerAssumption DEF AgeCap, MaxOf
<1>. HIDE DEF AgeCap
<1>. QED  BY <1>1 DEF Older

LEMMA InitTypes == Init => TypeInv
<1>. SUFFICES ASSUME Init PROVE TypeInv
  OBVIOUS
<1>1. settings \in Settings /\ completed \in BOOLEAN
  BY ControllerAssumption DEF Init
<1>2. EngineTypes
  BY <1>1 DEF Init, EngineTypes
<1>3. ControllerTypes
  <2>1. lastAge \in 0 .. AgeCap
    <3>1. lastAge = AgeCap
      BY DEF Init
    <3>. HIDE DEF AgeCap
    <3>. QED  BY <3>1, CapTypes
  <2>. QED  BY <2>1 DEF Init, ControllerTypes
<1>4. SamplesTypes
  BY DEF Init, SamplesTypes, InOrder
<1>5. LoopTypes
  BY CapTypes DEF Init, LoopTypes, Stages, Busy, Holds
<1>6. AdminTypes
  BY DEF Init, AdminTypes
<1>. QED  BY <1>2, <1>3, <1>4, <1>5, <1>6 DEF TypeInv

(* One loop moves, and holds what it should where it gets to. *)
LEMMA OneMoves ==
  ASSUME LoopTypes, NEW l \in Loops, NEW to \in Stages,
         pc' = [pc EXCEPT ![l] = to],
         age' = age \/ age' = [age EXCEPT ![l] = 0],
         DOMAIN job' = Loops, DOMAIN seen' = Loops,
         \A k \in Loops \ {l} : job'[k] = job[k] /\ seen'[k] = seen[k],
         IF to \in Busy THEN IsAttempt(job'[l]) ELSE job'[l] = NoAttempt,
         IF to = "weigh" THEN seen'[l] \in Snapshots ELSE seen'[l] = NoAttempt
  PROVE  LoopTypes'
<1>0. 0 \in 0 .. AgeCap
  <2>. HIDE DEF AgeCap
  <2>. QED  BY CapTypes
<1>1. /\ DOMAIN job' = Loops /\ DOMAIN seen' = Loops
      /\ pc' \in [Loops -> Stages] /\ age' \in [Loops -> 0 .. AgeCap]
  BY <1>0 DEF LoopTypes
<1>2. ASSUME NEW k \in Loops PROVE Holds(k)'
  <2>1. CASE k = l
    <3>1. pc'[l] = to
      BY DEF LoopTypes
    <3>. QED  BY <2>1, <3>1 DEF Holds, IsAttempt, IsPlan
  <2>2. CASE k # l
    <3>1. pc'[k] = pc[k] /\ job'[k] = job[k] /\ seen'[k] = seen[k]
      BY <2>2 DEF LoopTypes
    <3>. QED  BY <3>1 DEF LoopTypes, Holds, IsAttempt, IsPlan
  <2>. QED  BY <2>1, <2>2
<1>. QED  BY <1>1, <1>2 DEF LoopTypes

LEMMA EmptyMoves ==
  ASSUME LoopTypes, NEW l \in Loops, NEW to \in Stages \ Busy,
         pc' = [pc EXCEPT ![l] = to],
         \/ Waits(l)
         \/ pc[l] \notin Busy /\ age' = [age EXCEPT ![l] = 0] /\ UNCHANGED <<job, seen>>
  PROVE  LoopTypes'
<1>1. to \in Stages /\ to \notin Busy /\ to # "weigh"
  BY DEF Busy
<1>2. /\ DOMAIN job' = Loops /\ DOMAIN seen' = Loops
      /\ \A k \in Loops \ {l} : job'[k] = job[k] /\ seen'[k] = seen[k]
      /\ job'[l] = NoAttempt /\ seen'[l] = NoAttempt
      /\ age' = [age EXCEPT ![l] = 0]
  BY DEF LoopTypes, Waits, Holds, Busy
<1>. QED  BY <1>1, <1>2, OneMoves

(* An action that leaves alone what a part is about leaves the part alone. *)
LEMMA PartsStay ==
  /\ EngineTypes /\ settings' \in Settings /\ cacheInitialized' \in BOOLEAN
     /\ completed' \in BOOLEAN /\ overlapped' \in BOOLEAN
     /\ accepted' \in {accepted, settings} => EngineTypes'
  /\ SamplesTypes /\ UNCHANGED samples => SamplesTypes'
  /\ LoopTypes /\ UNCHANGED loopVars => LoopTypes'
  /\ AdminTypes /\ UNCHANGED adminVars => AdminTypes'
<1>1. EngineTypes /\ settings' \in Settings /\ cacheInitialized' \in BOOLEAN
        /\ completed' \in BOOLEAN /\ overlapped' \in BOOLEAN
        /\ accepted' \in {accepted, settings} => EngineTypes'
  BY DEF EngineTypes
<1>2. SamplesTypes /\ UNCHANGED samples => SamplesTypes'
  BY DEF SamplesTypes, InOrder
<1>3. LoopTypes /\ UNCHANGED loopVars => LoopTypes'
  BY DEF LoopTypes, loopVars, Holds, IsAttempt, IsPlan
<1>4. AdminTypes /\ UNCHANGED adminVars => AdminTypes'
  BY DEF AdminTypes, adminVars
<1>. QED  BY <1>1, <1>2, <1>3, <1>4

LEMMA ControllerStays ==
  ASSUME ControllerTypes, UNCHANGED <<goal, pending, lastAge>>, stop' \in BOOLEAN,
         attempted' \in Nat, promoted' \in Nat, rolledBack' \in Nat
  PROVE  ControllerTypes'
  BY DEF ControllerTypes, IsAttempt, IsPlan

LEMMA ControllerSettles ==
  ASSUME ControllerTypes, LoopTypes, NEW l \in Loops, Settle(l), UNCHANGED <<goal, stop>>,
         attempted' \in Nat, promoted' \in Nat, rolledBack' \in Nat
  PROVE  ControllerTypes'
<1>. HIDE DEF AgeCap
<1>1. lastAge' \in 0 .. AgeCap
  BY DEF Settle, LoopTypes
<1>. QED  BY <1>1 DEF ControllerTypes, Settle

(* A loop's step *)
LEMMA LoopKeepsTypes ==
  ASSUME TypeInv, Inv, Inv', NEW l \in Loops, Loop(l)
  PROVE  TypeInv'
<1>0. /\ EngineTypes /\ ControllerTypes /\ SamplesTypes /\ LoopTypes /\ AdminTypes
      /\ settings \in Settings /\ settings' \in Settings
  BY DEF TypeInv, Inv, SettingsFine
<1>n. /\ attempted \in Nat /\ promoted \in Nat /\ rolledBack \in Nat /\ stop \in BOOLEAN
      /\ attempted + 1 \in Nat /\ promoted + 1 \in Nat /\ rolledBack + 1 \in Nat
  BY <1>0 DEF ControllerTypes
<1>e. UNCHANGED <<cacheInitialized, completed, overlapped>>
        /\ accepted' \in {accepted, settings} => EngineTypes'
  BY <1>0, PartsStay DEF EngineTypes
<1>f. ASSUME UNCHANGED <<cacheInitialized, completed, goal, pending, lastAge, stop,
                         adminVars, accepted, overlapped>>,
             attempted' \in Nat, promoted' \in Nat, rolledBack' \in Nat,
             SamplesTypes', LoopTypes'
      PROVE  TypeInv'
  BY <1>0, <1>n, <1>e, <1>f, PartsStay, ControllerStays DEF TypeInv
<1>g. ASSUME UNCHANGED <<cacheInitialized, completed, goal, pending, lastAge, stop, samples,
                         trackerVars, adminVars, accepted, overlapped>>, LoopTypes'
      PROVE  TypeInv'
  BY <1>0, <1>n, <1>f, <1>g, PartsStay DEF trackerVars
<1>s. /\ "off" \in Stages \ Busy /\ "check" \in Stages \ Busy /\ "wait" \in Stages \ Busy
      /\ "plan" \in Stages \ Busy /\ "judge" \in Stages \ Busy
      /\ "rollback" \in Stages /\ "weigh" \in Stages /\ "apply" \in Stages /\ "note" \in Stages
      /\ "rollback" \in Busy /\ "weigh" \in Busy /\ "apply" \in Busy /\ "note" \in Busy
  BY DEF Stages, Busy
<1>h. DOMAIN job = Loops /\ DOMAIN seen = Loops /\ DOMAIN pc = Loops /\ Holds(l)
  BY <1>0 DEF LoopTypes
<1>1. CASE LoopEnds(l)
  <2>1. LoopTypes'
    BY <1>0, <1>1, <1>s, EmptyMoves DEF LoopEnds, Goes
  <2>. QED  BY <1>1, <1>g, <2>1 DEF LoopEnds, engineVars
<1>2. CASE TickBegins(l)
  <2>1. TickDue \in Stages \ Busy
    BY <1>s DEF TickDue
  <2>2. LoopTypes'
    BY <1>0, <1>2, <1>s, <2>1, EmptyMoves DEF TickBegins, Goes, Busy
  <2>. QED  BY <1>2, <1>g, <2>2 DEF TickBegins, engineVars
<1>3. CASE LoopWakes(l)
  <2>1. LoopTypes'
    BY <1>0, <1>3, <1>s, EmptyMoves DEF LoopWakes, Goes, Busy
  <2>. QED  BY <1>3, <1>g, <2>1 DEF LoopWakes, engineVars
<1>4. CASE NothingToJudgeBy(l)
  <2>1. LoopTypes'
    BY <1>0, <1>4, <1>s, EmptyMoves DEF NothingToJudgeBy, Goes
  <2>. QED  BY <1>4, <1>g, <2>1 DEF NothingToJudgeBy, engineVars
<1>5. CASE SnapshotRaises(l)
  <2>1. LoopTypes'
    BY <1>0, <1>5, <1>s, EmptyMoves DEF SnapshotRaises, Goes
  <2>. QED  BY <1>5, <1>g, <2>1 DEF SnapshotRaises, engineVars
<1>6. ASSUME NEW m \in Readings, PlanAttempt(l, m) PROVE TypeInv'
  <2>. DEFINE changes == Propose(settings, Labels(m, Observed(m)), goal, Paged, cacheInitialized)
              j == [changes |-> changes, previous |-> settings,
                    baseline |-> Snapshot(m), age |-> 0]
  <2>1. SamplesTypes'
    BY <1>0, <1>6, ObservedOnes DEF SamplesTypes, PlanAttempt, InOrder
  <2>2. IsAttempt(j)
    <3>1. IsPlan(changes)
      BY <1>0, ProposeIsPlan
    <3>2. Snapshot(m) \in Snapshots
      BY ControllerAssumption DEF Snapshot, Snapshots
    <3>3. 0 \in 0 .. AgeCap
      <4>. HIDE DEF AgeCap
      <4>. QED  BY CapTypes
    <3>. HIDE DEF changes
    <3>. QED  BY <1>0, <3>1, <3>2, <3>3 DEF IsAttempt
  <2>3. \/ /\ pc' = [pc EXCEPT ![l] = "apply"] /\ attempted' = attempted + 1
           /\ job' = [job EXCEPT ![l] = j] /\ UNCHANGED <<age, seen>>
        \/ pc' = [pc EXCEPT ![l] = "wait"] /\ Waits(l) /\ UNCHANGED attempted
    BY <1>6 DEF PlanAttempt
  <2>4. pc[l] = "plan"
    BY <1>6 DEF PlanAttempt
  <2>. HIDE DEF j
  <2>5. LoopTypes'
    <3>1. CASE /\ pc' = [pc EXCEPT ![l] = "apply"]
               /\ job' = [job EXCEPT ![l] = j] /\ UNCHANGED <<age, seen>>
      <4>1. /\ DOMAIN job' = Loops /\ DOMAIN seen' = Loops /\ job'[l] = j
            /\ \A k \in Loops \ {l} : job'[k] = job[k] /\ seen'[k] = seen[k]
            /\ seen'[l] = NoAttempt
        BY <1>h, <2>4, <3>1 DEF Holds
      <4>. QED  BY <1>0, <1>s, <2>2, <3>1, <4>1, OneMoves
    <3>. QED  BY <1>0, <1>s, <2>3, <3>1, EmptyMoves
  <2>6. attempted' \in Nat
    BY <1>n, <2>3
  <2>. QED  BY <1>6, <1>f, <1>n, <2>1, <2>5, <2>6 DEF PlanAttempt, engineVars
<1>7. ASSUME NEW crowded \in BOOLEAN, ApplyPlan(l, crowded) PROVE TypeInv'
  <2>1. \/ pc' = [pc EXCEPT ![l] = "wait"] /\ Waits(l)
        \/ pc' = [pc EXCEPT ![l] = "note"] /\ UNCHANGED <<age, job, seen>>
    BY <1>7 DEF ApplyPlan
  <2>2. IsAttempt(job[l]) /\ seen[l] = NoAttempt
    BY <1>h, <1>7, <1>s DEF Holds, ApplyPlan
  <2>3. LoopTypes'
    <3>1. CASE pc' = [pc EXCEPT ![l] = "note"] /\ UNCHANGED <<age, job, seen>>
      BY <1>0, <1>h, <1>s, <2>2, <3>1, OneMoves
    <3>. QED  BY <1>0, <1>s, <2>1, <3>1, EmptyMoves
  <2>. QED  BY <1>7, <1>g, <2>3 DEF ApplyPlan
<1>8. CASE NoteAttempt(l)
  <2>1. LoopTypes'
    BY <1>0, <1>8, <1>s, EmptyMoves DEF NoteAttempt, Goes
  <2>2. IsAttempt(job[l]) /\ age[l] \in 0 .. AgeCap
    BY <1>0, <1>h, <1>8, <1>s DEF Holds, NoteAttempt, Goes, LoopTypes
  <2>3. IsAttempt([job[l] EXCEPT !.age = age[l]])
    <3>. HIDE DEF AgeCap
    <3>. QED  BY <2>2 DEF IsAttempt
  <2>4. ControllerTypes'
    <3>1. pending' = NoAttempt \/ IsAttempt(pending')
      BY <1>8, <2>3 DEF NoteAttempt
    <3>. QED  BY <1>0, <1>8, <2>2, <3>1 DEF NoteAttempt, ControllerTypes, trackerVars, IsAttempt, IsPlan
  <2>. QED  BY <1>0, <1>e, <1>8, <2>1, <2>4, PartsStay DEF NoteAttempt, TypeInv, engineVars
<1>9. ASSUME NEW m \in Readings, LookForRegression(l, m) PROVE TypeInv'
  <2>0. Snapshot(m) \in Snapshots
    BY ControllerAssumption DEF Snapshot, Snapshots
  <2>1. CASE pending = NoAttempt
    <3>1. LoopTypes'
      BY <1>0, <1>9, <1>s, <2>1, EmptyMoves DEF LookForRegression
    <3>. QED  BY <1>9, <1>g, <3>1 DEF LookForRegression, engineVars
  <2>2. CASE pending # NoAttempt
    <3>1. IsAttempt(pending)
      BY <1>0, <2>2 DEF ControllerTypes
    <3>2. /\ job' = [job EXCEPT ![l] = pending] /\ UNCHANGED age
          /\ \/ pc' = [pc EXCEPT ![l] = "rollback"] /\ UNCHANGED seen
             \/ /\ pc' = [pc EXCEPT ![l] = "weigh"]
                /\ seen' = [seen EXCEPT ![l] = Snapshot(m)]
      BY <1>9, <2>2 DEF LookForRegression
    <3>3. pc[l] = "judge" /\ seen[l] = NoAttempt
      BY <1>h, <1>9 DEF LookForRegression, Holds
    <3>4. /\ DOMAIN job' = Loops /\ DOMAIN seen' = Loops /\ job'[l] = pending
          /\ \A k \in Loops \ {l} : job'[k] = job[k] /\ seen'[k] = seen[k]
      BY <1>h, <3>2
    <3>5. CASE pc' = [pc EXCEPT ![l] = "rollback"] /\ UNCHANGED seen
      <4>1. LoopTypes'
        BY <1>0, <1>s, <3>1, <3>2, <3>3, <3>4, <3>5, OneMoves
      <4>. QED  BY <1>9, <1>g, <4>1 DEF LookForRegression, engineVars
    <3>6. CASE pc' = [pc EXCEPT ![l] = "weigh"] /\ seen' = [seen EXCEPT ![l] = Snapshot(m)]
      <4>1. seen'[l] \in Snapshots
        BY <1>h, <2>0, <3>6
      <4>2. LoopTypes'
        BY <1>0, <1>s, <3>1, <3>2, <3>4, <3>6, <4>1, OneMoves
      <4>. QED  BY <1>9, <1>g, <4>2 DEF LookForRegression, engineVars
    <3>. QED  BY <3>2, <3>5, <3>6
  <2>. QED  BY <2>1, <2>2
<1>10. CASE Promote(l)
  <2>1. LoopTypes'
    BY <1>0, <1>10, <1>s, EmptyMoves DEF Promote, Settle
  <2>2. ControllerTypes'
    BY <1>0, <1>n, <1>10, ControllerSettles DEF Promote
  <2>. QED  BY <1>0, <1>e, <1>10, <2>1, <2>2, PartsStay DEF Promote, TypeInv, engineVars
<1>11. CASE FindNeutral(l)
  <2>1. IsAttempt(job[l])
    BY <1>h, <1>11, <1>s DEF Holds, FindNeutral, Goes
  <2>2. /\ DOMAIN job' = Loops /\ DOMAIN seen' = Loops /\ job'[l] = job[l]
        /\ \A k \in Loops \ {l} : job'[k] = job[k] /\ seen'[k] = seen[k]
        /\ seen'[l] = NoAttempt /\ age' = age
    BY <1>h, <1>11 DEF FindNeutral
  <2>3. LoopTypes'
    BY <1>0, <1>11, <1>s, <2>1, <2>2, OneMoves DEF FindNeutral, Goes
  <2>. QED  BY <1>11, <1>g, <2>3 DEF FindNeutral, engineVars
<1>12. ASSUME NEW crowded \in BOOLEAN, RollBack(l, crowded) PROVE TypeInv'
  <2>1. LoopTypes'
    BY <1>0, <1>12, <1>s, EmptyMoves DEF RollBack, Settle
  <2>2. CASE Refused(Reverted(job[l]), crowded)
    BY <1>12, <1>f, <1>n, <1>0, <2>1, <2>2, PartsStay DEF RollBack
  <2>3. CASE ~Refused(Reverted(job[l]), crowded)
    <3>1. Settle(l) /\ rolledBack' \in Nat
      BY <1>12, <1>n, <2>3 DEF RollBack
    <3>2. ControllerTypes'
      BY <1>0, <1>n, <1>12, <3>1, ControllerSettles DEF RollBack
    <3>. QED  BY <1>0, <1>e, <1>12, <2>1, <3>2, PartsStay DEF RollBack, TypeInv
  <2>. QED  BY <2>2, <2>3
<1>. QED  BY <1>1, <1>2, <1>3, <1>4, <1>5, <1>6, <1>7, <1>8, <1>9, <1>10, <1>11, <1>12 DEF Loop

LEMMA AdminKeepsTypes ==
  ASSUME TypeInv, NEW a \in Admins, Admin(a), settings' \in Settings
  PROVE  TypeInv'
<1>0. /\ EngineTypes /\ ControllerTypes /\ SamplesTypes /\ LoopTypes /\ AdminTypes
      /\ attempted \in Nat /\ promoted \in Nat /\ rolledBack \in Nat
      /\ stop \in BOOLEAN
  BY DEF TypeInv, ControllerTypes
<1>1. EngineTypes /\ UNCHANGED engineVars /\ UNCHANGED accepted /\ overlapped' \in BOOLEAN
        => EngineTypes'
  BY PartsStay DEF engineVars, EngineTypes
<1>2. ASSUME UNCHANGED <<engineVars, goal, pending, lastAge, samples, trackerVars,
                         loopVars, accepted, overlapped>>,
             stop' \in BOOLEAN, AdminTypes'
      PROVE  TypeInv'
  <2>1. ControllerTypes'
    BY <1>0, <1>2, ControllerStays DEF trackerVars
  <2>2. EngineTypes'
    BY <1>0, <1>1, <1>2 DEF EngineTypes
  <2>. QED  BY <1>0, <1>2, <2>1, <2>2, PartsStay DEF TypeInv
<1>3. ASSUME NEW g \in Goals, SetGoal(a, g) PROVE TypeInv'
  <2>1. ControllerTypes'
    BY <1>0, <1>3 DEF SetGoal, ControllerTypes, trackerVars, IsAttempt, IsPlan
  <2>2. EngineTypes'
    BY <1>0, <1>1, <1>3 DEF EngineTypes, SetGoal
  <2>. QED  BY <1>0, <1>3, <2>1, <2>2, PartsStay DEF SetGoal, TypeInv
<1>4. CASE StartFinds(a)
  <2>1. AdminTypes'
    BY <1>0, <1>4 DEF StartFinds, AdminTypes
  <2>. QED  BY <1>0, <1>2, <1>4, <2>1 DEF StartFinds
<1>5. ASSUME NEW l \in Loops, StartCreates(a, l) PROVE TypeInv'
  <2>1. AdminTypes'
    BY <1>0, <1>5 DEF StartCreates, AdminTypes
  <2>2. ControllerTypes'
    BY <1>0, <1>5, ControllerStays DEF StartCreates, trackerVars
  <2>3. EngineTypes'
    BY <1>0, <1>1, <1>5 DEF EngineTypes, StartCreates
  <2>4. LoopTypes'
    <3>1. DOMAIN job = Loops /\ DOMAIN seen = Loops /\ Holds(l) /\ pc[l] = "off"
      BY <1>0, <1>5 DEF LoopTypes, StartCreates
    <3>2. job[l] = NoAttempt /\ seen[l] = NoAttempt
      BY <3>1 DEF Holds, Busy
    <3>3. "check" \in Stages /\ "check" \notin Busy
      BY DEF Stages, Busy
    <3>. QED  BY <1>0, <1>5, <3>1, <3>2, <3>3, OneMoves DEF StartCreates
  <2>. QED  BY <1>0, <1>5, <2>1, <2>2, <2>3, <2>4, PartsStay DEF StartCreates, TypeInv
<1>6. CASE StopSets(a)
  <2>1. AdminTypes'
    BY <1>0, <1>6 DEF StopSets, AdminTypes
  <2>. QED  BY <1>0, <1>2, <1>6, <2>1 DEF StopSets
<1>7. CASE StopReads(a)
  <2>1. AdminTypes'
    BY <1>0, <1>7 DEF StopReads, AdminTypes
  <2>. QED  BY <1>0, <1>2, <1>7, <2>1 DEF StopReads
<1>8. CASE StopJoins(a)
  <2>1. AdminTypes'
    BY <1>0, <1>8 DEF StopJoins, AdminTypes
  <2>. QED  BY <1>0, <1>2, <1>8, <2>1 DEF StopJoins
<1>. QED  BY <1>3, <1>4, <1>5, <1>6, <1>7, <1>8 DEF Admin

LEMMA NextTypes == TypeInv /\ Inv /\ Inv' /\ [Next]_vars => TypeInv'
<1>. SUFFICES ASSUME TypeInv, Inv, Inv', [Next]_vars PROVE TypeInv'
  OBVIOUS
<1>0. /\ EngineTypes /\ ControllerTypes /\ SamplesTypes /\ LoopTypes /\ AdminTypes
      /\ settings \in Settings /\ settings' \in Settings
      /\ cacheInitialized \in BOOLEAN /\ completed \in BOOLEAN /\ overlapped \in BOOLEAN
      /\ attempted \in Nat /\ promoted \in Nat /\ rolledBack \in Nat
      /\ stop \in BOOLEAN
  BY DEF TypeInv, ControllerTypes, EngineTypes, Inv, SettingsFine
<1>1. CASE FirstStep \/ RequestsComplete \/ UNCHANGED vars
  <2>1. /\ cacheInitialized' \in BOOLEAN /\ completed' \in BOOLEAN
        /\ UNCHANGED <<settings, goal, pending, lastAge, stop, samples, trackerVars,
                       loopVars, adminVars, accepted, overlapped>>
    BY <1>0, <1>1 DEF FirstStep, RequestsComplete, vars, engineVars
  <2>2. ControllerTypes'
    BY <1>0, <2>1, ControllerStays DEF trackerVars
  <2>. QED  BY <1>0, <2>1, <2>2, PartsStay DEF TypeInv
<1>2. CASE TimePasses
  <2>. HIDE DEF AgeCap
  <2>1. SamplesTypes'
    BY <1>0, <1>2, AgedOnes DEF SamplesTypes
  <2>2. IsAttempt(pending) => IsAttempt([pending EXCEPT !.age = Older(@, AgeCap)])
    BY CapTypes DEF IsAttempt
  <2>3. pending' = NoAttempt \/ IsAttempt(pending')
    BY <1>0, <1>2, <2>2 DEF TimePasses, ControllerTypes
  <2>4. ControllerTypes'
    <3>1. lastAge' \in 0 .. AgeCap
      BY <1>0, <1>2, CapTypes DEF ControllerTypes, TimePasses
    <3>. QED  BY <1>0, <1>2, <2>3, <3>1
              DEF ControllerTypes, TimePasses, trackerVars, IsAttempt, IsPlan
  <2>5. LoopTypes'
    <3>1. age' \in [Loops -> 0 .. AgeCap]
      BY <1>0, <1>2, CapTypes DEF LoopTypes, TimePasses
    <3>2. \A l \in Loops : Holds(l)'
      BY <1>0, <1>2 DEF LoopTypes, TimePasses, Holds, IsAttempt, IsPlan
    <3>. QED  BY <1>0, <1>2, <3>1, <3>2 DEF LoopTypes, TimePasses
  <2>. QED  BY <1>0, <1>2, <2>1, <2>4, <2>5, PartsStay DEF TimePasses, TypeInv, engineVars
<1>3. CASE \E l \in Loops : Loop(l)
  BY <1>3, LoopKeepsTypes
<1>4. CASE \E a \in Admins : Admin(a)
  BY <1>0, <1>4, AdminKeepsTypes
<1>. QED  BY <1>1, <1>2, <1>3, <1>4 DEF Next

LEMMA TypesHold == Spec => []TypeInv
<1>1. Spec => [](Inv /\ TypeInv)
  BY InitInv, NextInv, InitTypes, NextTypes, PTL DEF Spec
<1>. QED  BY <1>1, PTL

(* TuningController.py: whatever the loops and the handlers do, an attempt is a
   plan with what it is judged by, an age is within its cap, a sample within
   the window, and each loop and handler holds what its place in the code says. *)
THEOREM TypeCorrect == Spec => []TypeOK
  BY TypesHold, TypeInvTypes, PTL
-----------------------------------------------------------------------------
(* One loop at a time.  Until two have been alive at once, there is one
   attempt at most, open from plan to note in the loop's hands and then
   pending; the engine has the settings accepted last, or those with the
   attempt's changes once they are applied; and the tracker counts it. *)

AtMostOne == \A k, l \in Loops : pc[k] # "off" /\ pc[l] # "off" => k = l

(* What the loop knows of the attempt where it is *)
Sound(l) ==
  /\ pc[l] \in {"plan", "apply", "note"} => pending = NoAttempt
  /\ pc[l] \in {"judge", "weigh", "rollback"} => pending # NoAttempt
  /\ pc[l] \in {"weigh", "rollback"} => /\ job[l].changes = pending.changes
                                        /\ job[l].previous = pending.previous
  /\ Open(l) => job[l] \in Attempts /\ job[l].previous = accepted
  /\ pc[l] = "note" => settings = Merge(accepted, job[l].changes)

Ground ==
  /\ pending # NoAttempt => /\ pending \in Attempts
                            /\ pending.previous = accepted
                            /\ settings = Merge(accepted, pending.changes)
  /\ pending = NoAttempt /\ (\A l \in Loops : pc[l] # "note") => settings = accepted
Tally ==
  attempted = promoted + rolledBack
               + (IF pending # NoAttempt \/ \E l \in Loops : Open(l) THEN 1 ELSE 0)

Alone == AtMostOne /\ (\A l \in Loops : Sound(l)) /\ Ground /\ Tally
Trial == ~overlapped /\ MinCompleted > 0 => Alone

LEMMA InitTrial == Init => Trial
<1>. SUFFICES ASSUME Init PROVE Alone
  BY DEF Trial
<1>1. \A l \in Loops : pc[l] = "off"
  BY DEF Init
<1>2. pending = NoAttempt /\ settings = accepted
      /\ attempted = 0 /\ promoted = 0 /\ rolledBack = 0
  BY DEF Init
<1>. QED  BY <1>1, <1>2 DEF Alone, AtMostOne, Sound, Ground, Tally, Open

(* What is known when a loop that is alive takes a step *)
LEMMA AloneHere ==
  ASSUME Alone, NEW l \in Loops, pc[l] # "off"
  PROVE  /\ \A k \in Loops \ {l} : pc[k] = "off"
         /\ Sound(l)
         /\ pending # NoAttempt => /\ pending \in Attempts
                                   /\ pending.previous = accepted
                                   /\ settings = Merge(accepted, pending.changes)
         /\ pending = NoAttempt /\ pc[l] # "note" => settings = accepted
         /\ attempted = promoted + rolledBack
                         + (IF pending # NoAttempt \/ Open(l) THEN 1 ELSE 0)
<1>1. \A k \in Loops \ {l} : pc[k] = "off"
  BY DEF Alone, AtMostOne
<1>2. (\E k \in Loops : Open(k)) <=> Open(l)
  BY <1>1 DEF Open
<1>3. pc[l] # "note" => \A k \in Loops : pc[k] # "note"
  BY <1>1
<1>4. Ground /\ Tally /\ Sound(l)
  BY DEF Alone
<1>5. attempted = promoted + rolledBack
                   + (IF pending # NoAttempt \/ Open(l) THEN 1 ELSE 0)
  BY <1>2, <1>4 DEF Tally
<1>. QED  BY <1>1, <1>3, <1>4, <1>5 DEF Ground

(* What is to be shown of its step *)
LEMMA AloneThere ==
  ASSUME DOMAIN pc = Loops, NEW l \in Loops, \A k \in Loops \ {l} : pc[k] = "off",
         NEW to, pc' = [pc EXCEPT ![l] = to],
         Sound(l)',
         pending' # NoAttempt => /\ pending' \in Attempts
                                 /\ pending'.previous = accepted'
                                 /\ settings' = Merge(accepted', pending'.changes),
         pending' = NoAttempt /\ to # "note" => settings' = accepted',
         attempted' = promoted' + rolledBack'
                       + (IF pending' # NoAttempt \/ to \in {"apply", "note"} THEN 1 ELSE 0)
  PROVE  Alone'
<1>1. pc'[l] = to /\ \A k \in Loops \ {l} : pc'[k] = "off"
  OBVIOUS
<1>2. AtMostOne'
  BY <1>1 DEF AtMostOne
<1>3. ASSUME NEW k \in Loops PROVE Sound(k)'
  <2>1. CASE k = l
    BY <2>1
  <2>2. CASE k # l
    BY <1>1, <2>2 DEF Sound, Open
  <2>. QED  BY <2>1, <2>2
<1>4. Ground'
  BY <1>1 DEF Ground, Merge
<1>5. (\E k \in Loops : Open(k)') <=> to \in {"apply", "note"}
  BY <1>1 DEF Open
<1>6. Tally'
  BY <1>5 DEF Tally
<1>. QED  BY <1>2, <1>3, <1>4, <1>6 DEF Alone

(* reconfigure takes a change the policy makes once there is a cache, and
   taking it back restores what was there. *)
LEMMA Taken ==
  ASSUME NEW ch, PlanFine(ch), MinCompleted > 0, NEW crowded
  PROVE  ~Refused(ch, crowded) /\ Reconfigured(ch, crowded) = Merge(settings, ch)
<1>1. "prefix" \notin DOMAIN ch /\ "concurrent" \notin DOMAIN ch
  BY DEF PlanFine
<1>. QED  BY <1>1 DEF Refused, Reconfigured, PrefixRefused, ConcurrencyRefused

LEMMA Undone ==
  ASSUME NEW s \in Settings, NEW j, j.previous = s, DOMAIN j.changes \subseteq Keys
  PROVE  Merge(Merge(s, j.changes), Reverted(j)) = s
<1>. DEFINE tried == Merge(s, j.changes)
            back == Merge(tried, Reverted(j))
<1>1. DOMAIN Reverted(j) = DOMAIN j.changes
      /\ \A k \in DOMAIN j.changes : Reverted(j)[k] = s[k]
  BY DEF Reverted
<1>2. \A k \in Keys : back[k] = s[k]
  BY <1>1 DEF Merge
<1>3. s = [k \in Keys |-> s[k]]
  BY DEF Settings, Keys
<1>4. back = [k \in Keys |-> back[k]]
  BY DEF Merge
<1>. HIDE DEF back
<1>5. [k \in Keys |-> back[k]] = [k \in Keys |-> s[k]]
  BY <1>2
<1>6. back = s
  BY <1>3, <1>4, <1>5
<1>. QED  BY <1>6 DEF back

LEMMA LoopAlone ==
  ASSUME TypeInv, Inv, Alone, MinCompleted > 0, NEW l \in Loops, Loop(l)
  PROVE  Alone'
<1>. DEFINE one(open) == IF open THEN 1 ELSE 0
            here == pending # NoAttempt \/ Open(l)
<1>0. /\ DOMAIN pc = Loops /\ DOMAIN job = Loops
      /\ attempted \in Nat /\ promoted \in Nat /\ rolledBack \in Nat
      /\ settings \in Settings /\ SettingsFine(settings) /\ accepted \in Settings
      /\ pending = NoAttempt \/ AttemptFine(pending)
      /\ InHand(l) => AttemptFine(job[l])
      /\ age[l] \in 0 .. AgeCap
  BY DEF TypeInv, Inv, LoopTypes, ControllerTypes, EngineTypes
<1>a. pc[l] # "off"
  BY DEF Loop, LoopEnds, TickBegins, LoopWakes, NothingToJudgeBy, SnapshotRaises,
         PlanAttempt, ApplyPlan, NoteAttempt, LookForRegression, Promote, FindNeutral,
         RollBack, Goes
<1>b. /\ \A k \in Loops \ {l} : pc[k] = "off"
      /\ Sound(l)
      /\ pending # NoAttempt => /\ pending \in Attempts
                                /\ pending.previous = accepted
                                /\ settings = Merge(accepted, pending.changes)
      /\ pending = NoAttempt /\ pc[l] # "note" => settings = accepted
      /\ attempted = promoted + rolledBack + one(here)
  BY <1>a, AloneHere
<1>n. NoAttempt \notin Attempts
  BY ControllerAssumption
(* A step that changes nothing of it, but for where the loop is *)
<1>c. ASSUME UNCHANGED <<pending, settings, accepted, trackerVars>>,
             NEW to \in {"off", "check", "plan", "judge", "wait"}, pc' = [pc EXCEPT ![l] = to],
             ~Open(l), to = "plan" => pending = NoAttempt, to = "judge" => pending # NoAttempt
      PROVE  Alone'
  <2>1. pc'[l] = to
    BY <1>0, <1>c
  <2>2. Sound(l)'
    BY <1>c, <2>1 DEF Sound, Open
  <2>3. pc[l] # "note" /\ (pending' # NoAttempt \/ to \in {"apply", "note"} <=> here)
    BY <1>c DEF Open
  <2>4. attempted' = promoted' + rolledBack'
                      + (IF pending' # NoAttempt \/ to \in {"apply", "note"} THEN 1 ELSE 0)
    BY <1>b, <1>c, <2>3 DEF trackerVars
  <2>5. /\ pending' # NoAttempt => /\ pending' \in Attempts
                                   /\ pending'.previous = accepted'
                                   /\ settings' = Merge(accepted', pending'.changes)
        /\ pending' = NoAttempt /\ to # "note" => settings' = accepted'
    BY <1>b, <1>c, <2>3
  <2>. HIDE DEF here
  <2>. QED  BY <1>0, <1>b, <1>c, <2>2, <2>4, <2>5, AloneThere
<1>d. \/ UNCHANGED <<pending, settings, accepted, trackerVars>> /\ ~Open(l)
         /\ \E to \in {"off", "check", "plan", "judge", "wait"} :
              /\ pc' = [pc EXCEPT ![l] = to]
              /\ to = "plan" => pending = NoAttempt
              /\ to = "judge" => pending # NoAttempt
      \/ \E m \in Readings : PlanAttempt(l, m) /\ pc' = [pc EXCEPT ![l] = "apply"]
      \/ \E crowded \in BOOLEAN : ApplyPlan(l, crowded)
      \/ NoteAttempt(l)
      \/ \E m \in Readings : LookForRegression(l, m) /\ pending # NoAttempt
      \/ Promote(l) \/ FindNeutral(l)
      \/ \E crowded \in BOOLEAN : RollBack(l, crowded)
  <2>1. CASE LoopEnds(l)
    BY <2>1 DEF LoopEnds, Goes, engineVars, Open
  <2>2. CASE TickBegins(l)
    <3>1. TickDue \in {"judge", "wait", "plan"} /\ (TickDue = "plan" => pending = NoAttempt)
          /\ (TickDue = "judge" => pending # NoAttempt)
      BY DEF TickDue
    <3>. QED  BY <2>2, <3>1 DEF TickBegins, Goes, engineVars, Open
  <2>3. CASE LoopWakes(l)
    BY <2>3 DEF LoopWakes, Goes, engineVars, Open
  <2>4. CASE NothingToJudgeBy(l)
    BY <2>4 DEF NothingToJudgeBy, Goes, engineVars, Open
  <2>5. CASE SnapshotRaises(l)
    BY <2>5 DEF SnapshotRaises, Goes, engineVars, Open
  <2>6. ASSUME NEW m \in Readings, PlanAttempt(l, m), ~(pc' = [pc EXCEPT ![l] = "apply"])
        PROVE  /\ UNCHANGED <<pending, settings, accepted, trackerVars>> /\ ~Open(l)
               /\ pc' = [pc EXCEPT ![l] = "wait"]
    BY <2>6 DEF PlanAttempt, engineVars, trackerVars, Open
  <2>7. ASSUME NEW m \in Readings, LookForRegression(l, m), pending = NoAttempt
        PROVE  /\ UNCHANGED <<pending, settings, accepted, trackerVars>> /\ ~Open(l)
               /\ pc' = [pc EXCEPT ![l] = "wait"]
    BY <2>7 DEF LookForRegression, engineVars, Open
  <2>. QED  BY <2>1, <2>2, <2>3, <2>4, <2>5, <2>6, <2>7 DEF Loop
<1>1. ASSUME NEW m \in Readings, PlanAttempt(l, m), pc' = [pc EXCEPT ![l] = "apply"]
      PROVE  Alone'
  <2>. DEFINE changes == Propose(settings, Labels(m, Observed(m)), goal, Paged, cacheInitialized)
              j == [changes |-> changes, previous |-> settings,
                    baseline |-> Snapshot(m), age |-> 0]
  <2>1. pc[l] = "plan" /\ pc'[l] = "apply"
    BY <1>0, <1>1 DEF PlanAttempt
  <2>2. /\ attempted' = attempted + 1 /\ job' = [job EXCEPT ![l] = j]
        /\ UNCHANGED <<pending, settings, accepted, promoted, rolledBack>>
    <3>1. ~(pc' = [pc EXCEPT ![l] = "wait"])
      BY <1>0, <2>1
    <3>. QED  BY <1>1, <3>1 DEF PlanAttempt, engineVars
  <2>3. changes \in Plans
    BY <1>0, ProposeIsPlan
  <2>4. j \in Attempts
    BY <1>0, <2>3, ControllerAssumption DEF Attempts, Snapshot, Snapshots
  <2>5. job'[l] = j /\ pending = NoAttempt /\ settings = accepted /\ ~Open(l)
    BY <1>0, <1>b, <2>1, <2>2 DEF Sound, Open
  <2>6. j.previous = accepted
    BY <2>5
  <2>. HIDE DEF j
  <2>7. Sound(l)'
    BY <2>1, <2>2, <2>4, <2>5, <2>6 DEF Sound, Open
  <2>8. attempted' = promoted' + rolledBack' + 1
    BY <1>0, <1>b, <2>2, <2>5
  <2>. QED  BY <1>0, <1>1, <1>b, <2>2, <2>5, <2>7, <2>8, AloneThere
<1>2. ASSUME NEW crowded \in BOOLEAN, ApplyPlan(l, crowded) PROVE Alone'
  <2>1. pc[l] = "apply" /\ pending = NoAttempt /\ settings = accepted /\ Open(l)
        /\ AttemptFine(job[l]) /\ job[l] \in Attempts /\ job[l].previous = accepted
    BY <1>0, <1>2, <1>b DEF Sound, Open, ApplyPlan, InHand
  <2>2. ~Refused(job[l].changes, crowded)
        /\ Reconfigured(job[l].changes, crowded) = Merge(settings, job[l].changes)
    BY <2>1, Taken DEF AttemptFine
  <2>3. /\ settings' = Merge(accepted, job[l].changes) /\ pc' = [pc EXCEPT ![l] = "note"]
        /\ UNCHANGED <<pending, accepted, job, attempted, promoted, rolledBack>>
    BY <1>2, <2>1, <2>2 DEF ApplyPlan, trackerVars
  <2>4. Sound(l)'
    BY <1>0, <2>1, <2>3 DEF Sound, Open, Merge
  <2>5. attempted' = promoted' + rolledBack' + 1
    BY <1>0, <1>b, <2>1, <2>3
  <2>. QED  BY <1>0, <1>b, <2>1, <2>3, <2>4, <2>5, AloneThere
<1>3. CASE NoteAttempt(l)
  <2>1. pc[l] = "note" /\ pending = NoAttempt /\ Open(l)
        /\ job[l] \in Attempts /\ job[l].previous = accepted
        /\ settings = Merge(accepted, job[l].changes)
    BY <1>3, <1>b DEF Sound, Open, NoteAttempt, Goes
  <2>2. age[l] \in Nat
    <3>1. AgeCap \in Nat
      BY CapTypes
    <3>. HIDE DEF AgeCap
    <3>. QED  BY <1>0, <3>1
  <2>3. /\ [job[l] EXCEPT !.age = age[l]] \in Attempts
        /\ [job[l] EXCEPT !.age = age[l]].previous = accepted
        /\ [job[l] EXCEPT !.age = age[l]].changes = job[l].changes
    BY <2>1, <2>2 DEF Attempts
  <2>4. /\ pending' = [job[l] EXCEPT !.age = age[l]] /\ pc' = [pc EXCEPT ![l] = "wait"]
        /\ UNCHANGED <<settings, accepted, attempted, promoted, rolledBack>>
    BY <1>3 DEF NoteAttempt, Goes, engineVars, trackerVars
  <2>5. pending' \in Attempts /\ pending'.previous = accepted' /\ pending' # NoAttempt
        /\ settings' = Merge(accepted', pending'.changes)
    BY <1>n, <2>1, <2>3, <2>4
  <2>6. Sound(l)'
    BY <1>0, <2>4 DEF Sound, Open
  <2>7. attempted' = promoted' + rolledBack' + 1
    BY <1>0, <1>b, <2>1, <2>4
  <2>. QED  BY <1>0, <1>b, <2>4, <2>5, <2>6, <2>7, AloneThere
<1>4. ASSUME NEW m \in Readings, LookForRegression(l, m), pending # NoAttempt
      PROVE  Alone'
  <2>1. PICK to \in {"rollback", "weigh"} : pc' = [pc EXCEPT ![l] = to]
    BY <1>4 DEF LookForRegression
  <2>2. /\ job' = [job EXCEPT ![l] = pending] /\ pc[l] = "judge"
        /\ UNCHANGED <<pending, settings, accepted, attempted, promoted, rolledBack>>
    BY <1>4 DEF LookForRegression, engineVars, trackerVars
  <2>3. pc'[l] = to /\ job'[l] = pending /\ ~Open(l)
    BY <1>0, <2>1, <2>2 DEF Open
  <2>4. Sound(l)'
    BY <1>4, <2>2, <2>3 DEF Sound, Open
  <2>5. attempted' = promoted' + rolledBack' + 1
    BY <1>0, <1>b, <1>4, <2>2
  <2>. QED  BY <1>0, <1>b, <1>4, <2>1, <2>2, <2>4, <2>5, AloneThere
<1>5. CASE Promote(l)
  <2>1. /\ pc[l] = "weigh" /\ pc' = [pc EXCEPT ![l] = "wait"] /\ pending' = NoAttempt
        /\ promoted' = promoted + 1 /\ accepted' = settings
        /\ UNCHANGED <<settings, attempted, rolledBack>>
    BY <1>5 DEF Promote, Settle, engineVars
  <2>2. pending # NoAttempt
    BY <1>b, <2>1 DEF Sound
  <2>3. Sound(l)'
    BY <1>0, <2>1 DEF Sound, Open
  <2>4. attempted' = promoted' + rolledBack'
    BY <1>0, <1>b, <2>1, <2>2
  <2>5. attempted' = promoted' + rolledBack' + 0
    BY <1>0, <2>1, <2>4
  <2>. QED  BY <1>0, <1>b, <2>1, <2>3, <2>5, AloneThere
<1>6. CASE FindNeutral(l)
  <2>1. /\ pc[l] = "weigh" /\ pc' = [pc EXCEPT ![l] = "rollback"]
        /\ UNCHANGED <<settings, accepted, pending, job, attempted, promoted, rolledBack>>
    BY <1>6 DEF FindNeutral, Goes, engineVars, trackerVars
  <2>2. pending # NoAttempt
    BY <1>b, <2>1 DEF Sound
  <2>3. Sound(l)'
    BY <1>0, <1>b, <2>1 DEF Sound, Open
  <2>4. attempted' = promoted' + rolledBack' + 1
    BY <1>0, <1>b, <2>1, <2>2
  <2>. QED  BY <1>0, <1>b, <2>1, <2>2, <2>3, <2>4, AloneThere
<1>7. ASSUME NEW crowded \in BOOLEAN, RollBack(l, crowded) PROVE Alone'
  <2>1. /\ pc[l] = "rollback" /\ AttemptFine(job[l]) /\ pending # NoAttempt
        /\ job[l].changes = pending.changes /\ job[l].previous = pending.previous
    BY <1>0, <1>b, <1>7 DEF RollBack, Sound, InHand
  <2>2. PlanFine(Reverted(job[l]))
    BY <2>1, RevertedFine
  <2>3. ~Refused(Reverted(job[l]), crowded)
        /\ Reconfigured(Reverted(job[l]), crowded) = Merge(settings, Reverted(job[l]))
    BY <2>2, Taken
  <2>4. settings = Merge(accepted, job[l].changes) /\ job[l].previous = accepted
    BY <1>b, <2>1
  <2>5. DOMAIN job[l].changes \subseteq Keys
    BY <2>1 DEF AttemptFine, PlanFine, IsPlan
  <2>6. Merge(settings, Reverted(job[l])) = accepted
    BY <1>0, <2>4, <2>5, Undone
  <2>7. /\ settings' = accepted /\ pc' = [pc EXCEPT ![l] = "wait"] /\ pending' = NoAttempt
        /\ rolledBack' = rolledBack + 1
        /\ UNCHANGED <<accepted, attempted, promoted>>
    BY <1>7, <2>3, <2>6 DEF RollBack, Settle
  <2>8. Sound(l)'
    BY <1>0, <2>7 DEF Sound, Open
  <2>9. attempted' = promoted' + rolledBack' + 0
    BY <1>0, <1>b, <2>1, <2>7
  <2>. QED  BY <1>0, <1>b, <2>7, <2>8, <2>9, AloneThere
<1>. QED  BY <1>c, <1>d, <1>1, <1>2, <1>3, <1>4, <1>5, <1>6, <1>7

LEMMA NextTrial == TypeInv /\ Inv /\ Trial /\ [Next]_vars => Trial'
<1>. SUFFICES ASSUME TypeInv, Inv, Trial, [Next]_vars, ~overlapped', MinCompleted > 0
              PROVE  Alone'
  BY DEF Trial
<1>0. /\ DOMAIN pc = Loops /\ overlapped \in BOOLEAN
      /\ pending = NoAttempt \/ AttemptFine(pending)
  BY DEF TypeInv, Inv, EngineTypes
<1>1. ~overlapped
  <2>1. CASE \E a \in Admins : \E l \in Loops : StartCreates(a, l)
    BY <2>1 DEF StartCreates
  <2>2. CASE ~\E a \in Admins : \E l \in Loops : StartCreates(a, l)
    <3>1. UNCHANGED overlapped
      <4>1. CASE \E l \in Loops : Loop(l)
        BY <4>1 DEF Loop, LoopEnds, TickBegins, LoopWakes, NothingToJudgeBy,
           SnapshotRaises, PlanAttempt, ApplyPlan, NoteAttempt, LookForRegression,
           Promote, FindNeutral, RollBack
      <4>2. CASE \E a \in Admins : Admin(a)
        BY <2>2, <4>2 DEF Admin, SetGoal, StartFinds, StopSets, StopReads, StopJoins
      <4>3. CASE FirstStep \/ RequestsComplete \/ TimePasses \/ UNCHANGED vars
        BY <4>3 DEF FirstStep, RequestsComplete, TimePasses, vars
      <4>. QED  BY <4>1, <4>2, <4>3 DEF Next
    <3>. QED  BY <3>1
  <2>. QED  BY <2>1, <2>2
<1>2. Alone /\ AtMostOne /\ Ground /\ Tally /\ \A l \in Loops : Sound(l)
  BY <1>1 DEF Trial, Alone
(* A step that moves no loop and changes nothing of an attempt *)
<1>3. ASSUME UNCHANGED <<settings, accepted, pending, trackerVars, pc, job>> PROVE Alone'
  <2>1. AtMostOne'
    BY <1>2, <1>3 DEF AtMostOne
  <2>2. \A l \in Loops : Sound(l)'
    BY <1>2, <1>3 DEF Sound, Open, Merge
  <2>3. Ground'
    BY <1>2, <1>3 DEF Ground, Merge
  <2>4. Tally'
    BY <1>2, <1>3 DEF Tally, Open, trackerVars
  <2>. QED  BY <2>1, <2>2, <2>3, <2>4 DEF Alone
<1>4. CASE FirstStep \/ RequestsComplete \/ UNCHANGED vars
  BY <1>3, <1>4 DEF FirstStep, RequestsComplete, loopVars, vars, engineVars
<1>5. CASE TimePasses
  <2>. HIDE DEF AgeCap
  <2>1. pending = NoAttempt => pending' = NoAttempt
    BY <1>5 DEF TimePasses
  <2>2. ASSUME pending # NoAttempt
        PROVE  /\ pending' \in Attempts /\ pending' # NoAttempt
               /\ pending'.changes = pending.changes /\ pending'.previous = pending.previous
    <3>1. pending \in Attempts /\ pending.age \in Nat
      BY <1>2, <2>2 DEF Ground, Attempts
    <3>2. pending' = [pending EXCEPT !.age = Older(pending.age, AgeCap)]
      BY <1>5, <2>2 DEF TimePasses
    <3>3. Older(pending.age, AgeCap) \in Nat
      BY <3>1 DEF Older
    <3>4. /\ pending' \in Attempts
          /\ pending'.changes = pending.changes /\ pending'.previous = pending.previous
      BY <3>1, <3>2, <3>3 DEF Attempts
    <3>. QED  BY <3>4, ControllerAssumption
  <2>3. UNCHANGED <<settings, accepted, trackerVars, pc, job>>
    BY <1>5 DEF TimePasses, engineVars
  <2>4. AtMostOne'
    BY <1>2, <2>3 DEF AtMostOne
  <2>5. \A l \in Loops : Sound(l)'
    BY <1>2, <2>1, <2>2, <2>3 DEF Sound, Open, Merge
  <2>6. Ground'
    BY <1>2, <2>1, <2>2, <2>3 DEF Ground, Merge
  <2>7. Tally'
    <3>1. pending # NoAttempt <=> pending' # NoAttempt
      BY <2>1, <2>2
    <3>. QED  BY <1>2, <2>3, <3>1 DEF Tally, Open, trackerVars
  <2>. QED  BY <2>4, <2>5, <2>6, <2>7 DEF Alone
<1>6. CASE \E l \in Loops : Loop(l)
  BY <1>2, <1>6, LoopAlone
<1>7. CASE \E a \in Admins : Admin(a)
  <2>1. PICK a \in Admins : Admin(a)
    BY <1>7
  <2>2. ASSUME NEW l \in Loops, StartCreates(a, l) PROVE Alone'
    <3>1. /\ pc' = [pc EXCEPT ![l] = "check"] /\ \A k \in Loops : pc[k] = "off"
          /\ UNCHANGED <<settings, accepted, pending, attempted, promoted, rolledBack, job>>
      BY <1>1, <2>2 DEF StartCreates, engineVars, trackerVars
    <3>2. pc'[l] = "check" /\ \A k \in Loops \ {l} : pc'[k] = "off"
      BY <1>0, <3>1
    <3>3. AtMostOne'
      BY <3>2 DEF AtMostOne
    <3>4. \A k \in Loops : Sound(k)'
      BY <3>2 DEF Sound, Open
    <3>5. Ground'
      BY <1>2, <3>1, <3>2 DEF Ground, Merge
    <3>6. ~(\E k \in Loops : Open(k)) /\ ~(\E k \in Loops : Open(k)')
      BY <3>1, <3>2 DEF Open
    <3>7. Tally'
      BY <1>2, <3>1, <3>6 DEF Tally
    <3>. QED  BY <3>3, <3>4, <3>5, <3>7 DEF Alone
  <2>3. CASE ~\E l \in Loops : StartCreates(a, l)
    BY <1>3, <2>1, <2>3 DEF Admin, SetGoal, StartFinds, StopSets, StopReads, StopJoins,
       engineVars, loopVars
  <2>. QED  BY <2>2, <2>3
<1>. QED  BY <1>4, <1>5, <1>6, <1>7 DEF Next

LEMMA TrialHolds == Spec => [](TypeInv /\ Inv /\ Trial)
<1>1. Spec => [](Inv /\ TypeInv)
  BY InitInv, NextInv, InitTypes, NextTypes, PTL DEF Spec
<1>. QED  BY <1>1, InitTrial, NextTrial, PTL DEF Spec

(* How many attempts are open while there is one loop at most *)
LEMMA OneOpen ==
  ASSUME Alone
  PROVE  OpenAttempts = IF pending # NoAttempt \/ \E l \in Loops : Open(l) THEN 1 ELSE 0
<1>. DEFINE inHand == {l \in Loops : Open(l)}
<1>1. CASE \E l \in Loops : Open(l)
  <2>1. PICK l \in Loops : Open(l)
    BY <1>1
  <2>2. inHand = {l} /\ pending = NoAttempt
    BY <2>1 DEF Alone, AtMostOne, Sound, Open
  <2>3. Cardinality({l}) = 1
    BY FS_Singleton
  <2>. QED  BY <2>1, <2>2, <2>3 DEF OpenAttempts
<1>2. CASE ~\E l \in Loops : Open(l)
  <2>1. inHand = {} /\ Cardinality({}) = 0
    BY <1>2, FS_EmptySet
  <2>. QED  BY <1>2, <2>1 DEF OpenAttempts
<1>. QED  BY <1>1, <1>2

(* OptimizationTracker counts every attempt once and for all it becomes, and
   _pending holds one at most, for any number of handlers that start and stop
   the tuner, while they leave one thread of it alive at a time. *)
THEOREM AttemptsAddUp == Spec => []AttemptsAccounted
<1>1. TypeInv /\ Trial => AttemptsAccounted
  <2>. SUFFICES ASSUME TypeInv, Alone PROVE EveryAttemptJudged /\ OpenAttempts <= 1
    BY DEF Trial, AttemptsAccounted
  <2>. QED  BY OneOpen DEF Alone, Tally, EveryAttemptJudged
<1>. QED  BY <1>1, TrialHolds, PTL

(* _rollback leaves no trace: with no attempt open, the engine's settings are
   the first ones or the last promoted, stops and refusals notwithstanding. *)
THEOREM RollbackRestores == Spec => []TrialUndone
<1>1. Trial => TrialUndone
  <2>. SUFFICES ASSUME Alone, OpenAttempts = 0 PROVE settings = accepted
    BY DEF Trial, TrialUndone
  <2>1. pending = NoAttempt /\ \A l \in Loops : ~Open(l)
    BY OneOpen
  <2>. QED  BY <2>1 DEF Alone, Ground, Open
<1>. QED  BY <1>1, TrialHolds, PTL
=============================================================================
