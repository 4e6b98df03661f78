---------------------------- MODULE BenchProofs ----------------------------
(***************************************************************************)
(* What snapshots show and what a load test reports is true, for any       *)
(* number of readers, client threads, prompts and slots.                   *)
(***************************************************************************)
EXTENDS Bench, FiniteSetTheorems, SequenceTheorems, TLAPS

(* The actions, each with what it leaves alone. *)
EngineStep == (Engine \/ TimePasses) /\ UNCHANGED benchVars
ReaderStep(d) == (Snapshot(d) \/ Again(d)) /\ UNCHANGED benchVars
ThreadStep(t) == Check(t) \/ Take(t) \/ TakeNoMore(t) \/ Count(t) \/ GivesUp(t)
                   \/ Answered(t) \/ Dies(t)
RunStep == TimeIsOver \/ Join

(* Every step is one of them or a Post. *)
LEMMA Steps ==
  ASSUME [BenchNext]_allVars
  PROVE  \/ UNCHANGED allVars
         \/ EngineStep
         \/ \E d \in Readers : ReaderStep(d) /\ (d = "bench" => joined /\ ~Again(d))
         \/ \E t \in Clients : ThreadStep(t) \/ Post(t)
         \/ RunStep
<1>1. CASE Fetch
  BY <1>1, BenchAssumption DEF Fetch, ReaderStep, Snapshot, CountQueues, CountRunning,
     CountWaiting, Sample, Rates, Totals, Copied, CopyRaises, CopyEnds, Again
<1>2. CASE \E d \in Readers \ {"bench"} : Poll(d)
  BY <1>2 DEF Poll, ReaderStep
<1>3. CASE \E t \in Clients : Thread(t) \/ Post(t) \/ Answered(t) \/ Dies(t)
  BY <1>3 DEF Thread, ThreadStep
<1>4. CASE (Engine \/ TimePasses) /\ UNCHANGED benchVars
  BY <1>4 DEF EngineStep
<1>. QED  BY <1>1, <1>2, <1>3, <1>4 DEF BenchNext, RunStep

(* The threads and run_bench leave the server alone. *)
LEMMA ServerUntouched ==
  ASSUME RunStep \/ \E t \in Clients : ThreadStep(t)
  PROVE  UNCHANGED vars
BY DEF RunStep, TimeIsOver, Join, ThreadStep, Check, Take, TakeNoMore, Count, GivesUp,
       Answered, Dies, Returned

-----------------------------------------------------------------------------
(* Types *)

(* A thread that is busy with a request has taken one. *)
Busy == {"send", "await", "ok", "failed", "dead"}
BusyHasTaken == \A t \in Clients : tpc[t] \in Busy => taken[t] # 0

(* What is posted has been taken. *)
LEMMA BusyKept == TypeOK /\ BusyHasTaken /\ [BenchNext]_allVars => BusyHasTaken'
<1>. SUFFICES ASSUME TypeOK, BusyHasTaken, [BenchNext]_allVars PROVE BusyHasTaken'
  OBVIOUS
<1>. USE BenchAssumption DEF Busy
<1>1. CASE UNCHANGED threadVars
  BY <1>1 DEF BusyHasTaken, threadVars
<1>2. ASSUME NEW t \in Clients, ThreadStep(t) \/ Post(t) PROVE BusyHasTaken'
  BY <1>2 DEF BusyHasTaken, TypeOK, ThreadStep, Post, Check, Take, TakeNoMore, Count, GivesUp,
              Answered, Dies, Returned, ThreadGoes
<1>. QED
  BY <1>1, <1>2, Steps DEF allVars, EngineStep, ReaderStep, RunStep, TimeIsOver, Join, benchVars

(* Every step keeps to the types. *)
LEMMA TypeKept == TypeOK /\ BusyHasTaken /\ [BenchNext]_allVars => TypeOK'
<1>. SUFFICES ASSUME TypeOK, BusyHasTaken, [BenchNext]_allVars PROVE TypeOK'
  OBVIOUS
<1>. USE StoreAssumption, BenchAssumption
<1>1. CASE UNCHANGED allVars
  BY <1>1 DEF TypeOK, allVars, vars, engineVars, storeVars, readerVars, benchVars,
              countVars, threadVars
<1>2. CASE EngineStep
  <2>. USE DEF benchVars, countVars, threadVars, storeVars, readerVars, engineVars
  <2>1. CASE Admit
    <3>1. Head(waiting) \in Requests /\ Tail(waiting) \in Seq(Requests)
      BY <2>1, HeadTailProperties DEF TypeOK, Admit
    <3>. QED  BY <1>2, <2>1, <3>1 DEF TypeOK, EngineStep, Admit
  <2>2. CASE RecordStep
    BY <1>2, <2>2 DEF TypeOK, EngineStep, RecordStep, Disturb
  <2>3. ASSUME NEW i \in Requests, Leave(i) PROVE TypeOK'
    BY <1>2, <2>3 DEF TypeOK, EngineStep, Leave
  <2>4. ASSUME NEW i \in Requests, RecordCompletion(i) PROVE TypeOK'
    <3>1. Append(completion_timestamps, i) \in Seq(Requests) \ {<<>>}
      BY DEF TypeOK
    <3>2. completion_timestamps' \in Seq(Requests)
      BY <2>4, <3>1, HeadTailProperties DEF RecordCompletion, Newest
    <3>. QED  BY <1>2, <2>4, <3>2 DEF TypeOK, EngineStep, RecordCompletion
  <2>5. CASE TimePasses
    <3>1. age' \in [Requests -> 0 .. Window + 1]
      BY <2>5 DEF TypeOK, TimePasses
    <3>. QED  BY <1>2, <2>5, <3>1 DEF TypeOK, EngineStep, TimePasses
  <2>. QED  BY <1>2, <2>1, <2>2, <2>3, <2>4, <2>5 DEF EngineStep, Engine
<1>3. ASSUME NEW d \in Readers, ReaderStep(d) PROVE TypeOK'
  <2>. USE DEF benchVars, countVars, threadVars, storeVars, engineVars, ReaderGoes, Nothing
  <2>1. CASE CountRunning(d)
    BY <1>3, <2>1 DEF TypeOK, ReaderStep, CountRunning
  <2>2. CASE CountWaiting(d)
    <3>1. ToSet(waiting) \subseteq Requests
      BY DEF TypeOK, ToSet
    <3>. QED  BY <1>3, <2>2, <3>1 DEF TypeOK, ReaderStep, CountWaiting
  <2>3. CASE Sample(d)
    BY <1>3, <2>3 DEF TypeOK, ReaderStep, Sample, Disturb
  <2>4. CASE Rates(d)
    BY <1>3, <2>4 DEF TypeOK, ReaderStep, Rates, Disturb
  <2>5. CASE Totals(d)
    BY <1>3, <2>5 DEF TypeOK, ReaderStep, Totals
  <2>6. CASE Copied(d) \/ CopyRaises(d)
    BY <1>3, <2>6 DEF TypeOK, ReaderStep, Copied, CopyRaises, CopyEnds
  <2>7. CASE Again(d)
    BY <1>3, <2>7 DEF TypeOK, ReaderStep, Again
  <2>. QED
    BY <1>3, <2>1, <2>2, <2>3, <2>4, <2>5, <2>6, <2>7 DEF ReaderStep, Snapshot, CountQueues
<1>4. ASSUME NEW t \in Clients, ThreadStep(t) PROVE TypeOK'
  <2>. USE DEF vars, engineVars, storeVars, readerVars, countVars, ThreadGoes
  <2>1. CASE Check(t) \/ TakeNoMore(t)
    BY <2>1 DEF TypeOK, Check, TakeNoMore
  <2>2. CASE Take(t)
    <3>1. prompt_index' \in 0 .. MaxPrompts /\ taken' \in [Clients -> 0 .. MaxPrompts]
      BY <2>2 DEF TypeOK, Take
    <3>2. tpc' \in [Clients -> {"check", "take", "send", "await", "ok", "failed", "done", "dead"}]
      BY <2>2 DEF TypeOK, Take
    <3>3. UNCHANGED <<vars, over, countVars, joined>>
      BY <2>2 DEF Take
    <3>. QED  BY <3>1, <3>2, <3>3 DEF TypeOK
  <2>3. CASE Count(t)
    <3>1. sent' \in Nat /\ ok' \in Nat /\ failed' \in Nat
      BY <2>3 DEF TypeOK, Count
    <3>2. /\ tpc' \in [Clients -> {"check", "take", "send", "await", "ok", "failed", "done", "dead"}]
          /\ taken' \in [Clients -> 0 .. MaxPrompts]
      BY <2>3 DEF TypeOK, Count
    <3>3. UNCHANGED <<vars, over, prompt_index, joined>>
      BY <2>3 DEF Count
    <3>. QED  BY <3>1, <3>2, <3>3 DEF TypeOK
  <2>4. CASE GivesUp(t) \/ Answered(t) \/ Dies(t)
    BY <2>4 DEF TypeOK, GivesUp, Answered, Dies, Returned
  <2>. QED  BY <1>4, <2>1, <2>2, <2>3, <2>4 DEF ThreadStep
<1>5. ASSUME NEW t \in Clients, Post(t) PROVE TypeOK'
  <2>1. taken[t] \in Requests /\ Enqueue(taken[t])
    BY <1>5 DEF Post, TypeOK, BusyHasTaken, Busy
  <2>2. Append(waiting, taken[t]) \in Seq(Requests)
    BY <2>1 DEF TypeOK
  <2>. QED  BY <1>5, <2>1, <2>2 DEF TypeOK, Post, Enqueue, ThreadGoes, storeVars, readerVars, countVars
<1>6. CASE RunStep
  BY <1>6 DEF TypeOK, RunStep, TimeIsOver, Join, vars, engineVars, storeVars, readerVars,
              countVars, threadVars
<1>. QED  BY <1>1, <1>2, <1>3, <1>4, <1>5, <1>6, Steps
-----------------------------------------------------------------------------
(* The queues: each request is in one place, and a reader who has seen it
   running can only find it there, leaving or completed. *)
OneQueue ==
  /\ \A i, j \in 1 .. Len(waiting) : waiting[i] = waiting[j] => i = j
  /\ ToSet(waiting) \cap (running \cup leaving \cup completed) = {}
  /\ running \cap (leaving \cup completed) = {} /\ leaving \cap completed = {}
  /\ \A i, j \in leaving : i = j
  /\ Cardinality(running) <= MaxConcurrent
ViewOK(d) ==
  /\ view[d].active \subseteq running \cup leaving \cup completed
  /\ Cardinality(view[d].active) <= MaxConcurrent
  /\ view[d].active \cap view[d].queued = {}
QInv == OneQueue /\ \A d \in Readers : ViewOK(d)

(* The set of a sequence, with its first element and with one more. *)
LEMMA ToSetFacts ==
  ASSUME NEW T, NEW q \in Seq(T)
  PROVE  /\ \A x : x \in ToSet(q) <=> \E i \in 1 .. Len(q) : q[i] = x
         /\ \A x : ToSet(Append(q, x)) = ToSet(q) \cup {x}
         /\ q # <<>> => ToSet(q) = ToSet(Tail(q)) \cup {Head(q)}
<1>1. \A x : x \in ToSet(q) <=> \E i \in 1 .. Len(q) : q[i] = x
  BY LenProperties DEF ToSet
<1>2. ASSUME NEW x PROVE ToSet(Append(q, x)) = ToSet(q) \cup {x}
  <2>1. /\ DOMAIN Append(q, x) = 1 .. Len(q) + 1 /\ DOMAIN q = 1 .. Len(q) /\ Len(q) \in Nat
        /\ \A i \in 1 .. Len(q) : Append(q, x)[i] = q[i]
        /\ Append(q, x)[Len(q) + 1] = x
    OBVIOUS
  <2>2. 1 .. Len(q) + 1 = (1 .. Len(q)) \cup {Len(q) + 1}
    BY <2>1
  <2>. QED  BY <2>1, <2>2 DEF ToSet
<1>3. ASSUME q # <<>> PROVE ToSet(q) = ToSet(Tail(q)) \cup {Head(q)}
  <2>1. /\ DOMAIN Tail(q) = 1 .. Len(q) - 1 /\ DOMAIN q = 1 .. Len(q) /\ Len(q) \in Nat \ {0}
        /\ \A i \in 1 .. Len(q) - 1 : Tail(q)[i] = q[i + 1]
        /\ Head(q) = q[1]
    BY <1>3
  <2>2. ASSUME NEW x \in ToSet(q) PROVE x \in ToSet(Tail(q)) \cup {Head(q)}
    <3>1. PICK i \in 1 .. Len(q) : q[i] = x
      BY <1>1, <2>2
    <3>2. CASE i = 1
      BY <2>1, <3>1, <3>2
    <3>3. CASE i # 1
      <4>1. i - 1 \in 1 .. Len(q) - 1 /\ (i - 1) + 1 = i
        BY <3>3, <2>1
      <4>. QED  BY <2>1, <3>1, <4>1 DEF ToSet
    <3>. QED  BY <3>2, <3>3
  <2>3. ToSet(Tail(q)) \cup {Head(q)} \subseteq ToSet(q)
    <3>1. \A i \in 1 .. Len(q) - 1 : i + 1 \in 1 .. Len(q)
      BY <2>1
    <3>. QED  BY <2>1, <3>1 DEF ToSet
  <2>. QED  BY <2>2, <2>3
<1>. QED  BY <1>1, <1>2, <1>3

(* What has been seen running stays among the requests that are past the
   queue, as long as these only become more. *)
LEMMA ViewsStay ==
  ASSUME \A d \in Readers : ViewOK(d), UNCHANGED view,
         running \cup leaving \cup completed \subseteq running' \cup leaving' \cup completed'
  PROVE  \A d \in Readers : ViewOK(d)'
BY DEF ViewOK

(* A request that is admitted moves, and is not copied. *)
LEMMA AdmitKeepsQueues == ASSUME TypeOK, QInv, Admit PROVE QInv'
<1>1. /\ waiting \in Seq(Requests) /\ waiting # <<>> /\ waiting' = Tail(waiting)
      /\ running' = running \cup {Head(waiting)} /\ UNCHANGED <<leaving, completed, view>>
  BY DEF Admit, TypeOK, readerVars
<1>2. ToSet(waiting) = ToSet(waiting') \cup {Head(waiting)}
  BY <1>1, ToSetFacts
<1>3. /\ Len(waiting') = Len(waiting) - 1 /\ Len(waiting) \in Nat \ {0}
      /\ \A i \in 1 .. Len(waiting') : waiting'[i] = waiting[i + 1]
      /\ Head(waiting) = waiting[1]
  BY <1>1
<1>4. \A i, j \in 1 .. Len(waiting') : waiting'[i] = waiting'[j] => i = j
  <2>. SUFFICES ASSUME NEW i \in 1 .. Len(waiting'), NEW j \in 1 .. Len(waiting'),
                       waiting'[i] = waiting'[j]
                PROVE  i = j
    OBVIOUS
  <2>1. i + 1 \in 1 .. Len(waiting) /\ j + 1 \in 1 .. Len(waiting)
    BY <1>3
  <2>2. i + 1 = j + 1
    BY <2>1, <1>3 DEF QInv, OneQueue
  <2>. QED  BY <2>2
<1>5. Head(waiting) \notin ToSet(waiting')
  <2>1. waiting' \in Seq(Requests)
    BY <1>1
  <2>. SUFFICES ASSUME NEW i \in 1 .. Len(waiting'), waiting'[i] = Head(waiting) PROVE FALSE
    BY <2>1, ToSetFacts
  <2>2. i + 1 \in 1 .. Len(waiting) /\ 1 \in 1 .. Len(waiting) /\ i + 1 # 1
    BY <1>3
  <2>. QED  BY <2>2, <1>3 DEF QInv, OneQueue
<1>6. Cardinality(running') <= MaxConcurrent
  <2>1. IsFiniteSet(running)
    BY StoreAssumption, FS_Subset DEF TypeOK
  <2>2. Cardinality(running) < MaxConcurrent /\ Cardinality(running) \in Nat
    BY <2>1, FS_CardinalityType DEF Admit
  <2>3. Cardinality(running \cup {Head(waiting)})
          = IF Head(waiting) \in running THEN Cardinality(running) ELSE Cardinality(running) + 1
    BY <2>1, FS_AddElement
  <2>. QED  BY <1>1, <2>2, <2>3, StoreAssumption
<1>7. OneQueue'
  BY <1>1, <1>2, <1>4, <1>5, <1>6 DEF QInv, OneQueue
<1>. QED  BY <1>1, <1>7, ViewsStay DEF QInv

(* A request that leaves running is past the queue still. *)
LEMMA LeaveKeepsQueues ==
  ASSUME TypeOK, QInv, NEW i \in Requests, Leave(i)
  PROVE  QInv'
<1>1. /\ i \in running /\ leaving = {} /\ running' = running \ {i} /\ leaving' = {i}
      /\ UNCHANGED <<waiting, completed, view>>
  BY DEF Leave, readerVars
<1>2. Cardinality(running') <= MaxConcurrent
  <2>1. IsFiniteSet(running)
    BY StoreAssumption, FS_Subset DEF TypeOK
  <2>2. Cardinality(running') = Cardinality(running) - 1 /\ Cardinality(running) \in Nat
    BY <1>1, <2>1, FS_RemoveElement, FS_CardinalityType
  <2>. QED  BY <2>2, StoreAssumption DEF QInv, OneQueue
<1>3. OneQueue'
  BY <1>1, <1>2 DEF QInv, OneQueue
<1>. QED  BY <1>1, <1>3, ViewsStay DEF QInv

(* So is one that is reported. *)
LEMMA CompletionKeepsQueues ==
  ASSUME TypeOK, QInv, NEW i \in Requests, RecordCompletion(i)
  PROVE  QInv'
<1>1. /\ i \in leaving /\ leaving' = {} /\ completed' = completed \cup {i}
      /\ UNCHANGED <<waiting, running, view>>
  BY DEF RecordCompletion, readerVars
<1>2. leaving = {i}
  BY <1>1 DEF QInv, OneQueue
<1>3. OneQueue'
  BY <1>1, <1>2 DEF QInv, OneQueue
<1>. QED  BY <1>1, <1>2, <1>3, ViewsStay DEF QInv

(* A request is queued once. *)
LEMMA EnqueueKeepsQueues ==
  ASSUME TypeOK, QInv, NEW i \in Requests, Enqueue(i)
  PROVE  QInv'
<1>1. /\ waiting \in Seq(Requests) /\ i \notin ToSet(waiting) \cup running \cup completed
      /\ leaving = {} /\ waiting' = Append(waiting, i)
      /\ UNCHANGED <<running, leaving, completed, view>>
  BY DEF Enqueue, TypeOK, readerVars
<1>2. ToSet(waiting') = ToSet(waiting) \cup {i}
  BY <1>1, ToSetFacts
<1>3. \A j, k \in 1 .. Len(waiting') : waiting'[j] = waiting'[k] => j = k
  <2>1. /\ Len(waiting') = Len(waiting) + 1 /\ waiting'[Len(waiting) + 1] = i
        /\ \A j \in 1 .. Len(waiting) : waiting'[j] = waiting[j] /\ waiting[j] # i
    BY <1>1, ToSetFacts
  <2>2. \A j \in 1 .. Len(waiting') : j \in 1 .. Len(waiting) \/ j = Len(waiting) + 1
    BY <1>1, <2>1
  <2>. QED  BY <2>1, <2>2 DEF QInv, OneQueue
<1>4. OneQueue'
  BY <1>1, <1>2, <1>3 DEF QInv, OneQueue
<1>. QED  BY <1>1, <1>4, ViewsStay DEF QInv

(* Looking at running first, a reader finds what is running past the queue. *)
LEMMA ReaderKeepsQueues ==
  ASSUME TypeOK, QInv, NEW d \in Readers, ReaderStep(d)
  PROVE  QInv'
<1>1. UNCHANGED engineVars /\ \A e \in Readers \ {d} : view'[e] = view[e]
  BY DEF TypeOK, ReaderStep, Snapshot, CountQueues, CountRunning, CountWaiting, Sample, Rates,
         Totals, Copied, CopyRaises, CopyEnds, Again
<1>2. OneQueue'
  BY <1>1 DEF QInv, OneQueue, engineVars
<1>3. \A e \in Readers \ {d} : ViewOK(e)'
  BY <1>1 DEF QInv, ViewOK, engineVars
<1>4. CASE CountRunning(d)
  <2>1. view'[d] = [Nothing EXCEPT !.active = running]
    BY <1>4 DEF CountRunning, TypeOK
  <2>2. view'[d].active = running /\ view'[d].queued = {}
    BY <2>1 DEF Nothing
  <2>. QED  BY <1>1, <1>2, <1>3, <2>2 DEF QInv, OneQueue, ViewOK, engineVars
<1>5. CASE CountWaiting(d)
  <2>1. view'[d] = [view[d] EXCEPT !.queued = ToSet(waiting)]
    BY <1>5 DEF CountWaiting, TypeOK
  <2>2. view'[d].active = view[d].active /\ view'[d].queued = ToSet(waiting)
    BY <2>1 DEF TypeOK
  <2>. QED  BY <1>1, <1>2, <1>3, <2>2 DEF QInv, OneQueue, ViewOK, engineVars
<1>6. CASE Totals(d)
  <2>1. view'[d] = [view[d] EXCEPT !.completed = total_completed]
    BY <1>6 DEF Totals, TypeOK
  <2>2. view'[d].active = view[d].active /\ view'[d].queued = view[d].queued
    BY <2>1 DEF TypeOK
  <2>. QED  BY <1>1, <1>2, <1>3, <2>2 DEF QInv, ViewOK, engineVars
<1>7. CASE Again(d)
  <2>1. view'[d] = Nothing
    BY <1>7 DEF Again, TypeOK
  <2>2. view'[d].active = {} /\ Cardinality({}) = 0
    BY <2>1, FS_EmptySet DEF Nothing
  <2>3. Cardinality(view'[d].active) <= MaxConcurrent
    BY <2>2, StoreAssumption
  <2>4. ViewOK(d)'
    BY <2>2, <2>3 DEF ViewOK
  <2>. QED  BY <1>2, <1>3, <2>4 DEF QInv
<1>8. CASE Sample(d) \/ Rates(d) \/ Copied(d) \/ CopyRaises(d)
  <2>1. UNCHANGED view
    BY <1>8 DEF Sample, Rates, Copied, CopyRaises, CopyEnds
  <2>. QED  BY <1>1, <1>2, <2>1, ViewsStay DEF QInv, engineVars
<1>. QED
  BY <1>4, <1>5, <1>6, <1>7, <1>8 DEF ReaderStep, Snapshot, CountQueues

(* Every step leaves each request in one place and every view true. *)
LEMMA QueuesKept == TypeOK /\ BusyHasTaken /\ QInv /\ [BenchNext]_allVars => QInv'
<1>. SUFFICES ASSUME TypeOK, BusyHasTaken, QInv, [BenchNext]_allVars PROVE QInv'
  OBVIOUS
<1>1. CASE UNCHANGED <<engineVars, view>>
  BY <1>1 DEF QInv, OneQueue, ViewOK, engineVars
<1>2. CASE EngineStep
  <2>1. CASE RecordStep \/ TimePasses
    BY <1>1, <2>1 DEF RecordStep, TimePasses, readerVars
  <2>. QED
    BY <1>2, <2>1, AdmitKeepsQueues, LeaveKeepsQueues, CompletionKeepsQueues
    DEF EngineStep, Engine
<1>3. ASSUME NEW t \in Clients, Post(t) PROVE QInv'
  <2>1. taken[t] \in Requests /\ Enqueue(taken[t])
    BY <1>3, BenchAssumption DEF Post, TypeOK, BusyHasTaken, Busy
  <2>. QED  BY <2>1, EnqueueKeepsQueues
<1>. QED
  BY <1>1, <1>2, <1>3, ReaderKeepsQueues, ServerUntouched, Steps DEF allVars, vars, readerVars

-----------------------------------------------------------------------------
(* The timestamps: those of the newest completions, the oldest first. *)
StoreInv ==
  LET q == completion_timestamps IN
  /\ total_completed = Cardinality(completed)
  /\ \A i, j \in 1 .. Len(q) : q[i] = q[j] => i = j
  /\ Len(q) <= MaxTimestamps
  /\ \A i \in 1 .. Len(q) : q[i] \in completed
  /\ \A i, j \in 1 .. Len(q) : i <= j => age[q[j]] <= age[q[i]]
  /\ \A x \in completed : \/ \E i \in 1 .. Len(q) : q[i] = x
                          \/ Len(q) = MaxTimestamps /\ \A j \in 1 .. Len(q) : age[q[j]] <= age[x]
  /\ \A x \in Requests \ completed : age[x] = 0

(* Time keeps the order of ages. *)
LEMMA TimeKeepsStore == ASSUME TypeOK, StoreInv, TimePasses PROVE StoreInv'
<1>. DEFINE q == completion_timestamps
<1>1. UNCHANGED <<completed, total_completed, completion_timestamps>>
  BY DEF TimePasses, engineVars
<1>2. \A x \in Requests : /\ age[x] \in 0 .. Window + 1
                          /\ age'[x] = IF x \in completed /\ age[x] <= Window
                                         THEN age[x] + 1 ELSE age[x]
  BY DEF TypeOK, TimePasses
<1>3. \A x, y \in completed : age[x] <= age[y] => age'[x] <= age'[y]
  <2>. SUFFICES ASSUME NEW x \in completed, NEW y \in completed, age[x] <= age[y]
                PROVE  age'[x] <= age'[y]
    OBVIOUS
  <2>1. x \in Requests /\ y \in Requests
    BY DEF TypeOK
  <2>. QED  BY <2>1, <1>2, StoreAssumption
<1>4. \A x \in Requests \ completed : age'[x] = 0
  BY <1>2 DEF StoreInv
<1>5. \A i \in 1 .. Len(q) : q[i] \in completed
  BY DEF StoreInv
<1>. QED  BY <1>1, <1>3, <1>4, <1>5 DEF StoreInv

(* A new timestamp is the youngest; the one it pushes out was the oldest. *)
LEMMA CompletionKeepsStore ==
  ASSUME TypeOK, QInv, StoreInv, NEW i \in Requests, RecordCompletion(i)
  PROVE  StoreInv'
<1>. DEFINE q == completion_timestamps
            r == completion_timestamps'
            n == Len(completion_timestamps)
<1>1. /\ completed' = completed \cup {i} /\ total_completed' = total_completed + 1
      /\ r = Newest(Append(q, i)) /\ UNCHANGED age
  BY DEF RecordCompletion
<1>2. i \notin completed /\ age[i] = 0
  BY DEF RecordCompletion, QInv, OneQueue, StoreInv
<1>3. /\ \A x \in Requests : age[x] \in Nat
      /\ q \in Seq(Requests) /\ n \in Nat /\ n <= MaxTimestamps /\ completed \subseteq Requests
  BY StoreAssumption DEF TypeOK, StoreInv
<1>4. total_completed' = Cardinality(completed')
  <2>1. IsFiniteSet(completed)
    BY <1>3, StoreAssumption, FS_Subset
  <2>. QED  BY <1>1, <1>2, <2>1, FS_AddElement DEF StoreInv
<1>5. \A j \in 1 .. n : q[j] \in completed /\ q[j] # i /\ q[j] \in Requests
  BY <1>2, <1>3 DEF StoreInv
<1>. DEFINE Kept(m) ==
       /\ m <= MaxTimestamps
       /\ \A j, k \in 1 .. m : r[j] = r[k] => j = k
       /\ \A j \in 1 .. m : r[j] \in completed'
       /\ \A j, k \in 1 .. m : j <= k => age[r[k]] <= age[r[j]]
       /\ \A x \in completed' : \/ \E j \in 1 .. m : r[j] = x
                                \/ m = MaxTimestamps /\ \A j \in 1 .. m : age[r[j]] <= age[x]
<1>8. ASSUME Kept(Len(r)) PROVE StoreInv'
  <2>1. \A x \in Requests \ completed' : age[x] = 0
    BY <1>1 DEF StoreInv
  <2>. QED  BY <1>1, <1>4, <1>8, <2>1 DEF StoreInv
<1>6. CASE n < MaxTimestamps
  <2>1. /\ r = Append(q, i) /\ Len(r) = n + 1 /\ r[n + 1] = i
        /\ \A j \in 1 .. n : r[j] = q[j]
    BY <1>1, <1>3, <1>6, StoreAssumption DEF Newest
  <2>2. \A j \in 1 .. n + 1 : j \in 1 .. n \/ j = n + 1
    BY <1>3
  <2>3. \A x \in completed : \E j \in 1 .. n : q[j] = x
    BY <1>6, <1>3, StoreAssumption DEF StoreInv
  <2>4. \A x \in completed' : \E j \in 1 .. n + 1 : r[j] = x
    BY <1>1, <1>3, <2>1, <2>3
  <2>5. \A j, k \in 1 .. n + 1 : r[j] = r[k] => j = k
    BY <1>5, <2>1, <2>2 DEF StoreInv
  <2>6. \A j, k \in 1 .. n + 1 : j <= k => age[r[k]] <= age[r[j]]
    <3>. SUFFICES ASSUME NEW j \in 1 .. n + 1, NEW k \in 1 .. n + 1, j <= k
                  PROVE  age[r[k]] <= age[r[j]]
      OBVIOUS
    <3>1. CASE k = n + 1
      BY <1>2, <1>3, <1>5, <2>1, <2>2, <3>1
    <3>2. CASE k # n + 1
      <4>1. j \in 1 .. n /\ k \in 1 .. n
        BY <1>3, <3>2
      <4>. QED  BY <2>1, <4>1 DEF StoreInv
    <3>. QED  BY <3>1, <3>2
  <2>7. n + 1 <= MaxTimestamps /\ \A j \in 1 .. n + 1 : r[j] \in completed'
    BY <1>1, <1>3, <1>5, <1>6, <2>1, <2>2, StoreAssumption
  <2>. HIDE DEF r
  <2>8. Kept(n + 1)
    BY <2>4, <2>5, <2>6, <2>7
  <2>. QED  BY <1>8, <2>1, <2>8
<1>7. CASE n = MaxTimestamps
  <2>1. /\ r = Tail(Append(q, i)) /\ Len(r) = n /\ r[n] = i
        /\ \A j \in 1 .. n - 1 : r[j] = q[j + 1]
    <3>1. /\ Append(q, i) \in Seq(Requests) /\ Len(Append(q, i)) = n + 1
          /\ r = Tail(Append(q, i)) /\ Append(q, i)[n + 1] = i
          /\ \A j \in 1 .. n : Append(q, i)[j] = q[j]
      BY <1>1, <1>3, <1>7, StoreAssumption DEF Newest
    <3>2. Len(r) = n /\ \A j \in 1 .. n : r[j] = Append(q, i)[j + 1]
      BY <3>1, <1>3, HeadTailProperties
    <3>3. n \in 1 .. n /\ \A j \in 1 .. n - 1 : j \in 1 .. n /\ j + 1 \in 1 .. n
      BY <1>3, <1>7, StoreAssumption
    <3>. QED  BY <3>1, <3>2, <3>3
  <2>2. \A j \in 1 .. n : (j \in 1 .. n - 1 /\ j + 1 \in 1 .. n) \/ j = n
    BY <1>3
  <2>3. \A j, k \in 1 .. n : r[j] = r[k] => j = k
    <3>. SUFFICES ASSUME NEW j \in 1 .. n, NEW k \in 1 .. n, r[j] = r[k] PROVE j = k
      OBVIOUS
    <3>1. CASE j # n /\ k # n
      <4>1. j + 1 \in 1 .. n /\ k + 1 \in 1 .. n /\ q[j + 1] = q[k + 1]
        BY <2>1, <2>2, <3>1
      <4>. QED  BY <4>1 DEF StoreInv
    <3>. QED  BY <1>5, <2>1, <2>2, <3>1
  <2>4. \A j, k \in 1 .. n : j <= k => age[r[k]] <= age[r[j]]
    <3>. SUFFICES ASSUME NEW j \in 1 .. n, NEW k \in 1 .. n, j <= k
                  PROVE  age[r[k]] <= age[r[j]]
      OBVIOUS
    <3>1. CASE k = n
      BY <1>2, <1>3, <1>5, <2>1, <2>2, <3>1
    <3>2. CASE k # n
      <4>1. j + 1 \in 1 .. n /\ k + 1 \in 1 .. n /\ j + 1 <= k + 1
            /\ r[j] = q[j + 1] /\ r[k] = q[k + 1]
        BY <1>3, <2>1, <2>2, <3>2
      <4>. QED  BY <4>1 DEF StoreInv
    <3>. QED  BY <3>1, <3>2
  <2>5. \A j \in 1 .. n : r[j] \in completed'
    BY <1>1, <1>5, <2>1, <2>2
  <2>6. \A x \in completed' : \/ \E j \in 1 .. n : r[j] = x
                              \/ \A j \in 1 .. n : age[r[j]] <= age[x]
    <3>. SUFFICES ASSUME NEW x \in completed, \A j \in 1 .. n : r[j] # x, NEW j \in 1 .. n
                  PROVE  age[r[j]] <= age[x]
      <4>1. n \in 1 .. n
        BY <1>3, <1>7, StoreAssumption
      <4>. QED  BY <1>1, <2>1, <4>1
    <3>1. \A k \in 1 .. n : age[q[k]] <= age[x]
      <4>1. CASE \E k \in 1 .. n : q[k] = x
        <5>1. PICK k \in 1 .. n : q[k] = x
          BY <4>1
        <5>2. k = 1
          <6>. SUFFICES ASSUME k # 1 PROVE FALSE
            OBVIOUS
          <6>1. k - 1 \in 1 .. n - 1 /\ k - 1 \in 1 .. n /\ (k - 1) + 1 = k
            BY <1>3
          <6>. QED  BY <2>1, <5>1, <6>1
        <5>. QED  BY <1>3, <5>1, <5>2 DEF StoreInv
      <4>. QED  BY <4>1 DEF StoreInv
    <3>2. x \in Requests
      BY <1>3
    <3>. QED  BY <1>2, <1>3, <2>1, <2>2, <3>1, <3>2
  <2>. HIDE DEF r
  <2>7. Kept(n)
    BY <1>3, <1>7, <2>3, <2>4, <2>5, <2>6
  <2>. QED  BY <1>8, <2>1, <2>7
<1>. QED  BY <1>3, <1>6, <1>7, StoreAssumption

(* Only time and completions touch the timestamps. *)
LEMMA StoreKept == TypeOK /\ QInv /\ StoreInv /\ [BenchNext]_allVars => StoreInv'
<1>. SUFFICES ASSUME TypeOK, QInv, StoreInv, [BenchNext]_allVars PROVE StoreInv'
  OBVIOUS
<1>1. CASE UNCHANGED <<completed, storeVars>>
  BY <1>1 DEF StoreInv, storeVars
<1>2. CASE EngineStep
  <2>1. CASE Admit \/ RecordStep \/ \E i \in Requests : Leave(i)
    BY <1>1, <2>1 DEF Admit, RecordStep, Leave, engineVars
  <2>. QED  BY <1>2, <2>1, TimeKeepsStore, CompletionKeepsStore DEF EngineStep, Engine
<1>3. ASSUME NEW d \in Readers, ReaderStep(d) PROVE StoreInv'
  BY <1>1, <1>3 DEF ReaderStep, Snapshot, CountQueues, CountRunning, CountWaiting, Sample, Rates,
     Totals, Copied, CopyRaises, CopyEnds, Again, engineVars
<1>4. ASSUME NEW t \in Clients, Post(t) PROVE StoreInv'
  BY <1>1, <1>4 DEF Post, Enqueue
<1>. QED
  BY <1>1, <1>2, <1>3, <1>4, ServerUntouched, Steps DEF allVars, vars, engineVars

(* Recent timestamps are recent completions, one for one; they are all of
   them unless the deque is full of recent ones. *)
LEMMA StoreSaturates == ASSUME TypeOK, StoreInv PROVE RateSaturates
<1>. DEFINE q == completion_timestamps
            n == Len(completion_timestamps)
            R == {x \in completed : age[x] <= Window}
            J == {j \in DOMAIN completion_timestamps : age[completion_timestamps[j]] <= Window}
            T == {q[j] : j \in J}
<1>1. /\ n \in Nat /\ DOMAIN q = 1 .. n /\ n <= MaxTimestamps /\ MaxTimestamps \in Nat
      /\ \A x \in Requests : age[x] \in Nat
      /\ completed \subseteq Requests
      /\ \A j \in 1 .. n : q[j] \in completed
  BY StoreAssumption, LenProperties DEF TypeOK, StoreInv
<1>2. IsFiniteSet(R) /\ Cardinality(R) \in Nat
  BY <1>1, StoreAssumption, FS_Subset, FS_CardinalityType
<1>3. J \subseteq 1 .. n
  BY <1>1
<1>4. /\ IsFiniteSet(1 .. n) /\ Cardinality(1 .. n) = n
      /\ IsFiniteSet(J) /\ Cardinality(J) <= n /\ Cardinality(J) \in Nat
      /\ Cardinality(J) = n => J = 1 .. n
  <2>1. IsFiniteSet(1 .. n) /\ Cardinality(1 .. n) = n
    <3>. HIDE DEF n
    <3>1. n \in Int /\ 1 \in Int
      BY <1>1
    <3>2. /\ IsFiniteSet(1 .. n)
          /\ Cardinality(1 .. n) = IF 1 > n THEN 0 ELSE n - 1 + 1
      BY ONLY <3>1, FS_Interval, Zenon
    <3>. QED  BY <1>1, <3>2
  <2>. QED  BY <1>3, <2>1, FS_Subset, FS_CardinalityType
<1>5. T \subseteq R /\ Cardinality(J) = Cardinality(T)
  <2>1. T \subseteq R
    BY <1>1, <1>3
  <2>. DEFINE f == [j \in J |-> q[j]]
  <2>2. \A j, k \in J : q[j] = q[k] => j = k
    BY <1>3 DEF StoreInv
  <2>3. f \in Bijection(J, T)
    <3>1. f \in [J -> T]
      OBVIOUS
    <3>2. IsInjective(f)
      BY <2>2 DEF IsInjective
    <3>3. \A x \in T : \E j \in J : f[j] = x
      OBVIOUS
    <3>. HIDE DEF f, T, J
    <3>. QED  BY <3>1, <3>2, <3>3 DEF Bijection, Injection, Surjection
  <2>. HIDE DEF f
  <2>4. ExistsBijection(J, T)
    BY <2>3 DEF ExistsBijection
  <2>. QED  BY <1>4, <2>1, <2>4, FS_Bijection
<1>6. Cardinality(T) <= Cardinality(R)
  BY <1>2, <1>5, FS_Subset
<1>7. R # T => J = 1 .. n /\ n = MaxTimestamps
  <2>. SUFFICES ASSUME NEW x \in R, x \notin T PROVE J = 1 .. n /\ n = MaxTimestamps
    BY <1>5
  <2>1. \A j \in 1 .. n : q[j] # x
    BY <1>1
  <2>2. n = MaxTimestamps /\ \A j \in 1 .. n : age[q[j]] <= age[x]
    BY <2>1 DEF StoreInv
  <2>3. \A j \in 1 .. n : age[q[j]] <= Window
    BY <1>1, <2>2, StoreAssumption
  <2>. QED  BY <1>1, <2>2, <2>3
<1>8. Recent(q) = Cardinality(J)
  BY DEF Recent
<1>. HIDE DEF R, J, T
<1>9. Cardinality(J) = IF Cardinality(R) < MaxTimestamps THEN Cardinality(R) ELSE MaxTimestamps
  <2>1. CASE R = T
    BY <1>1, <1>4, <1>5, <2>1
  <2>2. CASE R # T
    BY <1>1, <1>2, <1>4, <1>5, <1>6, <1>7, <2>2
  <2>. QED  BY <2>1, <2>2
<1>10. total_completed = Cardinality(completed)
  BY DEF StoreInv
<1>. QED  BY <1>8, <1>9, <1>10 DEF RateSaturates, R

-----------------------------------------------------------------------------
(* The report *)

(* Threads whose request the server has completed, as far as they know or
   can still find out. *)
Served == {t \in Clients : tpc[t] = "ok" \/ (tpc[t] = "await" /\ taken[t] \in completed)}

(* Prompts are taken by one thread each; none is at the server before. *)
OneThread ==
  /\ \A t \in Clients : taken[t] <= prompt_index
  /\ \A t, u \in Clients : taken[t] = taken[u] /\ taken[t] # 0 => t = u
  /\ ToSet(waiting) \cup running \cup leaving \cup completed \subseteq 1 .. prompt_index

(* What the threads have counted and what they have still to count. *)
Counted ==
  /\ sent = ok + failed
  /\ prompt_index = sent + Cardinality(Uncounted)
  /\ ok + Cardinality(Served) <= Cardinality(completed)

(* The one fetch comes after the threads. *)
FetchLast ==
  /\ rpc["bench"] # "idle" => joined
  /\ joined => \A t \in Clients : Over(t)
  /\ rpc["bench"] \in {"copy", "ok", "error"} =>
       LET server == view["bench"].completed IN
         ok <= server /\ server <= ok + failed + Cardinality(Dead)

RInv == OneThread /\ Counted /\ FetchLast

(* Adding or removing one thread changes a count by one. *)
LEMMA OneMore ==
  ASSUME NEW A \in SUBSET Clients, NEW B \in SUBSET Clients, NEW t \in Clients
  PROVE  /\ IsFiniteSet(A) /\ Cardinality(A) \in Nat
         /\ A = B => Cardinality(A) = Cardinality(B)
         /\ t \notin A /\ B = A \cup {t} => Cardinality(B) = Cardinality(A) + 1
         /\ t \in A /\ B = A \ {t} => Cardinality(B) = Cardinality(A) - 1
         /\ A \subseteq B => Cardinality(A) <= Cardinality(B)
<1>1. IsFiniteSet(A) /\ IsFiniteSet(B)
  BY BenchAssumption, FS_Subset
<1>. QED  BY <1>1, FS_CardinalityType, FS_AddElement, FS_RemoveElement, FS_Subset

(* The server moves requests it has got and takes on no others. *)
LEMMA ServerKeepsOneThread ==
  ASSUME TypeOK, OneThread, EngineStep
  PROVE  OneThread'
<1>1. UNCHANGED <<taken, prompt_index>>
  BY DEF EngineStep, benchVars, threadVars
<1>2. ToSet(waiting') \cup running' \cup leaving' \cup completed'
        \subseteq ToSet(waiting) \cup running \cup leaving \cup completed
  <2>1. CASE Admit
    <3>1. /\ waiting \in Seq(Requests) /\ waiting # <<>> /\ waiting' = Tail(waiting)
          /\ running' = running \cup {Head(waiting)} /\ UNCHANGED <<leaving, completed>>
      BY <2>1 DEF Admit, TypeOK
    <3>. QED  BY <3>1, ToSetFacts
  <2>2. CASE RecordStep \/ TimePasses
    BY <2>2 DEF RecordStep, TimePasses, engineVars
  <2>3. CASE \E i \in Requests : Leave(i) \/ RecordCompletion(i)
    BY <2>3 DEF Leave, RecordCompletion
  <2>. QED  BY <2>1, <2>2, <2>3 DEF EngineStep, Engine
<1>. QED  BY <1>1, <1>2 DEF OneThread

(* A thread takes the next prompt, and posts the one it has. *)
LEMMA ThreadKeepsOneThread ==
  ASSUME TypeOK, BusyHasTaken, OneThread, NEW t \in Clients, ThreadStep(t) \/ Post(t)
  PROVE  OneThread'
<1>. USE BenchAssumption
<1>1. prompt_index \in Nat /\ taken \in [Clients -> 0 .. MaxPrompts]
  BY DEF TypeOK
<1>2. CASE UNCHANGED <<taken, prompt_index, vars>>
  BY <1>2 DEF OneThread, vars, engineVars
<1>3. CASE Take(t)
  <2>1. /\ prompt_index' = prompt_index + 1 /\ taken' = [taken EXCEPT ![t] = prompt_index + 1]
        /\ UNCHANGED vars
    BY <1>3 DEF Take
  <2>2. \A u \in Clients : taken'[u] = IF u = t THEN prompt_index + 1 ELSE taken[u]
    BY <1>1, <2>1
  <2>3. \A u \in Clients : taken[u] <= prompt_index /\ taken[u] \in Nat
    BY <1>1 DEF OneThread
  <2>4. \A u \in Clients : taken'[u] <= prompt_index'
    BY <1>1, <2>1, <2>2, <2>3
  <2>5. \A u, w \in Clients : taken'[u] = taken'[w] /\ taken'[u] # 0 => u = w
    BY <1>1, <2>2, <2>3 DEF OneThread
  <2>6. 1 .. prompt_index \subseteq 1 .. prompt_index'
    BY <1>1, <2>1
  <2>. QED  BY <2>1, <2>4, <2>5, <2>6 DEF OneThread, vars, engineVars
<1>4. CASE Count(t)
  <2>1. taken' = [taken EXCEPT ![t] = 0] /\ UNCHANGED <<prompt_index, vars>>
    BY <1>4 DEF Count
  <2>. QED  BY <1>1, <2>1 DEF OneThread, vars, engineVars
<1>5. CASE Post(t)
  <2>1. /\ taken[t] \in 1 .. prompt_index /\ waiting \in Seq(Requests)
        /\ waiting' = Append(waiting, taken[t])
        /\ UNCHANGED <<running, leaving, completed, taken, prompt_index>>
    BY <1>1, <1>5 DEF Post, Enqueue, BusyHasTaken, Busy, TypeOK, OneThread
  <2>2. ToSet(waiting') = ToSet(waiting) \cup {taken[t]}
    BY <2>1, ToSetFacts
  <2>. QED  BY <2>1, <2>2 DEF OneThread
<1>6. CASE Check(t) \/ TakeNoMore(t) \/ GivesUp(t) \/ Answered(t) \/ Dies(t)
  BY <1>2, <1>6 DEF Check, TakeNoMore, GivesUp, Answered, Dies, Returned
<1>. QED  BY <1>3, <1>4, <1>5, <1>6 DEF ThreadStep

(* A request that is reported serves one thread at most. *)
LEMMA ServerKeepsCounted ==
  ASSUME TypeOK, QInv, OneThread, Counted, EngineStep
  PROVE  Counted'
<1>1. UNCHANGED <<prompt_index, sent, ok, failed, tpc, taken>>
  BY DEF EngineStep, benchVars, countVars, threadVars
<1>2. Cardinality(Uncounted') = Cardinality(Uncounted)
  BY <1>1 DEF Uncounted
<1>3. CASE UNCHANGED completed
  <2>1. Served' = Served
    BY <1>1, <1>3 DEF Served
  <2>. QED  BY <1>1, <1>2, <1>3, <2>1 DEF Counted
<1>4. ASSUME NEW i \in Requests, RecordCompletion(i) PROVE Counted'
  <2>1. i \notin completed /\ completed' = completed \cup {i}
    BY <1>4 DEF RecordCompletion, QInv, OneQueue
  <2>2. IsFiniteSet(completed) /\ Cardinality(completed) \in Nat
    BY StoreAssumption, FS_Subset, FS_CardinalityType DEF TypeOK
  <2>3. Cardinality(completed') = Cardinality(completed) + 1
    BY <2>1, <2>2, FS_AddElement
  <2>4. \A t \in Clients : t \in Served' => t \in Served \/ taken[t] = i
    BY <1>1, <2>1 DEF Served
  <2>5. Served \in SUBSET Clients /\ Served' \in SUBSET Clients
    BY DEF Served
  <2>6. Cardinality(Served') <= Cardinality(Served) + 1
    <3>1. CASE \E t \in Clients : taken[t] = i
      <4>1. PICK t \in Clients : taken[t] = i
        BY <3>1
      <4>2. i # 0
        BY BenchAssumption
      <4>3. \A u \in Clients : taken[u] = i => u = t
        BY <4>1, <4>2 DEF OneThread
      <4>4. Served' \subseteq Served \cup {t}
        BY <2>4, <2>5, <4>3
      <4>5. /\ Cardinality(Served \cup {t}) \in Nat
            /\ Cardinality(Served \cup {t}) <= Cardinality(Served) + 1
        <5>1. CASE t \in Served
          <6>1. Served \cup {t} = Served
            BY <5>1
          <6>. QED  BY <2>5, <4>1, <6>1, OneMore
        <5>2. CASE t \notin Served
          BY <2>5, <4>1, <5>2, OneMore
        <5>. QED  BY <5>1, <5>2
      <4>6. Cardinality(Served') <= Cardinality(Served \cup {t})
        BY <2>5, <4>1, <4>4, OneMore
      <4>. QED  BY <2>5, <4>1, <4>5, <4>6, OneMore
    <3>2. CASE \A t \in Clients : taken[t] # i
      <4>1. Served' \subseteq Served
        BY <2>4, <2>5, <3>2
      <4>2. IsFiniteSet(Served) /\ Cardinality(Served) \in Nat
        BY <2>5, BenchAssumption, FS_Subset, FS_CardinalityType
      <4>3. Cardinality(Served') <= Cardinality(Served) /\ IsFiniteSet(Served')
        BY <4>1, <4>2, FS_Subset
      <4>. QED  BY <4>2, <4>3, FS_CardinalityType
    <3>. QED  BY <3>1, <3>2
  <2>7. Cardinality(Served) \in Nat /\ Cardinality(Served') \in Nat
    BY <2>5, BenchAssumption, FS_Subset, FS_CardinalityType
  <2>. QED  BY <1>1, <1>2, <2>2, <2>3, <2>6, <2>7 DEF Counted, TypeOK
<1>. QED
  BY <1>3, <1>4 DEF EngineStep, Engine, Admit, RecordStep, Leave, TimePasses, engineVars

(* A thread counts what it has taken once, and what has been served once. *)
LEMMA ThreadKeepsCounted ==
  ASSUME TypeOK, Counted, NEW t \in Clients, ThreadStep(t) \/ Post(t)
  PROVE  Counted'
<1>. DEFINE U == Uncounted
            V == Served
<1>1. UNCHANGED completed /\ \A u \in Clients : u # t => tpc'[u] = tpc[u] /\ taken'[u] = taken[u]
  BY DEF ThreadStep, Check, Take, TakeNoMore, Count, GivesUp, Answered, Dies, Returned, Post,
         Enqueue, ThreadGoes, TypeOK, vars, engineVars
<1>2. U \in SUBSET Clients /\ U' \in SUBSET Clients /\ V \in SUBSET Clients /\ V' \in SUBSET Clients
  BY DEF Uncounted, Served
<1>3. \A u \in Clients : u # t => (u \in U' <=> u \in U) /\ (u \in V' <=> u \in V)
  BY <1>1 DEF Uncounted, Served
<1>4. /\ t \in U <=> tpc[t] \in {"send", "await", "ok", "failed", "dead"}
      /\ t \in U' <=> tpc'[t] \in {"send", "await", "ok", "failed", "dead"}
      /\ t \in V <=> tpc[t] = "ok" \/ (tpc[t] = "await" /\ taken[t] \in completed)
      /\ t \in V' <=> tpc'[t] = "ok" \/ (tpc'[t] = "await" /\ taken'[t] \in completed)
  BY <1>1 DEF Uncounted, Served
<1>. HIDE DEF U, V
<1>5. /\ Cardinality(U) \in Nat /\ Cardinality(U') \in Nat
      /\ Cardinality(V) \in Nat /\ Cardinality(V') \in Nat
      /\ Cardinality(completed') = Cardinality(completed)
  BY <1>1, <1>2, OneMore
<1>6. /\ (t \in U <=> t \in U') => Cardinality(U') = Cardinality(U)
      /\ (t \in U' /\ t \notin U) => Cardinality(U') = Cardinality(U) + 1
      /\ (t \in U /\ t \notin U') => Cardinality(U') = Cardinality(U) - 1
  <2>1. (t \in U <=> t \in U') => U' = U
    BY <1>2, <1>3
  <2>2. (t \in U' /\ t \notin U) => U' = U \cup {t}
    BY <1>2, <1>3
  <2>3. (t \in U /\ t \notin U') => U' = U \ {t}
    BY <1>2, <1>3
  <2>. QED  BY <1>2, <2>1, <2>2, <2>3, OneMore
<1>7. /\ (t \in V <=> t \in V') => Cardinality(V') = Cardinality(V)
      /\ (t \in V /\ t \notin V') => Cardinality(V') = Cardinality(V) - 1
  <2>1. (t \in V <=> t \in V') => V' = V
    BY <1>2, <1>3
  <2>2. (t \in V /\ t \notin V') => V' = V \ {t}
    BY <1>2, <1>3
  <2>. QED  BY <1>2, <2>1, <2>2, OneMore
<1>8. /\ sent = ok + failed /\ prompt_index = sent + Cardinality(U)
      /\ ok + Cardinality(V) <= Cardinality(completed)
      /\ sent \in Nat /\ ok \in Nat /\ failed \in Nat /\ prompt_index \in Nat
      /\ Cardinality(completed) \in Nat
  <2>1. Cardinality(completed) \in Nat
    BY StoreAssumption, FS_Subset, FS_CardinalityType DEF TypeOK
  <2>. QED  BY <2>1, BenchAssumption DEF Counted, U, V, TypeOK
<1>9. /\ sent' = ok' + failed' /\ prompt_index' = sent' + Cardinality(U')
      /\ ok' + Cardinality(V') <= Cardinality(completed')
  <2>1. CASE Take(t)
    <3>1. /\ tpc[t] = "take" /\ tpc'[t] = "send" /\ prompt_index' = prompt_index + 1
          /\ UNCHANGED countVars
      BY <2>1 DEF Take, TypeOK, ThreadGoes
    <3>. QED  BY <1>4, <1>5, <1>6, <1>7, <1>8, <3>1 DEF countVars
  <2>2. CASE Count(t)
    <3>1. /\ tpc[t] \in {"ok", "failed"} /\ tpc'[t] = "check" /\ UNCHANGED prompt_index
          /\ sent' = sent + 1
          /\ \/ tpc[t] = "ok" /\ ok' = ok + 1 /\ failed' = failed
             \/ tpc[t] = "failed" /\ failed' = failed + 1 /\ ok' = ok
      BY <2>2 DEF Count, TypeOK, ThreadGoes
    <3>2. t \in U /\ t \notin U' /\ t \notin V'
      BY <1>4, <3>1
    <3>3. CASE tpc[t] = "ok" /\ ok' = ok + 1 /\ failed' = failed
      <4>1. t \in V
        BY <1>4, <3>3
      <4>2. Cardinality(U') = Cardinality(U) - 1 /\ Cardinality(V') = Cardinality(V) - 1
        BY <1>6, <1>7, <3>2, <4>1
      <4>. QED  BY <1>5, <1>8, <3>1, <3>3, <4>2
    <3>4. CASE tpc[t] = "failed" /\ failed' = failed + 1 /\ ok' = ok
      <4>1. t \notin V
        BY <1>4, <3>4
      <4>2. Cardinality(U') = Cardinality(U) - 1 /\ Cardinality(V') = Cardinality(V)
        BY <1>6, <1>7, <3>2, <4>1
      <4>. QED  BY <1>5, <1>8, <3>1, <3>4, <4>2
    <3>. QED  BY <3>1, <3>3, <3>4
  <2>3. CASE Check(t) \/ TakeNoMore(t)
    <3>1. /\ tpc[t] \in {"check", "take"} /\ tpc'[t] \in {"take", "done"}
          /\ UNCHANGED <<prompt_index, countVars>>
      BY <2>3 DEF Check, TakeNoMore, TypeOK, ThreadGoes
    <3>. QED  BY <1>4, <1>5, <1>6, <1>7, <1>8, <3>1 DEF countVars
  <2>4. CASE GivesUp(t) \/ Dies(t)
    <3>1. /\ tpc[t] \in {"send", "await"} /\ tpc'[t] \in {"failed", "dead"}
          /\ UNCHANGED <<prompt_index, countVars>>
      BY <2>4 DEF GivesUp, Dies, Returned, TypeOK, ThreadGoes
    <3>2. t \in U /\ t \in U' /\ t \notin V'
      BY <1>4, <3>1
    <3>3. Cardinality(U') = Cardinality(U) /\ Cardinality(V') <= Cardinality(V)
      BY <1>5, <1>6, <1>7, <3>2
    <3>. QED  BY <1>5, <1>8, <3>1, <3>3 DEF countVars
  <2>5. CASE Answered(t)
    <3>1. /\ tpc[t] = "await" /\ taken[t] \in completed /\ tpc'[t] = "ok"
          /\ UNCHANGED <<prompt_index, countVars>>
      BY <2>5 DEF Answered, Returned, TypeOK, ThreadGoes
    <3>. QED  BY <1>4, <1>5, <1>6, <1>7, <1>8, <3>1 DEF countVars
  <2>6. CASE Post(t)
    <3>1. /\ tpc[t] = "send" /\ tpc'[t] = "await" /\ taken' = taken /\ taken[t] \notin completed
          /\ UNCHANGED <<prompt_index, countVars>>
      BY <2>6 DEF Post, Enqueue, TypeOK, ThreadGoes
    <3>. QED  BY <1>4, <1>5, <1>6, <1>7, <1>8, <3>1 DEF countVars
  <2>. QED  BY <2>1, <2>2, <2>3, <2>4, <2>5, <2>6 DEF ThreadStep
<1>. QED  BY <1>9 DEF Counted, U, V

(* No thread is left when the metrics are read. *)
LEMMA ReaderKeepsFetchLast ==
  ASSUME TypeOK, StoreInv, RInv,
         NEW d \in Readers, ReaderStep(d), d = "bench" => joined /\ ~Again(d)
  PROVE  FetchLast'
<1>1. UNCHANGED <<joined, tpc, ok, failed>>
  BY DEF ReaderStep, benchVars, countVars, threadVars
<1>2. CASE d # "bench"
  <2>1. rpc'["bench"] = rpc["bench"] /\ view'["bench"] = view["bench"]
    BY <1>2, BenchAssumption DEF TypeOK, ReaderStep, Snapshot, CountQueues, CountRunning,
       CountWaiting, Sample, Rates, Totals, Copied, CopyRaises, CopyEnds, Again, ReaderGoes
  <2>. QED  BY <1>1, <2>1 DEF RInv, FetchLast, Over, Dead
<1>3. CASE d = "bench"
  <2>1. joined
    BY <1>3
  <2>2. CASE Totals(d)
    <3>1. view'["bench"].completed = total_completed
      BY <1>3, <2>2 DEF Totals, TypeOK
    <3>2. Uncounted = Dead
      BY <2>1 DEF RInv, FetchLast, Over, Uncounted, Dead
    <3>3. /\ Cardinality(completed) <= prompt_index
          /\ Cardinality(completed) \in Nat
      <4>1. prompt_index \in Nat /\ IsFiniteSet(1 .. prompt_index)
        BY BenchAssumption, StoreAssumption, FS_Interval DEF TypeOK
      <4>2. Cardinality(1 .. prompt_index) = prompt_index
        <5>1. prompt_index \in Int /\ 1 \in Int
          BY <4>1
        <5>2. Cardinality(1 .. prompt_index)
                = IF 1 > prompt_index THEN 0 ELSE prompt_index - 1 + 1
          BY ONLY <5>1, FS_Interval, Zenon
        <5>. QED  BY <4>1, <5>2
      <4>3. completed \in SUBSET (1 .. prompt_index)
        BY DEF RInv, OneThread
      <4>. QED  BY <4>1, <4>2, <4>3, FS_Subset, FS_CardinalityType
    <3>4. Cardinality(Served) \in Nat
      BY BenchAssumption, FS_Subset, FS_CardinalityType DEF Served
    <3>5. ok <= total_completed /\ total_completed <= ok + failed + Cardinality(Dead)
      BY <3>2, <3>3, <3>4 DEF StoreInv, RInv, Counted, TypeOK
    <3>. QED  BY <1>1, <2>1, <3>1, <3>5 DEF RInv, FetchLast, Over, Dead
  <2>3. CASE Copied(d) \/ CopyRaises(d)
    <3>1. rpc["bench"] = "copy" /\ UNCHANGED view
      BY <1>3, <2>3 DEF Copied, CopyRaises, CopyEnds
    <3>. QED  BY <1>1, <2>1, <3>1 DEF RInv, FetchLast, Over, Dead
  <2>4. CASE CountQueues(d) \/ Sample(d) \/ Rates(d)
    <3>1. rpc'["bench"] \in {"queue", "sample", "rates", "totals"}
      BY <1>3, <2>4, BenchAssumption
      DEF CountQueues, CountRunning, CountWaiting, Sample, Rates, ReaderGoes, TypeOK
    <3>. QED  BY <1>1, <2>1, <3>1 DEF RInv, FetchLast, Over
  <2>. QED  BY <1>3, <2>2, <2>3, <2>4 DEF ReaderStep, Snapshot
<1>. QED  BY <1>2, <1>3

(* Every step leaves the counts of threads and server in agreement. *)
LEMMA ReportKept ==
  TypeOK /\ BusyHasTaken /\ QInv /\ StoreInv /\ RInv /\ [BenchNext]_allVars => RInv'
<1>. SUFFICES ASSUME TypeOK, BusyHasTaken, QInv, StoreInv, RInv, [BenchNext]_allVars PROVE RInv'
  OBVIOUS
<1>. USE DEF RInv
<1>1. ASSUME UNCHANGED <<engineVars, prompt_index, countVars, threadVars>>
      PROVE  OneThread' /\ Counted'
  BY <1>1 DEF OneThread, Counted, Uncounted, Served, engineVars, countVars, threadVars
<1>2. ASSUME UNCHANGED <<countVars, threadVars, joined, readerVars>> \/ UNCHANGED allVars
      PROVE  FetchLast'
  <2>. UNCHANGED <<ok, failed, tpc, joined, rpc, view>>
    BY <1>2 DEF countVars, threadVars, readerVars, allVars, vars, benchVars
  <2>. QED  BY DEF FetchLast, Over, Dead
<1>3. CASE UNCHANGED allVars
  BY <1>1, <1>2, <1>3 DEF allVars, vars, benchVars
<1>4. CASE EngineStep
  <2>1. UNCHANGED <<countVars, threadVars, joined, rpc, view>>
    BY <1>4 DEF EngineStep, Engine, Admit, RecordStep, Leave, RecordCompletion, TimePasses,
       benchVars, readerVars
  <2>2. FetchLast'
    BY <2>1 DEF FetchLast, Over, Dead, countVars, threadVars
  <2>. QED  BY <1>4, <2>2, ServerKeepsOneThread, ServerKeepsCounted
<1>5. ASSUME NEW d \in Readers, ReaderStep(d), d = "bench" => joined /\ ~Again(d)
      PROVE  RInv'
  <2>1. UNCHANGED <<engineVars, benchVars>>
    BY <1>5 DEF ReaderStep, Snapshot, CountQueues, CountRunning, CountWaiting, Sample, Rates,
       Totals, Copied, CopyRaises, CopyEnds, Again
  <2>. QED  BY <1>1, <1>5, <2>1, ReaderKeepsFetchLast DEF benchVars
<1>6. ASSUME NEW t \in Clients, ThreadStep(t) \/ Post(t) PROVE RInv'
  <2>1. ~Over(t) /\ UNCHANGED <<joined, rpc>>
    BY <1>6 DEF ThreadStep, Post, Enqueue, Check, Take, TakeNoMore, Count, GivesUp, Answered,
       Dies, Returned, Over, vars, readerVars
  <2>2. FetchLast'
    BY <2>1 DEF FetchLast
  <2>. QED  BY <1>6, <2>2, ThreadKeepsOneThread, ThreadKeepsCounted
<1>7. CASE RunStep
  <2>1. UNCHANGED <<vars, prompt_index, countVars, threadVars>> /\ (joined' # joined => Join)
    BY <1>7 DEF RunStep, TimeIsOver, Join
  <2>2. FetchLast'
    BY <2>1 DEF FetchLast, Join, Over, Dead, vars, readerVars, countVars, threadVars, TypeOK
  <2>. QED  BY <1>1, <2>1, <2>2 DEF vars
<1>. QED  BY <1>3, <1>4, <1>5, <1>6, <1>7, Steps

-----------------------------------------------------------------------------
(* The theorems *)

(* The inductive invariant. *)
IInv == TypeOK /\ BusyHasTaken /\ QInv /\ StoreInv /\ RInv

(* It holds before anything has been sent or read. *)
LEMMA InitEstablishes == BenchInit => IInv
<1>. SUFFICES ASSUME BenchInit PROVE IInv
  OBVIOUS
<1>. USE BenchAssumption, StoreAssumption, FS_EmptySet DEF BenchInit, Init, Nothing
<1>1. TypeOK /\ BusyHasTaken
  <2>1. waiting \in Seq(Requests) /\ completion_timestamps \in Seq(Requests)
    OBVIOUS
  <2>2. age \in [Requests -> 0 .. Window + 1]
    OBVIOUS
  <2>3. /\ rpc \in [Readers -> {"idle", "queue", "sample", "rates", "totals", "copy", "ok", "error"}]
        /\ view \in [Readers -> [active : SUBSET Requests, queued : SUBSET Requests,
                                 completed : Nat]]
    OBVIOUS
  <2>4. /\ tpc \in [Clients -> {"check", "take", "send", "await", "ok", "failed", "done", "dead"}]
        /\ taken \in [Clients -> 0 .. MaxPrompts]
    OBVIOUS
  <2>5. prompt_index \in 0 .. MaxPrompts
    OBVIOUS
  <2>. QED  BY <2>1, <2>2, <2>3, <2>4, <2>5 DEF TypeOK, BusyHasTaken, Busy
<1>2. ToSet(waiting) = {} /\ Len(waiting) = 0
  BY DEF ToSet
<1>3. OneQueue
  BY <1>2 DEF OneQueue
<1>4. ASSUME NEW d \in Readers PROVE ViewOK(d)
  <2>1. view[d].active = {}
    OBVIOUS
  <2>2. Cardinality(view[d].active) <= MaxConcurrent
    <3>1. Cardinality(view[d].active) = 0
      BY ONLY <2>1, FS_EmptySet
    <3>. QED  BY ONLY <3>1, StoreAssumption
  <2>. QED  BY <2>1, <2>2 DEF ViewOK
<1>5. StoreInv
  BY DEF StoreInv
<1>6. OneThread
  BY <1>2 DEF OneThread
<1>7. Counted
  <2>1. Uncounted = {} /\ Served = {}
    BY DEF Uncounted, Served
  <2>. QED  BY <2>1 DEF Counted
<1>8. FetchLast
  BY DEF FetchLast
<1>. QED  BY <1>1, <1>3, <1>4, <1>5, <1>6, <1>7, <1>8 DEF IInv, QInv, RInv

(* It holds of the load test and of everybody who reads meanwhile. *)
THEOREM BenchInvariance == BenchSpec => []IInv
<1>1. IInv /\ [BenchNext]_allVars => IInv'
  BY TypeKept, BusyKept, QueuesKept, StoreKept, ReportKept DEF IInv
<1>. QED  BY <1>1, InitEstablishes, PTL DEF BenchSpec

(* No snapshot counts a request twice, nor more active ones than there are
   slots, whoever reads while the engine goes on. *)
THEOREM SnapshotsCountOnce == BenchSpec => []SnapshotCountsOnce
<1>1. IInv => SnapshotCountsOnce
  BY DEF IInv, QInv, ViewOK, SnapshotCountsOnce
<1>. QED  BY <1>1, BenchInvariance, PTL

(* The completions in the window are counted right up to the length of the
   deque of timestamps, for any length and window. *)
THEOREM RatesSaturate == BenchSpec => []RateSaturates
<1>1. IInv => RateSaturates
  BY StoreSaturates DEF IInv
<1>. QED  BY <1>1, BenchInvariance, PTL

(* The benchmark's counts add up, with each other and with the server's,
   whatever threads give up on or die over. *)
THEOREM ReportsAddUp == BenchSpec => []ReportAddsUp
<1>1. IInv => ReportAddsUp
  <2>. SUFFICES ASSUME IInv PROVE ReportAddsUp
    OBVIOUS
  <2>1. Cardinality(Served) \in Nat /\ Cardinality(completed) \in Nat
    BY BenchAssumption, StoreAssumption, FS_Subset, FS_CardinalityType DEF Served, IInv, TypeOK
  <2>2. ok <= total_completed
    BY <2>1 DEF IInv, RInv, Counted, StoreInv, TypeOK
  <2>. QED  BY <2>2 DEF IInv, RInv, Counted, FetchLast, ReportAddsUp
<1>. QED  BY <1>1, BenchInvariance, PTL
=============================================================================
