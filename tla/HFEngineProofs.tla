--------------------------- MODULE HFEngineProofs ---------------------------
(***************************************************************************)
(* Proofs about the engine on the Hugging Face backend and about what its  *)
(* metrics count, for any number of requests and slots, any prompts, chunk *)
(* sizes and budgets, any block size and any limit on the prefix cache.    *)
(* What is proved of the scheduler alone is used through SP; the rest is   *)
(* one inductive invariant: which rows a step runs, how far each has been  *)
(* fed, and what the copies of the prefix cache are.                       *)
(***************************************************************************)
EXTENDS EngineMetrics, FiniteSetTheorems, SequenceTheorems, TLAPS

SP == INSTANCE SchedulerProofs WITH PromptLen <- [r \in Requests |-> Len(Prompt[r])],
                                    MaxSlots <- BatchSize

Slots == 0 .. BatchSize - 1
KV == Seq(Token \cup {Sampled})

-----------------------------------------------------------------------------
(* The assumptions of the scheduler hold of the engine's constants. *)

LEMMA PromptLengths ==
  ASSUME NEW r \in Requests
  PROVE  /\ Prompt[r] \in Seq(Token)
         /\ Len(Prompt[r]) \in Nat \ {0}
BY RequestsAssumption, EmptySeq, LenProperties

LEMMA Assumptions == SP!RequestsAssumption /\ SP!LimitsAssumption
<1>1. SP!RequestsAssumption
  BY RequestsAssumption, PromptLengths DEF SP!RequestsAssumption, SP!IsFiniteSet, IsFiniteSet
<1>2. SP!LimitsAssumption
  BY SettingsAssumption DEF SP!LimitsAssumption
<1>. QED  BY <1>1, <1>2

-----------------------------------------------------------------------------
(* An operation of the scheduler is the same under S and under SP. *)

LEMMA SameSchedule == S!Schedule <=> SP!Schedule
BY DEF S!Schedule, SP!Schedule, S!BetweenSteps, SP!BetweenSteps, S!HasWork, SP!HasWork,
       S!AssignWaitingToSlots, SP!AssignWaitingToSlots, S!AdmitCount, SP!AdmitCount,
       S!SlotAfterAssign, SP!SlotAfterAssign, S!DecodeRows, SP!DecodeRows,
       S!PrefillRows, SP!PrefillRows, S!ChunkTokens, SP!ChunkTokens,
       S!limitVars, SP!limitVars, S!Cardinality, SP!Cardinality

LEMMA SameInit == S!Init <=> SP!Init
BY DEF S!Init, SP!Init, S!NoSlot, SP!NoSlot

LEMMA SameAddRequest ==
  ASSUME NEW r, NEW chunk
  PROVE  S!AddRequest(r, chunk) <=> SP!AddRequest(r, chunk)
BY DEF S!AddRequest, SP!AddRequest, S!BetweenSteps, SP!BetweenSteps, S!limitVars, SP!limitVars,
       S!batchVars, SP!batchVars

LEMMA SameAdvance ==
  ASSUME NEW r, NEW n
  PROVE  S!AdvancePrefill(r, n) <=> SP!AdvancePrefill(r, n)
BY DEF S!AdvancePrefill, SP!AdvancePrefill, S!limitVars, SP!limitVars, S!placeVars, SP!placeVars

LEMMA SamePrefillDone ==
  ASSUME NEW r
  PROVE  S!MarkPrefillDone(r) <=> SP!MarkPrefillDone(r)
BY DEF S!MarkPrefillDone, SP!MarkPrefillDone, S!limitVars, SP!limitVars, S!placeVars,
       SP!placeVars, S!batchVars, SP!batchVars

LEMMA SameLeave ==
  ASSUME NEW r
  PROVE  S!LeaveRunning(r) <=> SP!LeaveRunning(r)
BY DEF S!LeaveRunning, SP!LeaveRunning, S!RemoveAt, SP!RemoveAt, S!NoSlot, SP!NoSlot

LEMMA SameDecodeDone ==
  ASSUME NEW r
  PROVE  S!MarkDecodeDone(r) <=> SP!MarkDecodeDone(r)
BY SameLeave DEF S!MarkDecodeDone, SP!MarkDecodeDone, S!limitVars, SP!limitVars

LEMMA SameCancel ==
  ASSUME NEW r
  PROVE  S!CancelRequest(r) <=> SP!CancelRequest(r)
BY SameLeave DEF S!CancelRequest, SP!CancelRequest, S!CancelWaiting, SP!CancelWaiting,
       S!CancelRunning, SP!CancelRunning, S!CancelUnknown, SP!CancelUnknown,
       S!BetweenSteps, SP!BetweenSteps, S!limitVars, SP!limitVars, S!batchVars, SP!batchVars,
       S!ToSet, SP!ToSet, S!RemoveAt, SP!RemoveAt

LEMMA SameSchedulerInvariants ==
  /\ S!TypeOK <=> SP!TypeOK
  /\ S!SlotPartition <=> SP!SlotPartition
  /\ S!OnePlace <=> SP!OnePlace
<1>1. S!TypeOK <=> SP!TypeOK
  BY DEF S!TypeOK, SP!TypeOK, S!RequestStates, SP!RequestStates, S!NoSlot, SP!NoSlot
<1>2. S!SlotPartition <=> SP!SlotPartition
  BY DEF S!SlotPartition, SP!SlotPartition, S!IsInjective, SP!IsInjective, S!ToSet, SP!ToSet
<1>3. S!OnePlace <=> SP!OnePlace
  BY DEF S!OnePlace, SP!OnePlace, S!ToSet, SP!ToSet, S!IsInjective, SP!IsInjective, S!NoSlot,
         SP!NoSlot
<1>. QED  BY <1>1, <1>2, <1>3

-----------------------------------------------------------------------------
(* What is used of the scheduler's invariant, in the engine's terms. *)

SchedulerBooks ==
  /\ max_concurrent_requests \in 1..BatchSize /\ max_tokens_per_step \in Budgets
  /\ waiting \in Seq(Requests) /\ running \in Seq(Requests) /\ IsInjective(running)
  /\ completed \subseteq Requests /\ failed \subseteq Requests /\ completed \cap failed = {}
  /\ state \in [Requests -> {"new", "waiting", "prefill", "decode", "finished"}]
  /\ batch_idx \in [Requests -> Nat \cup {-1}]
  /\ prefill_offset \in [Requests -> Nat]
  /\ prefill_chunk_size \in [Requests -> Chunks]
  /\ num_generated \in [Requests -> Nat]
  /\ prefill_requests \subseteq Requests /\ decode_requests \subseteq Requests
  /\ \A r \in Requests :
       /\ r \in ToSet(waiting) <=> state[r] = "waiting"
       /\ r \in ToSet(running) <=> state[r] \in {"prefill", "decode"}
       /\ r \in completed \cup failed <=> state[r] = "finished"
       /\ r \notin ToSet(running) => batch_idx[r] = -1
  /\ \A r \in ToSet(running) : r \in Requests /\ batch_idx[r] \in Slots
  /\ \A r, t \in ToSet(running) : batch_idx[r] = batch_idx[t] => r = t

LEMMA SchedulerKnown == SP!IInv => SchedulerBooks
<1>. SUFFICES ASSUME SP!IInv PROVE SchedulerBooks
  OBVIOUS
<1>1. SP!TypeOK /\ SP!OnePlace /\ SP!SlotPartition
  BY DEF SP!IInv
<1>2. /\ max_concurrent_requests \in 1..BatchSize /\ max_tokens_per_step \in Budgets
      /\ waiting \in Seq(Requests) /\ running \in Seq(Requests)
      /\ completed \subseteq Requests /\ failed \subseteq Requests
      /\ state \in [Requests -> {"new", "waiting", "prefill", "decode", "finished"}]
      /\ batch_idx \in [Requests -> Nat \cup {-1}]
      /\ prefill_offset \in [Requests -> Nat]
      /\ prefill_chunk_size \in [Requests -> Chunks]
      /\ num_generated \in [Requests -> Nat]
      /\ prefill_requests \subseteq Requests /\ decode_requests \subseteq Requests
  BY <1>1 DEF SP!TypeOK, SP!RequestStates, SP!NoSlot
<1>3. /\ IsInjective(running) /\ completed \cap failed = {}
      /\ \A r \in Requests :
           /\ r \in ToSet(waiting) <=> state[r] = "waiting"
           /\ r \in ToSet(running) <=> state[r] \in {"prefill", "decode"}
           /\ r \in completed \cup failed <=> state[r] = "finished"
           /\ r \notin ToSet(running) => batch_idx[r] = -1
  BY <1>1 DEF SP!OnePlace, SP!ToSet, ToSet, SP!IsInjective, IsInjective, SP!NoSlot
<1>4. \A r \in ToSet(running) : r \in Requests
  BY <1>2, LenProperties, ElementOfSeq DEF ToSet
<1>5. /\ \A r \in ToSet(running) : batch_idx[r] \in 0..(max_concurrent_requests - 1)
      /\ \A r, t \in ToSet(running) : batch_idx[r] = batch_idx[t] => r = t
  BY <1>1 DEF SP!SlotPartition, SP!ToSet, ToSet
<1>6. \A r \in ToSet(running) : batch_idx[r] \in Slots
  BY <1>2, <1>5, SettingsAssumption DEF Slots
<1>. QED  BY <1>2, <1>3, <1>4, <1>5, <1>6 DEF SchedulerBooks

LEMMA SchedulerKnownNext == SP!IInv' => SchedulerBooks'
BY SchedulerKnown, PTL

(* A scheduler whose variables stay keeps its invariant. *)
LEMMA SchedulerStays == ASSUME SP!IInv, UNCHANGED schedulerVars PROVE SP!IInv'
<1>1. UNCHANGED SP!vars
  BY DEF schedulerVars, SP!vars, SP!limitVars, SP!placeVars, SP!batchVars
<1>. QED  BY <1>1, Assumptions, SP!NextKeeps

-----------------------------------------------------------------------------
(* The rows of a batch: the members of R, each once, in the order of q. *)

Pick(q, R, g, i) ==
  IF i = 0 THEN <<>> ELSE IF q[i] \in R THEN Append(g[i - 1], q[i]) ELSE g[i - 1]
PicksTo(q, R, g, k) ==
  g \in [0..k -> Seq(Requests)] /\ \A i \in 0..k : g[i] = Pick(q, R, g, i)
Picks(q, R, g) == g = [i \in 0..Len(q) |-> Pick(q, R, g, i)]

LEMMA PicksExist == ASSUME NEW q \in Seq(Requests), NEW R PROVE \E g : Picks(q, R, g)
<1>. DEFINE T == {k \in 0..Len(q) : \E g : PicksTo(q, R, g, k)}
<1>1. Len(q) \in Nat /\ \A i \in 1..Len(q) : q[i] \in Requests
  BY LenProperties, ElementOfSeq
<1>2. 0 \in T
  <2>. DEFINE g == [i \in 0..0 |-> <<>>]
  <2>1. PicksTo(q, R, g, 0)
    BY EmptySeq DEF PicksTo, Pick
  <2>. QED  BY <1>1, <2>1
<1>3. ASSUME NEW k \in 0..(Len(q) - 1), k \in T PROVE k + 1 \in T
  <2>1. PICK g : PicksTo(q, R, g, k)
    BY <1>3
  <2>2. k \in Nat /\ k + 1 \in 1..Len(q)
    BY <1>1
  <2>. DEFINE h == [i \in 0..(k + 1) |-> IF i <= k THEN g[i] ELSE Pick(q, R, g, i)]
  <2>3. h \in [0..(k + 1) -> Seq(Requests)]
    <3>1. g[k] \in Seq(Requests) /\ Pick(q, R, g, k + 1) \in Seq(Requests)
      BY <1>1, <2>1, <2>2 DEF Pick, PicksTo
    <3>2. ASSUME NEW i \in 0..(k + 1) PROVE h[i] \in Seq(Requests)
      <4>1. CASE i <= k
        BY <2>1, <2>2, <4>1 DEF PicksTo
      <4>2. CASE i = k + 1
        BY <2>2, <3>1, <4>2
      <4>. QED  BY <2>2, <4>1, <4>2
    <3>. QED  BY <3>2
  <2>4. ASSUME NEW i \in 0..(k + 1) PROVE h[i] = Pick(q, R, h, i)
    <3>1. i # 0 => i - 1 \in 0..k /\ h[i - 1] = g[i - 1]
      BY <2>2
    <3>2. Pick(q, R, h, i) = Pick(q, R, g, i)
      BY <3>1 DEF Pick
    <3>3. h[i] = IF i <= k THEN g[i] ELSE Pick(q, R, g, i)
      OBVIOUS
    <3>. HIDE DEF h
    <3>4. i <= k => g[i] = Pick(q, R, g, i)
      BY <2>1, <2>2 DEF PicksTo
    <3>. QED  BY <3>2, <3>3, <3>4
  <2>5. PicksTo(q, R, h, k + 1)
    BY <2>3, <2>4 DEF PicksTo
  <2>. QED  BY <2>2, <2>5
<1>4. Len(q) \in T
  <2>. HIDE DEF T
  <2>1. \A k \in 0..Len(q) : k \in T
    BY <1>1, <1>2, <1>3, Assumptions, SP!UpTo
  <2>. QED  BY <1>1, <2>1
<1>5. PICK g : PicksTo(q, R, g, Len(q))
  BY <1>4
<1>6. Picks(q, R, g)
  BY <1>5 DEF PicksTo, Picks
<1>. QED  BY <1>6

LEMMA AppendNew ==
  ASSUME NEW q \in Seq(Requests), IsInjective(q), NEW r \in Requests, r \notin ToSet(q)
  PROVE  /\ Append(q, r) \in Seq(Requests)
         /\ IsInjective(Append(q, r))
         /\ ToSet(Append(q, r)) = ToSet(q) \cup {r}
<1>1. SP!IsInjective(q) /\ r \notin SP!ToSet(q)
  BY DEF SP!IsInjective, IsInjective, SP!ToSet, ToSet
<1>2. /\ Append(q, r) \in Seq(Requests)
      /\ SP!IsInjective(Append(q, r))
      /\ SP!ToSet(Append(q, r)) = SP!ToSet(q) \cup {r}
  BY <1>1, Assumptions, SP!AppendMember
<1>. QED  BY <1>2 DEF SP!IsInjective, IsInjective, SP!ToSet, ToSet

LEMMA InOrderRows ==
  ASSUME NEW q \in Seq(Requests), IsInjective(q), NEW R
  PROVE  /\ InOrder(q, R) \in Seq(Requests)
         /\ IsInjective(InOrder(q, R))
         /\ ToSet(InOrder(q, R)) = ToSet(q) \cap R
<1>. DEFINE g == CHOOSE g : Picks(q, R, g)
            T == {i \in 0..Len(q) : /\ g[i] \in Seq(Requests) /\ IsInjective(g[i])
                                    /\ ToSet(g[i]) = {q[j] : j \in 1..i} \cap R}
<1>1. Len(q) \in Nat /\ DOMAIN q = 1..Len(q) /\ \A i \in 1..Len(q) : q[i] \in Requests
  BY LenProperties, ElementOfSeq
<1>2. InOrder(q, R) = g[Len(q)]
  BY DEF InOrder, Picks, Pick
<1>3. Picks(q, R, g)
  BY PicksExist
<1>. HIDE DEF g
<1>4. ASSUME NEW i \in 0..Len(q) PROVE g[i] = Pick(q, R, g, i)
  BY <1>3 DEF Picks
<1>5. 0 \in T
  <2>1. <<>> \in Seq(Requests) /\ IsInjective(<<>>) /\ ToSet(<<>>) = {}
    BY EmptySeq DEF ToSet, IsInjective
  <2>2. {q[j] : j \in 1..0} = {}
    OBVIOUS
  <2>3. 0 \in 0..Len(q)
    BY <1>1
  <2>4. g[0] = <<>>
    BY <1>4, <2>3 DEF Pick
  <2>5. ToSet(g[0]) = {q[j] : j \in 1..0} \cap R
    BY <2>1, <2>2, <2>4
  <2>. QED  BY <2>1, <2>3, <2>4, <2>5
<1>6. ASSUME NEW k \in 0..(Len(q) - 1), k \in T PROVE k + 1 \in T
  <2>1. k + 1 \in 1..Len(q) /\ k + 1 \in 0..Len(q) /\ (k + 1) - 1 = k /\ k + 1 # 0
    BY <1>1
  <2>2. {q[j] : j \in 1..(k + 1)} = {q[j] : j \in 1..k} \cup {q[k + 1]}
    BY <2>1
  <2>3. g[k + 1] = IF q[k + 1] \in R THEN Append(g[k], q[k + 1]) ELSE g[k]
    BY <1>4, <2>1 DEF Pick
  <2>4. CASE q[k + 1] \in R
    <3>1. q[k + 1] \notin ToSet(g[k])
      <4>1. ASSUME NEW j \in 1..k, q[j] = q[k + 1] PROVE FALSE
        BY <1>1, <2>1, <4>1 DEF IsInjective
      <4>. QED  BY <1>6, <4>1
    <3>2. g[k] \in Seq(Requests) /\ IsInjective(g[k]) /\ q[k + 1] \in Requests
      BY <1>1, <1>6, <2>1
    <3>3. /\ g[k + 1] \in Seq(Requests)
          /\ IsInjective(g[k + 1])
          /\ ToSet(g[k + 1]) = ToSet(g[k]) \cup {q[k + 1]}
      BY <2>3, <2>4, <3>1, <3>2, AppendNew
    <3>4. ToSet(g[k + 1]) = {q[j] : j \in 1..(k + 1)} \cap R
      BY <1>6, <2>2, <2>4, <3>3
    <3>. QED  BY <2>1, <3>3, <3>4
  <2>5. CASE q[k + 1] \notin R
    BY <1>6, <2>1, <2>2, <2>3, <2>5
  <2>. QED  BY <2>4, <2>5
<1>7. Len(q) \in T
  <2>. HIDE DEF T
  <2>1. \A k \in 0..Len(q) : k \in T
    BY <1>1, <1>5, <1>6, Assumptions, SP!UpTo
  <2>. QED  BY <1>1, <2>1
<1>8. ToSet(q) = {q[j] : j \in 1..Len(q)}
  BY <1>1 DEF ToSet
<1>. QED  BY <1>2, <1>7, <1>8

-----------------------------------------------------------------------------
(* The inductive invariant.  The properties speak of the past of a slot, of
   the copies of its blocks and of what makes a step raise; for these to stay
   true the invariant says which requests the rows of a step are, which of
   them have looked up their prefix, how far each has been fed and what a
   lookup or an insert has established on its way. *)

Engaged == {"prepare", "load", "forward", "advance"}
Reporting == {"report", "insert", "token"}

StepTyped ==
  /\ slot_prepared \in [Requests -> BOOLEAN]
  /\ pc \in {"idle", "raised"} \cup Engaged \cup Reporting
  /\ rows \in Seq(Requests)
  /\ at \in 1..(Len(rows) + 1)

(* The rows still to be worked on are running requests, each once. *)
RowsRun ==
  /\ IsInjective(rows)
  /\ \A i \in DOMAIN rows :
       pc \in Engaged \/ (pc \in Reporting /\ i >= at) => rows[i] \in ToSet(running)

(* A batch is of one kind, and a prefill row stays one until its turn to be
   reported. *)
Batches ==
  /\ \A r \in decode_requests : state[r] = "decode" /\ r \notin prefill_requests
  /\ \A i \in DOMAIN rows :
       /\ pc \in {"prepare", "load", "advance"} => IsPrefill(rows[i])
       /\ pc \in {"report", "insert"} /\ i >= at => IsPrefill(rows[i])
  /\ pc = "forward" =>
       \/ \A i \in DOMAIN rows : IsPrefill(rows[i])
       \/ \A i \in DOMAIN rows : rows[i] \in decode_requests
  /\ pc = "token" =>
       \/ /\ at \in DOMAIN rows /\ Row \in prefill_requests
          /\ \A i \in DOMAIN rows : i > at => IsPrefill(rows[i])
       \/ \A i \in DOMAIN rows : i >= at => rows[i] \in decode_requests

OffsetsFit ==
  \A r \in Requests :
    /\ prefill_offset[r] <= Len(Prompt[r])
    /\ state[r] \in {"new", "waiting"} => prefill_offset[r] = 0

(* Who has looked up its prefix: not a request that waits, and every row by
   the time the model runs. *)
LookedUp ==
  /\ \A r \in Requests :
       /\ ~slot_prepared[r] => prefill_offset[r] = 0 /\ state[r] # "decode"
       /\ state[r] \in {"new", "waiting"} => ~slot_prepared[r]
  /\ \A i \in DOMAIN rows :
       \/ pc \in {"prepare", "load"} /\ i < at
       \/ pc \in {"forward", "advance"} \cup Reporting
       => slot_prepared[rows[i]]
  /\ pc = "load" => ~slot_prepared[Row]

(* Row i has been moved on, or is still to be reported. *)
Moved(i) ==
  \/ pc = "advance" /\ i < at
  \/ pc \in Reporting /\ i >= at

(* A request in prefill has prompt tokens left, unless it is one of these. *)
PromptLeft ==
  \A r \in Requests : state[r] = "prefill" =>
    \/ prefill_offset[r] < Len(Prompt[r])
    \/ r \in prefill_requests /\ \E i \in DOMAIN rows : rows[i] = r /\ Moved(i)

(* A prefill row still to be reported has its prompt read to the end. *)
PromptsRead ==
  \A i \in DOMAIN rows :
    Moved(i) /\ IsPrefill(rows[i]) /\ rows[i] \in prefill_requests
    => prefill_offset[rows[i]] = Len(Prompt[rows[i]])

(* The first token is due to the row whose prompt has just been registered;
   a request that decodes otherwise has some of its tokens and not all. *)
FirstDue(r) == pc = "token" /\ at \in DOMAIN rows /\ Row = r /\ r \in prefill_requests
Counted ==
  \A r \in Requests :
    /\ state[r] \in {"new", "waiting", "prefill"} => num_generated[r] = 0
    /\ state[r] = "decode" => IF FirstDue(r) THEN num_generated[r] = 0
                              ELSE num_generated[r] \in 1 .. MaxNew[r] - 1

StepInv == /\ StepTyped /\ RowsRun /\ Batches /\ OffsetsFit /\ LookedUp /\ PromptLeft
           /\ PromptsRead /\ Counted

(* The slots; an exception may leave a past longer than pos says. *)
SlotsTyped ==
  /\ past \in [Slots -> Seq(KV)] /\ pos \in [Slots -> 0 .. MaxSeqLen]
  /\ pc # "raised" => \A s \in Slots : pos[s] = Len(past[s])

(* Row i has been fed to the model, and its cursor has not moved yet. *)
Fed(i) ==
  \/ pc = "forward" /\ i < at
  \/ pc = "advance" /\ i >= at
  \/ pc = "token" /\ i >= at /\ ~IsPrefill(rows[i])
ValidLen(r) == IF IsPrefill(r) THEN S!ChunkTokens(r) ELSE 1
IsFed(r) == \E i \in DOMAIN rows : rows[i] = r /\ Fed(i)
Reach(r) == Cursor(r) + IF IsFed(r) THEN ValidLen(r) ELSE 0

(* The past of a running request is its history, as far as it has been fed. *)
HasPast(r) ==
  Len(past[batch_idx[r]]) = Reach(r) /\ Attended(r, past[batch_idx[r]])
PastRight ==
  pc # "raised" => \A r \in ToSet(running) : slot_prepared[r] => HasPast(r)

CopyOf(k) == [j \in 1 .. BlockSize |-> SubSeq(k, 1, Len(k) - BlockSize + j)]

(* Entries are short enough for any slot, true to their keys, and all of the
   LRU order. *)
EntriesRight ==
  /\ IsFiniteSet(DOMAIN entries)
  /\ \A k \in DOMAIN entries : k \in C!Keys /\ Len(k) <= MaxSeqLen /\ entries[k] = CopyOf(k)
  /\ lru \in Seq(DOMAIN entries) /\ IsInjective(lru) /\ ToSet(lru) = DOMAIN entries
  /\ Len(lru) <= MaxEntries
  /\ memory = Len(lru) * BlockSize

(* A lookup or an insert is for the row the step is at.  A lookup has found
   every block so far and leaves a token to prefill; an insert stays within
   the past. *)
CallRight ==
  call # C!Idle =>
    /\ EnablePrefixCache
    /\ pc = IF call.op = "lookup" THEN "load" ELSE "insert"
    /\ at \in DOMAIN rows
    /\ call.op \in {"lookup", "insert"} /\ call.next \in Nat \ {0}
    /\ call = [op |-> call.op, slot |-> RowSlot, tokens |-> Prompt[Row], next |-> call.next]
    /\ call.op = "lookup" =>
         /\ call.next - 1 <= C!MaxFullBlocks(Prompt[Row])
         /\ \A i \in 1 .. call.next - 1 : C!Key(Prompt[Row], i) \in DOMAIN entries
    /\ call.op = "insert" => call.next <= C!InsertBlocks(RowSlot, Prompt[Row])

CacheInv == SlotsTyped /\ PastRight /\ EntriesRight /\ CallRight

IInv == SP!IInv /\ StepInv /\ CacheInv
-----------------------------------------------------------------------------
(* What the invariant says at once. *)

LEMMA Known == ASSUME IInv PROVE SchedulerBooks
BY SchedulerKnown DEF IInv

LEMMA RowsAreRequests ==
  ASSUME StepTyped
  PROVE  /\ DOMAIN rows = 1..Len(rows) /\ Len(rows) \in Nat /\ at \in Nat \ {0}
         /\ \A i \in DOMAIN rows : rows[i] \in Requests
BY LenProperties, ElementOfSeq DEF StepTyped

(* The row a step is at, and the slot it has. *)
LEMMA RowFacts ==
  ASSUME IInv, at <= Len(rows), pc \in Engaged \cup Reporting
  PROVE  /\ at \in DOMAIN rows /\ Row \in Requests
         /\ Row \in ToSet(running) /\ RowSlot \in Slots
         /\ \A i \in DOMAIN rows : i # at => rows[i] # Row
         /\ \A r \in ToSet(running) : r # Row => batch_idx[r] # RowSlot
<1>1. at \in DOMAIN rows /\ Row \in Requests /\ at \in Nat
  BY RowsAreRequests DEF IInv, StepInv, StepTyped, Row
<1>2. Row \in ToSet(running)
  BY <1>1 DEF IInv, StepInv, RowsRun, Row
<1>3. \A i \in DOMAIN rows : i # at => rows[i] # Row
  BY <1>1 DEF IInv, StepInv, RowsRun, IsInjective, Row
<1>. QED  BY <1>1, <1>2, <1>3, Known DEF SchedulerBooks, RowSlot

(* A row is fed when its place in the batch says so. *)
LEMMA FedPlace ==
  ASSUME StepTyped, RowsRun, NEW i \in DOMAIN rows
  PROVE  IsFed(rows[i]) <=> Fed(i)
BY DEF RowsRun, IsInjective, IsFed

LEMMA SlotFacts ==
  ASSUME SlotsTyped, NEW s \in Slots
  PROVE  past[s] \in Seq(KV) /\ Len(past[s]) \in Nat /\ MaxSeqLen \in Nat
BY CacheAssumption, LenProperties DEF SlotsTyped

(* The chunk of a request: never more than is left of its prompt. *)
LEMMA ChunkFits ==
  ASSUME IInv, NEW r \in Requests
  PROVE  /\ S!ChunkTokens(r) \in Nat
         /\ prefill_offset[r] + S!ChunkTokens(r) <= Len(Prompt[r])
         /\ prefill_offset[r] \in Nat
<1>1. /\ prefill_offset[r] \in Nat /\ prefill_chunk_size[r] \in Nat \ {0}
      /\ prefill_offset[r] <= Len(Prompt[r]) /\ Len(Prompt[r]) \in Nat
  BY Known, PromptLengths, SettingsAssumption DEF SchedulerBooks, IInv, StepInv, OffsetsFit
<1>. QED  BY <1>1 DEF S!ChunkTokens

LEMMA ChunkPositive ==
  ASSUME IInv, NEW r \in Requests, prefill_offset[r] < Len(Prompt[r])
  PROVE  S!ChunkTokens(r) \in Nat \ {0}
<1>1. /\ prefill_offset[r] \in Nat /\ prefill_chunk_size[r] \in Nat \ {0}
      /\ Len(Prompt[r]) \in Nat
  BY Known, PromptLengths, SettingsAssumption DEF SchedulerBooks
<1>. QED  BY <1>1 DEF S!ChunkTokens

-----------------------------------------------------------------------------
(* Histories and their beginnings. *)

(* What a request has had the model read, and how long it is. *)
LEMMA HistoryFacts ==
  ASSUME SchedulerBooks, NEW r \in Requests
  PROVE  /\ History(r) \in Seq(Token \cup {Sampled})
         /\ Len(History(r)) = Len(Prompt[r]) + num_generated[r]
         /\ Len(History(r)) \in Nat
         /\ \A i \in 1..Len(Prompt[r]) : History(r)[i] = Prompt[r][i]
         /\ \A i \in Len(Prompt[r]) + 1 .. Len(History(r)) : History(r)[i] = Sampled
<1>. DEFINE g == [i \in 1..num_generated[r] |-> Sampled]
            p == Prompt[r]
            T == Token \cup {Sampled}
<1>1. num_generated[r] \in Nat /\ p \in Seq(T) /\ Len(p) \in Nat
  BY PromptLengths DEF SchedulerBooks
<1>2. g \in Seq(T) /\ Len(g) = num_generated[r] /\ \A i \in 1..num_generated[r] : g[i] = Sampled
  BY <1>1
<1>. HIDE DEF g, p, T
<1>3. p \o g \in Seq(T) /\ Len(p \o g) = Len(p) + num_generated[r]
      /\ \A i \in 1..Len(p) + num_generated[r] :
           (p \o g)[i] = IF i <= Len(p) THEN p[i] ELSE g[i - Len(p)]
  BY <1>1, <1>2, ConcatProperties
<1>4. \A i \in Len(p) + 1 .. Len(p) + num_generated[r] : (p \o g)[i] = Sampled
  <2>. SUFFICES ASSUME NEW i \in Len(p) + 1 .. Len(p) + num_generated[r]
                PROVE  (p \o g)[i] = Sampled
    OBVIOUS
  <2>1. i - Len(p) \in 1..num_generated[r] /\ i \in 1..Len(p) + num_generated[r] /\ ~(i <= Len(p))
    BY <1>1
  <2>. QED  BY <1>2, <1>3, <2>1
<1>5. \A i \in 1..Len(p) : (p \o g)[i] = p[i]
  BY <1>1, <1>3
<1>6. History(r) = p \o g
  BY DEF History, p, g
<1>7. Len(p) + num_generated[r] \in Nat
  BY <1>1
<1>. QED  BY <1>3, <1>4, <1>5, <1>6, <1>7 DEF p, T

(* The first m elements of a sequence are the same in whatever it begins. *)
LEMMA SameBeginning ==
  ASSUME NEW T, NEW s \in Seq(T), NEW t \in Seq(T), NEW m \in Nat,
         m <= Len(s), m <= Len(t), \A i \in 1..m : s[i] = t[i]
  PROVE  SubSeq(s, 1, m) = SubSeq(t, 1, m)
<1>1. Len(s) \in Nat /\ Len(t) \in Nat
  BY LenProperties
<1>2. m \in 0..Len(s) /\ m \in 0..Len(t) /\ 1..m \subseteq DOMAIN s /\ 1..m \subseteq DOMAIN t
  BY <1>1, LenProperties
<1>3. SubSeq(s, 1, m) = [i \in 1..m |-> s[i]] /\ SubSeq(t, 1, m) = [i \in 1..m |-> t[i]]
  BY <1>2, SubSeqRestrict DEF Restrict
<1>. QED  BY <1>3

(* The beginning of a request's history that its prompt is. *)
LEMMA PromptBeginning ==
  ASSUME SchedulerBooks, NEW r \in Requests, NEW m \in Nat, m <= Len(Prompt[r])
  PROVE  m <= Len(History(r)) /\ SubSeq(Prompt[r], 1, m) = SubSeq(History(r), 1, m)
<1>. DEFINE h == History(r)
            T == Token \cup {Sampled}
<1>1. /\ h \in Seq(T) /\ Len(h) = Len(Prompt[r]) + num_generated[r]
      /\ \A i \in 1..Len(Prompt[r]) : h[i] = Prompt[r][i]
      /\ num_generated[r] \in Nat
  BY HistoryFacts DEF SchedulerBooks
<1>2. Prompt[r] \in Seq(T) /\ Len(Prompt[r]) \in Nat
  BY PromptLengths
<1>. HIDE DEF h, T
<1>3. m <= Len(h) /\ \A i \in 1..m : h[i] = Prompt[r][i]
  BY <1>1, <1>2
<1>4. SubSeq(Prompt[r], 1, m) = SubSeq(h, 1, m)
  BY <1>1, <1>2, <1>3, SameBeginning
<1>. QED  BY <1>3, <1>4 DEF h

(* A history only grows at its end. *)
LEMMA HistoryGrows ==
  ASSUME NEW r \in Requests, NEW g \in Nat, NEW h \in Nat, g <= h, NEW m \in Nat,
         m <= Len(Prompt[r] \o [i \in 1..g |-> Sampled])
  PROVE  /\ m <= Len(Prompt[r] \o [i \in 1..h |-> Sampled])
         /\ SubSeq(Prompt[r] \o [i \in 1..h |-> Sampled], 1, m)
              = SubSeq(Prompt[r] \o [i \in 1..g |-> Sampled], 1, m)
<1>. DEFINE T == Token \cup {Sampled}
            p == Prompt[r]
            a == [i \in 1..g |-> Sampled]
            b == [i \in 1..h |-> Sampled]
<1>1. p \in Seq(T) /\ Len(p) \in Nat
  BY PromptLengths
<1>2. /\ a \in Seq(T) /\ Len(a) = g /\ \A i \in 1..g : a[i] = Sampled
      /\ b \in Seq(T) /\ Len(b) = h /\ \A i \in 1..h : b[i] = Sampled
  OBVIOUS
<1>. HIDE DEF T, p, a, b
<1>3. /\ p \o a \in Seq(T) /\ Len(p \o a) = Len(p) + g
      /\ \A i \in 1..Len(p) + g : (p \o a)[i] = IF i <= Len(p) THEN p[i] ELSE a[i - Len(p)]
      /\ p \o b \in Seq(T) /\ Len(p \o b) = Len(p) + h
      /\ \A i \in 1..Len(p) + h : (p \o b)[i] = IF i <= Len(p) THEN p[i] ELSE b[i - Len(p)]
  <2>1. /\ p \o a \in Seq(T) /\ Len(p \o a) = Len(p) + g
        /\ \A i \in 1..Len(p) + g : (p \o a)[i] = IF i <= Len(p) THEN p[i] ELSE a[i - Len(p)]
    <3>1. /\ p \o a \in Seq(T) /\ Len(p \o a) = Len(p) + Len(a)
          /\ \A i \in 1..Len(p) + Len(a) :
               (p \o a)[i] = IF i <= Len(p) THEN p[i] ELSE a[i - Len(p)]
      BY ONLY <1>1, <1>2, ConcatProperties
    <3>. QED  BY <1>2, <3>1
  <2>2. /\ p \o b \in Seq(T) /\ Len(p \o b) = Len(p) + h
        /\ \A i \in 1..Len(p) + h : (p \o b)[i] = IF i <= Len(p) THEN p[i] ELSE b[i - Len(p)]
    <3>1. /\ p \o b \in Seq(T) /\ Len(p \o b) = Len(p) + Len(b)
          /\ \A i \in 1..Len(p) + Len(b) :
               (p \o b)[i] = IF i <= Len(p) THEN p[i] ELSE b[i - Len(p)]
      BY ONLY <1>1, <1>2, ConcatProperties
    <3>. QED  BY <1>2, <3>1
  <2>. QED  BY <2>1, <2>2
<1>4. m <= Len(p) + g /\ m <= Len(p) + h
  BY <1>1, <1>3 DEF p, a
<1>5. ASSUME NEW i \in 1..m PROVE (p \o b)[i] = (p \o a)[i]
  <2>1. i \in 1..Len(p) + g /\ i \in 1..Len(p) + h
    BY <1>1, <1>4
  <2>2. CASE i <= Len(p)
    BY <1>3, <2>1, <2>2
  <2>3. CASE ~(i <= Len(p))
    <3>1. i - Len(p) \in 1..g /\ i - Len(p) \in 1..h
      BY <1>1, <2>1, <2>3
    <3>. QED  BY <1>2, <1>3, <2>1, <2>3, <3>1
  <2>. QED  BY <2>2, <2>3
<1>6. SubSeq(p \o b, 1, m) = SubSeq(p \o a, 1, m)
  BY <1>3, <1>4, <1>5, SameBeginning
<1>. QED  BY <1>3, <1>4, <1>6 DEF p, a, b

(* The tokens of a row continue what is cached. *)
LEMMA Continued ==
  ASSUME NEW T, NEW h \in Seq(T), NEW t \in Seq(T), NEW k \in Nat, NEW i \in Nat \ {0},
         i <= Len(t), k + i <= Len(h), \A j \in 1..i : t[j] = h[k + j]
  PROVE  SubSeq(h, 1, k) \o SubSeq(t, 1, i) = SubSeq(h, 1, k + i)
<1>. DEFINE a == SubSeq(t, 1, i)
            b == SubSeq(h, k + 1, k + i)
<1>1. Len(h) \in Nat /\ Len(t) \in Nat
  BY LenProperties
<1>2. a \in Seq(T) /\ Len(a) = i /\ \A j \in 1..i : a[j] = t[j]
  <2>1. \A j \in 1..i : t[j] \in T
    BY <1>1, ElementOfSeq
  <2>2. /\ a \in Seq(T) /\ Len(a) = IF 1 <= i THEN i - 1 + 1 ELSE 0
        /\ \A j \in 1 .. i - 1 + 1 : a[j] = t[1 + j - 1]
    BY <2>1, SubSeqProperties
  <2>3. i - 1 + 1 = i /\ 1 <= i /\ \A j \in 1..i : 1 + j - 1 = j
    OBVIOUS
  <2>. QED  BY <2>2, <2>3
<1>3. b \in Seq(T) /\ Len(b) = i /\ \A j \in 1..i : b[j] = h[k + j]
  <2>1. \A j \in k + 1 .. k + i : h[j] \in T
    BY <1>1, ElementOfSeq
  <2>2. /\ b \in Seq(T) /\ Len(b) = IF k + 1 <= k + i THEN (k + i) - (k + 1) + 1 ELSE 0
        /\ \A j \in 1 .. (k + i) - (k + 1) + 1 : b[j] = h[(k + 1) + j - 1]
    BY <2>1, SubSeqProperties
  <2>3. (k + i) - (k + 1) + 1 = i /\ k + 1 <= k + i /\ \A j \in 1..i : (k + 1) + j - 1 = k + j
    OBVIOUS
  <2>. QED  BY <2>2, <2>3
<1>4. a = b
  <2>. HIDE DEF a, b
  <2>1. \A j \in 1..Len(a) : a[j] = b[j]
    BY <1>2, <1>3
  <2>. QED  BY <1>2, <1>3, <2>1, SeqEqual
<1>5. SubSeq(h, 1, k) \o SubSeq(h, k + 1, k + i) = SubSeq(h, 1, k + i)
  <2>1. 1 \in 1 .. Len(h) + 1 /\ k \in 1 - 1 .. Len(h) /\ k + i \in k .. Len(h)
    BY <1>1
  <2>. QED  BY <2>1, ConcatAdjacentSubSeq
<1>. QED  BY <1>4, <1>5

(* A past is its request's history when each of its cells is. *)
LEMMA AttendedCells ==
  ASSUME NEW r, NEW p \in Seq(KV)
  PROVE  Attended(r, p) <=> \A j \in 1 .. Len(p) : p[j] = SubSeq(History(r), 1, j)
<1>1. DOMAIN p = 1 .. Len(p) /\ p = [j \in 1 .. Len(p) |-> p[j]]
  BY LenProperties
<1>. QED  BY <1>1 DEF Attended

-----------------------------------------------------------------------------
(* Keys, blocks and the LRU order. *)

LEMMA WholeBlocks ==
  ASSUME NEW m \in Nat, NEW d \in Nat \ {0}, NEW n \in Nat, n <= m \div d
  PROVE  n * d \in Nat /\ n * d <= m
OBVIOUS

(* How many blocks a lookup tries: all of them lie before the last token. *)
LEMMA BlocksInPrompt ==
  ASSUME NEW r \in Requests
  PROVE  /\ C!MaxFullBlocks(Prompt[r]) \in Nat
         /\ \A n \in Nat : n <= C!MaxFullBlocks(Prompt[r]) => n * BlockSize < Len(Prompt[r])
<1>1. PICK m \in Nat : m = Len(Prompt[r]) - 1 /\ m < Len(Prompt[r])
  <2>1. Len(Prompt[r]) \in Nat \ {0}
    BY PromptLengths
  <2>2. Len(Prompt[r]) - 1 \in Nat /\ Len(Prompt[r]) - 1 < Len(Prompt[r])
    BY <2>1
  <2>. QED  BY <2>2
<1>2. m \div BlockSize \in Nat
  BY CacheAssumption
<1>3. ASSUME NEW n \in Nat, n <= m \div BlockSize PROVE n * BlockSize < Len(Prompt[r])
  <2>1. n * BlockSize \in Nat /\ n * BlockSize <= m
    BY <1>3, CacheAssumption, WholeBlocks
  <2>. HIDE <1>3
  <2>. QED  BY <1>1, <2>1, PromptLengths
<1>. QED  BY <1>1, <1>2, <1>3 DEF C!MaxFullBlocks

LEMMA KeyFacts ==
  ASSUME NEW r \in Requests, NEW n \in Nat, n * BlockSize <= Len(Prompt[r])
  PROVE  /\ C!Key(Prompt[r], n) \in Seq(Token)
         /\ Len(C!Key(Prompt[r], n)) = n * BlockSize
         /\ \A m \in 0 .. n * BlockSize :
              SubSeq(C!Key(Prompt[r], n), 1, m) = SubSeq(Prompt[r], 1, m)
<1>. DEFINE k == SubSeq(Prompt[r], 1, n * BlockSize)
<1>1. PICK l \in Nat, p \in Seq(Token) :
        l = n * BlockSize /\ p = Prompt[r] /\ l <= Len(p) /\ Len(p) \in Nat
  BY PromptLengths, CacheAssumption
<1>2. /\ k \in Seq(Token) /\ Len(k) = l /\ \A j \in 1 .. l : k[j] = p[j]
  <2>1. \A j \in 1 .. l : p[j] \in Token
    BY <1>1, ElementOfSeq
  <2>2. /\ k \in Seq(Token) /\ Len(k) = IF 1 <= l THEN l - 1 + 1 ELSE 0
        /\ \A j \in 1 .. l - 1 + 1 : k[j] = p[1 + j - 1]
    BY <1>1, <2>1, SubSeqProperties
  <2>3. l - 1 + 1 = l /\ (~(1 <= l) => l = 0) /\ \A j \in 1 .. l : 1 + j - 1 = j
    BY <1>1
  <2>. QED  BY <1>1, <2>2, <2>3
<1>. HIDE DEF k
<1>3. \A m \in 0 .. l : SubSeq(k, 1, m) = SubSeq(p, 1, m)
  BY <1>1, <1>2, SameBeginning
<1>. QED  BY <1>1, <1>2, <1>3 DEF k, C!Key

(* Moving a key to the end keeps the keys and lists each of them once. *)
LEMMA RenewedKeepsKeys ==
  ASSUME NEW K, NEW q \in Seq(K), IsInjective(q), NEW i \in DOMAIN q
  PROVE  /\ C!Renewed(q, i) \in Seq(K)
         /\ Len(C!Renewed(q, i)) = Len(q)
         /\ ToSet(C!Renewed(q, i)) = ToSet(q)
         /\ IsInjective(C!Renewed(q, i))
<1>. DEFINE r == C!Renewed(q, i)
            n == Len(q)
<1>1. n \in Nat /\ DOMAIN q = 1..n /\ i \in 1..n /\ \A j \in 1..n : q[j] \in K
  BY LenProperties, ElementOfSeq
<1>2. /\ DOMAIN r = 1..n
      /\ \A j \in 1..n : r[j] = IF j < i THEN q[j] ELSE IF j < n THEN q[j + 1] ELSE q[i]
  BY <1>1 DEF C!Renewed
<1>3. r = [j \in 1..n |-> r[j]] /\ \A j \in 1..n : r[j] \in K
  BY <1>1, <1>2 DEF C!Renewed
<1>4. r \in Seq(K) /\ Len(r) = n
  <2>1. r \in [1..n -> K]
    BY <1>3
  <2>. HIDE DEF r
  <2>2. r \in Seq(K)
    BY <2>1, <1>1
  <2>. QED  BY <2>1, <2>2, <1>1, LenProperties
<1>5. ToSet(r) = ToSet(q)
  <2>1. ASSUME NEW j \in 1..n PROVE \E k \in 1..n : r[j] = q[k]
    BY <1>1, <1>2
  <2>2. ASSUME NEW k \in 1..n PROVE \E j \in 1..n : r[j] = q[k]
    <3>1. CASE k < i
      BY <1>1, <1>2, <3>1
    <3>2. CASE k = i
      <4>1. r[n] = q[i]
        BY <1>1, <1>2
      <4>. QED  BY <1>1, <3>2, <4>1
    <3>3. CASE k > i
      <4>1. k - 1 \in 1..n /\ r[k - 1] = q[k]
        BY <1>1, <1>2, <3>3
      <4>. QED  BY <4>1
    <3>. QED  BY <1>1, <3>1, <3>2, <3>3
  <2>3. ToSet(r) = {r[j] : j \in 1..n} /\ ToSet(q) = {q[j] : j \in 1..n}
    BY <1>1, <1>2 DEF ToSet
  <2>. HIDE DEF r
  <2>. QED  BY <2>1, <2>2, <2>3
<1>6. IsInjective(r)
  BY <1>1, <1>2 DEF IsInjective
<1>. QED  BY <1>4, <1>5, <1>6
-----------------------------------------------------------------------------
(* What a step leaves alone. *)

(* A request's past stays right when nothing that tells its length moves. *)
LEMMA PastStays ==
  ASSUME NEW r \in Requests, HasPast(r),
         state'[r] = state[r], prefill_offset'[r] = prefill_offset[r],
         prefill_chunk_size'[r] = prefill_chunk_size[r], num_generated'[r] = num_generated[r],
         past'[batch_idx'[r]] = past[batch_idx[r]], IsFed(r)' <=> IsFed(r)
  PROVE  HasPast(r)'
<1>1. History(r)' = History(r)
  BY DEF History
<1>2. Cursor(r)' = Cursor(r) /\ ValidLen(r)' = ValidLen(r)
  BY <1>1 DEF Cursor, ValidLen, IsPrefill, S!ChunkTokens
<1>3. Reach(r)' = Reach(r)
  BY <1>2 DEF Reach
<1>. QED  BY <1>1, <1>3 DEF HasPast, Attended

(* A lookup or an insert is under way only in its own phase. *)
LEMMA NoCall ==
  ASSUME CallRight, pc \notin {"load", "insert"}
  PROVE  call = C!Idle
BY DEF CallRight

(* Steps that move neither a request nor a slot. *)
LEMMA QuietKeeps ==
  ASSUME IInv, UNCHANGED <<schedulerVars, slotVars, slot_prepared>>,
         pc # "raised", pc' # "raised", StepInv', EntriesRight', CallRight',
         \A r \in ToSet(running) : IsFed(r)' <=> IsFed(r)
  PROVE  IInv'
<1>1. SP!IInv'
  BY SchedulerStays DEF IInv
<1>2. SlotsTyped'
  BY DEF IInv, CacheInv, SlotsTyped, slotVars
<1>3. PastRight'
  <2>. SUFFICES ASSUME NEW r \in ToSet(running), slot_prepared[r] PROVE HasPast(r)'
    BY DEF PastRight, schedulerVars
  <2>1. r \in Requests /\ HasPast(r)
    BY Known DEF IInv, CacheInv, PastRight, SchedulerBooks
  <2>. QED  BY <2>1, PastStays DEF schedulerVars, slotVars
<1>. QED  BY <1>1, <1>2, <1>3 DEF IInv, CacheInv

(* ... nor the prefix cache. *)
LEMMA CacheStays ==
  ASSUME IInv, UNCHANGED cacheVars, pc \notin {"load", "insert"}
  PROVE  EntriesRight' /\ CallRight' /\ call' = C!Idle
<1>1. EntriesRight'
  BY DEF IInv, CacheInv, EntriesRight, cacheVars, prefixVars, C!Keys, C!Key, CopyOf
<1>2. call' = C!Idle
  BY NoCall DEF IInv, CacheInv, cacheVars
<1>. QED  BY <1>1, <1>2 DEF CallRight
-----------------------------------------------------------------------------
(* Steps that only move on to other rows. *)

LEMMA SkipPreparedKeeps == ASSUME IInv, SkipPrepared PROVE IInv'
<1>1. /\ UNCHANGED <<schedulerVars, cacheVars, slot_prepared, rows>>
      /\ pc = "prepare" /\ pc' = "prepare" /\ at <= Len(rows) /\ at' = at + 1
      /\ slot_prepared[Row]
  BY DEF SkipPrepared, AtRow, NextRow
<1>2. StepTyped' /\ OffsetsFit'
  BY <1>1, RowsAreRequests DEF IInv, StepInv, StepTyped, OffsetsFit, schedulerVars
<1>3. RowsRun' /\ Batches'
  BY <1>1 DEF IInv, StepInv, RowsRun, Batches, schedulerVars, Engaged, Reporting, IsPrefill
<1>4. LookedUp'
  <2>1. \A i \in DOMAIN rows : i < at + 1 => slot_prepared[rows[i]]
    <3>. SUFFICES ASSUME NEW i \in DOMAIN rows, i < at + 1 PROVE slot_prepared[rows[i]]
      OBVIOUS
    <3>1. i < at \/ i = at
      BY RowsAreRequests DEF IInv, StepInv
    <3>. QED  BY <1>1, <3>1 DEF IInv, StepInv, LookedUp, Row
  <2>. QED  BY <1>1, <2>1 DEF IInv, StepInv, LookedUp, schedulerVars, Reporting
<1>5. PromptLeft' /\ PromptsRead' /\ Counted'
  BY <1>1 DEF IInv, StepInv, PromptLeft, PromptsRead, Counted, FirstDue, Moved,
     schedulerVars, Reporting, IsPrefill
<1>6. \A r \in ToSet(running) : ~IsFed(r) /\ ~IsFed(r)'
  BY <1>1 DEF IsFed, Fed
<1>. QED  BY <1>1, <1>2, <1>3, <1>4, <1>5, <1>6, CacheStays, QuietKeeps DEF StepInv, cacheVars

LEMMA StartForwardKeeps == ASSUME IInv, StartForward PROVE IInv'
<1>1. /\ UNCHANGED <<schedulerVars, cacheVars, slot_prepared, rows>>
      /\ pc = "prepare" /\ pc' = "forward" /\ at > Len(rows) /\ at' = 1
  BY DEF StartForward, PastRows
<1>2. StepTyped' /\ OffsetsFit'
  BY <1>1, RowsAreRequests DEF IInv, StepInv, StepTyped, OffsetsFit, schedulerVars, Engaged
<1>3. RowsRun' /\ Batches'
  BY <1>1 DEF IInv, StepInv, RowsRun, Batches, schedulerVars, Engaged, Reporting, IsPrefill
<1>4. LookedUp'
  <2>1. \A i \in DOMAIN rows : slot_prepared[rows[i]]
    BY <1>1, RowsAreRequests DEF IInv, StepInv, LookedUp
  <2>. QED  BY <1>1, <2>1 DEF IInv, StepInv, LookedUp, schedulerVars, Reporting
<1>5. PromptLeft' /\ PromptsRead' /\ Counted'
  BY <1>1 DEF IInv, StepInv, PromptLeft, PromptsRead, Counted, FirstDue, Moved,
     schedulerVars, Reporting, IsPrefill
<1>6. \A r \in ToSet(running) : ~IsFed(r) /\ ~IsFed(r)'
  BY <1>1, RowsAreRequests DEF IInv, StepInv, IsFed, Fed
<1>. QED  BY <1>1, <1>2, <1>3, <1>4, <1>5, <1>6, CacheStays, QuietKeeps DEF StepInv, cacheVars

LEMMA SkipRowKeeps == ASSUME IInv, SkipRow PROVE IInv'
<1>1. /\ UNCHANGED <<schedulerVars, cacheVars, slot_prepared, rows>>
      /\ pc = "report" /\ pc' = "report" /\ at <= Len(rows) /\ at' = at + 1
      /\ Row \notin prefill_requests
  BY DEF SkipRow, AtRow, NextRow
<1>2. StepTyped' /\ OffsetsFit'
  BY <1>1, RowsAreRequests DEF IInv, StepInv, StepTyped, OffsetsFit, schedulerVars, Reporting
<1>3. RowsRun' /\ Batches'
  BY <1>1, RowsAreRequests DEF IInv, StepInv, RowsRun, Batches, schedulerVars, Engaged,
     Reporting, IsPrefill
<1>4. LookedUp' /\ PromptsRead' /\ Counted'
  <2>1. \A i \in DOMAIN rows : i >= at + 1 => i >= at
    BY RowsAreRequests DEF IInv, StepInv
  <2>. QED  BY <1>1, <2>1 DEF IInv, StepInv, LookedUp, PromptsRead, Moved, Counted, FirstDue,
            IsPrefill, schedulerVars, Reporting
<1>5. PromptLeft'
  <2>. SUFFICES ASSUME NEW r \in Requests, state[r] = "prefill",
                       ~(prefill_offset[r] < Len(Prompt[r]))
                PROVE  r \in prefill_requests /\ \E i \in DOMAIN rows : rows[i] = r /\ Moved(i)'
    BY <1>1 DEF PromptLeft, schedulerVars
  <2>1. PICK i \in DOMAIN rows : rows[i] = r /\ i >= at /\ r \in prefill_requests
    BY <1>1 DEF IInv, StepInv, PromptLeft, Moved
  <2>2. i # at
    BY <1>1, <2>1 DEF Row
  <2>3. i >= at + 1
    BY <2>1, <2>2, RowsAreRequests DEF IInv, StepInv
  <2>. QED  BY <1>1, <2>1, <2>3 DEF Moved, Reporting
<1>6. \A r \in ToSet(running) : ~IsFed(r) /\ ~IsFed(r)'
  BY <1>1 DEF IsFed, Fed
<1>. QED  BY <1>1, <1>2, <1>3, <1>4, <1>5, <1>6, CacheStays, QuietKeeps DEF StepInv, cacheVars

(* The decode rows come after the prefill rows. *)
LEMMA EndPrefillKeeps == ASSUME IInv, EndPrefill PROVE IInv'
<1>1. /\ UNCHANGED <<schedulerVars, cacheVars, slot_prepared>>
      /\ pc \in {"report", "prepare"} /\ pc' \in {"idle", "forward"} /\ at' = 1
      /\ pc = "report" => at > Len(rows)
      /\ rows' = InOrder(running, decode_requests)
  BY DEF EndPrefill, PastRows, Batch
<1>2. /\ rows' \in Seq(Requests) /\ IsInjective(rows')
      /\ ToSet(rows') = ToSet(running) \cap decode_requests
      /\ decode_requests \subseteq Requests
  BY <1>1, Known, InOrderRows DEF SchedulerBooks
<1>3. \A i \in DOMAIN rows' : rows'[i] \in ToSet(running) /\ rows'[i] \in decode_requests
  BY <1>2 DEF ToSet
<1>4. StepTyped' /\ OffsetsFit'
  BY <1>1, <1>2, LenProperties DEF IInv, StepInv, StepTyped, OffsetsFit, schedulerVars, Engaged
<1>5. RowsRun' /\ Batches'
  BY <1>1, <1>2, <1>3 DEF IInv, StepInv, RowsRun, Batches, schedulerVars, Reporting
<1>6. \A i \in DOMAIN rows : ~Moved(i)
  BY <1>1, RowsAreRequests DEF IInv, StepInv, Moved, Reporting
<1>7. LookedUp'
  <2>1. \A i \in DOMAIN rows' : slot_prepared[rows'[i]]
    BY <1>2, <1>3 DEF IInv, StepInv, LookedUp, Batches
  <2>. QED  BY <1>1, <2>1 DEF IInv, StepInv, LookedUp, schedulerVars, Reporting
<1>8. PromptLeft' /\ PromptsRead' /\ Counted'
  BY <1>1, <1>6 DEF IInv, StepInv, PromptLeft, PromptsRead, Moved, Reporting, Counted,
     FirstDue, schedulerVars
<1>9. \A r \in ToSet(running) : ~IsFed(r) /\ ~IsFed(r)'
  <2>1. \A i \in DOMAIN rows' : ~(i < 1)
    BY <1>2, LenProperties
  <2>. QED  BY <1>1, <2>1 DEF IsFed, Fed
<1>. QED  BY <1>1, <1>4, <1>5, <1>7, <1>8, <1>9, CacheStays, QuietKeeps
          DEF StepInv, cacheVars

LEMMA EndDecodeKeeps == ASSUME IInv, EndDecode PROVE IInv'
<1>1. /\ UNCHANGED <<schedulerVars, cacheVars, slot_prepared>>
      /\ pc = "token" /\ pc' = "idle" /\ rows' = <<>> /\ at' = 1 /\ at > Len(rows)
  BY DEF EndDecode, PastRows
<1>2. rows' \in Seq(Requests) /\ DOMAIN rows' = {} /\ IsInjective(rows') /\ Len(rows') = 0
  BY <1>1, EmptySeq DEF IsInjective
<1>3. \A i \in DOMAIN rows : ~(i >= at)
  BY <1>1, RowsAreRequests DEF IInv, StepInv
<1>4. at \notin DOMAIN rows
  BY <1>1, RowsAreRequests DEF IInv, StepInv
<1>5. StepTyped' /\ OffsetsFit' /\ RowsRun'
  BY <1>1, <1>2 DEF IInv, StepInv, StepTyped, OffsetsFit, RowsRun, schedulerVars
<1>6. Batches' /\ LookedUp'
  BY <1>1, <1>2 DEF IInv, StepInv, Batches, LookedUp, schedulerVars
<1>7. PromptLeft' /\ PromptsRead' /\ Counted'
  BY <1>1, <1>2, <1>3, <1>4 DEF IInv, StepInv, PromptLeft, PromptsRead, Moved, Counted, FirstDue,
     schedulerVars, Reporting
<1>8. \A r \in ToSet(running) : ~IsFed(r) /\ ~IsFed(r)'
  BY <1>1, <1>2, <1>3 DEF IsFed, Fed
<1>. QED  BY <1>1, <1>5, <1>6, <1>7, <1>8, CacheStays, QuietKeeps DEF StepInv, cacheVars
-----------------------------------------------------------------------------
(* Between steps, and the start of one. *)

(* Between steps no row matters, and a request stays as it is, is queued or is
   finished. *)
LEMMA IdleKeeps ==
  ASSUME IInv, pc = "idle", UNCHANGED <<cacheVars, slot_prepared, stepVars>>,
         SP!IInv', decode_requests' = {},
         UNCHANGED <<prefill_offset, num_generated>>,
         \A t \in Requests :
           \/ /\ state'[t] = state[t] /\ batch_idx'[t] = batch_idx[t]
              /\ prefill_chunk_size'[t] = prefill_chunk_size[t]
           \/ state[t] = "new" /\ state'[t] = "waiting"
           \/ state'[t] = "finished"
  PROVE  IInv'
<1>1. pc' = "idle" /\ UNCHANGED <<rows, at>>
  BY DEF stepVars
<1>2. SchedulerBooks /\ SchedulerBooks'
  BY Known, SchedulerKnownNext
<1>3. StepTyped' /\ RowsRun' /\ Batches'
  BY <1>1 DEF IInv, StepInv, StepTyped, RowsRun, Batches, Engaged, Reporting
<1>4. OffsetsFit' /\ LookedUp' /\ PromptLeft' /\ PromptsRead' /\ Counted'
  BY <1>1 DEF IInv, StepInv, OffsetsFit, LookedUp, PromptLeft, PromptsRead, Moved, Counted,
     FirstDue, Engaged, Reporting
<1>5. SlotsTyped'
  BY <1>1 DEF IInv, CacheInv, SlotsTyped, cacheVars, slotVars
<1>6. PastRight'
  <2>. SUFFICES ASSUME NEW r \in ToSet(running'), slot_prepared[r] PROVE HasPast(r)'
    BY DEF PastRight
  <2>1. /\ r \in Requests /\ state'[r] \in {"prefill", "decode"}
    BY <1>2 DEF SchedulerBooks
  <2>2. /\ state'[r] = state[r] /\ batch_idx'[r] = batch_idx[r]
        /\ prefill_chunk_size'[r] = prefill_chunk_size[r]
    BY <2>1
  <2>3. HasPast(r)
    BY <1>2, <2>1, <2>2 DEF IInv, CacheInv, PastRight, SchedulerBooks
  <2>4. ~IsFed(r) /\ ~IsFed(r)'
    BY <1>1 DEF IsFed, Fed
  <2>. QED  BY <2>1, <2>2, <2>3, <2>4, PastStays DEF cacheVars, slotVars
<1>. QED  BY <1>3, <1>4, <1>5, <1>6, CacheStays DEF IInv, StepInv, CacheInv

LEMMA AddRequestKeeps ==
  ASSUME IInv, NEW r \in Requests, NEW chunk \in Chunks, AddRequest(r, chunk)
  PROVE  IInv'
<1>1. pc = "idle" /\ S!AddRequest(r, chunk)
      /\ UNCHANGED <<cacheVars, slot_prepared, stepVars>>
  BY DEF AddRequest
<1>2. SP!IInv'
  BY <1>1, SameAddRequest, Assumptions, SP!AddRequestKeeps DEF IInv
<1>3. /\ state' = [state EXCEPT ![r] = "waiting"] /\ state[r] = "new"
      /\ prefill_chunk_size' = [prefill_chunk_size EXCEPT ![r] = chunk]
      /\ UNCHANGED <<batch_idx, prefill_offset, num_generated, decode_requests>>
      /\ decode_requests = {}
  BY <1>1 DEF S!AddRequest, S!limitVars, S!batchVars, S!BetweenSteps
<1>. QED  BY <1>1, <1>2, <1>3, IdleKeeps, Known DEF SchedulerBooks

(* A request cancelled is finished and has no slot; nothing else moves. *)
LEMMA CancelEffect ==
  ASSUME IInv, NEW r \in Requests, Cancel(r)
  PROVE  /\ pc = "idle" /\ SP!IInv' /\ SchedulerBooks'
         /\ UNCHANGED <<cacheVars, slot_prepared, stepVars>>
         /\ UNCHANGED <<completed, prefill_offset, prefill_chunk_size, num_generated,
                        prefill_requests, decode_requests>>
         /\ decode_requests = {} /\ failed' = failed \cup {r}
         /\ \A t \in Requests \ {r} : batch_idx'[t] = batch_idx[t] /\ state'[t] = state[t]
         /\ state'[r] = "finished"
<1>1. /\ pc = "idle" /\ state[r] \in {"waiting", "prefill", "decode"} /\ S!CancelRequest(r)
      /\ UNCHANGED <<prefixVars, call, slot_prepared, stepVars>>
  BY DEF Cancel
<1>2. SP!CancelRequest(r)
  BY <1>1, SameCancel
<1>3. SP!IInv' /\ SchedulerBooks'
  BY <1>2, Assumptions, SP!CancelRequestKeeps, SchedulerKnownNext DEF IInv
<1>4. /\ UNCHANGED <<completed, prefill_offset, prefill_chunk_size, num_generated,
                     prefill_requests, decode_requests>>
      /\ decode_requests = {}
  BY <1>1 DEF S!CancelRequest, S!limitVars, S!batchVars, S!BetweenSteps
<1>5. /\ batch_idx'[r] = -1 /\ failed' = failed \cup {r}
      /\ \A t \in Requests \ {r} : batch_idx'[t] = batch_idx[t] /\ state'[t] = state[t]
      /\ state'[r] = "finished"
  <2>1. CASE SP!CancelWaiting(r)
    <3>1. /\ state' = [state EXCEPT ![r] = "finished"] /\ UNCHANGED <<running, batch_idx>>
          /\ failed' = failed \cup {r}
      BY <2>1 DEF SP!CancelWaiting
    <3>2. r \in SP!ToSet(waiting)
      BY <2>1 DEF SP!CancelWaiting, SP!ToSet
    <3>3. r \in ToSet(waiting)
      BY <3>2 DEF SP!ToSet, ToSet
    <3>. QED  BY <3>1, <3>3, Known DEF SchedulerBooks
  <2>2. CASE SP!CancelRunning(r)
    <3>1. SP!LeaveRunning(r) /\ failed' = failed \cup {r}
      BY <2>2 DEF SP!CancelRunning
    <3>2. /\ \A t \in Requests : state'[t] = IF t = r THEN "finished" ELSE state[t]
          /\ \A t \in Requests : batch_idx'[t] = IF t = r THEN SP!NoSlot ELSE batch_idx[t]
      BY <3>1, Assumptions, SP!LeavesRunning DEF IInv
    <3>. QED  BY <3>1, <3>2 DEF SP!NoSlot
  <2>3. CASE SP!CancelUnknown(r)
    <3>1. r \notin SP!ToSet(waiting) /\ r \notin SP!ToSet(running)
      BY <2>3 DEF SP!CancelUnknown
    <3>2. r \notin ToSet(waiting) /\ r \notin ToSet(running)
      BY <3>1 DEF SP!ToSet, ToSet
    <3>. QED  BY <1>1, <3>2, Known DEF SchedulerBooks
  <2>. QED  BY <1>2, <2>1, <2>2, <2>3 DEF SP!CancelRequest
<1>6. UNCHANGED slotVars
  BY <1>5 DEF Cancel, S!NoSlot
<1>. QED  BY <1>1, <1>3, <1>4, <1>5, <1>6 DEF cacheVars

LEMMA CancelKeeps == ASSUME IInv, NEW r \in Requests, Cancel(r) PROVE IInv'
BY CancelEffect, IdleKeeps

(* What schedule() does, as the engine sees it. *)
LEMMA ScheduleEffect ==
  ASSUME IInv, S!Schedule
  PROVE  /\ SP!IInv' /\ SchedulerBooks'
         /\ UNCHANGED <<prefill_offset, prefill_chunk_size, completed, failed, num_generated>>
         /\ \E A \in SUBSET ToSet(waiting) :
              /\ \A r \in Requests : state'[r] = IF r \in A THEN "prefill" ELSE state[r]
              /\ \A r \in Requests \ A : batch_idx'[r] = batch_idx[r]
         /\ \A r \in prefill_requests' : state'[r] = "prefill"
         /\ \A r \in decode_requests' : state'[r] = "decode"
<1>1. SP!Schedule
  BY SameSchedule
<1>2. SP!IInv' /\ SchedulerBooks'
  BY <1>1, Assumptions, SP!ScheduleKeeps, SchedulerKnownNext DEF IInv
<1>3. UNCHANGED <<prefill_offset, prefill_chunk_size, completed, failed, num_generated>>
  BY <1>1 DEF SP!Schedule
<1>4. PICK A \in SUBSET SP!ToSet(waiting), G \in SUBSET SP!ToSet(free_slots) :
        /\ \A r \in Requests : state'[r] = IF r \in A THEN "prefill" ELSE state[r]
        /\ \A r \in Requests \ A : batch_idx'[r] = batch_idx[r]
  <2>1. SP!AssignWaitingToSlots
    BY <1>1 DEF SP!Schedule
  <2>. QED  BY <2>1, Assumptions, SP!AssignPairs DEF IInv
<1>5. A \in SUBSET ToSet(waiting)
  BY <1>4 DEF SP!ToSet, ToSet
<1>6. \A r \in prefill_requests' : state'[r] = "prefill"
  BY <1>1 DEF SP!Schedule, SP!PrefillRows
<1>7. \A r \in decode_requests' : state'[r] = "decode"
  BY <1>1 DEF SP!Schedule, SP!DecodeRows
<1>. QED  BY <1>2, <1>3, <1>4, <1>5, <1>6, <1>7

LEMMA BeginStepKeeps == ASSUME IInv, BeginStep PROVE IInv'
<1>1. /\ pc = "idle" /\ pc' = "prepare" /\ at' = 1 /\ S!Schedule
      /\ rows' = InOrder(running', prefill_requests')
      /\ UNCHANGED <<cacheVars, slot_prepared>>
  BY DEF BeginStep, Batch
<1>2. /\ SP!IInv' /\ SchedulerBooks' /\ SchedulerBooks
      /\ UNCHANGED <<prefill_offset, prefill_chunk_size, num_generated>>
      /\ \A r \in prefill_requests' : state'[r] = "prefill"
      /\ \A r \in decode_requests' : state'[r] = "decode"
  BY <1>1, ScheduleEffect, Known
<1>3. PICK A \in SUBSET ToSet(waiting) :
        /\ \A r \in Requests : state'[r] = IF r \in A THEN "prefill" ELSE state[r]
        /\ \A r \in Requests \ A : batch_idx'[r] = batch_idx[r]
  BY <1>1, ScheduleEffect
<1>4. \A r \in A : r \in Requests /\ state[r] = "waiting"
  <2>1. \A r \in ToSet(waiting) : r \in Requests
    BY <1>2, LenProperties, ElementOfSeq DEF SchedulerBooks, ToSet
  <2>. QED  BY <1>2, <1>3, <2>1 DEF SchedulerBooks
<1>5. /\ rows' \in Seq(Requests) /\ IsInjective(rows')
      /\ ToSet(rows') = ToSet(running') \cap prefill_requests'
  BY <1>1, <1>2, InOrderRows DEF SchedulerBooks
<1>6. \A i \in DOMAIN rows' : rows'[i] \in ToSet(running') /\ rows'[i] \in prefill_requests'
  BY <1>5 DEF ToSet
<1>7. StepTyped'
  BY <1>1, <1>5, LenProperties DEF IInv, StepInv, StepTyped, Engaged
<1>8. RowsRun' /\ Batches'
  BY <1>1, <1>2, <1>5, <1>6 DEF RowsRun, Batches, Reporting, IsPrefill
<1>9. OffsetsFit'
  BY <1>2, <1>3 DEF OffsetsFit, IInv, StepInv
<1>10. LookedUp'
  <2>1. \A i \in DOMAIN rows' : ~(i < at')
    BY <1>1, <1>5, LenProperties
  <2>2. \A r \in Requests :
          /\ ~slot_prepared[r] => prefill_offset[r] = 0 /\ state'[r] # "decode"
          /\ state'[r] \in {"new", "waiting"} => ~slot_prepared[r]
    BY <1>3 DEF IInv, StepInv, LookedUp
  <2>. QED  BY <1>1, <1>2, <2>1, <2>2 DEF LookedUp, Reporting
<1>11. PromptLeft'
  <2>. SUFFICES ASSUME NEW r \in Requests, state'[r] = "prefill"
                PROVE  prefill_offset[r] < Len(Prompt[r])
    BY <1>2 DEF PromptLeft
  <2>1. CASE r \in A
    <3>1. prefill_offset[r] = 0
      BY <1>4, <2>1 DEF IInv, StepInv, OffsetsFit
    <3>. QED  BY <3>1, PromptLengths
  <2>2. CASE r \notin A
    BY <1>1, <1>3, <2>2 DEF IInv, StepInv, PromptLeft, Moved, Reporting
  <2>. QED  BY <2>1, <2>2
<1>12. PromptsRead' /\ Counted'
  BY <1>1, <1>2, <1>3, <1>4 DEF IInv, StepInv, PromptsRead, Moved, Reporting, Counted, FirstDue
<1>13. SlotsTyped'
  BY <1>1 DEF IInv, CacheInv, SlotsTyped, cacheVars, slotVars
<1>14. PastRight'
  <2>. SUFFICES ASSUME NEW r \in ToSet(running'), slot_prepared[r] PROVE HasPast(r)'
    BY <1>1 DEF PastRight
  <2>1. r \in Requests /\ state'[r] \in {"prefill", "decode"}
    BY <1>2 DEF SchedulerBooks
  <2>2. r \notin A
    BY <1>4 DEF IInv, StepInv, LookedUp
  <2>3. r \in ToSet(running) /\ state'[r] = state[r] /\ batch_idx'[r] = batch_idx[r]
    BY <1>2, <1>3, <2>1, <2>2 DEF SchedulerBooks
  <2>4. HasPast(r)
    BY <1>1, <2>3 DEF IInv, CacheInv, PastRight
  <2>5. ~IsFed(r) /\ ~IsFed(r)'
    BY <1>1 DEF IsFed, Fed
  <2>. QED  BY <1>1, <1>2, <2>1, <2>3, <2>4, <2>5, PastStays DEF cacheVars, slotVars
<1>15. EntriesRight' /\ CallRight'
  BY <1>1, CacheStays
<1>. QED  BY <1>2, <1>7, <1>8, <1>9, <1>10, <1>11, <1>12, <1>13, <1>14, <1>15
          DEF IInv, StepInv, CacheInv
-----------------------------------------------------------------------------
(* Preparing the rows of a prefill batch. *)

(* The row a lookup is for, or that has none, becomes prepared: its slot holds
   the first n tokens of its prompt, and prefill goes on from there. *)
LEMMA PreparedRowKeeps ==
  ASSUME IInv, pc \in {"prepare", "load"}, at <= Len(rows), ~slot_prepared[Row],
         NEW n \in Nat, n < Len(Prompt[Row]), n <= MaxSeqLen,
         NEW p \in Seq(KV), Len(p) = n, \A j \in 1..n : p[j] = SubSeq(Prompt[Row], 1, j),
         prefill_offset' = [prefill_offset EXCEPT ![Row] = n],
         past' = [past EXCEPT ![RowSlot] = p], pos' = [pos EXCEPT ![RowSlot] = n],
         call' = C!Idle, Prepared, NextRow("prepare"),
         UNCHANGED <<max_concurrent_requests, max_tokens_per_step, waiting, running, completed,
                     failed, free_slots, state, batch_idx, prefill_chunk_size, num_generated,
                     prefill_requests, decode_requests, rejected, prefixVars>>
  PROVE  IInv'
<1>1. /\ at \in DOMAIN rows /\ Row \in Requests /\ Row \in ToSet(running) /\ RowSlot \in Slots
      /\ \A r \in ToSet(running) : r # Row => batch_idx[r] # RowSlot
      /\ DOMAIN rows = 1..Len(rows) /\ at \in Nat /\ Len(rows) \in Nat
  BY RowFacts, RowsAreRequests DEF Engaged, IInv, StepInv
<1>2. /\ pc' = "prepare" /\ at' = at + 1 /\ rows' = rows
      /\ slot_prepared' = [slot_prepared EXCEPT ![Row] = TRUE]
  BY DEF NextRow, Prepared
<1>3. IsPrefill(Row)
  BY <1>1 DEF IInv, StepInv, Batches, Row
<1>4. SchedulerBooks /\ slot_prepared \in [Requests -> BOOLEAN]
  BY Known DEF IInv, StepInv, StepTyped
<1>5. SP!IInv'
  <2>1. prefill_offset' \in [Requests -> Nat]
    BY <1>4 DEF SchedulerBooks
  <2>2. SP!TypeOK
    BY DEF IInv, SP!IInv
  <2>3. SP!TypeOK'
    BY <2>1, <2>2 DEF SP!TypeOK
  <2>. QED  BY <2>3, Assumptions, SP!QuietKeeps DEF IInv, SP!placeVars
<1>6. /\ slot_prepared'[Row] = TRUE /\ prefill_offset'[Row] = n
      /\ \A r \in Requests \ {Row} : /\ slot_prepared'[r] = slot_prepared[r]
                                     /\ prefill_offset'[r] = prefill_offset[r]
  BY <1>1, <1>2, <1>4 DEF SchedulerBooks
<1>7. StepTyped'
  BY <1>1, <1>2, <1>4 DEF IInv, StepInv, StepTyped, Engaged
<1>8. RowsRun' /\ Batches'
  BY <1>2 DEF IInv, StepInv, RowsRun, Batches, Engaged, Reporting, IsPrefill
<1>9. OffsetsFit'
  BY <1>1, <1>3, <1>6, PromptLengths DEF IInv, StepInv, OffsetsFit, IsPrefill
<1>10. LookedUp'
  <2>1. \A r \in Requests :
          /\ ~slot_prepared'[r] => prefill_offset'[r] = 0 /\ state[r] # "decode"
          /\ state[r] \in {"new", "waiting"} => ~slot_prepared'[r]
    BY <1>3, <1>6 DEF IInv, StepInv, LookedUp, IsPrefill
  <2>2. ASSUME NEW i \in DOMAIN rows, i < at + 1 PROVE slot_prepared'[rows[i]]
    <3>1. i < at \/ i = at
      BY <1>1, <2>2
    <3>2. rows[i] \in Requests
      BY RowsAreRequests DEF IInv, StepInv
    <3>. QED  BY <1>6, <3>1, <3>2 DEF IInv, StepInv, LookedUp, Row
  <2>. QED  BY <1>2, <2>1, <2>2 DEF LookedUp, Reporting
<1>11. PromptLeft' /\ PromptsRead'
  BY <1>2, <1>6 DEF IInv, StepInv, PromptLeft, PromptsRead, Moved, Reporting
<1>12. Counted'
  BY <1>2 DEF IInv, StepInv, Counted, FirstDue
<1>13. SlotsTyped'
  BY <1>1, <1>2, CacheAssumption DEF IInv, CacheInv, SlotsTyped
<1>14. PastRight'
  <2>. SUFFICES ASSUME NEW r \in ToSet(running), slot_prepared'[r] PROVE HasPast(r)'
    BY <1>2 DEF PastRight
  <2>1. ~IsFed(r) /\ ~IsFed(r)'
    BY <1>2 DEF IsFed, Fed
  <2>2. CASE r = Row
    <3>1. past'[batch_idx'[r]] = p
      BY <1>1, <2>2 DEF IInv, CacheInv, SlotsTyped, RowSlot
    <3>2. Reach(r)' = n
      BY <1>3, <1>6, <2>1, <2>2 DEF Reach, Cursor, IsPrefill
    <3>3. History(r)' = History(r)
      BY DEF History
    <3>4. \A j \in 1 .. Len(p) : p[j] = SubSeq(History(r), 1, j)
      BY <1>1, <1>4, <2>2, PromptBeginning, PromptLengths
    <3>5. Attended(r, p)
      BY <3>4, AttendedCells
    <3>. QED  BY <3>1, <3>2, <3>3, <3>5 DEF HasPast, Attended
  <2>3. CASE r # Row
    <3>1. r \in Requests /\ batch_idx[r] \in Slots /\ batch_idx[r] # RowSlot
      BY <1>1, <1>4, <2>3 DEF SchedulerBooks
    <3>2. past'[batch_idx'[r]] = past[batch_idx[r]]
      BY <3>1 DEF IInv, CacheInv, SlotsTyped
    <3>3. HasPast(r) /\ prefill_offset'[r] = prefill_offset[r]
      BY <1>6, <2>3, <3>1 DEF IInv, CacheInv, PastRight
    <3>. QED  BY <2>1, <3>1, <3>2, <3>3, PastStays
  <2>. QED  BY <2>2, <2>3
<1>15. EntriesRight' /\ CallRight'
  BY DEF IInv, CacheInv, EntriesRight, prefixVars, C!Keys, C!Key, CopyOf, CallRight
<1>. QED  BY <1>5, <1>7, <1>8, <1>9, <1>10, <1>11, <1>12, <1>13, <1>14, <1>15
          DEF IInv, StepInv, CacheInv

(* A row that has found nothing starts at the beginning, in an empty slot. *)
LEMMA ResetRowKeeps ==
  ASSUME IInv, pc \in {"prepare", "load"}, at <= Len(rows), ~slot_prepared[Row],
         ResetIfFresh, Prepared, NextRow("prepare"), call' = C!Idle,
         UNCHANGED <<schedulerVars, prefixVars>>
  PROVE  IInv'
<1>1. Row \in Requests
  BY RowFacts DEF Engaged
<1>2. prefill_offset[Row] = 0
  BY <1>1 DEF IInv, StepInv, LookedUp
<1>3. past' = [past EXCEPT ![RowSlot] = <<>>] /\ pos' = [pos EXCEPT ![RowSlot] = 0]
  BY <1>2 DEF ResetIfFresh, C!ResetSlot
<1>4. prefill_offset' = [prefill_offset EXCEPT ![Row] = 0]
  BY <1>1, <1>2, Known DEF SchedulerBooks, schedulerVars
<1>5. 0 < Len(Prompt[Row]) /\ 0 <= MaxSeqLen /\ <<>> \in Seq(KV) /\ Len(<<>>) = 0
  BY <1>1, PromptLengths, CacheAssumption, EmptySeq
<1>6. \A j \in 1..0 : <<>>[j] = SubSeq(Prompt[Row], 1, j)
  OBVIOUS
<1>7. UNCHANGED <<max_concurrent_requests, max_tokens_per_step, waiting, running, completed,
                  failed, free_slots, state, batch_idx, prefill_chunk_size, num_generated,
                  prefill_requests, decode_requests, rejected, prefixVars>>
  BY DEF schedulerVars
<1>. QED  BY <1>3, <1>4, <1>5, <1>6, <1>7, PreparedRowKeeps

LEMMA PrepareRowKeeps == ASSUME IInv, PrepareRow PROVE IInv'
<1>1. /\ pc = "prepare" /\ at <= Len(rows) /\ ~slot_prepared[Row]
      /\ UNCHANGED <<schedulerVars, prefixVars>>
  BY DEF PrepareRow, AtRow
<1>2. call = C!Idle
  BY <1>1, NoCall DEF IInv, CacheInv
<1>3. CASE ~EnablePrefixCache
  BY <1>1, <1>2, <1>3, ResetRowKeeps DEF PrepareRow
<1>4. CASE EnablePrefixCache
  <2>1. /\ call' = [op |-> "lookup", slot |-> RowSlot, tokens |-> Prompt[Row], next |-> 1]
        /\ pc' = "load" /\ UNCHANGED <<rows, at, slotVars, slot_prepared>>
    BY <1>4 DEF PrepareRow, C!TryLoadPrefix, C!Call, Goto
  <2>2. at \in DOMAIN rows /\ Row \in Requests
    BY <1>1, RowFacts DEF Engaged
  <2>3. StepTyped' /\ OffsetsFit'
    BY <1>1, <2>1 DEF IInv, StepInv, StepTyped, OffsetsFit, schedulerVars, Engaged
  <2>4. RowsRun' /\ Batches'
    BY <1>1, <2>1 DEF IInv, StepInv, RowsRun, Batches, schedulerVars, Engaged, Reporting, IsPrefill
  <2>5. LookedUp' /\ PromptLeft' /\ PromptsRead' /\ Counted'
    BY <1>1, <2>1 DEF IInv, StepInv, LookedUp, PromptLeft, PromptsRead, Counted, FirstDue, Moved,
       schedulerVars, Reporting, Row
  <2>6. EntriesRight'
    BY <1>1 DEF IInv, CacheInv, EntriesRight, prefixVars, C!Keys, C!Key, CopyOf
  <2>7. CallRight'
    <3>1. 1 - 1 <= C!MaxFullBlocks(Prompt[Row])
      BY <2>2, BlocksInPrompt DEF C!MaxFullBlocks
    <3>2. Row' = Row /\ RowSlot' = RowSlot
      BY <1>1, <2>1 DEF Row, RowSlot, schedulerVars
    <3>3. call'.op = "lookup" /\ call'.next = 1
      BY <2>1
    <3>. QED  BY <1>4, <2>1, <2>2, <3>1, <3>2, <3>3 DEF CallRight, C!MaxFullBlocks
  <2>8. \A r \in ToSet(running) : ~IsFed(r) /\ ~IsFed(r)'
    BY <1>1, <2>1 DEF IsFed, Fed
  <2>. QED  BY <1>1, <2>1, <2>3, <2>4, <2>5, <2>6, <2>7, <2>8, QuietKeeps DEF StepInv
<1>. QED  BY <1>3, <1>4

LEMMA PrefixMissedKeeps == ASSUME IInv, PrefixMissed PROVE IInv'
<1>1. /\ pc = "load" /\ at <= Len(rows) /\ call' = C!Idle
      /\ ResetIfFresh /\ Prepared /\ NextRow("prepare")
      /\ UNCHANGED <<schedulerVars, prefixVars>>
  BY DEF PrefixMissed, AtRow, C!LoadMiss
<1>2. ~slot_prepared[Row]
  BY <1>1 DEF IInv, StepInv, LookedUp
<1>. QED  BY <1>1, <1>2, ResetRowKeeps
(* One block more. *)
LEMMA NextBlock ==
  ASSUME NEW i \in Nat \ {0}, NEW d \in Nat
  PROVE  (i - 1) * d \in Nat /\ i * d \in Nat /\ i * d = (i - 1) * d + d
<1>1. PICK m \in Nat : i = m + 1
  <2>1. i - 1 \in Nat /\ i = (i - 1) + 1
    OBVIOUS
  <2>. QED  BY <2>1
<1>2. m * d \in Nat /\ (m + 1) * d = m * d + d
  OBVIOUS
<1>3. i - 1 = m
  BY <1>1
<1>. QED  BY <1>1, <1>2, <1>3

Flats(q, g) ==
  g = [i \in 1 .. Len(q) |-> IF i = 1 THEN q[i] ELSE g[i - 1] \o q[i]]

(* q is p in n parts of d elements each, the i-th of them ending at w[i]. *)
Parts(T, p, q, n, d, w) ==
  /\ n \in Nat \ {0} /\ d \in Nat \ {0}
  /\ w \in [0..n -> Nat] /\ w[0] = 0 /\ w[n] = Len(p)
  /\ \A i \in 1..n : w[i] = w[i - 1] + d /\ w[i] <= Len(p)
  /\ p \in Seq(T) /\ q \in Seq(Seq(T)) /\ Len(q) = n
  /\ \A i \in 1..n : Len(q[i]) = d /\ \A j \in 1..d : q[i][j] = p[w[i - 1] + j]

(* The parts one after the other are the sequence they were cut from. *)
LEMMA FlattenParts ==
  ASSUME NEW T, NEW p, NEW q, NEW n, NEW d, NEW w, Parts(T, p, q, n, d, w)
  PROVE  FlattenSeq(q) = p
<1>. /\ n \in Nat \ {0} /\ d \in Nat \ {0}
     /\ w \in [0..n -> Nat] /\ w[0] = 0 /\ w[n] = Len(p)
     /\ \A i \in 1..n : w[i] = w[i - 1] + d /\ w[i] <= Len(p)
     /\ p \in Seq(T) /\ q \in Seq(Seq(T)) /\ Len(q) = n
     /\ \A i \in 1..n : Len(q[i]) = d /\ \A j \in 1..d : q[i][j] = p[w[i - 1] + j]
  BY DEF Parts
<1>. DEFINE f == [i \in 1..n |-> SubSeq(p, 1, w[i])]
            g == CHOOSE g : Flats(q, g)
<1>1. \A i \in 1..n : q[i] \in Seq(T)
  BY ElementOfSeq
<1>2. ASSUME NEW i \in 1..n
      PROVE  SubSeq(p, 1, w[i]) = SubSeq(p, 1, w[i - 1]) \o q[i]
  <2>1. w[i - 1] \in Nat
    OBVIOUS
  <2>2. PICK a \in Nat : a = w[i - 1] /\ w[i] = a + d
    BY <2>1
  <2>3. a + d <= Len(p)
    BY <2>2
  <2>4. SubSeq(q[i], 1, d) = q[i]
    BY <1>1, SubSeqFull
  <2>5. \A j \in 1..d : q[i][j] = p[a + j]
    BY <2>2
  <2>6. SubSeq(p, 1, a) \o SubSeq(q[i], 1, d) = SubSeq(p, 1, a + d)
    <3>1. PICK t \in Seq(T) : t = q[i]
      BY <1>1
    <3>2. d <= Len(t) /\ \A j \in 1..d : t[j] = p[a + j]
      BY <2>5, <3>1
    <3>3. p \in Seq(T) /\ t \in Seq(T) /\ a \in Nat /\ d \in Nat \ {0}
      OBVIOUS
    <3>4. SubSeq(p, 1, a) \o SubSeq(t, 1, d) = SubSeq(p, 1, a + d)
      BY ONLY <2>3, <3>2, <3>3, Continued
    <3>. QED  BY <3>1, <3>4
  <2>. QED  BY <2>2, <2>4, <2>6
<1>3. ASSUME NEW i \in 1..n PROVE f[i] = IF i = 1 THEN q[i] ELSE f[i - 1] \o q[i]
  <2>1. CASE i = 1
    <3>1. SubSeq(p, 1, w[1]) = SubSeq(p, 1, 0) \o q[1]
      <4>1. SubSeq(p, 1, w[i]) = SubSeq(p, 1, w[i - 1]) \o q[i]
        BY <1>2, Zenon
      <4>2. w[i - 1] = 0 /\ w[i] = w[1] /\ q[i] = q[1]
        BY <2>1
      <4>. QED  BY ONLY <4>1, <4>2
    <3>2. SubSeq(p, 1, 0) = <<>> /\ <<>> \o q[1] = q[1]
      BY <1>1, <2>1, SubSeqEmpty, ConcatEmptySeq
    <3>. QED  BY <2>1, <3>1, <3>2
  <2>2. CASE i # 1
    <3>1. i - 1 \in 1..n
      BY <2>2
    <3>2. f[i] = SubSeq(p, 1, w[i]) /\ f[i - 1] = SubSeq(p, 1, w[i - 1])
      BY <3>1
    <3>. QED  BY <1>2, <2>2, <3>2
  <2>. QED  BY <2>1, <2>2
<1>4. f[n] = p
  <2>1. SubSeq(p, 1, Len(p)) = p
    BY SubSeqFull
  <2>. QED  BY <2>1
<1>5. f = [i \in 1..n |-> f[i]]
  OBVIOUS
<1>. HIDE DEF f
<1>6. Flats(q, f)
  BY <1>3, <1>5 DEF Flats
<1>7. Flats(q, g)
  BY <1>6
<1>8. FlattenSeq(q) = g[n]
  BY DEF FlattenSeq, Flats
<1>. HIDE DEF g
<1>9. ASSUME NEW i \in 1..n PROVE g[i] = IF i = 1 THEN q[i] ELSE g[i - 1] \o q[i]
  BY <1>7 DEF Flats
<1>. DEFINE E == {k \in 0..n : k # 0 => g[k] = f[k]}
<1>10. ASSUME NEW k \in 0..(n - 1), k \in E PROVE k + 1 \in E
  <2>1. k + 1 \in 1..n /\ (k + 1) - 1 = k /\ (k = 0 <=> k + 1 = 1)
    OBVIOUS
  <2>2. /\ g[k + 1] = IF k = 0 THEN q[k + 1] ELSE g[k] \o q[k + 1]
        /\ f[k + 1] = IF k = 0 THEN q[k + 1] ELSE f[k] \o q[k + 1]
    <3>1. g[k + 1] = IF k + 1 = 1 THEN q[k + 1] ELSE g[(k + 1) - 1] \o q[k + 1]
      BY <1>9, <2>1
    <3>2. f[k + 1] = IF k + 1 = 1 THEN q[k + 1] ELSE f[(k + 1) - 1] \o q[k + 1]
      BY <1>3, <2>1
    <3>. QED  BY <2>1, <3>1, <3>2
  <2>3. k # 0 => g[k] = f[k]
    BY <1>10
  <2>4. g[k + 1] = f[k + 1]
    BY <2>2, <2>3
  <2>. QED  BY <2>1, <2>4
<1>11. n \in E
  <2>1. 0 \in E /\ n \in Nat
    OBVIOUS
  <2>. HIDE DEF E
  <2>2. \A k \in 0..n : k \in E
    BY <1>10, <2>1, Assumptions, SP!UpTo
  <2>. QED  BY <2>2
<1>. QED  BY <1>4, <1>8, <1>11

(* The same, with where a part ends as a product. *)
Blocks(T, p, q, n, d) ==
  /\ n \in Nat \ {0} /\ d \in Nat \ {0} /\ n * d = Len(p)
  /\ p \in Seq(T) /\ q \in Seq(Seq(T)) /\ Len(q) = n
  /\ \A i \in 1..n : Len(q[i]) = d /\ \A j \in 1..d : q[i][j] = p[(i - 1) * d + j]

LEMMA FlattenBlocks ==
  ASSUME NEW T, NEW p, NEW q, NEW n, NEW d, Blocks(T, p, q, n, d)
  PROVE  FlattenSeq(q) = p
<1>. /\ n \in Nat \ {0} /\ d \in Nat \ {0} /\ n * d = Len(p)
     /\ p \in Seq(T) /\ q \in Seq(Seq(T)) /\ Len(q) = n
     /\ \A i \in 1..n : Len(q[i]) = d /\ \A j \in 1..d : q[i][j] = p[(i - 1) * d + j]
  BY DEF Blocks
<1>. DEFINE w == [i \in 0..n |-> i * d]
<1>1. ASSUME NEW i \in 0..n PROVE i * d \in Nat /\ i * d <= n * d
  <2>1. PICK e \in Nat : n = i + e
    <3>1. n - i \in Nat /\ n = i + (n - i)
      OBVIOUS
    <3>. QED  BY <3>1
  <2>2. i * d \in Nat /\ e * d \in Nat /\ (i + e) * d = i * d + e * d
    OBVIOUS
  <2>. QED  BY <2>1, <2>2
<1>2. w \in [0..n -> Nat] /\ w[0] = 0 /\ w[n] = n * d
  BY <1>1
<1>3. ASSUME NEW i \in 1..n PROVE w[i] = w[i - 1] + d /\ w[i] <= n * d /\ w[i - 1] = (i - 1) * d
  <2>1. PICK m \in Nat : i = m + 1
    <3>1. i - 1 \in Nat /\ i = (i - 1) + 1
      OBVIOUS
    <3>. QED  BY <3>1
  <2>2. (m + 1) * d = m * d + d
    OBVIOUS
  <2>3. i - 1 = m /\ i - 1 \in 0..n /\ i \in 0..n
    BY <2>1
  <2>4. w[i] = i * d /\ w[i - 1] = (i - 1) * d
    BY <2>3
  <2>5. i * d <= n * d /\ i * d = (m + 1) * d /\ (i - 1) * d = m * d
    BY <1>1, <2>1, <2>3
  <2>. QED  BY <2>2, <2>4, <2>5
<1>. HIDE DEF w
<1>4. \A i \in 1..n : w[i] = w[i - 1] + d /\ w[i] <= Len(p)
  BY <1>3
<1>5. \A i \in 1..n : Len(q[i]) = d /\ \A j \in 1..d : q[i][j] = p[w[i - 1] + j]
  BY <1>3
<1>6. w \in [0..n -> Nat] /\ w[0] = 0 /\ w[n] = Len(p)
  BY <1>2
<1>7. Parts(T, p, q, n, d, w)
  BY <1>4, <1>5, <1>6 DEF Parts
<1>. QED  BY <1>7, FlattenParts
(* The call of a lookup, and what it has found. *)
LEMMA LookupFacts ==
  ASSUME IInv, call.op = "lookup"
  PROVE  /\ EnablePrefixCache /\ pc = "load" /\ at \in DOMAIN rows /\ at <= Len(rows)
         /\ Row \in Requests /\ RowSlot \in Slots
         /\ call = [op |-> "lookup", slot |-> RowSlot, tokens |-> Prompt[Row],
                    next |-> call.next]
         /\ call.next \in Nat \ {0} /\ call.next - 1 \in Nat
         /\ call.next - 1 <= C!MaxFullBlocks(Prompt[Row])
         /\ (call.next - 1) * BlockSize < Len(Prompt[Row])
         /\ \A i \in 1 .. call.next - 1 : C!Key(Prompt[Row], i) \in DOMAIN entries
<1>1. call # C!Idle
  BY DEF C!Idle
<1>2. /\ EnablePrefixCache /\ pc = "load" /\ at \in DOMAIN rows
      /\ call = [op |-> "lookup", slot |-> RowSlot, tokens |-> Prompt[Row],
                 next |-> call.next]
      /\ call.next \in Nat \ {0}
      /\ call.next - 1 <= C!MaxFullBlocks(Prompt[Row])
      /\ \A i \in 1 .. call.next - 1 : C!Key(Prompt[Row], i) \in DOMAIN entries
  BY <1>1 DEF IInv, CacheInv, CallRight
<1>3. at <= Len(rows)
  BY <1>2, RowsAreRequests DEF IInv, StepInv
<1>4. Row \in Requests /\ RowSlot \in Slots
  BY <1>2, <1>3, RowFacts DEF Engaged
<1>5. call.next - 1 \in Nat
  BY <1>2
<1>6. (call.next - 1) * BlockSize < Len(Prompt[Row])
  BY <1>2, <1>4, <1>5, BlocksInPrompt
<1>. QED  BY <1>2, <1>3, <1>4, <1>5, <1>6

LEMMA MoveToEndKeeps ==
  ASSUME EntriesRight, NEW k, C!MoveToEnd(k), UNCHANGED <<entries, memory>>
  PROVE  EntriesRight'
<1>1. PICK i \in DOMAIN lru : lru' = C!Renewed(lru, i)
  BY DEF C!MoveToEnd
<1>2. /\ lru' \in Seq(DOMAIN entries) /\ Len(lru') = Len(lru)
      /\ ToSet(lru') = ToSet(lru) /\ IsInjective(lru')
  BY <1>1, RenewedKeepsKeys DEF EntriesRight
<1>. QED  BY <1>2 DEF EntriesRight, C!Keys, C!Key, CopyOf

LEMMA LookupBlockKeeps == ASSUME IInv, LookupBlock PROVE IInv'
<1>1. /\ pc = "load" /\ C!MatchBlock
      /\ UNCHANGED <<schedulerVars, slotVars, slot_prepared, pc, rows, at>>
  BY DEF LookupBlock, AtRow, stepVars
<1>2. /\ call.op = "lookup" /\ C!Matches /\ C!MoveToEnd(C!NextKey)
      /\ call' = [call EXCEPT !.next = @ + 1]
      /\ UNCHANGED <<entries, memory>>
  BY <1>1 DEF C!MatchBlock
<1>3. /\ EnablePrefixCache /\ at \in DOMAIN rows /\ Row \in Requests
      /\ call = [op |-> "lookup", slot |-> RowSlot, tokens |-> Prompt[Row],
                 next |-> call.next]
      /\ call.next \in Nat \ {0}
      /\ \A i \in 1 .. call.next - 1 : C!Key(Prompt[Row], i) \in DOMAIN entries
  BY <1>2, LookupFacts
<1>4. PICK n \in Nat \ {0} : n = call.next
  BY <1>3
<1>5. call' = [op |-> "lookup", slot |-> RowSlot, tokens |-> Prompt[Row], next |-> n + 1]
  <2>1. call = [op |-> "lookup", slot |-> RowSlot, tokens |-> Prompt[Row], next |-> n]
    BY <1>3, <1>4
  <2>. QED  BY <1>2, <2>1
<1>6. /\ n <= C!MaxFullBlocks(Prompt[Row]) /\ C!Key(Prompt[Row], n) \in DOMAIN entries
      /\ \A i \in 1 .. n - 1 : C!Key(Prompt[Row], i) \in DOMAIN entries
  <2>1. call.tokens = Prompt[Row]
    BY <1>3
  <2>. QED  BY <1>2, <1>3, <1>4, <2>1 DEF C!Matches, C!NextKey
<1>7. CallRight'
  <2>1. Row' = Row /\ RowSlot' = RowSlot /\ Prompt[Row'] = Prompt[Row]
    BY <1>1 DEF Row, RowSlot, schedulerVars
  <2>2. \A i \in 1..n : C!Key(Prompt[Row], i) \in DOMAIN entries
    <3>1. \A i \in 1..n : i \in 1 .. n - 1 \/ i = n
      OBVIOUS
    <3>. QED  BY <1>6, <3>1
  <2>3. /\ call'.op = "lookup" /\ call'.next = n + 1 /\ n + 1 \in Nat \ {0} /\ (n + 1) - 1 = n
    BY <1>5
  <2>4. C!MaxFullBlocks(Prompt[Row])' = C!MaxFullBlocks(Prompt[Row])
    BY <2>1 DEF C!MaxFullBlocks
  <2>5. \A i : C!Key(Prompt[Row], i)' = C!Key(Prompt[Row], i)
    BY <2>1 DEF C!Key
  <2>. QED  BY <1>1, <1>2, <1>3, <1>5, <1>6, <2>1, <2>2, <2>3, <2>4, <2>5 DEF CallRight
<1>8. EntriesRight'
  BY <1>2, MoveToEndKeeps DEF IInv, CacheInv
<1>9. StepInv'
  BY <1>1 DEF IInv, StepInv, StepTyped, RowsRun, Batches, OffsetsFit, LookedUp, PromptLeft,
     PromptsRead, Moved, Counted, FirstDue, Row, IsPrefill, schedulerVars
<1>10. \A r \in ToSet(running) : IsFed(r)' <=> IsFed(r)
  BY <1>1 DEF IsFed, Fed
<1>. QED  BY <1>1, <1>7, <1>8, <1>9, <1>10, QuietKeeps

LEMMA SameFlatten == \A q : C!FlattenSeq(q) = FlattenSeq(q)
BY DEF C!FlattenSeq, FlattenSeq

(* What a hit puts into the slot: the prompt's beginning, block by block. *)
LEMMA MatchedPast ==
  ASSUME IInv, call.op = "lookup", C!Matched # <<>>
  PROVE  LET n == (call.next - 1) * BlockSize
             p == FlattenSeq(C!Matched)
         IN /\ n \in Nat /\ n < Len(Prompt[Row]) /\ n <= MaxSeqLen
            /\ p \in Seq(KV) /\ Len(p) = n
            /\ \A j \in 1..n : p[j] = SubSeq(Prompt[Row], 1, j)
<1>1. /\ Row \in Requests
      /\ call = [op |-> "lookup", slot |-> RowSlot, tokens |-> Prompt[Row],
                 next |-> call.next]
      /\ call.next - 1 \in Nat
      /\ (call.next - 1) * BlockSize < Len(Prompt[Row])
      /\ \A i \in 1 .. call.next - 1 : C!Key(Prompt[Row], i) \in DOMAIN entries
  BY LookupFacts
<1>2. PICK m \in Nat, d \in Nat \ {0} : m = call.next - 1 /\ d = BlockSize
  BY <1>1, CacheAssumption
<1>. DEFINE q == C!Matched
            p == [j \in 1 .. m * d |-> SubSeq(Prompt[Row], 1, j)]
<1>3. q = [i \in 1..m |-> entries[C!Key(Prompt[Row], i)]]
  <2>1. call.tokens = Prompt[Row]
    BY <1>1
  <2>. QED  BY <1>2, <2>1 DEF C!Matched
<1>4. m # 0
  BY <1>3
<1>5. ASSUME NEW i \in 1..m
      PROVE  /\ i * d <= m * d /\ i * d \in Nat /\ (i - 1) * d \in Nat
             /\ i * d = (i - 1) * d + d
  <2>1. PICK e \in Nat : m = i + e
    <3>1. m - i \in Nat /\ m = i + (m - i)
      OBVIOUS
    <3>. QED  BY <3>1
  <2>2. i * d \in Nat /\ e * d \in Nat /\ (i + e) * d = i * d + e * d
    OBVIOUS
  <2>3. i \in Nat \ {0}
    OBVIOUS
  <2>. QED  BY <2>1, <2>2, <2>3, NextBlock
<1>6. m * d \in Nat /\ m * d < Len(Prompt[Row]) /\ Len(Prompt[Row]) \in Nat
  BY <1>1, <1>2, PromptLengths
<1>7. ASSUME NEW j \in 1 .. m * d PROVE SubSeq(Prompt[Row], 1, j) \in KV
  <2>1. j \in Nat /\ j <= Len(Prompt[Row])
    BY <1>6
  <2>2. \A l \in 1..j : Prompt[Row][l] \in Token \cup {Sampled}
    BY <1>1, <2>1, PromptLengths, ElementOfSeq
  <2>. QED  BY <2>1, <2>2, SubSeqProperties DEF KV
<1>8. p \in Seq(KV) /\ Len(p) = m * d /\ \A j \in 1 .. m * d : p[j] = SubSeq(Prompt[Row], 1, j)
  BY <1>6, <1>7
<1>9. ASSUME NEW i \in 1..m
      PROVE  /\ q[i] \in Seq(KV) /\ Len(q[i]) = d
             /\ \A j \in 1..d : q[i][j] = p[(i - 1) * d + j]
  <2>. DEFINE k == C!Key(Prompt[Row], i)
  <2>1. i \in Nat /\ i * BlockSize <= Len(Prompt[Row])
    BY <1>2, <1>5, <1>6
  <2>2. k \in DOMAIN entries /\ q[i] = entries[k]
    BY <1>1, <1>2, <1>3
  <2>3. PICK a \in Nat : a = (i - 1) * d /\ i * d = a + d /\ a + d <= m * d
    BY <1>5
  <2>4. Len(k) = a + d /\ \A l \in 0 .. a + d : SubSeq(k, 1, l) = SubSeq(Prompt[Row], 1, l)
    BY <1>1, <1>2, <2>1, <2>3, KeyFacts
  <2>5. q[i] = [j \in 1..d |-> SubSeq(k, 1, Len(k) - d + j)]
    BY <1>2, <2>2 DEF IInv, CacheInv, EntriesRight, CopyOf
  <2>. HIDE DEF k, q, p
  <2>6. \A j \in 1..d : Len(k) - d + j = a + j /\ a + j \in 0 .. a + d /\ a + j \in 1 .. m * d
    BY <1>6, <2>3, <2>4
  <2>7. ASSUME NEW j \in 1..d PROVE q[i][j] = p[a + j] /\ q[i][j] \in KV
    <3>1. q[i][j] = SubSeq(k, 1, a + j)
      BY <2>5, <2>6
    <3>2. SubSeq(k, 1, a + j) = SubSeq(Prompt[Row], 1, a + j)
      BY <2>4, <2>6
    <3>3. p[a + j] = SubSeq(Prompt[Row], 1, a + j)
      BY <1>8, <2>6
    <3>. QED  BY <1>7, <2>6, <3>1, <3>2, <3>3
  <2>8. q[i] = [j \in 1..d |-> q[i][j]]
    BY <2>5
  <2>9. q[i] \in Seq(KV) /\ Len(q[i]) = d
    BY <2>7, <2>8
  <2>. QED  BY <2>3, <2>7, <2>9
<1>10. q \in Seq(Seq(KV)) /\ Len(q) = m
  <2>1. q = [i \in 1..m |-> q[i]]
    BY <1>3
  <2>. HIDE DEF q
  <2>. QED  BY <1>9, <2>1
<1>11. FlattenSeq(q) = p
  <2>. HIDE DEF q, p
  <2>1. m \in Nat \ {0} /\ m * d = Len(p) /\ p \in Seq(KV)
    BY <1>4, <1>8
  <2>2. Blocks(KV, p, q, m, d)
    BY <1>9, <1>10, <2>1 DEF Blocks
  <2>. QED  BY <2>2, FlattenBlocks
<1>12. m * d <= MaxSeqLen
  <2>1. m \in Nat /\ m * BlockSize <= Len(Prompt[Row]) /\ m \in 1..m
    <3>1. m * d <= Len(Prompt[Row])
      BY <1>6
    <3>2. m \in 1..m
      BY <1>4
    <3>. QED  BY <1>2, <3>1, <3>2
  <2>2. C!Key(Prompt[Row], m) \in DOMAIN entries
    BY <1>1, <1>2, <2>1
  <2>3. Len(C!Key(Prompt[Row], m)) = m * BlockSize
    BY <1>1, <2>1, KeyFacts
  <2>4. Len(C!Key(Prompt[Row], m)) <= MaxSeqLen
    BY <2>2 DEF IInv, CacheInv, EntriesRight
  <2>. QED  BY <1>2, <2>3, <2>4
<1>. HIDE DEF p, q
<1>. QED  BY <1>2, <1>6, <1>8, <1>11, <1>12 DEF q

LEMMA LoadedPrefixKeeps == ASSUME IInv, LoadedPrefix PROVE IInv'
<1>. DEFINE p == FlattenSeq(C!Matched)
            n == (call.next - 1) * BlockSize
<1>1. /\ pc = "load" /\ at <= Len(rows) /\ C!LoadHit
      /\ prefill_offset' = [prefill_offset EXCEPT ![Row] = pos'[RowSlot]]
      /\ Prepared /\ NextRow("prepare")
      /\ UNCHANGED <<max_concurrent_requests, max_tokens_per_step, waiting, running, completed,
                     failed, free_slots, state, batch_idx, prefill_chunk_size, num_generated,
                     prefill_requests, decode_requests, rejected, prefixVars>>
  BY DEF LoadedPrefix, AtRow
<1>2. /\ call.op = "lookup" /\ C!Matched # <<>> /\ call' = C!Idle
      /\ past' = [past EXCEPT ![call.slot] = p]
      /\ pos' = [pos EXCEPT ![call.slot] = Len(p)]
  BY <1>1, SameFlatten DEF C!LoadHit
<1>3. /\ n \in Nat /\ n < Len(Prompt[Row]) /\ n <= MaxSeqLen
      /\ p \in Seq(KV) /\ Len(p) = n
      /\ \A j \in 1..n : p[j] = SubSeq(Prompt[Row], 1, j)
  BY <1>2, MatchedPast
<1>4. call.slot = RowSlot /\ RowSlot \in Slots
  BY <1>2, LookupFacts
<1>. HIDE DEF p, n
<1>5. past' = [past EXCEPT ![RowSlot] = p] /\ pos' = [pos EXCEPT ![RowSlot] = n]
  BY <1>2, <1>3, <1>4
<1>6. prefill_offset' = [prefill_offset EXCEPT ![Row] = n]
  BY <1>1, <1>4, <1>5 DEF IInv, CacheInv, SlotsTyped
<1>7. ~slot_prepared[Row]
  BY <1>1 DEF IInv, StepInv, LookedUp
<1>. QED  BY <1>1, <1>2, <1>3, <1>5, <1>6, <1>7, PreparedRowKeeps
-----------------------------------------------------------------------------
(* The model's run over a batch. *)

(* What the model makes of a past p when it is fed the tokens t. *)
Fill(p, t) ==
  p \o [i \in 1 .. Len(t) |-> (IF p = <<>> THEN <<>> ELSE Last(p)) \o SubSeq(t, 1, i)]

Follows(T, h, p, t) ==
  /\ h \in Seq(T) /\ p \in Seq(Seq(T)) /\ t \in Seq(T)
  /\ Len(p) + Len(t) <= Len(h)
  /\ \A j \in 1 .. Len(p) : p[j] = SubSeq(h, 1, j)
  /\ \A j \in 1 .. Len(t) : t[j] = h[Len(p) + j]

LEMMA FilledPast ==
  ASSUME NEW T, NEW h, NEW p, NEW t, Follows(T, h, p, t)
  PROVE  /\ Fill(p, t) \in Seq(Seq(T)) /\ Len(Fill(p, t)) = Len(p) + Len(t)
         /\ \A j \in 1 .. Len(p) + Len(t) : Fill(p, t)[j] = SubSeq(h, 1, j)
<1>. DEFINE x == IF p = <<>> THEN <<>> ELSE Last(p)
            y == [i \in 1 .. Len(t) |-> x \o SubSeq(t, 1, i)]
<1>0. /\ h \in Seq(T) /\ p \in Seq(Seq(T)) /\ t \in Seq(T)
      /\ Len(p) + Len(t) <= Len(h)
      /\ \A j \in 1 .. Len(p) : p[j] = SubSeq(h, 1, j)
      /\ \A j \in 1 .. Len(t) : t[j] = h[Len(p) + j]
  BY DEF Follows
<1>1. PICK c \in Nat, m \in Nat : c = Len(p) /\ m = Len(t)
  BY <1>0, LenProperties
<1>2. x = SubSeq(h, 1, c)
  <2>1. CASE p = <<>>
    <3>1. c = 0
      BY <1>1, <2>1
    <3>. QED  BY <1>0, <2>1, <3>1, SubSeqEmpty
  <2>2. CASE p # <<>>
    <3>1. c \in 1..c
      BY <1>0, <1>1, <2>2, EmptySeq
    <3>. QED  BY <1>0, <1>1, <2>2, <3>1 DEF Last
  <2>. QED  BY <2>1, <2>2
<1>. HIDE DEF x
<1>3. ASSUME NEW i \in 1..m PROVE x \o SubSeq(t, 1, i) = SubSeq(h, 1, c + i)
  <2>1. /\ i \in Nat \ {0} /\ i <= Len(t) /\ c + i <= Len(h)
        /\ \A j \in 1..i : t[j] = h[c + j]
    BY <1>0, <1>1, LenProperties
  <2>2. SubSeq(h, 1, c) \o SubSeq(t, 1, i) = SubSeq(h, 1, c + i)
    BY <1>0, <2>1, Continued
  <2>. QED  BY <1>2, <2>2
<1>4. ASSUME NEW j \in 1 .. c + m PROVE SubSeq(h, 1, j) \in Seq(T)
  <2>1. \A l \in 1..j : h[l] \in T
    BY <1>0, <1>1, LenProperties, ElementOfSeq
  <2>. QED  BY <2>1, SubSeqProperties
<1>5. /\ y \in Seq(Seq(T)) /\ Len(y) = m
      /\ \A i \in 1..m : y[i] = SubSeq(h, 1, c + i)
  <2>1. y = [i \in 1..m |-> SubSeq(h, 1, c + i)]
    BY <1>1, <1>3
  <2>2. \A i \in 1..m : y[i] = SubSeq(h, 1, c + i)
    BY <2>1
  <2>3. y = [i \in 1..m |-> y[i]]
    BY <2>1
  <2>. HIDE DEF y
  <2>4. \A i \in 1..m : y[i] \in Seq(T)
    <3>1. ASSUME NEW i \in 1..m PROVE c + i \in 1 .. c + m
      OBVIOUS
    <3>. QED  BY <1>4, <2>2, <3>1
  <2>5. y \in Seq(Seq(T)) /\ Len(y) = m
    BY ONLY <2>3, <2>4
  <2>. QED  BY <2>2, <2>5
<1>. HIDE DEF y
<1>6. Fill(p, t) = p \o y
  BY DEF Fill, x, y
<1>7. /\ p \o y \in Seq(Seq(T)) /\ Len(p \o y) = c + m
      /\ \A j \in 1 .. c + m : (p \o y)[j] = IF j <= c THEN p[j] ELSE y[j - c]
  <2>1. p \in Seq(Seq(T)) /\ Len(p) = c
    BY <1>0, <1>1
  <2>2. /\ p \o y \in Seq(Seq(T)) /\ Len(p \o y) = Len(p) + Len(y)
        /\ \A j \in 1 .. Len(p) + Len(y) :
             (p \o y)[j] = IF j <= Len(p) THEN p[j] ELSE y[j - Len(p)]
    BY ONLY <1>5, <2>1, ConcatProperties
  <2>. QED  BY <1>5, <2>1, <2>2
<1>8. ASSUME NEW j \in 1 .. c + m PROVE (p \o y)[j] = SubSeq(h, 1, j)
  <2>1. CASE j <= c
    BY <1>0, <1>1, <1>7, <2>1
  <2>2. CASE ~(j <= c)
    <3>1. j - c \in 1..m /\ c + (j - c) = j
      BY <2>2
    <3>. QED  BY <1>5, <1>7, <2>2, <3>1
  <2>. QED  BY <2>1, <2>2
<1>. QED  BY <1>1, <1>6, <1>7, <1>8

(* The tokens of a row are the ones that follow what its request has read. *)
LEMMA RowTokensFacts ==
  ASSUME IInv, pc \in {"forward", "advance"}, at <= Len(rows)
  PROVE  /\ RowTokens \in Seq(Token \cup {Sampled}) /\ Len(RowTokens) = ValidLen(Row)
         /\ ValidLen(Row) \in Nat /\ Cursor(Row) \in Nat
         /\ Cursor(Row) + ValidLen(Row) <= Len(History(Row))
         /\ pc = "forward" => ValidLen(Row) # 0
         /\ \A j \in 1 .. ValidLen(Row) : RowTokens[j] = History(Row)[Cursor(Row) + j]
         /\ IsPrefill(Row) => Cursor(Row) + ValidLen(Row) <= Len(Prompt[Row])
         /\ ~IsPrefill(Row) => /\ Row \in decode_requests
                               /\ Cursor(Row) + ValidLen(Row) <= Len(Prompt[Row]) + MaxNew[Row] - 1
<1>1. at \in DOMAIN rows /\ Row \in Requests
  BY RowFacts DEF Engaged
<1>. DEFINE h == History(Row)
            p == Prompt[Row]
            T == Token \cup {Sampled}
<1>2. /\ h \in Seq(T) /\ Len(h) = Len(p) + num_generated[Row] /\ Len(h) \in Nat
      /\ \A i \in 1 .. Len(p) : h[i] = p[i]
      /\ \A i \in Len(p) + 1 .. Len(h) : h[i] = Sampled
      /\ num_generated[Row] \in Nat /\ p \in Seq(T) /\ Len(p) \in Nat
  BY <1>1, HistoryFacts, Known, PromptLengths DEF SchedulerBooks
<1>. HIDE DEF h, p, T
<1>3. CASE IsPrefill(Row)
  <2>1. PICK o \in Nat, n \in Nat : /\ o = prefill_offset[Row] /\ n = S!ChunkTokens(Row)
                                    /\ o + n <= Len(p)
    BY <1>1, ChunkFits DEF p
  <2>2. pc = "forward" => n # 0
    <3>. SUFFICES ASSUME pc = "forward" PROVE n # 0
      OBVIOUS
    <3>1. prefill_offset[Row] < Len(Prompt[Row])
      BY <1>1, <1>3 DEF IInv, StepInv, PromptLeft, Moved, Reporting, IsPrefill
    <3>. QED  BY <1>1, <2>1, <3>1, ChunkPositive
  <2>3. RowTokens = SubSeq(p, o + 1, o + n)
    BY <1>3, <2>1 DEF RowTokens, p
  <2>4. Cursor(Row) = o /\ ValidLen(Row) = n
    BY <1>3, <2>1 DEF Cursor, ValidLen
  <2>5. /\ SubSeq(p, o + 1, o + n) \in Seq(T)
        /\ Len(SubSeq(p, o + 1, o + n)) = n
        /\ \A j \in 1..n : SubSeq(p, o + 1, o + n)[j] = p[o + j]
    <3>1. \A j \in o + 1 .. o + n : p[j] \in T
      BY <1>2, <2>1, ElementOfSeq
    <3>2. /\ SubSeq(p, o + 1, o + n) \in Seq(T)
          /\ Len(SubSeq(p, o + 1, o + n))
               = IF o + 1 <= o + n THEN (o + n) - (o + 1) + 1 ELSE 0
          /\ \A j \in 1 .. (o + n) - (o + 1) + 1 :
               SubSeq(p, o + 1, o + n)[j] = p[(o + 1) + j - 1]
      <4>1. PICK e, f : e = o + 1 /\ f = o + n /\ e \in Int /\ f \in Int
        OBVIOUS
      <4>2. /\ SubSeq(p, e, f) \in Seq(T)
            /\ Len(SubSeq(p, e, f)) = IF e <= f THEN f - e + 1 ELSE 0
            /\ \A j \in 1 .. f - e + 1 : SubSeq(p, e, f)[j] = p[e + j - 1]
        BY <3>1, <4>1, SubSeqProperties
      <4>. QED  BY <4>1, <4>2
    <3>3. /\ (o + n) - (o + 1) + 1 = n /\ (~(o + 1 <= o + n) => n = 0)
          /\ \A j \in 1..n : (o + 1) + j - 1 = o + j
      OBVIOUS
    <3>. QED  BY <3>2, <3>3
  <2>6. \A j \in 1..n : p[o + j] = h[o + j]
    <3>1. ASSUME NEW j \in 1..n PROVE o + j \in 1 .. Len(p)
      BY <1>2, <2>1
    <3>. QED  BY <1>2, <3>1
  <2>7. o + n <= Len(h)
    BY <1>2, <2>1
  <2>. QED  BY <1>3, <2>1, <2>2, <2>3, <2>4, <2>5, <2>6, <2>7 DEF h, p, T
<1>4. CASE ~IsPrefill(Row)
  <2>1. pc = "forward" /\ Row \in decode_requests
    BY <1>1, <1>4 DEF IInv, StepInv, Batches, Row
  <2>2. state[Row] = "decode"
    BY <2>1 DEF IInv, StepInv, Batches
  <2>3. num_generated[Row] \in 1 .. MaxNew[Row] - 1
    BY <1>1, <2>1, <2>2 DEF IInv, StepInv, Counted, FirstDue
  <2>4. RowTokens = <<Sampled>> /\ Cursor(Row) = Len(h) - 1 /\ ValidLen(Row) = 1
    BY <1>4 DEF RowTokens, Cursor, ValidLen, h
  <2>5. MaxNew[Row] \in Nat
    BY <1>1, RequestsAssumption
  <2>6. h[Len(h)] = Sampled /\ Len(h) - 1 \in Nat /\ (Len(h) - 1) + 1 = Len(h)
    BY <1>2, <2>3, <2>5
  <2>7. <<Sampled>> \in Seq(T) /\ Len(<<Sampled>>) = 1 /\ <<Sampled>>[1] = Sampled
    BY DEF T
  <2>8. Len(h) <= Len(p) + MaxNew[Row] - 1
    BY <1>2, <2>3, <2>5
  <2>9. \A j \in 1..1 : <<Sampled>>[j] = h[(Len(h) - 1) + j]
    BY <2>6, <2>7
  <2>. QED  BY <1>2, <1>4, <2>1, <2>4, <2>6, <2>7, <2>8, <2>9 DEF h, p, T
<1>. QED  BY <1>3, <1>4

LEMMA GrownFacts ==
  ASSUME IInv, pc = "forward", at <= Len(rows)
  PROVE  /\ Grown \in Seq(KV) /\ Len(Grown) = Cursor(Row) + ValidLen(Row)
         /\ Attended(Row, Grown) /\ RowTokens # <<>>
<1>1. /\ at \in DOMAIN rows /\ Row \in Requests /\ Row \in ToSet(running) /\ RowSlot \in Slots
  BY RowFacts DEF Engaged
<1>2. slot_prepared[Row]
  BY <1>1 DEF IInv, StepInv, LookedUp, Row
<1>3. ~IsFed(Row)
  <2>1. ~Fed(at)
    BY RowsAreRequests DEF Fed, IInv, StepInv
  <2>. QED  BY <1>1, <2>1, FedPlace DEF IInv, StepInv, Row
<1>. DEFINE p == past[RowSlot]
            T == Token \cup {Sampled}
<1>4. p \in Seq(KV)
  BY <1>1, SlotFacts DEF IInv, CacheInv
<1>5. Len(p) = Reach(Row) /\ Attended(Row, p)
  BY <1>1, <1>2 DEF IInv, CacheInv, PastRight, HasPast, RowSlot
<1>6. /\ RowTokens \in Seq(T) /\ Len(RowTokens) = ValidLen(Row)
      /\ ValidLen(Row) \in Nat \ {0} /\ Cursor(Row) \in Nat
      /\ Cursor(Row) + ValidLen(Row) <= Len(History(Row))
      /\ \A j \in 1 .. ValidLen(Row) : RowTokens[j] = History(Row)[Cursor(Row) + j]
  BY RowTokensFacts
<1>7. Reach(Row) = Cursor(Row)
  BY <1>3, <1>6 DEF Reach
<1>8. History(Row) \in Seq(T)
  BY <1>1, Known, HistoryFacts
<1>9. \A j \in 1 .. Len(p) : p[j] = SubSeq(History(Row), 1, j)
  BY <1>4, <1>5, AttendedCells
<1>10. Grown = Fill(p, RowTokens)
  BY DEF Grown, Context, Fill
<1>11. p \in Seq(Seq(T))
  BY <1>4 DEF KV
<1>. HIDE DEF p, T
<1>12. /\ Fill(p, RowTokens) \in Seq(Seq(T))
       /\ Len(Fill(p, RowTokens)) = Len(p) + Len(RowTokens)
       /\ \A j \in 1 .. Len(p) + Len(RowTokens) :
            Fill(p, RowTokens)[j] = SubSeq(History(Row), 1, j)
  <2>1. Len(p) + Len(RowTokens) <= Len(History(Row))
    BY <1>5, <1>6, <1>7
  <2>2. \A j \in 1 .. Len(RowTokens) : RowTokens[j] = History(Row)[Len(p) + j]
    BY <1>5, <1>6, <1>7
  <2>3. Follows(T, History(Row), p, RowTokens)
    BY <1>6, <1>8, <1>9, <1>11, <2>1, <2>2 DEF Follows
  <2>. QED  BY <2>3, FilledPast
<1>13. Grown \in Seq(KV)
  BY <1>10, <1>12 DEF KV, T
<1>14. Attended(Row, Grown)
  BY <1>10, <1>12, <1>13, AttendedCells
<1>15. RowTokens # <<>>
  BY <1>6
<1>. QED  BY <1>5, <1>6, <1>7, <1>10, <1>12, <1>13, <1>14, <1>15
(* The prefix cache when only slots move. *)
LEMMA EntriesStay ==
  ASSUME IInv, UNCHANGED <<prefixVars, call>>, pc \notin {"load", "insert"}
  PROVE  EntriesRight' /\ CallRight' /\ call' = C!Idle
<1>1. EntriesRight'
  BY DEF IInv, CacheInv, EntriesRight, prefixVars, C!Keys, C!Key, CopyOf
<1>2. call' = C!Idle
  BY NoCall DEF IInv, CacheInv
<1>. QED  BY <1>1, <1>2 DEF CallRight

LEMMA ForwardRowKeeps == ASSUME IInv, ForwardRow PROVE IInv'
<1>. DEFINE last == at = Len(rows)
<1>1. /\ pc = "forward" /\ at <= Len(rows) /\ C!SetPast(RowSlot, Grown)
      /\ at' = IF at < Len(rows) THEN at + 1 ELSE 1
      /\ pc' = IF at < Len(rows) THEN "forward"
               ELSE IF IsPrefill(Row) THEN "advance" ELSE "token"
      /\ UNCHANGED <<schedulerVars, prefixVars, call, slot_prepared, rows>>
  BY DEF ForwardRow, AtRow, NextRowOr
<1>2. /\ at \in DOMAIN rows /\ Row \in Requests /\ Row \in ToSet(running) /\ RowSlot \in Slots
      /\ \A i \in DOMAIN rows : i # at => rows[i] # Row
      /\ \A r \in ToSet(running) : r # Row => batch_idx[r] # RowSlot
      /\ DOMAIN rows = 1..Len(rows) /\ Len(rows) \in Nat /\ at \in Nat \ {0}
  BY <1>1, RowFacts, RowsAreRequests DEF Engaged, IInv, StepInv
<1>3. /\ Grown \in Seq(KV) /\ Len(Grown) = Cursor(Row) + ValidLen(Row)
      /\ Attended(Row, Grown)
  BY <1>1, GrownFacts
<1>4. /\ Len(Grown) <= MaxSeqLen
      /\ past' = [past EXCEPT ![RowSlot] = Grown]
      /\ pos' = [pos EXCEPT ![RowSlot] = Len(Grown)]
  BY <1>1 DEF C!SetPast
<1>. DEFINE g == Grown
<1>. HIDE DEF g
<1>5. SP!IInv'
  BY <1>1, SchedulerStays DEF IInv
<1>6. \/ IsPrefill(Row) /\ \A i \in DOMAIN rows : IsPrefill(rows[i])
      \/ ~IsPrefill(Row) /\ \A i \in DOMAIN rows : rows[i] \in decode_requests
  <2>1. \/ \A i \in DOMAIN rows : IsPrefill(rows[i])
        \/ \A i \in DOMAIN rows : rows[i] \in decode_requests
    BY <1>1 DEF IInv, StepInv, Batches
  <2>2. \A r \in decode_requests : ~IsPrefill(r)
    BY DEF IInv, StepInv, Batches, IsPrefill
  <2>. QED  BY <1>2, <2>1, <2>2 DEF Row
<1>7. \A r \in decode_requests : ~IsPrefill(r) /\ r \notin prefill_requests
  BY DEF IInv, StepInv, Batches, IsPrefill
<1>8. StepTyped'
  <2>1. at' \in 1..(Len(rows) + 1)
    BY <1>1, <1>2
  <2>. QED  BY <1>1, <2>1 DEF IInv, StepInv, StepTyped, Engaged, Reporting
<1>9. RowsRun'
  BY <1>1 DEF IInv, StepInv, RowsRun, Engaged, Reporting, schedulerVars
<1>10. Batches'
  <2>1. \A r \in decode_requests' : state'[r] = "decode" /\ r \notin prefill_requests'
    BY <1>1 DEF IInv, StepInv, Batches, schedulerVars
  <2>2. \/ \A i \in DOMAIN rows : IsPrefill(rows[i])
        \/ \A i \in DOMAIN rows : rows[i] \in decode_requests
    BY <1>6
  <2>. QED  BY <1>1, <1>6, <2>1, <2>2 DEF Batches, IsPrefill, schedulerVars
<1>11. OffsetsFit' /\ LookedUp'
  BY <1>1 DEF IInv, StepInv, OffsetsFit, LookedUp, Reporting, schedulerVars
<1>12. PromptLeft' /\ PromptsRead'
  <2>1. ASSUME NEW i \in DOMAIN rows, Moved(i)', IsPrefill(rows[i]), rows[i] \in prefill_requests
        PROVE  FALSE
    <3>1. pc' = "token" \/ (pc' = "advance" /\ i < at')
      BY <1>1, <2>1 DEF Moved, Reporting
    <3>2. pc' # "forward" => at' = 1 /\ ~(i < 1)
      BY <1>1, <1>2
    <3>3. pc' = "token" /\ ~IsPrefill(Row)
      BY <1>1, <3>1, <3>2
    <3>. QED  BY <1>6, <1>7, <2>1, <3>3
  <2>2. PromptsRead'
    BY <1>1, <2>1 DEF PromptsRead, IsPrefill, schedulerVars
  <2>. QED  BY <1>1, <2>2 DEF IInv, StepInv, PromptLeft, Moved, Reporting, schedulerVars
<1>13. Counted'
  <2>1. \A r \in Requests : ~FirstDue(r)
    BY <1>1 DEF FirstDue
  <2>2. \A r \in Requests : ~FirstDue(r)'
    <3>. SUFFICES ASSUME NEW r \in Requests, FirstDue(r)' PROVE FALSE
      OBVIOUS
    <3>1. pc' = "token" /\ at' \in DOMAIN rows /\ rows[at'] \in prefill_requests
      BY <1>1 DEF FirstDue, Row, schedulerVars
    <3>2. ~IsPrefill(Row)
      BY <1>1, <3>1
    <3>. QED  BY <1>6, <1>7, <3>1, <3>2
  <2>. QED  BY <1>1, <2>1, <2>2 DEF IInv, StepInv, Counted, schedulerVars
<1>14. SlotsTyped'
  <2>1. past \in [Slots -> Seq(KV)] /\ pos \in [Slots -> 0 .. MaxSeqLen]
        /\ \A s \in Slots : pos[s] = Len(past[s])
    BY <1>1 DEF IInv, CacheInv, SlotsTyped
  <2>2. Len(g) \in 0 .. MaxSeqLen /\ g \in Seq(KV)
    BY <1>3, <1>4, CacheAssumption, LenProperties DEF g
  <2>3. past' = [past EXCEPT ![RowSlot] = g] /\ pos' = [pos EXCEPT ![RowSlot] = Len(g)]
    BY <1>4 DEF g
  <2>. QED  BY <1>2, <2>1, <2>2, <2>3 DEF SlotsTyped
<1>15. ASSUME NEW i \in DOMAIN rows PROVE (Fed(i) <=> i < at) /\ (Fed(i)' <=> i <= at)
  <2>1. Fed(i) <=> i < at
    BY <1>1 DEF Fed
  <2>2. CASE at < Len(rows)
    <3>1. pc' = "forward" /\ at' = at + 1
      BY <1>1, <2>2
    <3>. QED  BY <1>2, <2>1, <3>1 DEF Fed
  <2>3. CASE at = Len(rows)
    <3>1. at' = 1 /\ i >= 1 /\ i <= at
      BY <1>1, <1>2, <2>3
    <3>2. CASE IsPrefill(Row)
      <4>1. pc' = "advance"
        BY <1>1, <1>2, <2>3, <3>2
      <4>. QED  BY <2>1, <3>1, <4>1 DEF Fed
    <3>3. CASE ~IsPrefill(Row)
      <4>1. pc' = "token"
        BY <1>1, <1>2, <2>3, <3>3
      <4>2. ~IsPrefill(rows[i])'
        BY <1>1, <1>6, <1>7, <3>3 DEF IsPrefill, schedulerVars
      <4>. QED  BY <1>1, <2>1, <3>1, <4>1, <4>2 DEF Fed
    <3>. QED  BY <3>2, <3>3
  <2>. QED  BY <1>1, <1>2, <2>2, <2>3
<1>16. PastRight'
  <2>. SUFFICES ASSUME NEW r \in ToSet(running), slot_prepared[r] PROVE HasPast(r)'
    BY <1>1 DEF PastRight, schedulerVars
  <2>1. past \in [Slots -> Seq(KV)]
    BY DEF IInv, CacheInv, SlotsTyped
  <2>2. r \in Requests /\ batch_idx[r] \in Slots
    BY Known DEF SchedulerBooks
  <2>3. CASE r = Row
    <3>1. past'[batch_idx'[r]] = g
      BY <1>1, <1>2, <1>4, <2>1, <2>3 DEF RowSlot, schedulerVars, g
    <3>2. IsFed(r)'
      <4>1. PICK i \in DOMAIN rows : i = at
        BY <1>2
      <4>2. Fed(i)' /\ rows[i] = r
        BY <1>2, <1>15, <2>3, <4>1 DEF Row
      <4>. QED  BY <1>1, <4>2 DEF IsFed
    <3>3. History(r)' = History(r)
      BY <1>1 DEF History, schedulerVars
    <3>4. Cursor(r)' = Cursor(r) /\ ValidLen(r)' = ValidLen(r)
      BY <1>1, <3>3 DEF Cursor, ValidLen, IsPrefill, S!ChunkTokens, schedulerVars
    <3>5. Reach(r)' = Cursor(r) + ValidLen(r)
      BY <3>2, <3>4 DEF Reach
    <3>. QED  BY <1>3, <2>3, <3>1, <3>3, <3>5 DEF HasPast, Attended, g
  <2>4. CASE r # Row
    <3>1. past'[batch_idx'[r]] = past[batch_idx[r]]
      BY <1>1, <1>2, <1>4, <2>1, <2>2, <2>4 DEF schedulerVars
    <3>2. IsFed(r)' <=> IsFed(r)
      <4>1. ASSUME NEW i \in DOMAIN rows, rows[i] = r PROVE Fed(i)' <=> Fed(i)
        <5>1. i # at
          BY <2>4, <4>1 DEF Row
        <5>. QED  BY <1>2, <1>15, <5>1
      <4>. QED  BY <1>1, <4>1 DEF IsFed
    <3>3. HasPast(r)
      BY <1>1 DEF IInv, CacheInv, PastRight
    <3>. QED  BY <1>1, <2>2, <3>1, <3>2, <3>3, PastStays DEF schedulerVars
  <2>. QED  BY <2>3, <2>4
<1>17. EntriesRight' /\ CallRight'
  BY <1>1, EntriesStay
<1>. QED  BY <1>5, <1>8, <1>9, <1>10, <1>11, <1>12, <1>13, <1>14, <1>16, <1>17
          DEF IInv, StepInv, CacheInv

(* An exception leaves the requests as they are. *)
LEMMA ForwardRaisesKeeps == ASSUME IInv, ForwardRaises PROVE IInv' /\ TooLong(Row)
<1>1. /\ pc = "forward" /\ at <= Len(rows) /\ pc' = "raised"
      /\ UNCHANGED <<schedulerVars, prefixVars, call, slot_prepared, rows, at>>
  BY DEF ForwardRaises, AtRow, Goto
<1>2. /\ Grown \in Seq(KV) /\ Len(Grown) = Cursor(Row) + ValidLen(Row) /\ RowTokens # <<>>
  BY <1>1, GrownFacts
<1>3. /\ Len(Grown) > MaxSeqLen
      /\ past' = [past EXCEPT ![RowSlot] = IF past[RowSlot] = <<>> THEN <<>> ELSE Grown]
      /\ UNCHANGED pos
  BY <1>2 DEF ForwardRaises, C!SetPastRaises
<1>4. RowSlot \in Slots /\ Row \in Requests
  BY <1>1, RowFacts DEF Engaged
<1>5. SP!IInv'
  BY <1>1, SchedulerStays DEF IInv
<1>6. StepTyped' /\ RowsRun' /\ Batches' /\ OffsetsFit'
  BY <1>1 DEF IInv, StepInv, StepTyped, RowsRun, Batches, OffsetsFit, Engaged, Reporting,
     schedulerVars
<1>7. LookedUp' /\ PromptLeft' /\ PromptsRead' /\ Counted'
  BY <1>1 DEF IInv, StepInv, LookedUp, PromptLeft, PromptsRead, Counted, FirstDue, Moved, Reporting,
     schedulerVars
<1>8. SlotsTyped'
  <2>1. <<>> \in Seq(KV)
    BY EmptySeq
  <2>2. (IF past[RowSlot] = <<>> THEN <<>> ELSE Grown) \in Seq(KV)
    BY <1>2, <2>1
  <2>3. past' \in [Slots -> Seq(KV)]
    BY <1>3, <1>4, <2>2 DEF IInv, CacheInv, SlotsTyped
  <2>. QED  BY <1>1, <1>3, <2>3 DEF IInv, CacheInv, SlotsTyped
<1>9. PastRight'
  BY <1>1 DEF PastRight
<1>10. EntriesRight' /\ CallRight'
  BY <1>1, EntriesStay
<1>11. TooLong(Row)
  <2>1. /\ IsPrefill(Row) => Len(Grown) <= Len(Prompt[Row])
        /\ ~IsPrefill(Row) => Len(Grown) <= Len(Prompt[Row]) + MaxNew[Row] - 1
    BY <1>1, <1>2, RowTokensFacts
  <2>2. /\ Len(Grown) \in Nat /\ MaxSeqLen \in Nat /\ Len(Prompt[Row]) \in Nat
        /\ MaxNew[Row] \in Nat
    BY <1>2, <1>4, LenProperties, CacheAssumption, PromptLengths, RequestsAssumption
  <2>. QED  BY <1>3, <2>1, <2>2 DEF TooLong
<1>. QED  BY <1>5, <1>6, <1>7, <1>8, <1>9, <1>10, <1>11 DEF IInv, StepInv, CacheInv
-----------------------------------------------------------------------------
(* Reporting the rows. *)

LEMMA AdvanceRowKeeps == ASSUME IInv, AdvanceRow PROVE IInv'
<1>. DEFINE n == prefill_offset[Row] + S!ChunkTokens(Row)
<1>1. /\ pc = "advance" /\ at <= Len(rows)
      /\ S!AdvancePrefill(Row, prefill_offset[Row] + Len(RowTokens))
      /\ at' = IF at < Len(rows) THEN at + 1 ELSE 1
      /\ pc' = IF at < Len(rows) THEN "advance" ELSE "report"
      /\ UNCHANGED <<cacheVars, slot_prepared, rows>>
  BY DEF AdvanceRow, AtRow, NextRowOr
<1>2. /\ at \in DOMAIN rows /\ Row \in Requests /\ Row \in ToSet(running) /\ RowSlot \in Slots
      /\ \A i \in DOMAIN rows : i # at => rows[i] # Row
      /\ DOMAIN rows = 1..Len(rows) /\ Len(rows) \in Nat /\ at \in Nat \ {0}
      /\ \A i \in DOMAIN rows : rows[i] \in Requests
  BY <1>1, RowFacts, RowsAreRequests DEF Engaged, IInv, StepInv
<1>3. IsPrefill(Row) /\ \A i \in DOMAIN rows : IsPrefill(rows[i])
  BY <1>1, <1>2 DEF IInv, StepInv, Batches, Row
<1>4. Len(RowTokens) = S!ChunkTokens(Row) /\ S!AdvancePrefill(Row, n)
  <2>1. Len(RowTokens) = S!ChunkTokens(Row)
    BY <1>1, <1>3, RowTokensFacts DEF ValidLen
  <2>. QED  BY <1>1, <2>1
<1>5. n \in Nat /\ n <= Len(Prompt[Row]) /\ Len(Prompt[Row]) \in Nat
  BY <1>2, ChunkFits, PromptLengths
<1>6. /\ prefill_offset' = [prefill_offset EXCEPT ![Row] = n]
      /\ prefill_requests' = IF n < Len(Prompt[Row]) THEN prefill_requests \ {Row}
                             ELSE prefill_requests
      /\ Row \in prefill_requests
      /\ UNCHANGED <<max_concurrent_requests, max_tokens_per_step, waiting, running, state,
                     batch_idx, prefill_chunk_size, num_generated, decode_requests>>
  BY <1>2, <1>4 DEF S!AdvancePrefill, S!limitVars, S!placeVars
<1>. HIDE DEF n
<1>7. SP!IInv'
  BY <1>2, <1>4, <1>5, SameAdvance, Assumptions, SP!AdvancePrefillKeeps DEF IInv
<1>8. /\ prefill_offset \in [Requests -> Nat]
      /\ prefill_offset'[Row] = n
      /\ \A r \in Requests \ {Row} : prefill_offset'[r] = prefill_offset[r]
  BY <1>2, <1>6, Known DEF SchedulerBooks
<1>9. StepTyped'
  <2>1. at' \in 1..(Len(rows) + 1)
    BY <1>1, <1>2
  <2>. QED  BY <1>1, <1>6, <2>1 DEF IInv, StepInv, StepTyped, Engaged, Reporting
<1>10. RowsRun'
  BY <1>1, <1>6 DEF IInv, StepInv, RowsRun, Engaged, Reporting
<1>11. Batches'
  <2>1. \A r \in decode_requests' : state'[r] = "decode" /\ r \notin prefill_requests'
    BY <1>6 DEF IInv, StepInv, Batches
  <2>. QED  BY <1>1, <1>3, <1>6, <2>1 DEF Batches, IsPrefill
<1>12. OffsetsFit'
  BY <1>3, <1>5, <1>6, <1>8 DEF IInv, StepInv, OffsetsFit, IsPrefill
<1>13. slot_prepared[Row]
  BY <1>1, <1>2 DEF IInv, StepInv, LookedUp, Row
<1>14. LookedUp'
  BY <1>1, <1>6, <1>8, <1>13 DEF IInv, StepInv, LookedUp, Reporting
<1>15. PromptLeft'
  <2>. SUFFICES ASSUME NEW r \in Requests, state[r] = "prefill",
                       ~(prefill_offset'[r] < Len(Prompt[r]))
                PROVE  r \in prefill_requests' /\ \E i \in DOMAIN rows : rows[i] = r /\ Moved(i)'
    BY <1>1, <1>6 DEF PromptLeft
  <2>1. PICK i \in DOMAIN rows : rows[i] = r /\ i <= at /\ r \in prefill_requests'
    <3>1. CASE r = Row
      BY <1>2, <1>6, <1>8, <3>1 DEF Row
    <3>2. CASE r # Row
      <4>1. PICK i \in DOMAIN rows : rows[i] = r /\ Moved(i) /\ r \in prefill_requests
        BY <1>8, <3>2 DEF IInv, StepInv, PromptLeft
      <4>. QED  BY <1>1, <1>2, <1>6, <3>2, <4>1 DEF Moved, Reporting
    <3>. QED  BY <3>1, <3>2
  <2>2. Moved(i)'
    <3>1. CASE at < Len(rows)
      BY <1>1, <1>2, <2>1, <3>1 DEF Moved
    <3>2. CASE at = Len(rows)
      BY <1>1, <1>2, <2>1, <3>2 DEF Moved, Reporting
    <3>. QED  BY <1>1, <1>2, <3>1, <3>2
  <2>. QED  BY <2>1, <2>2
<1>16. PromptsRead' /\ Counted'
  <2>1. ASSUME NEW i \in DOMAIN rows, Moved(i)', rows[i] \in prefill_requests'
        PROVE  prefill_offset'[rows[i]] = Len(Prompt[rows[i]])
    <3>1. rows[i] \in Requests /\ rows[i] \in prefill_requests /\ i \in 1..Len(rows)
      BY <1>2, <1>6, <2>1
    <3>2. CASE i = at
      <4>1. rows[i] = Row
        BY <3>2 DEF Row
      <4>2. ~(n < Len(Prompt[Row]))
        BY <1>6, <2>1, <4>1
      <4>. QED  BY <1>5, <1>8, <4>1, <4>2
    <3>3. CASE i # at
      <4>1. i < at
        <5>1. CASE at < Len(rows)
          BY <1>1, <1>2, <2>1, <3>1, <3>3, <5>1 DEF Moved, Reporting
        <5>2. CASE at = Len(rows)
          BY <1>2, <3>1, <3>3, <5>2
        <5>. QED  BY <1>1, <1>2, <5>1, <5>2
      <4>2. Moved(i)
        BY <1>1, <4>1 DEF Moved
      <4>3. prefill_offset[rows[i]] = Len(Prompt[rows[i]])
        BY <1>3, <3>1, <4>2 DEF IInv, StepInv, PromptsRead
      <4>. QED  BY <1>2, <1>8, <3>1, <3>3, <4>3
    <3>. QED  BY <3>2, <3>3
  <2>2. PromptsRead'
    BY <1>1, <2>1 DEF PromptsRead
  <2>. QED  BY <1>1, <1>6, <2>2 DEF IInv, StepInv, Counted, FirstDue
<1>17. SlotsTyped'
  BY <1>1 DEF IInv, CacheInv, SlotsTyped, cacheVars, slotVars
<1>18. PastRight'
  <2>. SUFFICES ASSUME NEW r \in ToSet(running), slot_prepared[r] PROVE HasPast(r)'
    BY <1>1, <1>6 DEF PastRight
  <2>1. r \in Requests /\ HasPast(r)
    BY <1>1, Known DEF IInv, CacheInv, PastRight, SchedulerBooks
  <2>2. CASE r = Row
    <3>1. IsFed(r)
      <4>1. PICK i \in DOMAIN rows : i = at
        BY <1>2
      <4>2. Fed(i) /\ rows[i] = r
        BY <1>1, <1>2, <2>2, <4>1 DEF Fed, Row
      <4>. QED  BY <4>2 DEF IsFed
    <3>2. ~IsFed(r)'
      <4>. SUFFICES ASSUME NEW i \in DOMAIN rows, rows[i] = r, Fed(i)' PROVE FALSE
        BY <1>1 DEF IsFed
      <4>1. i = at
        BY <1>2, <2>2
      <4>2. pc' = "advance" /\ i >= at'
        BY <1>1 DEF Fed
      <4>. QED  BY <1>1, <1>2, <4>1, <4>2
    <3>3. History(r)' = History(r)
      BY <1>6 DEF History
    <3>4. Reach(r) = n
      BY <1>3, <2>2, <3>1 DEF Reach, Cursor, ValidLen, n
    <3>5. Reach(r)' = n
      BY <1>3, <1>5, <1>6, <1>8, <2>2, <3>2 DEF Reach, Cursor, IsPrefill
    <3>. QED  BY <1>1, <1>6, <2>1, <3>3, <3>4, <3>5
         DEF HasPast, Attended, cacheVars, slotVars
  <2>3. CASE r # Row
    <3>1. IsFed(r)' <=> IsFed(r)
      <4>1. ASSUME NEW i \in DOMAIN rows, rows[i] = r PROVE Fed(i)' <=> Fed(i)
        <5>1. i # at
          BY <2>3, <4>1 DEF Row
        <5>2. CASE at < Len(rows)
          BY <1>1, <1>2, <5>1, <5>2 DEF Fed
        <5>3. CASE at = Len(rows)
          BY <1>1, <1>2, <5>1, <5>3 DEF Fed
        <5>. QED  BY <1>1, <1>2, <5>2, <5>3
      <4>. QED  BY <1>1, <4>1 DEF IsFed
    <3>. QED  BY <1>1, <1>6, <1>8, <2>1, <2>3, <3>1, PastStays DEF cacheVars, slotVars
  <2>. QED  BY <2>2, <2>3
<1>19. EntriesRight' /\ CallRight'
  BY <1>1, CacheStays
<1>. QED  BY <1>7, <1>9, <1>10, <1>11, <1>12, <1>14, <1>15, <1>16, <1>17, <1>18, <1>19
          DEF IInv, StepInv, CacheInv
(* A step of the report that leaves the requests alone. *)
LEMMA ReportKeeps ==
  ASSUME IInv, pc \in {"report", "insert"}, pc' = "insert", at <= Len(rows),
         pc = "report" => Row \in prefill_requests,
         UNCHANGED <<schedulerVars, slotVars, slot_prepared, rows, at>>,
         EntriesRight', CallRight'
  PROVE  IInv'
<1>1. StepTyped' /\ RowsRun' /\ Batches' /\ OffsetsFit'
  BY DEF IInv, StepInv, StepTyped, RowsRun, Batches, OffsetsFit, Engaged, Reporting, IsPrefill,
     schedulerVars
<1>2. LookedUp' /\ PromptLeft' /\ PromptsRead' /\ Counted'
  BY DEF IInv, StepInv, LookedUp, PromptLeft, PromptsRead, Counted, FirstDue, Moved, Reporting,
     IsPrefill, schedulerVars
<1>3. \A r \in ToSet(running) : ~IsFed(r) /\ ~IsFed(r)'
  BY DEF IsFed, Fed
<1>. QED  BY <1>1, <1>2, <1>3, QuietKeeps DEF StepInv

LEMMA RegisterRowKeeps == ASSUME IInv, RegisterRow PROVE IInv'
<1>1. /\ pc = "report" /\ at <= Len(rows) /\ Row \in prefill_requests
      /\ C!RegisterPrefix(RowSlot, Prompt[Row]) /\ pc' = "insert"
      /\ UNCHANGED <<schedulerVars, slotVars, prefixVars, slot_prepared, rows, at>>
  BY DEF RegisterRow, AtRow, Goto
<1>2. at \in DOMAIN rows /\ Row \in Requests /\ RowSlot \in Slots
  BY <1>1, RowFacts DEF Reporting
<1>3. \/ call' = C!Idle
      \/ /\ EnablePrefixCache /\ C!InsertBlocks(RowSlot, Prompt[Row]) > 0
         /\ call' = [op |-> "insert", slot |-> RowSlot, tokens |-> Prompt[Row], next |-> 1]
  BY <1>1 DEF C!RegisterPrefix, C!Call
<1>4. C!InsertBlocks(RowSlot, Prompt[Row]) \in Nat
  <2>1. Len(past[RowSlot]) \in Nat /\ Len(Prompt[Row]) \in Nat
    BY <1>2, SlotFacts, PromptLengths DEF IInv, CacheInv
  <2>2. PICK m \in Nat : m = IF Len(past[RowSlot]) < Len(Prompt[Row])
                             THEN Len(past[RowSlot]) ELSE Len(Prompt[Row])
    BY <2>1
  <2>3. m \div BlockSize \in Nat
    BY CacheAssumption
  <2>. QED  BY <2>2, <2>3 DEF C!InsertBlocks
<1>5. CallRight'
  <2>1. Row' = Row /\ RowSlot' = RowSlot
    BY <1>1 DEF Row, RowSlot, schedulerVars
  <2>2. C!InsertBlocks(RowSlot, Prompt[Row])' = C!InsertBlocks(RowSlot, Prompt[Row])
    BY <1>1, <2>1 DEF C!InsertBlocks, slotVars
  <2>3. CASE call' = C!Idle
    BY <2>3 DEF CallRight
  <2>4. CASE call' # C!Idle
    <3>1. /\ EnablePrefixCache /\ 1 <= C!InsertBlocks(RowSlot, Prompt[Row])
          /\ call' = [op |-> "insert", slot |-> RowSlot, tokens |-> Prompt[Row], next |-> 1]
      BY <1>3, <1>4, <2>4
    <3>. QED  BY <1>1, <1>2, <2>1, <2>2, <3>1 DEF CallRight
  <2>. QED  BY <2>3, <2>4
<1>6. EntriesRight'
  BY <1>1 DEF IInv, CacheInv, EntriesRight, prefixVars, C!Keys, C!Key, CopyOf
<1>. QED  BY <1>1, <1>5, <1>6, ReportKeeps

(* What is known of an insert on its way: the block it is at is a whole one
   of the prompt and of the past. *)
LEMMA InsertFacts ==
  ASSUME IInv, call.op = "insert"
  PROVE  /\ EnablePrefixCache /\ pc = "insert" /\ at \in DOMAIN rows /\ at <= Len(rows)
         /\ Row \in Requests /\ RowSlot \in Slots /\ HasPast(Row)
         /\ \E n \in Nat \ {0} :
              /\ call = [op |-> "insert", slot |-> RowSlot, tokens |-> Prompt[Row], next |-> n]
              /\ n <= C!InsertBlocks(RowSlot, Prompt[Row])
              /\ C!InsertBlocks(RowSlot, Prompt[Row]) \in Nat
              /\ n * BlockSize \in Nat
              /\ n * BlockSize <= Len(Prompt[Row]) /\ n * BlockSize <= Len(past[RowSlot])
<1>1. call # C!Idle
  BY DEF C!Idle
<1>2. /\ EnablePrefixCache /\ pc = "insert" /\ at \in DOMAIN rows
      /\ call = [op |-> "insert", slot |-> RowSlot, tokens |-> Prompt[Row],
                 next |-> call.next]
      /\ call.next \in Nat \ {0}
      /\ call.next <= C!InsertBlocks(RowSlot, Prompt[Row])
  BY <1>1 DEF IInv, CacheInv, CallRight
<1>3. at <= Len(rows)
  BY <1>2, RowsAreRequests DEF IInv, StepInv
<1>4. Row \in Requests /\ RowSlot \in Slots /\ Row \in ToSet(running)
  BY <1>2, <1>3, RowFacts DEF Reporting
<1>5. HasPast(Row)
  <2>1. slot_prepared[Row]
    BY <1>2 DEF IInv, StepInv, LookedUp, Reporting, Row
  <2>. QED  BY <1>2, <1>4, <2>1 DEF IInv, CacheInv, PastRight
<1>6. PICK n \in Nat \ {0} : n = call.next
  BY <1>2
<1>7. /\ C!InsertBlocks(RowSlot, Prompt[Row]) \in Nat
      /\ n * BlockSize \in Nat
      /\ n * BlockSize <= Len(Prompt[Row]) /\ n * BlockSize <= Len(past[RowSlot])
  <2>1. Len(past[RowSlot]) \in Nat /\ Len(Prompt[Row]) \in Nat
    BY <1>4, SlotFacts, PromptLengths DEF IInv, CacheInv
  <2>2. PICK m \in Nat : /\ m = IF Len(past[RowSlot]) < Len(Prompt[Row])
                                THEN Len(past[RowSlot]) ELSE Len(Prompt[Row])
                         /\ m <= Len(past[RowSlot]) /\ m <= Len(Prompt[Row])
    BY <2>1
  <2>3. m \div BlockSize \in Nat
    BY CacheAssumption
  <2>4. C!InsertBlocks(RowSlot, Prompt[Row]) = m \div BlockSize
    BY <2>2 DEF C!InsertBlocks
  <2>5. n * BlockSize \in Nat /\ n * BlockSize <= m
    BY <1>2, <1>6, <2>4, CacheAssumption, WholeBlocks
  <2>. QED  BY <2>1, <2>2, <2>3, <2>4, <2>5
<1>. QED  BY <1>2, <1>3, <1>4, <1>5, <1>6, <1>7

(* The loop of insert() goes on to the next block, or ends. *)
LEMMA AfterInsertRight ==
  ASSUME IInv, call.op = "insert", call' \in {call, C!AfterInsert}, pc' = pc,
         UNCHANGED <<schedulerVars, slotVars, rows, at>>
  PROVE  CallRight'
<1>1. /\ EnablePrefixCache /\ pc = "insert" /\ at \in DOMAIN rows
  BY InsertFacts
<1>2. PICK n \in Nat \ {0} :
        /\ call = [op |-> "insert", slot |-> RowSlot, tokens |-> Prompt[Row], next |-> n]
        /\ n <= C!InsertBlocks(RowSlot, Prompt[Row])
        /\ C!InsertBlocks(RowSlot, Prompt[Row]) \in Nat
  BY InsertFacts
<1>3. Row' = Row /\ RowSlot' = RowSlot
  BY DEF Row, RowSlot, schedulerVars
<1>4. C!InsertBlocks(RowSlot, Prompt[Row])' = C!InsertBlocks(RowSlot, Prompt[Row])
  BY <1>3 DEF C!InsertBlocks, slotVars
<1>5. ASSUME NEW m \in Nat \ {0}, m <= C!InsertBlocks(RowSlot, Prompt[Row]),
             call' = [op |-> "insert", slot |-> RowSlot, tokens |-> Prompt[Row], next |-> m]
      PROVE  CallRight'
  BY <1>1, <1>3, <1>4, <1>5 DEF CallRight
<1>6. CASE call' = call
  BY <1>2, <1>5, <1>6
<1>7. CASE call' = C!AfterInsert
  <2>. DEFINE b == C!InsertBlocks(RowSlot, Prompt[Row])
  <2>1. C!AfterInsert = IF n < b THEN [call EXCEPT !.next = @ + 1] ELSE C!Idle
    BY <1>2 DEF C!AfterInsert
  <2>. HIDE DEF b
  <2>2. CASE n < b
    <3>1. call' = [op |-> "insert", slot |-> RowSlot, tokens |-> Prompt[Row], next |-> n + 1]
      BY <1>2, <1>7, <2>1, <2>2
    <3>2. n + 1 \in Nat \ {0} /\ n + 1 <= b
      BY <1>2, <2>2 DEF b
    <3>. QED  BY <1>5, <3>1, <3>2 DEF b
  <2>3. CASE ~(n < b)
    <3>1. call' = C!Idle
      BY <1>7, <2>1, <2>3
    <3>. QED  BY <3>1 DEF CallRight
  <2>. QED  BY <2>2, <2>3
<1>. QED  BY <1>6, <1>7

(* The keys in the LRU order: as many as there are entries. *)
LEMMA KeysCounted ==
  ASSUME EntriesRight
  PROVE  C!Cardinality(DOMAIN entries) = Len(lru) /\ Len(lru) \in Nat
<1>1. Len(lru) \in Nat /\ DOMAIN lru = 1 .. Len(lru)
      /\ \A i \in 1 .. Len(lru) : lru[i] \in DOMAIN entries
  BY LenProperties, ElementOfSeq DEF EntriesRight
<1>2. lru \in [1 .. Len(lru) -> DOMAIN entries]
  BY <1>1, LenProperties DEF EntriesRight
<1>3. \A a, b \in 1 .. Len(lru) : lru[a] = lru[b] => a = b
  BY <1>1 DEF EntriesRight, IsInjective
<1>4. \A k \in DOMAIN entries : \E i \in 1 .. Len(lru) : lru[i] = k
  <2>1. {lru[i] : i \in 1 .. Len(lru)} = DOMAIN entries
    BY <1>1 DEF EntriesRight, ToSet
  <2>. QED  BY <2>1
<1>5. ExistsBijection(1 .. Len(lru), DOMAIN entries)
  <2>1. lru \in Injection(1 .. Len(lru), DOMAIN entries)
    BY <1>2, <1>3 DEF Injection, IsInjective
  <2>2. lru \in Surjection(1 .. Len(lru), DOMAIN entries)
    BY <1>2, <1>4 DEF Surjection
  <2>. QED  BY <2>1, <2>2 DEF ExistsBijection, Bijection
<1>6. Cardinality(DOMAIN entries) = Len(lru)
  BY <1>1, <1>5, FS_CountingElements
<1>7. C!Cardinality(DOMAIN entries) = Cardinality(DOMAIN entries)
  BY DEF C!Cardinality, Cardinality
<1>. QED  BY <1>1, <1>6, <1>7

(* The oldest key leaves the order, and only it. *)
LEMMA TailKeys ==
  ASSUME NEW K, NEW q \in Seq(K), IsInjective(q), q # <<>>
  PROVE  /\ Head(q) \in ToSet(q) /\ Tail(q) \in Seq(K \ {Head(q)})
         /\ IsInjective(Tail(q)) /\ ToSet(Tail(q)) = ToSet(q) \ {Head(q)}
         /\ Len(q) \in Nat \ {0} /\ Len(Tail(q)) = Len(q) - 1
<1>1. /\ Len(q) \in Nat \ {0} /\ DOMAIN q = 1 .. Len(q) /\ Head(q) = q[1]
      /\ \A i \in 1 .. Len(q) : q[i] \in K
  BY LenProperties, ElementOfSeq, EmptySeq
<1>2. PICK m \in Nat : Len(q) = m + 1
  <2>1. Len(q) - 1 \in Nat /\ Len(q) = (Len(q) - 1) + 1
    BY <1>1
  <2>. QED  BY <2>1
<1>3. Tail(q) \in Seq(K) /\ Len(Tail(q)) = m /\ \A i \in 1..m : Tail(q)[i] = q[i + 1]
  BY <1>2, HeadTailProperties
<1>. DEFINE t == Tail(q)
<1>. HIDE DEF t
<1>4. DOMAIN t = 1..m /\ t = [i \in 1..m |-> t[i]]
  BY <1>3, LenProperties DEF t
<1>5. \A i \in 1..m : i + 1 \in DOMAIN q /\ i + 1 # 1 /\ t[i] = q[i + 1]
  BY <1>1, <1>2, <1>3 DEF t
<1>6. 1 \in DOMAIN q
  BY <1>1, <1>2
<1>7. \A i \in 1..m : t[i] \in K \ {q[1]}
  BY <1>1, <1>5, <1>6 DEF IsInjective
<1>8. t \in Seq(K \ {q[1]})
  BY ONLY <1>4, <1>7
<1>9. IsInjective(t)
  BY <1>4, <1>5 DEF IsInjective
<1>10. ToSet(t) = ToSet(q) \ {q[1]}
  <2>1. ToSet(t) = {t[i] : i \in 1..m} /\ ToSet(q) = {q[i] : i \in DOMAIN q}
    BY <1>4 DEF ToSet
  <2>2. ASSUME NEW j \in DOMAIN q, q[j] # q[1] PROVE \E i \in 1..m : t[i] = q[j]
    <3>1. j - 1 \in 1..m /\ (j - 1) + 1 = j
      <4>1. j # 1
        BY <2>2
      <4>. QED  BY <1>1, <1>2, <4>1
    <3>. QED  BY <1>5, <3>1
  <2>3. \A i \in 1..m : t[i] # q[1] /\ t[i] \in ToSet(q)
    BY <1>5, <1>7, <2>1
  <2>4. \A x \in ToSet(q) \ {q[1]} : x \in ToSet(t)
    BY <2>1, <2>2
  <2>5. \A x \in ToSet(t) : x \in ToSet(q) \ {q[1]}
    BY <2>1, <2>3
  <2>. QED  BY <2>4, <2>5
<1>11. Head(q) \in ToSet(q)
  BY <1>1, <1>6 DEF ToSet
<1>. QED  BY <1>1, <1>2, <1>3, <1>8, <1>9, <1>10, <1>11 DEF t

LEMMA EvictKeeps == ASSUME EntriesRight, C!EvictOldest PROVE EntriesRight'
<1>1. /\ C!Cardinality(DOMAIN entries) >= MaxEntries
      /\ entries' = [k \in DOMAIN entries \ {Head(lru)} |-> entries[k]]
      /\ lru' = Tail(lru)
      /\ memory' = memory - Len(entries[Head(lru)])
  BY DEF C!EvictOldest, C!Full
<1>2. lru # <<>>
  BY <1>1, KeysCounted, CacheAssumption, EmptySeq
<1>3. /\ Head(lru) \in DOMAIN entries /\ Tail(lru) \in Seq(DOMAIN entries \ {Head(lru)})
      /\ IsInjective(Tail(lru)) /\ ToSet(Tail(lru)) = DOMAIN entries \ {Head(lru)}
      /\ Len(lru) \in Nat \ {0} /\ Len(Tail(lru)) = Len(lru) - 1
  BY <1>2, TailKeys DEF EntriesRight
<1>4. /\ DOMAIN entries' = DOMAIN entries \ {Head(lru)}
      /\ \A k \in DOMAIN entries' : entries'[k] = entries[k]
  BY <1>1
<1>5. IsFiniteSet(DOMAIN entries')
  BY <1>4, FS_Subset DEF EntriesRight
<1>6. Len(entries[Head(lru)]) = BlockSize
  <2>1. entries[Head(lru)] = CopyOf(Head(lru))
    BY <1>3 DEF EntriesRight
  <2>2. Len(CopyOf(Head(lru))) = BlockSize
    BY CacheAssumption DEF CopyOf
  <2>. QED  BY <2>1, <2>2
<1>7. memory' = Len(lru') * BlockSize
  <2>1. PICK m \in Nat, d \in Nat : Len(lru) = m + 1 /\ Len(lru') = m /\ d = BlockSize
    <3>1. Len(lru) - 1 \in Nat /\ Len(lru) = (Len(lru) - 1) + 1
      BY <1>3
    <3>. QED  BY <1>1, <1>3, <3>1, CacheAssumption
  <2>2. (m + 1) * d = m * d + d /\ m * d \in Nat
    OBVIOUS
  <2>3. memory = (m + 1) * d
    BY <2>1 DEF EntriesRight
  <2>4. memory' = memory - d
    BY <1>1, <1>6, <2>1
  <2>. QED  BY <2>1, <2>2, <2>3, <2>4
<1>8. \A k \in DOMAIN entries' : k \in C!Keys' /\ Len(k) <= MaxSeqLen /\ entries'[k] = CopyOf(k)'
  BY <1>4 DEF EntriesRight, C!Keys, C!Key, CopyOf
<1>9. Len(lru') <= MaxEntries
  BY <1>1, <1>3, CacheAssumption DEF EntriesRight
<1>. QED  BY <1>1, <1>3, <1>4, <1>5, <1>7, <1>8, <1>9 DEF EntriesRight

LEMMA DividedAgain ==
  ASSUME NEW n \in Nat, NEW m \in Nat, NEW d \in Nat \ {0}, n * d <= m
  PROVE  n <= m \div d
<1>1. PICK q \in Nat : q = m \div d /\ m < q * d + d
  <2>1. m \div d \in Nat /\ m < (m \div d) * d + d
    OBVIOUS
  <2>. QED  BY <2>1
<1>2. ASSUME n > q PROVE FALSE
  <2>1. PICK e \in Nat : n = q + 1 + e
    <3>1. n - (q + 1) \in Nat /\ n = q + 1 + (n - (q + 1))
      BY <1>2
    <3>. QED  BY <3>1
  <2>2. (q + 1 + e) * d = q * d + d + e * d /\ e * d \in Nat /\ q * d \in Nat
    OBVIOUS
  <2>. QED  BY <1>1, <2>1, <2>2
<1>. QED  BY <1>1, <1>2

(* The copy that an insert makes is true to its key. *)
LEMMA NewCopy ==
  ASSUME IInv, call.op = "insert"
  PROVE  /\ C!NextKey \in C!Keys /\ Len(C!NextKey) <= MaxSeqLen
         /\ SubSeq(past[call.slot], (call.next - 1) * BlockSize + 1, call.next * BlockSize)
              = CopyOf(C!NextKey)
<1>1. PICK n \in Nat \ {0} :
        /\ call = [op |-> "insert", slot |-> RowSlot, tokens |-> Prompt[Row], next |-> n]
        /\ n * BlockSize \in Nat
        /\ n * BlockSize <= Len(Prompt[Row]) /\ n * BlockSize <= Len(past[RowSlot])
  BY InsertFacts
<1>2. Row \in Requests /\ RowSlot \in Slots /\ HasPast(Row) /\ pc = "insert"
  BY InsertFacts
<1>. DEFINE k == C!Key(Prompt[Row], n)
            p == past[RowSlot]
<1>3. call.slot = RowSlot /\ call.next = n /\ C!NextKey = k
  BY <1>1 DEF C!NextKey
<1>4. PICK a \in Nat, d \in Nat \ {0} : d = BlockSize /\ a = (n - 1) * d /\ n * d = a + d
  <2>1. PICK m \in Nat : n = m + 1 /\ n - 1 = m
    <3>1. n - 1 \in Nat /\ n = (n - 1) + 1
      OBVIOUS
    <3>. QED  BY <3>1
  <2>2. PICK d \in Nat \ {0} : d = BlockSize
    BY CacheAssumption
  <2>3. (m + 1) * d = m * d + d /\ m * d \in Nat
    OBVIOUS
  <2>. QED  BY <2>1, <2>2, <2>3
<1>5. /\ k \in Seq(Token) /\ Len(k) = a + d
      /\ \A m \in 0 .. a + d : SubSeq(k, 1, m) = SubSeq(Prompt[Row], 1, m)
  BY <1>1, <1>2, <1>4, KeyFacts
<1>6. p \in Seq(KV) /\ Len(p) \in Nat /\ Len(p) <= MaxSeqLen /\ MaxSeqLen \in Nat
  <2>1. pos[RowSlot] = Len(p) /\ pos[RowSlot] \in 0 .. MaxSeqLen
    BY <1>2 DEF IInv, CacheInv, SlotsTyped
  <2>. QED  BY <1>2, <2>1, SlotFacts DEF IInv, CacheInv
<1>7. a + d <= Len(Prompt[Row]) /\ a + d <= Len(p)
  BY <1>1, <1>4
<1>8. Len(k) <= MaxSeqLen
  BY <1>5, <1>6, <1>7
<1>9. k \in C!Keys
  <2>1. n \in 1 .. Len(Prompt[Row]) \div BlockSize
    <3>1. PICK m \in Nat : m = Len(Prompt[Row]) /\ n * BlockSize <= m
      BY <1>1, <1>2, PromptLengths
    <3>2. n <= m \div BlockSize
      BY <3>1, CacheAssumption, DividedAgain
    <3>3. m \div BlockSize \in Nat
      BY CacheAssumption
    <3>. QED  BY <3>1, <3>2, <3>3
  <2>. QED  BY <1>2, <2>1 DEF C!Keys
<1>10. \A j \in 1 .. Len(p) : p[j] = SubSeq(History(Row), 1, j)
  BY <1>2, <1>6, AttendedCells DEF HasPast, RowSlot
<1>. HIDE DEF k, p
<1>11. ASSUME NEW j \in 1..d PROVE p[a + j] = SubSeq(k, 1, Len(k) - d + j)
  <2>1. a + j \in 0 .. a + d /\ a + j \in 1 .. Len(p) /\ Len(k) - d + j = a + j
        /\ a + j <= Len(Prompt[Row]) /\ a + j \in Nat
    BY <1>5, <1>6, <1>7, <1>2, PromptLengths
  <2>2. SubSeq(k, 1, a + j) = SubSeq(Prompt[Row], 1, a + j)
    BY <1>5, <2>1
  <2>3. SubSeq(Prompt[Row], 1, a + j) = SubSeq(History(Row), 1, a + j)
    BY <1>2, <2>1, Known, PromptBeginning
  <2>4. p[a + j] = SubSeq(History(Row), 1, a + j)
    BY <1>10, <2>1
  <2>. QED  BY <2>1, <2>2, <2>3, <2>4
<1>12. SubSeq(p, a + 1, a + d) = CopyOf(k)
  <2>. DEFINE b == SubSeq(p, a + 1, a + d)
  <2>1. \A j \in a + 1 .. a + d : p[j] \in KV
    BY <1>6, <1>7, ElementOfSeq
  <2>2. /\ b \in Seq(KV) /\ Len(b) = IF a + 1 <= a + d THEN (a + d) - (a + 1) + 1 ELSE 0
        /\ \A j \in 1 .. (a + d) - (a + 1) + 1 : b[j] = p[(a + 1) + j - 1]
    BY <2>1, SubSeqProperties
  <2>3. (a + d) - (a + 1) + 1 = d /\ a + 1 <= a + d /\ \A j \in 1..d : (a + 1) + j - 1 = a + j
    OBVIOUS
  <2>. HIDE DEF b
  <2>4. b \in Seq(KV) /\ Len(b) = d /\ \A j \in 1..d : b[j] = p[a + j]
    BY <2>2, <2>3
  <2>5. b = [j \in 1..d |-> b[j]]
    BY <2>4, LenProperties
  <2>6. b = [j \in 1..d |-> SubSeq(k, 1, Len(k) - d + j)]
    BY <1>11, <2>4, <2>5
  <2>. QED  BY <1>4, <2>6 DEF CopyOf, b
<1>. QED  BY <1>3, <1>4, <1>8, <1>9, <1>12 DEF p

LEMMA AppendKey ==
  ASSUME NEW K, NEW q \in Seq(K), IsInjective(q), ToSet(q) = K, NEW k, k \notin K
  PROVE  /\ Append(q, k) \in Seq(K \cup {k}) /\ IsInjective(Append(q, k))
         /\ ToSet(Append(q, k)) = K \cup {k}
         /\ Len(q) \in Nat /\ Len(Append(q, k)) = Len(q) + 1
<1>. DEFINE t == Append(q, k)
<1>1. /\ Len(q) \in Nat /\ DOMAIN q = 1 .. Len(q)
      /\ \A i \in 1 .. Len(q) : q[i] \in K
  BY LenProperties, ElementOfSeq
<1>2. PICK m \in Nat : m = Len(q)
  BY <1>1
<1>3. q \in Seq(K \cup {k})
  <2>1. q = [i \in 1..m |-> q[i]]
    BY <1>2, LenProperties
  <2>2. \A i \in 1..m : q[i] \in K \cup {k}
    BY <1>1, <1>2
  <2>. QED  BY ONLY <2>1, <2>2
<1>4. /\ t \in Seq(K \cup {k}) /\ Len(t) = m + 1
      /\ \A i \in 1..m : t[i] = q[i]
      /\ t[m + 1] = k
  BY <1>2, <1>3, AppendProperties
<1>. HIDE DEF t
<1>5. DOMAIN t = 1 .. m + 1
  BY <1>4, LenProperties
<1>6. \A i \in DOMAIN t :
        (i = m + 1 /\ t[i] = k) \/ (i \in 1..m /\ t[i] = q[i] /\ t[i] # k)
  BY <1>1, <1>2, <1>4, <1>5
<1>7. IsInjective(t)
  BY <1>1, <1>2, <1>6 DEF IsInjective
<1>8. ToSet(t) = K \cup {k}
  <2>1. ToSet(t) = {t[i] : i \in DOMAIN t} /\ K = {q[i] : i \in 1..m}
    BY <1>1, <1>2 DEF ToSet
  <2>2. m + 1 \in DOMAIN t /\ \A i \in 1..m : i \in DOMAIN t
    BY <1>5
  <2>. QED  BY <1>4, <1>6, <2>1, <2>2
<1>. QED  BY <1>1, <1>2, <1>4, <1>7, <1>8 DEF t

LEMMA AddKeeps == ASSUME IInv, C!AddEntry PROVE EntriesRight'
<1>. DEFINE k == C!NextKey
            slice == SubSeq(past[call.slot], (call.next - 1) * BlockSize + 1,
                            call.next * BlockSize)
<1>1. /\ call.op = "insert" /\ k \notin DOMAIN entries /\ ~C!Full
      /\ entries' = [l \in DOMAIN entries \cup {k} |-> IF l = k THEN slice ELSE entries[l]]
      /\ lru' = Append(lru, k)
      /\ memory' = memory + Len(slice)
  BY DEF C!AddEntry
<1>2. k \in C!Keys /\ Len(k) <= MaxSeqLen /\ slice = CopyOf(k)
  BY <1>1, NewCopy
<1>. HIDE DEF k, slice
<1>3. EntriesRight
  BY DEF IInv, CacheInv
<1>4. Len(lru) < MaxEntries /\ Len(lru) \in Nat /\ MaxEntries \in Nat
  <2>1. ~(C!Cardinality(DOMAIN entries) >= MaxEntries)
    BY <1>1 DEF C!Full, k
  <2>. QED  BY <1>3, <2>1, KeysCounted, CacheAssumption
<1>5. /\ Append(lru, k) \in Seq(DOMAIN entries \cup {k}) /\ IsInjective(Append(lru, k))
      /\ ToSet(Append(lru, k)) = DOMAIN entries \cup {k}
      /\ Len(Append(lru, k)) = Len(lru) + 1
  BY <1>1, <1>3, AppendKey DEF EntriesRight
<1>6. /\ DOMAIN entries' = DOMAIN entries \cup {k}
      /\ \A l \in DOMAIN entries' : entries'[l] = IF l = k THEN slice ELSE entries[l]
  BY <1>1
<1>7. IsFiniteSet(DOMAIN entries')
  BY <1>3, <1>6, FS_AddElement DEF EntriesRight
<1>8. \A l \in DOMAIN entries' : l \in C!Keys' /\ Len(l) <= MaxSeqLen /\ entries'[l] = CopyOf(l)'
  BY <1>2, <1>3, <1>6 DEF EntriesRight, C!Keys, C!Key, CopyOf
<1>9. memory' = Len(lru') * BlockSize
  <2>1. Len(slice) = BlockSize
    BY <1>2, CacheAssumption DEF CopyOf
  <2>2. PICK m \in Nat, d \in Nat : Len(lru) = m /\ Len(lru') = m + 1 /\ d = BlockSize
    BY <1>1, <1>4, <1>5, CacheAssumption
  <2>3. (m + 1) * d = m * d + d /\ m * d \in Nat
    OBVIOUS
  <2>4. memory = m * d
    BY <1>3, <2>2 DEF EntriesRight
  <2>. QED  BY <1>1, <2>1, <2>2, <2>3, <2>4
<1>10. Len(lru') <= MaxEntries
  BY <1>1, <1>4, <1>5
<1>. QED  BY <1>1, <1>5, <1>6, <1>7, <1>8, <1>9, <1>10 DEF EntriesRight

LEMMA InsertBlockKeeps == ASSUME IInv, InsertBlock PROVE IInv'
<1>1. /\ pc = "insert" /\ pc' = "insert" /\ at <= Len(rows) /\ C!Insert
      /\ UNCHANGED <<schedulerVars, slotVars, slot_prepared, rows, at>>
  BY DEF InsertBlock, AtRow, stepVars
<1>2. call.op = "insert" /\ call' \in {call, C!AfterInsert}
  BY <1>1 DEF C!Insert, C!RenewEntry, C!EvictOldest, C!Full, C!AddEntry
<1>3. CallRight'
  BY <1>1, <1>2, AfterInsertRight
<1>4. EntriesRight'
  <2>1. CASE C!RenewEntry
    BY <2>1, MoveToEndKeeps DEF C!RenewEntry, IInv, CacheInv
  <2>2. CASE C!EvictOldest
    BY <2>2, EvictKeeps DEF IInv, CacheInv
  <2>3. CASE C!AddEntry
    BY <2>3, AddKeeps
  <2>. QED  BY <1>1, <2>1, <2>2, <2>3 DEF C!Insert
<1>. QED  BY <1>1, <1>3, <1>4, ReportKeeps

LEMMA HistoryLength ==
  ASSUME NEW r \in Requests, NEW g \in Nat
  PROVE  Len(Prompt[r] \o [i \in 1..g |-> Sampled]) = Len(Prompt[r]) + g
<1>. DEFINE T == Token \cup {Sampled}
            p == Prompt[r]
            a == [i \in 1..g |-> Sampled]
<1>1. p \in Seq(T)
  BY PromptLengths
<1>2. a \in Seq(T) /\ Len(a) = g
  OBVIOUS
<1>. HIDE DEF T, p, a
<1>3. Len(p \o a) = Len(p) + Len(a)
  BY ONLY <1>1, <1>2, ConcatProperties
<1>. QED  BY <1>2, <1>3 DEF p, a

LEMMA PrefillDoneKeeps == ASSUME IInv, PrefillDone PROVE IInv'
<1>1. /\ pc = "insert" /\ at <= Len(rows) /\ call = C!Idle /\ S!MarkPrefillDone(Row)
      /\ pc' = "token" /\ UNCHANGED <<cacheVars, slot_prepared, rows, at>>
  BY DEF PrefillDone, AtRow, Goto
<1>2. /\ at \in DOMAIN rows /\ Row \in Requests /\ Row \in ToSet(running)
      /\ \A i \in DOMAIN rows : i # at => rows[i] # Row
      /\ at \in Nat \ {0} /\ DOMAIN rows = 1..Len(rows)
      /\ \A i \in DOMAIN rows : rows[i] \in Requests
  BY <1>1, RowFacts, RowsAreRequests DEF Reporting, IInv, StepInv
<1>3. /\ Row \in prefill_requests /\ state' = [state EXCEPT ![Row] = "decode"]
      /\ UNCHANGED <<max_concurrent_requests, max_tokens_per_step, waiting, running, batch_idx,
                     prefill_offset, prefill_chunk_size, num_generated, prefill_requests,
                     decode_requests>>
  BY <1>1 DEF S!MarkPrefillDone, S!limitVars, S!placeVars, S!batchVars
<1>4. SP!IInv'
  BY <1>1, <1>2, SamePrefillDone, Assumptions, SP!MarkPrefillDoneKeeps DEF IInv
<1>5. state \in [Requests -> {"new", "waiting", "prefill", "decode", "finished"}]
  BY Known DEF SchedulerBooks
<1>6. /\ state'[Row] = "decode" /\ IsPrefill(Row)
      /\ \A r \in Requests \ {Row} : state'[r] = state[r]
  BY <1>1, <1>2, <1>3, <1>5 DEF IInv, StepInv, Batches, Row
<1>7. StepTyped' /\ RowsRun'
  BY <1>1, <1>3 DEF IInv, StepInv, StepTyped, RowsRun, Engaged, Reporting
<1>8. OffsetsFit'
  BY <1>2, <1>3, <1>6 DEF IInv, StepInv, OffsetsFit
<1>9. Batches'
  <2>1. \A r \in decode_requests : r \in Requests
    BY Known DEF SchedulerBooks
  <2>2. \A r \in decode_requests' : state'[r] = "decode" /\ r \notin prefill_requests'
    BY <1>3, <1>6, <2>1 DEF IInv, StepInv, Batches
  <2>3. \A i \in DOMAIN rows : i > at => IsPrefill(rows[i])'
    <3>. SUFFICES ASSUME NEW i \in DOMAIN rows, i > at PROVE state'[rows[i]] = "prefill"
      BY <1>1 DEF IsPrefill
    <3>1. rows[i] \in Requests \ {Row} /\ i >= at
      BY <1>2
    <3>2. state[rows[i]] = "prefill"
      BY <1>1, <3>1 DEF IInv, StepInv, Batches, IsPrefill
    <3>. QED  BY <1>6, <3>1, <3>2
  <2>4. Row' = Row
    BY <1>1 DEF Row
  <2>. QED  BY <1>1, <1>2, <1>3, <2>2, <2>3, <2>4 DEF Batches
<1>10. slot_prepared[Row]
  BY <1>1, <1>2 DEF IInv, StepInv, LookedUp, Row, Reporting
<1>11. LookedUp'
  BY <1>1, <1>3, <1>6, <1>10 DEF IInv, StepInv, LookedUp, Reporting
<1>12. PromptLeft' /\ PromptsRead'
  <2>1. ASSUME NEW r \in Requests, state'[r] = "prefill"
        PROVE  \/ prefill_offset[r] < Len(Prompt[r])
               \/ r \in prefill_requests /\ \E i \in DOMAIN rows : rows[i] = r /\ Moved(i)'
    <3>1. r # Row /\ state[r] = "prefill"
      BY <1>6, <2>1
    <3>. QED  BY <1>1, <3>1 DEF IInv, StepInv, PromptLeft, Moved, Reporting
  <2>2. ASSUME NEW i \in DOMAIN rows, Moved(i)', IsPrefill(rows[i])', rows[i] \in prefill_requests
        PROVE  prefill_offset[rows[i]] = Len(Prompt[rows[i]])
    <3>1. Moved(i) /\ rows[i] \in Requests \ {Row}
      BY <1>1, <1>2, <1>6, <2>2 DEF Moved, Reporting, IsPrefill
    <3>2. IsPrefill(rows[i])
      BY <1>1, <1>6, <2>2, <3>1 DEF IsPrefill
    <3>. QED  BY <2>2, <3>1, <3>2 DEF IInv, StepInv, PromptsRead
  <2>. QED  BY <1>1, <1>3, <2>1, <2>2 DEF PromptLeft, PromptsRead
<1>13. Counted'
  <2>1. \A r \in Requests : FirstDue(r)' <=> r = Row
    BY <1>1, <1>2, <1>3 DEF FirstDue, Row
  <2>2. \A r \in Requests : ~FirstDue(r)
    BY <1>1 DEF FirstDue
  <2>3. num_generated[Row] = 0
    BY <1>2, <1>6 DEF IInv, StepInv, Counted, IsPrefill
  <2>. QED  BY <1>3, <1>6, <2>1, <2>2, <2>3 DEF IInv, StepInv, Counted
<1>14. SlotsTyped'
  BY <1>1 DEF IInv, CacheInv, SlotsTyped, cacheVars, slotVars
<1>15. PastRight'
  <2>. SUFFICES ASSUME NEW r \in ToSet(running), slot_prepared[r] PROVE HasPast(r)'
    BY <1>1, <1>3 DEF PastRight
  <2>1. r \in Requests /\ HasPast(r)
    BY <1>1, Known DEF IInv, CacheInv, PastRight, SchedulerBooks
  <2>2. ~IsFed(r)
    BY <1>1 DEF IsFed, Fed
  <2>3. CASE r = Row
    <3>1. prefill_offset[r] = Len(Prompt[r])
      <4>1. PICK i \in DOMAIN rows : i = at /\ rows[i] = r
        BY <1>2, <2>3 DEF Row
      <4>2. Moved(i)
        BY <1>1, <1>2, <4>1 DEF Moved, Reporting
      <4>. QED  BY <1>3, <1>6, <2>3, <4>1, <4>2 DEF IInv, StepInv, PromptsRead
    <3>2. IsFed(r)'
      <4>1. PICK i \in DOMAIN rows : i = at /\ rows[i] = r
        BY <1>2, <2>3 DEF Row
      <4>2. Fed(i)'
        BY <1>1, <1>2, <1>6, <2>3, <4>1 DEF Fed, IsPrefill
      <4>. QED  BY <1>1, <4>1, <4>2 DEF IsFed
    <3>3. History(r)' = History(r)
      BY <1>3 DEF History
    <3>4. Reach(r) = Len(Prompt[r])
      BY <1>6, <2>2, <2>3, <3>1, PromptLengths DEF Reach, Cursor
    <3>5. Len(History(r)) = Len(Prompt[r]) /\ Len(Prompt[r]) \in Nat \ {0}
      <4>1. num_generated[r] = 0
        BY <1>6, <2>1, <2>3 DEF IInv, StepInv, Counted, IsPrefill
      <4>2. Len(History(r)) = Len(Prompt[r]) + num_generated[r] /\ Len(Prompt[r]) \in Nat \ {0}
        BY <2>1, Known, HistoryFacts, PromptLengths
      <4>. QED  BY <4>1, <4>2
    <3>6. Reach(r)' = Len(Prompt[r])
      <4>1. ~IsPrefill(r)'
        BY <1>6, <2>3 DEF IsPrefill
      <4>2. Cursor(r)' = Len(Prompt[r]) - 1 /\ ValidLen(r)' = 1
        BY <3>3, <3>5, <4>1 DEF Cursor, ValidLen
      <4>. QED  BY <3>2, <3>5, <4>2 DEF Reach
    <3>. QED  BY <1>1, <1>3, <2>1, <3>3, <3>4, <3>6 DEF HasPast, Attended, cacheVars, slotVars
  <2>4. CASE r # Row
    <3>1. ~IsFed(r)'
      <4>. SUFFICES ASSUME NEW i \in DOMAIN rows, rows[i] = r, Fed(i)' PROVE FALSE
        BY <1>1 DEF IsFed
      <4>1. i >= at /\ ~IsPrefill(rows[i])'
        BY <1>1 DEF Fed
      <4>2. i # at /\ i \in Nat
        BY <1>2, <2>4 DEF Row
      <4>3. i > at
        BY <1>2, <4>1, <4>2
      <4>. QED  BY <1>1, <1>2, <1>6, <4>1, <4>3 DEF IInv, StepInv, Batches, IsPrefill
    <3>. QED  BY <1>1, <1>3, <1>6, <2>1, <2>2, <2>4, <3>1, PastStays DEF cacheVars, slotVars
  <2>. QED  BY <2>3, <2>4
<1>16. EntriesRight' /\ CallRight'
  <2>1. EntriesRight'
    BY <1>1 DEF IInv, CacheInv, EntriesRight, cacheVars, prefixVars, C!Keys, C!Key, CopyOf
  <2>2. call' = C!Idle
    BY <1>1 DEF cacheVars
  <2>. QED  BY <2>1, <2>2 DEF CallRight
<1>. QED  BY <1>4, <1>7, <1>8, <1>9, <1>11, <1>12, <1>13, <1>14, <1>15, <1>16
          DEF IInv, StepInv, CacheInv

(* What a reported token does to the row it is for, and to nothing else. *)
LEMMA TokenEffect ==
  ASSUME IInv, NEW r \in Requests, r \in ToSet(running), S!MarkDecodeDone(r)
  PROVE  /\ SP!IInv' /\ SchedulerBooks'
         /\ state[r] = "decode"
         /\ num_generated' = [num_generated EXCEPT ![r] = @ + 1]
         /\ prefill_requests' = prefill_requests \ {r}
         /\ decode_requests' = decode_requests \ {r}
         /\ UNCHANGED <<max_concurrent_requests, max_tokens_per_step, waiting, failed,
                        prefill_offset, prefill_chunk_size>>
         /\ \A t \in Requests \ {r} : batch_idx'[t] = batch_idx[t] /\ state'[t] = state[t]
         /\ \/ /\ state'[r] = "finished" /\ ToSet(running') = ToSet(running) \ {r}
               /\ completed' = completed \cup {r} /\ num_generated'[r] >= MaxNew[r]
            \/ /\ UNCHANGED <<running, state, batch_idx, completed>>
               /\ ~(num_generated'[r] >= MaxNew[r])
<1>1. SP!MarkDecodeDone(r)
  BY SameDecodeDone
<1>2. SP!IInv' /\ SchedulerBooks'
  BY <1>1, Assumptions, SP!MarkDecodeDoneKeeps, SchedulerKnownNext DEF IInv
<1>3. CASE /\ SP!LeaveRunning(r) /\ completed' = completed \cup {r}
           /\ num_generated'[r] >= MaxNew[r]
  <2>1. /\ SP!ToSet(running') = SP!ToSet(running) \ {r}
        /\ \A t \in Requests : state'[t] = IF t = r THEN "finished" ELSE state[t]
        /\ \A t \in Requests : batch_idx'[t] = IF t = r THEN SP!NoSlot ELSE batch_idx[t]
    BY <1>3, Assumptions, SP!LeavesRunning DEF IInv
  <2>2. ToSet(running') = ToSet(running) \ {r}
    BY <2>1 DEF SP!ToSet, ToSet
  <2>. QED  BY <1>1, <1>2, <1>3, <2>1, <2>2 DEF SP!MarkDecodeDone, SP!limitVars
<1>4. CASE /\ UNCHANGED <<running, state, free_slots, batch_idx, completed>>
           /\ ~(num_generated'[r] >= MaxNew[r])
  BY <1>1, <1>2, <1>4 DEF SP!MarkDecodeDone, SP!limitVars
<1>. QED  BY <1>1, <1>3, <1>4 DEF SP!MarkDecodeDone

LEMMA ReportTokenKeeps == ASSUME IInv, ReportToken PROVE IInv'
<1>1. /\ pc = "token" /\ at <= Len(rows) /\ S!MarkDecodeDone(Row)
      /\ IF state'[Row] = "finished" THEN C!ResetSlot(RowSlot) ELSE UNCHANGED slotVars
      /\ pc' = IF Row \in prefill_requests THEN "report" ELSE "token"
      /\ at' = at + 1
      /\ UNCHANGED <<prefixVars, call, slot_prepared, rows>>
  BY DEF ReportToken, AtRow, NextRow
<1>2. /\ at \in DOMAIN rows /\ Row \in Requests /\ Row \in ToSet(running) /\ RowSlot \in Slots
      /\ \A i \in DOMAIN rows : i # at => rows[i] # Row
      /\ \A r \in ToSet(running) : r # Row => batch_idx[r] # RowSlot
      /\ at \in Nat \ {0} /\ DOMAIN rows = 1..Len(rows) /\ Len(rows) \in Nat
      /\ \A i \in DOMAIN rows : rows[i] \in Requests
  BY <1>1, RowFacts, RowsAreRequests DEF Reporting, IInv, StepInv
<1>3. /\ SP!IInv' /\ SchedulerBooks'
      /\ state[Row] = "decode"
      /\ num_generated' = [num_generated EXCEPT ![Row] = @ + 1]
      /\ prefill_requests' = prefill_requests \ {Row}
      /\ decode_requests' = decode_requests \ {Row}
      /\ UNCHANGED <<max_concurrent_requests, max_tokens_per_step, prefill_offset,
                     prefill_chunk_size>>
      /\ \A t \in Requests \ {Row} : batch_idx'[t] = batch_idx[t] /\ state'[t] = state[t]
      /\ \/ state'[Row] = "finished" /\ ToSet(running') = ToSet(running) \ {Row}
         \/ UNCHANGED <<running, state, batch_idx>> /\ ~(num_generated'[Row] >= MaxNew[Row])
  BY <1>1, <1>2, TokenEffect
<1>4. SchedulerBooks /\ slot_prepared[Row]
  BY <1>1, <1>2, Known DEF IInv, StepInv, LookedUp, Row, Reporting
<1>5. /\ num_generated'[Row] = num_generated[Row] + 1 /\ num_generated[Row] \in Nat
      /\ \A r \in Requests \ {Row} : num_generated'[r] = num_generated[r]
  BY <1>2, <1>3, <1>4 DEF SchedulerBooks
<1>6. StepTyped'
  <2>1. at' \in 1..(Len(rows) + 1)
    BY <1>1, <1>2
  <2>. QED  BY <1>1, <2>1 DEF IInv, StepInv, StepTyped, Reporting
<1>7. ASSUME NEW i \in DOMAIN rows, i >= at'
      PROVE  /\ rows[i] # Row /\ rows[i] \in Requests /\ rows[i] \in ToSet(running)
             /\ rows[i] \in ToSet(running') /\ i > at /\ i >= at
  <2>1. i \in Nat /\ i > at /\ i >= at /\ rows[i] # Row
    BY <1>1, <1>2, <1>7
  <2>2. rows[i] \in ToSet(running)
    BY <1>1, <2>1 DEF IInv, StepInv, RowsRun, Reporting
  <2>. QED  BY <1>2, <1>3, <2>1, <2>2
<1>8. RowsRun'
  BY <1>1, <1>7 DEF IInv, StepInv, RowsRun, Engaged, Reporting
<1>9. Batches'
  <2>1. \A r \in decode_requests' : state'[r] = "decode" /\ r \notin prefill_requests'
    <3>1. \A r \in decode_requests : r \in Requests
      BY <1>4 DEF SchedulerBooks
    <3>. QED  BY <1>3, <3>1 DEF IInv, StepInv, Batches
  <2>2. CASE Row \in prefill_requests
    <3>1. pc' = "report" /\ Row \notin decode_requests
      BY <1>1, <2>2 DEF IInv, StepInv, Batches
    <3>2. \A i \in DOMAIN rows : i > at => IsPrefill(rows[i])
      <4>1. at >= at
        BY <1>2
      <4>. QED  BY <1>1, <1>2, <3>1, <4>1 DEF IInv, StepInv, Batches, Row
    <3>3. \A i \in DOMAIN rows : i >= at' => state'[rows[i]] = "prefill"
      BY <1>3, <1>7, <3>2 DEF IsPrefill
    <3>. QED  BY <1>1, <2>1, <3>1, <3>3 DEF Batches, IsPrefill
  <2>3. CASE Row \notin prefill_requests
    <3>1. pc' = "token"
      BY <1>1, <2>3
    <3>2. \A i \in DOMAIN rows : i >= at => rows[i] \in decode_requests
      BY <1>1, <2>3 DEF IInv, StepInv, Batches
    <3>3. \A i \in DOMAIN rows : i >= at' => rows[i] \in decode_requests'
      BY <1>3, <1>7, <3>2
    <3>. QED  BY <1>1, <2>1, <3>1, <3>3 DEF Batches
  <2>. QED  BY <2>2, <2>3
<1>10. OffsetsFit'
  BY <1>2, <1>3 DEF IInv, StepInv, OffsetsFit
<1>11. LookedUp'
  <2>1. \A r \in Requests :
          /\ ~slot_prepared[r] => prefill_offset[r] = 0 /\ state'[r] # "decode"
          /\ state'[r] \in {"new", "waiting"} => ~slot_prepared[r]
    BY <1>3, <1>4 DEF IInv, StepInv, LookedUp
  <2>2. \A i \in DOMAIN rows : slot_prepared[rows[i]]
    BY <1>1 DEF IInv, StepInv, LookedUp, Reporting
  <2>. QED  BY <1>1, <1>3, <2>1, <2>2 DEF LookedUp
<1>12. PromptLeft'
  <2>. SUFFICES ASSUME NEW r \in Requests, state'[r] = "prefill",
                       ~(prefill_offset[r] < Len(Prompt[r]))
                PROVE  r \in prefill_requests' /\ \E i \in DOMAIN rows : rows[i] = r /\ Moved(i)'
    BY <1>1, <1>3 DEF PromptLeft
  <2>1. r # Row /\ state[r] = "prefill"
    BY <1>3
  <2>2. PICK i \in DOMAIN rows : rows[i] = r /\ i >= at /\ r \in prefill_requests
    BY <1>1, <2>1 DEF IInv, StepInv, PromptLeft, Moved
  <2>3. i >= at'
    <3>1. i # at
      BY <2>1, <2>2 DEF Row
    <3>. QED  BY <1>1, <1>2, <2>2, <3>1
  <2>4. Moved(i)'
    BY <1>1, <2>3 DEF Moved, Reporting
  <2>. QED  BY <1>3, <2>1, <2>2, <2>4
<1>13. PromptsRead'
  <2>. SUFFICES ASSUME NEW i \in DOMAIN rows, Moved(i)', IsPrefill(rows[i])',
                       rows[i] \in prefill_requests'
                PROVE  prefill_offset[rows[i]] = Len(Prompt[rows[i]])
    BY <1>1, <1>3 DEF PromptsRead
  <2>1. i >= at'
    BY <1>1 DEF Moved, Reporting
  <2>2. rows[i] # Row /\ rows[i] \in Requests /\ i >= at
    BY <1>7, <2>1
  <2>3. Moved(i) /\ IsPrefill(rows[i]) /\ rows[i] \in prefill_requests
    BY <1>1, <1>3, <2>2 DEF Moved, Reporting, IsPrefill
  <2>. QED  BY <2>3 DEF IInv, StepInv, PromptsRead
<1>14. Counted'
  <2>1. \A r \in Requests : ~FirstDue(r)'
    <3>. SUFFICES ASSUME NEW r \in Requests, FirstDue(r)' PROVE FALSE
      OBVIOUS
    <3>1. pc' = "token" /\ at' \in DOMAIN rows /\ rows[at'] \in prefill_requests'
      BY <1>1 DEF FirstDue, Row
    <3>2. Row \notin prefill_requests
      BY <1>1, <3>1
    <3>3. \A i \in DOMAIN rows : i >= at => rows[i] \in decode_requests
      BY <1>1, <3>2 DEF IInv, StepInv, Batches
    <3>4. at' >= at
      BY <1>1, <1>2
    <3>5. rows[at'] \in decode_requests
      BY <3>1, <3>3, <3>4
    <3>. QED  BY <1>3, <3>1, <3>5 DEF IInv, StepInv, Batches
  <2>2. \A r \in Requests \ {Row} : ~FirstDue(r)
    BY DEF FirstDue
  <2>3. ASSUME NEW r \in Requests \ {Row}
        PROVE  /\ state'[r] \in {"new", "waiting", "prefill"} => num_generated'[r] = 0
               /\ state'[r] = "decode" => num_generated'[r] \in 1 .. MaxNew[r] - 1
    BY <1>3, <1>5, <2>2 DEF IInv, StepInv, Counted
  <2>4. /\ state'[Row] \in {"decode", "finished"}
        /\ state'[Row] = "decode" => num_generated'[Row] \in 1 .. MaxNew[Row] - 1
    <3>1. MaxNew[Row] \in Nat
      BY <1>2, RequestsAssumption
    <3>. QED  BY <1>3, <1>5, <3>1
  <2>. QED  BY <2>1, <2>3, <2>4 DEF Counted
<1>15. /\ SlotsTyped'
       /\ \A s \in Slots \ {RowSlot} : past'[s] = past[s]
       /\ state'[Row] # "finished" => past'[RowSlot] = past[RowSlot]
  <2>1. SlotsTyped
    BY DEF IInv, CacheInv
  <2>2. CASE state'[Row] = "finished"
    <3>1. /\ past' = [past EXCEPT ![RowSlot] = <<>>]
          /\ pos' = [pos EXCEPT ![RowSlot] = 0]
      BY <1>1, <2>2 DEF C!ResetSlot
    <3>2. <<>> \in Seq(KV) /\ Len(<<>>) = 0 /\ 0 \in 0 .. MaxSeqLen
      BY EmptySeq, CacheAssumption
    <3>. QED  BY <1>1, <1>2, <2>1, <2>2, <3>1, <3>2 DEF SlotsTyped
  <2>3. CASE state'[Row] # "finished"
    BY <1>1, <2>1, <2>3 DEF SlotsTyped, slotVars
  <2>. QED  BY <2>2, <2>3
<1>16. PastRight'
  <2>. SUFFICES ASSUME NEW r \in ToSet(running'), slot_prepared[r] PROVE HasPast(r)'
    BY <1>1 DEF PastRight
  <2>1. r \in Requests /\ r \in ToSet(running) /\ batch_idx[r] \in Slots
    BY <1>3, <1>4 DEF SchedulerBooks
  <2>2. HasPast(r)
    BY <1>1, <2>1 DEF IInv, CacheInv, PastRight
  <2>3. CASE r = Row
    <3>1. /\ state'[r] = state[r] /\ batch_idx'[r] = batch_idx[r] /\ state[r] = "decode"
          /\ past'[RowSlot] = past[RowSlot]
      BY <1>3, <1>15, <2>3
    <3>2. IsFed(r)
      <4>1. PICK i \in DOMAIN rows : i = at /\ rows[i] = r
        BY <1>2, <2>3 DEF Row
      <4>2. Fed(i)
        BY <1>1, <1>2, <3>1, <4>1 DEF Fed, IsPrefill
      <4>. QED  BY <4>1, <4>2 DEF IsFed
    <3>3. ~IsFed(r)'
      <4>. SUFFICES ASSUME NEW i \in DOMAIN rows, rows[i] = r, Fed(i)' PROVE FALSE
        BY <1>1 DEF IsFed
      <4>1. i >= at'
        BY <1>1 DEF Fed
      <4>. QED  BY <1>7, <2>3, <4>1
    <3>. DEFINE g == num_generated[r]
    <3>4. /\ Len(History(r)) = Len(Prompt[r]) + g
          /\ Len(History(r)') = Len(Prompt[r]) + num_generated'[r]
          /\ Len(Prompt[r]) \in Nat \ {0} /\ num_generated'[r] = g + 1 /\ g \in Nat
      <4>1. num_generated'[r] = g + 1 /\ g \in Nat /\ g + 1 \in Nat
        BY <1>5, <2>3
      <4>. QED  BY <2>1, <4>1, HistoryLength, PromptLengths DEF History
    <3>5. Reach(r) = Len(Prompt[r]) + g
      BY <3>1, <3>2, <3>4 DEF Reach, Cursor, ValidLen, IsPrefill
    <3>6. Reach(r)' = Len(Prompt[r]) + g
      BY <3>1, <3>3, <3>4 DEF Reach, Cursor, IsPrefill
    <3>7. past'[batch_idx'[r]] = past[batch_idx[r]]
      BY <2>3, <3>1 DEF RowSlot
    <3>8. Attended(r, past[batch_idx[r]])'
      <4>. DEFINE p == past[batch_idx[r]]
      <4>1. p = [j \in 1 .. Len(p) |-> SubSeq(History(r), 1, j)] /\ Len(p) = Len(Prompt[r]) + g
        BY <2>2, <3>5 DEF HasPast, Attended
      <4>2. ASSUME NEW j \in 1 .. Len(p) PROVE SubSeq(History(r)', 1, j) = SubSeq(History(r), 1, j)
        <5>1. j \in Nat /\ j <= Len(History(r))
          BY <3>4, <4>1
        <5>. QED  BY <2>1, <3>4, <5>1, HistoryGrows DEF History
      <4>. HIDE DEF p
      <4>3. p = [j \in 1 .. Len(p) |-> SubSeq(History(r)', 1, j)]
        BY <4>1, <4>2
      <4>4. past'[batch_idx'[r]] = p
        BY <3>7 DEF p
      <4>. QED  BY <4>3, <4>4 DEF Attended
    <3>. QED  BY <2>2, <3>5, <3>6, <3>7, <3>8 DEF HasPast
  <2>4. CASE r # Row
    <3>1. past'[batch_idx'[r]] = past[batch_idx[r]]
      BY <1>2, <1>3, <1>15, <2>1, <2>4
    <3>2. IsFed(r)' <=> IsFed(r)
      <4>1. ASSUME NEW i \in DOMAIN rows, rows[i] = r PROVE Fed(i)' <=> Fed(i)
        <5>1. i # at /\ i \in Nat /\ state'[rows[i]] = state[rows[i]]
          BY <1>2, <1>3, <2>1, <2>4, <4>1 DEF Row
        <5>2. i >= at <=> i >= at'
          BY <1>1, <1>2, <5>1
        <5>3. CASE Row \in prefill_requests
          <6>1. i >= at => IsPrefill(rows[i])
            <7>1. at >= at /\ (i >= at => i > at)
              BY <1>2, <5>1
            <7>. QED  BY <1>1, <1>2, <5>3, <7>1 DEF IInv, StepInv, Batches, Row
          <6>. QED  BY <1>1, <5>3, <6>1 DEF Fed
        <5>4. CASE Row \notin prefill_requests
          BY <1>1, <5>1, <5>2, <5>4 DEF Fed, IsPrefill
        <5>. QED  BY <5>3, <5>4
      <4>. QED  BY <1>1, <4>1 DEF IsFed
    <3>. QED  BY <1>3, <1>5, <2>1, <2>2, <2>4, <3>1, <3>2, PastStays
  <2>. QED  BY <2>3, <2>4
<1>17. EntriesRight' /\ CallRight'
  BY <1>1, EntriesStay
<1>. QED  BY <1>3, <1>6, <1>8, <1>9, <1>10, <1>11, <1>12, <1>13, <1>14, <1>15, <1>16, <1>17
          DEF IInv, StepInv, CacheInv

-----------------------------------------------------------------------------
(* The invariant holds. *)

LEMMA InitEstablishes == Init => IInv
<1>. SUFFICES ASSUME Init PROVE IInv
  OBVIOUS
<1>1. SP!IInv /\ SchedulerBooks
  BY SameInit, Assumptions, SP!InitEstablishes, SchedulerKnown DEF Init
<1>2. /\ rows = <<>> /\ at = 1 /\ pc = "idle" /\ call = C!Idle
      /\ running = <<>> /\ prefill_requests = {} /\ decode_requests = {}
      /\ state = [r \in Requests |-> "new"]
      /\ prefill_offset = [r \in Requests |-> 0] /\ num_generated = [r \in Requests |-> 0]
      /\ slot_prepared = [r \in Requests |-> FALSE]
      /\ past = [s \in Slots |-> <<>>] /\ pos = [s \in Slots |-> 0]
      /\ entries = [k \in {} |-> <<>>] /\ lru = <<>> /\ memory = 0
  BY DEF Init, S!Init, C!Init, Slots
<1>3. rows \in Seq(Requests) /\ DOMAIN rows = {} /\ Len(rows) = 0 /\ IsInjective(rows)
  BY <1>2, EmptySeq DEF IsInjective
<1>4. StepTyped /\ RowsRun /\ Batches /\ PromptsRead
  BY <1>2, <1>3 DEF StepTyped, RowsRun, Batches, PromptsRead
<1>5. OffsetsFit /\ LookedUp /\ PromptLeft /\ Counted
  BY <1>2, <1>3, PromptLengths DEF OffsetsFit, LookedUp, PromptLeft, Counted, Engaged, Reporting
<1>6. SlotsTyped
  <2>1. <<>> \in Seq(KV) /\ Len(<<>>) = 0 /\ 0 \in 0 .. MaxSeqLen
    BY EmptySeq, CacheAssumption
  <2>. QED  BY <1>2, <2>1 DEF SlotsTyped
<1>7. PastRight
  <2>1. ToSet(running) = {}
    BY <1>2 DEF ToSet
  <2>. QED  BY <2>1 DEF PastRight
<1>8. EntriesRight
  <2>1. DOMAIN entries = {}
    BY <1>2
  <2>2. lru \in Seq(DOMAIN entries) /\ Len(lru) = 0 /\ DOMAIN lru = {}
    BY <1>2, EmptySeq
  <2>3. IsInjective(lru) /\ ToSet(lru) = {}
    BY <2>2 DEF IsInjective, ToSet
  <2>4. IsFiniteSet(DOMAIN entries)
    BY <2>1, FS_EmptySet
  <2>5. 0 <= MaxEntries /\ memory = Len(lru) * BlockSize
    BY <1>2, <2>2, CacheAssumption
  <2>. QED  BY <2>1, <2>2, <2>3, <2>4, <2>5 DEF EntriesRight
<1>9. CallRight
  BY <1>2 DEF CallRight
<1>. QED  BY <1>1, <1>4, <1>5, <1>6, <1>7, <1>8, <1>9 DEF IInv, StepInv, CacheInv

LEMMA NextKeeps == ASSUME IInv, [Next]_vars PROVE IInv'
<1>1. CASE UNCHANGED vars
  <2>1. UNCHANGED <<schedulerVars, cacheVars, slotVars, prefixVars, call, slot_prepared, stepVars>>
    BY <1>1 DEF vars, cacheVars
  <2>2. SP!IInv'
    BY <2>1, SchedulerStays DEF IInv
  <2>3. StepTyped' /\ RowsRun' /\ Batches' /\ OffsetsFit' /\ LookedUp'
    BY <2>1 DEF IInv, StepInv, StepTyped, RowsRun, Batches, OffsetsFit, LookedUp, schedulerVars,
       stepVars, IsPrefill, Row
  <2>4. PromptLeft' /\ PromptsRead' /\ Counted'
    BY <2>1 DEF IInv, StepInv, PromptLeft, PromptsRead, Counted, FirstDue, Moved, schedulerVars,
       stepVars, IsPrefill, Row
  <2>5. SlotsTyped' /\ EntriesRight'
    BY <2>1 DEF IInv, CacheInv, SlotsTyped, EntriesRight, slotVars, prefixVars, stepVars, C!Keys,
       C!Key, CopyOf
  <2>6. CallRight'
    BY <2>1 DEF IInv, CacheInv, CallRight, slotVars, prefixVars, stepVars, schedulerVars, C!Key,
       C!MaxFullBlocks, C!InsertBlocks, Row, RowSlot, C!Idle
  <2>7. PastRight'
    <3>. SUFFICES ASSUME pc # "raised", NEW r \in ToSet(running), slot_prepared[r]
                  PROVE  HasPast(r)'
      BY <2>1 DEF PastRight, schedulerVars, stepVars
    <3>1. r \in Requests /\ HasPast(r)
      BY Known DEF IInv, CacheInv, PastRight, SchedulerBooks
    <3>2. IsFed(r)' <=> IsFed(r)
      BY <2>1 DEF IsFed, Fed, IsPrefill, schedulerVars, stepVars
    <3>. QED  BY <2>1, <3>1, <3>2, PastStays DEF schedulerVars, slotVars
  <2>. QED  BY <2>2, <2>3, <2>4, <2>5, <2>6, <2>7 DEF IInv, StepInv, CacheInv
<1>2. CASE Step
  <2>1. CASE BeginStep \/ EndPrefill \/ EndDecode
    BY <2>1, BeginStepKeeps, EndPrefillKeeps, EndDecodeKeeps
  <2>2. CASE Prepare
    BY <2>2, SkipPreparedKeeps, PrepareRowKeeps, LookupBlockKeeps, PrefixMissedKeeps,
       LoadedPrefixKeeps DEF Prepare
  <2>3. CASE Forward
    BY <2>3, StartForwardKeeps, ForwardRowKeeps, ForwardRaisesKeeps, AdvanceRowKeeps DEF Forward
  <2>4. CASE Report
    BY <2>4, SkipRowKeeps, RegisterRowKeeps, InsertBlockKeeps, PrefillDoneKeeps, ReportTokenKeeps
       DEF Report
  <2>. QED  BY <1>2, <2>1, <2>2, <2>3, <2>4 DEF Step
<1>3. CASE Clients
  BY <1>3, AddRequestKeeps, CancelKeeps DEF Clients
<1>4. CASE Stopped
  BY <1>1, <1>4 DEF Stopped
<1>. QED  BY <1>1, <1>2, <1>3, <1>4 DEF Next

-----------------------------------------------------------------------------
(* The theorems about the engine. *)

(* The inductive invariant holds in every state of the engine. *)
THEOREM Invariance == Spec => []IInv
<1>1. Init => IInv
  BY InitEstablishes
<1>2. IInv /\ [Next]_vars => IInv'
  BY NextKeeps
<1>. QED  BY <1>1, <1>2, PTL DEF Spec

(* A key of a prompt is a key of the cache, and what is copied for it is K/V. *)
LEMMA CopiesTyped ==
  ASSUME NEW k \in C!Keys
  PROVE  CopyOf(k) \in Seq(KV) /\ Len(CopyOf(k)) = BlockSize
<1>0. PICK r \in Requests : \E n \in 1 .. Len(Prompt[r]) \div BlockSize : k = C!Key(Prompt[r], n)
  BY DEF C!Keys
<1>1. PICK n \in 1 .. Len(Prompt[r]) \div BlockSize : k = C!Key(Prompt[r], n)
  BY <1>0
<1>2. n \in Nat /\ n * BlockSize <= Len(Prompt[r])
  <2>1. PICK m \in Nat : m = Len(Prompt[r])
    BY PromptLengths
  <2>2. m \div BlockSize \in Nat /\ BlockSize \in Nat \ {0}
    BY CacheAssumption
  <2>3. n \in 1 .. m \div BlockSize
    BY <2>1
  <2>4. n \in Nat /\ n <= m \div BlockSize
    BY <2>2, <2>3
  <2>. HIDE <1>1
  <2>. QED  BY <2>1, <2>2, <2>4, WholeBlocks
<1>3. k \in Seq(Token) /\ Len(k) \in Nat
  BY <1>1, <1>2, KeyFacts, LenProperties
<1>4. PICK l \in Nat : Len(k) = l
  BY <1>3
<1>5. ASSUME NEW j \in 1 .. BlockSize PROVE SubSeq(k, 1, l - BlockSize + j) \in KV
  <2>1. l - BlockSize + j <= l /\ l - BlockSize + j \in Int
    BY CacheAssumption
  <2>2. \A i \in 1 .. l - BlockSize + j : k[i] \in Token \cup {Sampled}
    <3>1. \A i \in 1 .. l : k[i] \in Token
      BY <1>3, <1>4, ElementOfSeq
    <3>. QED  BY <2>1, <3>1
  <2>. QED  BY <1>3, <2>1, <2>2, SubSeqProperties DEF KV
<1>6. CopyOf(k) = [j \in 1 .. BlockSize |-> SubSeq(k, 1, l - BlockSize + j)]
  BY <1>4 DEF CopyOf
<1>7. CopyOf(k) \in [1 .. BlockSize -> KV]
  BY <1>5, <1>6
<1>8. CopyOf(k) \in Seq(KV) /\ DOMAIN CopyOf(k) = 1 .. BlockSize
  BY <1>7, CacheAssumption
<1>. QED  BY <1>8, CacheAssumption, LenProperties

(* Scheduler, cache and step are well formed throughout every step, in
   whatever order lookups, inserts, exceptions and cancellations follow: a
   past has room in its slot, and a key is one of a prompt's. *)
THEOREM TypeCorrect == Spec => []TypeOK
<1>1. IInv => TypeOK
  <2>. SUFFICES ASSUME IInv PROVE TypeOK
    OBVIOUS
  <2>1. S!TypeOK
    BY SameSchedulerInvariants DEF IInv, SP!IInv
  <2>2. /\ past \in [Slots -> Seq(KV)] /\ pos \in [Slots -> 0 .. MaxSeqLen]
        /\ DOMAIN entries \subseteq C!Keys
        /\ lru \in Seq(DOMAIN entries)
    BY DEF IInv, CacheInv, SlotsTyped, EntriesRight
  <2>3. \A k \in DOMAIN entries : entries[k] \in Seq(KV)
    BY CopiesTyped DEF IInv, CacheInv, EntriesRight
  <2>4. memory \in Nat
    <3>1. memory = Len(lru) * BlockSize /\ Len(lru) \in Nat
      BY KeysCounted DEF IInv, CacheInv, EntriesRight
    <3>. QED  BY <3>1, CacheAssumption
  <2>5. CASE call = C!Idle
    BY <2>1, <2>2, <2>3, <2>4, <2>5 DEF TypeOK, C!TypeOK, IInv, StepInv, StepTyped, Engaged,
       Reporting, Slots, KV
  <2>6. CASE call # C!Idle
    <3>1. /\ call.op \in {"lookup", "insert"} /\ call.next \in Nat \ {0}
          /\ call = [op |-> call.op, slot |-> RowSlot, tokens |-> Prompt[Row], next |-> call.next]
          /\ pc \in {"load", "insert"} /\ at <= Len(rows)
      BY <2>6, RowsAreRequests DEF IInv, StepInv, CacheInv, CallRight
    <3>2. Row \in Requests /\ RowSlot \in Slots
      BY <3>1, RowFacts DEF Engaged, Reporting
    <3>3. call \in [op : {"lookup", "insert"}, slot : Slots,
                    tokens : {Prompt[r] : r \in Requests}, next : Nat \ {0}]
      BY <3>1, <3>2
    <3>4. PICK n \in Nat : n = call.next - 1 /\ n * BlockSize <= Len(Prompt[Row])
      <4>1. CASE call.op = "lookup"
        <5>1. call.next - 1 \in Nat /\ call.next - 1 <= C!MaxFullBlocks(Prompt[Row])
          BY <2>6, <3>1, <4>1 DEF IInv, CacheInv, CallRight
        <5>2. (call.next - 1) * BlockSize < Len(Prompt[Row])
          BY <3>2, <5>1, BlocksInPrompt
        <5>. QED  BY <3>2, <5>1, <5>2, PromptLengths, CacheAssumption
      <4>2. CASE call.op = "insert"
        <5>1. PICK m \in Nat \ {0} : call.next = m /\ m * BlockSize <= Len(Prompt[Row])
          BY <4>2, InsertFacts
        <5>2. PICK l \in Nat : l = Len(Prompt[Row])
          BY <3>2, PromptLengths
        <5>3. m - 1 \in Nat /\ (m - 1) * BlockSize <= l
          <6>1. (m - 1) * BlockSize = m * BlockSize - BlockSize
            BY CacheAssumption
          <6>. QED  BY <5>1, <5>2, <6>1, CacheAssumption
        <5>. QED  BY <5>1, <5>2, <5>3
      <4>. QED  BY <3>1, <4>1, <4>2
    <3>5. call.next <= Len(Prompt[Row]) \div BlockSize + 1
      <4>1. PICK l \in Nat : l = Len(Prompt[Row])
        BY <3>2, PromptLengths
      <4>2. l \div BlockSize \in Nat
        BY CacheAssumption
      <4>3. n * BlockSize <= l
        BY <3>4, <4>1
      <4>4. n <= l \div BlockSize
        BY <4>3, DividedAgain, CacheAssumption
      <4>. QED  BY <3>1, <3>4, <4>1, <4>2, <4>4
    <3>6. call.next <= Len(call.tokens) \div BlockSize + 1
      <4>1. call.tokens = Prompt[Row]
        BY <3>1
      <4>. QED  BY <3>5, <4>1
    <3>. QED  BY <2>1, <2>2, <2>3, <2>4, <3>3, <3>6 DEF TypeOK, C!TypeOK, IInv, StepInv, StepTyped,
              Engaged, Reporting, Slots, KV
  <2>. QED  BY <2>5, <2>6
<1>. QED  BY <1>1, Invariance, PTL

(* What a running request attends to is its own tokens, in order and from the
   first, whatever was copied for it from the prefix cache, however its prompt
   was cut, and whatever a cancelled request left in its slot; between steps
   the recorded length of the slot is where the request says it is. *)
THEOREM PastStaysHistory == Spec => []PastIsHistory
<1>1. IInv => PastIsHistory
  <2>. SUFFICES ASSUME IInv PROVE PastIsHistory
    OBVIOUS
  <2>1. ASSUME pc # "raised", NEW r \in ToSet(running), slot_prepared[r] PROVE HasPast(r)
    BY <2>1 DEF IInv, CacheInv, PastRight
  <2>2. pc # "raised" => \A s \in Slots : pos[s] = Len(past[s])
    BY DEF IInv, CacheInv, SlotsTyped
  <2>3. ASSUME pc = "idle", NEW r \in ToSet(running), slot_prepared[r]
        PROVE  pos[batch_idx[r]] = Cursor(r)
    <3>1. r \in Requests /\ batch_idx[r] \in Slots /\ SchedulerBooks
      BY Known DEF SchedulerBooks
    <3>2. ~IsFed(r)
      BY <2>3 DEF IsFed, Fed
    <3>3. Cursor(r) \in Int
      BY <3>1, HistoryFacts DEF Cursor, SchedulerBooks
    <3>4. Len(past[batch_idx[r]]) = Cursor(r)
      BY <2>1, <2>3, <3>2, <3>3 DEF HasPast, Reach
    <3>. QED  BY <2>2, <2>3, <3>1, <3>4
  <2>. QED  BY <2>1, <2>2, <2>3 DEF PastIsHistory, HasPast, Slots
<1>. QED  BY <1>1, Invariance, PTL

(* Only a request too long for max_seq_len makes a step raise. *)
LEMMA RaisesKeeps ==
  ASSUME IInv, OnlyLongRaises, [Next]_vars
  PROVE  OnlyLongRaises'
<1>1. CASE UNCHANGED vars
  BY <1>1 DEF OnlyLongRaises, vars, stepVars, schedulerVars
<1>2. CASE ForwardRaises
  <2>1. TooLong(Row)
    BY <1>2, ForwardRaisesKeeps
  <2>2. pc = "forward" /\ at <= Len(rows) /\ UNCHANGED <<running, rows, at>>
    BY <1>2 DEF ForwardRaises, AtRow, Goto, schedulerVars
  <2>3. Row \in ToSet(running)
    BY <2>2, RowFacts DEF Engaged
  <2>4. \E i \in DOMAIN running : TooLong(running[i])
    BY <2>1, <2>3 DEF ToSet
  <2>. QED  BY <2>2, <2>4 DEF OnlyLongRaises, TooLong
<1>3. ASSUME pc' # "raised" PROVE OnlyLongRaises'
  BY <1>3 DEF OnlyLongRaises
<1>4. CASE Prepare \/ Report
  BY <1>3, <1>4 DEF Prepare, Report, SkipPrepared, PrepareRow, LookupBlock, PrefixMissed,
     LoadedPrefix, SkipRow, RegisterRow, InsertBlock, PrefillDone, ReportToken, AtRow, NextRow,
     Goto, stepVars
<1>5. CASE BeginStep \/ EndPrefill \/ EndDecode \/ Clients
  BY <1>3, <1>5 DEF BeginStep, EndPrefill, EndDecode, Clients, AddRequest, Cancel, stepVars
<1>6. CASE StartForward \/ ForwardRow \/ AdvanceRow
  BY <1>3, <1>6 DEF StartForward, ForwardRow, AdvanceRow, NextRowOr
<1>. QED  BY <1>1, <1>2, <1>4, <1>5, <1>6 DEF Next, Step, Forward, Stopped

(* A step raises only when a running request is longer than max_seq_len with
   the tokens it may be given: a prefix hit leaves a token to prefill, and the
   slot's last owner, cancelled in the middle of anything, is not in the way. *)
THEOREM OnlyLongRequestsRaise == Spec => []OnlyLongRaises
<1>1. Init => OnlyLongRaises
  BY DEF Init, OnlyLongRaises
<1>2. IInv /\ OnlyLongRaises /\ [Next]_vars => OnlyLongRaises'
  BY RaisesKeeps
<1>. QED  BY <1>1, <1>2, Invariance, PTL DEF Spec

-----------------------------------------------------------------------------
(* Sums, as SP states them. *)

(* Finite sets are the same under SP. *)
LEMMA SameFinite ==
  ASSUME NEW U
  PROVE  (IsFiniteSet(U) <=> SP!IsFiniteSet(U)) /\ Cardinality(U) = SP!Cardinality(U)
BY DEF IsFiniteSet, SP!IsFiniteSet, Cardinality, SP!Cardinality

LEMMA TotalNat ==
  ASSUME NEW U, IsFiniteSet(U), NEW f, \A x \in U : f[x] \in Nat
  PROVE  SP!Total(f, U) \in Nat
BY SameFinite, Assumptions, SP!TotalType

LEMMA TotalWith ==
  ASSUME NEW U, IsFiniteSet(U), NEW f, NEW x, x \notin U, \A y \in U \cup {x} : f[y] \in Nat
  PROVE  SP!Total(f, U \cup {x}) = SP!Total(f, U) + f[x]
<1>. DEFINE V == U \cup {x}
<1>1. IsFiniteSet(V) /\ V \ {x} = U /\ x \in V /\ \A y \in V : f[y] \in Nat
  BY FS_AddElement
<1>. HIDE DEF V
<1>2. SP!Total(f, V) = f[x] + SP!Total(f, V \ {x})
  BY <1>1, SameFinite, Assumptions, SP!TotalOfMore
<1>3. SP!Total(f, U) \in Nat /\ f[x] \in Nat
  <2>1. \A y \in U : f[y] \in Nat
    OBVIOUS
  <2>. QED  BY <1>1, <2>1, TotalNat
<1>. QED  BY <1>1, <1>2, <1>3 DEF V

LEMMA TotalNone == ASSUME NEW f PROVE SP!Total(f, {}) = 0
BY Assumptions, SP!TotalEmpty

(* Two functions that agree on a set have one sum. *)
LEMMA TotalSame ==
  ASSUME NEW U, IsFiniteSet(U), NEW e, NEW f, \A x \in U : e[x] = f[x] /\ f[x] \in Nat
  PROVE  SP!Total(e, U) = SP!Total(f, U)
<1>1. \A x \in U : e[x] \in Nat /\ e[x] <= f[x] /\ f[x] <= e[x]
  OBVIOUS
<1>2. SP!Total(e, U) <= SP!Total(f, U)
  BY <1>1, SameFinite, Assumptions, SP!TotalCompare
<1>3. SP!Total(f, U) <= SP!Total(e, U)
  BY <1>1, SameFinite, Assumptions, SP!TotalCompare
<1>. QED  BY <1>1, <1>2, <1>3, TotalNat

(* A function that adds as Sums says ends with the sum. *)
LEMMA SumOf ==
  ASSUME NEW R, IsFiniteSet(R), NEW f, \A r \in R : f[r] \in Nat, NEW g, SP!Sums(f, R, g)
  PROVE  g[R] = SP!Total(f, R)
<1>1. SP!IsFiniteSet(R)
  BY SameFinite
<1>2. PICK h \in [SUBSET R -> Nat] : SP!Sums(f, R, h) /\ SP!Total(f, R) = h[R]
  BY <1>1, Assumptions, SP!TotalSums
<1>3. SP!SumsOn(f, R, g)
  BY DEF SP!Sums, SP!SumsOn
<1>4. SP!SumsOn(f, R, h)
  BY <1>2 DEF SP!Sums, SP!SumsOn
<1>5. \A s \in SUBSET R : g[s] = h[s]
  BY <1>1, <1>3, <1>4, Assumptions, SP!SumsUnique
<1>. QED  BY <1>2, <1>5

LEMMA SumExists ==
  ASSUME NEW R, IsFiniteSet(R), NEW f, \A r \in R : f[r] \in Nat
  PROVE  \E g : SP!Sums(f, R, g)
<1>1. SP!IsFiniteSet(R)
  BY SameFinite
<1>2. \E g \in [SUBSET R -> Nat] : SP!Sums(f, R, g) /\ SP!Total(f, R) = g[R]
  BY <1>1, Assumptions, SP!TotalSums
<1>. QED  BY <1>2

(* What the copies take: a block each. *)
LEMMA CopiesTotal ==
  ASSUME IInv
  PROVE  C!MapThenSumSet(LAMBDA k : Len(entries[k]), DOMAIN entries) = memory
<1>. DEFINE E == DOMAIN entries
            f == [k \in E |-> BlockSize]
            T == {n \in Nat : \A U \in SUBSET E : Cardinality(U) = n => SP!Total(f, U) = n * BlockSize}
            P(g) == g = [s \in SUBSET E |->
              IF s = {} THEN 0 ELSE Len(entries[SP!AnyOf(s)]) + g[s \ {SP!AnyOf(s)}]]
            G == CHOOSE g : P(g)
<1>1. IsFiniteSet(E) /\ \A k \in E : Len(entries[k]) = BlockSize
  BY CopiesTyped DEF IInv, CacheInv, EntriesRight
<1>2. Cardinality(E) = Len(lru) /\ Len(lru) \in Nat /\ memory = Len(lru) * BlockSize
  <2>1. C!Cardinality(E) = Cardinality(E)
    BY DEF C!Cardinality, Cardinality
  <2>. QED  BY <2>1, KeysCounted DEF IInv, CacheInv, EntriesRight
<1>3. BlockSize \in Nat
  BY CacheAssumption
<1>. HIDE DEF E
<1>4. 0 \in T
  <2>1. \A U \in SUBSET E : Cardinality(U) = 0 => U = {}
    BY <1>1, FS_Subset, FS_EmptySet
  <2>. QED  BY <1>3, <2>1, TotalNone
<1>5. ASSUME NEW n \in 0 .. Cardinality(E) - 1, n \in T PROVE n + 1 \in T
  <2>. SUFFICES ASSUME NEW U \in SUBSET E, Cardinality(U) = n + 1
                PROVE  SP!Total(f, U) = (n + 1) * BlockSize
    BY <1>2
  <2>1. IsFiniteSet(U) /\ n \in Nat
    BY <1>1, <1>2, FS_Subset
  <2>2. PICK x \in U : TRUE
    BY <2>1, FS_EmptySet
  <2>3. IsFiniteSet(U \ {x}) /\ Cardinality(U \ {x}) = n /\ U \ {x} \in SUBSET E
    BY <2>1, FS_RemoveElement
  <2>4. SP!Total(f, U \ {x}) = n * BlockSize
    BY <1>5, <2>3
  <2>5. SP!Total(f, (U \ {x}) \cup {x}) = SP!Total(f, U \ {x}) + f[x]
    BY <1>3, <2>3, TotalWith
  <2>6. (U \ {x}) \cup {x} = U /\ f[x] = BlockSize /\ (n + 1) * BlockSize = n * BlockSize + BlockSize
    BY <1>3, <2>1
  <2>. QED  BY <2>4, <2>5, <2>6
<1>6. SP!Total(f, E) = Len(lru) * BlockSize
  <2>. HIDE DEF T
  <2>1. \A n \in 0 .. Cardinality(E) : n \in T
    BY <1>2, <1>4, <1>5, Assumptions, SP!UpTo
  <2>2. Len(lru) \in T
    BY <1>2, <2>1
  <2>. QED  BY <1>2, <2>2 DEF T
<1>7. C!MapThenSumSet(LAMBDA k : Len(entries[k]), E) = G[E]
  BY DEF C!MapThenSumSet, C!MapThenFoldSet, SP!AnyOf
<1>8. ASSUME NEW g PROVE P(g) <=> SP!Sums(f, E, g)
  <2>1. \A s \in SUBSET E : s # {} => f[SP!AnyOf(s)] = Len(entries[SP!AnyOf(s)])
    BY <1>1, Assumptions, SP!AnyMember
  <2>2. [s \in SUBSET E |-> IF s = {} THEN 0 ELSE Len(entries[SP!AnyOf(s)]) + g[s \ {SP!AnyOf(s)}]]
          = [s \in SUBSET E |-> IF s = {} THEN 0 ELSE f[SP!AnyOf(s)] + g[s \ {SP!AnyOf(s)}]]
    BY <2>1
  <2>. QED  BY <2>2 DEF SP!Sums
<1>9. \A k \in E : f[k] \in Nat
  BY <1>3
<1>10. SP!Sums(f, E, G)
  <2>1. \E g : P(g)
    BY <1>1, <1>8, <1>9, SumExists
  <2>2. P(G)
    BY <2>1
  <2>. HIDE DEF P, G
  <2>. QED  BY <1>8, <2>2
<1>. HIDE DEF P, G, f, T
<1>. QED  BY <1>1, <1>2, <1>6, <1>7, <1>9, <1>10, SumOf DEF E

(* The copies of the prefix cache are true to their keys, each key is in the
   LRU order once, the limit holds and memory is what the copies take, also
   between the blocks of an insert that evicts as it goes. *)
THEOREM CopiesStayTrue == Spec => []CopiesTrue
<1>1. IInv => CopiesTrue
  <2>. SUFFICES ASSUME IInv PROVE CopiesTrue
    OBVIOUS
  <2>1. C!ToSet(lru) = DOMAIN entries /\ C!IsInjective(lru)
    BY DEF IInv, CacheInv, EntriesRight, C!ToSet, ToSet, C!IsInjective, IsInjective
  <2>. QED  BY <2>1, CopiesTotal
       DEF IInv, CacheInv, EntriesRight, CopiesTrue, C!BooksKept, CopyOf
<1>. QED  BY <1>1, Invariance, PTL

-----------------------------------------------------------------------------
(* The metrics: every step that is counted is one of the engine's. *)

LEMMA CountedIsNext == ASSUME [MetricsNext]_allVars PROVE [Next]_vars
<1>1. CASE CountedStep
  BY <1>1 DEF CountedStep, CountChunks, NoteHit, CountPrefill, CountFinished, Uncounted, Next, Step,
     Prepare, Forward, Report
<1>2. CASE CountedClients
  BY <1>2 DEF CountedClients, CountTimeout, CountEnqueued, Next, Clients
<1>3. CASE Stopped \/ UNCHANGED allVars
  BY <1>3 DEF allVars, Next
<1>. QED  BY <1>1, <1>2, <1>3 DEF MetricsNext

(* Counting leaves the engine as it is: its invariant holds also when every step
   is counted. *)
THEOREM MetricsInvariance == MetricsSpec => []IInv
<1>1. MetricsInit => IInv
  BY InitEstablishes DEF MetricsInit
<1>2. IInv /\ [MetricsNext]_allVars => IInv'
  BY CountedIsNext, NextKeeps
<1>. QED  BY <1>1, <1>2, PTL DEF MetricsSpec

-----------------------------------------------------------------------------
(* The requests: whoever has arrived is counted where it is. *)

(* A list without repetitions has as many places as members. *)
LEMMA ListLength ==
  ASSUME NEW K, NEW q \in Seq(K), IsInjective(q)
  PROVE  IsFiniteSet(ToSet(q)) /\ Cardinality(ToSet(q)) = Len(q) /\ Len(q) \in Nat
<1>. DEFINE V == ToSet(q)
<1>1. Len(q) \in Nat /\ DOMAIN q = 1 .. Len(q) /\ V = {q[i] : i \in 1 .. Len(q)}
  BY LenProperties DEF ToSet
<1>2. q \in [1 .. Len(q) -> V]
  BY <1>1, LenProperties
<1>3. q \in Injection(1 .. Len(q), V) /\ q \in Surjection(1 .. Len(q), V)
  BY <1>1, <1>2 DEF IsInjective, Injection, Surjection
<1>. HIDE DEF V
<1>4. ExistsBijection(1 .. Len(q), V)
  BY <1>3 DEF ExistsBijection, Bijection
<1>5. Cardinality(V) = Len(q)
  BY <1>1, <1>4, FS_CountingElements
<1>6. IsFiniteSet(1 .. Len(q))
  <2>1. 1 \in Int /\ Len(q) \in Int
    BY <1>1
  <2>. QED  BY ONLY <2>1, FS_Interval, Zenon
<1>7. IsFiniteSet(V)
  BY <1>4, <1>6, FS_Bijection
<1>. QED  BY <1>1, <1>5, <1>7 DEF V

Input == [r \in Requests |-> Len(Prompt[r])]
Arrived == {r \in Requests : state[r] # "new"}
Gone == completed \cup failed

AccountInv ==
  /\ total_completed = Cardinality(completed) /\ total_timeouts = Cardinality(failed)
  /\ total_enqueued = Cardinality(Arrived)
  /\ total_input_tokens = SP!Total(Input, Gone)
  /\ total_output_tokens = SP!Total(num_generated, Gone)

LEMMA AllFinite ==
  ASSUME IInv
  PROVE  /\ IsFiniteSet(completed) /\ IsFiniteSet(failed) /\ IsFiniteSet(Gone)
         /\ IsFiniteSet(Arrived)
         /\ Gone \subseteq Requests
         /\ \A r \in Requests : num_generated[r] \in Nat /\ Input[r] \in Nat
<1>1. completed \in SUBSET Requests /\ failed \in SUBSET Requests
  BY Known DEF SchedulerBooks
<1>2. Gone \in SUBSET Requests /\ Arrived \in SUBSET Requests
  BY <1>1 DEF Gone, Arrived
<1>3. \A r \in Requests : num_generated[r] \in Nat
  BY Known DEF SchedulerBooks
<1>4. \A r \in Requests : Input[r] \in Nat
  BY PromptLengths DEF Input
<1>. QED  BY <1>1, <1>2, <1>3, <1>4, FS_Subset, RequestsAssumption

(* Nobody comes and nobody leaves. *)
LEMMA AccountsStay ==
  ASSUME IInv, AccountInv, UNCHANGED <<completed, failed, requestTotals>>,
         \A r \in Requests : state'[r] = "new" <=> state[r] = "new",
         \A r \in Gone : num_generated'[r] = num_generated[r]
  PROVE  AccountInv'
<1>1. Gone' = Gone /\ Arrived' = Arrived /\ Input' = Input
  BY DEF Gone, Arrived, Input
<1>2. SP!Total(num_generated', Gone) = SP!Total(num_generated, Gone)
  BY AllFinite, TotalSame
<1>3. SP!Total(num_generated, Gone)' = SP!Total(num_generated', Gone)
  BY <1>1 DEF SP!Total, SP!Sums, SP!AnyOf
<1>4. SP!Total(Input, Gone)' = SP!Total(Input, Gone)
  BY <1>1 DEF SP!Total, SP!Sums, SP!AnyOf
<1>. QED  BY <1>1, <1>2, <1>3, <1>4 DEF AccountInv, requestTotals

(* One leaves, with what it brought and what it was given. *)
LEMMA AccountsLeave ==
  ASSUME IInv, AccountInv, NEW r \in Requests, r \notin Gone, state[r] # "new",
         state'[r] # "new", num_generated'[r] \in Nat,
         \A t \in Requests \ {r} : /\ state'[t] = "new" <=> state[t] = "new"
                                   /\ num_generated'[t] = num_generated[t],
         \/ /\ completed' = completed \cup {r} /\ total_completed' = total_completed + 1
            /\ UNCHANGED <<failed, total_timeouts>>
         \/ /\ failed' = failed \cup {r} /\ total_timeouts' = total_timeouts + 1
            /\ UNCHANGED <<completed, total_completed>>,
         RecordCompletion(r), UNCHANGED total_enqueued
  PROVE  AccountInv'
<1>1. Gone' = Gone \cup {r} /\ Arrived' = Arrived /\ Input' = Input
      /\ r \notin completed /\ r \notin failed
  BY DEF Gone, Arrived, Input
<1>2. total_completed' = Cardinality(completed') /\ total_timeouts' = Cardinality(failed')
  BY <1>1, AllFinite, FS_AddElement DEF AccountInv
<1>3. \A t \in Gone \cup {r} : num_generated'[t] \in Nat /\ Input[t] \in Nat
  BY AllFinite
<1>4. SP!Total(num_generated', Gone \cup {r}) = SP!Total(num_generated', Gone) + num_generated'[r]
  BY <1>3, AllFinite, TotalWith
<1>5. SP!Total(Input, Gone \cup {r}) = SP!Total(Input, Gone) + Input[r]
  <2>1. IsFiniteSet(Gone) /\ r \notin Gone /\ \A t \in Gone \cup {r} : Input[t] \in Nat
    BY <1>3, AllFinite
  <2>. QED  BY ONLY <2>1, TotalWith
<1>6. SP!Total(num_generated', Gone) = SP!Total(num_generated, Gone)
  <2>1. \A t \in Gone : num_generated'[t] = num_generated[t] /\ num_generated[t] \in Nat
    BY AllFinite
  <2>. QED  BY <2>1, AllFinite, TotalSame
<1>7. SP!Total(num_generated, Gone)' = SP!Total(num_generated', Gone \cup {r})
  BY <1>1 DEF SP!Total, SP!Sums, SP!AnyOf
<1>8. SP!Total(Input, Gone)' = SP!Total(Input, Gone \cup {r})
  BY <1>1 DEF SP!Total, SP!Sums, SP!AnyOf
<1>9. /\ total_input_tokens' = SP!Total(Input, Gone)'
      /\ total_output_tokens' = SP!Total(num_generated, Gone)'
  BY <1>4, <1>5, <1>6, <1>7, <1>8 DEF AccountInv, RecordCompletion, Input
<1>. QED  BY <1>1, <1>2, <1>9 DEF AccountInv

LEMMA InitAccounts == ASSUME MetricsInit PROVE AccountInv
<1>1. /\ completed = {} /\ failed = {} /\ state = [r \in Requests |-> "new"]
      /\ total_enqueued = 0 /\ total_completed = 0 /\ total_timeouts = 0
      /\ total_input_tokens = 0 /\ total_output_tokens = 0
  BY DEF MetricsInit, Init, S!Init
<1>2. Arrived = {} /\ Gone = {}
  BY <1>1 DEF Arrived, Gone
<1>. QED  BY <1>1, <1>2, FS_EmptySet, TotalNone DEF AccountInv

LEMMA EnqueuedAccounts ==
  ASSUME IInv, AccountInv, NEW r \in Requests, NEW chunk \in Chunks, CountEnqueued(r, chunk)
  PROVE  AccountInv'
<1>1. /\ state' = [state EXCEPT ![r] = "waiting"] /\ state[r] = "new"
      /\ UNCHANGED <<completed, failed, num_generated>>
      /\ total_enqueued' = total_enqueued + 1
      /\ UNCHANGED <<total_completed, total_timeouts, total_input_tokens, total_output_tokens>>
  BY DEF CountEnqueued, AddRequest, S!AddRequest
<1>2. Arrived' = Arrived \cup {r} /\ r \notin Arrived /\ Gone' = Gone /\ Input' = Input
  BY <1>1, Known DEF Arrived, Gone, Input, SchedulerBooks
<1>3. Cardinality(Arrived') = Cardinality(Arrived) + 1
  BY <1>2, AllFinite, FS_AddElement
<1>4. /\ SP!Total(num_generated, Gone)' = SP!Total(num_generated, Gone)
      /\ SP!Total(Input, Gone)' = SP!Total(Input, Gone)
  BY <1>1, <1>2 DEF SP!Total, SP!Sums, SP!AnyOf
<1>. QED  BY <1>1, <1>3, <1>4 DEF AccountInv

LEMMA TimeoutAccounts ==
  ASSUME IInv, AccountInv, NEW r \in Requests, CountTimeout(r)
  PROVE  AccountInv'
<1>1. Cancel(r) /\ RecordCompletion(r) /\ total_timeouts' = total_timeouts + 1
      /\ UNCHANGED <<total_enqueued, total_completed>>
  BY DEF CountTimeout
<1>2. /\ state[r] \in {"waiting", "prefill", "decode"} /\ state'[r] = "finished"
      /\ UNCHANGED <<completed, num_generated>> /\ failed' = failed \cup {r}
      /\ \A t \in Requests \ {r} : state'[t] = state[t]
  BY <1>1, CancelEffect DEF Cancel
<1>3. r \notin Gone /\ num_generated[r] \in Nat
  BY <1>2, Known DEF SchedulerBooks, Gone
<1>. QED  BY <1>1, <1>2, <1>3, AccountsLeave

(* The token a row is reported with: its request is running. *)
LEMMA ReportedRow ==
  ASSUME IInv, ReportToken
  PROVE  Row \in Requests /\ Row \in ToSet(running) /\ S!MarkDecodeDone(Row) /\ Row \notin Gone
<1>1. pc = "token" /\ at <= Len(rows) /\ S!MarkDecodeDone(Row)
  BY DEF ReportToken, AtRow
<1>2. Row \in Requests /\ Row \in ToSet(running)
  BY <1>1, RowFacts DEF Reporting
<1>. QED  BY <1>1, <1>2, Known DEF SchedulerBooks, Gone

LEMMA FinishedAccounts == ASSUME IInv, AccountInv, CountFinished PROVE AccountInv'
<1>1. ReportToken /\ state'[Row] = "finished" /\ RecordCompletion(Row)
      /\ total_completed' = total_completed + 1 /\ UNCHANGED <<total_enqueued, total_timeouts>>
  BY DEF CountFinished
<1>2. Row \in Requests /\ Row \in ToSet(running) /\ S!MarkDecodeDone(Row) /\ Row \notin Gone
  BY <1>1, ReportedRow
<1>3. /\ state[Row] = "decode" /\ completed' = completed \cup {Row} /\ UNCHANGED failed
      /\ num_generated' = [num_generated EXCEPT ![Row] = @ + 1]
      /\ \A t \in Requests \ {Row} : state'[t] = state[t]
  BY <1>1, <1>2, TokenEffect
<1>4. /\ num_generated'[Row] \in Nat
      /\ \A t \in Requests \ {Row} : num_generated'[t] = num_generated[t]
  BY <1>2, <1>3, Known DEF SchedulerBooks
<1>. QED  BY <1>1, <1>2, <1>3, <1>4, AccountsLeave

LEMMA UncountedAccounts == ASSUME IInv, AccountInv, Uncounted PROVE AccountInv'
<1>1. UNCHANGED requestTotals
  BY DEF Uncounted, metricsVars
<1>2. CASE UNCHANGED schedulerVars
  <2>1. UNCHANGED <<completed, failed, state, num_generated>>
    BY <1>2 DEF schedulerVars
  <2>. QED  BY <1>1, <2>1, AccountsStay
<1>3. CASE PrefillDone
  <2>1. S!MarkPrefillDone(Row)
    BY <1>3 DEF PrefillDone
  <2>2. /\ state[Row] = "prefill" /\ state' = [state EXCEPT ![Row] = "decode"]
        /\ UNCHANGED <<completed, failed, num_generated>>
    BY <2>1 DEF S!MarkPrefillDone, S!placeVars
  <2>. QED  BY <1>1, <2>2, Known, AccountsStay DEF SchedulerBooks
<1>4. CASE ReportToken /\ state'[Row] # "finished"
  <2>1. Row \in Requests /\ Row \in ToSet(running) /\ S!MarkDecodeDone(Row) /\ Row \notin Gone
    BY <1>4, ReportedRow
  <2>2. /\ UNCHANGED <<state, completed, failed>>
        /\ num_generated' = [num_generated EXCEPT ![Row] = @ + 1]
    BY <1>4, <2>1, TokenEffect
  <2>3. \A t \in Gone : num_generated'[t] = num_generated[t]
    BY <2>1, <2>2, Known DEF SchedulerBooks, Gone
  <2>. QED  BY <1>1, <2>2, <2>3, AccountsStay
<1>5. CASE SkipPrepared \/ PrepareRow \/ LookupBlock \/ PrefixMissed \/ StartForward \/ ForwardRow
           \/ ForwardRaises
  BY <1>2, <1>5 DEF SkipPrepared, PrepareRow, LookupBlock, PrefixMissed, StartForward, ForwardRow,
     ForwardRaises
<1>6. CASE SkipRow \/ RegisterRow \/ InsertBlock \/ EndPrefill \/ EndDecode
  BY <1>2, <1>6 DEF SkipRow, RegisterRow, InsertBlock, EndPrefill, EndDecode
<1>. QED  BY <1>3, <1>4, <1>5, <1>6 DEF Uncounted

LEMMA NextAccounts ==
  ASSUME IInv, AccountInv, [MetricsNext]_allVars
  PROVE  AccountInv'
<1>1. CASE UNCHANGED allVars
  <2>1. UNCHANGED <<completed, failed, state, num_generated, requestTotals>>
    BY <1>1 DEF allVars, vars, schedulerVars, metricsVars
  <2>. QED  BY <2>1, AccountsStay
<1>2. CASE CountChunks
  <2>1. S!Schedule /\ UNCHANGED requestTotals
    BY <1>2 DEF CountChunks, BeginStep
  <2>2. UNCHANGED <<completed, failed, num_generated>>
    BY <2>1, ScheduleEffect
  <2>3. PICK A \in SUBSET ToSet(waiting) :
          \A r \in Requests : state'[r] = IF r \in A THEN "prefill" ELSE state[r]
    BY <2>1, ScheduleEffect
  <2>4. \A r \in A \cap Requests : state[r] = "waiting"
    BY <2>3, Known DEF SchedulerBooks
  <2>. QED  BY <2>1, <2>2, <2>3, <2>4, AccountsStay
<1>3. CASE NoteHit
  <2>1. UNCHANGED <<completed, failed, state, num_generated, requestTotals>>
    BY <1>3 DEF NoteHit, LoadedPrefix
  <2>. QED  BY <2>1, AccountsStay
<1>4. CASE CountPrefill
  <2>1. S!AdvancePrefill(Row, prefill_offset[Row] + Len(RowTokens)) /\ UNCHANGED requestTotals
    BY <1>4 DEF CountPrefill, AdvanceRow
  <2>2. UNCHANGED <<completed, failed, state, num_generated>>
    BY <2>1 DEF S!AdvancePrefill, S!placeVars
  <2>. QED  BY <2>1, <2>2, AccountsStay
<1>5. CASE CountedClients
  BY <1>5, EnqueuedAccounts, TimeoutAccounts DEF CountedClients
<1>6. CASE Stopped /\ UNCHANGED metricsVars
  BY <1>1, <1>6 DEF Stopped, allVars
<1>. QED  BY <1>1, <1>2, <1>3, <1>4, <1>5, <1>6, FinishedAccounts, UncountedAccounts
          DEF MetricsNext, CountedStep

(* What the totals are compared with, as sums of SP. *)
LEMMA InputSum ==
  ASSUME NEW R, IsFiniteSet(R), R \subseteq Requests
  PROVE  MapThenSumSet(LAMBDA r : Len(Prompt[r]), R) = SP!Total(Input, R)
<1>. DEFINE P(g) == g = [s \in SUBSET R |->
              IF s = {} THEN 0 ELSE Len(Prompt[SP!AnyOf(s)]) + g[s \ {SP!AnyOf(s)}]]
            G == CHOOSE g : P(g)
<1>1. MapThenSumSet(LAMBDA r : Len(Prompt[r]), R) = G[R]
  BY DEF MapThenSumSet, MapThenFoldSet, SP!AnyOf
<1>2. \A r \in R : Input[r] = Len(Prompt[r]) /\ Input[r] \in Nat
  BY PromptLengths DEF Input
<1>3. ASSUME NEW g PROVE P(g) <=> SP!Sums(Input, R, g)
  <2>1. \A s \in SUBSET R : s # {} => Input[SP!AnyOf(s)] = Len(Prompt[SP!AnyOf(s)])
    BY <1>2, Assumptions, SP!AnyMember
  <2>2. [s \in SUBSET R |-> IF s = {} THEN 0 ELSE Len(Prompt[SP!AnyOf(s)]) + g[s \ {SP!AnyOf(s)}]]
          = [s \in SUBSET R |-> IF s = {} THEN 0 ELSE Input[SP!AnyOf(s)] + g[s \ {SP!AnyOf(s)}]]
    BY <2>1
  <2>. QED  BY <2>2 DEF SP!Sums
<1>4. SP!Sums(Input, R, G)
  <2>1. \E g : P(g)
    BY <1>2, <1>3, SumExists
  <2>2. P(G)
    BY <2>1
  <2>. HIDE DEF P, G
  <2>. QED  BY <1>3, <2>2
<1>. HIDE DEF P, G
<1>5. \A r \in R : Input[r] \in Nat
  BY <1>2
<1>. QED  BY <1>1, <1>4, <1>5, SumOf

LEMMA FunctionSum ==
  ASSUME NEW R, IsFiniteSet(R), NEW f, \A r \in R : f[r] \in Nat
  PROVE  MapThenSumSet(LAMBDA r : f[r], R) = SP!Total(f, R)
BY DEF MapThenSumSet, MapThenFoldSet, SP!Total, SP!Sums, SP!AnyOf

LEMMA DisjointUnion ==
  ASSUME NEW K, NEW T, IsFiniteSet(K), IsFiniteSet(T), K \cap T = {}
  PROVE  /\ IsFiniteSet(K \cup T)
         /\ Cardinality(K \cup T) = Cardinality(K) + Cardinality(T)
<1>1. /\ IsFiniteSet(K \cup T)
      /\ Cardinality(K \cup T) = Cardinality(K) + Cardinality(T) - Cardinality(K \cap T)
  BY FS_Union
<1>2. Cardinality(K \cap T) = 0
  BY FS_EmptySet
<1>3. Cardinality(K) \in Nat /\ Cardinality(T) \in Nat
  BY FS_CardinalityType
<1>. QED  BY <1>1, <1>2, <1>3

(* Everyone who arrived is waiting, running or gone, and only that. *)
LEMMA ArrivedCounted ==
  ASSUME IInv
  PROVE  Cardinality(Arrived) =
           Len(waiting) + Len(running) + Cardinality(completed) + Cardinality(failed)
<1>. DEFINE W == ToSet(waiting)
            U == ToSet(running)
<1>1. /\ IsFiniteSet(W) /\ Cardinality(W) = Len(waiting) /\ Len(waiting) \in Nat
      /\ IsFiniteSet(U) /\ Cardinality(U) = Len(running) /\ Len(running) \in Nat
  <2>1. IsInjective(waiting) /\ IsInjective(running) /\ waiting \in Seq(Requests)
        /\ running \in Seq(Requests)
    BY Known DEF IInv, SP!IInv, SP!OnePlace, SP!IsInjective, IsInjective, SchedulerBooks
  <2>. QED  BY <2>1, ListLength
<1>2. /\ IsFiniteSet(completed) /\ IsFiniteSet(failed)
      /\ Cardinality(completed) \in Nat /\ Cardinality(failed) \in Nat
  BY AllFinite, FS_CardinalityType
<1>3. W \subseteq Requests /\ U \subseteq Requests
  BY Known, LenProperties, ElementOfSeq DEF SchedulerBooks, ToSet
<1>. HIDE DEF W, U
<1>4. /\ W \cap U = {} /\ (W \cup U) \cap Gone = {} /\ completed \cap failed = {}
      /\ Arrived = (W \cup U) \cup Gone
  <2>1. /\ completed \subseteq Requests /\ failed \subseteq Requests /\ completed \cap failed = {}
        /\ \A r \in Requests :
             /\ state[r] \in {"new", "waiting", "prefill", "decode", "finished"}
             /\ r \in W <=> state[r] = "waiting"
             /\ r \in U <=> state[r] \in {"prefill", "decode"}
             /\ r \in completed \cup failed <=> state[r] = "finished"
    BY Known DEF SchedulerBooks, W, U
  <2>2. Gone \subseteq Requests
    BY <2>1 DEF Gone
  <2>3. \A r \in Requests : r \in Arrived <=> r \in (W \cup U) \cup Gone
    BY <2>1 DEF Arrived, Gone
  <2>4. Arrived \subseteq Requests
    BY DEF Arrived
  <2>5. W \cap U = {} /\ (W \cup U) \cap Gone = {}
    BY <1>3, <2>1 DEF Gone
  <2>. QED  BY <1>3, <2>1, <2>2, <2>3, <2>4, <2>5
<1>5. IsFiniteSet(W \cup U) /\ Cardinality(W \cup U) = Len(waiting) + Len(running)
  <2>1. /\ IsFiniteSet(W) /\ Cardinality(W) = Len(waiting)
        /\ IsFiniteSet(U) /\ Cardinality(U) = Len(running)
    BY <1>1
  <2>2. W \cap U = {}
    BY <1>4
  <2>3. IsFiniteSet(W \cup U) /\ Cardinality(W \cup U) = Cardinality(W) + Cardinality(U)
    BY <2>1, <2>2, DisjointUnion
  <2>. QED  BY <2>1, <2>3
<1>6. IsFiniteSet(Gone) /\ Cardinality(Gone) = Cardinality(completed) + Cardinality(failed)
  BY <1>2, <1>4, DisjointUnion DEF Gone
<1>7. Cardinality((W \cup U) \cup Gone) = Cardinality(W \cup U) + Cardinality(Gone)
  BY <1>4, <1>5, <1>6, DisjointUnion
<1>. QED  BY <1>1, <1>2, <1>4, <1>5, <1>6, <1>7

(* The totals account for every request once, wherever it is, and the tokens
   of those that left are what they brought and what they were given, also
   when the last token came out of the prefill or the request was cancelled
   in the middle of it. *)
THEOREM RequestsStayAccounted == MetricsSpec => []RequestsAccounted
<1>1. MetricsInit => AccountInv
  BY InitAccounts
<1>2. IInv /\ AccountInv /\ [MetricsNext]_allVars => AccountInv'
  BY NextAccounts
<1>3. IInv /\ AccountInv => RequestsAccounted
  <2>. SUFFICES ASSUME IInv, AccountInv PROVE RequestsAccounted
    OBVIOUS
  <2>1. IsFiniteSet(Gone) /\ Gone \subseteq Requests /\ \A r \in Gone : num_generated[r] \in Nat
    BY AllFinite
  <2>2. MapThenSumSet(LAMBDA r : Len(Prompt[r]), Gone) = SP!Total(Input, Gone)
    BY <2>1, InputSum
  <2>3. MapThenSumSet(LAMBDA r : num_generated[r], Gone) = SP!Total(num_generated, Gone)
    BY <2>1, FunctionSum
  <2>. QED  BY <2>2, <2>3, ArrivedCounted DEF AccountInv, RequestsAccounted, Gone
<1>. QED  BY <1>1, <1>2, <1>3, MetricsInvariance, PTL DEF MetricsSpec

-----------------------------------------------------------------------------
(* The prompt tokens.  Between steps the books are about totals; within one,
   about the chunks that were counted and are still to be run, and about the
   hits that were noted and are still to be counted. *)

Chunk == [r \in Requests |-> S!ChunkTokens(r)]

(* Row i is still to be run, or to be moved on. *)
Owed(i) ==
  \/ pc \in {"prepare", "load"}
  \/ pc = "forward" /\ IsPrefill(rows[i])
  \/ pc = "advance" /\ i >= at
Pending == {rows[i] : i \in {j \in DOMAIN rows : Owed(j)}}

InPrefill ==
  \/ pc \in {"prepare", "load", "advance"}
  \/ pc = "forward" /\ \A i \in DOMAIN rows : IsPrefill(rows[i])
OpenHits == IF InPrefill THEN HitRows ELSE {}

promptVars == <<prefillTotals, prefix_cache_hit_tokens, tokens_processed, reused, prefilled>>

TokensTyped ==
  /\ total_prefill_tokens \in Nat /\ prefix_cache_hits \in Nat /\ prefix_cache_tokens_saved \in Nat
  /\ tokens_processed \in Nat /\ reused \in Nat /\ prefilled \in Nat
  /\ prefix_cache_hit_tokens \in [Requests -> Nat]

HitsNoted ==
  \A r \in Requests :
    /\ prefix_cache_hit_tokens[r] <= reused
    /\ ~slot_prepared[r] => prefix_cache_hit_tokens[r] = 0

ChunksBooked ==
  /\ prefilled + SP!Total(Chunk, Pending) <= total_prefill_tokens + tokens_processed
  /\ total_prefill_tokens + tokens_processed <= prefilled + SP!Total(Chunk, Pending) + reused
  /\ Pending = {} => tokens_processed = 0

HitsBooked ==
  /\ reused <= prefix_cache_tokens_saved + SP!Total(prefix_cache_hit_tokens, OpenHits)
  /\ reused = 0 => prefix_cache_hits = 0
  /\ prefix_cache_hits = 0 /\ OpenHits = {} => reused = 0

TokenInv ==
  TokensTyped /\ HitsNoted /\ (pc # "raised" => ChunksBooked /\ HitsBooked)

LEMMA ChunkType ==
  ASSUME IInv
  PROVE  Chunk \in [Requests -> Nat]
BY ChunkFits DEF Chunk

LEMMA ChunkTypeNext == IInv' => (Chunk \in [Requests -> Nat])'
<1>1. IInv => Chunk \in [Requests -> Nat]
  BY ChunkType
<1>. QED  BY <1>1, PTL

LEMMA PendingFacts ==
  ASSUME IInv
  PROVE  /\ Pending \subseteq Requests /\ IsFiniteSet(Pending)
         /\ HitRows \subseteq Requests /\ IsFiniteSet(HitRows)
         /\ OpenHits \subseteq Requests /\ IsFiniteSet(OpenHits)
<1>1. \A i \in DOMAIN rows : rows[i] \in Requests
  BY RowsAreRequests DEF IInv, StepInv
<1>2. Pending \in SUBSET Requests /\ HitRows \in SUBSET Requests
  BY <1>1 DEF Pending, HitRows, ToSet
<1>3. OpenHits \in SUBSET Requests
  BY <1>2 DEF OpenHits
<1>. QED  BY <1>2, <1>3, FS_Subset, RequestsAssumption

LEMMA PendingFactsNext ==
  IInv' => /\ Pending' \subseteq Requests /\ IsFiniteSet(Pending')
           /\ HitRows' \subseteq Requests /\ IsFiniteSet(HitRows')
           /\ OpenHits' \subseteq Requests /\ IsFiniteSet(OpenHits')
<1>1. IInv => /\ Pending \subseteq Requests /\ IsFiniteSet(Pending)
              /\ HitRows \subseteq Requests /\ IsFiniteSet(HitRows)
              /\ OpenHits \subseteq Requests /\ IsFiniteSet(OpenHits)
  BY PendingFacts
<1>2. IInv' => (/\ Pending \subseteq Requests /\ IsFiniteSet(Pending)
                /\ HitRows \subseteq Requests /\ IsFiniteSet(HitRows)
                /\ OpenHits \subseteq Requests /\ IsFiniteSet(OpenHits))'
  BY <1>1, PTL
<1>. QED  BY <1>2

(* Totals of the next state are totals of the next values. *)
LEMMA NextTotals ==
  /\ SP!Total(Chunk, Pending)' = SP!Total(Chunk', Pending')
  /\ SP!Total(prefix_cache_hit_tokens, OpenHits)' = SP!Total(prefix_cache_hit_tokens', OpenHits')
BY DEF SP!Total, SP!Sums, SP!AnyOf

(* Nothing is counted, and nothing counted is run. *)
LEMMA TokensStay ==
  ASSUME IInv, TokenInv, pc # "raised", UNCHANGED promptVars,
         \A r \in Requests : slot_prepared[r] => slot_prepared'[r],
         Pending' = Pending, \A r \in Pending : Chunk'[r] = Chunk[r], OpenHits' = OpenHits
  PROVE  TokenInv'
<1>1. SP!Total(Chunk', Pending) = SP!Total(Chunk, Pending)
  <2>1. IsFiniteSet(Pending) /\ \A r \in Pending : Chunk'[r] = Chunk[r] /\ Chunk[r] \in Nat
    BY PendingFacts, ChunkType
  <2>. QED  BY ONLY <2>1, TotalSame
<1>2. SP!Total(Chunk, Pending)' = SP!Total(Chunk, Pending)
  BY <1>1, NextTotals
<1>3. SP!Total(prefix_cache_hit_tokens, OpenHits)' = SP!Total(prefix_cache_hit_tokens, OpenHits)
  BY NextTotals DEF promptVars
<1>4. TokensTyped' /\ HitsNoted'
  BY DEF TokenInv, TokensTyped, HitsNoted, promptVars, prefillTotals
<1>5. ChunksBooked' /\ HitsBooked'
  BY <1>2, <1>3 DEF TokenInv, ChunksBooked, HitsBooked, promptVars, prefillTotals
<1>. QED  BY <1>4, <1>5 DEF TokenInv

(* A step that raises counts nothing. *)
LEMMA TokensRaised ==
  ASSUME TokenInv, pc' = "raised", UNCHANGED promptVars, UNCHANGED slot_prepared
  PROVE  TokenInv'
BY DEF TokenInv, TokensTyped, HitsNoted, promptVars, prefillTotals

(* The scheduler and the rows stay, and so does what they owe. *)
LEMMA TokensSame ==
  ASSUME IInv, TokenInv, pc # "raised", UNCHANGED <<promptVars, schedulerVars, rows>>,
         \A r \in Requests : slot_prepared[r] => slot_prepared'[r],
         \A i \in DOMAIN rows : Owed(i)' <=> Owed(i), InPrefill' <=> InPrefill
  PROVE  TokenInv'
<1>1. Pending' = Pending
  <2>1. DOMAIN rows' = DOMAIN rows /\ \A i \in DOMAIN rows : rows'[i] = rows[i]
    OBVIOUS
  <2>. QED  BY <2>1 DEF Pending
<1>2. Chunk' = Chunk
  BY DEF Chunk, S!ChunkTokens, schedulerVars
<1>3. OpenHits' = OpenHits
  BY DEF OpenHits, HitRows, promptVars
<1>. QED  BY <1>1, <1>2, <1>3, TokensStay

(* Outside the prefill there is nothing to run and nothing to count. *)
LEMMA NothingOpen ==
  ASSUME pc \in {"idle", "report", "insert", "token"}
  PROVE  Pending = {} /\ OpenHits = {}
BY DEF Pending, Owed, OpenHits, InPrefill

LEMMA NothingOpenNext ==
  ASSUME pc' \in {"idle", "report", "insert", "token"}
  PROVE  Pending' = {} /\ OpenHits' = {}
BY DEF Pending, Owed, OpenHits, InPrefill

LEMMA TokensQuiet ==
  ASSUME IInv, TokenInv, UNCHANGED <<promptVars, slot_prepared>>,
         pc \in {"idle", "report", "insert", "token"},
         pc' \in {"idle", "report", "insert", "token"}
  PROVE  TokenInv'
<1>1. Pending = {} /\ OpenHits = {} /\ Pending' = {} /\ OpenHits' = {}
  BY NothingOpen, NothingOpenNext
<1>. QED  BY <1>1, TokensStay

LEMMA DecodeRowsDecode ==
  ASSUME IInv, NEW r \in decode_requests
  PROVE  ~IsPrefill(r)
BY DEF IInv, StepInv, Batches, IsPrefill

LEMMA PrepareTokens ==
  ASSUME IInv, TokenInv, UNCHANGED metricsVars,
         SkipPrepared \/ PrepareRow \/ LookupBlock \/ PrefixMissed
  PROVE  TokenInv'
<1>1. /\ pc \in {"prepare", "load"} /\ pc' \in {"prepare", "load"}
      /\ UNCHANGED <<schedulerVars, rows>>
  BY DEF SkipPrepared, PrepareRow, LookupBlock, PrefixMissed, AtRow, NextRow, Goto, stepVars
<1>2. \A r \in Requests : slot_prepared[r] => slot_prepared'[r]
  <2>1. slot_prepared \in [Requests -> BOOLEAN]
    BY DEF IInv, StepInv, StepTyped
  <2>2. UNCHANGED slot_prepared \/ slot_prepared' = [slot_prepared EXCEPT ![Row] = TRUE]
    BY DEF SkipPrepared, PrepareRow, LookupBlock, PrefixMissed, Prepared
  <2>. QED  BY <2>1, <2>2
<1>3. UNCHANGED promptVars
  BY DEF metricsVars, promptVars
<1>4. /\ \A i \in DOMAIN rows : Owed(i)' <=> Owed(i)
      /\ InPrefill' <=> InPrefill
  BY <1>1 DEF Owed, InPrefill
<1>. QED  BY <1>1, <1>2, <1>3, <1>4, TokensSame

LEMMA ForwardTokens ==
  ASSUME IInv, TokenInv, UNCHANGED metricsVars, StartForward \/ ForwardRow
  PROVE  TokenInv'
<1>1. UNCHANGED <<schedulerVars, slot_prepared, rows, promptVars>>
  BY DEF StartForward, ForwardRow, NextRowOr, metricsVars, promptVars
<1>2. \A i \in DOMAIN rows : IsPrefill(rows[i])' <=> IsPrefill(rows[i])
  BY <1>1 DEF IsPrefill, schedulerVars
<1>3. DOMAIN rows = 1..Len(rows) /\ Len(rows) \in Nat /\ at \in Nat \ {0}
  BY RowsAreRequests DEF IInv, StepInv
<1>4. CASE StartForward
  <2>1. pc = "prepare" /\ pc' = "forward"
    BY <1>4 DEF StartForward, PastRows
  <2>2. \A i \in DOMAIN rows : IsPrefill(rows[i])
    BY <2>1 DEF IInv, StepInv, Batches
  <2>3. /\ \A i \in DOMAIN rows : Owed(i)' <=> Owed(i)
        /\ InPrefill' <=> InPrefill
    BY <1>1, <1>2, <2>1, <2>2 DEF Owed, InPrefill
  <2>. QED  BY <1>1, <2>1, <2>3, TokensSame
<1>5. CASE ForwardRow
  <2>1. /\ pc = "forward" /\ at <= Len(rows)
        /\ \/ pc' = "forward"
           \/ pc' = "advance" /\ at' = 1 /\ IsPrefill(Row)
           \/ pc' = "token" /\ ~IsPrefill(Row)
    BY <1>5 DEF ForwardRow, AtRow, NextRowOr
  <2>2. at \in DOMAIN rows
    BY <1>3, <2>1
  <2>3. CASE pc' = "forward"
    <3>1. /\ \A i \in DOMAIN rows : Owed(i)' <=> Owed(i)
          /\ InPrefill' <=> InPrefill
      BY <1>1, <1>2, <2>1, <2>3 DEF Owed, InPrefill
    <3>. QED  BY <1>1, <2>1, <3>1, TokensSame
  <2>4. CASE pc' = "advance" /\ at' = 1 /\ IsPrefill(Row)
    <3>1. Row \notin decode_requests
      BY <2>4, DecodeRowsDecode
    <3>2. \A i \in DOMAIN rows : IsPrefill(rows[i]) /\ i >= 1
      BY <1>3, <2>1, <2>2, <3>1 DEF IInv, StepInv, Batches, Row
    <3>3. /\ \A i \in DOMAIN rows : Owed(i)' <=> Owed(i)
          /\ InPrefill' <=> InPrefill
      BY <1>1, <2>1, <2>4, <3>2 DEF Owed, InPrefill
    <3>. QED  BY <1>1, <2>1, <3>3, TokensSame
  <2>5. CASE pc' = "token" /\ ~IsPrefill(Row)
    <3>1. \A i \in DOMAIN rows : ~IsPrefill(rows[i])
      BY <2>1, <2>2, <2>5, DecodeRowsDecode DEF IInv, StepInv, Batches, Row
    <3>2. /\ \A i \in DOMAIN rows : Owed(i)' <=> Owed(i)
          /\ InPrefill' <=> InPrefill
      BY <1>1, <2>1, <2>2, <2>5, <3>1 DEF Owed, InPrefill
    <3>. QED  BY <1>1, <2>1, <3>2, TokensSame
  <2>. QED  BY <2>1, <2>3, <2>4, <2>5
<1>. QED  BY <1>4, <1>5

LEMMA EndPrefillTokens ==
  ASSUME IInv, TokenInv, UNCHANGED metricsVars, EndPrefill
  PROVE  TokenInv'
<1>1. /\ pc = "report" \/ (pc = "prepare" /\ rows = <<>>)
      /\ pc' \in {"idle", "forward"} /\ rows' = InOrder(running, decode_requests)
      /\ UNCHANGED <<schedulerVars, slot_prepared, promptVars>>
  BY DEF EndPrefill, PastRows, Batch, metricsVars, promptVars
<1>2. Pending = {} /\ OpenHits = {}
  <2>1. CASE pc = "report"
    BY <2>1, NothingOpen
  <2>2. CASE pc = "prepare" /\ rows = <<>>
    <3>1. DOMAIN rows = {}
      BY <2>2
    <3>. QED  BY <3>1 DEF Pending, OpenHits, HitRows, ToSet
  <2>. QED  BY <1>1, <2>1, <2>2
<1>3. \A i \in DOMAIN rows' : ~IsPrefill(rows[i])'
  <2>1. ToSet(rows') = ToSet(running) \cap decode_requests
    BY <1>1, Known, InOrderRows DEF SchedulerBooks
  <2>2. \A i \in DOMAIN rows' : rows'[i] \in decode_requests
    BY <2>1 DEF ToSet
  <2>. QED  BY <1>1, <2>2, DecodeRowsDecode DEF IsPrefill, schedulerVars
<1>4. Pending' = {}
  BY <1>1, <1>3 DEF Pending, Owed
<1>5. OpenHits' = {}
  <2>1. CASE InPrefill'
    <3>1. DOMAIN rows' = {}
      BY <1>1, <1>3, <2>1 DEF InPrefill
    <3>2. ToSet(rows') = {}
      BY <3>1 DEF ToSet
    <3>. QED  BY <3>2 DEF OpenHits, HitRows
  <2>. QED  BY <2>1 DEF OpenHits
<1>. QED  BY <1>1, <1>2, <1>4, <1>5, TokensStay

LEMMA ReportTokens ==
  ASSUME IInv, TokenInv, UNCHANGED promptVars,
         \/ SkipRow \/ RegisterRow \/ InsertBlock \/ PrefillDone \/ ReportToken \/ EndDecode
         \/ \E r \in Requests : Cancel(r) \/ \E chunk \in Chunks : AddRequest(r, chunk)
  PROVE  TokenInv'
<1>1. CASE SkipRow \/ RegisterRow \/ InsertBlock \/ PrefillDone \/ ReportToken \/ EndDecode
  <2>1. /\ pc \in {"report", "insert", "token"} /\ pc' \in {"idle", "report", "insert", "token"}
        /\ UNCHANGED slot_prepared
    BY <1>1 DEF SkipRow, RegisterRow, InsertBlock, PrefillDone, ReportToken, EndDecode, AtRow,
       PastRows, NextRow, Goto, stepVars
  <2>. QED  BY <2>1, TokensQuiet
<1>2. CASE \E r \in Requests : Cancel(r) \/ \E chunk \in Chunks : AddRequest(r, chunk)
  <2>1. pc = "idle" /\ pc' = "idle" /\ UNCHANGED slot_prepared
    BY <1>2 DEF Cancel, AddRequest, stepVars
  <2>. QED  BY <2>1, TokensQuiet
<1>. QED  BY <1>1, <1>2

LEMMA UncountedTokens == ASSUME IInv, TokenInv, Uncounted PROVE TokenInv'
<1>1. UNCHANGED metricsVars /\ UNCHANGED promptVars
  BY DEF Uncounted, metricsVars, promptVars
<1>2. CASE ForwardRaises
  <2>1. pc' = "raised" /\ UNCHANGED slot_prepared
    BY <1>2 DEF ForwardRaises, Goto
  <2>. QED  BY <1>1, <2>1, TokensRaised
<1>. QED  BY <1>1, <1>2, PrepareTokens, ForwardTokens, EndPrefillTokens, ReportTokens DEF Uncounted

(* The chunks a batch is counted with are a sum of SP. *)
LEMMA ChunkSum ==
  ASSUME IInv, NEW R, IsFiniteSet(R), R \subseteq Requests
  PROVE  MapThenSumSet(LAMBDA r : S!ChunkTokens(r), R) = SP!Total(Chunk, R)
<1>. DEFINE P(g) == g = [s \in SUBSET R |->
              IF s = {} THEN 0 ELSE S!ChunkTokens(SP!AnyOf(s)) + g[s \ {SP!AnyOf(s)}]]
            G == CHOOSE g : P(g)
<1>1. MapThenSumSet(LAMBDA r : S!ChunkTokens(r), R) = G[R]
  BY DEF MapThenSumSet, MapThenFoldSet, SP!AnyOf
<1>2. \A r \in R : Chunk[r] = S!ChunkTokens(r) /\ Chunk[r] \in Nat
  BY ChunkFits DEF Chunk
<1>3. ASSUME NEW g PROVE P(g) <=> SP!Sums(Chunk, R, g)
  <2>1. \A s \in SUBSET R : s # {} => Chunk[SP!AnyOf(s)] = S!ChunkTokens(SP!AnyOf(s))
    BY <1>2, Assumptions, SP!AnyMember
  <2>2. [s \in SUBSET R |-> IF s = {} THEN 0 ELSE S!ChunkTokens(SP!AnyOf(s)) + g[s \ {SP!AnyOf(s)}]]
          = [s \in SUBSET R |-> IF s = {} THEN 0 ELSE Chunk[SP!AnyOf(s)] + g[s \ {SP!AnyOf(s)}]]
    BY <2>1
  <2>. QED  BY <2>2 DEF SP!Sums
<1>4. SP!Sums(Chunk, R, G)
  <2>1. \E g : P(g)
    BY <1>2, <1>3, SumExists
  <2>2. P(G)
    BY <2>1
  <2>. HIDE DEF P, G
  <2>. QED  BY <1>3, <2>2
<1>. HIDE DEF P, G
<1>5. \A r \in R : Chunk[r] \in Nat
  BY <1>2
<1>. QED  BY <1>1, <1>4, <1>5, SumOf

(* A batch is counted with the chunks it is about to run. *)
LEMMA ChunksTokens == ASSUME IInv, IInv', TokenInv, CountChunks PROVE TokenInv'
<1>. DEFINE Q == prefill_requests'
<1>1. /\ pc = "idle" /\ pc' = "prepare" /\ S!Schedule /\ rows' = InOrder(running', Q)
      /\ tokens_processed' = MapThenSumSet(LAMBDA r : S!ChunkTokens(r), Q)
      /\ UNCHANGED <<slot_prepared, prefillTotals, prefix_cache_hit_tokens, reused, prefilled>>
  BY DEF CountChunks, BeginStep, Batch
<1>2. /\ UNCHANGED <<prefill_offset, prefill_chunk_size>> /\ SchedulerBooks'
      /\ \A r \in Q : state'[r] = "prefill"
  BY <1>1, ScheduleEffect
<1>3. Q \subseteq Requests /\ IsFiniteSet(Q)
  <2>1. Q \in SUBSET Requests
    BY <1>2 DEF SchedulerBooks
  <2>. QED  BY <2>1, FS_Subset, RequestsAssumption
<1>4. Chunk' = Chunk
  BY <1>2 DEF Chunk, S!ChunkTokens
<1>5. Pending' = Q
  <2>1. ToSet(rows') = ToSet(running') \cap Q
    BY <1>1, <1>2, InOrderRows DEF SchedulerBooks
  <2>2. Q \subseteq ToSet(running')
    BY <1>2, <1>3 DEF SchedulerBooks
  <2>3. Pending' = {rows'[i] : i \in DOMAIN rows'}
    BY <1>1 DEF Pending, Owed
  <2>. QED  BY <2>1, <2>2, <2>3 DEF ToSet
<1>6. tokens_processed' = SP!Total(Chunk, Q)
  BY <1>1, <1>3, ChunkSum
<1>7. SP!Total(Chunk, Pending)' = tokens_processed'
  BY <1>4, <1>5, <1>6, NextTotals
<1>8. tokens_processed' \in Nat
  BY <1>3, <1>6, ChunkType, TotalNat
<1>. HIDE DEF Q
<1>9. Pending = {} /\ OpenHits = {}
  BY <1>1, NothingOpen
<1>10. SP!Total(Chunk, Pending) = 0 /\ SP!Total(prefix_cache_hit_tokens, OpenHits) = 0
  BY <1>9, TotalNone
<1>11. SP!Total(prefix_cache_hit_tokens, OpenHits)' \in Nat
  <2>1. IsFiniteSet(OpenHits') /\ \A r \in OpenHits' : prefix_cache_hit_tokens'[r] \in Nat
    BY <1>1, PendingFactsNext DEF TokenInv, TokensTyped
  <2>2. SP!Total(prefix_cache_hit_tokens', OpenHits') \in Nat
    BY <2>1, TotalNat
  <2>. QED  BY <2>2, NextTotals
<1>12. TokensTyped' /\ HitsNoted'
  BY <1>1, <1>8 DEF TokenInv, TokensTyped, HitsNoted, prefillTotals
<1>13. ChunksBooked'
  <2>1. Pending' = {} => tokens_processed' = 0
    BY <1>5, <1>6, TotalNone
  <2>. QED  BY <1>1, <1>7, <1>8, <1>9, <1>10, <2>1
       DEF TokenInv, TokensTyped, ChunksBooked, prefillTotals
<1>14. HitsBooked'
  BY <1>1, <1>9, <1>10, <1>11 DEF TokenInv, TokensTyped, HitsBooked, prefillTotals
<1>. QED  BY <1>12, <1>13, <1>14 DEF TokenInv

(* A hit: the chunk loses at most the tokens that were copied. *)
LEMMA HitEffect ==
  ASSUME IInv, LoadedPrefix
  PROVE  /\ Row \in Requests /\ at \in DOMAIN rows /\ pc = "load" /\ pc' = "prepare"
         /\ ~slot_prepared[Row] /\ slot_prepared' = [slot_prepared EXCEPT ![Row] = TRUE]
         /\ rows' = rows
         /\ pos'[RowSlot] \in Nat \ {0}
         /\ \A r \in Requests \ {Row} : Chunk'[r] = Chunk[r]
         /\ Chunk'[Row] \in Nat /\ Chunk[Row] \in Nat
         /\ Chunk'[Row] <= Chunk[Row] /\ Chunk[Row] <= Chunk'[Row] + pos'[RowSlot]
<1>. DEFINE n == (call.next - 1) * BlockSize
<1>1. /\ pc = "load" /\ at <= Len(rows) /\ C!LoadHit /\ pc' = "prepare" /\ rows' = rows
      /\ prefill_offset' = [prefill_offset EXCEPT ![Row] = pos'[RowSlot]]
      /\ slot_prepared' = [slot_prepared EXCEPT ![Row] = TRUE]
      /\ UNCHANGED prefill_chunk_size
  BY DEF LoadedPrefix, AtRow, Prepared, NextRow
<1>2. at \in DOMAIN rows /\ Row \in Requests /\ RowSlot \in Slots /\ ~slot_prepared[Row]
  BY <1>1, RowFacts DEF Engaged, IInv, StepInv, LookedUp
<1>3. /\ call.op = "lookup" /\ C!Matched # <<>>
      /\ pos' = [pos EXCEPT ![call.slot] = Len(FlattenSeq(C!Matched))]
  BY <1>1, SameFlatten DEF C!LoadHit
<1>4. n \in Nat /\ n < Len(Prompt[Row]) /\ Len(FlattenSeq(C!Matched)) = n
  BY <1>3, MatchedPast
<1>5. call.slot = RowSlot /\ call.next - 1 \in Nat
  BY <1>3, LookupFacts
<1>6. n # 0
  <2>1. call.next - 1 # 0
    <3>1. ASSUME call.next - 1 = 0 PROVE FALSE
      <4>1. C!Matched = [i \in 1 .. 0 |-> entries[C!Key(call.tokens, i)]]
        BY <3>1 DEF C!Matched
      <4>2. [i \in 1 .. 0 |-> entries[C!Key(call.tokens, i)]] = <<>>
        OBVIOUS
      <4>. QED  BY <1>3, <4>1, <4>2
    <3>. QED  BY <3>1
  <2>2. PICK m \in Nat \ {0}, d \in Nat \ {0} : m = call.next - 1 /\ d = BlockSize
    BY <1>5, <2>1, CacheAssumption
  <2>3. m * d # 0
    OBVIOUS
  <2>. QED  BY <2>2, <2>3
<1>. HIDE DEF n
<1>7. pos'[RowSlot] = n
  BY <1>2, <1>3, <1>4, <1>5 DEF IInv, CacheInv, SlotsTyped
<1>8. /\ prefill_offset[Row] = 0 /\ prefill_offset \in [Requests -> Nat]
      /\ prefill_chunk_size[Row] \in Nat \ {0}
  BY <1>2, Known, SettingsAssumption DEF IInv, StepInv, LookedUp, SchedulerBooks
<1>9. prefill_offset' = [prefill_offset EXCEPT ![Row] = n]
  BY <1>1, <1>7
<1>10. \A r \in Requests \ {Row} : Chunk'[r] = Chunk[r]
  BY <1>1, <1>8, <1>9 DEF Chunk, S!ChunkTokens
<1>11. /\ Chunk'[Row] \in Nat /\ Chunk[Row] \in Nat
       /\ Chunk'[Row] <= Chunk[Row] /\ Chunk[Row] <= Chunk'[Row] + n
  <2>1. PICK c \in Nat \ {0}, l \in Nat, k \in Nat :
          c = prefill_chunk_size[Row] /\ l = Len(Prompt[Row]) /\ k = n /\ k < l
    BY <1>2, <1>4, <1>8, PromptLengths
  <2>2. /\ Chunk[Row] = IF c < l - 0 THEN c ELSE l - 0
        /\ Chunk'[Row] = IF c < l - k THEN c ELSE l - k
    BY <1>1, <1>2, <1>8, <1>9, <2>1 DEF Chunk, S!ChunkTokens
  <2>. QED  BY <2>1, <2>2
<1>. QED  BY <1>1, <1>2, <1>4, <1>6, <1>7, <1>10, <1>11

LEMMA TotalMore ==
  ASSUME NEW U, IsFiniteSet(U), NEW f, NEW x \in U, \A y \in U : f[y] \in Nat
  PROVE  /\ SP!Total(f, U) = f[x] + SP!Total(f, U \ {x})
         /\ SP!Total(f, U \ {x}) \in Nat
<1>1. SP!Total(f, U) = f[x] + SP!Total(f, U \ {x})
  BY SameFinite, Assumptions, SP!TotalOfMore
<1>2. IsFiniteSet(U \ {x}) /\ \A y \in U \ {x} : f[y] \in Nat
  BY FS_RemoveElement
<1>. QED  BY <1>1, <1>2, TotalNat

(* When one member of a set changes its value the sum changes as much. *)
LEMMA TotalChanged ==
  ASSUME NEW U, IsFiniteSet(U), NEW e, NEW f, NEW x \in U,
         \A y \in U : e[y] \in Nat /\ f[y] \in Nat,
         \A y \in U \ {x} : e[y] = f[y]
  PROVE  /\ SP!Total(e, U) + f[x] = SP!Total(f, U) + e[x]
         /\ SP!Total(e, U) \in Nat /\ SP!Total(f, U) \in Nat
<1>1. /\ SP!Total(e, U) = e[x] + SP!Total(e, U \ {x})
      /\ SP!Total(f, U) = f[x] + SP!Total(f, U \ {x})
      /\ SP!Total(f, U \ {x}) \in Nat
  BY TotalMore
<1>2. SP!Total(e, U \ {x}) = SP!Total(f, U \ {x})
  <2>1. IsFiniteSet(U \ {x}) /\ \A y \in U \ {x} : e[y] = f[y] /\ f[y] \in Nat
    BY FS_RemoveElement
  <2>. QED  BY <2>1, TotalSame
<1>3. SP!Total(e, U) \in Nat /\ SP!Total(f, U) \in Nat
  BY TotalNat
<1>. QED  BY <1>1, <1>2, <1>3

(* A hit is noted: what it copied need not be run, and is to be counted. *)
LEMMA HitTokensKeep == ASSUME IInv, IInv', TokenInv, NoteHit PROVE TokenInv'
<1>1. /\ LoadedPrefix
      /\ prefix_cache_hit_tokens' = [prefix_cache_hit_tokens EXCEPT ![Row] = pos'[RowSlot]]
      /\ reused' = reused + pos'[RowSlot]
      /\ UNCHANGED <<prefillTotals, tokens_processed, prefilled>>
  BY DEF NoteHit
<1>2. PICK n \in Nat \ {0} :
         /\ n = pos'[RowSlot]
         /\ Row \in Requests /\ at \in DOMAIN rows /\ pc = "load" /\ pc' = "prepare"
         /\ ~slot_prepared[Row] /\ slot_prepared' = [slot_prepared EXCEPT ![Row] = TRUE]
         /\ rows' = rows
         /\ \A r \in Requests \ {Row} : Chunk'[r] = Chunk[r]
         /\ Chunk'[Row] \in Nat /\ Chunk[Row] \in Nat
         /\ Chunk'[Row] <= Chunk[Row] /\ Chunk[Row] <= Chunk'[Row] + n
  BY <1>1, HitEffect
<1>3. /\ prefix_cache_hit_tokens' = [prefix_cache_hit_tokens EXCEPT ![Row] = n]
      /\ reused' = reused + n /\ reused' \in Nat \ {0} /\ reused \in Nat
      /\ prefix_cache_hit_tokens \in [Requests -> Nat]
  BY <1>1, <1>2 DEF TokenInv, TokensTyped
<1>4. TokensTyped'
  BY <1>1, <1>2, <1>3 DEF TokenInv, TokensTyped, prefillTotals
<1>5. slot_prepared \in [Requests -> BOOLEAN]
  BY DEF IInv, StepInv, StepTyped
<1>6. HitsNoted'
  <2>. SUFFICES ASSUME NEW r \in Requests
                PROVE  /\ prefix_cache_hit_tokens'[r] <= reused'
                       /\ ~slot_prepared'[r] => prefix_cache_hit_tokens'[r] = 0
    BY DEF HitsNoted
  <2>1. CASE r = Row
    BY <1>2, <1>3, <1>5, <2>1
  <2>2. CASE r # Row
    BY <1>2, <1>3, <1>5, <2>2 DEF TokenInv, HitsNoted
  <2>. QED  BY <2>1, <2>2
<1>7. Pending = ToSet(rows) /\ Pending' = Pending /\ Row \in Pending
      /\ OpenHits = HitRows /\ OpenHits' = HitRows'
  <2>1. Pending = {rows[i] : i \in DOMAIN rows} /\ Pending' = {rows[i] : i \in DOMAIN rows}
    BY <1>2 DEF Pending, Owed
  <2>. QED  BY <1>2, <2>1 DEF ToSet, Row, OpenHits, InPrefill
<1>8. PICK a \in Nat, b \in Nat :
         /\ a = SP!Total(Chunk, Pending) /\ b = SP!Total(Chunk, Pending)'
         /\ b <= a /\ a <= b + n
  <2>1. Pending \subseteq Requests /\ IsFiniteSet(Pending)
    BY PendingFacts
  <2>2. PICK e, f : e = Chunk' /\ f = Chunk
    OBVIOUS
  <2>3. /\ \A r \in Pending : e[r] \in Nat /\ f[r] \in Nat
        /\ \A r \in Pending \ {Row} : e[r] = f[r]
    <3>1. \A r \in Requests : Chunk[r] \in Nat
      BY ChunkType
    <3>2. \A r \in Requests : Chunk'[r] \in Nat
      BY <1>2, <3>1
    <3>. QED  BY <1>2, <2>1, <2>2, <3>1, <3>2
  <2>4. /\ SP!Total(e, Pending) + f[Row] = SP!Total(f, Pending) + e[Row]
        /\ SP!Total(e, Pending) \in Nat /\ SP!Total(f, Pending) \in Nat
    BY <1>7, <2>1, <2>3, TotalChanged
  <2>5. e[Row] \in Nat /\ f[Row] \in Nat /\ e[Row] <= f[Row] /\ f[Row] <= e[Row] + n
    BY <1>2, <2>2
  <2>6. SP!Total(e, Pending) <= SP!Total(f, Pending) /\ SP!Total(f, Pending) <= SP!Total(e, Pending) + n
    BY <2>4, <2>5
  <2>7. SP!Total(Chunk, Pending)' = SP!Total(e, Pending)
    BY <1>7, <2>2, NextTotals
  <2>. QED  BY <2>2, <2>4, <2>6, <2>7
<1>9. ChunksBooked'
  BY <1>1, <1>2, <1>3, <1>7, <1>8 DEF TokenInv, TokensTyped, ChunksBooked, prefillTotals
<1>10. PICK c \in Nat :
         /\ c = SP!Total(prefix_cache_hit_tokens, OpenHits)
         /\ SP!Total(prefix_cache_hit_tokens, OpenHits)' = c + n
  <2>1. prefix_cache_hit_tokens[Row] = 0
    BY <1>2 DEF TokenInv, HitsNoted
  <2>2. Row \notin HitRows /\ HitRows' = HitRows \cup {Row}
    <3>1. Row \notin HitRows
      BY <2>1 DEF HitRows
    <3>2. ToSet(rows) \subseteq Requests
      BY <1>7, PendingFacts
    <3>3. \A r \in ToSet(rows) :
            prefix_cache_hit_tokens'[r] = IF r = Row THEN n ELSE prefix_cache_hit_tokens[r]
      BY <1>3, <3>2
    <3>4. Row \in ToSet(rows) /\ n > 0
      BY <1>7
    <3>. QED  BY <1>2, <3>1, <3>3, <3>4 DEF HitRows
  <2>3. IsFiniteSet(HitRows) /\ HitRows \subseteq Requests
    BY PendingFacts
  <2>4. PICK e, f : e = prefix_cache_hit_tokens' /\ f = prefix_cache_hit_tokens
    OBVIOUS
  <2>5. /\ \A r \in HitRows \cup {Row} : e[r] \in Nat
        /\ \A r \in HitRows : e[r] = f[r] /\ f[r] \in Nat
        /\ e[Row] = n
    BY <1>2, <1>3, <2>2, <2>3, <2>4
  <2>6. SP!Total(e, HitRows \cup {Row}) = SP!Total(e, HitRows) + e[Row]
    BY <2>2, <2>3, <2>5, TotalWith
  <2>7. SP!Total(e, HitRows) = SP!Total(f, HitRows) /\ SP!Total(f, HitRows) \in Nat
    BY <2>3, <2>5, TotalSame, TotalNat
  <2>8. /\ SP!Total(prefix_cache_hit_tokens, OpenHits)' = SP!Total(e, HitRows \cup {Row})
        /\ SP!Total(prefix_cache_hit_tokens, OpenHits) = SP!Total(f, HitRows)
    BY <1>7, <2>2, <2>4, NextTotals
  <2>. QED  BY <2>5, <2>6, <2>7, <2>8
<1>11. OpenHits' # {}
  <2>1. Row \in ToSet(rows') /\ prefix_cache_hit_tokens'[Row] > 0
    BY <1>2, <1>3, <1>7
  <2>. QED  BY <1>7, <2>1 DEF HitRows
<1>12. HitsBooked'
  <2>1. reused <= prefix_cache_tokens_saved + c /\ prefix_cache_tokens_saved \in Nat
    BY <1>2, <1>10 DEF TokenInv, HitsBooked, TokensTyped
  <2>2. prefix_cache_tokens_saved' = prefix_cache_tokens_saved
    BY <1>1 DEF prefillTotals
  <2>3. reused' <= prefix_cache_tokens_saved' + (c + n)
    BY <1>2, <1>3, <1>10, <2>1, <2>2
  <2>. QED  BY <1>3, <1>10, <1>11, <2>3 DEF HitsBooked
<1>. QED  BY <1>4, <1>6, <1>9, <1>12 DEF TokenInv

(* A row moves on: its chunk is run.  The last one closes the books of its
   batch, chunks and hits. *)
LEMMA PrefillTokensKeep == ASSUME IInv, IInv', TokenInv, CountPrefill PROVE TokenInv'
<1>1. /\ AdvanceRow /\ prefilled' = prefilled + Len(RowTokens)
      /\ UNCHANGED <<prefix_cache_hit_tokens, reused>>
      /\ IF at = Len(rows)
           THEN /\ CountHits
                /\ total_prefill_tokens' = total_prefill_tokens + tokens_processed
                /\ tokens_processed' = 0
           ELSE UNCHANGED <<prefillTotals, tokens_processed>>
  BY DEF CountPrefill
<1>2. /\ pc = "advance" /\ at <= Len(rows)
      /\ S!AdvancePrefill(Row, prefill_offset[Row] + Len(RowTokens))
      /\ at' = IF at < Len(rows) THEN at + 1 ELSE 1
      /\ pc' = IF at < Len(rows) THEN "advance" ELSE "report"
      /\ UNCHANGED <<slot_prepared, rows>>
  BY <1>1 DEF AdvanceRow, AtRow, NextRowOr
<1>3. /\ at \in DOMAIN rows /\ Row \in Requests
      /\ \A i \in DOMAIN rows : i # at => rows[i] # Row
      /\ DOMAIN rows = 1..Len(rows) /\ Len(rows) \in Nat /\ at \in Nat \ {0}
      /\ \A i \in DOMAIN rows : rows[i] \in Requests
  BY <1>2, RowFacts, RowsAreRequests DEF Engaged, IInv, StepInv
<1>4. Len(RowTokens) = Chunk[Row]
  <2>1. IsPrefill(Row)
    BY <1>2, <1>3 DEF IInv, StepInv, Batches, Row
  <2>. QED  BY <1>2, <1>3, <2>1, RowTokensFacts DEF ValidLen, Chunk
<1>5. /\ UNCHANGED prefill_chunk_size
      /\ prefill_offset' = [prefill_offset EXCEPT ![Row] = prefill_offset[Row] + Len(RowTokens)]
  BY <1>2 DEF S!AdvancePrefill
<1>6. \A r \in Requests \ {Row} : Chunk'[r] = Chunk[r]
  <2>1. prefill_offset \in [Requests -> Nat]
    BY Known DEF SchedulerBooks
  <2>. QED  BY <1>3, <1>5, <2>1 DEF Chunk, S!ChunkTokens
<1>7. Pending = {rows[i] : i \in {j \in DOMAIN rows : j >= at}} /\ Row \in Pending
  <2>1. Pending = {rows[i] : i \in {j \in DOMAIN rows : j >= at}}
    BY <1>2 DEF Pending, Owed
  <2>2. at >= at
    BY <1>3
  <2>. QED  BY <1>3, <2>1, <2>2 DEF Row
<1>8. Pending' = Pending \ {Row} /\ (at = Len(rows) => Pending' = {})
  <2>1. CASE at < Len(rows)
    <3>1. Pending' = {rows[i] : i \in {j \in DOMAIN rows : j >= at + 1}}
      BY <1>2, <2>1 DEF Pending, Owed
    <3>2. \A j \in DOMAIN rows : j >= at + 1 <=> (j >= at /\ j # at)
      BY <1>3
    <3>3. \A j \in DOMAIN rows : j # at <=> rows[j] # Row
      BY <1>3 DEF Row
    <3>4. \A x : x \in Pending' <=> x \in Pending \ {Row}
      BY <1>7, <3>1, <3>2, <3>3
    <3>. QED  BY <1>3, <2>1, <3>4
  <2>2. CASE ~(at < Len(rows))
    <3>1. at = Len(rows) /\ pc' = "report"
      BY <1>2, <1>3, <2>2
    <3>2. Pending' = {}
      BY <3>1, NothingOpenNext
    <3>3. \A j \in DOMAIN rows : j >= at => j = at
      BY <1>3, <3>1
    <3>4. Pending = {Row}
      BY <1>3, <1>7, <3>3 DEF Row
    <3>. QED  BY <3>2, <3>4
  <2>. QED  BY <2>1, <2>2
<1>9. PICK a \in Nat, b \in Nat, k \in Nat :
         /\ a = SP!Total(Chunk, Pending) /\ b = SP!Total(Chunk, Pending)' /\ k = Len(RowTokens)
         /\ a = k + b
  <2>1. Pending \subseteq Requests /\ IsFiniteSet(Pending)
    BY PendingFacts
  <2>2. PICK e, f : e = Chunk' /\ f = Chunk
    OBVIOUS
  <2>3. /\ \A r \in Pending : f[r] \in Nat
        /\ \A r \in Pending \ {Row} : e[r] = f[r] /\ f[r] \in Nat
    BY <1>6, <2>1, <2>2, ChunkType
  <2>4. /\ SP!Total(f, Pending) = f[Row] + SP!Total(f, Pending \ {Row})
        /\ SP!Total(f, Pending \ {Row}) \in Nat
    BY <1>7, <2>1, <2>3, TotalMore
  <2>5. SP!Total(e, Pending \ {Row}) = SP!Total(f, Pending \ {Row})
    <3>1. IsFiniteSet(Pending \ {Row})
      BY <2>1, FS_RemoveElement
    <3>. QED  BY <2>3, <3>1, TotalSame
  <2>6. SP!Total(Chunk, Pending)' = SP!Total(e, Pending \ {Row})
    BY <1>8, <2>2, NextTotals
  <2>7. f[Row] \in Nat /\ f[Row] = Len(RowTokens)
    BY <1>4, <1>7, <2>2, <2>3
  <2>8. SP!Total(f, Pending) \in Nat
    BY <2>4, <2>7
  <2>. QED  BY <2>2, <2>4, <2>5, <2>6, <2>7, <2>8
<1>10. TokensTyped /\ ChunksBooked /\ HitsBooked /\ HitsNoted
  BY <1>2 DEF TokenInv
<1>11. HitsNoted' /\ OpenHits = HitRows
  BY <1>1, <1>2, <1>10 DEF HitsNoted, OpenHits, InPrefill
<1>12. CASE at < Len(rows)
  <2>1. /\ pc' = "advance" /\ at' \in DOMAIN rows /\ UNCHANGED <<prefillTotals, tokens_processed>>
    BY <1>1, <1>2, <1>3, <1>12
  <2>2. OpenHits' = OpenHits
    BY <1>1, <1>2, <1>11, <2>1 DEF OpenHits, InPrefill, HitRows
  <2>3. TokensTyped'
    BY <1>1, <1>9, <1>10, <2>1 DEF TokensTyped, prefillTotals
  <2>4. HitsBooked'
    <3>1. SP!Total(prefix_cache_hit_tokens, OpenHits)' = SP!Total(prefix_cache_hit_tokens, OpenHits)
      BY <1>1, <2>2, NextTotals
    <3>. QED  BY <1>1, <1>10, <2>1, <2>2, <3>1 DEF HitsBooked, prefillTotals
  <2>5. Pending' # {}
    <3>1. Pending' = {rows[i] : i \in {j \in DOMAIN rows : j >= at'}}
      BY <1>2, <2>1 DEF Pending, Owed
    <3>2. at' >= at'
      BY <1>3, <2>1
    <3>. QED  BY <2>1, <3>1, <3>2
  <2>6. ChunksBooked'
    <3>1. /\ total_prefill_tokens' = total_prefill_tokens /\ tokens_processed' = tokens_processed
          /\ prefilled' = prefilled + k /\ reused' = reused
      BY <1>1, <1>9, <2>1 DEF prefillTotals
    <3>2. /\ prefilled \in Nat /\ total_prefill_tokens \in Nat
          /\ tokens_processed \in Nat /\ reused \in Nat
      BY <1>10 DEF TokensTyped
    <3>3. /\ prefilled + a <= total_prefill_tokens + tokens_processed
          /\ total_prefill_tokens + tokens_processed <= prefilled + a + reused
      BY <1>9, <1>10 DEF ChunksBooked
    <3>4. /\ prefilled' + b <= total_prefill_tokens' + tokens_processed'
          /\ total_prefill_tokens' + tokens_processed' <= prefilled' + b + reused'
      <4>1. a = k + b /\ a \in Nat /\ b \in Nat /\ k \in Nat
        BY <1>9
      <4>2. prefilled + a = (prefilled + k) + b
        BY <3>2, <4>1
      <4>. QED  BY <3>1, <3>3, <4>2
    <3>. QED  BY <1>9, <2>5, <3>4 DEF ChunksBooked
  <2>. QED  BY <1>11, <2>3, <2>4, <2>6 DEF TokenInv
<1>13. CASE ~(at < Len(rows))
  <2>1. /\ at = Len(rows) /\ pc' = "report" /\ CountHits
        /\ total_prefill_tokens' = total_prefill_tokens + tokens_processed
        /\ tokens_processed' = 0
    BY <1>1, <1>2, <1>3, <1>13
  <2>2. Pending' = {} /\ OpenHits' = {}
    BY <2>1, NothingOpenNext
  <2>3. SP!Total(Chunk, Pending)' = 0 /\ SP!Total(prefix_cache_hit_tokens, OpenHits)' = 0
    BY <2>2, TotalNone, NextTotals
  <2>4. PICK h \in Nat, d \in Nat :
          /\ d = Cardinality(HitRows) /\ prefix_cache_hits' = prefix_cache_hits + d
          /\ h = SP!Total(prefix_cache_hit_tokens, HitRows)
          /\ prefix_cache_tokens_saved' = prefix_cache_tokens_saved + h
          /\ d = 0 <=> HitRows = {}
    <3>1. IsFiniteSet(HitRows) /\ HitRows \subseteq Requests
      BY PendingFacts
    <3>2. \A r \in HitRows : prefix_cache_hit_tokens[r] \in Nat
      BY <1>10, <3>1 DEF TokensTyped
    <3>3. HitTokens(HitRows) = SP!Total(prefix_cache_hit_tokens, HitRows)
      BY <3>1, <3>2, FunctionSum DEF HitTokens
    <3>4. SP!Total(prefix_cache_hit_tokens, HitRows) \in Nat
      BY <3>1, <3>2, TotalNat
    <3>5. Cardinality(HitRows) \in Nat /\ (Cardinality(HitRows) = 0 <=> HitRows = {})
      BY <3>1, FS_CardinalityType, FS_EmptySet
    <3>. QED  BY <2>1, <3>3, <3>4, <3>5 DEF CountHits
  <2>5. TokensTyped'
    <3>1. /\ prefilled' = prefilled + k /\ reused' = reused
          /\ prefix_cache_hit_tokens' = prefix_cache_hit_tokens
      BY <1>1, <1>9
    <3>. QED  BY <1>10, <2>1, <2>4, <3>1 DEF TokensTyped
  <2>6. ChunksBooked'
    BY <1>1, <1>9, <1>10, <2>1, <2>3 DEF TokensTyped, ChunksBooked
  <2>7. ASSUME reused = 0 PROVE HitRows = {}
    <3>1. \A r \in HitRows : r \in Requests /\ prefix_cache_hit_tokens[r] > 0
      BY PendingFacts DEF HitRows
    <3>2. \A r \in HitRows : prefix_cache_hit_tokens[r] <= 0 /\ prefix_cache_hit_tokens[r] \in Nat
      BY <1>10, <2>7, <3>1 DEF HitsNoted, TokensTyped
    <3>. QED  BY <3>1, <3>2
  <2>8. HitsBooked'
    <3>1. reused <= prefix_cache_tokens_saved + h
      BY <1>10, <1>11, <2>4 DEF HitsBooked
    <3>2. reused = 0 => prefix_cache_hits' = 0
      BY <1>10, <2>4, <2>7 DEF HitsBooked
    <3>3. prefix_cache_hits' = 0 => reused = 0
      <4>1. prefix_cache_hits \in Nat
        BY <1>10 DEF TokensTyped
      <4>. QED  BY <1>10, <1>11, <2>4, <4>1 DEF HitsBooked
    <3>4. reused \in Nat /\ prefix_cache_tokens_saved \in Nat
      BY <1>10 DEF TokensTyped
    <3>. QED  BY <1>1, <2>3, <2>4, <3>1, <3>2, <3>3, <3>4 DEF HitsBooked
  <2>. QED  BY <1>11, <2>5, <2>6, <2>8 DEF TokenInv
<1>. QED  BY <1>12, <1>13

LEMMA InitTokens == ASSUME MetricsInit PROVE TokenInv
<1>1. /\ pc = "idle" /\ total_prefill_tokens = 0 /\ prefix_cache_hits = 0
      /\ prefix_cache_tokens_saved = 0 /\ prefix_cache_hit_tokens = [r \in Requests |-> 0]
      /\ tokens_processed = 0 /\ reused = 0 /\ prefilled = 0
  BY DEF MetricsInit, Init
<1>2. /\ SP!Total(Chunk, Pending) = 0 /\ SP!Total(prefix_cache_hit_tokens, OpenHits) = 0
  BY <1>1, NothingOpen, TotalNone
<1>. QED  BY <1>1, <1>2 DEF TokenInv, TokensTyped, HitsNoted, ChunksBooked, HitsBooked

LEMMA NextTokens ==
  ASSUME IInv, IInv', TokenInv, [MetricsNext]_allVars
  PROVE  TokenInv'
<1>1. CASE UNCHANGED allVars
  <2>1. UNCHANGED <<promptVars, slot_prepared, schedulerVars, stepVars>>
    BY <1>1 DEF allVars, vars, metricsVars, promptVars
  <2>2. UNCHANGED <<pc, rows, at, slot_prepared>>
    BY <2>1 DEF stepVars
  <2>3. CASE pc = "raised"
    BY <2>1, <2>2, <2>3, TokensRaised
  <2>4. CASE pc # "raised"
    <3>1. /\ \A i \in DOMAIN rows : Owed(i)' <=> Owed(i)
          /\ InPrefill' <=> InPrefill
      BY <2>1, <2>2 DEF Owed, InPrefill, IsPrefill, schedulerVars
    <3>. QED  BY <2>1, <2>2, <2>4, <3>1, TokensSame
  <2>. QED  BY <2>3, <2>4
<1>2. CASE CountFinished
  <2>1. ReportToken /\ UNCHANGED promptVars
    BY <1>2 DEF CountFinished, promptVars
  <2>. QED  BY <2>1, ReportTokens
<1>3. CASE CountedClients
  <2>1. /\ \E r \in Requests : Cancel(r) \/ \E chunk \in Chunks : AddRequest(r, chunk)
        /\ UNCHANGED promptVars
    BY <1>3 DEF CountedClients, CountTimeout, CountEnqueued, promptVars
  <2>. QED  BY <2>1, ReportTokens
<1>4. CASE Stopped /\ UNCHANGED metricsVars
  BY <1>1, <1>4 DEF Stopped, allVars
<1>. QED  BY <1>1, <1>2, <1>3, <1>4, ChunksTokens, HitTokensKeep, PrefillTokensKeep, UncountedTokens
          DEF MetricsNext, CountedStep

(* Between steps no prompt token goes uncounted, whether it was copied or run:
   a saved one may be counted as processed too, and never twice. *)
THEOREM PromptTokensStayCounted == MetricsSpec => []PromptTokensCounted
<1>1. MetricsInit => TokenInv
  BY InitTokens
<1>2. IInv /\ IInv' /\ TokenInv /\ [MetricsNext]_allVars => TokenInv'
  BY NextTokens
<1>3. IInv /\ TokenInv => PromptTokensCounted
  <2>. SUFFICES ASSUME IInv, TokenInv, pc = "idle"
                PROVE  /\ prefilled <= total_prefill_tokens
                       /\ total_prefill_tokens <= prefilled + reused
                       /\ reused <= prefix_cache_tokens_saved
                       /\ (reused = 0 <=> prefix_cache_hits = 0)
    BY DEF PromptTokensCounted
  <2>1. Pending = {} /\ OpenHits = {}
    BY NothingOpen
  <2>2. SP!Total(Chunk, Pending) = 0 /\ SP!Total(prefix_cache_hit_tokens, OpenHits) = 0
    BY <2>1, TotalNone
  <2>. QED  BY <2>1, <2>2 DEF TokenInv, TokensTyped, ChunksBooked, HitsBooked
<1>. QED  BY <1>1, <1>2, <1>3, MetricsInvariance, PTL DEF MetricsSpec
=============================================================================
