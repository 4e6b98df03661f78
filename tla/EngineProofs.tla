---------------------------- MODULE EngineProofs ----------------------------
(***************************************************************************)
(* Proofs about the engine, for any number of requests, slots, blocks and  *)
(* layers, any prompts, chunk sizes, budgets and limits.  What is proved   *)
(* of the scheduler and of the cache alone is used through SP and CP; the  *)
(* rest is what the engine adds: which rows a step runs, and what it has   *)
(* cached when it reports on them.                                         *)
(***************************************************************************)
EXTENDS Engine, FiniteSetTheorems, SequenceTheorems, TLAPS

SP == INSTANCE SchedulerProofs WITH PromptLen <- [r \in Requests |-> Len(Prompt[r])],
                                    MaxSlots <- BatchSize
CP == INSTANCE PagedKVCacheProofs WITH Slots <- 0..(BatchSize - 1),
                                       Prompts <- {Prompt[r] : r \in Requests},
                                       KVValue <- Seq(Token \cup {Sampled, Pad}),
                                       Uninit <- <<>>

Slots == 0 .. BatchSize - 1
Layers == 0 .. NumLayers - 1
KV == Seq(Token \cup {Sampled, Pad})

-----------------------------------------------------------------------------
(* The assumptions of the two components hold of the engine's constants. *)

LEMMA PromptLengths ==
  ASSUME NEW r \in Requests
  PROVE  /\ Prompt[r] \in Seq(Token)
         /\ Len(Prompt[r]) \in Nat \ {0}
BY RequestsAssumption, EmptySeq, LenProperties

LEMMA Assumptions ==
  /\ SP!RequestsAssumption /\ SP!LimitsAssumption
  /\ CP!SizesAssumption /\ CP!PromptsAssumption /\ CP!FiniteAssumption
<1>1. SP!RequestsAssumption
  BY RequestsAssumption, PromptLengths DEF SP!RequestsAssumption, SP!IsFiniteSet, IsFiniteSet
<1>2. SP!LimitsAssumption
  BY SettingsAssumption DEF SP!LimitsAssumption
<1>3. CP!SizesAssumption
  BY CacheAssumption DEF CP!SizesAssumption
<1>4. CP!PromptsAssumption
  BY PromptLengths DEF CP!PromptsAssumption
<1>5. CP!FiniteAssumption
  <2>1. IsFiniteSet(0 .. BatchSize - 1)
    <3>1. 0 \in Int /\ BatchSize - 1 \in Int
      BY SettingsAssumption
    <3>. QED  BY ONLY <3>1, FS_Interval, Zenon
  <2>. QED  BY <2>1, CacheAssumption DEF CP!FiniteAssumption, CP!IsFiniteSet, IsFiniteSet
<1>. QED  BY <1>1, <1>2, <1>3, <1>4, <1>5

-----------------------------------------------------------------------------
(* An operation of the scheduler is the same under S and under SP. *)

LEMMA SameSchedule == S!Schedule <=> SP!Schedule
BY DEF S!Schedule, SP!Schedule, S!BetweenSteps, SP!BetweenSteps, S!HasWork, SP!HasWork,
       S!AssignWaitingToSlots, SP!AssignWaitingToSlots, S!AdmitCount, SP!AdmitCount,
       S!SlotAfterAssign, SP!SlotAfterAssign, S!DecodeRows, SP!DecodeRows,
       S!PrefillRows, SP!PrefillRows, S!ChunkTokens, SP!ChunkTokens,
       S!limitVars, SP!limitVars, S!Cardinality, SP!Cardinality

LEMMA SameInit == S!Init <=> SP!Init
BY DEF S!Init, SP!Init, S!NoSlot, SP!NoSlot

LEMMA SameAddRequest ==
  ASSUME NEW r, NEW chunk
  PROVE  S!AddRequest(r, chunk) <=> SP!AddRequest(r, chunk)
BY DEF S!AddRequest, SP!AddRequest, S!BetweenSteps, SP!BetweenSteps, S!limitVars, SP!limitVars,
       S!batchVars, SP!batchVars

LEMMA SameAdvance ==
  ASSUME NEW r, NEW n
  PROVE  S!AdvancePrefill(r, n) <=> SP!AdvancePrefill(r, n)
BY DEF S!AdvancePrefill, SP!AdvancePrefill, S!limitVars, SP!limitVars, S!placeVars, SP!placeVars

LEMMA SamePrefillDone ==
  ASSUME NEW r
  PROVE  S!MarkPrefillDone(r) <=> SP!MarkPrefillDone(r)
BY DEF S!MarkPrefillDone, SP!MarkPrefillDone, S!limitVars, SP!limitVars, S!placeVars,
       SP!placeVars, S!batchVars, SP!batchVars

LEMMA SameLeave ==
  ASSUME NEW r
  PROVE  S!LeaveRunning(r) <=> SP!LeaveRunning(r)
BY DEF S!LeaveRunning, SP!LeaveRunning, S!RemoveAt, SP!RemoveAt, S!NoSlot, SP!NoSlot

LEMMA SameDecodeDone ==
  ASSUME NEW r
  PROVE  S!MarkDecodeDone(r) <=> SP!MarkDecodeDone(r)
BY SameLeave DEF S!MarkDecodeDone, SP!MarkDecodeDone, S!limitVars, SP!limitVars

LEMMA SameCancel ==
  ASSUME NEW r
  PROVE  S!CancelRequest(r) <=> SP!CancelRequest(r)
BY SameLeave DEF S!CancelRequest, SP!CancelRequest, S!CancelWaiting, SP!CancelWaiting,
       S!CancelRunning, SP!CancelRunning, S!CancelUnknown, SP!CancelUnknown,
       S!BetweenSteps, SP!BetweenSteps, S!limitVars, SP!limitVars, S!batchVars, SP!batchVars,
       S!ToSet, SP!ToSet, S!RemoveAt, SP!RemoveAt

LEMMA SameReconfigure ==
  ASSUME NEW tokens, NEW new, NEW init
  PROVE  S!Reconfigure(tokens, new, init) <=> SP!Reconfigure(tokens, new, init)
BY DEF S!Reconfigure, SP!Reconfigure, S!BetweenSteps, SP!BetweenSteps, S!CannotApply,
       SP!CannotApply, S!ApplyMaxConcurrent, SP!ApplyMaxConcurrent, S!SortedSlots,
       SP!SortedSlots, S!ToSet, SP!ToSet, S!Cardinality, SP!Cardinality, S!placeVars,
       SP!placeVars, S!batchVars, SP!batchVars

LEMMA SameSchedulerInvariants ==
  /\ S!TypeOK <=> SP!TypeOK
  /\ S!SlotPartition <=> SP!SlotPartition
  /\ S!OnePlace <=> SP!OnePlace
<1>1. S!TypeOK <=> SP!TypeOK
  BY DEF S!TypeOK, SP!TypeOK, S!RequestStates, SP!RequestStates, S!NoSlot, SP!NoSlot
<1>2. S!SlotPartition <=> SP!SlotPartition
  BY DEF S!SlotPartition, SP!SlotPartition, S!IsInjective, SP!IsInjective, S!ToSet, SP!ToSet
<1>3. S!OnePlace <=> SP!OnePlace
  BY DEF S!OnePlace, SP!OnePlace, S!ToSet, SP!ToSet, S!IsInjective, SP!IsInjective, S!NoSlot,
         SP!NoSlot
<1>. QED  BY <1>1, <1>2, <1>3

-----------------------------------------------------------------------------
(* And an operation of the cache under C and under CP. *)

LEMMA SameCacheInit == C!Init <=> CP!Init
BY DEF C!Init, CP!Init, C!Layers, CP!Layers, C!Offsets, CP!Offsets, C!Idle, CP!Idle

LEMMA SameTryLoad ==
  ASSUME NEW s, NEW tokens
  PROVE  C!TryLoadPrefix(s, tokens) <=> CP!TryLoadPrefix(s, tokens)
BY DEF C!TryLoadPrefix, CP!TryLoadPrefix, C!Idle, CP!Idle, C!Call, CP!Call, C!poolVars,
       CP!poolVars, C!tableVars, CP!tableVars

LEMMA SameMatch == C!MatchBlock <=> CP!MatchBlock
BY DEF C!MatchBlock, CP!MatchBlock, C!FullBlocks, CP!FullBlocks, C!NextKey, CP!NextKey, C!Key,
       CP!Key, C!MoveToEnd, CP!MoveToEnd, C!Renewed, CP!Renewed, C!poolVars, CP!poolVars,
       C!tableVars, CP!tableVars

LEMMA SameLoad ==
  /\ C!LoadMiss <=> CP!LoadMiss
  /\ C!LoadHit <=> CP!LoadHit
  /\ C!LoadRejected <=> CP!LoadRejected
<1>1. C!LookupOver <=> CP!LookupOver
  BY DEF C!LookupOver, CP!LookupOver, C!FullBlocks, CP!FullBlocks, C!NextKey, CP!NextKey,
         C!Key, CP!Key
<1>2. C!LoadMiss <=> CP!LoadMiss
  BY <1>1 DEF C!LoadMiss, CP!LoadMiss, C!MatchedBlocks, CP!MatchedBlocks, C!Idle, CP!Idle,
              C!poolVars, CP!poolVars, C!tableVars, CP!tableVars
<1>3. C!LoadHit <=> CP!LoadHit
  BY <1>1 DEF C!LoadHit, CP!LoadHit, C!MatchedBlocks, CP!MatchedBlocks, C!Idle, CP!Idle,
              C!Key, CP!Key, C!Retain, CP!Retain, C!CursorAfterLoad, CP!CursorAfterLoad,
              C!ToSet, CP!ToSet, C!Cardinality, CP!Cardinality
<1>4. C!LoadRejected <=> CP!LoadRejected
  BY <1>1 DEF C!LoadRejected, CP!LoadRejected, C!MatchedBlocks, CP!MatchedBlocks, C!Idle,
              CP!Idle, C!poolVars, CP!poolVars, C!tableVars, CP!tableVars
<1>. QED  BY <1>2, <1>3, <1>4

LEMMA SameAppend ==
  ASSUME NEW s, NEW l, NEW vals
  PROVE  /\ C!AppendStored(s, l, vals) <=> CP!AppendStored(s, l, vals)
         /\ C!AppendExhausted(s, l, vals) <=> CP!AppendExhausted(s, l, vals)
         /\ C!AppendTooLong(s, l, vals) <=> CP!AppendTooLong(s, l, vals)
<1>1. C!AppendStored(s, l, vals) <=> CP!AppendStored(s, l, vals)
  BY DEF C!AppendStored, CP!AppendStored, C!Idle, CP!Idle, C!Grants, CP!Grants, C!Lacking,
         CP!Lacking, C!BlocksNeeded, CP!BlocksNeeded, C!FreeBlocks, CP!FreeBlocks, C!Allocate,
         CP!Allocate, C!Written, CP!Written, C!Resolve, CP!Resolve, C!Offsets, CP!Offsets,
         C!cacheVars, CP!cacheVars, C!ToSet, CP!ToSet, C!IsInjective, CP!IsInjective
<1>2. C!AppendExhausted(s, l, vals) <=> CP!AppendExhausted(s, l, vals)
  BY DEF C!AppendExhausted, CP!AppendExhausted, C!Idle, CP!Idle, C!Grants, CP!Grants,
         C!Lacking, CP!Lacking, C!BlocksNeeded, CP!BlocksNeeded, C!FreeBlocks, CP!FreeBlocks,
         C!Allocate, CP!Allocate, C!cacheVars, CP!cacheVars, C!ToSet, CP!ToSet,
         C!IsInjective, CP!IsInjective, C!Cardinality, CP!Cardinality
<1>3. C!AppendTooLong(s, l, vals) <=> CP!AppendTooLong(s, l, vals)
  BY DEF C!AppendTooLong, CP!AppendTooLong, C!Idle, CP!Idle, C!poolVars, CP!poolVars,
         C!tableVars, CP!tableVars, C!cacheVars, CP!cacheVars
<1>. QED  BY <1>1, <1>2, <1>3

LEMMA SameRegister ==
  ASSUME NEW s, NEW tokens
  PROVE  C!RegisterPrefix(s, tokens) <=> CP!RegisterPrefix(s, tokens)
BY DEF C!RegisterPrefix, CP!RegisterPrefix, C!Idle, CP!Idle, C!FullBlocks, CP!FullBlocks,
       C!Call, CP!Call, C!poolVars, CP!poolVars, C!tableVars, CP!tableVars

LEMMA SameRelease ==
  ASSUME NEW B
  PROVE  C!Release(B) <=> CP!Release(B)
BY DEF C!Release, CP!Release, C!LastReference, CP!LastReference, C!Layers, CP!Layers, C!Offsets,
       CP!Offsets

LEMMA SameInsert == C!Insert <=> (CP!RenewEntry \/ CP!EvictOldest \/ CP!AddEntry)
<1>1. C!NextKey = CP!NextKey /\ C!AfterInsert = CP!AfterInsert
  BY DEF C!NextKey, CP!NextKey, C!Key, CP!Key, C!AfterInsert, CP!AfterInsert, C!FullBlocks,
         CP!FullBlocks, C!Idle, CP!Idle
<1>2. C!RenewEntry <=> CP!RenewEntry
  BY <1>1 DEF C!RenewEntry, CP!RenewEntry, C!MoveToEnd, CP!MoveToEnd, C!Renewed, CP!Renewed,
              C!poolVars, CP!poolVars, C!tableVars, CP!tableVars
<1>3. C!EvictOldest <=> CP!EvictOldest
  BY <1>1, SameRelease DEF C!EvictOldest, CP!EvictOldest
<1>4. C!AddEntry <=> CP!AddEntry
  BY <1>1 DEF C!AddEntry, CP!AddEntry, C!Retain, CP!Retain, C!ToSet, CP!ToSet, C!Cardinality,
              CP!Cardinality, C!tableVars, CP!tableVars
<1>. QED  BY <1>2, <1>3, <1>4 DEF C!Insert

LEMMA SameReset ==
  ASSUME NEW s
  PROVE  C!ResetSlot(s) <=> CP!ResetSlot(s)
BY SameRelease DEF C!ResetSlot, CP!ResetSlot, C!Idle, CP!Idle, C!Clear, CP!Clear, C!IsInjective,
       CP!IsInjective, C!ToSet, CP!ToSet, C!cacheVars, CP!cacheVars

LEMMA SameCacheInvariants ==
  /\ C!TypeOK <=> CP!TypeOK
  /\ C!PoolExact <=> CP!PoolExact
  /\ C!CleanupCannotRaise <=> CP!CleanupCannotRaise
<1>1. C!TypeOK <=> CP!TypeOK
  BY DEF C!TypeOK, CP!TypeOK, C!Layers, CP!Layers, C!Offsets, CP!Offsets, C!Keys, CP!Keys,
         C!Key, CP!Key, C!FullBlocks, CP!FullBlocks, C!Idle, CP!Idle
<1>2. C!PoolExact <=> CP!PoolExact
  BY DEF C!PoolExact, CP!PoolExact, C!holders, CP!holders, C!SlotHolders, CP!SlotHolders,
         C!EntryHolders, CP!EntryHolders, C!ToSet, CP!ToSet, C!Cardinality, CP!Cardinality
<1>3. C!CleanupCannotRaise <=> CP!CleanupCannotRaise
  BY DEF C!CleanupCannotRaise, CP!CleanupCannotRaise, C!IsInjective, CP!IsInjective, C!ToSet,
         CP!ToSet
<1>. QED  BY <1>1, <1>2, <1>3

-----------------------------------------------------------------------------
(* What is used of the two components' invariants, in the engine's terms. *)

SchedulerBooks ==
  /\ max_concurrent_requests \in 1..BatchSize /\ max_tokens_per_step \in Budgets
  /\ waiting \in Seq(Requests) /\ running \in Seq(Requests) /\ IsInjective(running)
  /\ completed \subseteq Requests /\ failed \subseteq Requests /\ completed \cap failed = {}
  /\ state \in [Requests -> {"new", "waiting", "prefill", "decode", "finished"}]
  /\ batch_idx \in [Requests -> Nat \cup {-1}]
  /\ prefill_offset \in [Requests -> Nat]
  /\ prefill_chunk_size \in [Requests -> Chunks]
  /\ num_generated \in [Requests -> Nat]
  /\ prefill_requests \subseteq Requests /\ decode_requests \subseteq Requests
  /\ \A r \in Requests :
       /\ r \in ToSet(waiting) <=> state[r] = "waiting"
       /\ r \in ToSet(running) <=> state[r] \in {"prefill", "decode"}
       /\ r \in completed \cup failed <=> state[r] = "finished"
       /\ r \notin ToSet(running) => batch_idx[r] = -1
  /\ \A r \in ToSet(running) : r \in Requests /\ batch_idx[r] \in Slots
  /\ \A r, t \in ToSet(running) : batch_idx[r] = batch_idx[t] => r = t

LEMMA SchedulerKnown == SP!IInv => SchedulerBooks
<1>. SUFFICES ASSUME SP!IInv PROVE SchedulerBooks
  OBVIOUS
<1>1. SP!TypeOK /\ SP!OnePlace /\ SP!SlotPartition
  BY DEF SP!IInv
<1>2. /\ max_concurrent_requests \in 1..BatchSize /\ max_tokens_per_step \in Budgets
      /\ waiting \in Seq(Requests) /\ running \in Seq(Requests)
      /\ completed \subseteq Requests /\ failed \subseteq Requests
      /\ state \in [Requests -> {"new", "waiting", "prefill", "decode", "finished"}]
      /\ batch_idx \in [Requests -> Nat \cup {-1}]
      /\ prefill_offset \in [Requests -> Nat]
      /\ prefill_chunk_size \in [Requests -> Chunks]
      /\ num_generated \in [Requests -> Nat]
      /\ prefill_requests \subseteq Requests /\ decode_requests \subseteq Requests
  BY <1>1 DEF SP!TypeOK, SP!RequestStates, SP!NoSlot
<1>3. /\ IsInjective(running) /\ completed \cap failed = {}
      /\ \A r \in Requests :
           /\ r \in ToSet(waiting) <=> state[r] = "waiting"
           /\ r \in ToSet(running) <=> state[r] \in {"prefill", "decode"}
           /\ r \in completed \cup failed <=> state[r] = "finished"
           /\ r \notin ToSet(running) => batch_idx[r] = -1
  BY <1>1 DEF SP!OnePlace, SP!ToSet, ToSet, SP!IsInjective, IsInjective, SP!NoSlot
<1>4. \A r \in ToSet(running) : r \in Requests
  BY <1>2, LenProperties, ElementOfSeq DEF ToSet
<1>5. /\ \A r \in ToSet(running) : batch_idx[r] \in 0..(max_concurrent_requests - 1)
      /\ \A r, t \in ToSet(running) : batch_idx[r] = batch_idx[t] => r = t
  BY <1>1 DEF SP!SlotPartition, SP!ToSet, ToSet
<1>6. \A r \in ToSet(running) : batch_idx[r] \in Slots
  BY <1>2, <1>5, SettingsAssumption DEF Slots
<1>. QED  BY <1>2, <1>3, <1>4, <1>5, <1>6 DEF SchedulerBooks

LEMMA SchedulerKnownNext == SP!IInv' => SchedulerBooks'
BY SchedulerKnown, PTL

CacheBooks ==
  /\ tables \in [Slots -> Seq(Blocks)]
  /\ pos \in [Slots -> 0..MaxSeqLen]
  /\ kv \in [Layers -> [Blocks -> [0 .. BlockSize - 1 -> KV]]]
  /\ \/ call = C!Idle
     \/ /\ call \in [op : {"lookup", "insert"}, slot : Slots,
                     tokens : {Prompt[r] : r \in Requests}, next : Nat \ {0}]
        /\ (call.next - 1) * BlockSize <= Len(call.tokens)

LEMMA CacheKnown == CP!IInv => CacheBooks
<1>. SUFFICES ASSUME CP!IInv PROVE CacheBooks
  OBVIOUS
<1>1. CP!TypeOK
  BY DEF CP!IInv
<1>2. tables \in [Slots -> Seq(Blocks)] /\ pos \in [Slots -> 0..MaxSeqLen]
  BY <1>1 DEF CP!TypeOK, Slots
<1>3. kv \in [Layers -> [Blocks -> [0 .. BlockSize - 1 -> KV]]]
  <2>1. <<>> \in KV
    BY EmptySeq DEF KV
  <2>2. KV \cup {<<>>} = KV
    BY <2>1
  <2>3. kv \in [Layers -> [Blocks -> [0 .. BlockSize - 1 -> KV \cup {<<>>}]]]
    BY <1>1 DEF CP!TypeOK, CP!Layers, CP!Offsets, Layers, KV
  <2>. QED  BY <2>2, <2>3
<1>4. CASE call # C!Idle
  <2>1. /\ call \in [op : {"lookup", "insert"}, slot : Slots,
                     tokens : {Prompt[r] : r \in Requests}, next : Nat \ {0}]
        /\ call.next <= CP!FullBlocks(call.tokens) + 1
    BY <1>1, <1>4 DEF CP!TypeOK, CP!Idle, C!Idle, Slots
  <2>2. PICK r \in Requests : call.tokens = Prompt[r]
    BY <2>1
  <2>3. /\ Len(call.tokens) \in Nat /\ BlockSize \in Nat \ {0} /\ call.next \in Nat \ {0}
        /\ call.next <= (Len(call.tokens) \div BlockSize) + 1
    BY <2>1, <2>2, PromptLengths, CacheAssumption DEF CP!FullBlocks
  <2>4. \A n \in Nat, d \in Nat \ {0}, k \in Nat \ {0} :
          k <= (n \div d) + 1 => (k - 1) * d <= n
    OBVIOUS
  <2>. QED  BY <1>2, <1>3, <2>1, <2>3, <2>4 DEF CacheBooks
<1>. QED  BY <1>2, <1>3, <1>4 DEF CacheBooks

LEMMA CacheKnownNext == CP!IInv' => CacheBooks'
BY CacheKnown, PTL

(* A component whose variables stay keeps its invariant. *)
LEMMA SchedulerStays == ASSUME SP!IInv, UNCHANGED schedulerVars PROVE SP!IInv'
<1>1. UNCHANGED SP!vars
  BY DEF schedulerVars, SP!vars, SP!limitVars, SP!placeVars, SP!batchVars
<1>. QED  BY <1>1, Assumptions, SP!NextKeeps

CacheInv == CP!IInv /\ CP!TablesCover

LEMMA CacheStays == ASSUME CacheInv, UNCHANGED cacheVars PROVE CacheInv'
<1>1. UNCHANGED CP!vars
  BY DEF cacheVars, CP!vars, CP!poolVars, CP!tableVars, CP!cacheVars
<1>2. CP!IInv'
  BY <1>1, Assumptions, CP!NextKeeps DEF CacheInv
<1>3. CP!TablesCover'
  BY DEF CacheInv, cacheVars, CP!TablesCover, CP!BlocksNeeded
<1>. QED  BY <1>2, <1>3 DEF CacheInv

LEMMA CoverStays == ASSUME CacheInv, CP!IInv', UNCHANGED <<tables, pos>> PROVE CacheInv'
BY DEF CacheInv, CP!TablesCover, CP!BlocksNeeded

-----------------------------------------------------------------------------
(* The rows of a batch: the members of R, each once, in the order of q. *)

Pick(q, R, g, i) ==
  IF i = 0 THEN <<>> ELSE IF q[i] \in R THEN Append(g[i - 1], q[i]) ELSE g[i - 1]
PicksTo(q, R, g, k) ==
  g \in [0..k -> Seq(Requests)] /\ \A i \in 0..k : g[i] = Pick(q, R, g, i)
Picks(q, R, g) == g = [i \in 0..Len(q) |-> Pick(q, R, g, i)]

LEMMA PicksExist == ASSUME NEW q \in Seq(Requests), NEW R PROVE \E g : Picks(q, R, g)
<1>. DEFINE T == {k \in 0..Len(q) : \E g : PicksTo(q, R, g, k)}
<1>1. Len(q) \in Nat /\ \A i \in 1..Len(q) : q[i] \in Requests
  BY LenProperties, ElementOfSeq
<1>2. 0 \in T
  <2>. DEFINE g == [i \in 0..0 |-> <<>>]
  <2>1. PicksTo(q, R, g, 0)
    BY EmptySeq DEF PicksTo, Pick
  <2>. QED  BY <1>1, <2>1
<1>3. ASSUME NEW k \in 0..(Len(q) - 1), k \in T PROVE k + 1 \in T
  <2>1. PICK g : PicksTo(q, R, g, k)
    BY <1>3
  <2>2. k \in Nat /\ k + 1 \in 1..Len(q)
    BY <1>1
  <2>. DEFINE h == [i \in 0..(k + 1) |-> IF i <= k THEN g[i] ELSE Pick(q, R, g, i)]
  <2>3. h \in [0..(k + 1) -> Seq(Requests)]
    <3>1. g[k] \in Seq(Requests) /\ Pick(q, R, g, k + 1) \in Seq(Requests)
      BY <1>1, <2>1, <2>2 DEF Pick, PicksTo
    <3>2. ASSUME NEW i \in 0..(k + 1) PROVE h[i] \in Seq(Requests)
      <4>1. CASE i <= k
        BY <2>1, <2>2, <4>1 DEF PicksTo
      <4>2. CASE i = k + 1
        BY <2>2, <3>1, <4>2
      <4>. QED  BY <2>2, <4>1, <4>2
    <3>. QED  BY <3>2
  <2>4. ASSUME NEW i \in 0..(k + 1) PROVE h[i] = Pick(q, R, h, i)
    <3>1. i # 0 => i - 1 \in 0..k /\ h[i - 1] = g[i - 1]
      BY <2>2
    <3>2. Pick(q, R, h, i) = Pick(q, R, g, i)
      BY <3>1 DEF Pick
    <3>3. h[i] = IF i <= k THEN g[i] ELSE Pick(q, R, g, i)
      OBVIOUS
    <3>. HIDE DEF h
    <3>4. i <= k => g[i] = Pick(q, R, g, i)
      BY <2>1, <2>2 DEF PicksTo
    <3>. QED  BY <3>2, <3>3, <3>4
  <2>5. PicksTo(q, R, h, k + 1)
    BY <2>3, <2>4 DEF PicksTo
  <2>. QED  BY <2>2, <2>5
<1>4. Len(q) \in T
  <2>. HIDE DEF T
  <2>1. \A k \in 0..Len(q) : k \in T
    BY <1>1, <1>2, <1>3, Assumptions, SP!UpTo
  <2>. QED  BY <1>1, <2>1
<1>5. PICK g : PicksTo(q, R, g, Len(q))
  BY <1>4
<1>6. Picks(q, R, g)
  BY <1>5 DEF PicksTo, Picks
<1>. QED  BY <1>6

LEMMA AppendNew ==
  ASSUME NEW q \in Seq(Requests), IsInjective(q), NEW r \in Requests, r \notin ToSet(q)
  PROVE  /\ Append(q, r) \in Seq(Requests)
         /\ IsInjective(Append(q, r))
         /\ ToSet(Append(q, r)) = ToSet(q) \cup {r}
<1>1. SP!IsInjective(q) /\ r \notin SP!ToSet(q)
  BY DEF SP!IsInjective, IsInjective, SP!ToSet, ToSet
<1>2. /\ Append(q, r) \in Seq(Requests)
      /\ SP!IsInjective(Append(q, r))
      /\ SP!ToSet(Append(q, r)) = SP!ToSet(q) \cup {r}
  BY <1>1, Assumptions, SP!AppendMember
<1>. QED  BY <1>2 DEF SP!IsInjective, IsInjective, SP!ToSet, ToSet

LEMMA InOrderRows ==
  ASSUME NEW q \in Seq(Requests), IsInjective(q), NEW R
  PROVE  /\ InOrder(q, R) \in Seq(Requests)
         /\ IsInjective(InOrder(q, R))
         /\ ToSet(InOrder(q, R)) = ToSet(q) \cap R
<1>. DEFINE g == CHOOSE g : Picks(q, R, g)
            T == {i \in 0..Len(q) : /\ g[i] \in Seq(Requests) /\ IsInjective(g[i])
                                    /\ ToSet(g[i]) = {q[j] : j \in 1..i} \cap R}
<1>1. Len(q) \in Nat /\ DOMAIN q = 1..Len(q) /\ \A i \in 1..Len(q) : q[i] \in Requests
  BY LenProperties, ElementOfSeq
<1>2. InOrder(q, R) = g[Len(q)]
  BY DEF InOrder, Picks, Pick
<1>3. Picks(q, R, g)
  BY PicksExist
<1>. HIDE DEF g
<1>4. ASSUME NEW i \in 0..Len(q) PROVE g[i] = Pick(q, R, g, i)
  BY <1>3 DEF Picks
<1>5. 0 \in T
  <2>1. <<>> \in Seq(Requests) /\ IsInjective(<<>>) /\ ToSet(<<>>) = {}
    BY EmptySeq DEF ToSet, IsInjective
  <2>2. {q[j] : j \in 1..0} = {}
    OBVIOUS
  <2>3. 0 \in 0..Len(q)
    BY <1>1
  <2>4. g[0] = <<>>
    BY <1>4, <2>3 DEF Pick
  <2>5. ToSet(g[0]) = {q[j] : j \in 1..0} \cap R
    BY <2>1, <2>2, <2>4
  <2>. QED  BY <2>1, <2>3, <2>4, <2>5
<1>6. ASSUME NEW k \in 0..(Len(q) - 1), k \in T PROVE k + 1 \in T
  <2>1. k + 1 \in 1..Len(q) /\ k + 1 \in 0..Len(q) /\ (k + 1) - 1 = k /\ k + 1 # 0
    BY <1>1
  <2>2. {q[j] : j \in 1..(k + 1)} = {q[j] : j \in 1..k} \cup {q[k + 1]}
    BY <2>1
  <2>3. g[k + 1] = IF q[k + 1] \in R THEN Append(g[k], q[k + 1]) ELSE g[k]
    BY <1>4, <2>1 DEF Pick
  <2>4. CASE q[k + 1] \in R
    <3>1. q[k + 1] \notin ToSet(g[k])
      <4>1. ASSUME NEW j \in 1..k, q[j] = q[k + 1] PROVE FALSE
        BY <1>1, <2>1, <4>1 DEF IsInjective
      <4>. QED  BY <1>6, <4>1
    <3>2. g[k] \in Seq(Requests) /\ IsInjective(g[k]) /\ q[k + 1] \in Requests
      BY <1>1, <1>6, <2>1
    <3>3. /\ g[k + 1] \in Seq(Requests)
          /\ IsInjective(g[k + 1])
          /\ ToSet(g[k + 1]) = ToSet(g[k]) \cup {q[k + 1]}
      BY <2>3, <2>4, <3>1, <3>2, AppendNew
    <3>4. ToSet(g[k + 1]) = {q[j] : j \in 1..(k + 1)} \cap R
      BY <1>6, <2>2, <2>4, <3>3
    <3>. QED  BY <2>1, <3>3, <3>4
  <2>5. CASE q[k + 1] \notin R
    BY <1>6, <2>1, <2>2, <2>3, <2>5
  <2>. QED  BY <2>4, <2>5
<1>7. Len(q) \in T
  <2>. HIDE DEF T
  <2>1. \A k \in 0..Len(q) : k \in T
    BY <1>1, <1>5, <1>6, Assumptions, SP!UpTo
  <2>. QED  BY <1>1, <2>1
<1>8. ToSet(q) = {q[j] : j \in 1..Len(q)}
  BY <1>1 DEF ToSet
<1>. QED  BY <1>2, <1>7, <1>8

-----------------------------------------------------------------------------
(* The inductive invariant.  BooksRight holds only as long as every call is
   made for a slot of the cache and a prompt is registered once it is cached;
   so the invariant says which requests the rows of a step are, and how far
   the cursors of their slots are. *)

Engaged == {"prepare", "load", "reset", "decode", "forward", "sample", "advance"}
Reporting == {"report", "insert", "token"}

StepTyped ==
  /\ slot_prepared \in [Requests -> BOOLEAN]
  /\ config \in [concurrent : 1..BatchSize, budget : Budgets, chunk : Chunks]
  /\ pc \in {"idle", "raised"} \cup Engaged \cup Reporting
  /\ rows \in Seq(Requests)
  /\ at \in 1..(Len(rows) + 1)
  /\ layer \in Layers

SameLimits ==
  config.budget = max_tokens_per_step /\ config.concurrent = max_concurrent_requests

(* The rows still to be worked on are running requests, each once. *)
RowsRun ==
  /\ IsInjective(rows)
  /\ \A i \in DOMAIN rows :
       pc \in Engaged \/ (pc \in Reporting /\ i >= at) => rows[i] \in ToSet(running)

(* A batch is of one kind, and a prefill row stays one until its turn to be
   reported. *)
Batches ==
  /\ \A r \in decode_requests : state[r] = "decode" /\ r \notin prefill_requests
  /\ \A i \in DOMAIN rows :
       /\ pc \in {"prepare", "load", "reset", "advance"} => IsPrefill(rows[i])
       /\ pc \in {"report", "insert"} /\ i >= at => IsPrefill(rows[i])
       /\ pc = "decode" => rows[i] \in decode_requests
  /\ pc = "sample" => at = 1 /\ rows # <<>>
  /\ pc \in {"forward", "sample"} =>
       \/ \A i \in DOMAIN rows : IsPrefill(rows[i])
       \/ \A i \in DOMAIN rows : rows[i] \in decode_requests
  /\ pc = "token" =>
       \/ /\ at \in DOMAIN rows /\ Row \in prefill_requests
          /\ \A i \in DOMAIN rows : i > at => IsPrefill(rows[i])
       \/ \A i \in DOMAIN rows : i >= at => rows[i] \in decode_requests

(* A lookup or an insert is for the row the step is at. *)
CallOfRow ==
  call # C!Idle =>
    /\ EnablePrefixCache
    /\ pc = IF call.op = "lookup" THEN "load" ELSE "insert"
    /\ at \in DOMAIN rows
    /\ call.slot = RowSlot /\ call.tokens = Prompt[Row]

OffsetsFit ==
  \A r \in Requests :
    /\ prefill_offset[r] <= Len(Prompt[r])
    /\ state[r] \in {"new", "waiting"} => prefill_offset[r] = 0

(* Row i of the batch is in the cache, in every layer. *)
Stored(i) ==
  \/ pc = "forward" /\ layer = NumLayers - 1 /\ i < at
  \/ pc = "sample"
  \/ pc = "advance" /\ i >= at

(* Row i has been moved on, or is still to be reported. *)
Moved(i) ==
  \/ pc = "advance" /\ i < at
  \/ pc \in Reporting /\ i >= at

(* What a request counts as prefilled is in the cache; so is the chunk of a
   row the model has been through; and a row that a token is due for has all
   of its prompt there. *)
CursorReached == \A r \in ToSet(running) : prefill_offset[r] <= pos[batch_idx[r]]
ChunksStored ==
  \A i \in DOMAIN rows : Stored(i) /\ IsPrefill(rows[i]) =>
    prefill_offset[rows[i]] + S!ChunkTokens(rows[i]) <= pos[batch_idx[rows[i]]]
PromptsRead ==
  \A i \in DOMAIN rows : Moved(i) /\ IsPrefill(rows[i]) /\ rows[i] \in prefill_requests =>
    prefill_offset[rows[i]] >= Len(Prompt[rows[i]])

StepInv == /\ StepTyped /\ SameLimits /\ RowsRun /\ Batches /\ CallOfRow /\ OffsetsFit
           /\ CursorReached /\ ChunksStored /\ PromptsRead

IInv == SP!IInv /\ CacheInv /\ StepInv

(* What IInv says of the components, in the engine's terms. *)
LEMMA Known == ASSUME IInv PROVE SchedulerBooks /\ CacheBooks
BY SchedulerKnown, CacheKnown DEF IInv, CacheInv

LEMMA RowsAreRequests ==
  ASSUME StepTyped
  PROVE  /\ DOMAIN rows = 1..Len(rows) /\ Len(rows) \in Nat /\ at \in Nat \ {0}
         /\ \A i \in DOMAIN rows : rows[i] \in Requests
BY LenProperties, ElementOfSeq DEF StepTyped

(* The row a step is at, and the slot it has. *)
LEMMA RowFacts ==
  ASSUME IInv, at <= Len(rows), pc \in Engaged \cup Reporting
  PROVE  /\ at \in DOMAIN rows /\ Row \in Requests
         /\ Row \in ToSet(running) /\ RowSlot \in Slots
         /\ \A i \in DOMAIN rows : i # at => rows[i] # Row
         /\ \A r \in ToSet(running) : r # Row => batch_idx[r] # RowSlot
<1>1. at \in DOMAIN rows /\ Row \in Requests /\ at \in Nat
  BY RowsAreRequests DEF IInv, StepInv, StepTyped, Row
<1>2. Row \in ToSet(running)
  BY <1>1 DEF IInv, StepInv, RowsRun, Row
<1>3. \A i \in DOMAIN rows : i # at => rows[i] # Row
  BY <1>1 DEF IInv, StepInv, RowsRun, IsInjective, Row
<1>. QED  BY <1>1, <1>2, <1>3, Known DEF SchedulerBooks, RowSlot

(* The chunk of a request: never more than is left of its prompt. *)
LEMMA ChunkFits ==
  ASSUME IInv, NEW r \in Requests
  PROVE  /\ S!ChunkTokens(r) \in Nat
         /\ prefill_offset[r] + S!ChunkTokens(r) <= Len(Prompt[r])
         /\ prefill_offset[r] \in Nat
<1>1. /\ prefill_offset[r] \in Nat /\ prefill_chunk_size[r] \in Nat \ {0}
      /\ prefill_offset[r] <= Len(Prompt[r]) /\ Len(Prompt[r]) \in Nat
  BY Known, PromptLengths, SettingsAssumption DEF SchedulerBooks, IInv, StepInv, OffsetsFit
<1>. QED  BY <1>1 DEF S!ChunkTokens

-----------------------------------------------------------------------------
(* Steps that call neither component. *)

LEMMA QuietKeeps ==
  ASSUME IInv, UNCHANGED <<schedulerVars, cacheVars>>, StepInv'
  PROVE  IInv'
BY SchedulerStays, CacheStays DEF IInv

LEMMA EmbedRowsKeeps == ASSUME IInv, EmbedRows PROVE IInv'
<1>1. /\ UNCHANGED <<schedulerVars, cacheVars, slot_prepared, config, rows, layer>>
      /\ at' = 1 /\ pc' \in {"forward", "raised"}
      /\ \/ pc = "prepare" /\ rows # <<>>
         \/ pc = "decode"
  BY DEF EmbedRows, PastRows
<1>2. StepTyped' /\ SameLimits' /\ OffsetsFit'
  BY <1>1, RowsAreRequests DEF IInv, StepInv, StepTyped, SameLimits, OffsetsFit, schedulerVars,
     Engaged, Reporting
<1>3. RowsRun' /\ Batches'
  BY <1>1 DEF IInv, StepInv, RowsRun, Batches, schedulerVars, Engaged, Reporting, IsPrefill, Row
<1>4. CallOfRow' /\ CursorReached' /\ ChunksStored' /\ PromptsRead'
  BY <1>1, RowsAreRequests DEF IInv, StepInv, StepTyped, CallOfRow, CursorReached, ChunksStored, PromptsRead, Moved,
     schedulerVars, cacheVars, Engaged, Reporting, Stored, IsPrefill
<1>. QED  BY <1>1, <1>2, <1>3, <1>4, QuietKeeps DEF StepInv

LEMMA SampleKeeps == ASSUME IInv, Sample PROVE IInv'
<1>1. /\ UNCHANGED <<schedulerVars, cacheVars, slot_prepared, config, rows, at, layer>>
      /\ pc = "sample"
      /\ \/ pc' = "raised"
         \/ pc' = "advance" /\ IsPrefill(Row)
         \/ pc' = "token" /\ ~IsPrefill(Row)
  BY DEF Sample
<1>2. StepTyped' /\ SameLimits' /\ OffsetsFit'
  BY <1>1 DEF IInv, StepInv, StepTyped, SameLimits, OffsetsFit, schedulerVars,
     Engaged, Reporting
<1>3. RowsRun'
  BY <1>1 DEF IInv, StepInv, RowsRun, schedulerVars, Engaged, Reporting
<1>4. at = 1 /\ 1 \in DOMAIN rows
  BY <1>1, RowsAreRequests, EmptySeq, LenProperties DEF IInv, StepInv, StepTyped, Batches
<1>5. Batches'
  BY <1>1, <1>4 DEF IInv, StepInv, Batches, schedulerVars, IsPrefill, Row
<1>6. CallOfRow'
  BY <1>1 DEF IInv, StepInv, CallOfRow, cacheVars
<1>7. CursorReached' /\ ChunksStored' /\ PromptsRead'
  <2>1. \A i \in DOMAIN rows : i >= 1
    BY RowsAreRequests DEF IInv, StepInv
  <2>2. pc' = "token" => \A i \in DOMAIN rows : ~IsPrefill(rows[i])
    BY <1>1, <1>4 DEF IInv, StepInv, Batches, IsPrefill, Row
  <2>3. CursorReached'
    BY <1>1 DEF IInv, StepInv, CursorReached, schedulerVars, cacheVars
  <2>4. ChunksStored'
    BY <1>1 DEF IInv, StepInv, ChunksStored, Stored, Reporting, schedulerVars, cacheVars,
       IsPrefill, S!ChunkTokens
  <2>5. PromptsRead'
    BY <1>1, <1>4, <2>1, <2>2, RowsAreRequests DEF PromptsRead, Moved, Reporting, schedulerVars, IsPrefill,
       IInv, StepInv
  <2>. QED  BY <2>3, <2>4, <2>5
<1>. QED  BY <1>1, <1>2, <1>3, <1>5, <1>6, <1>7, QuietKeeps DEF StepInv

LEMMA SkipRowKeeps == ASSUME IInv, SkipRow PROVE IInv'
<1>1. /\ UNCHANGED <<schedulerVars, cacheVars, slot_prepared, config, rows, layer>>
      /\ pc = "report" /\ pc' = "report" /\ at <= Len(rows) /\ at' = at + 1
  BY DEF SkipRow, AtRow, NextRow
<1>2. StepTyped' /\ SameLimits' /\ OffsetsFit'
  BY <1>1, RowsAreRequests DEF IInv, StepInv, StepTyped, SameLimits, OffsetsFit, schedulerVars,
     Engaged, Reporting
<1>3. RowsRun' /\ Batches'
  BY <1>1, RowsAreRequests DEF IInv, StepInv, StepTyped, RowsRun, Batches, schedulerVars, Engaged, Reporting,
     IsPrefill, Row
<1>4. CallOfRow' /\ CursorReached' /\ ChunksStored' /\ PromptsRead'
  BY <1>1, RowsAreRequests DEF IInv, StepInv, CallOfRow, CursorReached, ChunksStored, PromptsRead, Moved,
     schedulerVars, cacheVars, Reporting, Stored, IsPrefill
<1>. QED  BY <1>1, <1>2, <1>3, <1>4, QuietKeeps DEF StepInv

LEMMA EndDecodeKeeps == ASSUME IInv, EndDecode PROVE IInv'
<1>1. /\ UNCHANGED <<schedulerVars, cacheVars, slot_prepared, config, layer>>
      /\ pc = "token" /\ pc' = "idle" /\ rows' = <<>> /\ at' = 1
  BY DEF EndDecode, PastRows
<1>2. rows' \in Seq(Requests) /\ DOMAIN rows' = {} /\ IsInjective(rows') /\ Len(rows') = 0
  BY <1>1, EmptySeq DEF IsInjective
<1>3. StepTyped' /\ SameLimits' /\ OffsetsFit'
  BY <1>1, <1>2 DEF IInv, StepInv, StepTyped, SameLimits, OffsetsFit, schedulerVars
<1>4. RowsRun' /\ Batches'
  BY <1>1, <1>2 DEF IInv, StepInv, RowsRun, Batches, schedulerVars
<1>5. CallOfRow' /\ CursorReached' /\ ChunksStored' /\ PromptsRead'
  BY <1>1, <1>2 DEF IInv, StepInv, CallOfRow, CursorReached, ChunksStored, PromptsRead, Moved, schedulerVars, cacheVars
<1>. QED  BY <1>1, <1>3, <1>4, <1>5, QuietKeeps DEF StepInv

LEMMA EndPrefillKeeps == ASSUME IInv, EndPrefill PROVE IInv'
<1>1. /\ UNCHANGED <<schedulerVars, cacheVars, slot_prepared, config, layer>>
      /\ pc \in {"report", "prepare"} /\ pc' \in {"idle", "decode"} /\ at' = 1
      /\ rows' = InOrder(running, decode_requests)
  BY DEF EndPrefill, PastRows
<1>2. /\ rows' \in Seq(Requests) /\ IsInjective(rows')
      /\ ToSet(rows') = ToSet(running) \cap decode_requests
  BY <1>1, Known, InOrderRows DEF SchedulerBooks
<1>3. \A i \in DOMAIN rows' : rows'[i] \in ToSet(running) /\ rows'[i] \in decode_requests
  BY <1>2 DEF ToSet
<1>4. StepTyped' /\ SameLimits' /\ OffsetsFit'
  BY <1>1, <1>2, LenProperties DEF IInv, StepInv, StepTyped, SameLimits, OffsetsFit, schedulerVars,
     Engaged
<1>5. RowsRun' /\ Batches'
  BY <1>1, <1>2, <1>3 DEF IInv, StepInv, RowsRun, Batches, schedulerVars, Reporting
<1>6. CallOfRow' /\ CursorReached' /\ ChunksStored' /\ PromptsRead'
  BY <1>1, <1>2 DEF IInv, StepInv, CallOfRow, CursorReached, ChunksStored, PromptsRead, Moved, schedulerVars, cacheVars, Stored, Reporting
<1>. QED  BY <1>1, <1>4, <1>5, <1>6, QuietKeeps DEF StepInv

-----------------------------------------------------------------------------
(* Between steps, and the start of one. *)

(* What schedule() does, as the engine sees it. *)
LEMMA ScheduleEffect ==
  ASSUME IInv, S!Schedule
  PROVE  /\ SP!IInv' /\ SchedulerBooks'
         /\ UNCHANGED <<max_concurrent_requests, max_tokens_per_step, prefill_offset,
                        prefill_chunk_size, completed, failed, num_generated>>
         /\ \E A \in SUBSET ToSet(waiting) :
              /\ ToSet(running') = ToSet(running) \cup A
              /\ \A r \in Requests : state'[r] = IF r \in A THEN "prefill" ELSE state[r]
              /\ \A r \in Requests \ A : batch_idx'[r] = batch_idx[r]
         /\ \A r \in prefill_requests' : state'[r] = "prefill"
         /\ \A r \in decode_requests' : state'[r] = "decode"
<1>1. SP!Schedule
  BY SameSchedule
<1>2. SP!IInv' /\ SchedulerBooks'
  BY <1>1, Assumptions, SP!ScheduleKeeps, SchedulerKnownNext DEF IInv
<1>3. UNCHANGED <<max_concurrent_requests, max_tokens_per_step, prefill_offset,
                  prefill_chunk_size, completed, failed, num_generated>>
  BY <1>1 DEF SP!Schedule, SP!limitVars
<1>4. PICK A \in SUBSET SP!ToSet(waiting), G \in SUBSET SP!ToSet(free_slots) :
        /\ SP!ToSet(running') = SP!ToSet(running) \cup A
        /\ \A r \in Requests : state'[r] = IF r \in A THEN "prefill" ELSE state[r]
        /\ \A r \in Requests \ A : batch_idx'[r] = batch_idx[r]
  <2>1. SP!AssignWaitingToSlots
    BY <1>1 DEF SP!Schedule
  <2>. QED  BY <2>1, Assumptions, SP!AssignPairs DEF IInv
<1>5. /\ A \in SUBSET ToSet(waiting)
      /\ ToSet(running') = ToSet(running) \cup A
  BY <1>4 DEF SP!ToSet, ToSet
<1>6. \A r \in prefill_requests' : state'[r] = "prefill"
  BY <1>1 DEF SP!Schedule, SP!PrefillRows
<1>7. \A r \in decode_requests' : state'[r] = "decode"
  BY <1>1 DEF SP!Schedule, SP!DecodeRows
<1>. QED  BY <1>2, <1>3, <1>4, <1>5, <1>6, <1>7

LEMMA BeginStepKeeps == ASSUME IInv, BeginStep PROVE IInv'
<1>1. /\ pc = "idle" /\ pc' = "prepare" /\ at' = 1 /\ layer' = 0 /\ S!Schedule
      /\ rows' = InOrder(running', prefill_requests')
      /\ UNCHANGED <<cacheVars, slot_prepared, config>>
  BY DEF BeginStep
<1>2. /\ SP!IInv' /\ SchedulerBooks'
      /\ UNCHANGED <<max_concurrent_requests, max_tokens_per_step, prefill_offset,
                     prefill_chunk_size>>
      /\ \A r \in prefill_requests' : state'[r] = "prefill"
      /\ \A r \in decode_requests' : state'[r] = "decode"
  BY <1>1, ScheduleEffect
<1>3. PICK A \in SUBSET ToSet(waiting) :
        /\ ToSet(running') = ToSet(running) \cup A
        /\ \A r \in Requests : state'[r] = IF r \in A THEN "prefill" ELSE state[r]
        /\ \A r \in Requests \ A : batch_idx'[r] = batch_idx[r]
  BY <1>1, ScheduleEffect
<1>4. CacheInv' /\ CacheBooks
  BY <1>1, CacheStays, Known DEF IInv
<1>5. /\ rows' \in Seq(Requests) /\ IsInjective(rows')
      /\ ToSet(rows') = ToSet(running') \cap prefill_requests'
  BY <1>1, <1>2, InOrderRows DEF SchedulerBooks
<1>6. \A i \in DOMAIN rows' : /\ rows'[i] \in ToSet(running')
                              /\ rows'[i] \in prefill_requests'
  BY <1>5 DEF ToSet
<1>7. StepTyped' /\ SameLimits'
  BY <1>1, <1>2, <1>5, LenProperties, CacheAssumption DEF IInv, StepInv, StepTyped, SameLimits,
     Engaged, Layers
<1>8. RowsRun' /\ Batches'
  BY <1>1, <1>2, <1>5, <1>6 DEF RowsRun, Batches, Reporting, IsPrefill
<1>9. \A r \in A : r \in Requests /\ prefill_offset[r] = 0
  BY <1>3, Known DEF SchedulerBooks, IInv, StepInv, OffsetsFit, ToSet
<1>10. OffsetsFit'
  BY <1>2, <1>3 DEF OffsetsFit, IInv, StepInv
<1>11. CursorReached'
  <2>. SUFFICES ASSUME NEW r \in ToSet(running')
                PROVE  prefill_offset[r] <= pos[batch_idx'[r]]
    BY <1>1, <1>2 DEF CursorReached, cacheVars
  <2>1. CASE r \in A
    <3>1. batch_idx'[r] \in Slots
      BY <1>2 DEF SchedulerBooks
    <3>. QED  BY <1>4, <1>9, <2>1, <3>1 DEF CacheBooks
  <2>2. CASE r \notin A
    BY <1>3, <2>2, Known DEF IInv, StepInv, CursorReached, SchedulerBooks
  <2>. QED  BY <2>1, <2>2
<1>12. CallOfRow' /\ ChunksStored' /\ PromptsRead'
  BY <1>1 DEF IInv, StepInv, CallOfRow, ChunksStored, PromptsRead, Stored, Moved, Reporting, cacheVars
<1>. QED  BY <1>2, <1>4, <1>7, <1>8, <1>10, <1>11, <1>12 DEF IInv, StepInv

(* Between steps no row matters: what is left of the invariant then. *)
LEMMA IdleKeeps ==
  ASSUME IInv, pc = "idle", UNCHANGED <<cacheVars, slot_prepared, stepVars>>,
         SP!IInv', SameLimits', OffsetsFit', CursorReached',
         config' \in [concurrent : 1..BatchSize, budget : Budgets, chunk : Chunks],
         \A r \in decode_requests' : state'[r] = "decode" /\ r \notin prefill_requests'
  PROVE  IInv'
<1>1. StepTyped' /\ RowsRun' /\ Batches'
  BY DEF IInv, StepInv, StepTyped, RowsRun, Batches, stepVars, Engaged, Reporting
<1>2. CallOfRow' /\ ChunksStored' /\ PromptsRead'
  BY DEF IInv, StepInv, CallOfRow, ChunksStored, PromptsRead, Stored, Moved, Reporting,
         stepVars, cacheVars
<1>. QED  BY <1>1, <1>2, CacheStays DEF IInv, StepInv

LEMMA AddRequestKeeps == ASSUME IInv, NEW r \in Requests, AddRequest(r) PROVE IInv'
<1>1. pc = "idle" /\ S!AddRequest(r, config.chunk)
      /\ UNCHANGED <<cacheVars, slot_prepared, config, stepVars>>
  BY DEF AddRequest
<1>2. config \in [concurrent : 1..BatchSize, budget : Budgets, chunk : Chunks]
  BY DEF IInv, StepInv, StepTyped
<1>3. SP!IInv'
  BY <1>1, <1>2, SameAddRequest, Assumptions, SP!AddRequestKeeps DEF IInv
<1>4. /\ state' = [state EXCEPT ![r] = "waiting"] /\ state[r] = "new"
      /\ UNCHANGED <<max_concurrent_requests, max_tokens_per_step, running, batch_idx,
                     prefill_offset, prefill_requests, decode_requests>>
      /\ decode_requests = {}
  BY <1>1 DEF S!AddRequest, S!limitVars, S!batchVars, S!BetweenSteps
<1>5. SameLimits' /\ OffsetsFit' /\ CursorReached'
  BY <1>1, <1>4, Known DEF IInv, StepInv, SameLimits, OffsetsFit, CursorReached, cacheVars,
     SchedulerBooks
<1>. QED  BY <1>1, <1>2, <1>3, <1>4, <1>5, IdleKeeps

(* A request cancelled is finished and has no slot; nothing else moves. *)
LEMMA CancelEffect ==
  ASSUME IInv, NEW r \in Requests, Cancel(r)
  PROVE  /\ pc = "idle" /\ SP!IInv' /\ SchedulerBooks'
         /\ UNCHANGED <<cacheVars, slot_prepared, config, stepVars>>
         /\ UNCHANGED <<max_concurrent_requests, max_tokens_per_step, prefill_offset,
                        num_generated, prefill_requests, decode_requests>>
         /\ decode_requests = {}
         /\ batch_idx'[r] = -1 /\ ToSet(running') \subseteq ToSet(running)
         /\ \A t \in Requests \ {r} : batch_idx'[t] = batch_idx[t] /\ state'[t] = state[t]
         /\ state'[r] = "finished"
<1>1. /\ pc = "idle" /\ state[r] \in {"waiting", "prefill", "decode"} /\ S!CancelRequest(r)
      /\ UNCHANGED <<slot_prepared, config, stepVars>>
  BY DEF Cancel
<1>2. SP!CancelRequest(r)
  BY <1>1, SameCancel
<1>3. SP!IInv' /\ SchedulerBooks'
  BY <1>2, Assumptions, SP!CancelRequestKeeps, SchedulerKnownNext DEF IInv
<1>4. /\ UNCHANGED <<max_concurrent_requests, max_tokens_per_step, prefill_offset,
                     num_generated, prefill_requests, decode_requests>>
      /\ decode_requests = {}
  BY <1>1 DEF S!CancelRequest, S!limitVars, S!batchVars, S!BetweenSteps
<1>5. /\ batch_idx'[r] = -1 /\ ToSet(running') \subseteq ToSet(running)
      /\ \A t \in Requests \ {r} : batch_idx'[t] = batch_idx[t] /\ state'[t] = state[t]
      /\ state'[r] = "finished"
  <2>1. CASE SP!CancelWaiting(r)
    <3>1. state' = [state EXCEPT ![r] = "finished"] /\ UNCHANGED <<running, batch_idx>>
      BY <2>1 DEF SP!CancelWaiting
    <3>2. r \in SP!ToSet(waiting)
      BY <2>1 DEF SP!CancelWaiting, SP!ToSet
    <3>3. r \in ToSet(waiting)
      BY <3>2 DEF SP!ToSet, ToSet
    <3>. QED  BY <3>1, <3>3, Known DEF SchedulerBooks
  <2>2. CASE SP!CancelRunning(r)
    <3>1. SP!LeaveRunning(r)
      BY <2>2 DEF SP!CancelRunning
    <3>2. /\ SP!ToSet(running') = SP!ToSet(running) \ {r}
          /\ \A t \in Requests : state'[t] = IF t = r THEN "finished" ELSE state[t]
          /\ \A t \in Requests : batch_idx'[t] = IF t = r THEN SP!NoSlot ELSE batch_idx[t]
      BY <3>1, Assumptions, SP!LeavesRunning DEF IInv
    <3>. QED  BY <3>2 DEF SP!ToSet, ToSet, SP!NoSlot
  <2>3. CASE SP!CancelUnknown(r)
    <3>1. r \notin SP!ToSet(waiting) /\ r \notin SP!ToSet(running)
      BY <2>3 DEF SP!CancelUnknown
    <3>2. r \notin ToSet(waiting) /\ r \notin ToSet(running)
      BY <3>1 DEF SP!ToSet, ToSet
    <3>. QED  BY <1>1, <3>2, Known DEF SchedulerBooks
  <2>. QED  BY <1>2, <2>1, <2>2, <2>3 DEF SP!CancelRequest
<1>6. UNCHANGED cacheVars
  BY <1>5 DEF Cancel, S!NoSlot
<1>. QED  BY <1>1, <1>3, <1>4, <1>5, <1>6

LEMMA CancelKeeps == ASSUME IInv, NEW r \in Requests, Cancel(r) PROVE IInv'
<1>1. /\ pc = "idle" /\ SP!IInv' /\ SchedulerBooks'
      /\ UNCHANGED <<cacheVars, slot_prepared, config, stepVars>>
      /\ UNCHANGED <<max_concurrent_requests, max_tokens_per_step, prefill_offset,
                     num_generated, prefill_requests, decode_requests>>
      /\ decode_requests = {}
      /\ batch_idx'[r] = -1 /\ ToSet(running') \subseteq ToSet(running)
      /\ \A t \in Requests \ {r} : batch_idx'[t] = batch_idx[t] /\ state'[t] = state[t]
      /\ state'[r] = "finished"
  BY CancelEffect
<1>2. SameLimits' /\ OffsetsFit'
  BY <1>1 DEF IInv, StepInv, SameLimits, OffsetsFit
<1>3. CursorReached'
  <2>1. ASSUME NEW t \in ToSet(running') PROVE t \in Requests /\ t # r /\ t \in ToSet(running)
    BY <1>1, SettingsAssumption DEF SchedulerBooks, Slots
  <2>. QED  BY <1>1, <2>1 DEF IInv, StepInv, CursorReached, cacheVars
<1>. QED  BY <1>1, <1>2, <1>3, IdleKeeps DEF IInv, StepInv, StepTyped

LEMMA ReconfigureKeeps ==
  ASSUME IInv, NEW chunk \in Chunks, NEW tokens \in Budgets, NEW new \in Concurrencies,
         Reconfigure(chunk, tokens, new)
  PROVE  IInv'
<1>1. /\ pc = "idle" /\ new > 0 /\ SP!Reconfigure(tokens, new, TRUE)
      /\ config' = [concurrent |-> IF rejected' THEN config.concurrent ELSE new,
                    budget |-> tokens, chunk |-> chunk]
      /\ UNCHANGED <<cacheVars, slot_prepared, stepVars>>
  BY SameReconfigure DEF Reconfigure
<1>2. /\ max_tokens_per_step' = tokens /\ decode_requests = {}
      /\ UNCHANGED <<waiting, running, completed, failed, state, batch_idx, prefill_offset,
                     prefill_chunk_size, num_generated, prefill_requests, decode_requests>>
  BY <1>1, SettingsAssumption DEF SP!Reconfigure, SP!placeVars, SP!batchVars, SP!BetweenSteps
<1>3. \/ rejected' = TRUE /\ UNCHANGED <<max_concurrent_requests, free_slots>>
      \/ rejected' = FALSE /\ max_concurrent_requests' = new /\ new \in 1..BatchSize
  <2>1. new \in Nat /\ max_concurrent_requests \in 1..BatchSize /\ BatchSize \in Nat
    BY Known, SettingsAssumption DEF SchedulerBooks
  <2>2. rejected' \in BOOLEAN
    BY <1>1 DEF SP!Reconfigure
  <2>3. CASE rejected' = TRUE
    BY <1>1, <2>3 DEF SP!Reconfigure
  <2>4. CASE rejected' = FALSE
    <3>1. ~SP!CannotApply(new, TRUE) /\ SP!ApplyMaxConcurrent(new)
      BY <1>1, <2>4 DEF SP!Reconfigure
    <3>2. new \in 1..BatchSize
      BY <1>1, <2>1, <3>1 DEF SP!CannotApply
    <3>3. max_concurrent_requests' = new
      BY <3>1 DEF SP!ApplyMaxConcurrent
    <3>. QED  BY <2>4, <3>2, <3>3
  <2>. QED  BY <2>2, <2>3, <2>4
<1>4. SP!IInv'
  <2>1. CASE new \in 0..BatchSize
    BY <1>1, <2>1, Assumptions, SP!ReconfigureKeeps DEF IInv
  <2>2. CASE new \notin 0..BatchSize
    <3>1. rejected' = TRUE /\ UNCHANGED <<max_concurrent_requests, free_slots>>
      BY <1>3, <2>2, SettingsAssumption
    <3>2. SP!TypeOK'
      <4>1. SP!TypeOK
        BY DEF IInv, SP!IInv
      <4>. QED  BY <1>2, <3>1, <4>1 DEF SP!TypeOK
    <3>3. UNCHANGED <<SP!placeVars, free_slots, state, batch_idx, max_concurrent_requests>>
      BY <1>2, <3>1 DEF SP!placeVars
    <3>. QED  BY <3>2, <3>3, Assumptions, SP!QuietKeeps DEF IInv
  <2>. QED  BY <2>1, <2>2
<1>5. config \in [concurrent : 1..BatchSize, budget : Budgets, chunk : Chunks]
      /\ config.budget = max_tokens_per_step /\ config.concurrent = max_concurrent_requests
  BY DEF IInv, StepInv, StepTyped, SameLimits
<1>6. config' \in [concurrent : 1..BatchSize, budget : Budgets, chunk : Chunks]
  BY <1>1, <1>3, <1>5
<1>7. SameLimits' /\ OffsetsFit' /\ CursorReached'
  BY <1>1, <1>2, <1>3, <1>5 DEF IInv, StepInv, SameLimits, OffsetsFit, CursorReached, cacheVars
<1>. QED  BY <1>1, <1>2, <1>4, <1>6, <1>7, IdleKeeps

-----------------------------------------------------------------------------
(* Preparing the rows of a prefill batch. *)

(* A step of these may move a cursor and an offset, of the row it is at. *)
LEMMA PrepareKeeps ==
  ASSUME IInv, pc \in {"prepare", "load", "reset"}, at <= Len(rows),
         pc' \in {"prepare", "load", "reset", "raised"}, at' \in {at, at + 1},
         UNCHANGED <<running, state, batch_idx, prefill_requests, decode_requests,
                     max_concurrent_requests, max_tokens_per_step, config, rows, layer>>,
         SP!IInv', CacheInv', CallOfRow',
         slot_prepared' \in [Requests -> BOOLEAN],
         \A r \in Requests \ {Row} : prefill_offset'[r] = prefill_offset[r],
         \A s \in Slots \ {RowSlot} : pos'[s] = pos[s],
         prefill_offset'[Row] <= Len(Prompt[Row]), prefill_offset'[Row] <= pos'[RowSlot]
  PROVE  IInv'
<1>1. /\ at \in DOMAIN rows /\ Row \in Requests
      /\ Row \in ToSet(running) /\ RowSlot \in Slots
      /\ \A r \in ToSet(running) : r # Row => batch_idx[r] # RowSlot
      /\ at \in Nat /\ Len(rows) \in Nat
  BY RowFacts, RowsAreRequests DEF Engaged, IInv, StepInv
<1>2. StepTyped' /\ SameLimits'
  BY <1>1 DEF IInv, StepInv, StepTyped, SameLimits, Engaged, Reporting
<1>3. RowsRun' /\ Batches'
  BY DEF IInv, StepInv, RowsRun, Batches, Engaged, Reporting, IsPrefill
<1>4. IsPrefill(Row)
  BY <1>1 DEF IInv, StepInv, Batches, Row
<1>5. OffsetsFit'
  BY <1>1, <1>4 DEF IInv, StepInv, OffsetsFit, IsPrefill
<1>6. CursorReached'
  <2>. SUFFICES ASSUME NEW r \in ToSet(running)
                PROVE  prefill_offset'[r] <= pos'[batch_idx[r]]
    BY DEF CursorReached
  <2>1. CASE r = Row
    BY <2>1 DEF RowSlot
  <2>2. CASE r # Row
    <3>1. r \in Requests /\ batch_idx[r] \in Slots \ {RowSlot}
      BY <1>1, <2>2, Known DEF SchedulerBooks
    <3>. QED  BY <2>2, <3>1 DEF IInv, StepInv, CursorReached
  <2>. QED  BY <2>1, <2>2
<1>7. ChunksStored' /\ PromptsRead'
  BY DEF ChunksStored, PromptsRead, Stored, Moved, Reporting
<1>. QED  BY <1>2, <1>3, <1>5, <1>6, <1>7 DEF IInv, StepInv

(* A row whose offset and cursor stay is as good as it was. *)
LEMMA RowIsGood ==
  ASSUME IInv, pc \in {"prepare", "load", "reset"}, at <= Len(rows)
  PROVE  prefill_offset[Row] <= Len(Prompt[Row]) /\ prefill_offset[Row] <= pos[RowSlot]
         /\ slot_prepared \in [Requests -> BOOLEAN]
BY RowFacts DEF Engaged, IInv, StepInv, OffsetsFit, CursorReached, RowSlot, StepTyped

LEMMA PrepareRowKeeps == ASSUME IInv, PrepareRow PROVE IInv'
<1>1. /\ pc = "prepare" /\ at <= Len(rows)
      /\ UNCHANGED <<schedulerVars, slot_prepared, config>>
      /\ \/ pc' = "prepare" /\ at' = at + 1 /\ UNCHANGED <<rows, layer, cacheVars>>
         \/ pc' = "load" /\ UNCHANGED <<rows, at, layer>> /\ C!TryLoadPrefix(RowSlot, Prompt[Row])
  BY DEF PrepareRow, AtRow, NextRow, Goto
<1>2. SP!IInv'
  BY <1>1, SchedulerStays DEF IInv
<1>3. /\ at \in DOMAIN rows /\ Row \in Requests /\ RowSlot \in Slots
  BY <1>1, RowFacts DEF Engaged
<1>4. CacheInv' /\ CallOfRow' /\ UNCHANGED pos
  <2>1. CASE UNCHANGED cacheVars /\ pc' = "prepare"
    <3>1. call = C!Idle
      BY <1>1 DEF IInv, StepInv, CallOfRow
    <3>. QED  BY <2>1, <3>1, CacheStays DEF IInv, CallOfRow, cacheVars
  <2>2. CASE /\ C!TryLoadPrefix(RowSlot, Prompt[Row]) /\ pc' = "load"
             /\ UNCHANGED <<rows, at, layer>>
    <3>1. CP!TryLoadPrefix(RowSlot, Prompt[Row])
      BY <2>2, SameTryLoad
    <3>2. CP!IInv'
      BY <1>3, <3>1, Assumptions, CP!TryLoadPrefixKeeps DEF IInv, CacheInv, Slots
    <3>3. /\ UNCHANGED <<tables, pos>>
          /\ call' = IF EnablePrefixCache
                     THEN [op |-> "lookup", slot |-> RowSlot, tokens |-> Prompt[Row], next |-> 1]
                     ELSE C!Idle
      BY <2>2 DEF C!TryLoadPrefix, C!tableVars, C!Call
    <3>4. Row' = Row /\ RowSlot' = RowSlot
      BY <1>1, <2>2 DEF Row, RowSlot, schedulerVars
    <3>. QED  BY <1>3, <2>2, <3>2, <3>3, <3>4, CoverStays DEF IInv, CallOfRow
  <2>. QED  BY <1>1, <2>1, <2>2
<1>. QED  BY <1>1, <1>2, <1>3, <1>4, RowIsGood, PrepareKeeps DEF schedulerVars

LEMMA LookupBlockKeeps == ASSUME IInv, LookupBlock PROVE IInv'
<1>1. /\ pc = "load" /\ at <= Len(rows) /\ C!MatchBlock
      /\ UNCHANGED <<schedulerVars, slot_prepared, config, pc, rows, at, layer>>
  BY DEF LookupBlock, AtRow, stepVars
<1>2. SP!IInv'
  BY <1>1, SchedulerStays DEF IInv
<1>3. CP!IInv'
  BY <1>1, SameMatch, Assumptions, CP!MatchBlockKeeps DEF IInv, CacheInv
<1>4. /\ UNCHANGED <<tables, pos>> /\ call' = [call EXCEPT !.next = @ + 1] /\ call.op = "lookup"
  BY <1>1 DEF C!MatchBlock, C!tableVars
<1>5. CacheInv'
  BY <1>3, <1>4, CoverStays DEF IInv
<1>6. CallOfRow'
  <2>1. /\ call \in [op : {"lookup", "insert"}, slot : Slots,
                     tokens : {Prompt[r] : r \in Requests}, next : Nat \ {0}]
    BY <1>4, Known DEF CacheBooks, C!Idle
  <2>2. call'.op = call.op /\ call'.slot = call.slot /\ call'.tokens = call.tokens
    BY <1>4, <2>1
  <2>3. call # C!Idle
    BY <1>4 DEF C!Idle
  <2>. QED  BY <1>1, <2>2, <2>3 DEF IInv, StepInv, CallOfRow, Row, RowSlot, schedulerVars
<1>. QED  BY <1>1, <1>2, <1>4, <1>5, <1>6, RowIsGood, PrepareKeeps DEF schedulerVars

(* The call of a lookup that is over, and where its hit takes the cursor. *)
LEMMA LookupFacts ==
  ASSUME IInv, C!LookupOver
  PROVE  /\ call.slot = RowSlot /\ call.tokens = Prompt[Row]
         /\ C!MatchedBlocks * BlockSize \in Nat
         /\ C!MatchedBlocks * BlockSize <= Len(Prompt[Row])
<1>1. call.op = "lookup" /\ call # C!Idle
  BY DEF C!LookupOver, C!Idle
<1>2. call.slot = RowSlot /\ call.tokens = Prompt[Row]
  BY <1>1 DEF IInv, StepInv, CallOfRow
<1>3. call.next \in Nat \ {0} /\ (call.next - 1) * BlockSize <= Len(call.tokens)
  BY <1>1, Known DEF CacheBooks
<1>. QED  BY <1>2, <1>3, CacheAssumption DEF C!MatchedBlocks

LEMMA LoadedPrefixKeeps == ASSUME IInv, LoadedPrefix PROVE IInv'
<1>. DEFINE n == C!MatchedBlocks * BlockSize
<1>1. /\ pc = "load" /\ at <= Len(rows) /\ C!LoadHit
      /\ pc' = "prepare" /\ at' = at + 1 /\ UNCHANGED <<rows, layer>>
      /\ prefill_offset' = [prefill_offset EXCEPT ![Row] = n]
      /\ slot_prepared' = [slot_prepared EXCEPT ![Row] = TRUE]
      /\ UNCHANGED <<max_concurrent_requests, max_tokens_per_step, waiting, running, completed,
                     failed, free_slots, state, batch_idx, prefill_chunk_size, num_generated,
                     prefill_requests, decode_requests, rejected, config>>
  BY DEF LoadedPrefix, AtRow, NextRow
<1>2. /\ C!LookupOver /\ call' = C!Idle
      /\ pos' = [pos EXCEPT ![call.slot] = n]
  BY <1>1 DEF C!LoadHit, C!CursorAfterLoad
<1>3. /\ call.slot = RowSlot /\ n \in Nat /\ n <= Len(Prompt[Row])
  BY <1>2, LookupFacts
<1>4. Row \in Requests /\ RowSlot \in Slots
  BY <1>1, RowFacts DEF Engaged
<1>. HIDE DEF n
<1>5. /\ prefill_offset \in [Requests -> Nat] /\ pos \in [Slots -> 0..MaxSeqLen]
      /\ slot_prepared \in [Requests -> BOOLEAN]
  BY <1>1, Known, RowIsGood DEF SchedulerBooks, CacheBooks
<1>6. SP!IInv'
  <2>1. SP!TypeOK
    BY DEF IInv, SP!IInv
  <2>2. prefill_offset' \in [Requests -> Nat]
    BY <1>1, <1>3, <1>4, <1>5
  <2>3. SP!TypeOK'
    BY <1>1, <2>1, <2>2 DEF SP!TypeOK
  <2>. QED  BY <1>1, <2>3, Assumptions, SP!QuietKeeps DEF SP!placeVars, IInv
<1>7. CacheInv'
  <2>1. CP!LoadHit
    BY <1>1, SameLoad
  <2>. QED  BY <2>1, Assumptions, CP!LoadHitKeeps, CP!LoadHitCovers DEF IInv, CacheInv
<1>8. CallOfRow'
  BY <1>2 DEF CallOfRow
<1>9. /\ slot_prepared' \in [Requests -> BOOLEAN]
      /\ \A r \in Requests \ {Row} : prefill_offset'[r] = prefill_offset[r]
      /\ \A s \in Slots \ {RowSlot} : pos'[s] = pos[s]
      /\ prefill_offset'[Row] = n /\ pos'[RowSlot] = n
  BY <1>1, <1>2, <1>3, <1>4, <1>5
<1>. QED  BY <1>1, <1>3, <1>6, <1>7, <1>8, <1>9, PrepareKeeps

LEMMA PrefixMissedKeeps == ASSUME IInv, PrefixMissed PROVE IInv'
<1>1. /\ pc = "load" /\ at <= Len(rows) /\ pc' = "reset"
      /\ UNCHANGED <<schedulerVars, slot_prepared, config, rows, at, layer>>
      /\ IF EnablePrefixCache THEN C!LoadMiss ELSE UNCHANGED cacheVars
  BY DEF PrefixMissed, AtRow, Goto
<1>2. SP!IInv'
  BY <1>1, SchedulerStays DEF IInv
<1>3. CacheInv' /\ call' = C!Idle /\ UNCHANGED pos
  <2>1. CASE EnablePrefixCache
    <3>1. C!LoadMiss
      BY <1>1, <2>1
    <3>2. CP!IInv'
      BY <3>1, SameLoad, Assumptions, CP!LoadMissKeeps DEF IInv, CacheInv
    <3>3. UNCHANGED <<tables, pos>> /\ call' = C!Idle
      BY <3>1 DEF C!LoadMiss, C!tableVars
    <3>. QED  BY <3>2, <3>3, CoverStays DEF IInv
  <2>2. CASE ~EnablePrefixCache
    <3>1. UNCHANGED cacheVars /\ call = C!Idle
      BY <1>1, <2>2 DEF IInv, StepInv, CallOfRow
    <3>. QED  BY <3>1, CacheStays DEF IInv, cacheVars
  <2>. QED  BY <2>1, <2>2
<1>4. CallOfRow'
  BY <1>3 DEF CallOfRow
<1>. QED  BY <1>1, <1>2, <1>3, <1>4, RowIsGood, PrepareKeeps DEF schedulerVars

LEMMA ResetRowKeeps == ASSUME IInv, ResetRow PROVE IInv'
<1>1. /\ pc = "reset" /\ at <= Len(rows) /\ pc' = "prepare" /\ at' = at + 1
      /\ slot_prepared' = [slot_prepared EXCEPT ![Row] = TRUE]
      /\ UNCHANGED <<schedulerVars, config, rows, layer>>
      /\ IF prefill_offset[Row] = 0 THEN C!ResetSlot(RowSlot) ELSE UNCHANGED cacheVars
  BY DEF ResetRow, AtRow, NextRow
<1>2. SP!IInv'
  BY <1>1, SchedulerStays DEF IInv
<1>3. Row \in Requests /\ RowSlot \in Slots
  BY <1>1, RowFacts DEF Engaged
<1>4. /\ prefill_offset[Row] <= Len(Prompt[Row]) /\ prefill_offset[Row] <= pos[RowSlot]
      /\ slot_prepared \in [Requests -> BOOLEAN] /\ pos \in [Slots -> 0..MaxSeqLen]
  BY <1>1, RowIsGood, Known DEF CacheBooks
<1>5. call = C!Idle
  BY <1>1 DEF IInv, StepInv, CallOfRow
<1>6. /\ CacheInv' /\ call' = C!Idle
      /\ \A s \in Slots \ {RowSlot} : pos'[s] = pos[s]
      /\ prefill_offset[Row] <= pos'[RowSlot]
  <2>1. CASE prefill_offset[Row] = 0
    <3>1. C!ResetSlot(RowSlot)
      BY <1>1, <2>1
    <3>2. CP!ResetSlot(RowSlot)
      BY <3>1, SameReset
    <3>3. CacheInv'
      BY <1>3, <3>2, Assumptions, CP!ResetSlotKeeps, CP!ResetSlotCovers DEF IInv, CacheInv, Slots
    <3>4. pos' = [pos EXCEPT ![RowSlot] = 0] /\ call' = call
      BY <3>1 DEF C!ResetSlot, C!cacheVars
    <3>. QED  BY <1>3, <1>4, <1>5, <2>1, <3>3, <3>4
  <2>2. CASE prefill_offset[Row] # 0
    <3>1. UNCHANGED cacheVars
      BY <1>1, <2>2
    <3>. QED  BY <1>4, <1>5, <3>1, CacheStays DEF IInv, cacheVars
  <2>. QED  BY <2>1, <2>2
<1>7. CallOfRow'
  BY <1>6 DEF CallOfRow
<1>8. slot_prepared' \in [Requests -> BOOLEAN]
  BY <1>1, <1>4
<1>. QED  BY <1>1, <1>2, <1>4, <1>6, <1>7, <1>8, PrepareKeeps DEF schedulerVars

LEMMA PrefixRaisesKeeps == ASSUME IInv, PrefixRaises PROVE IInv'
<1>1. /\ pc = "load" /\ at <= Len(rows) /\ pc' = "raised" /\ C!LoadRejected
      /\ UNCHANGED <<schedulerVars, slot_prepared, config, rows, at, layer>>
  BY DEF PrefixRaises, AtRow, Goto
<1>2. SP!IInv'
  BY <1>1, SchedulerStays DEF IInv
<1>3. CP!IInv'
  BY <1>1, SameLoad, Assumptions, CP!LoadRejectedKeeps DEF IInv, CacheInv
<1>4. UNCHANGED <<tables, pos>> /\ call' = C!Idle
  BY <1>1 DEF C!LoadRejected, C!tableVars
<1>5. CacheInv' /\ CallOfRow'
  BY <1>3, <1>4, CoverStays DEF IInv, CallOfRow
<1>. QED  BY <1>1, <1>2, <1>4, <1>5, RowIsGood, PrepareKeeps DEF schedulerVars

-----------------------------------------------------------------------------
(* The forward pass. *)

(* Finitely many numbers have a largest. *)
LEMMA Largest ==
  ASSUME NEW n \in Nat \ {0}, NEW f \in [1..n -> Nat]
  PROVE  \E i \in 1..n : \A j \in 1..n : f[j] <= f[i]
<1>. DEFINE T == {k \in 0..n : k = 0 \/ \E i \in 1..k : \A j \in 1..k : f[j] <= f[i]}
<1>1. 0 \in T
  OBVIOUS
<1>2. ASSUME NEW k \in 0..(n - 1), k \in T PROVE k + 1 \in T
  <2>1. k + 1 \in 1..n /\ k \in Nat
    OBVIOUS
  <2>2. CASE k = 0
    <3>1. 1 \in 1..(k + 1) /\ \A j \in 1..(k + 1) : f[j] <= f[1]
      BY <2>2
    <3>. QED  BY <2>1, <3>1
  <2>3. CASE k # 0
    <3>1. PICK i \in 1..k : \A j \in 1..k : f[j] <= f[i]
      BY <1>2, <2>3
    <3>2. f[i] \in Nat /\ f[k + 1] \in Nat
      BY <2>1
    <3>3. CASE f[k + 1] <= f[i]
      <4>1. i \in 1..(k + 1) /\ \A j \in 1..(k + 1) : f[j] <= f[i]
        BY <2>1, <3>1, <3>3
      <4>. QED  BY <2>1, <4>1
    <3>4. CASE f[i] < f[k + 1]
      <4>1. ASSUME NEW j \in 1..(k + 1) PROVE f[j] <= f[k + 1]
        <5>1. CASE j = k + 1
          BY <3>2, <5>1
        <5>2. CASE j # k + 1
          <6>1. j \in 1..k /\ f[j] \in Nat /\ f[j] <= f[i]
            BY <2>1, <3>1, <5>2
          <6>. QED  BY <3>2, <3>4, <6>1
        <5>. QED  BY <5>1, <5>2
      <4>2. k + 1 \in 1..(k + 1)
        BY <2>1
      <4>. QED  BY <2>1, <4>1, <4>2
    <3>. QED  BY <3>2, <3>3, <3>4
  <2>. QED  BY <2>2, <2>3
<1>3. n \in T
  <2>. HIDE DEF T
  <2>1. \A k \in 0..n : k \in T
    BY <1>1, <1>2, Assumptions, SP!UpTo
  <2>. QED  BY <2>1
<1>. QED  BY <1>3

LEMMA ValidLenType ==
  ASSUME IInv, NEW r \in Requests
  PROVE  ValidLen(r) \in Nat
BY ChunkFits DEF ValidLen

LEMMA WidthType == ASSUME IInv, rows # <<>> PROVE Width \in Nat
<1>. DEFINE f == [i \in 1..Len(rows) |-> ValidLen(rows[i])]
            D == {ValidLen(rows[i]) : i \in DOMAIN rows}
<1>1. /\ DOMAIN rows = 1..Len(rows) /\ Len(rows) \in Nat \ {0}
      /\ \A i \in DOMAIN rows : rows[i] \in Requests
  BY RowsAreRequests, EmptySeq DEF IInv, StepInv, StepTyped
<1>2. f \in [1..Len(rows) -> Nat]
  BY <1>1, ValidLenType
<1>3. PICK i \in 1..Len(rows) : \A j \in 1..Len(rows) : f[j] <= f[i]
  <2>. HIDE DEF f
  <2>. QED  BY <1>1, <1>2, Largest
<1>4. f[i] \in D /\ f[i] \in Nat /\ \A y \in D : f[i] >= y /\ y \in Nat
  BY <1>1, <1>2, <1>3
<1>5. (CHOOSE x \in D : \A y \in D : x >= y) \in D
  <2>. HIDE DEF D, f
  <2>. QED  BY <1>4
<1>. QED  BY <1>4, <1>5 DEF Width, Max

LEMMA RowTokensType ==
  ASSUME IInv, pc = "forward", at <= Len(rows)
  PROVE  /\ RowTokens(Row) \in Seq(Token \cup {Sampled, Pad})
         /\ Len(RowTokens(Row)) \in Nat
         /\ IsPrefill(Row) => S!ChunkTokens(Row) <= Len(RowTokens(Row))
<1>. DEFINE V == Token \cup {Sampled, Pad}
            r == Row
<1>1. Row \in Requests /\ at \in DOMAIN rows
  BY RowFacts DEF Engaged
<1>2. ValidLen(r) \in Nat /\ Prompt[r] \in Seq(V) /\ Len(Prompt[r]) \in Nat
  <2>1. Prompt[r] \in Seq(Token) /\ Len(Prompt[r]) \in Nat
    BY <1>1, PromptLengths
  <2>2. Prompt[r] \in Seq(V)
    BY <2>1
  <2>. QED  BY <1>1, <2>1, <2>2, ValidLenType
<1>3. CASE ~IsPrefill(r)
  <2>1. RowTokens(r) = <<Sampled>>
    BY <1>3 DEF RowTokens
  <2>. QED  BY <1>3, <2>1
<1>4. CASE IsPrefill(r) /\ ValidLen(r) = 0
  <2>1. Width \in Nat
    BY <1>1, WidthType, RowsAreRequests, EmptySeq DEF IInv, StepInv
  <2>2. RowTokens(r) = [i \in 1..Width |-> Pad]
    BY <1>4 DEF RowTokens
  <2>3. /\ [i \in 1..Width |-> Pad] \in Seq(V)
        /\ Len([i \in 1..Width |-> Pad]) = Width
    <3>. HIDE DEF V
    <3>1. Pad \in V
      BY DEF V
    <3>. QED  BY <2>1, <3>1
  <2>4. S!ChunkTokens(r) = 0
    BY <1>4 DEF ValidLen
  <2>. QED  BY <2>1, <2>2, <2>3, <2>4
<1>5. CASE IsPrefill(r) /\ ValidLen(r) # 0
  <2>. DEFINE o == prefill_offset[r]
              n == ValidLen(r)
  <2>1. n = S!ChunkTokens(r) /\ RowTokens(r) = SubSeq(Prompt[r], o + 1, o + n)
    BY <1>5 DEF ValidLen, RowTokens
  <2>2. o \in Nat /\ o + n <= Len(Prompt[r]) /\ n \in Nat
    BY <1>1, <2>1, ChunkFits
  <2>3. SubSeq(Prompt[r], o + 1, o + n) \in Seq(V) /\ Len(SubSeq(Prompt[r], o + 1, o + n)) = n
    <3>. HIDE DEF o, n, V
    <3>. QED  BY <1>2, <2>2, SubSeqProperties
  <2>4. RowTokens(r) \in Seq(V) /\ Len(RowTokens(r)) = n
    BY <2>1, <2>3
  <2>5. S!ChunkTokens(r) <= n
    <3>. HIDE DEF n
    <3>. QED BY ONLY <2>1, <2>2
  <2>. HIDE DEF o, n, r, V
  <2>6. RowTokens(r) \in Seq(V) /\ Len(RowTokens(r)) \in Nat /\ S!ChunkTokens(r) <= Len(RowTokens(r))
    BY ONLY <2>2, <2>4, <2>5
  <2>. QED  BY <2>6 DEF r, V
<1>. QED  BY <1>3, <1>4, <1>5

(* The block of the last cached token is in the table. *)
LEMMA PastKVType ==
  ASSUME IInv, pc = "forward", at <= Len(rows)
  PROVE  PastKV \in KV
<1>. DEFINE p == pos[RowSlot]
<1>1. /\ RowSlot \in Slots /\ layer \in Layers
      /\ tables[RowSlot] \in Seq(Blocks) /\ p \in Nat
      /\ kv \in [Layers -> [Blocks -> [0 .. BlockSize - 1 -> KV]]]
      /\ BlockSize \in Nat \ {0}
  BY RowFacts, Known, CacheAssumption DEF Engaged, CacheBooks, IInv, StepInv, StepTyped
<1>2. CASE p = 0
  BY <1>2, EmptySeq DEF PastKV, KV
<1>3. CASE p # 0
  <2>. DEFINE j == ((p - 1) \div BlockSize) + 1
              o == (p - 1) % BlockSize
  <2>1. CP!BlocksNeeded(p) <= Len(tables[RowSlot])
    BY <1>1 DEF IInv, CacheInv, CP!TablesCover, Slots
  <2>2. j \in 1..CP!BlocksNeeded(p)
    <3>1. p - 1 \in 0..(p - 1)
      BY <1>1, <1>3
    <3>. QED  BY <1>1, <3>1, Assumptions, CP!BlockOfToken DEF CP!BlocksNeeded
  <2>3. CP!BlocksNeeded(p) \in Nat
    <3>1. p <= p
      BY <1>1
    <3>. HIDE DEF p
    <3>. QED  BY <1>1, <3>1, Assumptions, CP!NeededMonotone
  <2>4. j \in 1..Len(tables[RowSlot])
    <3>. HIDE DEF j
    <3>. QED  BY <1>1, <2>1, <2>2, <2>3, LenProperties
  <2>5. tables[RowSlot][j] \in Blocks
    <3>. HIDE DEF j
    <3>. QED  BY <1>1, <2>4, ElementOfSeq
  <2>6. o \in 0..(BlockSize - 1)
    BY <1>1, <1>3
  <2>7. PastKV = kv[layer][tables[RowSlot][j]][o]
    BY <1>3 DEF PastKV, C!Resolve
  <2>. HIDE DEF j, o
  <2>. QED  BY <1>1, <2>5, <2>6, <2>7
<1>. QED  BY <1>2, <1>3

LEMMA NewKVType ==
  ASSUME IInv, pc = "forward", at <= Len(rows)
  PROVE  NewKV \in Seq(KV) /\ Len(NewKV) = Len(RowTokens(Row))
<1>. DEFINE t == RowTokens(Row)
            n == Len(t)
<1>1. t \in Seq(Token \cup {Sampled, Pad}) /\ n \in Nat /\ PastKV \in Seq(Token \cup {Sampled, Pad})
  BY RowTokensType, PastKVType DEF KV
<1>. HIDE DEF t
<1>2. ASSUME NEW i \in 1..n PROVE PastKV \o SubSeq(t, 1, i) \in KV
  <2>1. SubSeq(t, 1, i) \in Seq(Token \cup {Sampled, Pad})
    BY <1>1, SubSeqProperties
  <2>. QED  BY <1>1, <2>1, ConcatProperties DEF KV
<1>3. NewKV = [i \in 1..n |-> PastKV \o SubSeq(t, 1, i)]
  BY DEF NewKV, t
<1>4. NewKV \in [1..n -> KV]
  BY <1>2, <1>3
<1>5. NewKV \in Seq(KV) /\ Len(NewKV) = n
  BY <1>1, <1>4
<1>. QED  BY <1>5 DEF t

LEMMA ForwardRowKeeps == ASSUME IInv, ForwardRow PROVE IInv'
<1>. DEFINE last == layer = NumLayers - 1
            n == Len(NewKV)
<1>1. /\ pc = "forward" /\ at <= Len(rows) /\ C!AppendStored(RowSlot, layer, NewKV)
      /\ at' = IF at < Len(rows) THEN at + 1 ELSE 1
      /\ layer' = IF at < Len(rows) THEN layer ELSE (layer + 1) % NumLayers
      /\ pc' = IF at = Len(rows) /\ last THEN "sample" ELSE "forward"
      /\ UNCHANGED <<schedulerVars, slot_prepared, config, rows>>
  BY DEF ForwardRow, AtRow
<1>2. /\ at \in DOMAIN rows /\ Row \in Requests /\ Row \in ToSet(running) /\ RowSlot \in Slots
      /\ \A i \in DOMAIN rows : i # at => rows[i] # Row
      /\ \A r \in ToSet(running) : r # Row => batch_idx[r] # RowSlot
      /\ DOMAIN rows = 1..Len(rows) /\ Len(rows) \in Nat /\ at \in Nat \ {0}
      /\ layer \in Layers /\ NumLayers \in Nat \ {0}
  BY <1>1, RowFacts, RowsAreRequests, CacheAssumption DEF Engaged, IInv, StepInv, StepTyped
<1>3. SP!IInv'
  BY <1>1, SchedulerStays DEF IInv
<1>4. NewKV \in Seq(KV) /\ n \in Nat
  BY <1>1, NewKVType, LenProperties
<1>5. CacheInv'
  <2>1. CP!AppendStored(RowSlot, layer, NewKV)
    BY <1>1, SameAppend
  <2>. QED  BY <1>2, <1>4, <2>1, Assumptions, CP!AppendStoredKeeps, CP!AppendStoredCovers
       DEF IInv, CacheInv, Slots, Layers, KV, CP!Layers
<1>6. call = C!Idle /\ call' = C!Idle
  BY <1>1 DEF C!AppendStored, C!cacheVars
<1>7. pos' = IF last THEN [pos EXCEPT ![RowSlot] = @ + n] ELSE pos
  BY <1>1 DEF C!AppendStored
<1>8. pos \in [Slots -> 0..MaxSeqLen] /\ MaxSeqLen \in Nat
  BY Known, CacheAssumption DEF CacheBooks
<1>. HIDE DEF n
<1>9. \A s \in Slots : pos[s] \in Nat /\ pos'[s] \in Nat /\ pos[s] <= pos'[s]
  BY <1>2, <1>4, <1>7, <1>8
<1>10. last => pos'[RowSlot] = pos[RowSlot] + n
  BY <1>2, <1>7, <1>8
<1>11. StepTyped' /\ SameLimits' /\ OffsetsFit'
  <2>1. at' \in 1..(Len(rows) + 1)
    BY <1>1, <1>2
  <2>2. layer' \in Layers
    BY <1>1, <1>2 DEF Layers
  <2>. QED  BY <1>1, <2>1, <2>2 DEF IInv, StepInv, StepTyped, SameLimits, OffsetsFit,
            schedulerVars, Engaged
<1>12. RowsRun' /\ Batches'
  <2>1. pc' = "sample" => at' = 1 /\ rows # <<>>
    BY <1>1, <1>2, EmptySeq
  <2>. QED  BY <1>1, <2>1 DEF IInv, StepInv, RowsRun, Batches, schedulerVars, Engaged, Reporting,
            IsPrefill
<1>13. CallOfRow' /\ PromptsRead'
  BY <1>1, <1>6 DEF CallOfRow, PromptsRead, Moved, Reporting
<1>14. CursorReached'
  <2>. SUFFICES ASSUME NEW r \in ToSet(running)
                PROVE  prefill_offset[r] <= pos'[batch_idx[r]]
    BY <1>1 DEF CursorReached, schedulerVars
  <2>1. prefill_offset[r] \in Nat /\ batch_idx[r] \in Slots /\ prefill_offset[r] <= pos[batch_idx[r]]
    BY Known DEF SchedulerBooks, IInv, StepInv, CursorReached
  <2>. QED  BY <1>9, <2>1
<1>15. ChunksStored'
  <2>. SUFFICES ASSUME NEW i \in DOMAIN rows, Stored(i)', IsPrefill(rows[i])
                PROVE  prefill_offset[rows[i]] + S!ChunkTokens(rows[i]) <= pos'[batch_idx[rows[i]]]
    BY <1>1 DEF ChunksStored, schedulerVars, IsPrefill, S!ChunkTokens
  <2>. DEFINE r == rows[i]
              c == prefill_offset[rows[i]] + S!ChunkTokens(rows[i])
  <2>1. /\ r \in Requests /\ r \in ToSet(running) /\ batch_idx[r] \in Slots /\ i \in 1..Len(rows)
        /\ c \in Nat /\ prefill_offset[r] \in Nat /\ S!ChunkTokens(r) \in Nat
    <3>1. r \in Requests
      BY RowsAreRequests DEF IInv, StepInv
    <3>2. r \in ToSet(running)
      BY <1>1 DEF IInv, StepInv, RowsRun, Engaged
    <3>. QED  BY <1>2, <3>1, <3>2, ChunkFits, Known DEF SchedulerBooks
  <2>2. last
    <3>1. CASE at < Len(rows)
      <4>1. pc' = "forward" /\ layer' = layer
        BY <1>1, <1>2, <3>1
      <4>. QED  BY <4>1 DEF Stored
    <3>2. CASE at = Len(rows)
      <4>1. at' = 1 /\ ~(i < 1)
        BY <1>1, <2>1, <3>2
      <4>2. pc' = "sample"
        BY <1>1, <4>1 DEF Stored
      <4>. QED  BY <1>1, <4>2
    <3>. QED  BY <1>1, <1>2, <3>1, <3>2
  <2>3. i <= at
    <3>1. CASE at < Len(rows)
      <4>1. pc' = "forward" /\ at' = at + 1
        BY <1>1, <1>2, <3>1
      <4>. QED  BY <1>2, <2>1, <4>1 DEF Stored
    <3>2. CASE at = Len(rows)
      BY <2>1, <3>2
    <3>. QED  BY <1>1, <1>2, <3>1, <3>2
  <2>4. CASE i = at
    <3>1. r = Row /\ batch_idx[r] = RowSlot
      BY <2>4 DEF Row, RowSlot
    <3>2. S!ChunkTokens(r) <= n
      BY <1>1, <3>1, RowTokensType, NewKVType DEF n
    <3>3. prefill_offset[r] <= pos[RowSlot]
      BY <2>1, <3>1 DEF IInv, StepInv, CursorReached
    <3>4. pos[RowSlot] \in Nat /\ pos'[RowSlot] = pos[RowSlot] + n
      BY <1>2, <1>9, <1>10, <2>2
    <3>5. prefill_offset[r] + S!ChunkTokens(r) <= pos'[RowSlot]
      BY <1>4, <2>1, <3>2, <3>3, <3>4
    <3>. QED  BY <3>1, <3>5
  <2>5. CASE i < at
    <3>1. Stored(i)
      BY <1>1, <2>2, <2>5 DEF Stored
    <3>2. c <= pos[batch_idx[r]]
      BY <3>1 DEF IInv, StepInv, ChunksStored
    <3>3. pos'[batch_idx[r]] \in Nat
      BY <1>2, <1>4, <1>7, <1>8, <2>1
    <3>. HIDE DEF c, r
    <3>4. c <= pos'[batch_idx[r]]
      BY <1>9, <2>1, <3>2, <3>3
    <3>. QED  BY <3>4 DEF c, r
  <2>. QED  BY <1>2, <2>1, <2>3, <2>4, <2>5
<1>. QED  BY <1>3, <1>5, <1>11, <1>12, <1>13, <1>14, <1>15 DEF IInv, StepInv

LEMMA ForwardRaisesKeeps == ASSUME IInv, ForwardRaises PROVE IInv'
<1>1. /\ pc = "forward" /\ at <= Len(rows) /\ pc' = "raised"
      /\ \/ C!AppendExhausted(RowSlot, layer, NewKV)
         \/ C!AppendTooLong(RowSlot, layer, NewKV)
      /\ UNCHANGED <<schedulerVars, slot_prepared, config, rows, at, layer>>
  BY DEF ForwardRaises, AtRow, Goto
<1>2. SP!IInv'
  BY <1>1, SchedulerStays DEF IInv
<1>3. RowSlot \in Slots /\ layer \in Layers /\ NewKV \in Seq(KV)
  BY <1>1, RowFacts, NewKVType DEF Engaged, IInv, StepInv, StepTyped
<1>4. CacheInv' /\ UNCHANGED <<pos, call>>
  <2>1. CASE C!AppendExhausted(RowSlot, layer, NewKV)
    <3>1. CP!AppendExhausted(RowSlot, layer, NewKV)
      BY <2>1, SameAppend
    <3>2. UNCHANGED <<pos, call>>
      BY <2>1 DEF C!AppendExhausted, C!cacheVars
    <3>. QED  BY <1>3, <3>1, <3>2, Assumptions, CP!AppendExhaustedKeeps, CP!AppendExhaustedCovers
         DEF IInv, CacheInv, Slots, Layers, KV, CP!Layers
  <2>2. CASE C!AppendTooLong(RowSlot, layer, NewKV)
    <3>1. CP!AppendTooLong(RowSlot, layer, NewKV)
      BY <2>2, SameAppend
    <3>2. UNCHANGED <<tables, pos, call>>
      BY <2>2 DEF C!AppendTooLong, C!tableVars, C!cacheVars
    <3>3. CP!IInv'
      BY <1>3, <3>1, Assumptions, CP!AppendTooLongKeeps
         DEF IInv, CacheInv, Slots, Layers, KV, CP!Layers
    <3>. QED  BY <3>2, <3>3, CoverStays DEF IInv
  <2>. QED  BY <1>1, <2>1, <2>2
<1>5. StepTyped' /\ SameLimits' /\ OffsetsFit' /\ CursorReached'
  BY <1>1, <1>4 DEF IInv, StepInv, StepTyped, SameLimits, OffsetsFit, CursorReached, schedulerVars
<1>6. RowsRun' /\ Batches'
  BY <1>1 DEF IInv, StepInv, RowsRun, Batches, schedulerVars, Engaged, Reporting
<1>7. CallOfRow' /\ ChunksStored' /\ PromptsRead'
  BY <1>1, <1>4 DEF IInv, StepInv, CallOfRow, ChunksStored, PromptsRead, Stored, Moved, Reporting
<1>. QED  BY <1>2, <1>4, <1>5, <1>6, <1>7 DEF IInv, StepInv

-----------------------------------------------------------------------------
(* Reporting the rows. *)

LEMMA AdvanceRowKeeps == ASSUME IInv, AdvanceRow PROVE IInv'
<1>. DEFINE n == prefill_offset[Row] + ValidLen(Row)
<1>1. /\ pc = "advance" /\ at <= Len(rows) /\ S!AdvancePrefill(Row, n)
      /\ at' = IF at < Len(rows) THEN at + 1 ELSE 1
      /\ pc' = IF at < Len(rows) THEN "advance" ELSE "report"
      /\ UNCHANGED <<cacheVars, slot_prepared, config, rows, layer>>
  BY DEF AdvanceRow, AtRow
<1>2. /\ at \in DOMAIN rows /\ Row \in Requests /\ Row \in ToSet(running) /\ RowSlot \in Slots
      /\ \A i \in DOMAIN rows : i # at => rows[i] # Row
      /\ DOMAIN rows = 1..Len(rows) /\ Len(rows) \in Nat /\ at \in Nat \ {0}
      /\ \A i \in DOMAIN rows : rows[i] \in Requests
  BY <1>1, RowFacts, RowsAreRequests DEF Engaged, IInv, StepInv
<1>3. IsPrefill(Row) /\ \A i \in DOMAIN rows : IsPrefill(rows[i])
  BY <1>1, <1>2 DEF IInv, StepInv, Batches, Row
<1>4. n = prefill_offset[Row] + S!ChunkTokens(Row)
  BY <1>3 DEF ValidLen
<1>5. n \in Nat /\ n <= Len(Prompt[Row]) /\ n <= pos[RowSlot] /\ Len(Prompt[Row]) \in Nat
  <2>1. n \in Nat /\ n <= Len(Prompt[Row])
    BY <1>2, <1>4, ChunkFits
  <2>2. Stored(at)
    BY <1>1, <1>2 DEF Stored
  <2>3. n <= pos[RowSlot]
    BY <1>2, <1>3, <1>4, <2>2 DEF IInv, StepInv, ChunksStored, Row, RowSlot
  <2>. QED  BY <1>2, <2>1, <2>3, PromptLengths
<1>. HIDE DEF n
<1>6. /\ prefill_offset' = [prefill_offset EXCEPT ![Row] = n]
      /\ prefill_requests' = IF n < Len(Prompt[Row]) THEN prefill_requests \ {Row}
                             ELSE prefill_requests
      /\ UNCHANGED <<max_concurrent_requests, max_tokens_per_step, waiting, running, state,
                     batch_idx, prefill_chunk_size, num_generated, decode_requests>>
  BY <1>1, <1>2 DEF S!AdvancePrefill, S!limitVars, S!placeVars
<1>7. SP!IInv'
  BY <1>1, <1>2, <1>5, SameAdvance, Assumptions, SP!AdvancePrefillKeeps DEF IInv
<1>8. CacheInv'
  BY <1>1, CacheStays DEF IInv
<1>9. /\ prefill_offset \in [Requests -> Nat]
      /\ prefill_offset'[Row] = n
      /\ \A r \in Requests \ {Row} : prefill_offset'[r] = prefill_offset[r]
  BY <1>2, <1>6, Known DEF SchedulerBooks
<1>10. StepTyped' /\ SameLimits'
  <2>1. at' \in 1..(Len(rows) + 1)
    BY <1>1, <1>2
  <2>. QED  BY <1>1, <1>6, <2>1 DEF IInv, StepInv, StepTyped, SameLimits, Engaged, Reporting
<1>11. OffsetsFit'
  BY <1>3, <1>5, <1>6, <1>9 DEF IInv, StepInv, OffsetsFit, IsPrefill
<1>12. RowsRun'
  BY <1>1, <1>6 DEF IInv, StepInv, RowsRun, Engaged, Reporting
<1>13. Batches'
  <2>1. \A r \in decode_requests' : state'[r] = "decode" /\ r \notin prefill_requests'
    BY <1>6 DEF IInv, StepInv, Batches
  <2>. QED  BY <1>1, <1>3, <1>6, <2>1 DEF Batches, IsPrefill
<1>14. CallOfRow'
  BY <1>1 DEF IInv, StepInv, CallOfRow, cacheVars
<1>15. CursorReached'
  <2>. SUFFICES ASSUME NEW r \in ToSet(running)
                PROVE  prefill_offset'[r] <= pos[batch_idx[r]]
    BY <1>1, <1>6 DEF CursorReached, cacheVars
  <2>1. r \in Requests
    BY Known DEF SchedulerBooks
  <2>2. CASE r = Row
    BY <1>5, <1>9, <2>2 DEF RowSlot
  <2>3. CASE r # Row
    BY <1>9, <2>1, <2>3 DEF IInv, StepInv, CursorReached
  <2>. QED  BY <2>2, <2>3
<1>16. ChunksStored'
  <2>. SUFFICES ASSUME NEW i \in DOMAIN rows, Stored(i)'
                PROVE  prefill_offset'[rows[i]] + S!ChunkTokens(rows[i])' <= pos[batch_idx[rows[i]]]
    BY <1>1, <1>6 DEF ChunksStored, cacheVars
  <2>1. pc' = "advance" /\ i >= at' /\ at' = at + 1
    BY <1>1, <1>2 DEF Stored
  <2>2. Stored(i) /\ rows[i] # Row /\ rows[i] \in Requests
    BY <1>1, <1>2, <2>1 DEF Stored
  <2>3. prefill_offset'[rows[i]] = prefill_offset[rows[i]]
    BY <1>9, <2>2
  <2>4. S!ChunkTokens(rows[i])' = S!ChunkTokens(rows[i])
    BY <1>1, <1>6, <2>3 DEF S!ChunkTokens
  <2>. QED  BY <1>3, <2>2, <2>3, <2>4 DEF IInv, StepInv, ChunksStored
<1>17. PromptsRead'
  <2>. SUFFICES ASSUME NEW i \in DOMAIN rows, Moved(i)', rows[i] \in prefill_requests'
                PROVE  prefill_offset'[rows[i]] >= Len(Prompt[rows[i]])
    BY <1>1 DEF PromptsRead
  <2>1. rows[i] \in Requests /\ rows[i] \in prefill_requests /\ i \in 1..Len(rows)
    BY <1>2, <1>6
  <2>2. CASE i = at
    <3>1. rows[i] = Row
      BY <2>2 DEF Row
    <3>2. ~(n < Len(Prompt[Row]))
      BY <1>6, <3>1
    <3>. QED  BY <1>5, <1>9, <3>1, <3>2
  <2>3. CASE i # at
    <3>1. i < at
      <4>1. CASE at < Len(rows)
        <5>1. pc' = "advance" /\ at' = at + 1
          BY <1>1, <4>1
        <5>. QED  BY <1>2, <2>1, <2>3, <5>1 DEF Moved, Reporting
      <4>2. CASE at = Len(rows)
        BY <1>2, <2>1, <2>3, <4>2
      <4>. QED  BY <1>1, <1>2, <4>1, <4>2
    <3>2. Moved(i)
      BY <1>1, <3>1 DEF Moved
    <3>3. prefill_offset[rows[i]] >= Len(Prompt[rows[i]])
      BY <1>3, <2>1, <3>2 DEF IInv, StepInv, PromptsRead
    <3>. QED  BY <1>2, <1>9, <2>1, <2>3, <3>3
  <2>. QED  BY <2>2, <2>3
<1>. QED  BY <1>7, <1>8, <1>10, <1>11, <1>12, <1>13, <1>14, <1>15, <1>16, <1>17 DEF IInv, StepInv

(* A step of the report that leaves the requests alone. *)
LEMMA ReportKeeps ==
  ASSUME IInv, pc \in {"report", "insert"}, pc' = "insert", at <= Len(rows),
         UNCHANGED <<schedulerVars, slot_prepared, config, rows, at, layer, tables, pos>>,
         CP!IInv', CallOfRow'
  PROVE  IInv'
<1>1. SP!IInv' /\ CacheInv'
  BY SchedulerStays, CoverStays DEF IInv
<1>2. StepTyped' /\ SameLimits' /\ OffsetsFit' /\ CursorReached'
  BY DEF IInv, StepInv, StepTyped, SameLimits, OffsetsFit, CursorReached, schedulerVars,
         Reporting
<1>3. RowsRun' /\ Batches'
  BY DEF IInv, StepInv, RowsRun, Batches, schedulerVars, Engaged, Reporting, IsPrefill
<1>4. ChunksStored' /\ PromptsRead'
  BY DEF IInv, StepInv, ChunksStored, PromptsRead, Stored, Moved, Reporting, schedulerVars,
         IsPrefill
<1>. QED  BY <1>1, <1>2, <1>3, <1>4 DEF IInv, StepInv

LEMMA RegisterRowKeeps == ASSUME IInv, RegisterRow PROVE IInv'
<1>1. /\ pc = "report" /\ at <= Len(rows) /\ Row \in prefill_requests
      /\ C!RegisterPrefix(RowSlot, Prompt[Row])
      /\ pc' = "insert" /\ UNCHANGED <<schedulerVars, slot_prepared, config, rows, at, layer>>
  BY DEF RegisterRow, AtRow, Goto
<1>2. /\ at \in DOMAIN rows /\ Row \in Requests /\ Row \in ToSet(running) /\ RowSlot \in Slots
      /\ at \in Nat \ {0}
  BY <1>1, RowFacts, RowsAreRequests DEF Reporting, IInv, StepInv
<1>3. Len(Prompt[Row]) <= pos[RowSlot]
  <2>1. IsPrefill(Row)
    BY <1>1, <1>2 DEF IInv, StepInv, Batches, Row
  <2>2. Moved(at)
    BY <1>1, <1>2 DEF Moved, Reporting
  <2>3. prefill_offset[Row] >= Len(Prompt[Row])
    BY <1>1, <1>2, <2>1, <2>2 DEF IInv, StepInv, PromptsRead, Row
  <2>4. prefill_offset[Row] <= pos[RowSlot]
    BY <1>2 DEF IInv, StepInv, CursorReached, RowSlot
  <2>5. prefill_offset[Row] \in Nat /\ Len(Prompt[Row]) \in Nat /\ pos[RowSlot] \in 0..MaxSeqLen
    BY <1>2, Known, PromptLengths DEF SchedulerBooks, CacheBooks
  <2>. QED  BY <2>3, <2>4, <2>5, CacheAssumption
<1>4. CP!IInv'
  <2>1. Prompt[Row] \in {Prompt[r] : r \in Requests}
    BY <1>2
  <2>. QED  BY <1>1, <1>2, <1>3, <2>1, SameRegister, Assumptions, CP!RegisterPrefixKeeps
       DEF IInv, CacheInv, Slots
<1>5. /\ UNCHANGED <<tables, pos>>
      /\ \/ call' = C!Idle
         \/ EnablePrefixCache /\ call' = [op |-> "insert", slot |-> RowSlot,
                                          tokens |-> Prompt[Row], next |-> 1]
  BY <1>1 DEF C!RegisterPrefix, C!tableVars, C!Call
<1>6. CallOfRow'
  <2>1. Row' = Row /\ RowSlot' = RowSlot
    BY <1>1 DEF Row, RowSlot, schedulerVars
  <2>. QED  BY <1>1, <1>2, <1>5, <2>1 DEF CallOfRow
<1>. QED  BY <1>1, <1>4, <1>5, <1>6, ReportKeeps

LEMMA InsertBlockKeeps == ASSUME IInv, InsertBlock PROVE IInv'
<1>1. /\ pc = "insert" /\ pc' = "insert" /\ at <= Len(rows) /\ C!Insert
      /\ UNCHANGED <<schedulerVars, slot_prepared, config, rows, at, layer>>
  BY DEF InsertBlock, AtRow, stepVars
<1>2. CP!IInv'
  BY <1>1, SameInsert, Assumptions, CP!RenewEntryKeeps, CP!EvictOldestKeeps, CP!AddEntryKeeps
     DEF IInv, CacheInv
<1>3. UNCHANGED <<tables, pos>> /\ call.op = "insert" /\ call' \in {call, C!AfterInsert}
  BY <1>1 DEF C!Insert, C!RenewEntry, C!EvictOldest, C!AddEntry, C!tableVars
<1>4. CallOfRow'
  <2>1. call # C!Idle
    BY <1>3 DEF C!Idle
  <2>2. /\ call \in [op : {"lookup", "insert"}, slot : Slots,
                     tokens : {Prompt[r] : r \in Requests}, next : Nat \ {0}]
    BY <2>1, Known DEF CacheBooks
  <2>3. \/ call' = C!Idle
        \/ call'.op = call.op /\ call'.slot = call.slot /\ call'.tokens = call.tokens
    <3>1. CASE call' = C!AfterInsert
      <4>. DEFINE moved == [call EXCEPT !.next = @ + 1]
      <4>1. moved.op = call.op /\ moved.slot = call.slot /\ moved.tokens = call.tokens
        BY <2>2
      <4>2. call' \in {C!Idle, moved}
        BY <3>1 DEF C!AfterInsert
      <4>. QED  BY <4>1, <4>2
    <3>. QED  BY <1>3, <3>1
  <2>. QED  BY <1>1, <1>3, <2>1, <2>3 DEF IInv, StepInv, CallOfRow, Row, RowSlot, schedulerVars
<1>. QED  BY <1>1, <1>2, <1>3, <1>4, ReportKeeps

LEMMA PrefillDoneKeeps == ASSUME IInv, PrefillDone PROVE IInv'
<1>1. /\ pc = "insert" /\ at <= Len(rows) /\ call = C!Idle /\ S!MarkPrefillDone(Row)
      /\ pc' = "token" /\ UNCHANGED <<cacheVars, slot_prepared, config, rows, at, layer>>
  BY DEF PrefillDone, AtRow, Goto
<1>2. /\ at \in DOMAIN rows /\ Row \in Requests /\ Row \in ToSet(running)
      /\ \A i \in DOMAIN rows : i # at => rows[i] # Row
      /\ at \in Nat \ {0} /\ DOMAIN rows = 1..Len(rows)
      /\ \A i \in DOMAIN rows : rows[i] \in Requests
  BY <1>1, RowFacts, RowsAreRequests DEF Reporting, IInv, StepInv
<1>3. /\ Row \in prefill_requests /\ state' = [state EXCEPT ![Row] = "decode"]
      /\ UNCHANGED <<max_concurrent_requests, max_tokens_per_step, waiting, running, batch_idx,
                     prefill_offset, prefill_chunk_size, num_generated, prefill_requests,
                     decode_requests>>
  BY <1>1 DEF S!MarkPrefillDone, S!limitVars, S!placeVars, S!batchVars
<1>4. SP!IInv'
  BY <1>1, <1>2, SamePrefillDone, Assumptions, SP!MarkPrefillDoneKeeps DEF IInv
<1>5. CacheInv'
  BY <1>1, CacheStays DEF IInv
<1>6. state \in [Requests -> {"new", "waiting", "prefill", "decode", "finished"}]
  BY Known DEF SchedulerBooks
<1>7. /\ state'[Row] = "decode"
      /\ \A r \in Requests \ {Row} : state'[r] = state[r]
  BY <1>2, <1>3, <1>6
<1>8. StepTyped' /\ SameLimits' /\ RowsRun' /\ CursorReached'
  BY <1>1, <1>3 DEF IInv, StepInv, StepTyped, SameLimits, RowsRun, CursorReached, Engaged,
     Reporting, cacheVars
<1>9. OffsetsFit'
  BY <1>2, <1>3, <1>7 DEF IInv, StepInv, OffsetsFit
<1>10. Batches'
  <2>1. \A r \in decode_requests : r \in Requests
    BY Known DEF SchedulerBooks
  <2>2. \A r \in decode_requests' : state'[r] = "decode" /\ r \notin prefill_requests'
    BY <1>3, <1>7, <2>1 DEF IInv, StepInv, Batches
  <2>3. \A i \in DOMAIN rows : i > at => IsPrefill(rows[i])'
    <3>. SUFFICES ASSUME NEW i \in DOMAIN rows, i > at PROVE state'[rows[i]] = "prefill"
      BY <1>1 DEF IsPrefill
    <3>1. rows[i] \in Requests \ {Row} /\ i >= at
      BY <1>2
    <3>2. state[rows[i]] = "prefill"
      BY <1>1, <3>1 DEF IInv, StepInv, Batches, IsPrefill
    <3>. QED  BY <1>7, <3>1, <3>2
  <2>4. Row' = Row
    BY <1>1 DEF Row
  <2>. QED  BY <1>1, <1>2, <1>3, <2>2, <2>3, <2>4 DEF Batches
<1>11. CallOfRow' /\ ChunksStored'
  BY <1>1 DEF CallOfRow, ChunksStored, Stored, Reporting, cacheVars
<1>12. PromptsRead'
  <2>. SUFFICES ASSUME NEW i \in DOMAIN rows, Moved(i)', IsPrefill(rows[i])',
                       rows[i] \in prefill_requests'
                PROVE  prefill_offset'[rows[i]] >= Len(Prompt[rows[i]])
    BY <1>1 DEF PromptsRead
  <2>1. Moved(i)
    BY <1>1 DEF Moved, Reporting
  <2>2. rows[i] \in Requests \ {Row}
    BY <1>1, <1>2, <1>7 DEF IsPrefill
  <2>3. IsPrefill(rows[i])
    BY <1>1, <1>7, <2>2 DEF IsPrefill
  <2>. QED  BY <1>3, <2>1, <2>3 DEF IInv, StepInv, PromptsRead
<1>. QED  BY <1>4, <1>5, <1>8, <1>9, <1>10, <1>11, <1>12 DEF IInv, StepInv

(* What a reported token does to the row it is for, and to nothing else. *)
LEMMA TokenEffect ==
  ASSUME IInv, NEW r \in Requests, r \in ToSet(running), S!MarkDecodeDone(r)
  PROVE  /\ state[r] = "decode"
         /\ num_generated' = [num_generated EXCEPT ![r] = @ + 1]
         /\ prefill_requests' = prefill_requests \ {r}
         /\ decode_requests' = decode_requests \ {r}
         /\ UNCHANGED <<max_concurrent_requests, max_tokens_per_step, waiting, failed,
                        prefill_offset, prefill_chunk_size>>
         /\ \A t \in Requests \ {r} : batch_idx'[t] = batch_idx[t] /\ state'[t] = state[t]
         /\ \/ /\ state'[r] = "finished" /\ ToSet(running') = ToSet(running) \ {r}
               /\ completed' = completed \cup {r} /\ num_generated'[r] >= MaxNew[r]
            \/ /\ UNCHANGED <<running, state, batch_idx, completed>>
               /\ ~(num_generated'[r] >= MaxNew[r])
<1>1. SP!MarkDecodeDone(r)
  BY SameDecodeDone
<1>2. CASE /\ SP!LeaveRunning(r) /\ completed' = completed \cup {r}
           /\ num_generated'[r] >= MaxNew[r]
  <2>1. /\ SP!ToSet(running') = SP!ToSet(running) \ {r}
        /\ \A t \in Requests : state'[t] = IF t = r THEN "finished" ELSE state[t]
        /\ \A t \in Requests : batch_idx'[t] = IF t = r THEN SP!NoSlot ELSE batch_idx[t]
    BY <1>2, Assumptions, SP!LeavesRunning DEF IInv
  <2>2. ToSet(running') = ToSet(running) \ {r}
    BY <2>1 DEF SP!ToSet, ToSet
  <2>. QED  BY <1>1, <1>2, <2>1, <2>2 DEF SP!MarkDecodeDone, SP!limitVars
<1>3. CASE /\ UNCHANGED <<running, state, free_slots, batch_idx, completed>>
           /\ ~(num_generated'[r] >= MaxNew[r])
  BY <1>1, <1>3 DEF SP!MarkDecodeDone, SP!limitVars
<1>. QED  BY <1>1, <1>2, <1>3 DEF SP!MarkDecodeDone

LEMMA ReportTokenKeeps == ASSUME IInv, ReportToken PROVE IInv'
<1>1. /\ pc = "token" /\ at <= Len(rows) /\ S!MarkDecodeDone(Row)
      /\ IF state'[Row] = "finished" THEN C!ResetSlot(RowSlot) ELSE UNCHANGED cacheVars
      /\ pc' = IF Row \in prefill_requests THEN "report" ELSE "token"
      /\ at' = at + 1
      /\ UNCHANGED <<slot_prepared, config, rows, layer>>
  BY DEF ReportToken, AtRow, NextRow
<1>2. /\ at \in DOMAIN rows /\ Row \in Requests /\ Row \in ToSet(running) /\ RowSlot \in Slots
      /\ \A i \in DOMAIN rows : i # at => rows[i] # Row
      /\ \A r \in ToSet(running) : r # Row => batch_idx[r] # RowSlot
      /\ at \in Nat \ {0} /\ DOMAIN rows = 1..Len(rows) /\ Len(rows) \in Nat
      /\ \A i \in DOMAIN rows : rows[i] \in Requests
  BY <1>1, RowFacts, RowsAreRequests DEF Reporting, IInv, StepInv
<1>3. /\ state[Row] = "decode"
      /\ prefill_requests' = prefill_requests \ {Row}
      /\ decode_requests' = decode_requests \ {Row}
      /\ UNCHANGED <<max_concurrent_requests, max_tokens_per_step, prefill_offset,
                     prefill_chunk_size>>
      /\ \A t \in Requests \ {Row} : batch_idx'[t] = batch_idx[t] /\ state'[t] = state[t]
      /\ \/ state'[Row] = "finished" /\ ToSet(running') = ToSet(running) \ {Row}
         \/ UNCHANGED <<running, state, batch_idx>>
  BY <1>1, <1>2, TokenEffect
<1>4. SP!IInv'
  BY <1>1, <1>2, SameDecodeDone, Assumptions, SP!MarkDecodeDoneKeeps DEF IInv
<1>5. call = C!Idle
  BY <1>1 DEF IInv, StepInv, CallOfRow
<1>6. /\ CacheInv' /\ call' = C!Idle
      /\ \A s \in Slots \ {RowSlot} : pos'[s] = pos[s]
      /\ state'[Row] # "finished" => UNCHANGED pos
  <2>1. CASE state'[Row] = "finished"
    <3>1. C!ResetSlot(RowSlot)
      BY <1>1, <2>1
    <3>2. CP!ResetSlot(RowSlot)
      BY <3>1, SameReset
    <3>3. CacheInv'
      BY <1>2, <3>2, Assumptions, CP!ResetSlotKeeps, CP!ResetSlotCovers DEF IInv, CacheInv, Slots
    <3>4. pos' = [pos EXCEPT ![RowSlot] = 0] /\ call' = call
      BY <3>1 DEF C!ResetSlot, C!cacheVars
    <3>5. pos \in [Slots -> 0..MaxSeqLen]
      BY Known DEF CacheBooks
    <3>. QED  BY <1>2, <1>5, <2>1, <3>3, <3>4, <3>5
  <2>2. CASE state'[Row] # "finished"
    <3>1. UNCHANGED cacheVars
      BY <1>1, <2>2
    <3>. QED  BY <1>5, <3>1, CacheStays DEF IInv, cacheVars
  <2>. QED  BY <2>1, <2>2
<1>7. StepTyped' /\ SameLimits'
  <2>1. at' \in 1..(Len(rows) + 1)
    BY <1>1, <1>2
  <2>. QED  BY <1>1, <1>3, <2>1 DEF IInv, StepInv, StepTyped, SameLimits, Reporting
<1>8. ASSUME NEW i \in DOMAIN rows, i >= at'
      PROVE  /\ rows[i] # Row /\ rows[i] \in Requests /\ rows[i] \in ToSet(running)
             /\ rows[i] \in ToSet(running') /\ i > at /\ i >= at
  <2>1. i \in Nat /\ i > at /\ i >= at /\ rows[i] # Row
    BY <1>1, <1>2, <1>8
  <2>2. rows[i] \in ToSet(running)
    BY <1>1, <2>1 DEF IInv, StepInv, RowsRun, Reporting
  <2>. QED  BY <1>2, <1>3, <2>1, <2>2
<1>9. RowsRun'
  BY <1>1, <1>8 DEF IInv, StepInv, RowsRun, Engaged, Reporting
<1>10. Batches'
  <2>1. \A r \in decode_requests' : state'[r] = "decode" /\ r \notin prefill_requests'
    <3>1. \A r \in decode_requests : r \in Requests
      BY Known DEF SchedulerBooks
    <3>. QED  BY <1>3, <3>1 DEF IInv, StepInv, Batches
  <2>2. CASE Row \in prefill_requests
    <3>1. pc' = "report" /\ Row \notin decode_requests
      BY <1>1, <2>2 DEF IInv, StepInv, Batches
    <3>2. \A i \in DOMAIN rows : i > at => IsPrefill(rows[i])
      <4>1. at >= at
        BY <1>2
      <4>. QED  BY <1>1, <1>2, <3>1, <4>1 DEF IInv, StepInv, Batches, Row
    <3>3. \A i \in DOMAIN rows : i >= at' => state'[rows[i]] = "prefill"
      BY <1>3, <1>8, <3>2 DEF IsPrefill
    <3>. QED  BY <1>1, <2>1, <3>1, <3>3 DEF Batches, IsPrefill
  <2>3. CASE Row \notin prefill_requests
    <3>1. pc' = "token"
      BY <1>1, <2>3
    <3>2. \A i \in DOMAIN rows : i >= at => rows[i] \in decode_requests
      BY <1>1, <2>3 DEF IInv, StepInv, Batches
    <3>3. \A i \in DOMAIN rows : i >= at' => rows[i] \in decode_requests'
      BY <1>3, <1>8, <3>2
    <3>. QED  BY <1>1, <2>1, <3>1, <3>3 DEF Batches
  <2>. QED  BY <2>2, <2>3
<1>11. CallOfRow' /\ ChunksStored'
  BY <1>1, <1>6 DEF CallOfRow, ChunksStored, Stored
<1>12. OffsetsFit'
  BY <1>2, <1>3 DEF IInv, StepInv, OffsetsFit
<1>13. CursorReached'
  <2>. SUFFICES ASSUME NEW r \in ToSet(running')
                PROVE  prefill_offset[r] <= pos'[batch_idx'[r]]
    BY <1>3 DEF CursorReached
  <2>1. r \in ToSet(running) /\ r \in Requests /\ batch_idx[r] \in Slots
    BY <1>3, Known DEF SchedulerBooks
  <2>2. prefill_offset[r] <= pos[batch_idx[r]]
    BY <2>1 DEF IInv, StepInv, CursorReached
  <2>3. CASE r = Row
    BY <1>3, <1>6, <2>2, <2>3
  <2>4. CASE r # Row
    BY <1>2, <1>3, <1>6, <2>1, <2>2, <2>4
  <2>. QED  BY <2>3, <2>4
<1>14. PromptsRead'
  <2>. SUFFICES ASSUME NEW i \in DOMAIN rows, Moved(i)', IsPrefill(rows[i])',
                       rows[i] \in prefill_requests'
                PROVE  prefill_offset[rows[i]] >= Len(Prompt[rows[i]])
    BY <1>1, <1>3 DEF PromptsRead
  <2>1. i >= at'
    BY <1>1 DEF Moved, Reporting
  <2>2. rows[i] # Row /\ rows[i] \in Requests /\ i >= at
    BY <1>8, <2>1
  <2>3. Moved(i) /\ IsPrefill(rows[i]) /\ rows[i] \in prefill_requests
    BY <1>1, <1>3, <2>2 DEF Moved, Reporting, IsPrefill
  <2>. QED  BY <2>3 DEF IInv, StepInv, PromptsRead
<1>. QED  BY <1>4, <1>6, <1>7, <1>9, <1>10, <1>11, <1>12, <1>13, <1>14 DEF IInv, StepInv

-----------------------------------------------------------------------------
(* The invariant holds. *)

LEMMA InitEstablishes == Init => IInv
<1>. SUFFICES ASSUME Init PROVE IInv
  OBVIOUS
<1>1. SP!Init /\ CP!Init
  BY SameInit, SameCacheInit DEF Init
<1>2. SP!IInv /\ SchedulerBooks
  BY <1>1, Assumptions, SP!InitEstablishes, SchedulerKnown
<1>3. CP!IInv /\ CacheBooks
  BY <1>1, Assumptions, CP!InitEstablishes, CacheKnown
<1>4. CP!TablesCover
  <2>. SUFFICES ASSUME NEW s \in 0..(BatchSize - 1)
                PROVE  (pos[s] + BlockSize - 1) \div BlockSize <= Len(tables[s])
    BY DEF CP!TablesCover, CP!BlocksNeeded
  <2>1. pos[s] = 0 /\ tables[s] = <<>>
    BY DEF Init, C!Init
  <2>2. Len(tables[s]) = 0
    BY <2>1
  <2>3. (0 + BlockSize - 1) \div BlockSize = 0
    BY CacheAssumption
  <2>. QED  BY <2>1, <2>2, <2>3
<1>5. /\ rows = <<>> /\ at = 1 /\ layer = 0 /\ pc = "idle" /\ call = C!Idle
      /\ running = <<>> /\ prefill_requests = {} /\ decode_requests = {}
      /\ prefill_offset = [r \in Requests |-> 0]
      /\ slot_prepared = [r \in Requests |-> FALSE]
      /\ max_concurrent_requests = BatchSize
      /\ config = [concurrent |-> max_concurrent_requests, budget |-> max_tokens_per_step,
                   chunk |-> CHOOSE c \in Chunks : TRUE]
  BY DEF Init, S!Init, C!Init
<1>6. rows \in Seq(Requests) /\ DOMAIN rows = {} /\ Len(rows) = 0 /\ IsInjective(rows)
  BY <1>5, EmptySeq DEF IsInjective
<1>7. (CHOOSE c \in Chunks : TRUE) \in Chunks
  BY SettingsAssumption
<1>8. StepTyped /\ SameLimits
  BY <1>2, <1>5, <1>6, <1>7, CacheAssumption DEF StepTyped, SameLimits, Layers, SchedulerBooks
<1>9. RowsRun /\ Batches /\ CallOfRow /\ ChunksStored /\ PromptsRead
  BY <1>5, <1>6 DEF RowsRun, Batches, CallOfRow, ChunksStored, PromptsRead
<1>10. OffsetsFit
  BY <1>5, PromptLengths DEF OffsetsFit
<1>11. ToSet(running) = {}
  BY <1>5 DEF ToSet
<1>. QED  BY <1>2, <1>3, <1>4, <1>8, <1>9, <1>10, <1>11 DEF IInv, CacheInv, StepInv, CursorReached

LEMMA NextKeeps == ASSUME IInv, [Next]_vars PROVE IInv'
<1>1. CASE UNCHANGED vars
  <2>1. UNCHANGED <<schedulerVars, cacheVars, slot_prepared, config, stepVars>>
    BY <1>1 DEF vars
  <2>2. StepTyped' /\ SameLimits' /\ RowsRun' /\ Batches' /\ CallOfRow'
    BY <2>1 DEF IInv, StepInv, StepTyped, SameLimits, RowsRun, Batches, CallOfRow, schedulerVars,
       cacheVars, stepVars, IsPrefill, Row, RowSlot
  <2>3. OffsetsFit' /\ CursorReached' /\ ChunksStored' /\ PromptsRead'
    BY <2>1 DEF IInv, StepInv, OffsetsFit, CursorReached, ChunksStored, PromptsRead, Stored, Moved,
       schedulerVars, cacheVars, stepVars, IsPrefill, S!ChunkTokens
  <2>. QED  BY <2>1, <2>2, <2>3, QuietKeeps DEF StepInv
<1>2. CASE Step
  BY <1>2, BeginStepKeeps, PrepareRowKeeps, LookupBlockKeeps, LoadedPrefixKeeps, PrefixMissedKeeps,
     ResetRowKeeps, PrefixRaisesKeeps, AdvanceRowKeeps, SkipRowKeeps, RegisterRowKeeps,
     InsertBlockKeeps, PrefillDoneKeeps, EndPrefillKeeps, EmbedRowsKeeps, ForwardRowKeeps,
     ForwardRaisesKeeps, SampleKeeps, ReportTokenKeeps, EndDecodeKeeps
     DEF Step, Prefill, Forward
<1>3. CASE Clients
  <2>1. Cancellable \subseteq Requests
    BY RequestsAssumption
  <2>. QED  BY <1>3, <2>1, AddRequestKeeps, CancelKeeps, ReconfigureKeeps DEF Clients
<1>4. CASE Stopped
  BY <1>1, <1>4 DEF Stopped
<1>. QED  BY <1>1, <1>2, <1>3, <1>4 DEF Next

-----------------------------------------------------------------------------
(* The theorems. *)

(* The inductive invariant holds in every state of the engine. *)
THEOREM Invariance == Spec => []IInv
<1>1. Init => IInv
  BY InitEstablishes
<1>2. IInv /\ [Next]_vars => IInv'
  BY NextKeeps
<1>. QED  BY <1>1, <1>2, PTL DEF Spec

(* Scheduler, cache and step are well formed throughout every step, in
   whatever order batches, lookups, appends and exceptions follow. *)
THEOREM TypeCorrect == Spec => []TypeOK
<1>1. IInv => TypeOK
  <2>. SUFFICES ASSUME IInv PROVE TypeOK
    OBVIOUS
  <2>1. S!TypeOK /\ C!TypeOK
    BY SameSchedulerInvariants, SameCacheInvariants DEF IInv, SP!IInv, CacheInv, CP!IInv
  <2>. QED  BY <2>1 DEF TypeOK, IInv, StepInv, StepTyped, Engaged, Reporting, Layers
<1>. QED  BY <1>1, Invariance, PTL

(* An exception out of a step, and a reconfigure the scheduler refuses, leave
   the block pool exact, every slot with one owner and the limits agreed. *)
THEOREM BooksStayRight == Spec => []BooksRight
<1>1. IInv => BooksRight
  <2>. SUFFICES ASSUME IInv PROVE BooksRight
    OBVIOUS
  <2>1. SP!SlotPartition /\ SP!OnePlace /\ CP!PoolExact
    BY DEF IInv, SP!IInv, CacheInv, CP!IInv
  <2>2. CP!CleanupCannotRaise
    BY Assumptions, CP!CleanupIsSafe DEF IInv, CacheInv
  <2>. QED  BY <2>1, <2>2, SameSchedulerInvariants, SameCacheInvariants
       DEF BooksRight, IInv, StepInv, SameLimits
<1>. QED  BY <1>1, Invariance, PTL

-----------------------------------------------------------------------------
(* The engine implements EngineService: a token reported is Emit, an arrival
   Submit, a cancelled request Cancel, and nothing else is seen. *)

LEMMA StatusStays ==
  ASSUME UNCHANGED <<completed, failed, num_generated>>,
         \A r \in Requests : state'[r] = "new" <=> state[r] = "new"
  PROVE  UNCHANGED Service!svars
<1>1. [r \in Requests |-> Status(r)]' = [r \in Requests |-> Status(r)]
  BY DEF Status
<1>. QED  BY <1>1 DEF Service!svars

(* What a request that is not finished is to the engine's users. *)
LEMMA StatusOfActive ==
  ASSUME IInv, NEW r \in Requests, state[r] # "finished"
  PROVE  /\ Status(r) = IF state[r] = "new" THEN "new" ELSE "queued"
         /\ r \notin completed /\ r \notin failed
BY Known DEF SchedulerBooks, Status

LEMMA SubmitImplemented ==
  ASSUME IInv, NEW r \in Requests, AddRequest(r)
  PROVE  Service!Submit(r)
<1>1. /\ state' = [state EXCEPT ![r] = "waiting"] /\ state[r] = "new"
      /\ UNCHANGED <<completed, failed, num_generated>>
  BY DEF AddRequest, S!AddRequest
<1>2. state \in [Requests -> {"new", "waiting", "prefill", "decode", "finished"}]
  BY Known DEF SchedulerBooks
<1>3. Status(r) = "new" /\ r \notin completed /\ r \notin failed
  BY <1>1, StatusOfActive
<1>4. Status(r)' = "queued"
  BY <1>1, <1>2, <1>3 DEF Status
<1>5. \A t \in Requests \ {r} : Status(t)' = Status(t)
  BY <1>1, <1>2 DEF Status
<1>6. [t \in Requests |-> Status(t)]' = [[t \in Requests |-> Status(t)] EXCEPT ![r] = "queued"]
  BY <1>4, <1>5
<1>. QED  BY <1>1, <1>3, <1>6 DEF Service!Submit

LEMMA EmitImplemented ==
  ASSUME IInv, ReportToken, NEW r \in Requests, r = Row
  PROVE  Service!Emit(r)
<1>1. /\ pc = "token" /\ at <= Len(rows) /\ S!MarkDecodeDone(r)
  BY DEF ReportToken, AtRow
<1>2. r \in ToSet(running)
  BY <1>1, RowFacts DEF Reporting
<1>3. /\ state[r] = "decode" /\ UNCHANGED failed
      /\ num_generated' = [num_generated EXCEPT ![r] = @ + 1]
      /\ \A t \in Requests \ {r} : state'[t] = state[t]
      /\ \/ completed' = completed \cup {r} /\ num_generated'[r] >= MaxNew[r]
         \/ UNCHANGED <<state, completed>> /\ ~(num_generated'[r] >= MaxNew[r])
  BY <1>1, <1>2, TokenEffect
<1>4. Status(r) = "queued" /\ r \notin failed
  BY <1>2, <1>3, StatusOfActive
<1>5. CASE completed' = completed \cup {r} /\ num_generated'[r] >= MaxNew[r]
  <2>1. Status(r)' = "completed"
    BY <1>5 DEF Status
  <2>2. \A t \in Requests \ {r} : Status(t)' = Status(t)
    BY <1>3, <1>5 DEF Status
  <2>3. [t \in Requests |-> Status(t)]' =
          [[t \in Requests |-> Status(t)] EXCEPT ![r] = "completed"]
    BY <1>2, <2>1, <2>2
  <2>. QED  BY <1>2, <1>3, <1>4, <1>5, <2>3 DEF Service!Emit
<1>6. CASE UNCHANGED <<state, completed>> /\ ~(num_generated'[r] >= MaxNew[r])
  <2>1. [t \in Requests |-> Status(t)]' = [t \in Requests |-> Status(t)]
    BY <1>3, <1>6 DEF Status
  <2>. QED  BY <1>2, <1>3, <1>4, <1>6, <2>1 DEF Service!Emit
<1>. QED  BY <1>3, <1>5, <1>6

LEMMA CancelImplemented ==
  ASSUME IInv, NEW r \in Requests, Cancel(r)
  PROVE  Service!Cancel(r)
<1>1. state[r] \in {"waiting", "prefill", "decode"} /\ SP!CancelRequest(r)
  BY SameCancel DEF Cancel
<1>2. state \in [Requests -> {"new", "waiting", "prefill", "decode", "finished"}]
  BY Known DEF SchedulerBooks
<1>3. state[r] # "new" /\ Status(r) = "queued" /\ r \notin completed /\ r \notin failed
  BY <1>1, StatusOfActive
<1>4. /\ UNCHANGED <<completed, num_generated>> /\ failed' = failed \cup {r}
      /\ state' = [state EXCEPT ![r] = "finished"]
  <2>1. r \in ToSet(waiting) \cup ToSet(running)
    BY <1>1, Known DEF SchedulerBooks
  <2>2. ~SP!CancelUnknown(r)
    BY <2>1 DEF SP!CancelUnknown, SP!ToSet, ToSet
  <2>. QED  BY <1>1, <2>2 DEF SP!CancelRequest, SP!CancelWaiting, SP!CancelRunning,
            SP!LeaveRunning
<1>5. Status(r)' = "failed"
  BY <1>3, <1>4 DEF Status
<1>6. \A t \in Requests \ {r} : Status(t)' = Status(t)
  BY <1>2, <1>4 DEF Status
<1>7. [t \in Requests |-> Status(t)]' = [[t \in Requests |-> Status(t)] EXCEPT ![r] = "failed"]
  BY <1>5, <1>6
<1>. QED  BY <1>3, <1>4, <1>7 DEF Service!Cancel

LEMMA OtherStepsUnseen ==
  ASSUME IInv, Step, ~ReportToken
  PROVE  UNCHANGED Service!svars
<1>1. CASE BeginStep
  <2>1. S!Schedule
    BY <1>1 DEF BeginStep
  <2>2. UNCHANGED <<completed, failed, num_generated>>
    BY <2>1, ScheduleEffect
  <2>3. PICK A \in SUBSET ToSet(waiting) :
          \A r \in Requests : state'[r] = IF r \in A THEN "prefill" ELSE state[r]
    BY <2>1, ScheduleEffect
  <2>4. \A r \in Requests : state'[r] = "new" <=> state[r] = "new"
    BY <2>3, Known DEF SchedulerBooks
  <2>. QED  BY <2>2, <2>4, StatusStays
<1>2. CASE PrefillDone
  <2>1. /\ state[Row] = "prefill" /\ state' = [state EXCEPT ![Row] = "decode"]
        /\ UNCHANGED <<completed, failed, num_generated>>
    BY <1>2 DEF PrefillDone, S!MarkPrefillDone, S!placeVars
  <2>2. state \in [Requests -> {"new", "waiting", "prefill", "decode", "finished"}]
    BY Known DEF SchedulerBooks
  <2>3. \A r \in Requests : state'[r] = "new" <=> state[r] = "new"
    BY <2>1, <2>2
  <2>. QED  BY <2>1, <2>3, StatusStays
<1>3. CASE AdvanceRow
  <2>1. UNCHANGED <<completed, failed, num_generated, state>>
    BY <1>3 DEF AdvanceRow, S!AdvancePrefill, S!placeVars
  <2>. QED  BY <2>1, StatusStays
<1>4. CASE LoadedPrefix
  <2>1. UNCHANGED <<completed, failed, num_generated, state>>
    BY <1>4 DEF LoadedPrefix
  <2>. QED  BY <2>1, StatusStays
<1>5. ASSUME UNCHANGED schedulerVars PROVE UNCHANGED Service!svars
  BY <1>5, StatusStays DEF schedulerVars
<1>6. CASE PrepareRow \/ LookupBlock \/ PrefixMissed \/ ResetRow \/ PrefixRaises \/ SkipRow
             \/ RegisterRow \/ InsertBlock \/ EndPrefill \/ Forward \/ EndDecode
  <2>1. UNCHANGED schedulerVars
    BY <1>6 DEF PrepareRow, LookupBlock, PrefixMissed, ResetRow, PrefixRaises, SkipRow, RegisterRow,
       InsertBlock, EndPrefill, Forward, EmbedRows, ForwardRow, ForwardRaises, Sample, EndDecode
  <2>. QED  BY <1>5, <2>1
<1>. QED  BY <1>1, <1>2, <1>3, <1>4, <1>6 DEF Step, Prefill

(* Clients of the engine see EngineService: tokens for queued requests only,
   the last one completes its request, nothing finished comes back. *)
THEOREM ServiceImplemented == Spec => ImplementsService
<1>1. Init => Service!Init
  <2>. SUFFICES ASSUME Init PROVE Service!Init
    OBVIOUS
  <2>1. /\ completed = {} /\ failed = {} /\ state = [r \in Requests |-> "new"]
        /\ num_generated = [r \in Requests |-> 0]
    BY DEF Init, S!Init
  <2>2. [r \in Requests |-> Status(r)] = [r \in Requests |-> "new"]
    BY <2>1 DEF Status
  <2>. QED  BY <2>1, <2>2 DEF Service!Init
<1>2. IInv /\ [Next]_vars => [Service!Next]_(Service!svars)
  <2>. SUFFICES ASSUME IInv, [Next]_vars PROVE Service!Next \/ UNCHANGED Service!svars
    OBVIOUS
  <2>1. CASE UNCHANGED vars
    BY <2>1, StatusStays DEF vars, schedulerVars
  <2>2. CASE ReportToken
    <3>1. PICK r \in Requests : r = Row
      BY <2>2, RowFacts DEF ReportToken, AtRow, Reporting
    <3>2. Service!Emit(r)
      BY <2>2, <3>1, EmitImplemented
    <3>. QED  BY <3>2 DEF Service!Next
  <2>3. CASE Step /\ ~ReportToken
    BY <2>3, OtherStepsUnseen
  <2>4. ASSUME NEW r \in Requests, AddRequest(r) PROVE Service!Next
    BY <2>4, SubmitImplemented DEF Service!Next
  <2>5. ASSUME NEW r \in Cancellable, Cancel(r) PROVE Service!Next
    <3>1. r \in Requests
      BY RequestsAssumption
    <3>. QED  BY <2>5, <3>1, CancelImplemented DEF Service!Next
  <2>6. ASSUME NEW chunk, NEW tokens, NEW new, Reconfigure(chunk, tokens, new)
        PROVE  UNCHANGED Service!svars
    BY <2>6, StatusStays DEF Reconfigure, S!Reconfigure, S!placeVars
  <2>7. CASE Stopped
    BY <2>1, <2>7 DEF Stopped
  <2>. QED  BY <2>1, <2>2, <2>3, <2>4, <2>5, <2>6, <2>7 DEF Next, Clients
<1>. QED  BY <1>1, <1>2, Invariance, PTL DEF Spec, ImplementsService, Service!Spec

=============================================================================
