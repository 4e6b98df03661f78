------------------------------- MODULE Engine -------------------------------
(***************************************************************************)
(* The engine: one step schedules, runs the prefill batch and then the     *)
(* decode batch through the model against the paged KV cache, reports each *)
(* sampled token to the scheduler and gives back the slots of finished     *)
(* requests.  Scheduler and PagedKVCache are instanced; what is added here *)
(* is the order in which Engine, ModelRunner and the attention layers call *)
(* them, and where an exception leaves a step.                             *)
(*                                                                         *)
(* A step runs under one lock.  It is cut at the calls that may raise, so  *)
(* that the state an exception leaves behind is seen; requests arrive, are *)
(* cancelled and limits change only between steps.                         *)
(*                                                                         *)
(* The K/V of a token is the sequence of tokens it was computed from: the  *)
(* content of the last cell before it, and the token itself.  Sampled      *)
(* tokens are all one token, Sampled.  The cache exists from the start:    *)
(* _ensure_cache makes it in the first step, before anything looks at it.  *)
(***************************************************************************)
EXTENDS Integers, Sequences, FiniteSets, SequencesExt

CONSTANTS
  Requests, Prompt, MaxNew,     \* Prompt[r]: prompt_token_ids of request r
  Chunks, Budgets,              \* values reconfigure may set
  Concurrencies,
  BatchSize,                    \* max_concurrent_requests at the first step
  Blocks, Token, Sampled, Pad,
  BlockSize, MaxSeqLen, NumLayers, MaxEntries, EnablePrefixCache,
  Cancellable                   \* requests whose client has a timeout

(* A prompt has at least one token: the server asks for a non-empty text. *)
ASSUME RequestsAssumption ==
  /\ IsFiniteSet(Requests)
  /\ Prompt \in [Requests -> Seq(Token) \ {<<>>}]
  /\ MaxNew \in [Requests -> Nat]
  /\ Cancellable \subseteq Requests

ASSUME SettingsAssumption ==
  /\ Chunks \subseteq Nat \ {0} /\ Chunks # {}
  /\ Budgets \subseteq Nat \ {0}
  /\ Concurrencies \subseteq Nat
  /\ BatchSize \in Nat \ {0}

ASSUME CacheAssumption ==
  /\ BlockSize \in Nat \ {0} /\ MaxSeqLen \in Nat \ {0}
  /\ NumLayers \in Nat \ {0} /\ MaxEntries \in Nat \ {0}
  /\ EnablePrefixCache \in BOOLEAN
  /\ IsFiniteSet(Blocks)
  (* init_batch: enough blocks for every slot at max_seq_len, no more *)
  /\ Cardinality(Blocks) = BatchSize * ((MaxSeqLen + BlockSize - 1) \div BlockSize)

VARIABLES
  max_concurrent_requests, max_tokens_per_step, waiting, running, completed, failed,
  free_slots, state, batch_idx, prefill_offset, prefill_chunk_size, num_generated,
  prefill_requests, decode_requests, rejected,     \* Scheduler
  free, inUse, refcount, tables, pos, kv, entries, lru, call, raised,
                                                   \* PagedKVCache
  slot_prepared,   \* slot_prepared[r]
  config,          \* the engine's own copy of the tunable settings
  pc,              \* where the current step is
  rows, at,        \* rows of the running batch, and the row it is at
  layer            \* layer of the running forward pass

S == INSTANCE Scheduler WITH PromptLen <- [r \in Requests |-> Len(Prompt[r])],
                             MaxSlots <- BatchSize
C == INSTANCE PagedKVCache WITH Slots <- 0..(BatchSize - 1),
                                Prompts <- {Prompt[r] : r \in Requests},
                                KVValue <- Seq(Token \cup {Sampled, Pad}),
                                Uninit <- <<>>

schedulerVars == <<max_concurrent_requests, max_tokens_per_step, waiting, running, completed,
                   failed, free_slots, state, batch_idx, prefill_offset, prefill_chunk_size,
                   num_generated, prefill_requests, decode_requests, rejected>>
cacheVars == <<free, inUse, refcount, tables, pos, kv, entries, lru, call, raised>>
stepVars == <<pc, rows, at, layer>>
vars == <<schedulerVars, cacheVars, slot_prepared, config, stepVars>>

Init ==
  /\ S!Init
  /\ max_concurrent_requests = BatchSize
  /\ C!Init
  /\ slot_prepared = [r \in Requests |-> FALSE]
  /\ config = [concurrent |-> max_concurrent_requests, budget |-> max_tokens_per_step,
               chunk |-> CHOOSE c \in Chunks : TRUE]
  /\ pc = "idle" /\ rows = <<>> /\ at = 1 /\ layer = 0

(* The members of R, in the order of q. *)
InOrder(q, R) ==
  LET picked[i \in 0..Len(q)] ==
        IF i = 0 THEN <<>>
        ELSE IF q[i] \in R THEN Append(picked[i - 1], q[i]) ELSE picked[i - 1]
  IN picked[Len(q)]

-----------------------------------------------------------------------------
(* Between steps *)

AddRequest(r) ==
  /\ pc = "idle"
  /\ S!AddRequest(r, config.chunk)
  /\ UNCHANGED <<cacheVars, slot_prepared, config, stepVars>>

(* _cancel_request, on the timeout of generate().  It would reset the slot
   the request still has after scheduler.cancel_request. *)
Cancel(r) ==
  /\ pc = "idle"
  /\ state[r] \in {"waiting", "prefill", "decode"}
  /\ S!CancelRequest(r)
  /\ IF batch_idx'[r] # S!NoSlot THEN C!ResetSlot(batch_idx'[r]) ELSE UNCHANGED cacheVars
  /\ UNCHANGED <<slot_prepared, config, stepVars>>

(* Slip: the engine takes the new concurrency before the scheduler agreed. *)
Reconfigure_SetsFirst(chunk, tokens, new) ==
  /\ pc = "idle"
  /\ new > 0
  /\ S!Reconfigure(tokens, new, TRUE)
  /\ config' = [concurrent |-> new, budget |-> tokens, chunk |-> chunk]
  /\ UNCHANGED <<cacheVars, slot_prepared, stepVars>>

(* reconfigure: chunk size and budget are set before the scheduler is asked,
   the concurrency after it has agreed *)
Reconfigure(chunk, tokens, new) ==
  /\ pc = "idle"
  /\ new > 0
  /\ S!Reconfigure(tokens, new, TRUE)
  /\ config' = [concurrent |-> IF rejected' THEN config.concurrent ELSE new,
                budget |-> tokens, chunk |-> chunk]
  /\ UNCHANGED <<cacheVars, slot_prepared, stepVars>>

-----------------------------------------------------------------------------
(* A step.  Each batch is prepared, run forward and reported row by row. *)

Row == rows[at]
RowSlot == batch_idx[Row]
AtRow(p) == pc = p /\ at <= Len(rows)
PastRows(p) == pc = p /\ at > Len(rows)
NextRow(p) == pc' = p /\ at' = at + 1 /\ UNCHANGED <<rows, layer>>
Goto(p) == pc' = p /\ UNCHANGED <<rows, at, layer>>

(* step(): nothing to do without work; schedule(), then _run_prefill *)
BeginStep ==
  /\ pc = "idle"
  /\ S!Schedule
  /\ pc' = "prepare"
  /\ rows' = InOrder(running', prefill_requests')
  /\ at' = 1 /\ layer' = 0
  /\ UNCHANGED <<cacheVars, slot_prepared, config>>

(* ModelRunner.prefill: a row seen for the first time looks for its prefix *)
PrepareRow ==
  /\ AtRow("prepare")
  /\ IF slot_prepared[Row]
     THEN NextRow("prepare") /\ UNCHANGED cacheVars
     ELSE C!TryLoadPrefix(RowSlot, Prompt[Row]) /\ Goto("load")
  /\ UNCHANGED <<schedulerVars, slot_prepared, config>>

LookupBlock ==
  /\ AtRow("load") /\ C!MatchBlock
  /\ UNCHANGED <<schedulerVars, slot_prepared, config, stepVars>>

(* Slip: prefill starts at the first token in spite of the hit. *)
LoadedPrefix_KeepsOffset ==
  /\ AtRow("load") /\ C!LoadHit
  /\ slot_prepared' = [slot_prepared EXCEPT ![Row] = TRUE]
  /\ NextRow("prepare")
  /\ UNCHANGED <<schedulerVars, config>>

(* a hit moves prefill_offset behind the prefix *)
LoadedPrefix ==
  /\ AtRow("load") /\ C!LoadHit
  /\ prefill_offset' = [prefill_offset EXCEPT ![Row] = C!MatchedBlocks * BlockSize]
  /\ slot_prepared' = [slot_prepared EXCEPT ![Row] = TRUE]
  /\ NextRow("prepare")
  /\ UNCHANGED <<max_concurrent_requests, max_tokens_per_step, waiting, running, completed,
                 failed, free_slots, state, batch_idx, prefill_chunk_size, num_generated,
                 prefill_requests, decode_requests, rejected, config>>

(* nothing matched, or there is no prefix cache to match in *)
PrefixMissed ==
  /\ AtRow("load")
  /\ IF EnablePrefixCache THEN C!LoadMiss ELSE UNCHANGED cacheVars
  /\ Goto("reset")
  /\ UNCHANGED <<schedulerVars, slot_prepared, config>>

ResetRow ==
  /\ AtRow("reset")
  /\ IF prefill_offset[Row] = 0 THEN C!ResetSlot(RowSlot) ELSE UNCHANGED cacheVars
  /\ slot_prepared' = [slot_prepared EXCEPT ![Row] = TRUE]
  /\ NextRow("prepare")
  /\ UNCHANGED <<schedulerVars, config>>

PrefixRaises ==
  /\ AtRow("load") /\ C!LoadRejected
  /\ Goto("raised")
  /\ UNCHANGED <<schedulerVars, slot_prepared, config>>

(* The tokens a row feeds the model: the next chunk of a prompt, or the last
   sampled token.  Rows are padded on the left to the width of the batch;
   the attention takes the last valid_len of a row, and -0 is all of it. *)
IsPrefill(r) == state[r] = "prefill"
ValidLen(r) == IF IsPrefill(r) THEN S!ChunkTokens(r) ELSE 1
Width == Max({ValidLen(rows[i]) : i \in DOMAIN rows})
(* Slip: every chunk is taken from the start of the prompt. *)
RowTokens_FromStart(r) ==
  IF ~IsPrefill(r) THEN <<Sampled>> ELSE SubSeq(Prompt[r], 1, ValidLen(r))
RowTokens(r) ==
  IF ~IsPrefill(r) THEN <<Sampled>>
  ELSE IF ValidLen(r) = 0 THEN [i \in 1..Width |-> Pad]
  ELSE SubSeq(Prompt[r], prefill_offset[r] + 1, prefill_offset[r] + ValidLen(r))

(* GptModel looks the absolute positions up in a table of max_seq_len rows *)
PositionsInRange ==
  \A i \in DOMAIN rows :
    LET n == IF Width = 1 THEN 1 ELSE ValidLen(rows[i])
    IN n > 0 => pos[batch_idx[rows[i]]] + n <= MaxSeqLen

EmbedRows ==
  /\ \/ PastRows("prepare") /\ rows # <<>>
     \/ pc = "decode"
  /\ pc' = IF PositionsInRange THEN "forward" ELSE "raised"
  /\ at' = 1
  /\ UNCHANGED <<schedulerVars, cacheVars, slot_prepared, config, rows, layer>>

(* What the attention of this layer stores: K/V over everything cached. *)
PastKV ==
  LET cell == C!Resolve(tables[RowSlot], pos[RowSlot] - 1)
  IN IF pos[RowSlot] = 0 THEN <<>> ELSE kv[layer][cell[1]][cell[2]]
NewKV == [i \in 1..Len(RowTokens(Row)) |-> PastKV \o SubSeq(RowTokens(Row), 1, i)]

(* one row of one layer; after the last row comes the next layer *)
ForwardRow ==
  /\ AtRow("forward")
  /\ C!AppendStored(RowSlot, layer, NewKV)
  /\ at' = IF at < Len(rows) THEN at + 1 ELSE 1
  /\ layer' = IF at < Len(rows) THEN layer ELSE (layer + 1) % NumLayers
  /\ pc' = IF at = Len(rows) /\ layer = NumLayers - 1 THEN "sample" ELSE pc
  /\ UNCHANGED <<schedulerVars, slot_prepared, config, rows>>

ForwardRaises ==
  /\ AtRow("forward")
  /\ \/ C!AppendExhausted(RowSlot, layer, NewKV)
     \/ C!AppendTooLong(RowSlot, layer, NewKV)
  /\ Goto("raised")
  /\ UNCHANGED <<schedulerVars, slot_prepared, config>>

(* Sampling reads the last position of each row: a batch of width zero has
   none. *)
Sample ==
  /\ pc = "sample"
  /\ pc' = IF Width = 0 THEN "raised"
           ELSE IF IsPrefill(Row) THEN "advance" ELSE "token"
  /\ UNCHANGED <<schedulerVars, cacheVars, slot_prepared, config, rows, at, layer>>

AdvanceRow ==
  /\ AtRow("advance")
  /\ S!AdvancePrefill(Row, prefill_offset[Row] + ValidLen(Row))
  /\ at' = IF at < Len(rows) THEN at + 1 ELSE 1
  /\ pc' = IF at < Len(rows) THEN "advance" ELSE "report"
  /\ UNCHANGED <<cacheVars, slot_prepared, config, rows, layer>>

(* _run_prefill: a row whose prompt is not complete has no token *)
SkipRow ==
  /\ AtRow("report") /\ Row \notin prefill_requests
  /\ NextRow("report")
  /\ UNCHANGED <<schedulerVars, cacheVars, slot_prepared, config>>

RegisterRow ==
  /\ AtRow("report") /\ Row \in prefill_requests
  /\ C!RegisterPrefix(RowSlot, Prompt[Row])
  /\ Goto("insert")
  /\ UNCHANGED <<schedulerVars, slot_prepared, config>>

InsertBlock ==
  /\ AtRow("insert") /\ C!Insert
  /\ UNCHANGED <<schedulerVars, slot_prepared, config, stepVars>>

PrefillDone ==
  /\ AtRow("insert") /\ call = C!Idle
  /\ S!MarkPrefillDone(Row)
  /\ Goto("token")
  /\ UNCHANGED <<cacheVars, slot_prepared, config>>

(* mark_decode_done, and _release_cache_slot when that finished the request *)
ReportToken ==
  /\ AtRow("token")
  /\ S!MarkDecodeDone(Row)
  /\ IF state'[Row] = "finished" THEN C!ResetSlot(RowSlot) ELSE UNCHANGED cacheVars
  /\ NextRow(IF Row \in prefill_requests THEN "report" ELSE "token")
  /\ UNCHANGED <<slot_prepared, config>>

(* _run_decode follows when there are decode rows *)
EndPrefill ==
  /\ \/ PastRows("report")
     \/ pc = "prepare" /\ rows = <<>>
  /\ rows' = InOrder(running, decode_requests)
  /\ pc' = IF decode_requests = {} THEN "idle" ELSE "decode"
  /\ at' = 1
  /\ UNCHANGED <<schedulerVars, cacheVars, slot_prepared, config, layer>>

EndDecode ==
  /\ PastRows("token")
  /\ pc' = "idle" /\ rows' = <<>> /\ at' = 1
  /\ UNCHANGED <<schedulerVars, cacheVars, slot_prepared, config, layer>>

Prefill == PrepareRow \/ LookupBlock \/ LoadedPrefix \/ PrefixMissed
             \/ ResetRow \/ PrefixRaises \/ AdvanceRow \/ SkipRow \/ RegisterRow
             \/ InsertBlock \/ PrefillDone \/ EndPrefill
Forward == EmbedRows \/ ForwardRow \/ ForwardRaises \/ Sample
Step == BeginStep \/ Prefill \/ Forward \/ ReportToken \/ EndDecode

Clients ==
  \/ \E r \in Requests : AddRequest(r)
  \/ \E r \in Cancellable : Cancel(r)
  \/ \E chunk \in Chunks, tokens \in Budgets, new \in Concurrencies :
       Reconfigure(chunk, tokens, new)

(* Nothing is left to do, or an exception has left step(). *)
Stopped ==
  /\ pc = "raised" \/ (pc = "idle" /\ \A r \in Requests : state[r] = "finished")
  /\ UNCHANGED vars

Next == Step \/ Clients \/ Stopped
Spec == Init /\ [][Next]_vars

-----------------------------------------------------------------------------
TypeOK ==
  /\ S!TypeOK
  /\ C!TypeOK
  /\ slot_prepared \in [Requests -> BOOLEAN]
  /\ config \in [concurrent : 1..BatchSize, budget : Budgets, chunk : Chunks]
  /\ pc \in {"idle", "prepare", "load", "reset", "decode", "forward", "sample", "advance",
             "report", "insert", "token", "raised"}
  /\ rows \in Seq(Requests)
  /\ at \in 1..(Len(rows) + 1)
  /\ layer \in 0..(NumLayers - 1)

(* What a request has had the model read: its prompt and what was sampled. *)
History(r) == Prompt[r] \o [i \in 1..num_generated[r] |-> Sampled]

(* The K/V a running request attends to is that of its own tokens, in order
   and from the first: whatever the chunking, a prefix taken over from an
   earlier request, the slot's previous owner, an eviction or the blocks'
   reuse.  Anything else changes the output without an error.  Between steps
   the write cursor of its slot is where the request says it is: at
   prefill_offset during prefill, one short of the history after it (the last
   sampled token is not cached yet). *)
Attended(r, s) ==
  /\ pos[s] <= Len(tables[s]) * BlockSize /\ pos[s] <= Len(History(r))
  /\ \A l \in 0..(NumLayers - 1), p \in 0..(pos[s] - 1) :
       LET cell == C!Resolve(tables[s], p)
       IN kv[l][cell[1]][cell[2]] = SubSeq(History(r), 1, p + 1)
Cursor(r) == IF IsPrefill(r) THEN prefill_offset[r] ELSE Len(History(r)) - 1
CachedIsHistory ==
  \A r \in ToSet(running) : slot_prepared[r] =>
    /\ Attended(r, batch_idx[r])
    /\ pc = "idle" => pos[batch_idx[r]] = Cursor(r)

(* The tokens a step feeds the model stay within max_tokens_per_step although
   the batch was sized before the prefix lookups moved prefill_offset. *)
StepWithinBudget ==
  pc = "forward" /\ IsPrefill(Row) =>
    Cardinality(decode_requests) +
      MapThenSumSet(LAMBDA r : Len(RowTokens(r)), ToSet(rows)) <= max_tokens_per_step

(* To the threads that use it the engine is an EngineService: tokens come
   for queued requests only, the last one completes its request, and what has
   completed or been cancelled never comes back. *)
Status(r) == IF r \in completed THEN "completed" ELSE IF r \in failed THEN "failed"
             ELSE IF state[r] = "new" THEN "new" ELSE "queued"
Service == INSTANCE EngineService WITH status <- [r \in Requests |-> Status(r)],
                                       emitted <- num_generated
ImplementsService == Service!Spec

(* What fails half way leaves the books right.  After an exception out of a
   step (a pool run dry in the middle of a batch, a refused prefix, a row too
   long) every block and every slot is still with exactly those who hold it;
   after a reconfigure that raised, engine and scheduler have the same limits. *)
BooksRight ==
  /\ C!PoolExact /\ C!CleanupCannotRaise /\ S!SlotPartition /\ S!OnePlace
  /\ config.budget = max_tokens_per_step
  /\ config.concurrent = max_concurrent_requests

(* A slot on the free list holds no blocks: they are back in the pool. *)
ReleasedSlotIsEmpty ==
  pc = "idle" => \A s \in ToSet(free_slots) : tables[s] = <<>>

(* ModelRunner.prefill returns the first sampled token when the full prompt
   has been cached: its logits have a last position to sample it from. *)
FirstTokenCanBeSampled == pc = "sample" => Width > 0
=============================================================================
