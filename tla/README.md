# TLA+ models of nifre

nifre is a continuous-batching inference server: an engine that schedules many
generation requests over one model, a paged KV cache with prefix sharing, a
worker thread that steps the engine for HTTP clients, and a controller that
tunes the engine at run time. This directory models its core logic, checks it
with TLC and proves the main safety properties with TLAPS. Paths below are
relative to the repository (`src/inference/...`).

## The system

| Component | State it keeps | Operations | Modelled in |
|---|---|---|---|
| Block pool, block tables (`block_allocator.py`, `block_table.py`) | free list, in-use set, reference counts; physical blocks per slot | `allocate_many`, `retain`, `release`, `free_many`; `ensure_capacity`, `resolve`, `import_blocks`, `clear` | `PagedKVCache` |
| Prefix cache (`prefix_cache.py`) | ordered map from chained hash to block | `lookup`, `insert`, `_evict_oldest` | `PagedKVCache` |
| Paged KV cache (`paged_kv_cache.py`) | K/V store, write cursor per slot | `try_load_prefix`, `register_prefix`, `append`, `get`, `reset_slot` | `PagedKVCache` |
| Scheduler (`scheduler.py`, `data_model.py`) | waiting queue, running map, completed, failed, free slots, limits | `add_request`, `schedule`, `mark_prefill_done`, `mark_decode_done`, `cancel_request`, `reconfigure` | `Scheduler` |
| Engine, model runner, batching, attention (`engine.py`, `model_runner.py`, `batching.py`, `attention.py`, `models/gpt.py`) | requests, the engine's copy of the limits, callbacks | `add_request`, `step`, `_cancel_request`, `reconfigure` | `Engine` |
| Engine worker (`engine_worker.py`) | lock, condition, stop flag, thread | `start`, `stop`, `generate`, `generate_stream`, `reconfigure`, `_loop` | `EngineWorker` |
| Dense KV cache (`kv_cache.py`) | K/V rows, cursors | `append`, `get`, `reset_slot` | `KVCache` |
| HF KV cache (`hf_kv_cache.py`, `backends/hf_auto.py`) | `past_key_values` per slot, copied prefix blocks | `set_past`, `register_prefix`, `try_load_prefix`, `reset_slot` | `HFKVCache`, `HFEngine` |
| Tuning (`autotune/`, `observability/optimization.py`) | pending attempt, cooldown, goal, thread, queue samples, counts of attempts | `tick`, `start`, `stop`, `set_goal`; evaluate, promote, roll back | `TuningPolicy`, `TuningController` |
| Metrics (the rest of `observability/`) | totals, latency windows, time series | `on_*` callbacks, `snapshot` | `EngineMetrics` (totals), `MetricsStore` (snapshots) |
| HTTP server (`server.py`, `openai_api.py`) | a token held back per stream | `completions`, blocking and streamed | `Completions`; the tuning routes in `TuningController`, the metrics route in `MetricsStore` |
| Load generator (`bench.py`, `server_metrics.py`) | counts under a lock, client threads | `run_bench`, `send`, `fetch_server_metrics` | `Bench` |
| Model backends, sampler, runtime probe, `generate.py`, `compare.py` | none of their own | weights, tensors, device counters, reports | not modelled |

How they interact. Clients call the worker, which takes one lock, queues the
request in the engine and polls for its completion. The worker thread takes the
same lock for a whole `Engine.step()`. A step asks the scheduler for a prefill
and a decode batch, has the model runner load cached prefixes and run the model
(each attention layer reads and appends to the cache), registers finished
prompts in the prefix cache, and reports each token to the scheduler, which
gives slots back. The tuning controller reads metrics and configuration from
its own thread and changes the configuration through the worker's lock. A
metrics snapshot (a dashboard's, the tuner's, a benchmark's) reads the
scheduler's queues without any lock and the store partly under the store's.

What is hard here, and what makes each part correct:

- **Pool and sharing.** A block may be held by a slot, by several slots and by
  the prefix cache at once, and is released by whichever order of finishes,
  cancels and evictions happens. Counts must match holders, nobody may write to
  a shared block, a block must stay at its place in the sequence, and cleaning
  up must never meet a state in which the allocator raises.
- **Scheduling.** Slots move between a free list and requests through
  admission, finish, cancel and reconfigure. No slot may be lost or given
  twice, a request is in one place, admission is in order of arrival, a step
  stays within its token budget without leaving work out needlessly, and
  whoever is queued is served.
- **Step.** Batches are sized before prefix lookups move the prefill offset;
  blocks evicted while one row registers its prompt may be needed by another;
  rows are padded; an exception can leave a step at any call. A request must
  attend to its own tokens at their own positions and to nothing else.
- **Worker.** Threads, stop and timeouts against a step in progress; a stream
  that reads its queue without the lock. Nothing may be lost, nobody may wait
  for ever.
- **Tuning.** A change is applied in one tick, judged ticks later and kept or
  taken back, while admin handlers start and stop the loop, change its goal, and
  may leave an old loop running beside a new one. A trial must be judged, a
  failed one undone whole, and no trial may leave settings that stop the engine.
- **Metrics.** Each place where a request leaves reports it itself, and prefill
  is counted around the call that looks up prefixes. Totals must agree with what
  happened. A snapshot looks at several things at several times while the engine
  goes on; what it shows must still add up, and it may raise.
- **HTTP.** A stream of events runs one token behind the worker's stream. What a
  client has been sent must be the tokens, each once, whenever it leaves or the
  server stops.
- **Load generator.** Its threads time out on, or die over, requests the server
  completes all the same. The two counts may differ by those only, and the run
  must end.

## Modules

- `BlockOwnership` - what the pool promises: a block is in the pool or held by
  a non-empty set of holders; it leaves the pool for one holder, gains others
  while held, and is back in the pool in the step its last holder lets go.
- `PagedKVCache` - allocator, block tables, prefix cache and K/V store in
  detail. One action per call, except that `lookup` and `insert` take one block
  per action (`call` is where they are), because their eviction and retention
  steps happen one by one. It implements `BlockOwnership` (`ImplementsOwnership`).
- `SlotCache` - what any KV cache promises the attention layers: what `get`
  returns for a slot grows at its end or is emptied by calls for that slot and
  by nothing else; blocks kept under a prompt's prefixes stay as they were and
  may be loaded instead of computed again. `PagedKVCache` and `KVCache` both
  implement it (`ImplementsSlotCache`), with what `get` returns as the mapping.
- `KVCache` - the dense cache: rows, write cursors, nothing ever erased.
- `Scheduler` - the scheduler and the request fields it changes. The rows of
  the last `ScheduleResult` still to be reported are two sets.
- `Engine` - instances of both, and the order in which a step calls them: `pc`
  is the place in `step()`, `rows` and `at` the batch and the row, `layer` the
  attention layer. A step is cut wherever a call may raise, so the state an
  exception leaves is a state of the model (`pc = "raised"`).
- `HFKVCache`, `HFEngine` - the same step on the Hugging Face backend: a past per
  slot that the model extends itself, row by row, and a prefix cache of copies.
  `memory` counts the tokens copied.
- `EngineMetrics` - `HFEngine` with the collector attached: each action that
  reports something changes the store's totals too. `reused` and `prefilled` are
  the properties' own.
- `EngineService` - what the engine promises to threads: tokens for queued
  requests only, completion with the last one, no return from completed or
  failed. `Engine` implements it (`ImplementsService`).
- `EngineWorker` - the worker thread, blocking and streaming clients and the
  main thread over the state of `EngineService`. `wpc`, `mpc` and `cpc[r]` say
  where the threads are, `lock` whether the worker holds the lock (a client
  holds it within one action), `token_queue` and `yielded` count tokens, whose
  order a queue keeps.
- `Completions` - the HTTP handlers over `EngineWorker`: `pending[r]` is 1 while a
  token is held back, `sent[r]` counts events with a text, `event[r]` is the kind
  of the last one. A blocking completion is a client of `generate` and no more.
- `TuningPolicy` - the classifier's labels, the policy's plan for them, and the
  judgement of a trial, as operators.
- `TuningController` - the tuning loops (`pc[l]`), the admin handlers (`apc[a]`)
  and the settings they change through the worker's lock. `pending`, `goal`,
  `thread`, `enabled` are the controller's fields, `attempted`, `promoted`,
  `rolledBack` the tracker's. `job[l]` and `seen[l]` are a loop's locals; two
  variables are the properties' own, `accepted` (the settings nobody is trying
  out) and `overlapped` (whether two loops were ever alive at once).
- `MetricsStore` - readers of `snapshot()` (`rpc[d]`, `view[d]`) while requests
  go through the queues and are reported. `disturbed` holds the readers that
  iterate over a series which has grown since they began: CPython's deque then
  raises (`CopyRaises`), unless the series that grew was done with (`Copied`).
- `Bench` - `run_bench` on top of `MetricsStore`: `tpc[t]` is where a client
  thread is, `prompt_index`, `sent`, `ok`, `failed` are its variables; the
  reader "bench" is its one fetch of the server's metrics.
- `PagedKVCacheProofs`, `SchedulerProofs`, `EngineProofs`, `EngineHistoryProofs`,
  `HFEngineProofs`, `CompletionsProofs`, `TuningControllerProofs`, `BenchProofs` -
  theorems.
- `MC...` - constants for TLC.

Correspondence of state: variables have the names of the fields they model
(`waiting`, `running`, `free_slots`, `prefill_offset`, `entries`, `pos`, ...).
`free` is the free list as a bag (which of the free blocks is handed out is
left open), `kv[l][b][o]` the cell at offset o of block b in layer l, `lru` the
order of the ordered dict `entries`, `raised` the exception of the last call.
`PROJECT.json` maps each definition to its lines.

Abstractions. A chained hash is the token prefix it was computed from (hash
collisions are left out). In `PagedKVCache` a K/V cell holds an arbitrary
value; in `Engine` it holds the token sequence it was computed from, so that
"attends to the right tokens" becomes a statement about states: the content of
a cell is the content of the cell before it, extended by one token. Freed
blocks read as uninitialized. In `HFKVCache` a past is the tokens it was
computed from, one layer stands for all, and no past (None) is the empty one;
`HFEngine` leaves reconfiguration to `Engine`. All sampled tokens are one token. The time of
a client's deadline is arbitrary: `Cancel` may happen between any two steps.
The engine's cache exists from the start; before the first step nothing looks
at it. In `Engine`, therefore, concurrency is only lowered; raising it before
the first step is covered in `Scheduler` (`cache_initialized`).

`TuningController` keeps times as ages, moved by `TimePasses` up to the cap
beyond which the code tells no two apart, and drops a queue sample when no later
`observe` would keep it. What `observability.snapshot()` shows is any element
of `Readings`, or an exception (`SnapshotRaises`); whether requests are in the
way of fewer slots is left open.

`MetricsStore` keeps of the store the completions: their total and the deque of
their timestamps, whose entries are the requests themselves, so that a rate can
be compared with the truth. Any step that is reported makes series grow. In
`Bench`, a request is the number its prompt was taken under; the server may
answer or not.

Operators whose comment begins with "Slip" are plausible mistakes in the code,
used by no specification. Each stands before the definition it would replace;
`PROJECT.json` ("mutants") says which property fails when it does.

## Runs

| Run | Checks | Bounds |
|---|---|---|
| `paged_cache` | `PoolExact`, `BlockKeepsIndex`, `CleanupCannotRaise`, `LruExact`, `OnlyPinsExhaust`, `ImplementsOwnership`, `ImplementsSlotCache`, under any order of calls | 2 slots, 4 blocks of 2 tokens, max_seq_len 4, 2 prefix entries, 3 prompts, 1 layer, 2 contents of a cell |
| `scheduler` | `SlotPartition`, `OnePlace`, `BatchWithinBudget`, `FirstComeFirstServed` | 3 requests, up to 3 slots, prompts of 1 to 3 tokens, chunks 1-2, budgets 2-3 |
| `scheduler_stuck` | `DeferredRowRuns` fails | 1 slot, chunk 2, budget 1 |
| `engine` | `CachedIsHistory`, `StepWithinBudget`, `BooksRight`, `ImplementsService` | 3 requests, 2 of them sharing a first block and one that grows too long, 2 slots, 2 layers, 6 blocks, chunks 2-3, budget 3, 2 prefix entries, every request may be cancelled, concurrency lowered |
| `engine_cancel` | `ReleasedSlotIsEmpty` fails | 1 cancellable request |
| `engine_aligned` | `FirstTokenCanBeSampled` fails | the same whole-block prompt twice |
| `worker` | `StreamDeliversAll`, `EventsAreTokens`, `ClientReturns`, `StopEndsThread` | a blocking client, one with a timeout, a streamed completion of 2 tokens that may be left; any number of stops and starts, a crash |
| `hf_engine` | `PastIsHistory`, `CopiesTrue`, `OnlyLongRaises`, `EveryRequestServed`, `RequestsAccounted`, `PromptTokensCounted` | 3 requests, 2 with the same whole-block prompt, 1 too long, 2 slots, blocks of 2, chunks of 1 and 3, budgets 3 and 6, 2 prefix entries, every request may be cancelled |
| `hf_reuse_ratio` | `ReuseRatioTrue` fails | the same |
| `tuning` | `SettingsInBounds`, `CacheShapeKept`, `AttemptsAccounted`, `TrialUndone`, `AttemptSettles` | the code's steps, bounds and thresholds; a unit of time is 30 s; 1 loop, 1 handler, 2 attempts, 3 samples in the window, 3 readings that between them set every label, all goals |
| `tuning_two_loops` | `EveryAttemptJudged` fails | the same with 2 loops and 2 handlers |
| `load_test` | `SnapshotCountsOnce`, `RateSaturates`, `ReportAddsUp`, `BenchReturns` | 2 client threads, 2 prompts, 1 slot, a deque of 1 timestamp, a window of 1; the benchmark's one snapshot and a dashboard that polls |

Why the bounds are enough to be interesting. Two slots and two entries are the
least with which sharing between slots, between a slot and the cache, partial
hits, evictions of a parent before its child and an exhausted pool occur; two
tokens per block the least with which a block can be partly filled. Three
requests on two or three slots give queueing, reuse of a slot, a mixed batch of
prefill and decode rows and rows that do not fit. Two layers are the least with
which the cursor moves after the last layer only. Blocks are interchangeable
(`SYMMETRY` in `engine` and `paged_cache`, which check no liveness). Every
request, step and queue is bounded by the set of requests, which each arrive
once. The prompts of run `engine` do not end at a block boundary: those that do
are the subject of `engine_aligned`. The runs have the prefix cache enabled;
without it `try_load_prefix` and `register_prefix` do nothing, which the proofs
about `PagedKVCache` cover (`EnablePrefixCache` is any Boolean) and no run does.
In `load_test` one slot and one timestamp make the second request wait for the
slot and push the first out of the deque, a window of 1 lets a completion leave
it, and `MaxPrompts` bounds what the threads send before the time is over.

Fairness. `Scheduler!FairSpec`, `HFEngine!FairSpec` and
`EngineMetrics!MetricsFairSpec` assume weak fairness of stepping only: the worker
thread calls `step()` in a loop for as long as there is work
(`engine_worker.py`, `_loop`; `Engine.run_until_done`). Nothing is assumed of
clients, cancellation or reconfiguration. `EveryRequestServed` needs two
conditions, which the runs choose and the code does not enforce: no chunk is
larger than the smallest budget, and no exception leaves a step. In `HFEngine`
only an overlong request raises (`OnlyLongRaises`), so the property is stated
for behaviours without one.

`EngineWorker!FairSpec` lets the threads run (weak fairness of the worker's
loop and of each client) and takes over from the engine that a queued request
gets its tokens: a step may yield a token for each queued request, and strong
fairness of `Report(r)` stands for `EveryRequestServed`. The lock is not assumed
fair: a client gets it for sure only while it stays free, which it does once the
worker has nothing to do, since a finite number of requests is submitted. The
condition's timeout makes every notify dispensable, so the model has none.

`CompletionsFairSpec` adds that a handler goes on whenever its stream or its
client's socket lets it. A client may leave at any time and need not.

`BenchFairSpec` lets the time of the test run out, the client threads run, time
out or die, and `run_bench` join them and fetch. The server, its engine and the
dashboard are not assumed to do anything, so `BenchReturns` holds against a
server that never answers.

`TuningController!FairSpec` lets time pass and each live loop go on; handlers
are free to come or not. Metrics that are asked for again and again are returned
in the end (strong fairness of `LookForRegression`): a snapshot raises only when
a series grows during the few lines that copy it. A loop waits for the worker's
lock without a bound on the time; that it gets it is `EngineWorker`'s matter.

## What the failing runs show

- `scheduler_stuck`: with `prefill_chunk_size` above `max_tokens_per_step`,
  `schedule` passes the row over in every step; the request is never run,
  while `step` returns True for ever.
- `engine_cancel`: `cancel_request` clears `batch_idx` before
  `Engine._cancel_request` tests it, so the slot of a cancelled request is
  never reset. Its blocks stay taken; when a later request in the slot hits the
  prefix cache, `import_blocks` raises. A miss resets the slot, and so does the
  end of a later request, which is why `CachedIsHistory` holds all the same.
- `engine_aligned`: `PrefixCache.lookup` may match a prompt to its last token.
  Alone in its batch such a row leaves nothing to sample from. In a wider
  batch the row is sliced with `-0`, so its padding is run through the model as
  if it were prompt; the model represents that too (`RowTokens`).
- `hf_reuse_ratio`: the tokens of a chunk are counted before the prefix lookup
  shortens it, and the hit stays on the request and is reported with every chunk.
  Neither total of the published ratio is what its name says.
  `PromptTokensCounted` says how far apart they can be.
- `tuning_two_loops`: nothing orders two calls of `start`. Two handlers that
  both find no live thread each make one, and two loops run. (There is a second
  way: `stop` waits for the loop's thread with a timeout and then forgets it; a
  loop that waits for the worker's lock outlives the join, and `start` clears
  the flag it was to see.) Both loops find no attempt pending; the attempt noted
  second replaces the first, which is neither promoted nor rolled back and whose
  settings stay. `AttemptsAccounted` and `TrialUndone` say that this is the only
  way (`overlapped`).

`ClientReturns` states what else can keep a client waiting: no thread and a
clear flag, which is what an exception of `step` leaves, and what `start()` after
`stop()` leaves, as it clears the flag before it fails to start the thread again. It counts an
error as an end: `generate` looks at the flag before the result, so a request
that the last step before `stop()` completes ends in an error too.

`TimeSeries.as_list` reads a deque without the store's lock
(`observability/metrics_store.py:47`, in a file whose store is documented as
thread-safe, `:51`), and CPython raises when a deque grows under an iteration.
The models follow the exception to where it ends: the dashboard's request fails
and is made again (`CopyRaises`, `Again`), the benchmark reports without the
server's metrics (`BenchReturns` holds with or without them), and the tuning
loop logs it and loses one tick (`SnapshotRaises`), after which `AttemptSettles`
still holds. Totals are read outside the lock too; `SnapshotCountsOnce` and
`ReportAddsUp` say what stays true of them.

`EventsAreTokens` says what a client of a streamed completion has been sent
whenever it ends: the tokens so far, each once. A stream that `stop()` ends
between two polls looks complete to the handler, which sends its closing events;
tokens still in the queue are lost without an error, and the property allows for
that only when the worker was told to stop or a step raised.

Run `engine` contains the other ways out of a step: the prefix cache
pins blocks, so that a slot within its rights finds the pool empty
(`OnlyPinsExhaust` says that this is the only way), and a request longer than
max_seq_len fails in the middle of a batch. In each case every block and slot
is still with those who hold it.

## Proofs

The theorems hold for every number of slots, blocks, requests, tokens and
layers, every block size, chunk and budget, from the assumptions named in the
modules: sizes are positive, slots, blocks and requests finite, prompts
sequences of tokens.

Every invariant a passing run checks is proved, and so are the action properties
and the refinements (two of them for prompts that are `Unaligned`, see below);
what is left to TLC is named at the end of this section.

`PagedKVCacheProofs` proves `TypeOK`, `PoolExact`, `BlockKeepsIndex`,
`CleanupCannotRaise`, `LruExact`, `SharedBelowCursor`, the action property
`SharedNotWritten`, and that `PagedKVCache` implements `BlockOwnership`
(`SharedBelowCursor` and `SharedNotWritten` are repeated by no run). The
properties lean on each other: counts are exact only if tables have no
duplicates, which holds only if a block never changes its index, which holds
only if keys in the cache agree with the index of their block and a running
`insert` reads the block its key stands for. Hence one inductive invariant, the
conjunction of the six and of what is true in the middle of a `lookup` or
`insert` (what was matched is still cached, the slot being registered has the
tokens). Counting arguments rest on lemmas about the cardinality of the set of
holders when one holder joins or leaves. `SharedNotWritten` follows from
`SharedBelowCursor`: an append touches only cells at or after the cursor.

Its second half shows that the paged cache implements `SlotCache`
(`PagedCacheKeepsPromise`): an append shows its own slot more and nobody else
anything, since a block of the free list is in no table and no entry, and a
block that a second reader may look at lies below the cursor; an eviction or a
reset clears only blocks nobody holds any more; a prefix hit shows the blocks
kept under the prefix one after the other, whose concatenation
(`FlattenSeq`, a recursive function) is computed in `FlatBlocks`. The
invariant has one more part, that a table has a block for every cached token
(`TablesCover`). `DenseCacheKeepsPromise` is the same of the dense cache, for
every number of layers: between the appends of the first layer and the last,
layers differ in what they hold and not in where the cursor is, and `get`
returns what is below the cursor. `OnlyPinsExhaustIt` proves `OnlyPinsExhaust`
by counting: if every block were in a table, the places in the tables, at least
one of them unused, would be fewer than the blocks that `init_batch` makes.

`SchedulerProofs` proves `TypeOK`, `SlotPartition`, `OnePlace`, `SlotKept`,
`FirstComeFirstServed` and `BatchWithinBudget`. The inductive invariant is
`TypeOK`, `OnePlace` and `SlotPartition` together: that admission does not give
a slot twice needs the partition, and that a request leaving gives back its own
slot needs both. `SlotKept` is left to the proof; no run repeats it. The budget
is used up along the running requests by a recursive function; `BudgetIsKept`
follows from an invariant along that function: what is left after a request and
the sum of what was taken up to it are the budget. Sums over sets (`MapThenSumSet`
chooses an order of its own) are shown not to depend on the order: any sum over
a sequence that lists the set once has the same value. As the induction theorems
of the library cannot be used, a least counterexample is taken instead
(`LeastNat`, from the well-foundedness of strict inclusion).

`EngineProofs` proves `TypeOK`, `BooksRight` and that the engine implements
`EngineService`. The scheduler's and the cache's theorems are reused, not
repeated: both proof modules are instances there, and a step of the engine is a
step of the one, of the other, or of both. What the engine must add is that it
calls them only as they may be called: `CancelRequest` of a request that runs,
`RegisterPrefix` of a prompt that is cached, `Append` to a slot the row owns.
Hence the third part of the invariant, `StepInv`: the rows of a step are
distinct running requests, prefill and decode rows are those that were planned,
the `lookup` or `insert` under way is for the row the step is at, what a request
counts as prefilled is cached, and the chunks of a forward pass that has been
through the last layer are stored.

`EngineHistoryProofs` proves `CachedIsHistory` and `StepWithinBudget`, both under
`Unaligned`: with a prefix cache, no prompt is a whole number of blocks. The
assumption is needed: a prompt that is matched to its last token leaves
nothing to feed, and the engine feeds padding (run `engine_aligned`); TLC
refutes both properties when prompts may be aligned, and the instance of
run `engine` has none. On top of the invariant of `EngineProofs` it has
that the cursor of a slot is exact at each point of a step (`CursorInv`: at
`prefill_offset`, plus the chunk once the last layer has stored it), that every
cell below it, every entry of the prefix cache, and every cell a forward pass
has stored above it is the history of its request up to there (`HistoryInv`),
and that the chunks of the batch, which prefix hits only shrink, and the
decode rows fit the budget (`BudgetInv`).

`HFEngineProofs` proves `TypeOK`, `PastIsHistory`, `CopiesTrue` and
`OnlyLongRaises` of the engine on the Hugging Face backend, and
`RequestsAccounted` and `PromptTokensCounted` of its metrics, for prompts that
end with a block too: this cache never matches the last token. The scheduler's
theorems are reused (`SP`); the cache is small and its invariant is part of this
one. `IInv` has three parts.

- The scheduler's own invariant.
- `StepInv`: the rows of a step are distinct running requests, in prefill and in
  decode as planned (`RowsRun`, `Batches`); a row that has looked up its prefix
  is prepared (`LookedUp`); `prefill_offset` never passes the prompt
  (`OffsetsFit`), has not reached its end before the row is run (`PromptLeft`)
  and has when the row's first token is reported (`PromptsRead`); a request has
  no tokens before its first is reported, and fewer than it may have until it
  leaves (`Counted`).
- `CacheInv`: a prepared row's past is its own tokens up to where it has been fed,
  which is `prefill_offset`, plus the chunk once its forward pass has stored it
  (`PastRight`; `Reach`); each copy is the last block of what its key's tokens
  give (`EntriesRight`); and a lookup has matched blocks of its row's prompt one after
  the other, an insert stores blocks of a prompt that the past contains
  (`CallRight`).

Each needs the others: a past is right after a hit because copies are and because
the lookup under way is the row's, copies are right because an insert runs only
when the whole prompt is in the past, and that no slot's last owner is in the way
rests on a row being reset or loaded before it is run. Nothing is known of the
past of a slot whose request is not prepared; that is how a cancelled request's
leftovers are harmless. `OnlyLongRaises` follows: the length that `set_past`
refuses is the number of tokens the row has by then.

The metrics' invariants stand beside it, since counting changes nothing the
engine looks at (`MetricsInvariance`). `AccountInv` says that each total is a
cardinality or a sum over the requests that have gone, whose sets an action
changes by one request. `TokenInv` says the same in the middle of a prefill:
`total_prefill_tokens` with what is counted and not yet added is the tokens that
were run, plus the chunks of the rows still to run, plus at most what was reused
(`ChunksBooked`, with `Pending`, the rows whose chunk is counted and has not been
run), and hits are noted on requests before they are reported (`HitsBooked`,
`OpenHits`). Sums are those of `SchedulerProofs` (`SP!Total`); what the collector
computes by folding is shown to be such a sum (`FunctionSum`).

`CompletionsProofs` proves `TypeOK` and `StreamDeliversAll` of the worker for any
number of clients. The invariant says for each place a stream can be in what it
has got: its callback is registered from the start, `finished` was true only of a
completed request, for which no step yields another token.

It also proves that the handlers take only steps of the worker's
specification (`CompletionsAreClients`), so that what holds of streams holds
below them, and on top of its invariant `EventsAreTokens`: where the handler is
says how many tokens it holds back; and a stream that has ended, its client
still there, has ended because its request is completed or because the worker
was halted, which lasts: `start()` may clear the flag, but the thread that saw
it set never runs again.

`TuningControllerProofs` proves `SettingsInBounds` and `CacheShapeKept` for any
number of loops and handlers, so also when loops overlap: the settings a loop
applies or goes back to may be older than anything in force. The invariant
therefore speaks of every attempt that a loop holds or that is pending, of the
values it applies and of those it remembers; and it relates the cache to
completed requests, which is why no plan touches slots or the prefix cache.

It also proves `TypeOK`, whose invariant keeps the samples in order of age
(that is why the oldest may be dropped from the front alone), and
`AttemptsAccounted` and `TrialUndone`, for as long as no two loops were alive at
once (run `tuning_two_loops` shows what happens then). While there is one loop,
it alone opens and closes attempts: the invariant `Trial` says for each place of
its code whether an attempt is pending, that its `previous` is what was last
accepted, and that the settings in force are that with the changes of the
attempt merged in.

`BenchProofs` proves `SnapshotCountsOnce`, `RateSaturates` and `ReportAddsUp` of
the load test and everything under it. What a reader has seen running is
running, leaving or completed ever after, so it is not in the queue when the
reader comes to look there: that is why the order of the two looks matters. The
timestamps are the newest completions in order of age; a completion that was
pushed out is no younger than any that is left, so if it is recent they all are
and the deque is full. For the report the invariant counts threads: those with a
prompt not counted yet, and those whose request the server has completed and
which may still call it ok. One completion serves one thread at most, because
each prompt is taken by one; and no thread is left when the metrics are read.

Only model-checked: the liveness properties (`EveryRequestServed`, `ClientReturns`,
`StopEndsThread`, `AttemptSettles`, `BenchReturns`), because fairness and ENABLED
are outside the prover; and that the code does not keep what the failing runs
refute.

## Plan

Done: all modules above, their runs, and the proofs of every safety property a
passing run checks.

## Not modelled

- `generate.py`, `compare.py` and the printing of `bench.py`: one thread that
  calls the engine or `run_bench` and formats what it returns; no state outlives
  a call. `run_bench` itself is modelled.
- Model backends and weights, the sampler, tensor arithmetic: functions of their
  inputs. `Engine` and `HFEngine` model which tokens reach them at which
  positions and what is cached of it.
- `runtime_probe.py`: reads counters of the operating system and the device and
  keeps nothing between calls; the properties tell none of its values apart.
  `TuningController` takes what it feeds into a snapshot from `Readings`.
- Of `server.py` and `server_metrics.py` the validation of requests, JSON, HTML
  and log lines. The routes that change state are modelled where that state is.
- Latency samples and percentiles of the metrics store: pure functions of the
  windows, whose bound is modelled for the completions (`RateSaturates`).
