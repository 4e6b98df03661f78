---------------------------- MODULE EngineMetrics ----------------------------
(***************************************************************************)
(* HFEngine with the metrics collector attached: the totals of             *)
(* MetricsStore, each changed in the action that reports to the collector. *)
(*                                                                         *)
(* Left out are durations, their samples and rates, the number of decode   *)
(* iterations, and errors, a status no caller passes.  reused and prefilled *)
(* are not in the code: the prompt tokens copied from the prefix cache,    *)
(* and those run through the model.                                        *)
(***************************************************************************)
EXTENDS HFEngine

VARIABLES
  total_enqueued, total_completed, total_timeouts,
  total_input_tokens, total_output_tokens,
  total_prefill_tokens, prefix_cache_hits, prefix_cache_tokens_saved,
  prefix_cache_hit_tokens,   \* a field of each request
  tokens_processed,          \* a local of _run_prefill
  reused, prefilled

requestTotals == <<total_enqueued, total_completed, total_timeouts,
                   total_input_tokens, total_output_tokens>>
prefillTotals == <<total_prefill_tokens, prefix_cache_hits, prefix_cache_tokens_saved>>
metricsVars == <<requestTotals, prefillTotals, prefix_cache_hit_tokens, tokens_processed,
                 reused, prefilled>>
allVars == <<vars, metricsVars>>

MetricsInit ==
  /\ Init
  /\ total_enqueued = 0 /\ total_completed = 0 /\ total_timeouts = 0
  /\ total_input_tokens = 0 /\ total_output_tokens = 0
  /\ total_prefill_tokens = 0 /\ prefix_cache_hits = 0 /\ prefix_cache_tokens_saved = 0
  /\ prefix_cache_hit_tokens = [r \in Requests |-> 0]
  /\ tokens_processed = 0 /\ reused = 0 /\ prefilled = 0

-----------------------------------------------------------------------------
(* Requests *)

CountEnqueued(r, chunk) ==
  /\ AddRequest(r, chunk)
  /\ total_enqueued' = total_enqueued + 1
  /\ UNCHANGED <<total_completed, total_timeouts, total_input_tokens, total_output_tokens,
                 prefillTotals, prefix_cache_hit_tokens, tokens_processed, reused, prefilled>>

(* record_completion: a request's tokens are counted when it leaves *)
RecordCompletion(r) ==
  /\ total_input_tokens' = total_input_tokens + Len(Prompt[r])
  /\ total_output_tokens' = total_output_tokens + num_generated'[r]

CountTimeout(r) ==
  /\ Cancel(r)
  /\ RecordCompletion(r) /\ total_timeouts' = total_timeouts + 1
  /\ UNCHANGED <<total_enqueued, total_completed, prefillTotals, prefix_cache_hit_tokens,
                 tokens_processed, reused, prefilled>>

(* Slip: the request is reported before its last token is recorded. *)
CountFinished_Early ==
  /\ ReportToken /\ state'[Row] = "finished"
  /\ total_input_tokens' = total_input_tokens + Len(Prompt[Row])
  /\ total_output_tokens' = total_output_tokens + num_generated[Row]
  /\ total_completed' = total_completed + 1
  /\ UNCHANGED <<total_enqueued, total_timeouts, prefillTotals, prefix_cache_hit_tokens,
                 tokens_processed, reused, prefilled>>

CountFinished ==
  /\ ReportToken /\ state'[Row] = "finished"
  /\ RecordCompletion(Row) /\ total_completed' = total_completed + 1
  /\ UNCHANGED <<total_enqueued, total_timeouts, prefillTotals, prefix_cache_hit_tokens,
                 tokens_processed, reused, prefilled>>

-----------------------------------------------------------------------------
(* Prefill *)

(* _prefill_tokens_this_step, before the prefixes are loaded *)
CountChunks ==
  /\ BeginStep
  /\ tokens_processed' = MapThenSumSet(LAMBDA r : S!ChunkTokens(r), prefill_requests')
  /\ UNCHANGED <<requestTotals, prefillTotals, prefix_cache_hit_tokens, reused, prefilled>>

NoteHit ==
  /\ LoadedPrefix
  /\ prefix_cache_hit_tokens' = [prefix_cache_hit_tokens EXCEPT ![Row] = pos'[RowSlot]]
  /\ reused' = reused + pos'[RowSlot]
  /\ UNCHANGED <<requestTotals, prefillTotals, tokens_processed, prefilled>>

HitRows == {r \in ToSet(rows) : prefix_cache_hit_tokens[r] > 0}
HitTokens(R) == MapThenSumSet(LAMBDA r : prefix_cache_hit_tokens[r], R)

(* Slip: the collector hears of a hit only when the prompt is done. *)
CountHits_AtTheEnd ==
  LET done == {r \in HitRows : prefill_offset'[r] = Len(Prompt[r])} IN
    /\ prefix_cache_hits' = prefix_cache_hits + Cardinality(done)
    /\ prefix_cache_tokens_saved' = prefix_cache_tokens_saved + HitTokens(done)

CountHits ==
  /\ prefix_cache_hits' = prefix_cache_hits + Cardinality(HitRows)
  /\ prefix_cache_tokens_saved' = prefix_cache_tokens_saved + HitTokens(HitRows)

(* prefill() returns once the last row has advanced, and the batch is counted *)
CountPrefill ==
  /\ AdvanceRow
  /\ prefilled' = prefilled + Len(RowTokens)
  /\ IF at = Len(rows)
       THEN /\ CountHits
            /\ total_prefill_tokens' = total_prefill_tokens + tokens_processed
            /\ tokens_processed' = 0
       ELSE UNCHANGED <<prefillTotals, tokens_processed>>
  /\ UNCHANGED <<requestTotals, prefix_cache_hit_tokens, reused>>

-----------------------------------------------------------------------------
(* What reports nothing *)
Uncounted ==
  /\ \/ SkipPrepared \/ PrepareRow \/ LookupBlock \/ PrefixMissed
     \/ StartForward \/ ForwardRow \/ ForwardRaises
     \/ SkipRow \/ RegisterRow \/ InsertBlock \/ PrefillDone \/ EndPrefill \/ EndDecode
     \/ ReportToken /\ state'[Row] # "finished"
  /\ UNCHANGED metricsVars

CountedStep == CountChunks \/ NoteHit \/ CountPrefill \/ CountFinished \/ Uncounted
CountedClients ==
  \E r \in Requests : CountTimeout(r) \/ \E chunk \in Chunks : CountEnqueued(r, chunk)

MetricsNext == CountedStep \/ CountedClients \/ (Stopped /\ UNCHANGED metricsVars)
MetricsSpec == MetricsInit /\ [][MetricsNext]_allVars
MetricsFairSpec == MetricsSpec /\ WF_allVars(CountedStep)

-----------------------------------------------------------------------------
(* The totals account for every request once, wherever it is: enqueued ones
   are waiting, running or counted as completed or timed out, and the tokens
   of those that left are what they brought and what they were given, also
   when the last token came out of the prefill or the request was cancelled
   in the middle of it. *)
RequestsAccounted ==
  LET gone == completed \cup failed IN
    /\ total_completed = Cardinality(completed) /\ total_timeouts = Cardinality(failed)
    /\ total_enqueued = Len(waiting) + Len(running) + total_completed + total_timeouts
    /\ total_input_tokens = MapThenSumSet(LAMBDA r : Len(Prompt[r]), gone)
    /\ total_output_tokens = MapThenSumSet(LAMBDA r : num_generated[r], gone)

(* Between steps no prompt token goes uncounted, whether it was copied or
   run: the chunks are counted before the prefixes are loaded, which can only
   count a saved token as processed too, and never twice. *)
PromptTokensCounted ==
  pc = "idle" =>
    /\ prefilled <= total_prefill_tokens /\ total_prefill_tokens <= prefilled + reused
    /\ reused <= prefix_cache_tokens_saved
    /\ (reused = 0 <=> prefix_cache_hits = 0)

(* README.md: prefix_cache_reuse_ratio is "reused / (reused + prefilled)
   tokens".  snapshot() divides tokens_saved by tokens_saved plus
   total_prefill_tokens. *)
ReuseRatioTrue ==
  pc = "idle" =>
    prefix_cache_tokens_saved * (reused + prefilled)
      = reused * (prefix_cache_tokens_saved + total_prefill_tokens)
=============================================================================
