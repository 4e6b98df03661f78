------------------------------ MODULE HFEngine ------------------------------
(***************************************************************************)
(* The engine on the Hugging Face backend: the step of Engine with         *)
(* HFKVCache for the cache and HfCausalLM for the model.  The model runs   *)
(* row by row, extends each row's past itself, and sees no padding.        *)
(*                                                                         *)
(* As in Engine, a step is cut where a call may raise, requests arrive and *)
(* are cancelled between steps, the K/V of a token is the sequence of      *)
(* tokens it was computed from, and Sampled is every sampled token.        *)
(* reconfigure is Engine's; that it may come at any time is why a request  *)
(* gets any of Chunks.                                                     *)
(***************************************************************************)
EXTENDS Integers, Sequences, FiniteSets, SequencesExt

CONSTANTS
  Requests, Prompt, MaxNew, Chunks, Budgets, BatchSize,
  Token, Sampled, BlockSize, MaxSeqLen, MaxEntries, EnablePrefixCache

ASSUME RequestsAssumption ==
  /\ IsFiniteSet(Requests)
  /\ Prompt \in [Requests -> Seq(Token) \ {<<>>}]
  /\ MaxNew \in [Requests -> Nat]

ASSUME SettingsAssumption ==
  /\ Chunks \subseteq Nat \ {0} /\ Chunks # {}
  /\ Budgets \subseteq Nat \ {0}
  /\ BatchSize \in Nat \ {0}

ASSUME CacheAssumption ==
  /\ BlockSize \in Nat \ {0} /\ MaxSeqLen \in Nat \ {0}
  /\ MaxEntries \in Nat \ {0}
  /\ EnablePrefixCache \in BOOLEAN

VARIABLES
  max_concurrent_requests, max_tokens_per_step, waiting, running, completed, failed,
  free_slots, state, batch_idx, prefill_offset, prefill_chunk_size, num_generated,
  prefill_requests, decode_requests, rejected,     \* Scheduler
  past, pos, entries, lru, memory, call,           \* HFKVCache
  slot_prepared,   \* slot_prepared[r]
  pc, rows, at     \* where the step is, its batch, and the row it is at

S == INSTANCE Scheduler WITH PromptLen <- [r \in Requests |-> Len(Prompt[r])],
                             MaxSlots <- BatchSize
C == INSTANCE HFKVCache WITH Slots <- 0..(BatchSize - 1),
                             Prompts <- {Prompt[r] : r \in Requests},
                             KVValue <- Seq(Token \cup {Sampled})

schedulerVars == <<max_concurrent_requests, max_tokens_per_step, waiting, running, completed,
                   failed, free_slots, state, batch_idx, prefill_offset, prefill_chunk_size,
                   num_generated, prefill_requests, decode_requests, rejected>>
slotVars == <<past, pos>>
prefixVars == <<entries, lru, memory>>
cacheVars == <<slotVars, prefixVars, call>>
stepVars == <<pc, rows, at>>
vars == <<schedulerVars, cacheVars, slot_prepared, stepVars>>

Init ==
  /\ S!Init /\ max_concurrent_requests = BatchSize
  /\ C!Init
  /\ slot_prepared = [r \in Requests |-> FALSE]
  /\ pc = "idle" /\ rows = <<>> /\ at = 1

-----------------------------------------------------------------------------
(* Between steps *)

AddRequest(r, chunk) ==
  /\ pc = "idle"
  /\ S!AddRequest(r, chunk)
  /\ UNCHANGED <<cacheVars, slot_prepared, stepVars>>

(* batch_idx is gone when _cancel_request looks: the slot keeps its past *)
Cancel(r) ==
  /\ pc = "idle"
  /\ state[r] \in {"waiting", "prefill", "decode"}
  /\ S!CancelRequest(r)
  /\ IF batch_idx'[r] # S!NoSlot THEN C!ResetSlot(batch_idx'[r]) ELSE UNCHANGED slotVars
  /\ UNCHANGED <<prefixVars, call, slot_prepared, stepVars>>

-----------------------------------------------------------------------------
(* A step *)

Row == rows[at]
RowSlot == batch_idx[Row]
AtRow(p) == pc = p /\ at <= Len(rows)
PastRows(p) == pc = p /\ at > Len(rows)
Goto(p) == pc' = p /\ UNCHANGED <<rows, at>>
NextRow(p) == pc' = p /\ at' = at + 1 /\ UNCHANGED rows
(* the next row, or the first one in phase q after the last *)
NextRowOr(p, q) == /\ pc' = IF at < Len(rows) THEN p ELSE q
                   /\ at' = IF at < Len(rows) THEN at + 1 ELSE 1
                   /\ UNCHANGED rows
(* the rows of a batch are the members of R, in the order of q *)
InOrder(q, R) ==
  LET picked[i \in 0..Len(q)] ==
        IF i = 0 THEN <<>>
        ELSE IF q[i] \in R THEN Append(picked[i - 1], q[i]) ELSE picked[i - 1]
  IN picked[Len(q)]
Batch(q, R) == rows' = InOrder(q, R) /\ at' = 1
Prepared == slot_prepared' = [slot_prepared EXCEPT ![Row] = TRUE]
ResetIfFresh ==
  IF prefill_offset[Row] = 0 THEN C!ResetSlot(RowSlot) ELSE UNCHANGED slotVars

BeginStep ==
  /\ pc = "idle" /\ S!Schedule
  /\ pc' = "prepare" /\ Batch(running', prefill_requests')
  /\ UNCHANGED <<cacheVars, slot_prepared>>

SkipPrepared ==
  /\ AtRow("prepare") /\ slot_prepared[Row]
  /\ NextRow("prepare")
  /\ UNCHANGED <<schedulerVars, cacheVars, slot_prepared>>

(* try_load_prefix, or a reset when there is no prefix cache *)
PrepareRow ==
  /\ AtRow("prepare") /\ ~slot_prepared[Row]
  /\ IF EnablePrefixCache
       THEN /\ C!TryLoadPrefix(RowSlot, Prompt[Row]) /\ Goto("load")
            /\ UNCHANGED <<slotVars, slot_prepared>>
       ELSE ResetIfFresh /\ Prepared /\ NextRow("prepare") /\ UNCHANGED call
  /\ UNCHANGED <<schedulerVars, prefixVars>>

LookupBlock ==
  /\ AtRow("load") /\ C!MatchBlock
  /\ UNCHANGED <<schedulerVars, slotVars, slot_prepared, stepVars>>

PrefixMissed ==
  /\ AtRow("load") /\ C!LoadMiss
  /\ ResetIfFresh /\ Prepared /\ NextRow("prepare")
  /\ UNCHANGED <<schedulerVars, prefixVars>>

(* Slip: prefill starts at the first token in spite of the hit. *)
LoadedPrefix_KeepsOffset ==
  /\ AtRow("load") /\ C!LoadHit
  /\ Prepared /\ NextRow("prepare")
  /\ UNCHANGED <<schedulerVars, prefixVars>>

LoadedPrefix ==
  /\ AtRow("load") /\ C!LoadHit
  /\ prefill_offset' = [prefill_offset EXCEPT ![Row] = pos'[RowSlot]]
  /\ Prepared /\ NextRow("prepare")
  /\ UNCHANGED <<max_concurrent_requests, max_tokens_per_step, waiting, running, completed,
                 failed, free_slots, state, batch_idx, prefill_chunk_size, num_generated,
                 prefill_requests, decode_requests, rejected, prefixVars>>

StartForward ==
  /\ PastRows("prepare") /\ rows # <<>>
  /\ pc' = "forward" /\ at' = 1
  /\ UNCHANGED <<schedulerVars, cacheVars, slot_prepared, rows>>

(* What a row feeds the model, and the past the model makes of it *)
IsPrefill(r) == state[r] = "prefill"
RowTokens ==
  IF IsPrefill(Row)
  THEN SubSeq(Prompt[Row], prefill_offset[Row] + 1, prefill_offset[Row] + S!ChunkTokens(Row))
  ELSE <<Sampled>>
Context == IF past[RowSlot] = <<>> THEN <<>> ELSE Last(past[RowSlot])
Grown == past[RowSlot] \o
         [i \in 1 .. Len(RowTokens) |-> Context \o SubSeq(RowTokens, 1, i)]

ForwardRow ==
  /\ AtRow("forward") /\ RowTokens # <<>>
  /\ C!SetPast(RowSlot, Grown)
  /\ NextRowOr("forward", IF IsPrefill(Row) THEN "advance" ELSE "token")
  /\ UNCHANGED <<schedulerVars, prefixVars, call, slot_prepared>>

(* set_past refuses, or the model does when there is nothing to feed it *)
ForwardRaises ==
  /\ AtRow("forward")
  /\ IF RowTokens = <<>> THEN UNCHANGED slotVars ELSE C!SetPastRaises(RowSlot, Grown)
  /\ Goto("raised")
  /\ UNCHANGED <<schedulerVars, prefixVars, call, slot_prepared>>

AdvanceRow ==
  /\ AtRow("advance")
  /\ S!AdvancePrefill(Row, prefill_offset[Row] + Len(RowTokens))
  /\ NextRowOr("advance", "report")
  /\ UNCHANGED <<cacheVars, slot_prepared>>

SkipRow ==
  /\ AtRow("report") /\ Row \notin prefill_requests
  /\ NextRow("report")
  /\ UNCHANGED <<schedulerVars, cacheVars, slot_prepared>>

RegisterRow ==
  /\ AtRow("report") /\ Row \in prefill_requests
  /\ C!RegisterPrefix(RowSlot, Prompt[Row])
  /\ Goto("insert")
  /\ UNCHANGED <<schedulerVars, slotVars, prefixVars, slot_prepared>>

InsertBlock ==
  /\ AtRow("insert") /\ C!Insert
  /\ UNCHANGED <<schedulerVars, slotVars, slot_prepared, stepVars>>

PrefillDone ==
  /\ AtRow("insert") /\ call = C!Idle
  /\ S!MarkPrefillDone(Row)
  /\ Goto("token")
  /\ UNCHANGED <<cacheVars, slot_prepared>>

ReportToken ==
  /\ AtRow("token")
  /\ S!MarkDecodeDone(Row)
  /\ IF state'[Row] = "finished" THEN C!ResetSlot(RowSlot) ELSE UNCHANGED slotVars
  /\ NextRow(IF Row \in prefill_requests THEN "report" ELSE "token")
  /\ UNCHANGED <<prefixVars, call, slot_prepared>>

EndPrefill ==
  /\ PastRows("report") \/ (pc = "prepare" /\ rows = <<>>)
  /\ Batch(running, decode_requests)
  /\ pc' = IF decode_requests = {} THEN "idle" ELSE "forward"
  /\ UNCHANGED <<schedulerVars, cacheVars, slot_prepared>>

EndDecode ==
  /\ PastRows("token")
  /\ pc' = "idle" /\ rows' = <<>> /\ at' = 1
  /\ UNCHANGED <<schedulerVars, cacheVars, slot_prepared>>

Prepare == SkipPrepared \/ PrepareRow \/ LookupBlock \/ PrefixMissed \/ LoadedPrefix
Forward == StartForward \/ ForwardRow \/ ForwardRaises \/ AdvanceRow
Report == SkipRow \/ RegisterRow \/ InsertBlock \/ PrefillDone \/ ReportToken
Step == BeginStep \/ Prepare \/ Forward \/ Report \/ EndPrefill \/ EndDecode

Clients == \E r \in Requests : Cancel(r) \/ \E chunk \in Chunks : AddRequest(r, chunk)

(* Nothing is left to do, or an exception has left step(). *)
Stopped ==
  /\ pc = "raised" \/ (pc = "idle" /\ \A r \in Requests : state[r] = "finished")
  /\ UNCHANGED vars

Next == Step \/ Clients \/ Stopped
Spec == Init /\ [][Next]_vars
FairSpec == Spec /\ WF_vars(Step)

-----------------------------------------------------------------------------
TypeOK ==
  /\ S!TypeOK /\ C!TypeOK
  /\ slot_prepared \in [Requests -> BOOLEAN]
  /\ pc \in {"idle", "prepare", "load", "forward", "advance", "report", "insert", "token",
             "raised"}
  /\ rows \in Seq(Requests) /\ at \in 1 .. Len(rows) + 1

History(r) == Prompt[r] \o [i \in 1 .. num_generated[r] |-> Sampled]

(* What a running request attends to is its own tokens, in order and from
   the first, however its prompt is cut into chunks, whichever copies were
   concatenated for it, and whatever past a cancelled request left in its
   slot.  The README says of reused K/V that "outputs are unchanged".
   Between steps a slot's recorded length is its past's, and is where its
   request says it is: at prefill_offset during prefill, one short of the
   history after it. *)
Attended(r, p) == p = [j \in 1 .. Len(p) |-> SubSeq(History(r), 1, j)]
Cursor(r) == IF IsPrefill(r) THEN prefill_offset[r] ELSE Len(History(r)) - 1
PastIsHistory ==
  /\ pc # "raised" => \A r \in ToSet(running) :
       slot_prepared[r] => Attended(r, past[batch_idx[r]])
  /\ pc = "idle" =>
       /\ \A s \in 0 .. BatchSize - 1 : pos[s] = Len(past[s])
       /\ \A r \in ToSet(running) : slot_prepared[r] => pos[batch_idx[r]] = Cursor(r)

(* The copies of the prefix cache are true to their keys and the books about
   them are kept, in the middle of an insert too. *)
CopiesTrue ==
  /\ C!BooksKept
  /\ \A k \in DOMAIN entries :
       entries[k] = [j \in 1 .. BlockSize |-> SubSeq(k, 1, Len(k) - BlockSize + j)]

(* Only a request longer than max_seq_len, with the tokens it may be given but
   the last, makes a step raise: a prefix hit always leaves a token to prefill,
   and the slot's last owner, cancelled or not, is never in the way. *)
TooLong(r) == Len(Prompt[r]) > MaxSeqLen \/ Len(Prompt[r]) + MaxNew[r] - 1 > MaxSeqLen
OnlyLongRaises == pc = "raised" => \E i \in DOMAIN running : TooLong(running[i])

(* Whoever is queued finishes or is cancelled in the end, unless an exception
   ends the worker: prefix copies take nothing from the requests. *)
EveryRequestServed ==
  \A r \in Requests : state[r] = "waiting" ~> (state[r] = "finished" \/ pc = "raised")
=============================================================================
