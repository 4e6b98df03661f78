----------------------------- MODULE Scheduler ------------------------------
(***************************************************************************)
(* The continuous-batching scheduler: it gives waiting requests a KV-cache *)
(* slot and picks, every engine step, the rows of one prefill and of one   *)
(* decode batch under a token budget.                                      *)
(*                                                                         *)
(* The engine calls it under one lock, and runs the two batches of a       *)
(* ScheduleResult to the end before any other call: requests are added and *)
(* cancelled, and the limits changed, between steps only.  The rows of a   *)
(* ScheduleResult are the two sets below, in the order of running; a row   *)
(* leaves its set when the engine has reported on it.                      *)
(***************************************************************************)
EXTENDS Integers, Sequences, FiniteSets, SequencesExt

CONSTANTS
  Requests,        \* request ids
  PromptLen,       \* PromptLen[r]: num_prompt_tokens
  MaxNew,          \* MaxNew[r]: max_new_tokens
  Chunks,          \* values of prefill_chunk_size
  Budgets,         \* values of max_tokens_per_step
  MaxSlots         \* bound: the largest max_concurrent_requests tried

ASSUME RequestsAssumption ==
  /\ IsFiniteSet(Requests)
  /\ PromptLen \in [Requests -> Nat \ {0}]
  /\ MaxNew \in [Requests -> Nat]

ASSUME LimitsAssumption == /\ Chunks \subseteq Nat \ {0} /\ Chunks # {}
                           /\ Budgets \subseteq Nat \ {0}
                           /\ MaxSlots \in Nat \ {0}

VARIABLES
  max_concurrent_requests, max_tokens_per_step,
  waiting,              \* deque of requests, in order of arrival
  running,              \* keys of the dict running, in order of insertion
  completed, failed,
  free_slots,           \* taken from the front, given back at the end
  state, batch_idx, prefill_offset, prefill_chunk_size, num_generated,
                        \* fields of each InferenceRequest
  prefill_requests, decode_requests,
                        \* rows of the last ScheduleResult still to report on
  rejected              \* the last call raised ValueError or KeyError

limitVars == <<max_concurrent_requests, max_tokens_per_step>>
placeVars == <<waiting, running, completed, failed>>
batchVars == <<prefill_requests, decode_requests>>
vars == <<limitVars, placeVars, free_slots, state, batch_idx, prefill_offset,
          prefill_chunk_size, num_generated, batchVars, rejected>>

NoSlot == -1      \* batch_idx is None
BetweenSteps == prefill_requests = {} /\ decode_requests = {}

(* _prefill_chunk_tokens *)
ChunkTokens(r) ==
  LET remaining == PromptLen[r] - prefill_offset[r]
  IN IF prefill_chunk_size[r] < remaining THEN prefill_chunk_size[r] ELSE remaining

(* q is the list free_slots.sort() leaves of the slots in S *)
SortedSlots(q, S) ==
  ToSet(q) = S /\ \A i, j \in DOMAIN q : i < j => q[i] < q[j]

-----------------------------------------------------------------------------
Init ==
  /\ max_concurrent_requests \in 1..MaxSlots
  /\ max_tokens_per_step \in Budgets
  /\ waiting = <<>> /\ running = <<>> /\ completed = {} /\ failed = {}
  /\ free_slots = [i \in 1..max_concurrent_requests |-> i - 1]
  /\ state = [r \in Requests |-> "new"]
  /\ batch_idx = [r \in Requests |-> NoSlot]
  /\ prefill_offset = [r \in Requests |-> 0]
  /\ prefill_chunk_size = [r \in Requests |-> CHOOSE c \in Chunks : TRUE]
  /\ num_generated = [r \in Requests |-> 0]
  /\ prefill_requests = {} /\ decode_requests = {}
  /\ rejected = FALSE

(* Engine.add_request creates the request, in state WAITING, and queues it *)
AddRequest(r, chunk) ==
  /\ BetweenSteps
  /\ state[r] = "new"
  /\ state' = [state EXCEPT ![r] = "waiting"]
  /\ prefill_chunk_size' = [prefill_chunk_size EXCEPT ![r] = chunk]
  /\ waiting' = Append(waiting, r)
  /\ rejected' = FALSE
  /\ UNCHANGED <<limitVars, running, completed, failed, free_slots, batch_idx,
                 prefill_offset, num_generated, batchVars>>

AdmitCount == IF Len(waiting) < Len(free_slots) THEN Len(waiting) ELSE Len(free_slots)

(* The i-th waiting request gets the i-th free slot. *)
SlotAfterAssign(r) ==
  IF \E i \in 1..AdmitCount : waiting[i] = r
  THEN free_slots[CHOOSE i \in 1..AdmitCount : waiting[i] = r] ELSE batch_idx[r]

(* Slip: the last to arrive are admitted first. *)
AssignWaitingToSlots_NewestFirst ==
  LET n == AdmitCount
      m == Len(waiting) - n
  IN /\ waiting' = SubSeq(waiting, 1, m)
     /\ free_slots' = SubSeq(free_slots, n + 1, Len(free_slots))
     /\ running' = running \o SubSeq(waiting, m + 1, Len(waiting))
     /\ state' = [r \in Requests |->
                    IF \E i \in 1..n : waiting[m + i] = r THEN "prefill" ELSE state[r]]
     /\ batch_idx' = [r \in Requests |->
                    IF \E i \in 1..n : waiting[m + i] = r
                    THEN free_slots[CHOOSE i \in 1..n : waiting[m + i] = r] ELSE batch_idx[r]]

(* _assign_waiting_to_slots: until requests or slots run out *)
AssignWaitingToSlots ==
  LET n == AdmitCount
  IN /\ waiting' = SubSeq(waiting, n + 1, Len(waiting))
     /\ free_slots' = SubSeq(free_slots, n + 1, Len(free_slots))
     /\ running' = running \o SubSeq(waiting, 1, n)
     /\ state' = [r \in Requests |->
                    IF \E i \in 1..n : waiting[i] = r THEN "prefill" ELSE state[r]]
     /\ batch_idx' = [r \in Requests |-> SlotAfterAssign(r)]

(* Decode rows: one token each, in order, while the budget lasts. *)
DecodeRows(run, st, budget) ==
  LET ahead(i) == Cardinality({j \in 1..(i - 1) : st[run[j]] = "decode"})
  IN {run[i] : i \in {j \in DOMAIN run : st[run[j]] = "decode" /\ ahead(j) < budget}}

(* Slip: a prefill row does not use up the budget. *)
PrefillRows_Unspent(run, st, budget) ==
  {r \in ToSet(run) : st[r] = "prefill" /\ ChunkTokens(r) <= budget}

(* Prefill rows: in order, each whose chunk fits what is left; one that does
   not fit is passed over, and later ones are still tried. *)
PrefillRows(run, st, budget) ==
  LET fits(r, rest) == st[r] = "prefill" /\ ChunkTokens(r) <= rest
      left[i \in 0..Len(run)] ==
        IF i = 0 THEN budget
        ELSE IF fits(run[i], left[i - 1]) THEN left[i - 1] - ChunkTokens(run[i])
        ELSE left[i - 1]
  IN {run[i] : i \in {j \in DOMAIN run : fits(run[j], left[j - 1])}}

HasWork == waiting # <<>> \/ running # <<>>

Schedule ==
  /\ BetweenSteps
  /\ HasWork
  /\ AssignWaitingToSlots
  /\ decode_requests' = DecodeRows(running', state', max_tokens_per_step)
  /\ prefill_requests' = PrefillRows(running', state',
                           max_tokens_per_step - Cardinality(decode_requests'))
  /\ rejected' = FALSE
  /\ UNCHANGED <<limitVars, completed, failed, prefill_offset, prefill_chunk_size,
                 num_generated>>

(* The model runner's part: a prefix hit or a chunk moves prefill_offset up
   to n.  A row whose prompt is not complete yet is done for this step. *)
AdvancePrefill(r, n) ==
  /\ r \in prefill_requests
  /\ state[r] = "prefill"
  /\ prefill_offset' = [prefill_offset EXCEPT ![r] = n]
  /\ prefill_requests' = IF n < PromptLen[r] THEN prefill_requests \ {r} ELSE prefill_requests
  /\ UNCHANGED <<limitVars, placeVars, free_slots, state, batch_idx, prefill_chunk_size,
                 num_generated, decode_requests, rejected>>

(* mark_prefill_done; in any other state it raises *)
MarkPrefillDone(r) ==
  /\ r \in prefill_requests
  /\ state[r] = "prefill"
  /\ prefill_offset[r] >= PromptLen[r]
  /\ state' = [state EXCEPT ![r] = "decode"]
  /\ rejected' = FALSE
  /\ UNCHANGED <<limitVars, placeVars, free_slots, batch_idx, prefill_offset,
                 prefill_chunk_size, num_generated, batchVars>>

(* Slip: the slot of a request that leaves is not given back. *)
LeaveRunning_LosesSlot(r) ==
  /\ \E i \in DOMAIN running : running[i] = r /\ running' = RemoveAt(running, i)
  /\ state' = [state EXCEPT ![r] = "finished"]
  /\ batch_idx' = [batch_idx EXCEPT ![r] = NoSlot]
  /\ UNCHANGED free_slots

(* A running request leaves: its slot goes to the end of the free list. *)
LeaveRunning(r) ==
  /\ \E i \in DOMAIN running : running[i] = r /\ running' = RemoveAt(running, i)
  /\ state' = [state EXCEPT ![r] = "finished"]
  /\ free_slots' = IF batch_idx[r] = NoSlot THEN free_slots
                                            ELSE Append(free_slots, batch_idx[r])
  /\ batch_idx' = [batch_idx EXCEPT ![r] = NoSlot]

(* mark_decode_done, and _finish_request once max_new_tokens are out; in any
   other state it raises *)
MarkDecodeDone(r) ==
  /\ r \in prefill_requests \cup decode_requests
  /\ state[r] = "decode"
  /\ num_generated' = [num_generated EXCEPT ![r] = @ + 1]
  /\ IF num_generated'[r] >= MaxNew[r]
     THEN /\ LeaveRunning(r)
          /\ completed' = completed \cup {r}
     ELSE UNCHANGED <<running, state, free_slots, batch_idx, completed>>
  /\ prefill_requests' = prefill_requests \ {r}
  /\ decode_requests' = decode_requests \ {r}
  /\ rejected' = FALSE
  /\ UNCHANGED <<limitVars, waiting, failed, prefill_offset, prefill_chunk_size>>

(* Slip: a request cancelled in the queue stays there. *)
CancelWaiting_StaysQueued(r) ==
  /\ r \in ToSet(waiting)
  /\ state' = [state EXCEPT ![r] = "finished"]
  /\ failed' = failed \cup {r}
  /\ rejected' = FALSE
  /\ UNCHANGED <<waiting, running, free_slots, batch_idx>>

CancelWaiting(r) ==
  /\ \E i \in DOMAIN waiting : waiting[i] = r /\ waiting' = RemoveAt(waiting, i)
  /\ state' = [state EXCEPT ![r] = "finished"]
  /\ failed' = failed \cup {r}
  /\ rejected' = FALSE
  /\ UNCHANGED <<running, free_slots, batch_idx>>

CancelRunning(r) ==
  /\ r \notin ToSet(waiting)
  /\ LeaveRunning(r)
  /\ failed' = failed \cup {r}
  /\ rejected' = FALSE
  /\ UNCHANGED waiting

(* KeyError: the request is in neither place *)
CancelUnknown(r) ==
  /\ r \notin ToSet(waiting) \cup ToSet(running)
  /\ rejected' = TRUE
  /\ UNCHANGED <<waiting, running, failed, free_slots, state, batch_idx>>

CancelRequest(r) ==
  /\ BetweenSteps
  /\ CancelWaiting(r) \/ CancelRunning(r) \/ CancelUnknown(r)
  /\ UNCHANGED <<limitVars, completed, prefill_offset, prefill_chunk_size,
                 num_generated, batchVars>>

(* Slips: zero slots are accepted; only the number of running requests is
   looked at, and not the slots they are in. *)
CannotApply_ZeroAllowed(new, cache_initialized) ==
  \/ cache_initialized /\ new > max_concurrent_requests
  \/ Len(running) > new
  \/ \E i \in DOMAIN running : batch_idx[running[i]] >= new
CannotApply_CountOnly(new, cache_initialized) ==
  \/ new <= 0
  \/ cache_initialized /\ new > max_concurrent_requests
  \/ Len(running) > new

(* What _apply_max_concurrent refuses. *)
CannotApply(new, cache_initialized) ==
  \/ new <= 0
  \/ /\ new # max_concurrent_requests
     /\ \/ cache_initialized /\ new > max_concurrent_requests
        \/ Len(running) > new
        \/ \E i \in DOMAIN running : batch_idx[running[i]] >= new

(* _apply_max_concurrent of a value it accepts; it returns at once when the
   value is not new *)
ApplyMaxConcurrent(new) ==
  LET kept == {s \in ToSet(free_slots) : s < new}
      grown == ToSet(free_slots) \cup max_concurrent_requests..(new - 1)
      slots == IF new > max_concurrent_requests THEN grown ELSE kept
  IN IF new = max_concurrent_requests
     THEN UNCHANGED <<max_concurrent_requests, free_slots>>
     ELSE /\ \E q \in [1..Cardinality(slots) -> slots] :
               SortedSlots(q, slots) /\ free_slots' = q
          /\ max_concurrent_requests' = new

(* reconfigure; leaving an argument out is passing the value it has.  The
   token budget is set before the slots are looked at, and stays set when
   the slots are refused. *)
Reconfigure(tokens, new, cache_initialized) ==
  /\ BetweenSteps
  /\ max_tokens_per_step' = IF tokens <= 0 THEN max_tokens_per_step ELSE tokens
  /\ rejected' = (tokens <= 0 \/ CannotApply(new, cache_initialized))
  /\ IF rejected' THEN UNCHANGED <<max_concurrent_requests, free_slots>>
                  ELSE ApplyMaxConcurrent(new)
  /\ UNCHANGED <<placeVars, state, batch_idx, prefill_offset, prefill_chunk_size,
                 num_generated, batchVars>>

Next ==
  \/ \E r \in Requests, chunk \in Chunks : AddRequest(r, chunk)
  \/ Schedule
  \/ \E r \in Requests : \E n \in (prefill_offset[r] + 1)..PromptLen[r] : AdvancePrefill(r, n)
  \/ \E r \in Requests : \/ MarkPrefillDone(r)
                         \/ MarkDecodeDone(r)
                         \/ CancelRequest(r)
  \/ \E tokens \in Budgets \cup {0}, new \in 0..MaxSlots, init \in BOOLEAN :
       Reconfigure(tokens, new, init)

Spec == Init /\ [][Next]_vars

(* The worker thread calls step() for as long as there is work, and a step
   runs both batches to their end. *)
RunBatches == \E r \in Requests :
  \/ \E n \in (prefill_offset[r] + 1)..PromptLen[r] : AdvancePrefill(r, n)
  \/ MarkPrefillDone(r)
  \/ MarkDecodeDone(r)
FairSpec == Spec /\ WF_vars(Schedule) /\ WF_vars(RunBatches)

-----------------------------------------------------------------------------
RequestStates == {"new", "waiting", "prefill", "decode", "finished"}

TypeOK ==
  /\ max_concurrent_requests \in 1..MaxSlots
  /\ max_tokens_per_step \in Budgets
  /\ waiting \in Seq(Requests) /\ running \in Seq(Requests)
  /\ completed \subseteq Requests /\ failed \subseteq Requests
  /\ free_slots \in Seq(Nat)
  /\ state \in [Requests -> RequestStates]
  /\ batch_idx \in [Requests -> Nat \cup {NoSlot}]
  /\ prefill_offset \in [Requests -> Nat]
  /\ prefill_chunk_size \in [Requests -> Chunks]
  /\ num_generated \in [Requests -> Nat]
  /\ prefill_requests \subseteq Requests /\ decode_requests \subseteq Requests
  /\ rejected \in BOOLEAN

(* The batch rows of the KV cache are handed out like this: every slot below
   max_concurrent_requests is on the free list once or belongs to exactly
   one running request, through every finish, cancel and reconfigure.  A slip
   loses a slot for good, or makes two requests write one row. *)
SlotPartition ==
  /\ IsInjective(free_slots)
  /\ ToSet(free_slots) \subseteq 0..(max_concurrent_requests - 1)
  /\ \A r \in ToSet(running) :
       batch_idx[r] \in 0..(max_concurrent_requests - 1) \ ToSet(free_slots)
  /\ \A r, t \in ToSet(running) : batch_idx[r] = batch_idx[t] => r = t
  /\ \A s \in 0..(max_concurrent_requests - 1) :
       s \in ToSet(free_slots) \/ \E r \in ToSet(running) : batch_idx[r] = s

(* A request is in one place at a time, the one its state says, and holds a
   slot only while it runs. *)
OnePlace ==
  /\ IsInjective(waiting) /\ IsInjective(running)
  /\ completed \cap failed = {}
  /\ \A r \in Requests :
       /\ r \in ToSet(waiting) <=> state[r] = "waiting"
       /\ r \in ToSet(running) <=> state[r] \in {"prefill", "decode"}
       /\ r \in completed \cup failed <=> state[r] = "finished"
       /\ r \notin ToSet(running) => batch_idx[r] = NoSlot

(* The tokens of a step never exceed its budget, and a row is left out only
   when the budget does not cover it: decode rows go first, so prefill gets
   what all decode rows leave, and no waiting request is left behind while a
   slot is free. *)
StepCost == Cardinality(decode_requests) +
            MapThenSumSet(ChunkTokens, prefill_requests)
BatchWithinBudget ==
  [][BetweenSteps /\ ~BetweenSteps' =>
       /\ StepCost' <= max_tokens_per_step
       /\ \A i \in DOMAIN running' :
            LET r == running'[i] IN
              /\ state'[r] = "decode" /\ r \notin decode_requests' =>
                   Cardinality(decode_requests') = max_tokens_per_step
              /\ state'[r] = "prefill" /\ r \notin prefill_requests' =>
                   StepCost' + ChunkTokens(r) > max_tokens_per_step
       /\ waiting' # <<>> => free_slots' = <<>>]_vars

(* Requests get their slots in order of arrival: whoever starts to run leaves
   no earlier arrival waiting. *)
FirstComeFirstServed ==
  [][\A j \in DOMAIN waiting : waiting[j] \in ToSet(running') =>
       \A i \in 1..j : waiting[i] \in ToSet(running')]_vars

(* A running request keeps its slot until it has finished or been cancelled:
   its K/V is in that row only. *)
SlotKept ==
  [][\A r \in ToSet(running) \cap ToSet(running') : batch_idx'[r] = batch_idx[r]]_vars

(* A prefill row that does not fit a step is deferred to a later one. *)
DeferredRowRuns ==
  \A r \in Requests : state[r] = "prefill" ~> (r \in prefill_requests \/ state[r] # "prefill")
=============================================================================
