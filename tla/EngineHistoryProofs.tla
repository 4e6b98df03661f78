------------------------ MODULE EngineHistoryProofs ------------------------
(***************************************************************************)
(* Proofs that the engine attends to the right K/V (what is cached for a   *)
(* running request is the K/V of its own tokens, in order and from the     *)
(* first) and feeds the model no more than the budget of the step, for any *)
(* number of requests, slots, blocks and layers.                           *)
(*                                                                         *)
(* With a prefix cache, no prompt may end with a block: a request whose    *)
(* whole prompt is found in the cache has no token left to feed, and what  *)
(* the engine then feeds the model and stores for it is padding.           *)
(***************************************************************************)
EXTENDS EngineProofs

Unaligned == EnablePrefixCache => \A r \in Requests : Len(Prompt[r]) % BlockSize # 0

-----------------------------------------------------------------------------
(* Where the write cursors are.  IInv only says that what a request counts as
   prefilled is cached; here the cursor of its slot is exact. *)

(* The row has looked for its prefix in this step. *)
Looked(i) ==
  \/ pc \in {"prepare", "load", "reset"} /\ i < at
  \/ pc \in {"decode", "forward", "sample", "advance"}
  \/ pc \in Reporting /\ i >= at

Prepared ==
  /\ \A r \in Requests :
       /\ ~slot_prepared[r] => prefill_offset[r] = 0
       /\ state[r] \in {"new", "waiting"} => ~slot_prepared[r]
       /\ state[r] = "decode" => slot_prepared[r]
  /\ \A i \in DOMAIN rows : Looked(i) => slot_prepared[rows[i]]

(* A request has no tokens before its prompt is cached, and one from then on
   unless its first is about to be reported. *)
Counted ==
  \A r \in Requests :
    /\ state[r] \in {"new", "waiting", "prefill"} => num_generated[r] = 0
    /\ state[r] = "decode" =>
         num_generated[r] > 0 \/ (pc = "token" /\ at \in DOMAIN rows /\ r = Row)

(* A prompt that is cached to its end has its token coming in this step. *)
PromptLeft ==
  \A r \in ToSet(running) : IsPrefill(r) =>
    \/ prefill_offset[r] < Len(Prompt[r])
    \/ r \in prefill_requests /\ \E i \in DOMAIN rows : rows[i] = r /\ Moved(i)

(* Row i has been through the model, and what was stored for it is not
   counted yet: neither in prefill_offset nor in num_generated. *)
Fed(i) == Stored(i) \/ (pc = "token" /\ i >= at /\ ~IsPrefill(rows[i]))
Ahead(r) == IF \E i \in DOMAIN rows : rows[i] = r /\ Fed(i) THEN ValidLen(r) ELSE 0

CursorExact ==
  pc # "raised" => \A r \in ToSet(running) : slot_prepared[r] =>
    pos[batch_idx[r]] = Cursor(r) + Ahead(r)

(* A forward pass starts at the first layer. *)
FirstLayer == pc \notin {"forward", "raised"} => layer = 0

CursorInv == Prepared /\ Counted /\ PromptLeft /\ CursorExact /\ FirstLayer

LEMMA AheadOfRow ==
  ASSUME IInv, NEW i \in DOMAIN rows
  PROVE  Ahead(rows[i]) = IF Fed(i) THEN ValidLen(rows[i]) ELSE 0
<1>1. IsInjective(rows)
  BY DEF IInv, StepInv, RowsRun
<1>2. \A j \in DOMAIN rows : rows[j] = rows[i] => j = i
  BY <1>1 DEF IsInjective
<1>. QED  BY <1>2 DEF Ahead

LEMMA AheadOfOthers ==
  ASSUME NEW r, \A i \in DOMAIN rows : rows[i] # r \/ ~Fed(i)
  PROVE  Ahead(r) = 0
BY DEF Ahead

(* A row of a prompt that is not cached to its end has tokens to feed. *)
LEMMA ChunkPositive ==
  ASSUME IInv, NEW r \in Requests, prefill_offset[r] < Len(Prompt[r])
  PROVE  S!ChunkTokens(r) \in Nat \ {0}
<1>1. /\ prefill_offset[r] \in Nat /\ prefill_chunk_size[r] \in Nat \ {0}
      /\ Len(Prompt[r]) \in Nat
  BY Known, PromptLengths, SettingsAssumption DEF SchedulerBooks
<1>. QED  BY <1>1 DEF S!ChunkTokens

(* What a request has had the model read, and how long it is. *)
LEMMA HistoryFacts ==
  ASSUME SchedulerBooks, NEW r \in Requests
  PROVE  /\ History(r) \in Seq(Token \cup {Sampled})
         /\ Len(History(r)) = Len(Prompt[r]) + num_generated[r]
         /\ Len(History(r)) \in Nat
         /\ \A i \in 1..Len(Prompt[r]) : History(r)[i] = Prompt[r][i]
         /\ \A i \in Len(Prompt[r]) + 1 .. Len(History(r)) : History(r)[i] = Sampled
<1>. DEFINE g == [i \in 1..num_generated[r] |-> Sampled]
            p == Prompt[r]
            T == Token \cup {Sampled}
<1>1. num_generated[r] \in Nat /\ p \in Seq(T) /\ Len(p) \in Nat
  BY PromptLengths DEF SchedulerBooks
<1>2. g \in Seq(T) /\ Len(g) = num_generated[r] /\ \A i \in 1..num_generated[r] : g[i] = Sampled
  BY <1>1
<1>. HIDE DEF g, p, T
<1>3. p \o g \in Seq(T) /\ Len(p \o g) = Len(p) + num_generated[r]
      /\ \A i \in 1..Len(p) + num_generated[r] :
           (p \o g)[i] = IF i <= Len(p) THEN p[i] ELSE g[i - Len(p)]
  BY <1>1, <1>2, ConcatProperties
<1>4. \A i \in Len(p) + 1 .. Len(p) + num_generated[r] : (p \o g)[i] = Sampled
  <2>. SUFFICES ASSUME NEW i \in Len(p) + 1 .. Len(p) + num_generated[r]
                PROVE  (p \o g)[i] = Sampled
    OBVIOUS
  <2>1. i - Len(p) \in 1..num_generated[r] /\ i \in 1..Len(p) + num_generated[r] /\ ~(i <= Len(p))
    BY <1>1
  <2>. QED  BY <1>2, <1>3, <2>1
<1>5. \A i \in 1..Len(p) : (p \o g)[i] = p[i]
  BY <1>1, <1>3
<1>6. History(r) = p \o g
  BY DEF History, p, g
<1>7. Len(p) + num_generated[r] \in Nat
  BY <1>1
<1>. QED  BY <1>3, <1>4, <1>5, <1>6, <1>7 DEF p, T

LEMMA HistoryFactsNext ==
  SchedulerBooks' =>
    (\A r \in Requests : Len(History(r)) = Len(Prompt[r]) + num_generated[r])'
<1>1. SchedulerBooks => \A r \in Requests : Len(History(r)) = Len(Prompt[r]) + num_generated[r]
  BY HistoryFacts
<1>. QED  BY <1>1, PTL

(* Whatever keeps the cursors, and every row as far as it was, keeps the
   whole of it. *)
LEMMA CursorFrame ==
  ASSUME CursorInv, UNCHANGED <<schedulerVars, slot_prepared, pos, rows>>,
         \A i \in DOMAIN rows : Looked(i)' => slot_prepared[rows[i]],
         pc # "token" \/ (pc' = "token" /\ at' = at),
         \A i \in DOMAIN rows : Moved(i) /\ rows[i] \in prefill_requests => Moved(i)',
         pc' # "raised" => pc # "raised" /\ \A i \in DOMAIN rows : Fed(i)' <=> Fed(i),
         FirstLayer'
  PROVE  CursorInv'
<1>1. Prepared'
  BY DEF CursorInv, Prepared, schedulerVars
<1>2. Counted'
  BY DEF CursorInv, Counted, schedulerVars, Row
<1>3. PromptLeft'
  BY DEF CursorInv, PromptLeft, schedulerVars, IsPrefill
<1>4. CursorExact'
  <2>. SUFFICES ASSUME pc' # "raised", NEW r \in ToSet(running), slot_prepared[r]
                PROVE  pos[batch_idx[r]] = Cursor(r)' + Ahead(r)'
    BY DEF CursorExact, schedulerVars
  <2>1. Cursor(r)' = Cursor(r)
    BY DEF Cursor, schedulerVars, IsPrefill, History
  <2>2. ValidLen(r)' = ValidLen(r)
    BY DEF ValidLen, schedulerVars, IsPrefill, S!ChunkTokens
  <2>3. Ahead(r)' = Ahead(r)
    BY <2>2 DEF Ahead
  <2>. QED  BY <2>1, <2>3 DEF CursorInv, CursorExact
<1>. QED  BY <1>1, <1>2, <1>3, <1>4 DEF CursorInv

-----------------------------------------------------------------------------
(* Steps that move no cursor. *)

LEMMA PrepareRowCursor == ASSUME IInv, CursorInv, PrepareRow PROVE CursorInv'
<1>1. /\ pc = "prepare" /\ at <= Len(rows)
      /\ UNCHANGED <<schedulerVars, slot_prepared, rows, layer, pos>>
      /\ \/ slot_prepared[Row] /\ pc' = "prepare" /\ at' = at + 1
         \/ pc' = "load" /\ at' = at
  BY DEF PrepareRow, AtRow, NextRow, Goto, C!TryLoadPrefix, C!tableVars, cacheVars
<1>2. DOMAIN rows = 1..Len(rows) /\ at \in Nat \ {0} /\ Len(rows) \in Nat
  BY RowsAreRequests DEF IInv, StepInv
<1>3. \A i \in DOMAIN rows : Looked(i)' => slot_prepared[rows[i]]
  <2>. SUFFICES ASSUME NEW i \in DOMAIN rows, Looked(i)' PROVE slot_prepared[rows[i]]
    OBVIOUS
  <2>1. i < at \/ (i = at /\ slot_prepared[Row])
    BY <1>1, <1>2 DEF Looked, Reporting
  <2>2. CASE i < at
    BY <1>1, <2>2 DEF CursorInv, Prepared, Looked
  <2>. QED  BY <2>1, <2>2 DEF Row
<1>4. \A i \in DOMAIN rows : ~Moved(i) /\ ~Fed(i) /\ ~Fed(i)'
  BY <1>1 DEF Moved, Fed, Stored, Reporting
<1>5. FirstLayer'
  BY <1>1 DEF CursorInv, FirstLayer
<1>. QED  BY <1>1, <1>3, <1>4, <1>5, CursorFrame

(* A lookup, and what follows it when it finds nothing or is refused. *)
LEMMA LookupCursor ==
  ASSUME IInv, CursorInv, LookupBlock \/ PrefixMissed \/ PrefixRaises
  PROVE  CursorInv'
<1>1. /\ pc = "load" /\ pc' \in {"load", "reset", "raised"}
      /\ UNCHANGED <<schedulerVars, slot_prepared, rows, at, layer, pos>>
  BY DEF LookupBlock, PrefixMissed, PrefixRaises, AtRow, Goto, C!MatchBlock, C!LoadMiss,
         C!LoadRejected, C!tableVars, cacheVars, stepVars
<1>2. \A i \in DOMAIN rows : Looked(i)' => slot_prepared[rows[i]]
  BY <1>1 DEF CursorInv, Prepared, Looked, Reporting
<1>3. \A i \in DOMAIN rows : ~Moved(i) /\ ~Fed(i) /\ ~Fed(i)'
  BY <1>1 DEF Moved, Fed, Stored, Reporting
<1>4. FirstLayer'
  BY <1>1 DEF CursorInv, FirstLayer
<1>. QED  BY <1>1, <1>2, <1>3, <1>4, CursorFrame

LEMMA EmbedRowsCursor == ASSUME IInv, CursorInv, EmbedRows PROVE CursorInv'
<1>1. /\ UNCHANGED <<schedulerVars, slot_prepared, rows, layer, pos>>
      /\ at' = 1 /\ pc' \in {"forward", "raised"}
      /\ \/ pc = "prepare" /\ at > Len(rows)
         \/ pc = "decode"
  BY DEF EmbedRows, PastRows, cacheVars
<1>2. DOMAIN rows = 1..Len(rows) /\ at \in Nat \ {0} /\ Len(rows) \in Nat
  BY RowsAreRequests DEF IInv, StepInv
<1>3. \A i \in DOMAIN rows : Looked(i)
  BY <1>1, <1>2 DEF Looked
<1>4. \A i \in DOMAIN rows : slot_prepared[rows[i]]
  BY <1>3 DEF CursorInv, Prepared
<1>5. \A i \in DOMAIN rows : ~Moved(i) /\ ~Fed(i) /\ ~Fed(i)'
  BY <1>1, <1>2 DEF Moved, Fed, Stored, Reporting
<1>6. FirstLayer'
  BY <1>1 DEF FirstLayer
<1>. QED  BY <1>1, <1>4, <1>5, <1>6, CursorFrame

LEMMA ForwardRaisesCursor == ASSUME IInv, CursorInv, ForwardRaises PROVE CursorInv'
<1>1. /\ pc = "forward" /\ pc' = "raised"
      /\ UNCHANGED <<schedulerVars, slot_prepared, rows, at, layer, pos>>
  BY DEF ForwardRaises, AtRow, Goto, C!AppendExhausted, C!AppendTooLong, C!tableVars
<1>2. \A i \in DOMAIN rows : ~Looked(i)' /\ ~Moved(i)
  BY <1>1 DEF Looked, Moved, Reporting
<1>3. FirstLayer'
  BY <1>1 DEF FirstLayer
<1>. QED  BY <1>1, <1>2, <1>3, CursorFrame

LEMMA SampleCursor == ASSUME IInv, IInv', CursorInv, Sample PROVE CursorInv'
<1>1. /\ UNCHANGED <<schedulerVars, slot_prepared, rows, at, layer, pos>>
      /\ pc = "sample"
      /\ \/ pc' = "raised"
         \/ pc' = "advance" /\ IsPrefill(Row)
         \/ pc' = "token" /\ ~IsPrefill(Row)
  BY DEF Sample, cacheVars
<1>2. at = 1 /\ 1 \in DOMAIN rows /\ DOMAIN rows = 1..Len(rows) /\ Len(rows) \in Nat
  BY <1>1, RowsAreRequests, EmptySeq, LenProperties DEF IInv, StepInv, StepTyped, Batches
<1>3. \A i \in DOMAIN rows : Looked(i) /\ ~Moved(i) /\ Fed(i) /\ i >= at
  BY <1>1, <1>2 DEF Looked, Moved, Fed, Stored, Reporting
<1>4. \A i \in DOMAIN rows : slot_prepared[rows[i]]
  BY <1>3 DEF CursorInv, Prepared
<1>5. pc' = "token" => \A i \in DOMAIN rows : ~IsPrefill(rows[i])'
  BY <1>1, <1>2 DEF IInv, StepInv, Batches, IsPrefill, Row, schedulerVars
<1>6. pc' # "raised" => \A i \in DOMAIN rows : Fed(i)'
  BY <1>1, <1>3, <1>5 DEF Fed, Stored
<1>7. FirstLayer'
  BY <1>1 DEF CursorInv, FirstLayer
<1>. QED  BY <1>1, <1>3, <1>4, <1>6, <1>7, CursorFrame

(* The prefix cache takes over the blocks of a prompt. *)
LEMMA InsertCursor ==
  ASSUME IInv, CursorInv, RegisterRow \/ InsertBlock
  PROVE  CursorInv'
<1>1. /\ pc \in {"report", "insert"} /\ pc' = "insert"
      /\ UNCHANGED <<schedulerVars, slot_prepared, rows, at, layer, pos>>
  BY DEF RegisterRow, InsertBlock, AtRow, Goto, C!RegisterPrefix, C!Insert, C!RenewEntry,
         C!EvictOldest, C!AddEntry, C!tableVars, stepVars
<1>2. \A i \in DOMAIN rows : Looked(i)' => slot_prepared[rows[i]]
  BY <1>1 DEF CursorInv, Prepared, Looked, Reporting
<1>3. \A i \in DOMAIN rows : (Moved(i)' <=> Moved(i)) /\ ~Fed(i) /\ ~Fed(i)'
  BY <1>1 DEF Moved, Fed, Stored, Reporting
<1>4. FirstLayer'
  BY <1>1 DEF CursorInv, FirstLayer
<1>. QED  BY <1>1, <1>2, <1>3, <1>4, CursorFrame

LEMMA SkipRowCursor == ASSUME IInv, CursorInv, SkipRow PROVE CursorInv'
<1>1. /\ UNCHANGED <<schedulerVars, slot_prepared, rows, layer, pos>>
      /\ pc = "report" /\ pc' = "report" /\ at <= Len(rows) /\ at' = at + 1
      /\ Row \notin prefill_requests
  BY DEF SkipRow, AtRow, NextRow, cacheVars
<1>2. DOMAIN rows = 1..Len(rows) /\ at \in Nat \ {0} /\ Len(rows) \in Nat
  BY RowsAreRequests DEF IInv, StepInv
<1>3. \A i \in DOMAIN rows : i >= at' => i >= at
  BY <1>1, <1>2
<1>4. \A i \in DOMAIN rows : Looked(i)' => slot_prepared[rows[i]]
  BY <1>1, <1>3 DEF CursorInv, Prepared, Looked, Reporting
<1>5. \A i \in DOMAIN rows : Moved(i) /\ rows[i] \in prefill_requests => Moved(i)'
  <2>. SUFFICES ASSUME NEW i \in DOMAIN rows, Moved(i), rows[i] \in prefill_requests
                PROVE  i >= at + 1
    BY <1>1 DEF Moved
  <2>1. i >= at /\ i # at
    BY <1>1 DEF Moved, Row
  <2>. QED  BY <1>2, <2>1
<1>6. \A i \in DOMAIN rows : ~Fed(i) /\ ~Fed(i)'
  BY <1>1 DEF Fed, Stored
<1>7. FirstLayer'
  BY <1>1 DEF CursorInv, FirstLayer
<1>. QED  BY <1>1, <1>4, <1>5, <1>6, <1>7, CursorFrame

(* The end of a batch: nothing of it is waiting to be counted. *)
LEMMA BatchEnds ==
  ASSUME CursorInv, UNCHANGED <<schedulerVars, slot_prepared, pos>>,
         pc \notin {"forward", "raised"},
         \A i \in DOMAIN rows : ~Moved(i) /\ ~Fed(i),
         at \notin DOMAIN rows \/ pc # "token",
         pc' \in {"idle", "decode"}, layer' = layer,
         \A i \in DOMAIN rows' : Looked(i)' => slot_prepared[rows'[i]]
  PROVE  CursorInv'
<1>1. Prepared'
  BY DEF CursorInv, Prepared, schedulerVars
<1>2. Counted'
  BY DEF CursorInv, Counted, schedulerVars
<1>3. PromptLeft'
  BY DEF CursorInv, PromptLeft, schedulerVars, IsPrefill
<1>4. CursorExact'
  <2>. SUFFICES ASSUME NEW r \in ToSet(running), slot_prepared[r]
                PROVE  pos[batch_idx[r]] = Cursor(r)' + Ahead(r)'
    BY DEF CursorExact, schedulerVars
  <2>1. Cursor(r)' = Cursor(r)
    BY DEF Cursor, schedulerVars, IsPrefill, History
  <2>2. \A i \in DOMAIN rows' : ~Fed(i)'
    BY DEF Fed, Stored
  <2>3. Ahead(r)' = 0 /\ Ahead(r) = 0
    BY <2>2 DEF Ahead
  <2>. QED  BY <2>1, <2>3 DEF CursorInv, CursorExact
<1>5. FirstLayer'
  BY DEF CursorInv, FirstLayer
<1>. QED  BY <1>1, <1>2, <1>3, <1>4, <1>5 DEF CursorInv

LEMMA EndPrefillCursor == ASSUME IInv, CursorInv, EndPrefill PROVE CursorInv'
<1>1. /\ UNCHANGED <<schedulerVars, slot_prepared, pos, layer>>
      /\ pc \in {"report", "prepare"} /\ pc' \in {"idle", "decode"}
      /\ pc = "report" => at > Len(rows)
      /\ pc = "prepare" => rows = <<>>
      /\ rows' = InOrder(running, decode_requests)
  BY DEF EndPrefill, PastRows, cacheVars
<1>2. DOMAIN rows = 1..Len(rows) /\ at \in Nat \ {0} /\ Len(rows) \in Nat
  BY RowsAreRequests DEF IInv, StepInv
<1>3. ToSet(rows') = ToSet(running) \cap decode_requests
  BY <1>1, Known, InOrderRows DEF SchedulerBooks
<1>4. \A i \in DOMAIN rows' : slot_prepared[rows'[i]]
  <2>. SUFFICES ASSUME NEW i \in DOMAIN rows' PROVE slot_prepared[rows'[i]]
    OBVIOUS
  <2>1. rows'[i] \in decode_requests
    BY <1>3 DEF ToSet
  <2>2. rows'[i] \in Requests /\ state[rows'[i]] = "decode"
    BY <2>1, Known DEF SchedulerBooks, IInv, StepInv, Batches
  <2>. QED  BY <2>2 DEF CursorInv, Prepared
<1>5. \A i \in DOMAIN rows : ~Moved(i) /\ ~Fed(i)
  <2>1. pc = "report" => \A i \in DOMAIN rows : ~(i >= at)
    BY <1>1, <1>2
  <2>. QED  BY <1>1, <2>1 DEF Moved, Fed, Stored, Reporting
<1>. QED  BY <1>1, <1>4, <1>5, BatchEnds

LEMMA EndDecodeCursor == ASSUME IInv, CursorInv, EndDecode PROVE CursorInv'
<1>1. /\ UNCHANGED <<schedulerVars, slot_prepared, pos, layer>>
      /\ pc = "token" /\ pc' = "idle" /\ rows' = <<>> /\ at > Len(rows)
  BY DEF EndDecode, PastRows, cacheVars
<1>2. DOMAIN rows = 1..Len(rows) /\ at \in Nat \ {0} /\ Len(rows) \in Nat
  BY RowsAreRequests DEF IInv, StepInv
<1>3. \A i \in DOMAIN rows : ~(i >= at)
  BY <1>1, <1>2
<1>4. \A i \in DOMAIN rows : ~Moved(i) /\ ~Fed(i)
  BY <1>1, <1>3 DEF Moved, Fed, Stored
<1>5. \A i \in DOMAIN rows' : ~Looked(i)'
  BY <1>1 DEF Looked, Reporting
<1>. QED  BY <1>1, <1>2, <1>4, <1>5, BatchEnds

-----------------------------------------------------------------------------
(* Between steps, and the start of one. *)

(* Requests arrive, leave and are admitted; those that run go on as they are. *)
LEMMA IdleCursor ==
  ASSUME IInv, IInv', CursorInv, pc = "idle", pc' \in {"idle", "prepare"},
         pc' = "prepare" => at' = 1, layer' = 0,
         UNCHANGED <<slot_prepared, pos, prefill_offset, num_generated>>,
         \A r \in Requests :
           \/ state'[r] = state[r] /\ batch_idx'[r] = batch_idx[r]
           \/ state'[r] = "finished"
           \/ state[r] \in {"new", "waiting"} /\ state'[r] \in {"waiting", "prefill"}
  PROVE  CursorInv'
<1>1. \A i \in DOMAIN rows : ~Moved(i) /\ ~Fed(i)
  BY DEF Moved, Fed, Stored, Reporting
<1>2. \A i \in DOMAIN rows' : ~Looked(i)' /\ ~Fed(i)'
  <2>1. StepTyped'
    BY DEF IInv, StepInv
  <2>2. \A i \in DOMAIN rows' : i >= 1
    BY <2>1, LenProperties DEF StepTyped
  <2>3. \A i \in DOMAIN rows' : ~(i < 1)
    BY <2>1, LenProperties DEF StepTyped
  <2>. QED  BY <2>3 DEF Looked, Fed, Stored, Reporting
<1>3. \A r \in Requests : /\ r \in ToSet(running) <=> state[r] \in {"prefill", "decode"}
                          /\ r \in ToSet(running') <=> state'[r] \in {"prefill", "decode"}
  BY Known, SchedulerKnownNext DEF SchedulerBooks, IInv
<1>4. \A r \in ToSet(running') : r \in Requests
  BY SchedulerKnownNext DEF SchedulerBooks, IInv
<1>5. Prepared'
  BY <1>2 DEF CursorInv, Prepared
<1>6. Counted'
  BY DEF CursorInv, Counted
<1>7. PromptLeft'
  <2>. SUFFICES ASSUME NEW r \in ToSet(running'), state'[r] = "prefill"
                PROVE  prefill_offset[r] < Len(Prompt[r])
    BY DEF PromptLeft, IsPrefill
  <2>1. CASE state'[r] = state[r]
    BY <1>1, <1>3, <1>4, <2>1 DEF CursorInv, PromptLeft, IsPrefill
  <2>2. CASE state[r] \in {"new", "waiting"}
    <3>1. prefill_offset[r] = 0
      BY <1>4, <2>2 DEF CursorInv, Prepared
    <3>. QED  BY <1>4, <3>1, PromptLengths
  <2>. QED  BY <1>4, <2>1, <2>2
<1>8. CursorExact'
  <2>. SUFFICES ASSUME NEW r \in ToSet(running'), slot_prepared[r]
                PROVE  pos[batch_idx'[r]] = Cursor(r)' + Ahead(r)'
    BY DEF CursorExact
  <2>1. state[r] \notin {"new", "waiting"} /\ state'[r] # "finished"
    BY <1>3, <1>4 DEF CursorInv, Prepared
  <2>2. state'[r] = state[r] /\ batch_idx'[r] = batch_idx[r] /\ r \in ToSet(running)
    BY <1>3, <1>4, <2>1
  <2>3. Cursor(r)' = Cursor(r)
    BY <2>2 DEF Cursor, IsPrefill, History
  <2>4. Ahead(r)' = 0 /\ Ahead(r) = 0
    BY <1>1, <1>2 DEF Ahead
  <2>. QED  BY <2>2, <2>3, <2>4 DEF CursorInv, CursorExact
<1>9. FirstLayer'
  BY DEF FirstLayer
<1>. QED  BY <1>5, <1>6, <1>7, <1>8, <1>9 DEF CursorInv

LEMMA BeginStepCursor == ASSUME IInv, IInv', CursorInv, BeginStep PROVE CursorInv'
<1>1. /\ pc = "idle" /\ pc' = "prepare" /\ at' = 1 /\ layer' = 0 /\ S!Schedule
      /\ UNCHANGED <<slot_prepared, pos>>
  BY DEF BeginStep, cacheVars
<1>2. UNCHANGED <<prefill_offset, num_generated>>
  BY <1>1, ScheduleEffect
<1>3. PICK A \in SUBSET ToSet(waiting) :
        /\ \A r \in Requests : state'[r] = IF r \in A THEN "prefill" ELSE state[r]
        /\ \A r \in Requests \ A : batch_idx'[r] = batch_idx[r]
  BY <1>1, ScheduleEffect
<1>4. \A r \in A : state[r] = "waiting"
  <2>1. \A r \in ToSet(waiting) : r \in Requests
    BY Known DEF SchedulerBooks, ToSet
  <2>. QED  BY <1>3, <2>1, Known DEF SchedulerBooks
<1>5. \A r \in Requests :
           \/ state'[r] = state[r] /\ batch_idx'[r] = batch_idx[r]
           \/ state'[r] = "finished"
           \/ state[r] \in {"new", "waiting"} /\ state'[r] \in {"waiting", "prefill"}
  BY <1>3, <1>4
<1>. QED  BY <1>1, <1>2, <1>5, IdleCursor

LEMMA AddRequestCursor ==
  ASSUME IInv, IInv', CursorInv, NEW r \in Requests, AddRequest(r)
  PROVE  CursorInv'
<1>1. /\ pc = "idle" /\ S!AddRequest(r, config.chunk)
      /\ UNCHANGED <<pos, slot_prepared, pc, layer>>
  BY DEF AddRequest, cacheVars, stepVars
<1>2. /\ state' = [state EXCEPT ![r] = "waiting"] /\ state[r] = "new"
      /\ UNCHANGED <<batch_idx, prefill_offset, num_generated>>
  BY <1>1 DEF S!AddRequest
<1>3. \A t \in Requests : \/ state'[t] = state[t]
                          \/ state[t] = "new" /\ state'[t] = "waiting"
  BY <1>2, Known DEF SchedulerBooks
<1>4. layer' = 0
  BY <1>1 DEF CursorInv, FirstLayer
<1>. QED  BY <1>1, <1>2, <1>3, <1>4, IdleCursor

LEMMA CancelCursor ==
  ASSUME IInv, IInv', CursorInv, NEW r \in Requests, Cancel(r)
  PROVE  CursorInv'
<1>1. /\ pc = "idle" /\ UNCHANGED <<pos, slot_prepared, pc, layer>>
      /\ UNCHANGED <<prefill_offset, num_generated>>
      /\ \A t \in Requests \ {r} : batch_idx'[t] = batch_idx[t] /\ state'[t] = state[t]
      /\ state'[r] = "finished"
  BY CancelEffect DEF cacheVars, stepVars
<1>2. layer' = 0
  BY <1>1 DEF CursorInv, FirstLayer
<1>. QED  BY <1>1, <1>2, IdleCursor

LEMMA ReconfigureCursor ==
  ASSUME IInv, IInv', CursorInv, NEW chunk \in Chunks, NEW tokens \in Budgets,
         NEW new \in Concurrencies, Reconfigure(chunk, tokens, new)
  PROVE  CursorInv'
<1>1. /\ pc = "idle" /\ UNCHANGED <<pos, slot_prepared, pc, layer>>
      /\ UNCHANGED <<state, batch_idx, prefill_offset, num_generated>>
  BY DEF Reconfigure, S!Reconfigure, cacheVars, stepVars
<1>2. layer' = 0
  BY <1>1 DEF CursorInv, FirstLayer
<1>. QED  BY <1>1, <1>2, IdleCursor

-----------------------------------------------------------------------------
(* A row that has looked for its prefix: its cursor is where its prompt goes
   on, and there is some of it left. *)
LEMMA PreparedCursor ==
  ASSUME IInv, CursorInv, pc \in {"load", "reset"}, at <= Len(rows),
         pc' = "prepare", at' = at + 1,
         UNCHANGED <<running, state, batch_idx, num_generated, prefill_requests, rows, layer>>,
         slot_prepared' = [slot_prepared EXCEPT ![Row] = TRUE],
         \A r \in Requests \ {Row} : prefill_offset'[r] = prefill_offset[r],
         \A s \in Slots \ {RowSlot} : pos'[s] = pos[s],
         pos'[RowSlot] = prefill_offset'[Row], prefill_offset'[Row] \in Nat,
         prefill_offset'[Row] < Len(Prompt[Row])
  PROVE  CursorInv'
<1>1. /\ at \in DOMAIN rows /\ Row \in Requests /\ Row \in ToSet(running) /\ RowSlot \in Slots
      /\ \A i \in DOMAIN rows : i # at => rows[i] # Row
      /\ \A r \in ToSet(running) : r # Row => batch_idx[r] # RowSlot
      /\ DOMAIN rows = 1..Len(rows) /\ Len(rows) \in Nat /\ at \in Nat \ {0}
      /\ \A i \in DOMAIN rows : rows[i] \in Requests
  BY RowFacts, RowsAreRequests DEF Engaged, IInv, StepInv
<1>2. \A r \in ToSet(running) : r \in Requests /\ batch_idx[r] \in Slots
  BY Known DEF SchedulerBooks
<1>3. IsPrefill(Row)
  BY <1>1 DEF IInv, StepInv, Batches, Row
<1>4. /\ slot_prepared'[Row] = TRUE
      /\ \A r \in Requests \ {Row} : slot_prepared'[r] = slot_prepared[r]
  BY <1>1 DEF IInv, StepInv, StepTyped
<1>5. \A i \in DOMAIN rows : ~Moved(i) /\ ~Fed(i) /\ ~Moved(i)' /\ ~Fed(i)'
  BY DEF Moved, Fed, Stored, Reporting
<1>6. Prepared'
  <2>1. ASSUME NEW r \in Requests
        PROVE  /\ ~slot_prepared'[r] => prefill_offset'[r] = 0
               /\ state'[r] \in {"new", "waiting"} => ~slot_prepared'[r]
               /\ state'[r] = "decode" => slot_prepared'[r]
    <3>1. CASE r = Row
      BY <1>3, <1>4, <3>1 DEF IsPrefill
    <3>2. CASE r # Row
      BY <1>4, <3>2 DEF CursorInv, Prepared
    <3>. QED  BY <3>1, <3>2
  <2>2. ASSUME NEW i \in DOMAIN rows, Looked(i)' PROVE slot_prepared'[rows[i]]
    <3>1. i < at + 1
      BY <2>2 DEF Looked, Reporting
    <3>2. CASE i = at
      BY <1>4, <3>2 DEF Row
    <3>3. CASE i # at
      <4>1. i < at
        BY <1>1, <3>1, <3>3
      <4>2. Looked(i)
        BY <4>1 DEF Looked
      <4>3. slot_prepared[rows[i]]
        BY <4>2 DEF CursorInv, Prepared
      <4>. QED  BY <1>1, <1>4, <3>3, <4>3
    <3>. QED  BY <3>2, <3>3
  <2>. QED  BY <2>1, <2>2 DEF Prepared
<1>7. Counted'
  BY DEF CursorInv, Counted
<1>8. PromptLeft'
  BY <1>2, <1>5 DEF CursorInv, PromptLeft, IsPrefill
<1>9. CursorExact'
  <2>. SUFFICES ASSUME NEW r \in ToSet(running), slot_prepared'[r]
                PROVE  pos'[batch_idx[r]] = Cursor(r)' + Ahead(r)'
    BY DEF CursorExact
  <2>1. Ahead(r)' = 0 /\ Ahead(r) = 0
    BY <1>5 DEF Ahead
  <2>2. CASE r = Row
    <3>1. Cursor(r)' = prefill_offset'[Row]
      BY <1>3, <2>2 DEF Cursor, IsPrefill
    <3>2. pos'[batch_idx[r]] = prefill_offset'[Row]
      BY <2>2 DEF RowSlot
    <3>. QED  BY <2>1, <3>1, <3>2
  <2>3. CASE r # Row
    <3>1. Cursor(r)' = Cursor(r)
      BY <1>2, <2>3 DEF Cursor, IsPrefill, History
    <3>2. pos'[batch_idx[r]] = pos[batch_idx[r]] /\ slot_prepared[r]
      BY <1>1, <1>2, <1>4, <2>3
    <3>. QED  BY <2>1, <3>1, <3>2 DEF CursorInv, CursorExact
  <2>. QED  BY <2>2, <2>3
<1>10. FirstLayer'
  BY DEF CursorInv, FirstLayer
<1>. QED  BY <1>6, <1>7, <1>8, <1>9, <1>10 DEF CursorInv

(* A row that is still to be prepared has all of its prompt to read, or is
   prepared and stands where it was left. *)
LEMMA UnpreparedRow ==
  ASSUME IInv, CursorInv, pc \in {"prepare", "load", "reset"}, at <= Len(rows)
  PROVE  /\ prefill_offset[Row] < Len(Prompt[Row])
         /\ prefill_offset[Row] = 0 \/ pos[RowSlot] = prefill_offset[Row]
<1>1. /\ at \in DOMAIN rows /\ Row \in Requests /\ Row \in ToSet(running)
      /\ IsPrefill(Row)
  BY RowFacts DEF Engaged, IInv, StepInv, Batches, Row
<1>2. \A i \in DOMAIN rows : ~Moved(i) /\ ~Fed(i)
  BY DEF Moved, Fed, Stored, Reporting
<1>3. prefill_offset[Row] < Len(Prompt[Row])
  BY <1>1, <1>2 DEF CursorInv, PromptLeft
<1>4. CASE slot_prepared[Row]
  <2>1. pos[batch_idx[Row]] = Cursor(Row) + Ahead(Row)
    BY <1>1, <1>4 DEF CursorInv, CursorExact
  <2>2. Ahead(Row) = 0 /\ Cursor(Row) = prefill_offset[Row] /\ prefill_offset[Row] \in Nat
    BY <1>1, <1>2, Known DEF Ahead, Cursor, SchedulerBooks
  <2>. QED  BY <1>3, <2>1, <2>2 DEF RowSlot
<1>5. CASE ~slot_prepared[Row]
  BY <1>1, <1>3, <1>5 DEF CursorInv, Prepared
<1>. QED  BY <1>4, <1>5

LEMMA MultipleHasNoRest ==
  ASSUME NEW m \in Nat, NEW d \in Nat \ {0}
  PROVE  (m * d) % d = 0
OBVIOUS

LEMMA LoadedPrefixCursor ==
  ASSUME IInv, CursorInv, Unaligned, LoadedPrefix
  PROVE  CursorInv'
<1>. DEFINE n == C!MatchedBlocks * BlockSize
<1>1. /\ pc = "load" /\ at <= Len(rows) /\ C!LoadHit
      /\ pc' = "prepare" /\ at' = at + 1
      /\ prefill_offset' = [prefill_offset EXCEPT ![Row] = n]
      /\ slot_prepared' = [slot_prepared EXCEPT ![Row] = TRUE]
      /\ UNCHANGED <<running, state, batch_idx, num_generated, prefill_requests, rows, layer>>
  BY DEF LoadedPrefix, AtRow, NextRow
<1>2. /\ C!LookupOver /\ call # C!Idle
      /\ pos' = [pos EXCEPT ![call.slot] = n]
  BY <1>1 DEF C!LoadHit, C!CursorAfterLoad, C!LookupOver, C!Idle
<1>3. /\ call.slot = RowSlot /\ n \in Nat /\ n <= Len(Prompt[Row])
  BY <1>2, LookupFacts
<1>4. Row \in Requests /\ RowSlot \in Slots /\ Len(Prompt[Row]) \in Nat
  BY <1>1, RowFacts, PromptLengths DEF Engaged
<1>5. n # Len(Prompt[Row])
  <2>1. EnablePrefixCache
    BY <1>2 DEF IInv, StepInv, CallOfRow
  <2>2. Len(Prompt[Row]) % BlockSize # 0
    BY <1>4, <2>1 DEF Unaligned
  <2>3. C!MatchedBlocks \in Nat /\ BlockSize \in Nat \ {0}
    BY <1>2, Known, CacheAssumption DEF CacheBooks, C!MatchedBlocks
  <2>4. n % BlockSize = 0
    BY <2>3, MultipleHasNoRest
  <2>. QED  BY <2>2, <2>4
<1>. HIDE DEF n
<1>6. n < Len(Prompt[Row])
  BY <1>3, <1>4, <1>5
<1>7. prefill_offset \in [Requests -> Nat] /\ pos \in [Slots -> 0..MaxSeqLen]
  BY Known DEF SchedulerBooks, CacheBooks
<1>8. /\ prefill_offset'[Row] = n /\ pos'[RowSlot] = n
      /\ \A r \in Requests \ {Row} : prefill_offset'[r] = prefill_offset[r]
      /\ \A s \in Slots \ {RowSlot} : pos'[s] = pos[s]
  BY <1>1, <1>2, <1>3, <1>4, <1>7
<1>. QED  BY <1>1, <1>3, <1>6, <1>8, PreparedCursor

LEMMA ResetRowCursor == ASSUME IInv, CursorInv, ResetRow PROVE CursorInv'
<1>1. /\ pc = "reset" /\ at <= Len(rows) /\ pc' = "prepare" /\ at' = at + 1
      /\ slot_prepared' = [slot_prepared EXCEPT ![Row] = TRUE]
      /\ UNCHANGED <<running, state, batch_idx, num_generated, prefill_requests, rows, layer,
                     prefill_offset>>
      /\ IF prefill_offset[Row] = 0 THEN C!ResetSlot(RowSlot) ELSE UNCHANGED cacheVars
  BY DEF ResetRow, AtRow, NextRow, schedulerVars
<1>2. Row \in Requests /\ RowSlot \in Slots
  BY <1>1, RowFacts DEF Engaged
<1>3. /\ prefill_offset \in [Requests -> Nat] /\ pos \in [Slots -> 0..MaxSeqLen]
      /\ prefill_offset[Row] \in Nat
  BY <1>2, Known DEF SchedulerBooks, CacheBooks
<1>4. /\ prefill_offset[Row] < Len(Prompt[Row])
      /\ prefill_offset[Row] = 0 \/ pos[RowSlot] = prefill_offset[Row]
  BY <1>1, UnpreparedRow
<1>5. /\ pos'[RowSlot] = prefill_offset[Row]
      /\ \A s \in Slots \ {RowSlot} : pos'[s] = pos[s]
  <2>1. CASE prefill_offset[Row] = 0
    <3>1. pos' = [pos EXCEPT ![RowSlot] = 0]
      BY <1>1, <2>1 DEF C!ResetSlot
    <3>. QED  BY <1>2, <1>3, <2>1, <3>1
  <2>2. CASE prefill_offset[Row] # 0
    <3>1. pos' = pos
      BY <1>1, <2>2 DEF cacheVars
    <3>. QED  BY <1>4, <2>2, <3>1
  <2>. QED  BY <2>1, <2>2
<1>. QED  BY <1>1, <1>3, <1>4, <1>5, PreparedCursor

-----------------------------------------------------------------------------
(* The forward pass. *)

(* A row feeds the model what comes next in its history. *)
LEMMA FedTokens ==
  ASSUME IInv, CursorInv, pc = "forward", at <= Len(rows)
  PROVE  /\ slot_prepared[Row] /\ pos[RowSlot] = Cursor(Row) /\ pos[RowSlot] \in Nat
         /\ ValidLen(Row) \in Nat \ {0} /\ Len(RowTokens(Row)) = ValidLen(Row)
         /\ pos[RowSlot] + ValidLen(Row) <= Len(History(Row))
         /\ \A i \in 1..ValidLen(Row) : RowTokens(Row)[i] = History(Row)[pos[RowSlot] + i]
<1>. DEFINE o == prefill_offset[Row]
            n == ValidLen(Row)
            h == History(Row)
<1>1. /\ at \in DOMAIN rows /\ Row \in Requests /\ Row \in ToSet(running)
      /\ RowSlot \in Slots /\ at \in Nat \ {0} /\ SchedulerBooks
  BY RowFacts, RowsAreRequests, Known DEF Engaged, IInv, StepInv
<1>2. slot_prepared[Row]
  <2>1. Looked(at)
    BY DEF Looked
  <2>. QED  BY <1>1, <2>1 DEF CursorInv, Prepared, Row
<1>3. \A i \in DOMAIN rows : ~Moved(i)
  BY DEF Moved, Reporting
<1>4. pos[RowSlot] = Cursor(Row) + 0
  <2>1. ~Fed(at)
    BY <1>1 DEF Fed, Stored
  <2>2. Ahead(Row) = 0
    BY <1>1, <2>1, AheadOfRow DEF Row
  <2>. QED  BY <1>1, <1>2, <2>2 DEF CursorInv, CursorExact, RowSlot
<1>5. /\ Len(h) = Len(Prompt[Row]) + num_generated[Row] /\ Len(h) \in Nat
      /\ \A i \in 1..Len(Prompt[Row]) : h[i] = Prompt[Row][i]
      /\ \A i \in Len(Prompt[Row]) + 1 .. Len(h) : h[i] = Sampled
      /\ Prompt[Row] \in Seq(Token) /\ Len(Prompt[Row]) \in Nat \ {0}
      /\ num_generated[Row] \in Nat
  BY <1>1, HistoryFacts, PromptLengths DEF SchedulerBooks
<1>. HIDE DEF h
<1>6. CASE IsPrefill(Row)
  <2>1. o < Len(Prompt[Row])
    BY <1>1, <1>3, <1>6 DEF CursorInv, PromptLeft
  <2>2. n \in Nat \ {0} /\ o \in Nat /\ o + n <= Len(Prompt[Row]) /\ n = S!ChunkTokens(Row)
    BY <1>1, <1>6, <2>1, ChunkPositive, ChunkFits DEF ValidLen
  <2>3. RowTokens(Row) = SubSeq(Prompt[Row], o + 1, o + n)
    BY <1>6, <2>2 DEF RowTokens
  <2>4. Cursor(Row) = o
    BY <1>6 DEF Cursor
  <2>. HIDE DEF o, n
  <2>5. \A i \in o + 1 .. o + n : Prompt[Row][i] \in Token
    BY <1>5, <2>2, ElementOfSeq
  <2>6. /\ Len(RowTokens(Row)) = n
        /\ \A i \in 1..n : RowTokens(Row)[i] = Prompt[Row][o + i]
    <3>1. /\ Len(RowTokens(Row)) = IF o + 1 <= o + n THEN (o + n) - (o + 1) + 1 ELSE 0
          /\ \A i \in 1 .. (o + n) - (o + 1) + 1 : RowTokens(Row)[i] = Prompt[Row][(o + 1) + i - 1]
      BY <2>2, <2>3, <2>5, SubSeqProperties
    <3>2. (o + n) - (o + 1) + 1 = n /\ o + 1 <= o + n
      BY <2>2
    <3>3. \A i \in 1..n : (o + 1) + i - 1 = o + i
      BY <2>2
    <3>. QED  BY <3>1, <3>2, <3>3
  <2>7. \A i \in 1..n : o + i \in 1..Len(Prompt[Row])
    BY <1>5, <2>2
  <2>8. o + n <= Len(h)
    BY <1>5, <2>2
  <2>9. pos[RowSlot] = o /\ pos[RowSlot] = Cursor(Row)
    BY <1>4, <2>2, <2>4
  <2>10. \A i \in 1..n : RowTokens(Row)[i] = h[o + i]
    BY <1>5, <2>6, <2>7
  <2>. QED  BY <1>2, <2>2, <2>6, <2>8, <2>9, <2>10 DEF h, n
<1>7. CASE ~IsPrefill(Row)
  <2>1. state[Row] = "decode"
    BY <1>1, <1>7 DEF IInv, StepInv, Batches, SchedulerBooks, Row
  <2>2. num_generated[Row] > 0
    BY <1>1, <2>1 DEF CursorInv, Counted
  <2>3. n = 1 /\ RowTokens(Row) = <<Sampled>>
    BY <1>7 DEF ValidLen, RowTokens
  <2>4. Cursor(Row) = Len(h) - 1
    BY <1>7 DEF Cursor, h
  <2>5. pos[RowSlot] = Len(h) - 1 /\ Len(h) \in Len(Prompt[Row]) + 1 .. Len(h)
    BY <1>4, <1>5, <2>2, <2>4
  <2>6. pos[RowSlot] \in Nat /\ pos[RowSlot] + n <= Len(h) /\ pos[RowSlot] = Cursor(Row)
        /\ pos[RowSlot] + 1 = Len(h)
    BY <1>5, <2>2, <2>3, <2>4, <2>5
  <2>7. h[pos[RowSlot] + 1] = Sampled
    BY <1>5, <2>5, <2>6
  <2>8. Len(RowTokens(Row)) = 1 /\ RowTokens(Row)[1] = Sampled
    BY <2>3
  <2>. QED  BY <1>2, <2>3, <2>6, <2>7, <2>8 DEF h, n
<1>. QED  BY <1>6, <1>7

(* Where the pass goes on after a row, and the row it was at. *)
LEMMA ForwardFacts ==
  ASSUME IInv, ForwardRow
  PROVE  /\ pc = "forward" /\ at <= Len(rows) /\ C!AppendStored(RowSlot, layer, NewKV)
         /\ at' = IF at < Len(rows) THEN at + 1 ELSE 1
         /\ layer' = IF at < Len(rows) THEN layer ELSE (layer + 1) % NumLayers
         /\ pc' = IF at = Len(rows) /\ layer = NumLayers - 1 THEN "sample" ELSE "forward"
         /\ UNCHANGED <<schedulerVars, slot_prepared, rows>>
         /\ at \in DOMAIN rows /\ Row \in Requests /\ Row \in ToSet(running) /\ RowSlot \in Slots
         /\ \A i \in DOMAIN rows : i # at => rows[i] # Row
         /\ \A r \in ToSet(running) : r # Row => batch_idx[r] # RowSlot
         /\ DOMAIN rows = 1..Len(rows) /\ Len(rows) \in Nat /\ at \in Nat \ {0}
         /\ layer \in Layers /\ NumLayers \in Nat \ {0} /\ layer \in Nat
<1>1. /\ pc = "forward" /\ at <= Len(rows) /\ C!AppendStored(RowSlot, layer, NewKV)
      /\ at' = IF at < Len(rows) THEN at + 1 ELSE 1
      /\ layer' = IF at < Len(rows) THEN layer ELSE (layer + 1) % NumLayers
      /\ pc' = IF at = Len(rows) /\ layer = NumLayers - 1 THEN "sample" ELSE "forward"
      /\ UNCHANGED <<schedulerVars, slot_prepared, rows>>
  BY DEF ForwardRow, AtRow
<1>2. /\ at \in DOMAIN rows /\ Row \in Requests /\ Row \in ToSet(running) /\ RowSlot \in Slots
      /\ \A i \in DOMAIN rows : i # at => rows[i] # Row
      /\ \A r \in ToSet(running) : r # Row => batch_idx[r] # RowSlot
      /\ DOMAIN rows = 1..Len(rows) /\ Len(rows) \in Nat /\ at \in Nat \ {0}
      /\ layer \in Layers /\ NumLayers \in Nat \ {0} /\ layer \in Nat
  BY <1>1, RowFacts, RowsAreRequests, CacheAssumption DEF Engaged, IInv, StepInv, StepTyped, Layers
<1>. QED  BY <1>1, <1>2

(* After the last layer of a row, and only then, it is fed. *)
LEMMA ForwardFed ==
  ASSUME IInv, ForwardRow
  PROVE  /\ \A i \in DOMAIN rows : i # at => (Fed(i)' <=> Fed(i))
         /\ \A i \in DOMAIN rows : i = at => ~Fed(i) /\ (Fed(i)' <=> layer = NumLayers - 1)
<1>. DEFINE last == layer = NumLayers - 1
<1>1. CASE at < Len(rows)
  <2>1. at' = at + 1 /\ layer' = layer /\ pc' = "forward"
    BY ForwardFacts, <1>1
  <2>2. \A i \in DOMAIN rows : i # at => (i < at + 1 <=> i < at)
    BY ForwardFacts
  <2>3. \A i \in DOMAIN rows : i = at => i < at + 1 /\ ~(i < at)
    BY ForwardFacts
  <2>4. \A i \in DOMAIN rows : Fed(i) <=> last /\ i < at
    BY ForwardFacts DEF Fed, Stored
  <2>5. \A i \in DOMAIN rows : Fed(i)' <=> last /\ i < at + 1
    BY <2>1 DEF Fed, Stored
  <2>. QED  BY ForwardFacts, <2>2, <2>3, <2>4, <2>5
<1>2. CASE at = Len(rows) /\ last
  <2>1. pc' = "sample" /\ \A i \in DOMAIN rows : i # at => i < at
    BY ForwardFacts, <1>2
  <2>. QED  BY ForwardFacts, <1>2, <2>1 DEF Fed, Stored
<1>3. CASE at = Len(rows) /\ ~last
  <2>1. pc' = "forward" /\ at' = 1 /\ \A i \in DOMAIN rows : ~(i < 1)
    BY ForwardFacts, <1>3
  <2>. QED  BY ForwardFacts, <1>3, <2>1 DEF Fed, Stored
<1>. QED  BY ForwardFacts, <1>1, <1>2, <1>3

LEMMA ForwardRowCursor == ASSUME IInv, CursorInv, ForwardRow PROVE CursorInv'
<1>. DEFINE last == layer = NumLayers - 1
            n == ValidLen(Row)
<1>1. /\ pc = "forward" /\ at <= Len(rows) /\ C!AppendStored(RowSlot, layer, NewKV)
      /\ at' = IF at < Len(rows) THEN at + 1 ELSE 1
      /\ layer' = IF at < Len(rows) THEN layer ELSE (layer + 1) % NumLayers
      /\ pc' = IF at = Len(rows) /\ layer = NumLayers - 1 THEN "sample" ELSE "forward"
      /\ UNCHANGED <<schedulerVars, slot_prepared, rows>>
      /\ at \in DOMAIN rows /\ Row \in Requests /\ Row \in ToSet(running) /\ RowSlot \in Slots
      /\ \A i \in DOMAIN rows : i # at => rows[i] # Row
      /\ \A r \in ToSet(running) : r # Row => batch_idx[r] # RowSlot
      /\ DOMAIN rows = 1..Len(rows) /\ Len(rows) \in Nat /\ at \in Nat \ {0}
      /\ layer \in Layers /\ NumLayers \in Nat \ {0} /\ layer \in Nat
  BY ForwardFacts
<1>3. /\ n \in Nat \ {0} /\ pos[RowSlot] = Cursor(Row) /\ pos[RowSlot] \in Nat
      /\ Len(NewKV) = n
  BY <1>1, FedTokens, NewKVType
<1>4. pos' = IF last THEN [pos EXCEPT ![RowSlot] = @ + n] ELSE pos
  BY <1>1, <1>3 DEF C!AppendStored
<1>5. pos \in [Slots -> 0..MaxSeqLen] /\ \A r \in ToSet(running) : batch_idx[r] \in Slots
  BY Known DEF CacheBooks, SchedulerBooks
<1>6. \A i \in DOMAIN rows : slot_prepared[rows[i]] /\ ~Moved(i)
  BY <1>1 DEF CursorInv, Prepared, Looked, Moved, Reporting
<1>7. /\ \A i \in DOMAIN rows : i # at => (Fed(i)' <=> Fed(i))
      /\ \A i \in DOMAIN rows : i = at => ~Fed(i) /\ (Fed(i)' <=> last)
  BY ForwardFed
<1>8. Prepared'
  BY <1>1, <1>6 DEF CursorInv, Prepared, schedulerVars
<1>9. Counted' /\ PromptLeft'
  BY <1>1, <1>6 DEF CursorInv, Counted, PromptLeft, schedulerVars, IsPrefill
<1>10. FirstLayer'
  <2>1. (layer + 1 = NumLayers) => (layer + 1) % NumLayers = 0
    BY <1>1
  <2>2. last => layer + 1 = NumLayers
    BY <1>1
  <2>. QED  BY <1>1, <2>1, <2>2 DEF FirstLayer
<1>11. CursorExact'
  <2>. SUFFICES ASSUME NEW r \in ToSet(running), slot_prepared[r]
                PROVE  pos'[batch_idx[r]] = Cursor(r)' + Ahead(r)'
    BY <1>1 DEF CursorExact, schedulerVars
  <2>1. Cursor(r)' = Cursor(r) /\ ValidLen(r)' = ValidLen(r)
    BY <1>1 DEF Cursor, schedulerVars, IsPrefill, History, ValidLen, S!ChunkTokens
  <2>2. CASE r = Row
    <3>1. Ahead(r)' = IF last THEN n ELSE 0
      <4>1. rows[at] = r /\ rows' = rows /\ ValidLen(r)' = n
        BY <1>1, <2>1, <2>2 DEF Row
      <4>2. \A i \in DOMAIN rows : rows[i] = r => i = at
        BY <1>1, <2>2
      <4>3. (\E i \in DOMAIN rows' : rows'[i] = r /\ Fed(i)') <=> last
        <5>. HIDE DEF last
        <5>1. \A i \in DOMAIN rows : rows[i] = r => (Fed(i)' <=> last)
          BY <1>7, <4>2
        <5>. QED  BY <1>1, <4>1, <5>1
      <4>. QED  BY <4>1, <4>3 DEF Ahead
    <3>2. pos'[RowSlot] = IF last THEN pos[RowSlot] + n ELSE pos[RowSlot]
      BY <1>1, <1>4, <1>5
    <3>3. batch_idx[r] = RowSlot
      BY <2>2 DEF RowSlot
    <3>. HIDE DEF last, n
    <3>4. pos'[RowSlot] = pos[RowSlot] + Ahead(r)'
      BY <1>3, <3>1, <3>2
    <3>. QED  BY <1>3, <2>1, <2>2, <3>3, <3>4
  <2>3. CASE r # Row
    <3>1. Ahead(r)' = Ahead(r)
      BY <1>1, <1>7, <2>1, <2>3 DEF Ahead, Row
    <3>2. pos'[batch_idx[r]] = pos[batch_idx[r]]
      BY <1>1, <1>4, <1>5, <2>3
    <3>. QED  BY <1>1, <2>1, <3>1, <3>2 DEF CursorInv, CursorExact
  <2>. QED  BY <2>2, <2>3
<1>. QED  BY <1>8, <1>9, <1>10, <1>11 DEF CursorInv

-----------------------------------------------------------------------------
(* Reporting the rows. *)

LEMMA AdvanceRowCursor == ASSUME IInv, CursorInv, AdvanceRow PROVE CursorInv'
<1>. DEFINE n == prefill_offset[Row] + ValidLen(Row)
<1>1. /\ pc = "advance" /\ at <= Len(rows) /\ S!AdvancePrefill(Row, n)
      /\ at' = IF at < Len(rows) THEN at + 1 ELSE 1
      /\ pc' = IF at < Len(rows) THEN "advance" ELSE "report"
      /\ UNCHANGED <<pos, slot_prepared, rows, layer>>
  BY DEF AdvanceRow, AtRow, cacheVars
<1>2. /\ at \in DOMAIN rows /\ Row \in Requests /\ Row \in ToSet(running)
      /\ \A i \in DOMAIN rows : rows[i] = Row <=> i = at
      /\ DOMAIN rows = 1..Len(rows) /\ Len(rows) \in Nat /\ at \in Nat \ {0}
      /\ \A i \in DOMAIN rows : rows[i] \in Requests
      /\ \A r \in ToSet(running) : r \in Requests
  BY <1>1, RowFacts, RowsAreRequests, Known DEF Engaged, IInv, StepInv, Row, SchedulerBooks
<1>3. IsPrefill(Row) /\ \A i \in DOMAIN rows : slot_prepared[rows[i]]
  BY <1>1, <1>2 DEF IInv, StepInv, Batches, Row, CursorInv, Prepared, Looked
<1>4. /\ prefill_offset \in [Requests -> Nat] /\ Len(Prompt[Row]) \in Nat
      /\ ValidLen(Row) \in Nat /\ n \in Nat
  BY <1>2, Known, ValidLenType, PromptLengths DEF SchedulerBooks
<1>5. pos[batch_idx[Row]] = n
  <2>1. Fed(at) /\ slot_prepared[Row]
    BY <1>1, <1>2, <1>3 DEF Fed, Stored, Row
  <2>2. Ahead(Row) = ValidLen(Row)
    BY <1>2, <2>1, AheadOfRow DEF Row
  <2>3. Cursor(Row) = prefill_offset[Row]
    BY <1>3 DEF Cursor
  <2>. QED  BY <1>1, <1>2, <2>1, <2>2, <2>3 DEF CursorInv, CursorExact
<1>. HIDE DEF n
<1>6. /\ prefill_offset'[Row] = n
      /\ \A r \in Requests \ {Row} : prefill_offset'[r] = prefill_offset[r]
      /\ Row \in prefill_requests
      /\ prefill_requests' = IF n < Len(Prompt[Row]) THEN prefill_requests \ {Row}
                             ELSE prefill_requests
      /\ UNCHANGED <<running, state, batch_idx, prefill_chunk_size, num_generated>>
  BY <1>1, <1>2, <1>4 DEF S!AdvancePrefill, S!limitVars, S!placeVars
<1>7. /\ \A i \in DOMAIN rows : i = at => ~Fed(i)'
      /\ \A i \in DOMAIN rows : i # at => (Fed(i)' <=> Fed(i))
      /\ \A i \in DOMAIN rows : i = at \/ Moved(i) => Moved(i)'
  <2>1. CASE at < Len(rows)
    <3>1. pc' = "advance" /\ at' = at + 1
      BY <1>1, <2>1
    <3>2. \A i \in DOMAIN rows : /\ i # at => (i >= at + 1 <=> i >= at)
                                 /\ i = at => ~(i >= at + 1)
                                 /\ i = at \/ i < at => i < at + 1
      BY <1>2
    <3>. QED  BY <1>1, <3>1, <3>2 DEF Fed, Stored, Moved, Reporting
  <2>2. CASE ~(at < Len(rows))
    <3>1. pc' = "report" /\ at' = 1 /\ \A i \in DOMAIN rows : i >= 1 /\ (i # at => ~(i >= at))
      BY <1>1, <1>2, <2>2
    <3>. QED  BY <1>1, <3>1 DEF Fed, Stored, Moved, Reporting
  <2>. QED  BY <2>1, <2>2
<1>8. Prepared'
  <2>1. ASSUME NEW r \in Requests, ~slot_prepared[r] PROVE prefill_offset'[r] = 0
    <3>1. r # Row
      BY <1>2, <1>3, <2>1 DEF Row
    <3>. QED  BY <1>6, <2>1, <3>1 DEF CursorInv, Prepared
  <2>. QED  BY <1>1, <1>3, <1>6, <2>1 DEF CursorInv, Prepared
<1>9. Counted'
  BY <1>1, <1>6 DEF CursorInv, Counted
<1>10. PromptLeft'
  <2>. SUFFICES ASSUME NEW r \in ToSet(running), state[r] = "prefill",
                       ~(prefill_offset'[r] < Len(Prompt[r]))
                PROVE  r \in prefill_requests' /\ \E i \in DOMAIN rows : rows[i] = r /\ Moved(i)'
    BY <1>1, <1>6 DEF PromptLeft, IsPrefill
  <2>1. CASE r = Row
    BY <1>2, <1>6, <1>7, <2>1
  <2>2. CASE r # Row
    <3>1. ~(prefill_offset[r] < Len(Prompt[r]))
      BY <1>2, <1>6, <2>2
    <3>2. r \in prefill_requests /\ \E i \in DOMAIN rows : rows[i] = r /\ Moved(i)
      BY <3>1 DEF CursorInv, PromptLeft, IsPrefill
    <3>. QED  BY <1>6, <1>7, <2>2, <3>2
  <2>. QED  BY <2>1, <2>2
<1>11. CursorExact'
  <2>. SUFFICES ASSUME NEW r \in ToSet(running), slot_prepared[r]
                PROVE  pos[batch_idx[r]] = Cursor(r)' + Ahead(r)'
    BY <1>1, <1>6 DEF CursorExact
  <2>1. CASE r = Row
    <3>1. Cursor(r)' = n
      BY <1>3, <1>6, <2>1 DEF Cursor, IsPrefill
    <3>2. \A i \in DOMAIN rows : rows[i] = r => ~Fed(i)'
      BY <1>2, <1>7, <2>1
    <3>3. Ahead(r)' = 0
      BY <1>1, <3>2 DEF Ahead
    <3>. QED  BY <1>4, <1>5, <2>1, <3>1, <3>3
  <2>2. CASE r # Row
    <3>1. prefill_offset'[r] = prefill_offset[r]
      BY <1>2, <1>6, <2>2
    <3>2. Cursor(r)' = Cursor(r) /\ ValidLen(r)' = ValidLen(r)
      BY <1>6, <3>1 DEF Cursor, IsPrefill, History, ValidLen, S!ChunkTokens
    <3>3. \A i \in DOMAIN rows : rows[i] = r => (Fed(i)' <=> Fed(i))
      BY <1>2, <1>7, <2>2
    <3>4. Ahead(r)' = Ahead(r)
      BY <1>1, <3>2, <3>3 DEF Ahead
    <3>. QED  BY <1>1, <3>2, <3>4 DEF CursorInv, CursorExact
  <2>. QED  BY <2>1, <2>2
<1>12. FirstLayer'
  BY <1>1 DEF CursorInv, FirstLayer
<1>. QED  BY <1>8, <1>9, <1>10, <1>11, <1>12 DEF CursorInv

LEMMA PrefillDoneCursor == ASSUME IInv, CursorInv, PrefillDone PROVE CursorInv'
<1>1. /\ pc = "insert" /\ at <= Len(rows) /\ S!MarkPrefillDone(Row)
      /\ pc' = "token" /\ UNCHANGED <<pos, slot_prepared, rows, at, layer>>
  BY DEF PrefillDone, AtRow, Goto, cacheVars
<1>2. /\ at \in DOMAIN rows /\ Row \in Requests /\ Row \in ToSet(running)
      /\ \A i \in DOMAIN rows : rows[i] = Row <=> i = at
      /\ DOMAIN rows = 1..Len(rows) /\ at \in Nat \ {0}
      /\ \A i \in DOMAIN rows : rows[i] \in Requests
      /\ \A r \in ToSet(running) : r \in Requests
  BY <1>1, RowFacts, RowsAreRequests, Known DEF Reporting, IInv, StepInv, Row, SchedulerBooks
<1>3. /\ state[Row] = "prefill" /\ prefill_offset[Row] >= Len(Prompt[Row])
      /\ state' = [state EXCEPT ![Row] = "decode"]
      /\ UNCHANGED <<running, batch_idx, prefill_offset, prefill_chunk_size, num_generated,
                     prefill_requests>>
  BY <1>1, <1>2 DEF S!MarkPrefillDone, S!limitVars, S!placeVars, S!batchVars
<1>4. /\ state'[Row] = "decode"
      /\ \A r \in Requests \ {Row} : state'[r] = state[r]
  BY <1>2, <1>3, Known DEF SchedulerBooks
<1>5. \A i \in DOMAIN rows : Looked(i) => slot_prepared[rows[i]]
  BY DEF CursorInv, Prepared
<1>6. slot_prepared[Row]
  <2>1. Looked(at)
    BY <1>1, <1>2 DEF Looked, Reporting
  <2>. QED  BY <1>2, <1>5, <2>1 DEF Row
<1>7. Prepared'
  BY <1>1, <1>3, <1>4, <1>5, <1>6 DEF CursorInv, Prepared, Looked, Reporting
<1>8. num_generated[Row] = 0
  BY <1>2, <1>3 DEF CursorInv, Counted
<1>9. Row' = Row
  BY <1>1 DEF Row
<1>10. Counted'
  BY <1>1, <1>2, <1>3, <1>4, <1>9 DEF CursorInv, Counted
<1>11. PromptLeft'
  <2>. SUFFICES ASSUME NEW r \in ToSet(running), state'[r] = "prefill",
                       ~(prefill_offset[r] < Len(Prompt[r]))
                PROVE  r \in prefill_requests /\ \E i \in DOMAIN rows : rows[i] = r /\ Moved(i)'
    BY <1>1, <1>3 DEF PromptLeft, IsPrefill
  <2>1. state[r] = "prefill"
    BY <1>2, <1>4
  <2>2. r \in prefill_requests /\ \E i \in DOMAIN rows : rows[i] = r /\ Moved(i)
    BY <2>1 DEF CursorInv, PromptLeft, IsPrefill
  <2>3. \A i \in DOMAIN rows : Moved(i) => Moved(i)'
    BY <1>1 DEF Moved, Reporting
  <2>. QED  BY <2>2, <2>3
<1>12. \A i \in DOMAIN rows : ~Fed(i) /\ (Fed(i)' <=> i = at)
  <2>. SUFFICES ASSUME NEW i \in DOMAIN rows PROVE ~Fed(i) /\ (Fed(i)' <=> i = at)
    OBVIOUS
  <2>1. ~Fed(i) /\ (Fed(i)' <=> i >= at /\ state'[rows[i]] # "prefill")
    BY <1>1 DEF Fed, Stored, IsPrefill
  <2>2. CASE i = at
    BY <1>2, <1>4, <2>1, <2>2
  <2>3. CASE i # at
    <3>1. i >= at => state[rows[i]] = "prefill"
      BY <1>1 DEF IInv, StepInv, Batches, IsPrefill
    <3>2. state'[rows[i]] = state[rows[i]]
      BY <1>2, <1>4, <2>3
    <3>. QED  BY <2>1, <2>3, <3>1, <3>2
  <2>. QED  BY <2>2, <2>3
<1>13. CursorExact'
  <2>. SUFFICES ASSUME NEW r \in ToSet(running), slot_prepared[r]
                PROVE  pos[batch_idx[r]] = Cursor(r)' + Ahead(r)'
    BY <1>1, <1>3 DEF CursorExact
  <2>1. Ahead(r) = 0 /\ pos[batch_idx[r]] = Cursor(r) + Ahead(r)
    BY <1>1, <1>12 DEF Ahead, CursorInv, CursorExact
  <2>2. CASE r = Row
    <3>1. Cursor(r) = prefill_offset[Row]
      BY <1>3, <2>2 DEF Cursor, IsPrefill
    <3>2. prefill_offset[Row] = Len(Prompt[Row]) /\ Len(Prompt[Row]) \in Nat
      <4>1. prefill_offset[Row] <= Len(Prompt[Row]) /\ prefill_offset[Row] \in Nat
        BY <1>2, Known DEF IInv, StepInv, OffsetsFit, SchedulerBooks
      <4>. QED  BY <1>2, <1>3, <4>1, PromptLengths
    <3>3. Len(History(r)) = Len(Prompt[Row])
      BY <1>2, <1>8, <2>2, <3>2, HistoryFacts, Known
    <3>4. Cursor(r)' = Len(Prompt[Row]) - 1
      BY <1>3, <1>4, <2>2, <3>3 DEF Cursor, IsPrefill, History
    <3>5. ValidLen(r)' = 1
      BY <1>4, <2>2 DEF ValidLen, IsPrefill
    <3>6. Ahead(r)' = 1
      BY <1>1, <1>2, <1>12, <2>2, <3>5 DEF Ahead
    <3>. QED  BY <2>1, <3>1, <3>2, <3>4, <3>6
  <2>3. CASE r # Row
    <3>1. state'[r] = state[r]
      BY <1>2, <1>4, <2>3
    <3>2. Cursor(r)' = Cursor(r)
      BY <1>3, <3>1 DEF Cursor, IsPrefill, History
    <3>3. \A i \in DOMAIN rows : rows[i] = r => ~Fed(i)'
      BY <1>2, <1>12, <2>3
    <3>4. Ahead(r)' = 0
      BY <1>1, <3>3 DEF Ahead
    <3>. QED  BY <2>1, <3>2, <3>4
  <2>. QED  BY <2>2, <2>3
<1>14. FirstLayer'
  BY <1>1 DEF CursorInv, FirstLayer
<1>. QED  BY <1>7, <1>10, <1>11, <1>13, <1>14 DEF CursorInv

LEMMA ReportTokenCursor == ASSUME IInv, IInv', CursorInv, ReportToken PROVE CursorInv'
<1>1. /\ pc = "token" /\ at <= Len(rows) /\ S!MarkDecodeDone(Row)
      /\ IF state'[Row] = "finished" THEN C!ResetSlot(RowSlot) ELSE UNCHANGED cacheVars
      /\ pc' = IF Row \in prefill_requests THEN "report" ELSE "token"
      /\ at' = at + 1
      /\ UNCHANGED <<slot_prepared, rows, layer>>
  BY DEF ReportToken, AtRow, NextRow
<1>2. /\ at \in DOMAIN rows /\ Row \in Requests /\ Row \in ToSet(running) /\ RowSlot \in Slots
      /\ \A i \in DOMAIN rows : rows[i] = Row <=> i = at
      /\ \A r \in ToSet(running) : r # Row => batch_idx[r] # RowSlot
      /\ at \in Nat \ {0} /\ DOMAIN rows = 1..Len(rows) /\ Len(rows) \in Nat
      /\ \A i \in DOMAIN rows : rows[i] \in Requests
      /\ \A r \in ToSet(running) : r \in Requests /\ batch_idx[r] \in Slots
  BY <1>1, RowFacts, RowsAreRequests, Known DEF Reporting, IInv, StepInv, Row, SchedulerBooks
<1>3. /\ state[Row] = "decode"
      /\ num_generated' = [num_generated EXCEPT ![Row] = @ + 1]
      /\ prefill_requests' = prefill_requests \ {Row}
      /\ UNCHANGED <<prefill_offset, prefill_chunk_size>>
      /\ \A t \in Requests \ {Row} : batch_idx'[t] = batch_idx[t] /\ state'[t] = state[t]
      /\ \/ state'[Row] = "finished" /\ ToSet(running') = ToSet(running) \ {Row}
         \/ UNCHANGED <<running, state, batch_idx>>
  BY <1>1, <1>2, TokenEffect
<1>4. /\ num_generated'[Row] = num_generated[Row] + 1 /\ num_generated[Row] \in Nat
      /\ \A t \in Requests \ {Row} : num_generated'[t] = num_generated[t]
  BY <1>2, <1>3, Known DEF SchedulerBooks
<1>5. /\ \A s \in Slots \ {RowSlot} : pos'[s] = pos[s]
      /\ state'[Row] # "finished" => pos' = pos
  <2>1. CASE state'[Row] = "finished"
    <3>1. pos' = [pos EXCEPT ![RowSlot] = 0]
      BY <1>1, <2>1 DEF C!ResetSlot
    <3>. QED  BY <1>2, <2>1, <3>1, Known DEF CacheBooks
  <2>2. CASE state'[Row] # "finished"
    BY <1>1, <2>2 DEF cacheVars
  <2>. QED  BY <2>1, <2>2
<1>6. /\ \A i \in DOMAIN rows : i >= at' => i >= at /\ i # at
      /\ \A i \in DOMAIN rows : i >= at /\ i # at => i >= at'
  BY <1>1, <1>2
<1>7. Prepared'
  <2>1. \A i \in DOMAIN rows : Looked(i)' => slot_prepared[rows[i]]
    BY <1>1, <1>6 DEF CursorInv, Prepared, Looked, Reporting
  <2>2. slot_prepared[Row]
    BY <1>2, <1>3 DEF CursorInv, Prepared
  <2>3. \A r \in Requests : state'[r] = state[r] \/ (r = Row /\ state'[r] = "finished")
    BY <1>3
  <2>. QED  BY <1>1, <1>3, <2>1, <2>2, <2>3 DEF CursorInv, Prepared
<1>8. Counted'
  <2>. SUFFICES ASSUME NEW r \in Requests
                PROVE  /\ state'[r] \in {"new", "waiting", "prefill"} => num_generated'[r] = 0
                       /\ state'[r] = "decode" => num_generated'[r] > 0
    BY DEF Counted
  <2>1. CASE r = Row
    BY <1>3, <1>4, <2>1
  <2>2. CASE r # Row
    BY <1>3, <1>4, <2>2 DEF CursorInv, Counted
  <2>. QED  BY <2>1, <2>2
<1>9. \A r \in ToSet(running') : r \in ToSet(running) /\ (r = Row => UNCHANGED <<running, state, batch_idx>>)
  BY <1>3
<1>10. PromptLeft'
  <2>. SUFFICES ASSUME NEW r \in ToSet(running'), state'[r] = "prefill",
                       ~(prefill_offset[r] < Len(Prompt[r]))
                PROVE  r \in prefill_requests' /\ \E i \in DOMAIN rows : rows[i] = r /\ Moved(i)'
    BY <1>1, <1>3 DEF PromptLeft, IsPrefill
  <2>1. r # Row /\ r \in Requests /\ r \in ToSet(running)
    BY <1>2, <1>3, <1>9
  <2>2. state[r] = "prefill"
    BY <1>3, <2>1
  <2>3. r \in prefill_requests /\ \E i \in DOMAIN rows : rows[i] = r /\ Moved(i)
    BY <2>1, <2>2 DEF CursorInv, PromptLeft, IsPrefill
  <2>4. \A i \in DOMAIN rows : Moved(i) /\ i # at => Moved(i)'
    BY <1>1, <1>6 DEF Moved, Reporting
  <2>. QED  BY <1>2, <1>3, <2>1, <2>3, <2>4
<1>11. \A i \in DOMAIN rows : /\ i = at => Fed(i) /\ ~Fed(i)'
                              /\ i # at => (Fed(i)' <=> Fed(i))
  <2>. SUFFICES ASSUME NEW i \in DOMAIN rows
                PROVE  /\ i = at => Fed(i) /\ ~Fed(i)'
                       /\ i # at => (Fed(i)' <=> Fed(i))
    OBVIOUS
  <2>1. Fed(i) <=> i >= at /\ state[rows[i]] # "prefill"
    BY <1>1 DEF Fed, Stored, IsPrefill
  <2>2. Fed(i)' <=> pc' = "token" /\ i >= at' /\ state'[rows[i]] # "prefill"
    BY <1>1 DEF Fed, Stored, IsPrefill
  <2>3. CASE i = at
    BY <1>2, <1>3, <1>6, <2>1, <2>2, <2>3
  <2>4. CASE i # at
    <3>1. state'[rows[i]] = state[rows[i]]
      BY <1>2, <1>3, <2>4
    <3>2. CASE Row \in prefill_requests
      <4>1. Row \notin decode_requests
        BY <3>2 DEF IInv, StepInv, Batches
      <4>2. i > at => state[rows[i]] = "prefill"
        BY <1>1, <1>2, <4>1 DEF IInv, StepInv, Batches, IsPrefill, Row
      <4>3. i >= at => i > at
        BY <1>2, <2>4
      <4>. QED  BY <1>1, <2>1, <2>2, <2>4, <3>2, <4>2, <4>3
    <3>3. CASE Row \notin prefill_requests
      BY <1>1, <1>6, <2>1, <2>2, <2>4, <3>1, <3>3
    <3>. QED  BY <3>2, <3>3
  <2>. QED  BY <2>3, <2>4
<1>12. CursorExact'
  <2>. SUFFICES ASSUME NEW r \in ToSet(running'), slot_prepared[r]
                PROVE  pos'[batch_idx'[r]] = Cursor(r)' + Ahead(r)'
    BY <1>1 DEF CursorExact
  <2>1. pos[batch_idx[r]] = Cursor(r) + Ahead(r)
    BY <1>1, <1>9 DEF CursorInv, CursorExact
  <2>2. CASE r = Row
    <3>1. UNCHANGED <<running, state, batch_idx, pos>>
      BY <1>3, <1>5, <1>9, <2>2
    <3>2. Cursor(r) = Len(Prompt[Row]) + num_generated[Row] - 1
      <4>1. Len(History(r)) = Len(Prompt[Row]) + num_generated[Row]
        BY <1>2, <2>2, HistoryFacts, Known
      <4>2. state[r] # "prefill"
        BY <1>3, <2>2
      <4>3. Cursor(r) = Len(History(r)) - 1
        BY <4>2 DEF Cursor, IsPrefill
      <4>. QED  BY <1>2, <1>4, <4>1, <4>3, PromptLengths
    <3>3. Cursor(r)' = Len(Prompt[Row]) + num_generated'[Row] - 1
      <4>1. SchedulerBooks'
        BY SchedulerKnownNext DEF IInv
      <4>2. Len(History(r))' = Len(Prompt[r]) + num_generated'[r]
        BY <1>2, <2>2, <4>1, HistoryFactsNext
      <4>3. state'[r] # "prefill"
        BY <1>3, <2>2, <3>1
      <4>4. Cursor(r)' = Len(History(r))' - 1
        BY <4>3 DEF Cursor, IsPrefill
      <4>5. num_generated'[r] = num_generated'[Row] /\ Prompt[r] = Prompt[Row]
        BY <2>2
      <4>. QED  BY <1>2, <1>4, <4>2, <4>4, <4>5, PromptLengths
    <3>4. Ahead(r) = 1
      <4>1. ValidLen(r) = 1
        BY <1>3, <2>2 DEF ValidLen, IsPrefill
      <4>. QED  BY <1>2, <1>11, <2>2, <4>1 DEF Ahead
    <3>5. Ahead(r)' = 0
      <4>1. \A i \in DOMAIN rows : rows[i] = r => ~Fed(i)'
        BY <1>2, <1>11, <2>2
      <4>. QED  BY <1>1, <4>1 DEF Ahead
    <3>6. pos'[batch_idx'[r]] = Cursor(r) + 1
      BY <2>1, <3>1, <3>4
    <3>7. Cursor(r)' = Cursor(r) + 1 /\ Cursor(r) \in Int
      <4>1. PICK n \in Nat, m \in Nat : /\ n = Len(Prompt[Row]) /\ m = num_generated[Row]
                                       /\ num_generated'[Row] = m + 1
        BY <1>2, <1>4, PromptLengths
      <4>2. Cursor(r) = n + m - 1 /\ Cursor(r)' = n + (m + 1) - 1
        BY <3>2, <3>3, <4>1
      <4>. QED  BY ONLY <4>2, <4>1
    <3>. QED  BY ONLY <3>5, <3>6, <3>7
  <2>3. CASE r # Row
    <3>1. r \in Requests /\ r \in ToSet(running) /\ batch_idx[r] \in Slots \ {RowSlot}
      BY <1>2, <1>9, <2>3
    <3>2. state'[r] = state[r] /\ batch_idx'[r] = batch_idx[r] /\ num_generated'[r] = num_generated[r]
      BY <1>3, <1>4, <2>3, <3>1
    <3>3. Cursor(r)' = Cursor(r) /\ ValidLen(r)' = ValidLen(r)
      <4>1. History(r)' = History(r) /\ S!ChunkTokens(r)' = S!ChunkTokens(r)
        <5>1. PICK k : k = num_generated[r] /\ k = num_generated'[r]
          BY <3>2
        <5>2. /\ History(r) = Prompt[r] \o [i \in 1..k |-> Sampled]
              /\ History(r)' = Prompt[r] \o [i \in 1..k |-> Sampled]
          BY <5>1 DEF History
        <5>3. S!ChunkTokens(r)' = S!ChunkTokens(r)
          BY <1>3 DEF S!ChunkTokens
        <5>. QED  BY <5>2, <5>3
      <4>2. IsPrefill(r)' <=> IsPrefill(r)
        BY <3>2 DEF IsPrefill
      <4>. QED  BY <1>3, <4>1, <4>2 DEF Cursor, ValidLen
    <3>4. \A i \in DOMAIN rows : rows[i] = r => (Fed(i)' <=> Fed(i))
      BY <1>2, <1>11, <2>3
    <3>5. Ahead(r)' = Ahead(r)
      BY <1>1, <3>3, <3>4 DEF Ahead
    <3>. QED  BY <1>5, <2>1, <3>1, <3>2, <3>3, <3>5
  <2>. QED  BY <2>2, <2>3
<1>13. FirstLayer'
  BY <1>1 DEF CursorInv, FirstLayer
<1>. QED  BY <1>7, <1>8, <1>10, <1>12, <1>13 DEF CursorInv

-----------------------------------------------------------------------------
(* The cursors stay exact. *)

LEMMA InitCursor == Init => CursorInv
<1>. SUFFICES ASSUME Init PROVE CursorInv
  OBVIOUS
<1>1. /\ running = <<>> /\ rows = <<>> /\ pc = "idle" /\ layer = 0
      /\ state = [r \in Requests |-> "new"] /\ num_generated = [r \in Requests |-> 0]
      /\ prefill_offset = [r \in Requests |-> 0] /\ slot_prepared = [r \in Requests |-> FALSE]
  BY DEF Init, S!Init
<1>2. ToSet(running) = {} /\ DOMAIN rows = {}
  BY <1>1, EmptySeq DEF ToSet
<1>. QED  BY <1>1, <1>2 DEF CursorInv, Prepared, Counted, PromptLeft, CursorExact, FirstLayer

LEMMA NextCursor ==
  ASSUME IInv, IInv', CursorInv, Unaligned, [Next]_vars
  PROVE  CursorInv'
<1>1. CASE BeginStep
  BY <1>1, BeginStepCursor
<1>2. CASE Prefill
  <2>1. CASE PrepareRow
    BY <2>1, PrepareRowCursor
  <2>2. CASE LookupBlock \/ PrefixMissed \/ PrefixRaises
    BY <2>2, LookupCursor
  <2>3. CASE LoadedPrefix
    BY <2>3, LoadedPrefixCursor
  <2>4. CASE ResetRow
    BY <2>4, ResetRowCursor
  <2>5. CASE AdvanceRow
    BY <2>5, AdvanceRowCursor
  <2>6. CASE SkipRow
    BY <2>6, SkipRowCursor
  <2>7. CASE RegisterRow \/ InsertBlock
    BY <2>7, InsertCursor
  <2>8. CASE PrefillDone
    BY <2>8, PrefillDoneCursor
  <2>9. CASE EndPrefill
    BY <2>9, EndPrefillCursor
  <2>. QED  BY <1>2, <2>1, <2>2, <2>3, <2>4, <2>5, <2>6, <2>7, <2>8, <2>9 DEF Prefill
<1>3. CASE Forward
  BY <1>3, EmbedRowsCursor, ForwardRowCursor, ForwardRaisesCursor, SampleCursor DEF Forward
<1>4. CASE ReportToken
  BY <1>4, ReportTokenCursor
<1>5. CASE EndDecode
  BY <1>5, EndDecodeCursor
<1>6. CASE Clients
  BY <1>6, AddRequestCursor, CancelCursor, ReconfigureCursor, RequestsAssumption DEF Clients
<1>7. CASE UNCHANGED vars
  <2>1. UNCHANGED <<schedulerVars, slot_prepared, pos, rows, at, pc, layer>>
    BY <1>7 DEF vars, cacheVars, stepVars
  <2>2. \A i \in DOMAIN rows : /\ Looked(i)' <=> Looked(i)
                               /\ Moved(i)' <=> Moved(i)
                               /\ Fed(i)' <=> Fed(i)
    BY <2>1 DEF Looked, Moved, Fed, Stored, IsPrefill, schedulerVars
  <2>3. \A i \in DOMAIN rows : Looked(i)' => slot_prepared[rows[i]]
    BY <2>2 DEF CursorInv, Prepared
  <2>4. FirstLayer'
    BY <2>1 DEF CursorInv, FirstLayer
  <2>5. CASE pc # "token" \/ (pc' = "token" /\ at' = at)
    BY <2>1, <2>2, <2>3, <2>4, <2>5, CursorFrame
  <2>. QED  BY <2>1, <2>5
<1>. QED  BY <1>1, <1>2, <1>3, <1>4, <1>5, <1>6, <1>7 DEF Next, Step, Stopped

-----------------------------------------------------------------------------
(* What the cells hold: an entry's block ends with the K/V of its key; the
   slot of a request the first tokens of its history; and a layer that has
   been through a row, the tokens the row adds, before the cursor moves. *)

EntriesTrue ==
  \A k \in DOMAIN entries, l \in Layers, o \in 0..(BlockSize - 1) :
    kv[l][entries[k]][o] = SubSeq(k, 1, Len(k) - BlockSize + o + 1)

ReadsRow(r) ==
  /\ pos[batch_idx[r]] <= Len(History(r))
  /\ \A l \in Layers, p \in 0..(pos[batch_idx[r]] - 1) :
       CP!Seen(l, batch_idx[r], p) = SubSeq(History(r), 1, p + 1)
ReadsTrue == \A r \in ToSet(running) : slot_prepared[r] => ReadsRow(r)

Done(i, l) == l < layer \/ (l = layer /\ i < at)
Follows(r, l) ==
  /\ CP!BlocksNeeded(pos[batch_idx[r]] + ValidLen(r)) <= Len(tables[batch_idx[r]])
  /\ \A p \in pos[batch_idx[r]]..(pos[batch_idx[r]] + ValidLen(r) - 1) :
       CP!Seen(l, batch_idx[r], p) = SubSeq(History(r), 1, p + 1)
StoredAhead ==
  pc = "forward" =>
    \A i \in DOMAIN rows, l \in Layers : Done(i, l) /\ ~Fed(i) => Follows(rows[i], l)

HistoryInv == EntriesTrue /\ ReadsTrue /\ StoredAhead

(* The first m elements of a sequence are the same in whatever it begins. *)
LEMMA SameBeginning ==
  ASSUME NEW T, NEW s \in Seq(T), NEW t \in Seq(T), NEW m \in Nat,
         m <= Len(s), m <= Len(t), \A i \in 1..m : s[i] = t[i]
  PROVE  SubSeq(s, 1, m) = SubSeq(t, 1, m)
<1>1. Len(s) \in Nat /\ Len(t) \in Nat
  BY LenProperties
<1>2. m \in 0..Len(s) /\ m \in 0..Len(t) /\ 1..m \subseteq DOMAIN s /\ 1..m \subseteq DOMAIN t
  BY <1>1, LenProperties
<1>3. SubSeq(s, 1, m) = [i \in 1..m |-> s[i]] /\ SubSeq(t, 1, m) = [i \in 1..m |-> t[i]]
  BY <1>2, SubSeqRestrict DEF Restrict
<1>. QED  BY <1>3

(* The beginning of a request's history that its prompt is. *)
LEMMA PromptBeginning ==
  ASSUME SchedulerBooks, NEW r \in Requests, NEW m \in Nat, m <= Len(Prompt[r])
  PROVE  m <= Len(History(r)) /\ SubSeq(Prompt[r], 1, m) = SubSeq(History(r), 1, m)
<1>. DEFINE h == History(r)
            T == Token \cup {Sampled}
<1>1. /\ h \in Seq(T) /\ Len(h) = Len(Prompt[r]) + num_generated[r]
      /\ \A i \in 1..Len(Prompt[r]) : h[i] = Prompt[r][i]
      /\ num_generated[r] \in Nat
  BY HistoryFacts DEF SchedulerBooks
<1>2. Prompt[r] \in Seq(T) /\ Len(Prompt[r]) \in Nat
  BY PromptLengths
<1>. HIDE DEF h, T
<1>3. m <= Len(h) /\ \A i \in 1..m : h[i] = Prompt[r][i]
  BY <1>1, <1>2
<1>4. SubSeq(Prompt[r], 1, m) = SubSeq(h, 1, m)
  BY <1>1, <1>2, <1>3, SameBeginning
<1>. QED  BY <1>3, <1>4 DEF h

(* A history only grows at its end. *)
LEMMA HistoryGrows ==
  ASSUME NEW r \in Requests, NEW g \in Nat, NEW h \in Nat, g <= h, NEW m \in Nat,
         m <= Len(Prompt[r] \o [i \in 1..g |-> Sampled])
  PROVE  /\ m <= Len(Prompt[r] \o [i \in 1..h |-> Sampled])
         /\ SubSeq(Prompt[r] \o [i \in 1..h |-> Sampled], 1, m)
              = SubSeq(Prompt[r] \o [i \in 1..g |-> Sampled], 1, m)
<1>. DEFINE T == Token \cup {Sampled}
            p == Prompt[r]
            a == [i \in 1..g |-> Sampled]
            b == [i \in 1..h |-> Sampled]
<1>1. p \in Seq(T) /\ Len(p) \in Nat
  BY PromptLengths
<1>2. /\ a \in Seq(T) /\ Len(a) = g /\ \A i \in 1..g : a[i] = Sampled
      /\ b \in Seq(T) /\ Len(b) = h /\ \A i \in 1..h : b[i] = Sampled
  OBVIOUS
<1>. HIDE DEF T, p, a, b
<1>3. /\ p \o a \in Seq(T) /\ Len(p \o a) = Len(p) + g
      /\ \A i \in 1..Len(p) + g : (p \o a)[i] = IF i <= Len(p) THEN p[i] ELSE a[i - Len(p)]
      /\ p \o b \in Seq(T) /\ Len(p \o b) = Len(p) + h
      /\ \A i \in 1..Len(p) + h : (p \o b)[i] = IF i <= Len(p) THEN p[i] ELSE b[i - Len(p)]
  <2>1. /\ p \o a \in Seq(T) /\ Len(p \o a) = Len(p) + g
        /\ \A i \in 1..Len(p) + g : (p \o a)[i] = IF i <= Len(p) THEN p[i] ELSE a[i - Len(p)]
    <3>1. /\ p \o a \in Seq(T) /\ Len(p \o a) = Len(p) + Len(a)
          /\ \A i \in 1..Len(p) + Len(a) :
               (p \o a)[i] = IF i <= Len(p) THEN p[i] ELSE a[i - Len(p)]
      BY ONLY <1>1, <1>2, ConcatProperties
    <3>. QED  BY <1>2, <3>1
  <2>2. /\ p \o b \in Seq(T) /\ Len(p \o b) = Len(p) + h
        /\ \A i \in 1..Len(p) + h : (p \o b)[i] = IF i <= Len(p) THEN p[i] ELSE b[i - Len(p)]
    <3>1. /\ p \o b \in Seq(T) /\ Len(p \o b) = Len(p) + Len(b)
          /\ \A i \in 1..Len(p) + Len(b) :
               (p \o b)[i] = IF i <= Len(p) THEN p[i] ELSE b[i - Len(p)]
      BY ONLY <1>1, <1>2, ConcatProperties
    <3>. QED  BY <1>2, <3>1
  <2>. QED  BY <2>1, <2>2
<1>4. m <= Len(p) + g /\ m <= Len(p) + h
  BY <1>1, <1>3 DEF p, a
<1>5. ASSUME NEW i \in 1..m PROVE (p \o b)[i] = (p \o a)[i]
  <2>1. i \in 1..Len(p) + g /\ i \in 1..Len(p) + h
    BY <1>1, <1>4
  <2>2. CASE i <= Len(p)
    BY <1>3, <2>1, <2>2
  <2>3. CASE ~(i <= Len(p))
    <3>1. i - Len(p) \in 1..g /\ i - Len(p) \in 1..h
      BY <1>1, <2>1, <2>3
    <3>. QED  BY <1>2, <1>3, <2>1, <2>3, <3>1
  <2>. QED  BY <2>2, <2>3
<1>6. SubSeq(p \o b, 1, m) = SubSeq(p \o a, 1, m)
  BY <1>3, <1>4, <1>5, SameBeginning
<1>. QED  BY <1>3, <1>4, <1>6 DEF p, a, b

(* A cell below the cursor of a slot is in its table. *)
LEMMA CellsBelow ==
  ASSUME IInv, NEW s \in Slots, NEW p \in 0..(pos[s] - 1)
  PROVE  (p \div BlockSize) + 1 \in DOMAIN tables[s]
<1>1. tables[s] \in Seq(Blocks) /\ pos[s] \in Nat
  BY Known DEF CacheBooks
<1>2. CP!BlocksNeeded(pos[s]) <= Len(tables[s])
  BY DEF IInv, CacheInv, CP!TablesCover, Slots
<1>. DEFINE n == pos[s]
            t == tables[s]
<1>3. n \in Nat /\ t \in Seq(Blocks) /\ CP!BlocksNeeded(n) <= Len(t) /\ p \in 0..(n - 1)
  BY <1>1, <1>2
<1>. HIDE DEF n, t
<1>4. (p \div BlockSize) + 1 \in DOMAIN t
  BY <1>3, Assumptions, CP!CellOfToken
<1>. QED  BY <1>4 DEF t

(* A request whose slot is left alone reads what it read. *)
LEMMA ReadsRowKept ==
  ASSUME IInv, NEW r \in Requests, NEW s \in Slots, batch_idx[r] = s, batch_idx'[r] = s,
         num_generated[r] <= num_generated'[r], num_generated'[r] \in Nat,
         CP!Intact(s), pos'[s] = pos[s], ReadsRow(r)
  PROVE  ReadsRow(r)'
<1>1. PICK g, h : g = num_generated[r] /\ h = num_generated'[r]
  OBVIOUS
<1>2. g \in Nat /\ h \in Nat /\ g <= h
  BY <1>1, Known DEF SchedulerBooks
<1>3. /\ History(r) = Prompt[r] \o [i \in 1..g |-> Sampled]
      /\ History(r)' = Prompt[r] \o [i \in 1..h |-> Sampled]
  BY <1>1 DEF History
<1>4. PICK n : n = pos[s]
  OBVIOUS
<1>5. n \in Nat
  BY <1>4, Known DEF CacheBooks
<1>6. n <= Len(History(r)) /\ n <= Len(History(r))'
  <2>1. n <= Len(History(r))
    BY <1>4 DEF ReadsRow
  <2>. QED  BY <1>2, <1>3, <1>5, <2>1, HistoryGrows
<1>7. ASSUME NEW l \in Layers, NEW p \in 0..(n - 1)
      PROVE  CP!Seen(l, s, p)' = SubSeq(History(r)', 1, p + 1)
  <2>1. CP!Seen(l, s, p) = SubSeq(History(r), 1, p + 1)
    BY <1>4 DEF ReadsRow
  <2>2. (p \div BlockSize) + 1 \in DOMAIN tables[s]
    BY <1>4, CellsBelow
  <2>3. CP!Seen(l, s, p)' = CP!Seen(l, s, p)
    BY <2>2, Assumptions, CP!IntactSeen DEF Slots, Layers, CP!Layers
  <2>4. p + 1 \in Nat /\ p + 1 <= Len(History(r))
    <3>1. Len(History(r)) \in Nat
      BY HistoryFacts, Known
    <3>. QED  BY <1>5, <1>6, <3>1
  <2>5. SubSeq(History(r)', 1, p + 1) = SubSeq(History(r), 1, p + 1)
    BY <1>2, <1>3, <2>4, HistoryGrows
  <2>. QED  BY <2>1, <2>3, <2>5
<1>. QED  BY <1>4, <1>6, <1>7 DEF ReadsRow

(* A step that leaves blocks, tables and cursors alone, prepares no row and
   takes no token back. *)
LEMMA HistoryFrame ==
  ASSUME IInv, HistoryInv, UNCHANGED <<kv, tables, pos, entries>>,
         \A r \in ToSet(running') : slot_prepared'[r] =>
           /\ r \in ToSet(running) /\ slot_prepared[r] /\ batch_idx'[r] = batch_idx[r]
           /\ num_generated'[r] = num_generated[r],
         StoredAhead'
  PROVE  HistoryInv'
<1>1. EntriesTrue'
  BY DEF HistoryInv, EntriesTrue
<1>2. ReadsTrue'
  <2>. SUFFICES ASSUME NEW r \in ToSet(running'), slot_prepared'[r] PROVE ReadsRow(r)'
    BY DEF ReadsTrue
  <2>1. /\ r \in ToSet(running) /\ batch_idx'[r] = batch_idx[r]
        /\ num_generated'[r] = num_generated[r] /\ ReadsRow(r)
    BY DEF HistoryInv, ReadsTrue
  <2>2. r \in Requests /\ batch_idx[r] \in Slots /\ num_generated[r] \in Nat
    BY <2>1, Known DEF SchedulerBooks
  <2>3. \A s \in Slots : CP!Intact(s)
    BY DEF CP!Intact
  <2>. QED  BY <2>1, <2>2, <2>3, ReadsRowKept
<1>. QED  BY <1>1, <1>2 DEF HistoryInv

(* The steps of a batch that neither store, nor prepare, nor report. *)
LEMMA QuietHistory ==
  ASSUME IInv, HistoryInv, UNCHANGED <<kv, tables, pos, entries>>,
         UNCHANGED <<running, slot_prepared, batch_idx, num_generated>>, StoredAhead'
  PROVE  HistoryInv'
BY HistoryFrame

LEMMA PassiveHistory ==
  ASSUME IInv, HistoryInv,
         \/ PrepareRow \/ LookupBlock \/ PrefixMissed \/ PrefixRaises
         \/ Sample \/ AdvanceRow \/ SkipRow \/ RegisterRow \/ PrefillDone
         \/ EndPrefill \/ EndDecode
  PROVE  HistoryInv'
<1>1. /\ pc' # "forward"
      /\ UNCHANGED <<kv, tables, pos, entries>>
      /\ UNCHANGED <<running, slot_prepared, batch_idx, num_generated>>
  <2>1. CASE PrepareRow
    BY <2>1 DEF PrepareRow, AtRow, NextRow, Goto, C!TryLoadPrefix, C!tableVars, cacheVars,
       schedulerVars
  <2>2. CASE LookupBlock
    BY <2>2 DEF LookupBlock, AtRow, C!MatchBlock, C!tableVars, schedulerVars, stepVars
  <2>3. CASE PrefixMissed \/ PrefixRaises
    BY <2>3 DEF PrefixMissed, PrefixRaises, Goto, C!LoadMiss, C!LoadRejected, C!tableVars,
       cacheVars, schedulerVars
  <2>4. CASE Sample \/ SkipRow
    BY <2>4 DEF Sample, SkipRow, NextRow, cacheVars, schedulerVars
  <2>5. CASE AdvanceRow
    BY <2>5 DEF AdvanceRow, cacheVars, S!AdvancePrefill, S!placeVars
  <2>6. CASE RegisterRow
    BY <2>6 DEF RegisterRow, Goto, C!RegisterPrefix, C!tableVars, schedulerVars
  <2>7. CASE PrefillDone
    BY <2>7 DEF PrefillDone, Goto, cacheVars, S!MarkPrefillDone, S!placeVars
  <2>8. CASE EndPrefill \/ EndDecode
    BY <2>8 DEF EndPrefill, EndDecode, cacheVars, schedulerVars
  <2>. QED  BY <2>1, <2>2, <2>3, <2>4, <2>5, <2>6, <2>7, <2>8
<1>. QED  BY <1>1, QuietHistory DEF StoredAhead

(* A forward pass has stored nothing yet when it begins. *)
LEMMA EmbedRowsHistory ==
  ASSUME IInv, CursorInv, HistoryInv, EmbedRows
  PROVE  HistoryInv'
<1>1. /\ UNCHANGED <<kv, tables, pos, entries>>
      /\ UNCHANGED <<running, slot_prepared, batch_idx, num_generated>>
      /\ at' = 1 /\ layer' = layer /\ pc \notin {"forward", "raised"} /\ rows' = rows
  BY DEF EmbedRows, PastRows, cacheVars, schedulerVars
<1>2. layer' = 0
  BY <1>1 DEF CursorInv, FirstLayer
<1>3. \A i \in DOMAIN rows, l \in Layers : ~(l < layer') /\ ~(i < at')
  <2>1. DOMAIN rows = 1..Len(rows) /\ Len(rows) \in Nat
    BY RowsAreRequests DEF IInv, StepInv
  <2>. QED  BY <1>1, <1>2, <2>1 DEF Layers
<1>4. StoredAhead'
  BY <1>1, <1>3 DEF StoredAhead, Done
<1>. QED  BY <1>1, <1>4, QuietHistory

(* A request that comes to run has not been prepared. *)
LEMMA BetweenHistory ==
  ASSUME IInv, IInv', CursorInv, HistoryInv, pc' # "forward",
         UNCHANGED <<kv, tables, pos, entries, slot_prepared, num_generated>>,
         \A r \in Requests :
           \/ state'[r] = state[r] /\ batch_idx'[r] = batch_idx[r]
           \/ state'[r] = "finished"
           \/ state[r] \in {"new", "waiting"}
  PROVE  HistoryInv'
<1>1. ASSUME NEW r \in ToSet(running'), slot_prepared[r]
      PROVE  r \in ToSet(running) /\ batch_idx'[r] = batch_idx[r]
  <2>1. r \in Requests /\ state'[r] \in {"prefill", "decode"}
    BY SchedulerKnownNext DEF SchedulerBooks, IInv
  <2>2. state[r] \notin {"new", "waiting"}
    BY <1>1, <2>1 DEF CursorInv, Prepared
  <2>3. state'[r] = state[r] /\ batch_idx'[r] = batch_idx[r]
    BY <2>1, <2>2
  <2>. QED  BY <2>1, <2>3, Known DEF SchedulerBooks
<1>. QED  BY <1>1, HistoryFrame DEF StoredAhead

LEMMA BeginStepHistory ==
  ASSUME IInv, IInv', CursorInv, HistoryInv, BeginStep
  PROVE  HistoryInv'
<1>1. /\ pc' = "prepare" /\ S!Schedule
      /\ UNCHANGED <<kv, tables, pos, entries, slot_prepared>>
  BY DEF BeginStep, cacheVars
<1>2. UNCHANGED num_generated
  BY <1>1, ScheduleEffect
<1>3. PICK A \in SUBSET ToSet(waiting) :
        /\ \A r \in Requests : state'[r] = IF r \in A THEN "prefill" ELSE state[r]
        /\ \A r \in Requests \ A : batch_idx'[r] = batch_idx[r]
  BY <1>1, ScheduleEffect
<1>4. \A r \in A : state[r] = "waiting"
  <2>1. \A r \in ToSet(waiting) : r \in Requests
    BY Known DEF SchedulerBooks, ToSet
  <2>. QED  BY <1>3, <2>1, Known DEF SchedulerBooks
<1>5. \A r \in Requests :
           \/ state'[r] = state[r] /\ batch_idx'[r] = batch_idx[r]
           \/ state'[r] = "finished"
           \/ state[r] \in {"new", "waiting"}
  BY <1>3, <1>4
<1>. QED  BY <1>1, <1>2, <1>5, BetweenHistory

LEMMA ClientsHistory ==
  ASSUME IInv, IInv', CursorInv, HistoryInv, Clients
  PROVE  HistoryInv'
<1>1. CASE \E r \in Requests : AddRequest(r)
  <2>1. PICK r \in Requests : AddRequest(r)
    BY <1>1
  <2>2. /\ pc' # "forward"
        /\ UNCHANGED <<kv, tables, pos, entries, slot_prepared, num_generated, batch_idx>>
        /\ state[r] = "new" /\ state' = [state EXCEPT ![r] = "waiting"]
    BY <2>1 DEF AddRequest, S!AddRequest, cacheVars, stepVars
  <2>3. \A t \in Requests : state'[t] = state[t] \/ state[t] \in {"new", "waiting"}
    BY <2>2, Known DEF SchedulerBooks
  <2>. QED  BY <2>2, <2>3, BetweenHistory
<1>2. CASE \E r \in Cancellable : Cancel(r)
  <2>1. PICK r \in Requests : Cancel(r)
    BY <1>2, RequestsAssumption
  <2>2. /\ pc' # "forward"
        /\ UNCHANGED <<kv, tables, pos, entries, slot_prepared, num_generated>>
        /\ \A t \in Requests \ {r} : batch_idx'[t] = batch_idx[t] /\ state'[t] = state[t]
        /\ state'[r] = "finished"
    BY <2>1, CancelEffect DEF cacheVars, stepVars
  <2>. QED  BY <2>2, BetweenHistory
<1>3. CASE \E chunk \in Chunks, tokens \in Budgets, new \in Concurrencies :
             Reconfigure(chunk, tokens, new)
  <2>1. PICK chunk \in Chunks, tokens \in Budgets, new \in Concurrencies :
          Reconfigure(chunk, tokens, new)
    BY <1>3
  <2>2. /\ pc' # "forward"
        /\ UNCHANGED <<kv, tables, pos, entries, slot_prepared, num_generated, batch_idx, state>>
    BY <2>1 DEF Reconfigure, S!Reconfigure, cacheVars, stepVars
  <2>. QED  BY <2>2, BetweenHistory
<1>. QED  BY <1>1, <1>2, <1>3 DEF Clients

-----------------------------------------------------------------------------
(* Steps that let blocks go, take them over or hand them on. *)

LEMMA EntriesKept ==
  ASSUME EntriesTrue, DOMAIN entries' \subseteq DOMAIN entries,
         \A k \in DOMAIN entries' :
           /\ entries'[k] = entries[k]
           /\ \A l \in Layers : kv'[l][entries[k]] = kv[l][entries[k]]
  PROVE  EntriesTrue'
BY DEF EntriesTrue

LEMMA ForwardRaisesHistory ==
  ASSUME IInv, HistoryInv, ForwardRaises
  PROVE  HistoryInv'
<1>1. /\ pc' = "raised" /\ pc = "forward" /\ at <= Len(rows)
      /\ UNCHANGED <<running, slot_prepared, batch_idx, num_generated, pos, entries>>
      /\ \/ C!AppendExhausted(RowSlot, layer, NewKV)
         \/ C!AppendTooLong(RowSlot, layer, NewKV)
  BY DEF ForwardRaises, AtRow, Goto, schedulerVars, C!AppendExhausted, C!AppendTooLong,
         C!tableVars, C!cacheVars
<1>2. /\ \A s \in Slots : CP!Intact(s)
      /\ \A k \in DOMAIN entries, l \in Layers : kv'[l][entries[k]] = kv[l][entries[k]]
  <2>1. CASE C!AppendExhausted(RowSlot, layer, NewKV)
    <3>1. CP!AppendExhausted(RowSlot, layer, NewKV) /\ RowSlot \in Slots
      BY <1>1, <2>1, SameAppend, RowFacts DEF Engaged
    <3>2. CP!EntriesIntact /\ \A s \in 0..(BatchSize - 1) : CP!Intact(s)
      BY <3>1, Assumptions, CP!AppendExhaustedCells DEF IInv, CacheInv, Slots
    <3>. QED  BY <3>2 DEF CP!EntriesIntact, Slots, CP!Layers, Layers
  <2>2. CASE C!AppendTooLong(RowSlot, layer, NewKV)
    BY <2>2 DEF C!AppendTooLong, C!tableVars, CP!Intact
  <2>. QED  BY <1>1, <2>1, <2>2
<1>3. EntriesTrue'
  BY <1>1, <1>2, EntriesKept DEF HistoryInv
<1>4. ReadsTrue'
  <2>. SUFFICES ASSUME NEW r \in ToSet(running), slot_prepared[r] PROVE ReadsRow(r)'
    BY <1>1 DEF ReadsTrue
  <2>1. r \in Requests /\ batch_idx[r] \in Slots /\ num_generated[r] \in Nat
    BY Known DEF SchedulerBooks
  <2>. QED  BY <1>1, <1>2, <2>1, ReadsRowKept DEF HistoryInv, ReadsTrue
<1>. QED  BY <1>1, <1>3, <1>4 DEF HistoryInv, StoredAhead

(* What giving a slot back leaves to everyone else. *)
LEMMA ResetSlotHistory ==
  ASSUME IInv, HistoryInv, NEW s \in Slots, C!ResetSlot(s)
  PROVE  /\ EntriesTrue' /\ pos'[s] = 0
         /\ \A t \in Slots \ {s} : CP!Intact(t) /\ pos'[t] = pos[t]
<1>1. CP!ResetSlot(s)
  BY SameReset
<1>2. CP!EntriesIntact /\ \A t \in Slots \ {s} : CP!Intact(t) /\ pos'[t] = pos[t]
  BY <1>1, Assumptions, CP!ResetSlotCells DEF IInv, CacheInv, Slots
<1>3. entries' = entries /\ pos' = [pos EXCEPT ![s] = 0]
  BY DEF C!ResetSlot, C!cacheVars
<1>4. pos'[s] = 0
  BY <1>3, Known DEF CacheBooks
<1>5. \A k \in DOMAIN entries, l \in Layers : kv'[l][entries[k]] = kv[l][entries[k]]
  BY <1>2 DEF CP!EntriesIntact, CP!Layers, Layers
<1>. QED  BY <1>2, <1>3, <1>4, <1>5, EntriesKept DEF HistoryInv

(* A slot with nothing cached is read rightly. *)
LEMMA EmptyRead ==
  ASSUME NEW r, pos'[batch_idx'[r]] = 0, Len(History(r))' \in Nat
  PROVE  ReadsRow(r)'
<1>1. \A p : ~(p \in 0..(0 - 1))
  OBVIOUS
<1>2. 0 <= Len(History(r))'
  OBVIOUS
<1>. QED  BY <1>1, <1>2 DEF ReadsRow

LEMMA ResetRowHistory ==
  ASSUME IInv, IInv', CursorInv, HistoryInv, ResetRow
  PROVE  HistoryInv'
<1>1. /\ pc = "reset" /\ at <= Len(rows) /\ pc' = "prepare"
      /\ slot_prepared' = [slot_prepared EXCEPT ![Row] = TRUE]
      /\ UNCHANGED <<running, state, batch_idx, num_generated>>
      /\ IF prefill_offset[Row] = 0 THEN C!ResetSlot(RowSlot) ELSE UNCHANGED cacheVars
  BY DEF ResetRow, AtRow, NextRow, schedulerVars
<1>2. /\ Row \in Requests /\ RowSlot \in Slots
      /\ \A r \in ToSet(running) : r # Row => batch_idx[r] # RowSlot
      /\ \A r \in ToSet(running) : r \in Requests /\ batch_idx[r] \in Slots /\ num_generated[r] \in Nat
  BY <1>1, RowFacts, Known DEF Engaged, SchedulerBooks
<1>3. \A r \in Requests \ {Row} : slot_prepared'[r] = slot_prepared[r]
  BY <1>1, <1>2 DEF IInv, StepInv, StepTyped
<1>4. CASE prefill_offset[Row] = 0
  <2>1. /\ EntriesTrue' /\ pos'[RowSlot] = 0
        /\ \A t \in Slots \ {RowSlot} : CP!Intact(t) /\ pos'[t] = pos[t]
    BY <1>1, <1>2, <1>4, ResetSlotHistory
  <2>2. ReadsTrue'
    <3>. SUFFICES ASSUME NEW r \in ToSet(running), slot_prepared'[r] PROVE ReadsRow(r)'
      BY <1>1 DEF ReadsTrue
    <3>1. CASE r = Row
      <4>1. SchedulerBooks'
        BY SchedulerKnownNext DEF IInv
      <4>2. Len(History(r))' = Len(Prompt[r]) + num_generated'[r] /\ num_generated'[r] \in Nat
        BY <1>1, <1>2, <4>1, HistoryFactsNext
      <4>3. Len(History(r))' \in Nat
        BY <1>2, <4>2, PromptLengths
      <4>4. pos'[batch_idx'[r]] = 0
        BY <1>1, <2>1, <3>1 DEF RowSlot
      <4>. QED  BY <4>3, <4>4, EmptyRead
    <3>2. CASE r # Row
      <4>1. slot_prepared[r] /\ batch_idx[r] \in Slots \ {RowSlot}
        BY <1>2, <1>3, <3>2
      <4>2. ReadsRow(r)
        BY <4>1 DEF HistoryInv, ReadsTrue
      <4>. QED  BY <1>1, <1>2, <2>1, <4>1, <4>2, ReadsRowKept
    <3>. QED  BY <3>1, <3>2
  <2>. QED  BY <1>1, <2>1, <2>2 DEF HistoryInv, StoredAhead
<1>5. CASE prefill_offset[Row] # 0
  <2>1. UNCHANGED <<kv, tables, pos, entries>>
    BY <1>1, <1>5 DEF cacheVars
  <2>2. slot_prepared[Row]
    BY <1>2, <1>5 DEF CursorInv, Prepared
  <2>3. \A r \in ToSet(running) : slot_prepared'[r] => slot_prepared[r]
    BY <1>2, <1>3, <2>2
  <2>. QED  BY <1>1, <2>1, <2>3, HistoryFrame DEF StoredAhead
<1>. QED  BY <1>4, <1>5

LEMMA ReportTokenHistory ==
  ASSUME IInv, IInv', HistoryInv, ReportToken
  PROVE  HistoryInv'
<1>1. /\ pc = "token" /\ at <= Len(rows) /\ S!MarkDecodeDone(Row)
      /\ IF state'[Row] = "finished" THEN C!ResetSlot(RowSlot) ELSE UNCHANGED cacheVars
      /\ pc' # "forward" /\ UNCHANGED slot_prepared
  BY DEF ReportToken, AtRow, NextRow
<1>2. /\ Row \in Requests /\ RowSlot \in Slots /\ Row \in ToSet(running)
      /\ \A r \in ToSet(running) : r # Row => batch_idx[r] # RowSlot
      /\ \A r \in ToSet(running) : r \in Requests /\ batch_idx[r] \in Slots /\ num_generated[r] \in Nat
  BY <1>1, RowFacts, Known DEF Reporting, SchedulerBooks
<1>3. /\ num_generated' = [num_generated EXCEPT ![Row] = @ + 1]
      /\ \A t \in Requests \ {Row} : batch_idx'[t] = batch_idx[t]
      /\ \/ state'[Row] = "finished" /\ ToSet(running') = ToSet(running) \ {Row}
         \/ UNCHANGED <<running, state, batch_idx>> /\ state'[Row] # "finished"
  <2>1. state[Row] = "decode"
    BY <1>1, <1>2, TokenEffect
  <2>. QED  BY <1>1, <1>2, <2>1, TokenEffect
<1>4. \A r \in ToSet(running) : num_generated[r] <= num_generated'[r] /\ num_generated'[r] \in Nat
  <2>1. num_generated \in [Requests -> Nat]
    BY Known DEF SchedulerBooks
  <2>. QED  BY <1>2, <1>3, <2>1
<1>5. /\ EntriesTrue'
      /\ \A s \in Slots : s # RowSlot \/ state'[Row] # "finished" => CP!Intact(s) /\ pos'[s] = pos[s]
  <2>1. CASE state'[Row] = "finished"
    BY <1>1, <1>2, <2>1, ResetSlotHistory
  <2>2. CASE state'[Row] # "finished"
    <3>1. UNCHANGED <<kv, tables, pos, entries>>
      BY <1>1, <2>2 DEF cacheVars
    <3>. QED  BY <3>1, EntriesKept DEF HistoryInv, CP!Intact
  <2>. QED  BY <2>1, <2>2
<1>6. ReadsTrue'
  <2>. SUFFICES ASSUME NEW r \in ToSet(running'), slot_prepared[r] PROVE ReadsRow(r)'
    BY <1>1 DEF ReadsTrue
  <2>1. r \in ToSet(running) /\ (r = Row => state'[Row] # "finished")
    BY <1>3
  <2>2. /\ r \in Requests /\ batch_idx[r] \in Slots
        /\ batch_idx[r] # RowSlot \/ state'[Row] # "finished"
    BY <1>2, <2>1
  <2>3. batch_idx'[r] = batch_idx[r]
    BY <1>3, <2>1, <2>2
  <2>4. ReadsRow(r)
    BY <2>1 DEF HistoryInv, ReadsTrue
  <2>. QED  BY <1>4, <1>5, <2>1, <2>2, <2>3, <2>4, ReadsRowKept
<1>. QED  BY <1>1, <1>5, <1>6 DEF HistoryInv, StoredAhead

-----------------------------------------------------------------------------
(* Taking a prefix over, and giving one to the prefix cache. *)

LEMMA BlockArithmetic ==
  ASSUME NEW d \in Nat \ {0}, NEW i \in Nat \ {0}, NEW o \in 0..(d - 1)
  PROVE  /\ i * d - d + o + 1 = (i - 1) * d + o + 1
         /\ (i - 1) * d + o + 1 \in 1..(i * d) /\ i * d \in Nat
         /\ (i - 1) * d + o \in Nat
OBVIOUS

(* What an entry for the i-th block of a prompt is to hold. *)
LEMMA KeyBeginning ==
  ASSUME SchedulerBooks, NEW r \in Requests, NEW i \in Nat \ {0},
         i * BlockSize <= Len(Prompt[r]), NEW o \in 0..(BlockSize - 1)
  PROVE  SubSeq(C!Key(Prompt[r], i), 1, Len(C!Key(Prompt[r], i)) - BlockSize + o + 1)
           = SubSeq(History(r), 1, (i - 1) * BlockSize + o + 1)
<1>. DEFINE k == C!Key(Prompt[r], i)
            n == i * BlockSize
            m == (i - 1) * BlockSize + o + 1
<1>1. BlockSize \in Nat \ {0}
  BY CacheAssumption
<1>2. n \in Nat /\ m \in 1..n /\ n - BlockSize + o + 1 = m
  BY <1>1, BlockArithmetic
<1>3. k = SubSeq(Prompt[r], 1, n) /\ n <= Len(Prompt[r])
  BY DEF C!Key
<1>4. Prompt[r] \in Seq(Token) /\ Len(Prompt[r]) \in Nat
  BY PromptLengths
<1>. HIDE DEF k, n, m
<1>5. k \in Seq(Token) /\ Len(k) = n
  <2>1. \A j \in 1..n : Prompt[r][j] \in Token
    BY <1>2, <1>3, <1>4, ElementOfSeq
  <2>2. (1 <= n) /\ n - 1 + 1 = n /\ n \in Int
    BY <1>2
  <2>. QED  BY <1>3, <2>1, <2>2, SubSeqProperties
<1>6. SubSeq(k, 1, m) = SubSeq(Prompt[r], 1, m)
  <2>1. /\ 1 \in 1..Len(Prompt[r]) /\ n \in 1..Len(Prompt[r])
        /\ 1 \in 1..n - 1 + 1 /\ m \in 1..n - 1 + 1
        /\ 1 + 1 - 1 = 1 /\ 1 + m - 1 = m
    BY <1>2, <1>3, <1>4
  <2>2. SubSeq(SubSeq(Prompt[r], 1, n), 1, m) = SubSeq(Prompt[r], 1 + 1 - 1, 1 + m - 1)
    BY <1>4, <2>1, SubSeqOfSubSeq
  <2>. QED  BY <1>3, <2>1, <2>2
<1>7. SubSeq(Prompt[r], 1, m) = SubSeq(History(r), 1, m)
  <2>1. m \in Nat /\ m <= Len(Prompt[r])
    BY <1>2, <1>3, <1>4
  <2>. QED  BY <2>1, PromptBeginning
<1>8. Len(k) - BlockSize + o + 1 = m
  BY <1>2, <1>5
<1>. QED  BY <1>6, <1>7, <1>8 DEF k, m

LEMMA BlockOfToken ==
  ASSUME NEW d \in Nat \ {0}, NEW m \in Nat, NEW p \in 0..(m * d - 1)
  PROVE  /\ (p \div d) + 1 \in 1..m /\ p % d \in 0..(d - 1)
         /\ ((p \div d) + 1) * d <= m * d
         /\ (((p \div d) + 1) - 1) * d + (p % d) + 1 = p + 1
<1>1. m * d \in Nat
  OBVIOUS
<1>2. p \in Nat /\ p < m * d
  BY <1>1
<1>3. PICK b, o : b = p \div d /\ o = p % d
  OBVIOUS
<1>4. b \in Nat /\ o \in 0..(d - 1) /\ p = b * d + o
  BY <1>2, <1>3
<1>5. b + 1 <= m
  <2>. SUFFICES ASSUME m <= b PROVE FALSE
    BY <1>4
  <2>1. m * d <= b * d
    BY <1>4
  <2>. QED  BY <1>1, <1>2, <1>4, <2>1
<1>6. (b + 1) * d <= m * d
  BY <1>4, <1>5
<1>7. ((b + 1) - 1) * d = b * d /\ b * d \in Nat
  BY <1>4
<1>. QED  BY <1>3, <1>4, <1>5, <1>6, <1>7

LEMMA LoadedPrefixHistory ==
  ASSUME IInv, IInv', HistoryInv, LoadedPrefix
  PROVE  HistoryInv'
<1>. DEFINE m == C!MatchedBlocks
            r == Row
            matched == [i \in 1..m |-> entries[C!Key(Prompt[r], i)]]
<1>1. /\ pc = "load" /\ at <= Len(rows) /\ C!LoadHit /\ pc' = "prepare"
      /\ slot_prepared' = [slot_prepared EXCEPT ![Row] = TRUE]
      /\ UNCHANGED <<running, batch_idx, num_generated>>
  BY DEF LoadedPrefix, AtRow, NextRow
<1>2. C!LookupOver /\ UNCHANGED <<kv, entries>>
  BY <1>1 DEF C!LoadHit
<1>3. /\ call.slot = RowSlot /\ call.tokens = Prompt[r]
      /\ m * BlockSize \in Nat /\ m * BlockSize <= Len(Prompt[r])
  BY <1>2, LookupFacts
<1>4. /\ Row \in Requests /\ RowSlot \in Slots
      /\ \A t \in ToSet(running) : t # Row => batch_idx[t] # RowSlot
      /\ \A t \in ToSet(running) : t \in Requests /\ batch_idx[t] \in Slots /\ num_generated[t] \in Nat
  BY <1>1, RowFacts, Known DEF Engaged, SchedulerBooks
<1>5. m \in Nat /\ BlockSize \in Nat \ {0}
  <2>1. call.op = "lookup" /\ call # C!Idle
    BY <1>2 DEF C!LookupOver, C!Idle
  <2>. QED  BY <2>1, Known, CacheAssumption DEF CacheBooks, C!MatchedBlocks
<1>6. \A i \in 1..m : C!Key(Prompt[r], i) \in DOMAIN entries
  <2>1. call.op = "lookup"
    BY <1>2 DEF C!LookupOver
  <2>2. CP!CallOK
    BY DEF IInv, CacheInv, CP!IInv
  <2>. QED  BY <1>3, <2>1, <2>2 DEF CP!CallOK, CP!Key, C!Key, C!MatchedBlocks
<1>7. /\ tables' = [tables EXCEPT ![RowSlot] = matched]
      /\ pos' = [pos EXCEPT ![RowSlot] = m * BlockSize]
  BY <1>1, <1>3 DEF C!LoadHit, C!CursorAfterLoad
<1>8. /\ tables'[RowSlot] = matched /\ pos'[RowSlot] = m * BlockSize
      /\ \A s \in Slots \ {RowSlot} : tables'[s] = tables[s] /\ pos'[s] = pos[s]
  BY <1>4, <1>7, Known DEF CacheBooks
<1>9. EntriesTrue'
  BY <1>2, EntriesKept DEF HistoryInv
<1>10. ReadsTrue'
  <2>. SUFFICES ASSUME NEW t \in ToSet(running), slot_prepared'[t] PROVE ReadsRow(t)'
    BY <1>1 DEF ReadsTrue
  <2>1. CASE t = Row
    <3>1. batch_idx'[t] = RowSlot /\ t = r
      BY <1>1, <2>1 DEF RowSlot
    <3>2. History(t)' = History(t)
      BY <1>1 DEF History
    <3>3. pos'[batch_idx'[t]] <= Len(History(t))
      BY <1>3, <1>4, <1>8, <3>1, Known, PromptBeginning
    <3>4. ASSUME NEW l \in Layers, NEW p \in 0..(m * BlockSize - 1)
          PROVE  kv[l][matched[(p \div BlockSize) + 1]][p % BlockSize]
                   = SubSeq(History(t), 1, p + 1)
      <4>. DEFINE i == (p \div BlockSize) + 1
                  o == p % BlockSize
      <4>1. /\ i \in 1..m /\ o \in 0..(BlockSize - 1) /\ i * BlockSize <= m * BlockSize
            /\ (i - 1) * BlockSize + o + 1 = p + 1
        <5>1. m \in Nat /\ BlockSize \in Nat \ {0} /\ p \in 0..(m * BlockSize - 1)
          BY <1>5
        <5>. HIDE DEF m
        <5>2. /\ i \in 1..m /\ o \in 0..(BlockSize - 1) /\ i * BlockSize <= m * BlockSize
              /\ (((p \div BlockSize) + 1) - 1) * BlockSize + (p % BlockSize) + 1 = p + 1
          BY ONLY <5>1, BlockOfToken
        <5>. QED  BY <5>2
      <4>. HIDE DEF i, o
      <4>2. i \in Nat \ {0} /\ i * BlockSize <= Len(Prompt[t])
        <5>1. i * BlockSize \in Nat /\ Len(Prompt[r]) \in Nat
          BY <1>4, <1>5, <4>1, PromptLengths
        <5>. QED  BY <1>3, <3>1, <4>1, <5>1
      <4>3. kv[l][entries[C!Key(Prompt[t], i)]][o]
              = SubSeq(C!Key(Prompt[t], i), 1, Len(C!Key(Prompt[t], i)) - BlockSize + o + 1)
        BY <1>6, <3>1, <4>1 DEF HistoryInv, EntriesTrue
      <4>4. @ = SubSeq(History(t), 1, (i - 1) * BlockSize + o + 1)
        BY <1>4, <4>1, <4>2, Known, KeyBeginning
      <4>5. matched[i] = entries[C!Key(Prompt[t], i)]
        BY <3>1, <4>1
      <4>. QED  BY <4>1, <4>3, <4>4, <4>5 DEF i, o
    <3>5. ASSUME NEW l \in Layers, NEW p \in 0..(pos'[batch_idx'[t]] - 1)
          PROVE  CP!Seen(l, batch_idx[t], p)' = SubSeq(History(t), 1, p + 1)
      <4>1. p \in 0..(m * BlockSize - 1)
        BY <1>8, <3>1
      <4>2. CP!Seen(l, batch_idx[t], p)' = kv[l][matched[(p \div BlockSize) + 1]][p % BlockSize]
        BY <1>2, <1>8, <3>1 DEF CP!Seen
      <4>. QED  BY <3>4, <4>1, <4>2
    <3>. QED  BY <3>2, <3>3, <3>5 DEF ReadsRow
  <2>2. CASE t # Row
    <3>1. slot_prepared[t]
      BY <1>1, <1>4, <2>2 DEF IInv, StepInv, StepTyped
    <3>2. ReadsRow(t)
      BY <3>1 DEF HistoryInv, ReadsTrue
    <3>3. batch_idx[t] \in Slots \ {RowSlot}
      BY <1>4, <2>2
    <3>4. CP!Intact(batch_idx[t])
      BY <1>2, <1>8, <3>3 DEF CP!Intact
    <3>. QED  BY <1>1, <1>4, <1>8, <3>2, <3>3, <3>4, ReadsRowKept
  <2>. QED  BY <2>1, <2>2
<1>. QED  BY <1>1, <1>9, <1>10 DEF HistoryInv, StoredAhead

LEMMA TokenOfBlock ==
  ASSUME NEW d \in Nat \ {0}, NEW i \in Nat \ {0}, NEW o \in 0..(d - 1), NEW n \in Nat, i * d <= n
  PROVE  /\ (i - 1) * d + o \in 0..(n - 1)
         /\ (((i - 1) * d + o) \div d) + 1 = i
         /\ ((i - 1) * d + o) % d = o
<1>1. PICK b : b = i - 1
  OBVIOUS
<1>2. b \in Nat /\ i = b + 1 /\ o \in Nat /\ o < d
  BY <1>1
<1>3. b * d \in Nat /\ i * d = b * d + d
  BY <1>2
<1>4. b * d + o \in 0..(n - 1)
  BY <1>2, <1>3
<1>5. (b * d + o) \div d = b /\ (b * d + o) % d = o
  BY <1>2, <1>3
<1>. QED  BY <1>1, <1>2, <1>4, <1>5

(* A block of a slot's table holds the tokens of its place in the prompt. *)
LEMMA AddEntryHistory ==
  ASSUME IInv, CursorInv, HistoryInv, pc = "insert", at <= Len(rows), CP!AddEntry
  PROVE  EntriesTrue'
<1>. DEFINE k == CP!NextKey
            i == call.next
            r == Row
            s == RowSlot
<1>1. /\ call.op = "insert"
      /\ entries' = [j \in DOMAIN entries \cup {k} |-> IF j = k THEN tables[call.slot][i]
                                                       ELSE entries[j]]
      /\ k \notin DOMAIN entries /\ kv' = kv
  BY DEF CP!AddEntry, CP!tableVars
<1>2. /\ call.slot = s /\ call.tokens = Prompt[r] /\ k = C!Key(Prompt[r], i)
  <2>1. call # C!Idle
    BY <1>1 DEF C!Idle
  <2>. QED  BY <2>1 DEF IInv, StepInv, CallOfRow, CP!NextKey, CP!Key, C!Key
<1>3. /\ r \in Requests /\ s \in Slots /\ r \in ToSet(running) /\ at \in DOMAIN rows
      /\ at \in Nat
  BY RowFacts, RowsAreRequests DEF Reporting, IInv, StepInv
<1>4. /\ i \in Nat \ {0} /\ i * BlockSize <= pos[s] /\ BlockSize \in Nat \ {0}
      /\ pos[s] \in Nat
  <2>1. i \in Nat \ {0} /\ i * BlockSize <= pos[s]
    BY <1>1, <1>2, Assumptions, CP!InsertFacts DEF IInv, CacheInv
  <2>. QED  BY <1>3, <2>1, CacheAssumption, Known DEF CacheBooks
<1>5. i * BlockSize <= Len(Prompt[r])
  <2>1. CP!CallOK
    BY DEF IInv, CacheInv, CP!IInv
  <2>2. i <= Len(Prompt[r]) \div BlockSize /\ Len(Prompt[r]) \in Nat
    BY <1>1, <1>2, <1>3, <2>1, PromptLengths DEF CP!CallOK, CP!FullBlocks
  <2>3. i \in 1..(Len(Prompt[r]) \div BlockSize)
    <3>1. \A n \in Nat, d \in Nat \ {0}, j \in Nat \ {0} : j <= n \div d => j \in 1..(n \div d)
      OBVIOUS
    <3>. HIDE DEF i
    <3>. QED  BY <1>4, <2>2, <3>1
  <2>. QED  BY <1>4, <2>2, <2>3, Assumptions, CP!FullBlockFits
<1>6. ReadsRow(r)
  <2>1. Looked(at)
    BY <1>3 DEF Looked, Reporting
  <2>2. slot_prepared[r]
    BY <1>3, <2>1 DEF CursorInv, Prepared, Row
  <2>. QED  BY <1>3, <2>2 DEF HistoryInv, ReadsTrue
<1>. HIDE DEF k, i, r, s
<1>7. ASSUME NEW l \in Layers, NEW o \in 0..(BlockSize - 1)
      PROVE  kv[l][tables[s][i]][o] = SubSeq(k, 1, Len(k) - BlockSize + o + 1)
  <2>1. PICK p : p = (i - 1) * BlockSize + o
    OBVIOUS
  <2>2. p \in 0..(pos[s] - 1) /\ (p \div BlockSize) + 1 = i /\ p % BlockSize = o
    BY <1>4, <2>1, TokenOfBlock
  <2>3. CP!Seen(l, s, p) = SubSeq(History(r), 1, p + 1)
    BY <1>6, <2>2 DEF ReadsRow, r, s, RowSlot
  <2>4. CP!Seen(l, s, p) = kv[l][tables[s][i]][o]
    BY <2>2 DEF CP!Seen
  <2>5. SubSeq(C!Key(Prompt[r], i), 1, Len(C!Key(Prompt[r], i)) - BlockSize + o + 1)
          = SubSeq(History(r), 1, (i - 1) * BlockSize + o + 1)
    BY <1>3, <1>4, <1>5, Known, KeyBeginning
  <2>. QED  BY <1>2, <2>1, <2>3, <2>4, <2>5
<1>8. /\ DOMAIN entries' = DOMAIN entries \cup {k}
      /\ entries'[k] = tables[s][i]
      /\ \A j \in DOMAIN entries : entries'[j] = entries[j]
  BY <1>1, <1>2
<1>. QED  BY <1>1, <1>7, <1>8 DEF HistoryInv, EntriesTrue

LEMMA InsertBlockHistory ==
  ASSUME IInv, CursorInv, HistoryInv, InsertBlock
  PROVE  HistoryInv'
<1>1. /\ pc = "insert" /\ pc' # "forward" /\ at <= Len(rows) /\ C!Insert
      /\ UNCHANGED <<running, slot_prepared, batch_idx, num_generated>>
  BY DEF InsertBlock, AtRow, stepVars, schedulerVars
<1>2. \A s \in Slots : CP!Intact(s) /\ pos'[s] = pos[s]
  <2>1. CASE CP!RenewEntry \/ CP!AddEntry
    <3>1. UNCHANGED <<kv, tables, pos>>
      BY <2>1 DEF CP!RenewEntry, CP!AddEntry, CP!tableVars
    <3>. QED  BY <3>1 DEF CP!Intact
  <2>2. CASE CP!EvictOldest
    BY <2>2, Assumptions, CP!EvictOldestCells DEF IInv, CacheInv, Slots
  <2>. QED  BY <1>1, <2>1, <2>2, SameInsert
<1>3. EntriesTrue'
  <2>1. CASE CP!RenewEntry
    <3>1. UNCHANGED <<kv, entries>>
      BY <2>1 DEF CP!RenewEntry, CP!tableVars
    <3>. QED  BY <3>1, EntriesKept DEF HistoryInv
  <2>2. CASE CP!EvictOldest
    BY <2>2, Assumptions, CP!EvictOldestCells, EntriesKept
       DEF HistoryInv, IInv, CacheInv, Layers, CP!Layers
  <2>3. CASE CP!AddEntry
    BY <1>1, <2>3, AddEntryHistory
  <2>. QED  BY <1>1, <2>1, <2>2, <2>3, SameInsert
<1>4. ReadsTrue'
  <2>. SUFFICES ASSUME NEW r \in ToSet(running), slot_prepared[r] PROVE ReadsRow(r)'
    BY <1>1 DEF ReadsTrue
  <2>1. r \in Requests /\ batch_idx[r] \in Slots /\ num_generated[r] \in Nat
    BY Known DEF SchedulerBooks
  <2>. QED  BY <1>1, <1>2, <2>1, ReadsRowKept DEF HistoryInv, ReadsTrue
<1>. QED  BY <1>1, <1>3, <1>4 DEF HistoryInv, StoredAhead

(* The tokens of a row continue what is cached. *)
LEMMA Continued ==
  ASSUME NEW T, NEW h \in Seq(T), NEW t \in Seq(T), NEW k \in Nat, NEW i \in Nat \ {0},
         i <= Len(t), k + i <= Len(h), \A j \in 1..i : t[j] = h[k + j]
  PROVE  SubSeq(h, 1, k) \o SubSeq(t, 1, i) = SubSeq(h, 1, k + i)
<1>. DEFINE a == SubSeq(t, 1, i)
            b == SubSeq(h, k + 1, k + i)
<1>1. Len(h) \in Nat /\ Len(t) \in Nat
  BY LenProperties
<1>2. a \in Seq(T) /\ Len(a) = i /\ \A j \in 1..i : a[j] = t[j]
  <2>1. \A j \in 1..i : t[j] \in T
    BY <1>1, ElementOfSeq
  <2>2. /\ a \in Seq(T) /\ Len(a) = IF 1 <= i THEN i - 1 + 1 ELSE 0
        /\ \A j \in 1 .. i - 1 + 1 : a[j] = t[1 + j - 1]
    BY <2>1, SubSeqProperties
  <2>3. i - 1 + 1 = i /\ 1 <= i /\ \A j \in 1..i : 1 + j - 1 = j
    OBVIOUS
  <2>. QED  BY <2>2, <2>3
<1>3. b \in Seq(T) /\ Len(b) = i /\ \A j \in 1..i : b[j] = h[k + j]
  <2>1. \A j \in k + 1 .. k + i : h[j] \in T
    BY <1>1, ElementOfSeq
  <2>2. /\ b \in Seq(T) /\ Len(b) = IF k + 1 <= k + i THEN (k + i) - (k + 1) + 1 ELSE 0
        /\ \A j \in 1 .. (k + i) - (k + 1) + 1 : b[j] = h[(k + 1) + j - 1]
    BY <2>1, SubSeqProperties
  <2>3. (k + i) - (k + 1) + 1 = i /\ k + 1 <= k + i /\ \A j \in 1..i : (k + 1) + j - 1 = k + j
    OBVIOUS
  <2>. QED  BY <2>2, <2>3
<1>4. a = b
  <2>. HIDE DEF a, b
  <2>1. \A j \in 1..Len(a) : a[j] = b[j]
    BY <1>2, <1>3
  <2>. QED  BY <1>2, <1>3, <2>1, SeqEqual
<1>5. SubSeq(h, 1, k) \o SubSeq(h, k + 1, k + i) = SubSeq(h, 1, k + i)
  <2>1. 1 \in 1 .. Len(h) + 1 /\ k \in 1 - 1 .. Len(h) /\ k + i \in k .. Len(h)
    BY <1>1
  <2>. QED  BY <2>1, ConcatAdjacentSubSeq
<1>. QED  BY <1>4, <1>5

(* What the attention stores for a row is the K/V of its own tokens. *)
LEMMA NewKVHistory ==
  ASSUME IInv, CursorInv, HistoryInv, pc = "forward", at <= Len(rows)
  PROVE  /\ Len(NewKV) = ValidLen(Row)
         /\ \A i \in 1..ValidLen(Row) : NewKV[i] = SubSeq(History(Row), 1, pos[RowSlot] + i)
<1>. DEFINE h == History(Row)
            t == RowTokens(Row)
            k == pos[RowSlot]
            n == ValidLen(Row)
            T == Token \cup {Sampled, Pad}
<1>1. /\ slot_prepared[Row] /\ k \in Nat /\ n \in Nat \ {0} /\ Len(t) = n
      /\ k + n <= Len(h) /\ \A i \in 1..n : t[i] = h[k + i]
  BY FedTokens
<1>2. Row \in Requests /\ Row \in ToSet(running) /\ RowSlot \in Slots /\ layer \in Layers
  BY RowFacts DEF Engaged, IInv, StepInv, StepTyped
<1>3. h \in Seq(T) /\ Len(h) \in Nat
  <2>1. h \in Seq(Token \cup {Sampled}) /\ Len(h) \in Nat
    BY <1>2, HistoryFacts, Known
  <2>2. Token \cup {Sampled} \subseteq T
    OBVIOUS
  <2>. QED  BY <2>1, <2>2
<1>4. t \in Seq(T)
  BY RowTokensType
<1>5. PastKV = SubSeq(h, 1, k)
  <2>1. CASE k = 0
    <3>1. SubSeq(h, 1, 0) = <<>>
      BY SubSeqEmpty
    <3>. QED  BY <2>1, <3>1 DEF PastKV
  <2>2. CASE k # 0
    <3>1. k - 1 \in 0..(k - 1) /\ (k - 1) + 1 = k
      BY <1>1, <2>2
    <3>2. CP!Seen(layer, RowSlot, k - 1) = SubSeq(h, 1, (k - 1) + 1)
      BY <1>1, <1>2, <3>1 DEF HistoryInv, ReadsTrue, ReadsRow, RowSlot
    <3>. QED  BY <2>2, <3>1, <3>2 DEF PastKV, C!Resolve, CP!Seen
  <2>. QED  BY <2>1, <2>2
<1>6. Len(NewKV) = n
  BY <1>1, NewKVType
<1>7. ASSUME NEW i \in 1..n PROVE NewKV[i] = SubSeq(h, 1, k + i)
  <2>1. NewKV[i] = PastKV \o SubSeq(t, 1, i)
    BY <1>1 DEF NewKV
  <2>. HIDE DEF h, t, k, n, T
  <2>2. i \in Nat \ {0} /\ i <= Len(t) /\ k + i <= Len(h)
    BY <1>1, <1>3
  <2>3. \A j \in 1..i : t[j] = h[k + j]
    BY <1>1
  <2>4. SubSeq(h, 1, k) \o SubSeq(t, 1, i) = SubSeq(h, 1, k + i)
    BY <1>1, <1>3, <1>4, <2>2, <2>3, Continued
  <2>. QED  BY <1>5, <2>1, <2>4
<1>. QED  BY <1>6, <1>7

(* What the pass has done after a row is what it had done before, and this
   layer of this row. *)
LEMMA ForwardRowDone ==
  ASSUME IInv, ForwardRow, pc' = "forward", NEW i \in DOMAIN rows, NEW l \in Layers,
         Done(i, l)', ~Fed(i)'
  PROVE  /\ ~Fed(i)
         /\ i = at => layer # NumLayers - 1 /\ (l = layer \/ Done(i, l))
         /\ i # at => Done(i, l)
<1>1. l \in Nat /\ i \in 1..Len(rows) /\ layer \in Nat /\ NumLayers \in Nat \ {0}
      /\ layer <= NumLayers - 1
  BY ForwardFacts DEF Layers
<1>2. ~Fed(i) /\ (i = at => layer # NumLayers - 1)
  BY ForwardFed
<1>3. l < layer' \/ (l = layer' /\ i < at')
  BY DEF Done
<1>4. CASE at < Len(rows)
  <2>1. l < layer \/ (l = layer /\ i < at + 1)
    BY <1>3, <1>4, ForwardFacts
  <2>2. i < at + 1 /\ i # at => i < at
    BY <1>1, ForwardFacts
  <2>. QED  BY <1>2, <2>1, <2>2 DEF Done
<1>5. CASE at = Len(rows)
  <2>1. layer # NumLayers - 1 /\ layer' = (layer + 1) % NumLayers /\ at' = 1
    BY <1>5, ForwardFacts
  <2>2. (layer + 1) % NumLayers = layer + 1
    BY <1>1, <2>1
  <2>3. l < layer + 1
    BY <1>1, <1>3, <2>1, <2>2
  <2>4. l < layer \/ l = layer
    BY <1>1, <2>3
  <2>5. i # at => i < at
    BY <1>1, <1>5, ForwardFacts
  <2>. QED  BY <1>2, <2>4, <2>5 DEF Done
<1>. QED  BY <1>4, <1>5, ForwardFacts

(* What a row leaves in the cells: its own tokens, after what was there. *)
LEMMA ForwardCells ==
  ASSUME IInv, IInv', CursorInv, HistoryInv, ForwardRow, NEW s \in Slots, s = RowSlot
  PROVE  /\ EntriesTrue'
         /\ \A t \in Slots \ {s} : CP!Intact(t) /\ tables'[t] = tables[t] /\ pos'[t] = pos[t]
         /\ pos'[s] = IF layer = NumLayers - 1 THEN pos[s] + ValidLen(Row) ELSE pos[s]
         /\ CP!BlocksNeeded(pos[s] + ValidLen(Row)) <= Len(tables'[s])
         /\ \A l \in Layers, c \in 0..(pos[s] - 1) :
              CP!Seen(l, s, c)' = SubSeq(History(Row), 1, c + 1)
         /\ \A l \in Layers, c \in pos[s]..(pos[s] + ValidLen(Row) - 1) :
              l = layer \/ Done(at, l) => CP!Seen(l, s, c)' = SubSeq(History(Row), 1, c + 1)
<1>. DEFINE h == History(Row)
            k == pos[s]
            n == ValidLen(Row)
<1>1. /\ pc = "forward" /\ at <= Len(rows) /\ layer \in Layers /\ at \in DOMAIN rows
      /\ Row \in ToSet(running) /\ ~Fed(at) /\ at \in Nat
  BY ForwardFacts, ForwardFed
<1>2. CP!AppendStored(s, layer, NewKV) /\ C!AppendStored(s, layer, NewKV)
  BY ForwardFacts, SameAppend
<1>3. /\ slot_prepared[Row] /\ k \in Nat /\ n \in Nat \ {0} /\ k + n <= Len(h)
  BY <1>1, FedTokens
<1>4. NewKV \in Seq(KV) /\ Len(NewKV) = n
      /\ \A i \in 1..n : NewKV[i] = SubSeq(h, 1, k + i)
  BY <1>1, NewKVType, NewKVHistory
<1>5. /\ CP!EntriesIntact
      /\ \A t \in Slots \ {s} : CP!Intact(t) /\ tables'[t] = tables[t]
  BY <1>1, <1>2, <1>4, Assumptions, CP!AppendStoredOthers
     DEF IInv, CacheInv, Slots, Layers, CP!Layers, KV
<1>6. /\ CP!BlocksNeeded(k + Len(NewKV)) <= Len(tables'[s])
      /\ \A l \in Layers, c \in 0 .. k - 1 : CP!Seen(l, s, c)' = CP!Seen(l, s, c)
      /\ \A l \in Layers \ {layer}, c \in Nat :
           (c \div BlockSize) + 1 \in DOMAIN tables[s] => CP!Seen(l, s, c)' = CP!Seen(l, s, c)
      /\ \A l \in Layers, i \in 1..Len(NewKV), c \in Nat :
           l = layer /\ c = k + i - 1 => CP!Seen(l, s, c)' = NewKV[i]
  <2>1. PICK y \in Layers, v \in Seq(KV) : y = layer /\ v = NewKV /\ CP!AppendStored(s, y, v)
    BY <1>1, <1>2, <1>4
  <2>2. CP!IInv /\ CP!IInv' /\ CP!TablesCover
    BY DEF IInv, CacheInv
  <2>3. /\ CP!BlocksNeeded(k + Len(v)) <= Len(tables'[s])
        /\ \A l \in Layers, c \in 0 .. k - 1 : CP!Seen(l, s, c)' = CP!Seen(l, s, c)
        /\ \A l \in Layers \ {y}, c \in Nat :
             (c \div BlockSize) + 1 \in DOMAIN tables[s] => CP!Seen(l, s, c)' = CP!Seen(l, s, c)
        /\ \A i \in 1..Len(v), c \in Nat : c = k + i - 1 => CP!Seen(y, s, c)' = v[i]
    BY <2>1, <2>2, Assumptions, CP!AppendStoredOwn DEF Slots, Layers, CP!Layers, KV
  <2>. QED  BY <2>1, <2>3
<1>7. EntriesTrue'
  <2>1. entries' = entries
    BY <1>2 DEF C!AppendStored, C!cacheVars
  <2>2. \A j \in DOMAIN entries, l \in Layers : kv'[l][entries[j]] = kv[l][entries[j]]
    BY <1>5 DEF CP!EntriesIntact, CP!Layers, Layers
  <2>. QED  BY <2>1, <2>2, EntriesKept DEF HistoryInv
<1>8. /\ pos'[s] = IF layer = NumLayers - 1 THEN k + n ELSE k
      /\ \A t \in Slots \ {s} : pos'[t] = pos[t]
  BY <1>2, <1>4, Known DEF C!AppendStored, CacheBooks
<1>9. ASSUME NEW l \in Layers, NEW c \in 0 .. k - 1
      PROVE  CP!Seen(l, s, c)' = SubSeq(h, 1, c + 1)
  <2>1. ReadsRow(Row)
    BY <1>1, <1>3 DEF HistoryInv, ReadsTrue
  <2>2. CP!Seen(l, s, c) = SubSeq(h, 1, c + 1)
    BY <2>1 DEF ReadsRow, RowSlot
  <2>. QED  BY <1>6, <2>2
<1>10. ASSUME NEW l \in Layers, NEW c \in k .. k + n - 1, l = layer \/ Done(at, l)
       PROVE  CP!Seen(l, s, c)' = SubSeq(h, 1, c + 1)
  <2>. HIDE DEF h, k, n
  <2>1. CASE l = layer
    <3>1. PICK i \in 1..n : c = k + i - 1
      <4>1. (c - k) + 1 \in 1..n /\ c = k + ((c - k) + 1) - 1
        BY <1>3
      <4>. QED  BY <4>1
    <3>2. c \in Nat /\ k + i = c + 1
      BY <1>3, <3>1
    <3>3. CP!Seen(l, s, c)' = NewKV[i]
      BY <1>4, <1>6, <2>1, <3>1, <3>2
    <3>. QED  BY <1>4, <3>1, <3>2, <3>3
  <2>2. CASE l # layer
    <3>1. Follows(Row, l)
      BY <1>1, <1>10, <2>2 DEF HistoryInv, StoredAhead, Row
    <3>2. /\ CP!BlocksNeeded(k + n) <= Len(tables[s])
          /\ CP!Seen(l, s, c) = SubSeq(h, 1, c + 1)
      BY <3>1 DEF Follows, RowSlot, h, k, n
    <3>3. tables[s] \in Seq(Blocks) /\ k + n \in Nat /\ c \in 0 .. (k + n) - 1 /\ c \in Nat
      BY <1>3, Known DEF CacheBooks
    <3>4. (c \div BlockSize) + 1 \in DOMAIN tables[s]
      BY <3>2, <3>3, Assumptions, CP!CellOfToken
    <3>. QED  BY <1>6, <2>2, <3>2, <3>3, <3>4
  <2>. QED  BY <2>1, <2>2
<1>. QED  BY <1>4, <1>5, <1>6, <1>7, <1>8, <1>9, <1>10

(* A layer of a row that has been through the pass is left alone by the
   others. *)
LEMMA FollowsKept ==
  ASSUME IInv, NEW r \in Requests, NEW s \in Slots, batch_idx[r] = s, batch_idx'[r] = s,
         UNCHANGED schedulerVars, CP!Intact(s), tables'[s] = tables[s], pos'[s] = pos[s],
         NEW l \in Layers, Follows(r, l)
  PROVE  Follows(r, l)'
<1>. DEFINE k == pos[s]
            n == ValidLen(r)
<1>1. History(r)' = History(r) /\ ValidLen(r)' = n
  BY DEF History, ValidLen, schedulerVars, IsPrefill, S!ChunkTokens
<1>2. k \in Nat /\ n \in Nat /\ tables[s] \in Seq(Blocks)
  BY Known, ValidLenType DEF CacheBooks
<1>3. /\ CP!BlocksNeeded(k + n) <= Len(tables[s])
      /\ \A p \in k .. k + n - 1 : CP!Seen(l, s, p) = SubSeq(History(r), 1, p + 1)
  BY DEF Follows
<1>4. ASSUME NEW p \in k .. k + n - 1 PROVE CP!Seen(l, s, p)' = CP!Seen(l, s, p)
  <2>. HIDE DEF k, n
  <2>1. k + n \in Nat /\ p \in 0 .. (k + n) - 1
    BY <1>2
  <2>2. (p \div BlockSize) + 1 \in DOMAIN tables[s]
    BY <1>2, <1>3, <2>1, Assumptions, CP!CellOfToken
  <2>. QED  BY <2>2, Assumptions, CP!IntactSeen DEF Slots, Layers, CP!Layers
<1>5. \A p \in k .. k + n - 1 : CP!Seen(l, s, p)' = SubSeq(History(r)', 1, p + 1)
  BY <1>1, <1>3, <1>4
<1>. QED  BY <1>1, <1>3, <1>5 DEF Follows

LEMMA ForwardRowHistory ==
  ASSUME IInv, IInv', CursorInv, HistoryInv, ForwardRow
  PROVE  HistoryInv'
<1>. DEFINE last == layer = NumLayers - 1
<1>1. PICK s \in Slots, k \in Nat, n \in Nat \ {0} :
        s = RowSlot /\ k = pos[s] /\ n = ValidLen(Row)
  BY ForwardFacts, FedTokens
<1>2. /\ EntriesTrue'
      /\ \A t \in Slots \ {s} : CP!Intact(t) /\ tables'[t] = tables[t] /\ pos'[t] = pos[t]
      /\ pos'[s] = IF last THEN k + n ELSE k
      /\ CP!BlocksNeeded(k + n) <= Len(tables'[s])
      /\ \A l \in Layers, c \in 0..(k - 1) : CP!Seen(l, s, c)' = SubSeq(History(Row), 1, c + 1)
      /\ \A l \in Layers, c \in k..(k + n - 1) :
           l = layer \/ Done(at, l) => CP!Seen(l, s, c)' = SubSeq(History(Row), 1, c + 1)
  BY <1>1, ForwardCells
<1>3. /\ UNCHANGED <<schedulerVars, slot_prepared, rows>>
      /\ pc = "forward" /\ at <= Len(rows) /\ at \in DOMAIN rows
      /\ Row \in ToSet(running) /\ Row \in Requests
      /\ \A i \in DOMAIN rows : i # at => rows[i] # Row
      /\ \A r \in ToSet(running) : r # Row => batch_idx[r] # s
      /\ \A r \in ToSet(running) : r \in Requests /\ batch_idx[r] \in Slots /\ num_generated[r] \in Nat
      /\ \A i \in DOMAIN rows : rows[i] \in ToSet(running)
  <2>1. \A i \in DOMAIN rows : rows[i] \in ToSet(running)
    BY ForwardFacts DEF IInv, StepInv, RowsRun, Engaged
  <2>2. \A r \in ToSet(running) : r \in Requests /\ batch_idx[r] \in Slots /\ num_generated[r] \in Nat
    BY Known DEF SchedulerBooks
  <2>. QED  BY <1>1, <2>1, <2>2, ForwardFacts
<1>4. \A r : /\ History(r)' = History(r) /\ ValidLen(r)' = ValidLen(r) /\ batch_idx'[r] = batch_idx[r]
             /\ num_generated'[r] = num_generated[r]
  BY <1>3 DEF History, ValidLen, schedulerVars, IsPrefill, S!ChunkTokens
<1>5. k + n <= Len(History(Row)) /\ Len(History(Row)) \in Nat
  BY <1>1, <1>3, FedTokens, HistoryFacts, Known
<1>6. PICK r0 \in Requests : r0 = Row /\ batch_idx[r0] = s /\ batch_idx'[r0] = s
  BY <1>1, <1>3, <1>4 DEF RowSlot
<1>7. last => \A l \in Layers : l = layer \/ Done(at, l)
  BY ForwardFacts DEF Done, Layers
<1>8. ReadsRow(r0)'
  <2>1. PICK m \in Nat : m = IF last THEN k + n ELSE k
    BY <1>1
  <2>2. pos'[s] = m /\ m <= Len(History(r0))
    BY <1>2, <1>5, <1>6, <2>1
  <2>3. ASSUME NEW l \in Layers, NEW p \in 0 .. m - 1
        PROVE  CP!Seen(l, s, p)' = SubSeq(History(r0), 1, p + 1)
    <3>1. CASE p < k
      <4>1. p \in 0 .. k - 1
        BY <3>1
      <4>. QED  BY <1>2, <1>6, <4>1
    <3>2. CASE ~(p < k)
      <4>. HIDE DEF last
      <4>1. last /\ p \in k .. k + n - 1
        BY <2>1, <3>2
      <4>. QED  BY <1>2, <1>6, <1>7, <4>1
    <3>. QED  BY <3>1, <3>2
  <2>4. History(r0)' = History(r0)
    BY <1>4
  <2>. QED  BY <1>6, <2>2, <2>3, <2>4 DEF ReadsRow
<1>9. ReadsTrue'
  <2>. SUFFICES ASSUME NEW r \in ToSet(running), slot_prepared[r] PROVE ReadsRow(r)'
    BY <1>3 DEF ReadsTrue, schedulerVars
  <2>1. CASE r = Row
    BY <1>6, <1>8, <2>1
  <2>2. CASE r # Row
    <3>1. batch_idx[r] \in Slots \ {s} /\ r \in Requests /\ num_generated[r] \in Nat
      BY <1>3, <2>2
    <3>2. ReadsRow(r)
      BY DEF HistoryInv, ReadsTrue
    <3>3. num_generated[r] <= num_generated'[r] /\ num_generated'[r] \in Nat
      BY <1>4, <3>1
    <3>. QED  BY <1>2, <1>4, <3>1, <3>2, <3>3, ReadsRowKept
  <2>. QED  BY <2>1, <2>2
<1>10. StoredAhead'
  <2>. SUFFICES ASSUME pc' = "forward", NEW i \in DOMAIN rows, NEW l \in Layers,
                       Done(i, l)', ~Fed(i)'
                PROVE  Follows(rows[i], l)'
    BY <1>3 DEF StoredAhead
  <2>1. /\ ~Fed(i)
        /\ i = at => layer # NumLayers - 1 /\ (l = layer \/ Done(i, l))
        /\ i # at => Done(i, l)
    BY ForwardRowDone
  <2>2. CASE i = at
    <3>1. pos'[s] = k /\ (l = layer \/ Done(at, l))
      BY <1>2, <2>1, <2>2
    <3>2. /\ CP!BlocksNeeded(k + n) <= Len(tables'[s])
          /\ \A p \in k .. k + n - 1 : CP!Seen(l, s, p)' = SubSeq(History(r0)', 1, p + 1)
      BY <1>2, <1>4, <1>6, <3>1
    <3>3. ValidLen(r0)' = n
      BY <1>1, <1>4, <1>6
    <3>4. Follows(r0, l)'
      BY <1>6, <3>1, <3>2, <3>3 DEF Follows
    <3>. QED  BY <1>3, <1>6, <2>2, <3>4 DEF Row
  <2>3. CASE i # at
    <3>1. PICK r \in Requests : r = rows[i]
      BY <1>3
    <3>2. r # Row /\ r \in ToSet(running) /\ batch_idx[r] \in Slots \ {s}
      BY <1>3, <2>3, <3>1
    <3>3. Follows(r, l)
      BY <1>3, <2>1, <2>3, <3>1 DEF HistoryInv, StoredAhead
    <3>4. Follows(r, l)'
      BY <1>2, <1>3, <1>4, <3>2, <3>3, FollowsKept
    <3>. QED  BY <1>3, <3>1, <3>4
  <2>. QED  BY <2>2, <2>3
<1>. QED  BY <1>2, <1>9, <1>10 DEF HistoryInv

-----------------------------------------------------------------------------
(* Histories. *)

LEMMA InitHistory == Init => HistoryInv
<1>. SUFFICES ASSUME Init PROVE HistoryInv
  OBVIOUS
<1>1. running = <<>> /\ pc = "idle" /\ DOMAIN entries = {}
  BY DEF Init, S!Init, C!Init
<1>2. ToSet(running) = {}
  BY <1>1, EmptySeq DEF ToSet
<1>. QED  BY <1>1, <1>2 DEF HistoryInv, EntriesTrue, ReadsTrue, StoredAhead

LEMMA NextHistory ==
  ASSUME IInv, IInv', CursorInv, HistoryInv, [Next]_vars
  PROVE  HistoryInv'
<1>1. CASE BeginStep
  BY <1>1, BeginStepHistory
<1>2. CASE Prefill
  <2>1. CASE LoadedPrefix
    BY <2>1, LoadedPrefixHistory
  <2>2. CASE ResetRow
    BY <2>2, ResetRowHistory
  <2>3. CASE InsertBlock
    BY <2>3, InsertBlockHistory
  <2>. QED  BY <1>2, <2>1, <2>2, <2>3, PassiveHistory DEF Prefill
<1>3. CASE Forward
  BY <1>3, EmbedRowsHistory, ForwardRowHistory, ForwardRaisesHistory, PassiveHistory DEF Forward
<1>4. CASE ReportToken
  BY <1>4, ReportTokenHistory
<1>5. CASE EndDecode
  BY <1>5, PassiveHistory
<1>6. CASE Clients
  BY <1>6, ClientsHistory
<1>7. CASE UNCHANGED vars
  <2>1. UNCHANGED <<schedulerVars, slot_prepared, tables, pos, kv, entries, rows, at, pc, layer>>
    BY <1>7 DEF vars, cacheVars, stepVars
  <2>2. UNCHANGED <<running, slot_prepared, batch_idx, num_generated>>
    BY <2>1 DEF schedulerVars
  <2>3. \A i \in DOMAIN rows, l \in Layers :
          (Done(i, l)' <=> Done(i, l)) /\ (Fed(i)' <=> Fed(i))
    BY <2>1 DEF Done, Fed, Stored, IsPrefill, schedulerVars
  <2>4. ASSUME NEW r \in Requests, NEW l \in Layers PROVE Follows(r, l)' <=> Follows(r, l)
    BY <2>1 DEF Follows, CP!Seen, History, ValidLen, schedulerVars, IsPrefill, S!ChunkTokens
  <2>5. \A i \in DOMAIN rows : rows[i] \in Requests
    BY RowsAreRequests DEF IInv, StepInv
  <2>6. StoredAhead'
    <3>. SUFFICES ASSUME pc = "forward", NEW i \in DOMAIN rows, NEW l \in Layers,
                         Done(i, l)', ~Fed(i)'
                  PROVE  Follows(rows[i], l)'
      BY <2>1 DEF StoredAhead
    <3>1. PICK r \in Requests : r = rows[i]
      BY <2>5
    <3>2. Follows(r, l)
      BY <2>3, <3>1 DEF HistoryInv, StoredAhead
    <3>3. Follows(r, l)'
      BY <2>4, <3>2
    <3>. QED  BY <2>1, <3>1, <3>3
  <2>. QED  BY <2>1, <2>2, <2>6, QuietHistory
<1>. QED  BY <1>1, <1>2, <1>3, <1>4, <1>5, <1>6, <1>7 DEF Next, Step, Stopped

LEMMA CeilingBounds ==
  ASSUME NEW n \in Nat, NEW m \in Nat, NEW d \in Nat \ {0}, (n + d - 1) \div d <= m
  PROVE  n <= m * d
OBVIOUS

LEMMA Attends ==
  ASSUME IInv, CursorInv, HistoryInv
  PROVE  CachedIsHistory
<1>. SUFFICES ASSUME NEW r \in ToSet(running), slot_prepared[r]
              PROVE  /\ Attended(r, batch_idx[r])
                     /\ pc = "idle" => pos[batch_idx[r]] = Cursor(r)
  BY DEF CachedIsHistory
<1>1. r \in Requests /\ batch_idx[r] \in Slots
  BY Known DEF SchedulerBooks
<1>2. pos[batch_idx[r]] <= Len(tables[batch_idx[r]]) * BlockSize
  <2>1. PICK s \in Slots, n \in Nat, m \in Nat :
          s = batch_idx[r] /\ n = pos[s] /\ m = Len(tables[s])
    <3>1. pos[batch_idx[r]] \in Nat /\ tables[batch_idx[r]] \in Seq(Blocks)
      BY <1>1, Known DEF CacheBooks
    <3>. QED  BY <1>1, <3>1, LenProperties
  <2>2. CP!BlocksNeeded(n) <= m
    BY <2>1 DEF IInv, CacheInv, CP!TablesCover, Slots
  <2>3. (n + BlockSize - 1) \div BlockSize <= m
    BY <2>2 DEF CP!BlocksNeeded
  <2>. QED  BY <2>1, <2>3, CeilingBounds, CacheAssumption
<1>3. ReadsRow(r)
  BY DEF HistoryInv, ReadsTrue
<1>4. Attended(r, batch_idx[r])
  BY <1>2, <1>3 DEF Attended, ReadsRow, CP!Seen, C!Resolve, Layers
<1>5. ASSUME pc = "idle" PROVE pos[batch_idx[r]] = Cursor(r)
  <2>1. \A i \in DOMAIN rows : ~Fed(i)
    BY <1>5 DEF Fed, Stored
  <2>2. Ahead(r) = 0
    BY <2>1, AheadOfOthers
  <2>3. pos[batch_idx[r]] = Cursor(r) + 0
    BY <1>5, <2>2 DEF CursorInv, CursorExact
  <2>4. Cursor(r) \in Int
    BY <1>1, HistoryFacts, Known DEF Cursor, SchedulerBooks
  <2>. QED  BY <2>3, <2>4
<1>. QED  BY <1>4, <1>5

(* The K/V a running request attends to is that of its own tokens, from the
   first and in order, and between steps the write cursor of its slot is where
   the request says it is, if no prompt ends with a block or there is no
   prefix cache. *)
THEOREM CachedStaysHistory == ASSUME Unaligned PROVE Spec => []CachedIsHistory
<1>1. Init => CursorInv /\ HistoryInv
  BY InitCursor, InitHistory
<1>2. IInv /\ IInv' /\ (CursorInv /\ HistoryInv) /\ [Next]_vars => (CursorInv /\ HistoryInv)'
  BY NextCursor, NextHistory
<1>3. IInv /\ CursorInv /\ HistoryInv => CachedIsHistory
  BY Attends
<1>. QED  BY <1>1, <1>2, <1>3, Invariance, PTL DEF Spec

-----------------------------------------------------------------------------
(* The budget of a step. *)

Chunk == [r \in Requests |-> S!ChunkTokens(r)]

(* What the batch was sized for still covers it: a prefix found for a row
   that has not looked before only takes tokens off its chunk. *)
Sized ==
  \/ pc \in {"prepare", "load", "reset"}
  \/ pc = "forward" /\ \E i \in DOMAIN rows : IsPrefill(rows[i])
BudgetInv ==
  /\ Sized => Cardinality(decode_requests) + SP!Total(Chunk, ToSet(rows)) <= max_tokens_per_step
  /\ pc = "load" => ~slot_prepared[Row]
  /\ pc = "decode" => rows # <<>>
  /\ pc = "forward" => at \in DOMAIN rows

LEMMA ChunkType == ASSUME IInv PROVE Chunk \in [Requests -> Nat]
BY ChunkFits DEF Chunk

LEMMA ChunkTypeNext == IInv' => (Chunk \in [Requests -> Nat])'
<1>1. IInv => Chunk \in [Requests -> Nat]
  BY ChunkType
<1>. QED  BY <1>1, PTL

(* Finite sets and sums are the same under SP. *)
LEMMA SameFinite ==
  ASSUME NEW U
  PROVE  (IsFiniteSet(U) <=> SP!IsFiniteSet(U)) /\ Cardinality(U) = SP!Cardinality(U)
BY DEF IsFiniteSet, SP!IsFiniteSet, Cardinality, SP!Cardinality

LEMMA TotalNat ==
  ASSUME NEW U, IsFiniteSet(U), NEW f, \A r \in U : f[r] \in Nat
  PROVE  SP!Total(f, U) \in Nat
BY SameFinite, Assumptions, SP!TotalType

LEMMA TotalLess ==
  ASSUME NEW U, IsFiniteSet(U), NEW e, NEW f,
         \A r \in U : e[r] \in Nat /\ e[r] <= f[r], \A r \in U : f[r] \in Nat
  PROVE  SP!Total(e, U) <= SP!Total(f, U)
BY SameFinite, Assumptions, SP!TotalCompare

LEMMA BeginStepBudget == ASSUME IInv, IInv', BeginStep PROVE BudgetInv'
<1>. DEFINE Q == prefill_requests'
            d == Cardinality(decode_requests')
<1>1. /\ pc' = "prepare" /\ SP!Schedule /\ rows' = InOrder(running', Q)
  BY SameSchedule DEF BeginStep
<1>2. UNCHANGED <<max_tokens_per_step, prefill_offset, prefill_chunk_size>>
  BY <1>1 DEF SP!Schedule, SP!limitVars
<1>3. Chunk' = Chunk
  BY <1>2 DEF Chunk, S!ChunkTokens
<1>4. Chunk \in [Requests -> Nat] /\ \A r \in Requests : Chunk[r] = SP!ChunkTokens(r)
  BY ChunkType DEF Chunk, S!ChunkTokens, SP!ChunkTokens
<1>5. /\ IsFiniteSet(Q) /\ Q \subseteq Requests /\ d \in Nat
      /\ SP!Total(Chunk, Q) \in Nat /\ d + SP!Total(Chunk, Q) <= max_tokens_per_step
  <2>1. SP!IInv
    BY DEF IInv
  <2>2. /\ SP!IsFiniteSet(Q) /\ Q \subseteq Requests /\ SP!Cardinality(decode_requests') \in Nat
        /\ SP!Total(Chunk, Q) \in Nat
        /\ SP!Cardinality(decode_requests') + SP!Total(Chunk, Q) <= max_tokens_per_step
    BY <1>1, <1>4, <2>1, Assumptions, SP!StepBudget
  <2>. QED  BY <2>2, SameFinite
<1>6. ToSet(rows') = Q
  <2>1. /\ running' \in Seq(Requests) /\ IsInjective(running')
        /\ \A r \in Requests : state'[r] = "prefill" => r \in ToSet(running')
    BY SchedulerKnownNext DEF IInv, SchedulerBooks
  <2>2. \A r \in Q : state'[r] = "prefill"
    BY SameSchedule, ScheduleEffect DEF BeginStep
  <2>3. ToSet(rows') = ToSet(running') \cap Q
    BY <1>1, <2>1, InOrderRows
  <2>. QED  BY <1>5, <2>1, <2>2, <2>3
<1>. QED  BY <1>1, <1>2, <1>3, <1>5, <1>6 DEF BudgetInv

(* A batch that has been sized keeps to its budget as long as no chunk grows. *)
LEMMA SmallerChunks ==
  ASSUME IInv, IInv', BudgetInv, Sized, UNCHANGED <<rows, decode_requests, max_tokens_per_step>>,
         \A r \in Requests : Chunk'[r] <= Chunk[r]
  PROVE  (Cardinality(decode_requests) + SP!Total(Chunk, ToSet(rows)) <= max_tokens_per_step)'
<1>. DEFINE R == ToSet(rows)
            d == Cardinality(decode_requests)
<1>1. R \in SUBSET Requests /\ decode_requests \in SUBSET Requests
  BY RowsAreRequests, Known DEF ToSet, IInv, StepInv, SchedulerBooks
<1>2. IsFiniteSet(R) /\ IsFiniteSet(decode_requests)
  BY <1>1, RequestsAssumption, FS_Subset
<1>3. d \in Nat /\ max_tokens_per_step \in Nat
  BY <1>2, FS_CardinalityType, Known, SettingsAssumption DEF SchedulerBooks
<1>4. Chunk \in [Requests -> Nat]
  BY ChunkType
<1>5. (Chunk \in [Requests -> Nat])'
  BY ChunkTypeNext
<1>6. PICK e \in [Requests -> Nat], f \in [Requests -> Nat] : e = Chunk' /\ f = Chunk
  BY <1>4, <1>5
<1>. HIDE DEF R, d
<1>7. (\A r \in R : e[r] \in Nat /\ e[r] <= f[r]) /\ \A r \in R : f[r] \in Nat
  BY <1>1, <1>6
<1>8. SP!Total(e, R) <= SP!Total(f, R) /\ SP!Total(e, R) \in Nat /\ SP!Total(f, R) \in Nat
  BY <1>2, <1>7, TotalLess, TotalNat
<1>9. d + SP!Total(f, R) <= max_tokens_per_step
  BY <1>6 DEF BudgetInv, R, d
<1>10. d + SP!Total(e, R) <= max_tokens_per_step
  BY <1>3, <1>8, <1>9
<1>11. /\ R' = R /\ d' = d /\ max_tokens_per_step' = max_tokens_per_step
       /\ SP!Total(Chunk, R)' = SP!Total(e, R)
  BY <1>6 DEF R, d, SP!Total, SP!Sums, SP!AnyOf
<1>. QED  BY <1>10, <1>11 DEF R, d

LEMMA LoadedPrefixBudget ==
  ASSUME IInv, IInv', CursorInv, BudgetInv, LoadedPrefix
  PROVE  BudgetInv'
<1>. DEFINE n == C!MatchedBlocks * BlockSize
<1>1. /\ pc = "load" /\ at <= Len(rows) /\ C!LoadHit /\ pc' = "prepare"
      /\ prefill_offset' = [prefill_offset EXCEPT ![Row] = n]
      /\ UNCHANGED <<rows, decode_requests, max_tokens_per_step, prefill_chunk_size>>
  BY DEF LoadedPrefix, AtRow, NextRow
<1>2. C!LookupOver /\ call # C!Idle
  BY <1>1 DEF C!LoadHit, C!LookupOver, C!Idle
<1>3. n \in Nat
  BY <1>2, LookupFacts
<1>4. Row \in Requests /\ prefill_offset[Row] = 0
  BY <1>1, RowFacts DEF Engaged, BudgetInv, CursorInv, Prepared
<1>5. /\ prefill_offset \in [Requests -> Nat] /\ prefill_chunk_size \in [Requests -> Nat]
      /\ \A r \in Requests : Len(Prompt[r]) \in Nat
  BY Known, SettingsAssumption, PromptLengths DEF SchedulerBooks
<1>. HIDE DEF n
<1>6. ASSUME NEW r \in Requests PROVE Chunk'[r] <= Chunk[r]
  <2>1. prefill_offset'[r] = IF r = Row THEN n ELSE prefill_offset[r]
    BY <1>1, <1>5
  <2>2. prefill_offset'[r] \in Nat /\ prefill_offset'[r] >= prefill_offset[r]
    BY <1>3, <1>4, <1>5, <2>1
  <2>3. PICK a \in Nat, b \in Nat, c \in Nat, p \in Nat :
          /\ a = prefill_offset[r] /\ b = prefill_offset'[r] /\ a <= b
          /\ c = prefill_chunk_size[r] /\ p = Len(Prompt[r])
    BY <1>5, <2>2
  <2>4. /\ Chunk[r] = IF c < p - a THEN c ELSE p - a
        /\ Chunk'[r] = IF c < p - b THEN c ELSE p - b
    BY <1>1, <2>3 DEF Chunk, S!ChunkTokens
  <2>. QED  BY <2>3, <2>4
<1>7. Sized
  BY <1>1 DEF Sized
<1>. QED  BY <1>1, <1>6, <1>7, SmallerChunks DEF BudgetInv

LEMMA NextBudget ==
  ASSUME IInv, IInv', CursorInv, BudgetInv, [Next]_vars
  PROVE  BudgetInv'
<1>1. CASE BeginStep
  BY <1>1, BeginStepBudget
<1>2. CASE LoadedPrefix
  BY <1>2, LoadedPrefixBudget
<1>3. ASSUME UNCHANGED <<schedulerVars, rows>>, Sized' => Sized,
             pc' = "load" => ~slot_prepared[Row]',
             pc' = "decode" => pc = "decode", pc' = "forward" => at' \in DOMAIN rows
      PROVE  BudgetInv'
  <2>1. UNCHANGED <<rows, decode_requests, max_tokens_per_step, prefill_offset, prefill_chunk_size>>
    BY <1>3 DEF schedulerVars
  <2>2. Chunk' = Chunk
    BY <2>1 DEF Chunk, S!ChunkTokens
  <2>3. \A r \in Requests : Chunk[r] <= Chunk[r]
    BY ChunkType
  <2>4. Sized => (Cardinality(decode_requests) + SP!Total(Chunk, ToSet(rows)) <= max_tokens_per_step)'
    BY <2>1, <2>2, <2>3, SmallerChunks
  <2>. QED  BY <1>3, <2>1, <2>4 DEF BudgetInv
<1>4. DOMAIN rows = 1..Len(rows) /\ Len(rows) \in Nat /\ at \in Nat \ {0}
  BY RowsAreRequests DEF IInv, StepInv
<1>5. CASE PrepareRow \/ LookupBlock \/ PrefixMissed \/ ResetRow \/ PrefixRaises \/ ForwardRaises
           \/ Sample \/ SkipRow \/ RegisterRow \/ InsertBlock
  BY <1>3, <1>5 DEF PrepareRow, LookupBlock, PrefixMissed, ResetRow, PrefixRaises, ForwardRaises,
     Sample, SkipRow, RegisterRow, InsertBlock, AtRow, NextRow, Goto, Sized, stepVars, schedulerVars,
     BudgetInv, Row, IsPrefill
<1>6. CASE EmbedRows
  <2>1. /\ UNCHANGED <<schedulerVars, rows>> /\ at' = 1 /\ pc' \in {"forward", "raised"}
        /\ rows # <<>> /\ (pc = "prepare" \/ \A i \in DOMAIN rows : rows[i] \in decode_requests)
    BY <1>6 DEF EmbedRows, PastRows, BudgetInv, IInv, StepInv, Batches
  <2>2. 1 \in DOMAIN rows
    BY <2>1, <1>4, RowsAreRequests DEF IInv, StepInv, StepTyped
  <2>3. Sized' => Sized
    <3>1. \A r \in decode_requests : ~IsPrefill(r)
      BY DEF IInv, StepInv, Batches, IsPrefill
    <3>. QED  BY <2>1, <3>1 DEF Sized, IsPrefill, schedulerVars
  <2>. QED  BY <1>3, <2>1, <2>2, <2>3
<1>7. CASE ForwardRow
  <2>1. /\ UNCHANGED <<schedulerVars, rows>> /\ pc = "forward" /\ pc' \in {"forward", "sample"}
        /\ at' \in DOMAIN rows
    <3>1. /\ pc = "forward" /\ pc' \in {"forward", "sample"} /\ at \in DOMAIN rows
          /\ at' = (IF at < Len(rows) THEN at + 1 ELSE 1) /\ UNCHANGED <<schedulerVars, rows>>
      BY <1>7, ForwardFacts
    <3>. QED  BY <1>4, <3>1
  <2>2. Sized' => Sized
    BY <2>1 DEF Sized, IsPrefill, schedulerVars
  <2>. QED  BY <1>3, <2>1, <2>2
<1>8. CASE EndPrefill
  <2>1. /\ pc' = (IF decode_requests = {} THEN "idle" ELSE "decode")
        /\ rows' = InOrder(running, decode_requests)
    BY <1>8 DEF EndPrefill
  <2>2. ASSUME decode_requests # {} PROVE rows' # <<>>
    <3>1. ToSet(rows') = ToSet(running) \cap decode_requests
      BY <2>1, Known, InOrderRows DEF SchedulerBooks
    <3>2. decode_requests \subseteq ToSet(running)
      BY Known DEF SchedulerBooks, IInv, StepInv, Batches
    <3>. QED  BY <2>2, <3>1, <3>2, EmptySeq DEF ToSet
  <2>. QED  BY <2>1, <2>2 DEF BudgetInv, Sized
<1>9. ASSUME pc' \notin {"prepare", "load", "reset", "decode", "forward"} PROVE BudgetInv'
  BY <1>9 DEF BudgetInv, Sized
<1>10. CASE AdvanceRow \/ PrefillDone \/ ReportToken \/ EndDecode \/ Clients
  BY <1>9, <1>10 DEF AdvanceRow, PrefillDone, ReportToken, EndDecode, Clients, AddRequest, Cancel,
     Reconfigure, stepVars, NextRow, Goto
<1>11. CASE UNCHANGED vars
  BY <1>3, <1>11 DEF vars, stepVars, Sized, BudgetInv, schedulerVars, IsPrefill, Row
<1>. QED  BY <1>1, <1>2, <1>5, <1>6, <1>7, <1>8, <1>10, <1>11
          DEF Next, Step, Prefill, Forward, Stopped

(* What a batch feeds the model is such a sum. *)
LEMMA FedIsTotal ==
  ASSUME NEW R, IsFiniteSet(R), NEW f, \A r \in R : f[r] = Len(RowTokens(r)) /\ f[r] \in Nat
  PROVE  MapThenSumSet(LAMBDA r : Len(RowTokens(r)), R) = SP!Total(f, R)
<1>. DEFINE tokens(r) == Len(RowTokens(r))
            P(g) == g = [s \in SUBSET R |->
              IF s = {} THEN 0 ELSE tokens(SP!AnyOf(s)) + g[s \ {SP!AnyOf(s)}]]
            G == CHOOSE g : P(g)
<1>1. MapThenSumSet(LAMBDA r : Len(RowTokens(r)), R) = G[R]
  BY DEF MapThenSumSet, MapThenFoldSet, SP!AnyOf
<1>. HIDE DEF tokens
<1>2. ASSUME NEW g PROVE P(g) <=> SP!Sums(f, R, g)
  <2>1. \A s \in SUBSET R : s # {} => f[SP!AnyOf(s)] = tokens(SP!AnyOf(s))
    BY Assumptions, SP!AnyMember DEF tokens
  <2>2. [s \in SUBSET R |-> IF s = {} THEN 0 ELSE tokens(SP!AnyOf(s)) + g[s \ {SP!AnyOf(s)}]]
          = [s \in SUBSET R |-> IF s = {} THEN 0 ELSE f[SP!AnyOf(s)] + g[s \ {SP!AnyOf(s)}]]
    BY <2>1
  <2>. QED  BY <2>2 DEF SP!Sums
<1>3. SP!IsFiniteSet(R) /\ \A r \in R : f[r] \in Nat
  BY SameFinite
<1>4. PICK h \in [SUBSET R -> Nat] : SP!Sums(f, R, h) /\ SP!Total(f, R) = h[R]
  BY <1>3, Assumptions, SP!TotalSums
<1>5. SP!Sums(f, R, G)
  <2>1. \E g : P(g)
    BY <1>2, <1>4
  <2>2. P(G)
    BY <2>1
  <2>. HIDE DEF P, G
  <2>. QED  BY <1>2, <2>2
<1>. HIDE DEF P, G
<1>6. G[R] = h[R]
  <2>1. SP!SumsOn(f, R, G)
    BY <1>5 DEF SP!Sums, SP!SumsOn
  <2>2. SP!SumsOn(f, R, h)
    BY <1>4 DEF SP!Sums, SP!SumsOn
  <2>3. \A s \in SUBSET R : G[s] = h[s]
    BY <1>3, <2>1, <2>2, Assumptions, SP!SumsUnique
  <2>. QED  BY <2>3
<1>. QED  BY <1>1, <1>4, <1>6

(* A row that is forwarded feeds its chunk, and nothing else. *)
LEMMA Spends ==
  ASSUME IInv, CursorInv, BudgetInv
  PROVE  StepWithinBudget
<1>. SUFFICES ASSUME pc = "forward", IsPrefill(Row)
              PROVE  Cardinality(decode_requests) +
                       MapThenSumSet(LAMBDA r : Len(RowTokens(r)), ToSet(rows)) <= max_tokens_per_step
  BY DEF StepWithinBudget
<1>1. at \in DOMAIN rows /\ Sized
  BY DEF BudgetInv, Sized, Row
<1>2. \A i \in DOMAIN rows : IsPrefill(rows[i]) /\ rows[i] \in Requests /\ rows[i] \in ToSet(running)
  <2>1. Row \notin decode_requests
    BY DEF IInv, StepInv, Batches, IsPrefill
  <2>2. \A i \in DOMAIN rows : IsPrefill(rows[i])
    BY <1>1, <2>1 DEF IInv, StepInv, Batches, Row
  <2>. QED  BY <2>2, RowsAreRequests DEF IInv, StepInv, RowsRun, Engaged
<1>3. ASSUME NEW r \in ToSet(rows)
      PROVE  r \in Requests /\ Chunk[r] = Len(RowTokens(r)) /\ Chunk[r] \in Nat
  <2>1. r \in Requests /\ IsPrefill(r) /\ r \in ToSet(running)
    BY <1>2 DEF ToSet
  <2>2. prefill_offset[r] < Len(Prompt[r])
    BY <2>1 DEF CursorInv, PromptLeft, Moved, Reporting
  <2>3. PICK o \in Nat, n \in Nat \ {0}, p \in Seq(Token) :
          o = prefill_offset[r] /\ n = S!ChunkTokens(r) /\ p = Prompt[r]
    BY <2>1, <2>2, ChunkPositive, ChunkFits, PromptLengths
  <2>4. o + n <= Len(p)
    BY <2>1, <2>3, ChunkFits
  <2>5. RowTokens(r) = SubSeq(p, o + 1, o + n)
    BY <2>1, <2>3 DEF RowTokens, ValidLen
  <2>6. Len(RowTokens(r)) = n
    <3>1. \A i \in o + 1 .. o + n : p[i] \in Token
      BY <2>3, <2>4, LenProperties, ElementOfSeq
    <3>2. Len(RowTokens(r)) = IF o + 1 <= o + n THEN (o + n) - (o + 1) + 1 ELSE 0
      BY <2>3, <2>5, <3>1, SubSeqProperties
    <3>. QED  BY <2>3, <3>2
  <2>. QED  BY <2>1, <2>3, <2>6 DEF Chunk
<1>4. IsFiniteSet(ToSet(rows))
  BY <1>3, RequestsAssumption, FS_Subset
<1>5. MapThenSumSet(LAMBDA r : Len(RowTokens(r)), ToSet(rows)) = SP!Total(Chunk, ToSet(rows))
  BY <1>3, <1>4, FedIsTotal
<1>. QED  BY <1>1, <1>5 DEF BudgetInv

(* A prefill batch feeds the model no more than the budget the step was given
   leaves beside its decode rows, whatever the prefix cache has moved since. *)
THEOREM BudgetHolds == ASSUME Unaligned PROVE Spec => []StepWithinBudget
<1>1. Init => CursorInv /\ BudgetInv
  <2>1. Init => BudgetInv
    BY DEF Init, BudgetInv, Sized
  <2>. QED  BY <2>1, InitCursor
<1>2. IInv /\ IInv' /\ (CursorInv /\ BudgetInv) /\ [Next]_vars => (CursorInv /\ BudgetInv)'
  BY NextCursor, NextBudget
<1>3. IInv /\ CursorInv /\ BudgetInv => StepWithinBudget
  BY Spends
<1>. QED  BY <1>1, <1>2, <1>3, Invariance, PTL DEF Spec
=============================================================================
