----------------------------- MODULE HFKVCache -----------------------------
(***************************************************************************)
(* The cache of the Hugging Face backend: per slot one past_key_values     *)
(* that the model itself extends (HFKVCache), and a prefix cache that      *)
(* keeps copies of the full blocks of finished prompts (_BlockPrefixCache).*)
(*                                                                         *)
(* A past is the sequence of its tokens' K/V, one layer of it (the layers  *)
(* are treated alike); None is the empty one, as a past has a token.  A    *)
(* chained hash is the token prefix it was computed from.  memory counts   *)
(* tokens for memory_bytes.  The operations constrain the variables the    *)
(* code's functions touch; HFEngine leaves the others unchanged.           *)
(***************************************************************************)
EXTENDS Integers, Sequences, FiniteSets, SequencesExt

CONSTANTS
  Slots, Token, Prompts,
  KVValue,                  \* K/V of one token
  BlockSize, MaxSeqLen, MaxEntries,
  EnablePrefixCache

VARIABLES
  past, pos,            \* per slot: past_key_values, and its recorded length
  entries,              \* key -> copies of the K/V of one block
  lru,                  \* keys of entries, least recently used first
  memory,
  call                  \* lookup() or insert() in its loop, or Idle

slotVars   == <<past, pos>>
prefixVars == <<entries, lru, memory>>

Idle == [op |-> "none"]
Call(op, s, tokens) == [op |-> op, slot |-> s, tokens |-> tokens, next |-> 1]

(* Slip: a block is hashed without its parent. *)
Key_Unchained(tokens, i) == SubSeq(tokens, (i - 1) * BlockSize + 1, i * BlockSize)

(* (parent_hash, block_tokens) of the i-th block of a prompt *)
Key(tokens, i) == SubSeq(tokens, 1, i * BlockSize)
NextKey == Key(call.tokens, call.next)
Keys == UNION {{Key(tokens, i) : i \in 1 .. Len(tokens) \div BlockSize} : tokens \in Prompts}

Init ==
  /\ past = [s \in Slots |-> <<>>] /\ pos = [s \in Slots |-> 0]
  /\ entries = [k \in {} |-> <<>>] /\ lru = <<>> /\ memory = 0
  /\ call = Idle

-----------------------------------------------------------------------------
(* The slots *)

ResetSlot(s) ==
  /\ past' = [past EXCEPT ![s] = <<>>]
  /\ pos' = [pos EXCEPT ![s] = 0]

(* set_past, with what the model has made of the slot's past *)
SetPast(s, grown) ==
  /\ Len(grown) <= MaxSeqLen
  /\ past' = [past EXCEPT ![s] = grown]
  /\ pos' = [pos EXCEPT ![s] = Len(grown)]

(* It refuses one that is too long; a past that was there has grown in place
   by then, while pos has not. *)
SetPastRaises(s, grown) ==
  /\ Len(grown) > MaxSeqLen
  /\ past' = [past EXCEPT ![s] = IF past[s] = <<>> THEN <<>> ELSE grown]
  /\ UNCHANGED pos

-----------------------------------------------------------------------------
(* try_load_prefix *)

(* move_to_end of the i-th key *)
Renewed(order, i) ==
  [j \in DOMAIN order |-> IF j < i THEN order[j]
                          ELSE IF j < Len(order) THEN order[j + 1] ELSE order[i]]
MoveToEnd(k) == \E i \in DOMAIN lru : lru[i] = k /\ lru' = Renewed(lru, i)

TryLoadPrefix(s, tokens) ==
  /\ call = Idle
  /\ call' = Call("lookup", s, tokens)

(* Slip: a prompt of whole blocks is matched to its last token. *)
MaxFullBlocks_All(tokens) == Len(tokens) \div BlockSize

(* at least one token is left for the prefill forward pass *)
MaxFullBlocks(tokens) == (Len(tokens) - 1) \div BlockSize

Matches == call.next <= MaxFullBlocks(call.tokens) /\ NextKey \in DOMAIN entries
MatchBlock ==
  /\ call.op = "lookup" /\ Matches
  /\ MoveToEnd(NextKey)
  /\ call' = [call EXCEPT !.next = @ + 1]
  /\ UNCHANGED <<entries, memory>>

Matched == [i \in 1 .. call.next - 1 |-> entries[Key(call.tokens, i)]]
LoadMiss ==
  /\ call.op = "lookup" /\ ~Matches /\ Matched = <<>>
  /\ call' = Idle

(* the copies are concatenated into a past for the slot, whatever it held *)
LoadHit ==
  /\ call.op = "lookup" /\ ~Matches /\ Matched # <<>>
  /\ past' = [past EXCEPT ![call.slot] = FlattenSeq(Matched)]
  /\ pos' = [pos EXCEPT ![call.slot] = Len(FlattenSeq(Matched))]
  /\ call' = Idle

-----------------------------------------------------------------------------
(* register_prefix *)

InsertBlocks(s, tokens) ==
  LET cached == Len(past[s])
  IN (IF cached < Len(tokens) THEN cached ELSE Len(tokens)) \div BlockSize

RegisterPrefix(s, tokens) ==
  /\ call = Idle
  /\ call' = IF EnablePrefixCache /\ InsertBlocks(s, tokens) > 0
             THEN Call("insert", s, tokens) ELSE Idle
AfterInsert ==
  IF call.next < InsertBlocks(call.slot, call.tokens)
  THEN [call EXCEPT !.next = @ + 1] ELSE Idle

RenewEntry ==
  /\ call.op = "insert" /\ NextKey \in DOMAIN entries
  /\ MoveToEnd(NextKey)
  /\ call' = AfterInsert
  /\ UNCHANGED <<entries, memory>>

Full == call.op = "insert" /\ NextKey \notin DOMAIN entries /\ Cardinality(DOMAIN entries) >= MaxEntries

(* Slips: the evicted key stays in the order; its memory stays counted. *)
EvictOldest_LeavesKey ==
  /\ Full
  /\ entries' = [k \in DOMAIN entries \ {Head(lru)} |-> entries[k]]
  /\ memory' = memory - Len(entries[Head(lru)])
  /\ UNCHANGED <<lru, call>>
EvictOldest_Counted ==
  /\ Full
  /\ entries' = [k \in DOMAIN entries \ {Head(lru)} |-> entries[k]]
  /\ lru' = Tail(lru)
  /\ UNCHANGED <<memory, call>>

EvictOldest ==
  /\ Full
  /\ entries' = [k \in DOMAIN entries \ {Head(lru)} |-> entries[k]]
  /\ lru' = Tail(lru)
  /\ memory' = memory - Len(entries[Head(lru)])
  /\ UNCHANGED call

AddEntry ==
  LET slice == SubSeq(past[call.slot], (call.next - 1) * BlockSize + 1, call.next * BlockSize)
  IN /\ call.op = "insert" /\ NextKey \notin DOMAIN entries /\ ~Full
     /\ entries' = [k \in DOMAIN entries \cup {NextKey} |->
                      IF k = NextKey THEN slice ELSE entries[k]]
     /\ lru' = Append(lru, NextKey)
     /\ memory' = memory + Len(slice)
     /\ call' = AfterInsert

Insert == RenewEntry \/ EvictOldest \/ AddEntry

-----------------------------------------------------------------------------
TypeOK ==
  /\ past \in [Slots -> Seq(KVValue)] /\ pos \in [Slots -> 0 .. MaxSeqLen]
  /\ DOMAIN entries \subseteq Keys
  /\ \A k \in DOMAIN entries : entries[k] \in Seq(KVValue)
  /\ lru \in Seq(DOMAIN entries) /\ memory \in Nat
  /\ \/ call = Idle
     \/ /\ call \in [op : {"lookup", "insert"}, slot : Slots, tokens : Prompts,
                     next : Nat \ {0}]
        /\ call.next <= Len(call.tokens) \div BlockSize + 1

(* The prefix cache keeps its books through every mix of matches, inserts
   and evictions: each key is in the LRU order once, the limit holds, and
   memory is what the copies take. *)
BooksKept ==
  /\ ToSet(lru) = DOMAIN entries /\ IsInjective(lru) /\ Len(lru) <= MaxEntries
  /\ memory = MapThenSumSet(LAMBDA k : Len(entries[k]), DOMAIN entries)
=============================================================================
