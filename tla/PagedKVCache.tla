---------------------------- MODULE PagedKVCache ----------------------------
(***************************************************************************)
(* The paged KV cache: a pool of fixed-size blocks (BlockAllocator), one   *)
(* block table per slot (BlockTable), a prefix cache that keeps the full   *)
(* blocks of finished prompts alive (PrefixCache), and the K/V store the   *)
(* tables index (PagedKVCache).  The state is the one init_batch leaves.   *)
(*                                                                         *)
(* Abstractions, all of data:                                              *)
(*   - the free list is a bag, free[b] = how often b is on it: the order   *)
(*     in which equal blocks are handed out is left open;                  *)
(*   - a chained hash is the token prefix it was computed from (no two     *)
(*     prefixes share a hash);                                             *)
(*   - a K/V cell holds a member of KVValue, or Uninit from the moment its *)
(*     block goes back to the pool (and before its first use).             *)
(* Numbers of tokens are those of the code; block and token indexes into   *)
(* sequences are one-based here.                                           *)
(***************************************************************************)
EXTENDS Integers, Sequences, FiniteSets, SequencesExt

CONSTANTS
  Slots,              \* batch rows 0 .. batch_size - 1
  Blocks,             \* physical block ids
  Token, Prompts,     \* tokens, and the prompts requests may carry
  KVValue, Uninit,    \* contents of a K/V cell
  BlockSize, MaxSeqLen, NumLayers, MaxEntries,
  EnablePrefixCache

ASSUME SizesAssumption == /\ BlockSize \in Nat \ {0}
                          /\ MaxSeqLen \in Nat \ {0}
                          /\ NumLayers \in Nat \ {0}
                          /\ MaxEntries \in Nat \ {0}
                          /\ EnablePrefixCache \in BOOLEAN

ASSUME PromptsAssumption == Prompts \subseteq Seq(Token)

ASSUME FiniteAssumption == IsFiniteSet(Slots) /\ IsFiniteSet(Blocks)

VARIABLES
  free, inUse, refcount,   \* BlockAllocator: free list, in-use set, counts
  tables,                  \* tables[s]: physical blocks of slot s, in order
  pos,                     \* pos[s]: tokens cached for slot s
  kv,                      \* kv[l][b][o]: cell o of block b in layer l
  entries,                 \* PrefixCache.entries: key -> block
  lru,                     \* keys of entries, least recently used first
  call,                    \* lookup() or insert() in its loop, or Idle
  raised                   \* exception of the last call, or "none"

poolVars  == <<free, inUse, refcount>>
tableVars == <<tables, pos, kv>>
cacheVars == <<entries, lru, call>>
vars == <<poolVars, tableVars, cacheVars, raised>>

Layers  == 0 .. NumLayers - 1
Offsets == 0 .. BlockSize - 1
Idle    == [op |-> "none"]


(* Slip: a block is hashed without its parent. *)
Key_Unchained(tokens, i) == SubSeq(tokens, (i - 1) * BlockSize + 1, i * BlockSize)

(* The key of the i-th full block of a prompt: everything up to its end. *)
Key(tokens, i) == SubSeq(tokens, 1, i * BlockSize)
FullBlocks(tokens) == Len(tokens) \div BlockSize
Keys == UNION {{Key(tokens, i) : i \in 1..FullBlocks(tokens)} : tokens \in Prompts}

(* Who holds a block: slots whose table lists it, entries that map to it. *)
SlotHolders(b)  == {<<"slot", s>> : s \in {t \in Slots : b \in ToSet(tables[t])}}
EntryHolders(b) == {<<"entry", k>> : k \in {j \in DOMAIN entries : entries[j] = b}}
holders == [b \in Blocks |-> SlotHolders(b) \cup EntryHolders(b)]

-----------------------------------------------------------------------------
(* BlockAllocator *)

FreeBlocks == {b \in Blocks : free[b] > 0}

(* allocate_many for each member of a set of free blocks *)
Allocate(B) ==
  /\ free' = [b \in Blocks |-> IF b \in B THEN free[b] - 1 ELSE free[b]]
  /\ inUse' = inUse \cup B
  /\ refcount' = [b \in Blocks |-> IF b \in B THEN 1 ELSE refcount[b]]

(* Slip: a block taken over is not counted. *)
Retain_NotCounted(q) == ToSet(q) \subseteq inUse /\ UNCHANGED poolVars

(* retain for each member of a sequence of blocks that are in use *)
Retain(q) ==
  /\ ToSet(q) \subseteq inUse
  /\ refcount' = [b \in Blocks |->
                    refcount[b] + Cardinality({i \in DOMAIN q : q[i] = b})]
  /\ UNCHANGED <<free, inUse>>

(* Slips: the first release frees a block; no release does. *)
LastReference_First(B) == B
LastReference_Never(B) == {}

(* The blocks whose count falls to zero when each member of B is released. *)
LastReference(B) == {b \in B : refcount[b] = 1}

(* release for each member of a set of blocks that are in use *)
Release(B) ==
  /\ B \subseteq inUse
  /\ refcount' = [b \in Blocks |-> IF b \in B THEN refcount[b] - 1 ELSE refcount[b]]
  /\ inUse' = inUse \ LastReference(B)
  /\ free' = [b \in Blocks |-> IF b \in LastReference(B) THEN free[b] + 1 ELSE free[b]]
  /\ kv' = [l \in Layers |-> [b \in Blocks |->
              IF b \in LastReference(B) THEN [o \in Offsets |-> Uninit] ELSE kv[l][b]]]

-----------------------------------------------------------------------------
(* BlockTable *)

BlocksNeeded(n) == (n + BlockSize - 1) \div BlockSize

(* Slip: one token late into the next block. *)
Resolve_Late(t, p) == <<t[(IF p = 0 THEN 0 ELSE (p - 1) \div BlockSize) + 1], p % BlockSize>>

(* The cell of token index p (zero-based) of a sequence with block table t. *)
Resolve(t, p) == <<t[(p \div BlockSize) + 1], p % BlockSize>>

(* The token index among p .. p + n - 1 that cell <<b, o>> resolves to. *)
Written(t, p, n, b, o) == {i \in 1..n : Resolve(t, p + i - 1) = <<b, o>>}

(* Sequences of m different free blocks: what m allocations may return. *)
Grants(m) == {q \in [1..m -> FreeBlocks] : IsInjective(q)}

(* BlockTable.clear: free_many raises when a block is listed twice *)
Clear(s) ==
  /\ IsInjective(tables[s])
  /\ Release(ToSet(tables[s]))
  /\ tables' = [tables EXCEPT ![s] = <<>>]

-----------------------------------------------------------------------------
(* PrefixCache: lookup and insert walk the full blocks of a prompt, one per
   iteration; call.next is the block the next iteration looks at *)

Call(op, s, tokens) == [op |-> op, slot |-> s, tokens |-> tokens, next |-> 1]
NextKey == Key(call.tokens, call.next)

(* OrderedDict.move_to_end of the i-th key *)
Renewed(order, i) ==
  [j \in DOMAIN order |-> IF j < i THEN order[j]
                          ELSE IF j < Len(order) THEN order[j + 1] ELSE order[i]]
(* Slip: the key is appended and not taken out where it was. *)
MoveToEnd_Twice(k) == lru' = Append(lru, k)
MoveToEnd(k) == \E i \in DOMAIN lru : lru[i] = k /\ lru' = Renewed(lru, i)

(* insert() stops at the last full block that has a physical block *)
AfterInsert ==
  IF call.next < FullBlocks(call.tokens) /\ call.next < Len(tables[call.slot])
  THEN [call EXCEPT !.next = @ + 1] ELSE Idle

-----------------------------------------------------------------------------
Init ==
  /\ free = [b \in Blocks |-> 1]
  /\ inUse = {}
  /\ refcount = [b \in Blocks |-> 0]
  /\ tables = [s \in Slots |-> <<>>]
  /\ pos = [s \in Slots |-> 0]
  /\ kv = [l \in Layers |-> [b \in Blocks |-> [o \in Offsets |-> Uninit]]]
  /\ entries = [k \in {} |-> Uninit]
  /\ lru = <<>>
  /\ call = Idle
  /\ raised = "none"

(* try_load_prefix: without a prefix cache it returns 0 at once *)
TryLoadPrefix(s, tokens) ==
  /\ call = Idle
  /\ call' = IF EnablePrefixCache THEN Call("lookup", s, tokens) ELSE Idle
  /\ raised' = "none"
  /\ UNCHANGED <<poolVars, tableVars, entries, lru>>

(* one iteration of lookup() that finds its block *)
MatchBlock ==
  /\ call.op = "lookup"
  /\ call.next <= FullBlocks(call.tokens)
  /\ NextKey \in DOMAIN entries
  /\ MoveToEnd(NextKey)
  /\ call' = [call EXCEPT !.next = @ + 1]
  /\ UNCHANGED <<poolVars, tableVars, entries, raised>>

LookupOver ==
  /\ call.op = "lookup"
  /\ call.next <= FullBlocks(call.tokens) => NextKey \notin DOMAIN entries
MatchedBlocks == call.next - 1

LoadMiss ==
  /\ LookupOver
  /\ MatchedBlocks = 0
  /\ call' = Idle
  /\ UNCHANGED <<poolVars, tableVars, entries, lru, raised>>

(* Slip: try_load_prefix leaves the write cursor at 0. *)
CursorAfterLoad_Unset(s) == pos
CursorAfterLoad(s) == [pos EXCEPT ![s] = MatchedBlocks * BlockSize]

(* import_blocks retains the matched blocks and makes them the table *)
LoadHit ==
  LET s == call.slot
      matched == [i \in 1..MatchedBlocks |-> entries[Key(call.tokens, i)]]
  IN /\ LookupOver
     /\ MatchedBlocks > 0
     /\ tables[s] = <<>>
     /\ Retain(matched)
     /\ tables' = [tables EXCEPT ![s] = matched]
     /\ pos' = CursorAfterLoad(s)
     /\ call' = Idle
     /\ UNCHANGED <<kv, entries, lru, raised>>

(* import_blocks raises when the slot's table is not empty *)
LoadRejected ==
  /\ LookupOver
  /\ MatchedBlocks > 0
  /\ tables[call.slot] # <<>>
  /\ call' = Idle
  /\ raised' = "non-empty block table"
  /\ UNCHANGED <<poolVars, tableVars, entries, lru>>

Lookup == MatchBlock \/ LoadMiss \/ LoadHit \/ LoadRejected

(* Slip: the blocks the table has already are allocated again. *)
Lacking_IgnoresTable(s, n) == BlocksNeeded(pos[s] + n)

(* The allocations ensure_capacity(pos + n) still needs. *)
Lacking(s, n) ==
  LET missing == BlocksNeeded(pos[s] + n) - Len(tables[s])
  IN IF missing > 0 THEN missing ELSE 0

(* append of Len(vals) tokens to one layer; the last layer moves pos *)
AppendStored(s, layer, vals) ==
  LET n == Len(vals)
      p == pos[s]
  IN /\ call = Idle
     /\ p + n <= MaxSeqLen
     /\ \E q \in Grants(Lacking(s, n)) :
          LET t == tables[s] \o q
          IN /\ Allocate(ToSet(q))
             /\ tables' = [tables EXCEPT ![s] = t]
             /\ kv' = [kv EXCEPT ![layer] = [b \in Blocks |-> [o \in Offsets |->
                         LET w == Written(t, p, n, b, o)
                         IN IF w = {} THEN kv[layer][b][o]
                                      ELSE vals[CHOOSE i \in w : TRUE]]]]
     /\ pos' = IF layer = NumLayers - 1 THEN [pos EXCEPT ![s] = p + n] ELSE pos
     /\ raised' = "none"
     /\ UNCHANGED cacheVars

(* Slip: the blocks got before the pool ran dry are not in the table. *)
AppendExhausted_DropsBlocks(s, layer, vals) ==
  /\ call = Idle
  /\ pos[s] + Len(vals) <= MaxSeqLen
  /\ Lacking(s, Len(vals)) > Cardinality(FreeBlocks)
  /\ Allocate(FreeBlocks)
  /\ raised' = "BlockPoolExhaustedError"
  /\ UNCHANGED <<tables, kv, pos, cacheVars>>

(* append when the pool runs dry: ensure_capacity keeps the blocks it got *)
AppendExhausted(s, layer, vals) ==
  /\ call = Idle
  /\ pos[s] + Len(vals) <= MaxSeqLen
  /\ Lacking(s, Len(vals)) > Cardinality(FreeBlocks)
  /\ \E q \in Grants(Cardinality(FreeBlocks)) :
       /\ Allocate(ToSet(q))
       /\ tables' = [tables EXCEPT ![s] = @ \o q]
  /\ raised' = "BlockPoolExhaustedError"
  /\ UNCHANGED <<kv, pos, cacheVars>>

(* append past max_seq_len: the assertion fails before anything changes *)
AppendTooLong(s, layer, vals) ==
  /\ call = Idle
  /\ pos[s] + Len(vals) > MaxSeqLen
  /\ raised' = "AssertionError"
  /\ UNCHANGED <<poolVars, tableVars, cacheVars>>

AppendKV(s, layer, vals) ==
  \/ AppendStored(s, layer, vals)
  \/ AppendExhausted(s, layer, vals)
  \/ AppendTooLong(s, layer, vals)

(* register_prefix: nothing to insert without a full block in the table *)
RegisterPrefix(s, tokens) ==
  /\ call = Idle
  /\ call' = IF EnablePrefixCache /\ FullBlocks(tokens) > 0 /\ tables[s] # <<>>
             THEN Call("insert", s, tokens) ELSE Idle
  /\ raised' = "none"
  /\ UNCHANGED <<poolVars, tableVars, entries, lru>>

(* one iteration of insert() for a key the cache has already *)
RenewEntry ==
  /\ call.op = "insert"
  /\ NextKey \in DOMAIN entries
  /\ MoveToEnd(NextKey)
  /\ call' = AfterInsert
  /\ UNCHANGED <<poolVars, tableVars, entries, raised>>

(* Slip: the evicted key stays in the order. *)
EvictOldest_LeavesKey ==
  /\ call.op = "insert"
  /\ NextKey \notin DOMAIN entries
  /\ Len(lru) >= MaxEntries
  /\ Release({entries[Head(lru)]})
  /\ entries' = [k \in DOMAIN entries \ {Head(lru)} |-> entries[k]]
  /\ UNCHANGED <<lru, tables, pos, call, raised>>

(* _evict_oldest, repeated by insert() while the cache is full *)
EvictOldest ==
  /\ call.op = "insert"
  /\ NextKey \notin DOMAIN entries
  /\ Len(lru) >= MaxEntries
  /\ Release({entries[Head(lru)]})
  /\ entries' = [k \in DOMAIN entries \ {Head(lru)} |-> entries[k]]
  /\ lru' = Tail(lru)
  /\ UNCHANGED <<tables, pos, call, raised>>

(* one iteration of insert() that adds an entry and retains its block *)
AddEntry ==
  LET block == tables[call.slot][call.next]
  IN /\ call.op = "insert"
     /\ NextKey \notin DOMAIN entries
     /\ Len(lru) < MaxEntries
     /\ entries' = [k \in DOMAIN entries \cup {NextKey} |->
                      IF k = NextKey THEN block ELSE entries[k]]
     /\ Retain(<<block>>)
     /\ lru' = Append(lru, NextKey)
     /\ call' = AfterInsert
     /\ UNCHANGED <<tableVars, raised>>

Insert == RenewEntry \/ EvictOldest \/ AddEntry

(* reset_slot *)
ResetSlot(s) ==
  /\ call = Idle
  /\ Clear(s)
  /\ pos' = [pos EXCEPT ![s] = 0]
  /\ raised' = "none"
  /\ UNCHANGED cacheVars

(* Calls in any order.  The engine registers a prompt once it is cached.   *)
Next ==
  \/ \E s \in Slots, tokens \in Prompts :
       \/ TryLoadPrefix(s, tokens)
       \/ Len(tokens) <= pos[s] /\ RegisterPrefix(s, tokens)
  \/ \E s \in Slots, layer \in Layers, n \in 1..MaxSeqLen, v \in KVValue :
       AppendKV(s, layer, [i \in 1..n |-> v])
  \/ \E s \in Slots : ResetSlot(s)
  \/ Lookup
  \/ Insert

Spec == Init /\ [][Next]_vars

-----------------------------------------------------------------------------
TypeOK ==
  /\ free \in [Blocks -> Nat]
  /\ inUse \subseteq Blocks
  /\ refcount \in [Blocks -> Nat]
  /\ tables \in [Slots -> Seq(Blocks)]
  /\ pos \in [Slots -> 0..MaxSeqLen]
  /\ kv \in [Layers -> [Blocks -> [Offsets -> KVValue \cup {Uninit}]]]
  /\ DOMAIN entries \subseteq Keys
  /\ \A k \in DOMAIN entries : entries[k] \in Blocks
  /\ lru \in Seq(DOMAIN entries)
  /\ \/ call = Idle
     \/ /\ call \in [op : {"lookup", "insert"}, slot : Slots, tokens : Prompts,
                     next : Nat \ {0}]
        /\ call.next <= FullBlocks(call.tokens) + 1

(* The free list, the in-use set and the counts tell one story about every
   block: it is on the free list exactly once when nobody holds it and not
   at all otherwise, and its count is the number of tables and prefix-cache
   entries that hold it.  A slip in retain or release leaks a block or hands
   the K/V of one request to another. *)
PoolExact ==
  \A b \in Blocks :
    /\ refcount[b] = Cardinality(holders[b])
    /\ b \in inUse <=> holders[b] # {}
    /\ free[b] = IF holders[b] = {} THEN 1 ELSE 0

(* A block keeps its place in the sequence: every table lists it at one and
   the same logical index, and the key of an entry ends where that block
   ends.  K/V is computed for an absolute position, so a block moved to
   another index would be attended to at the wrong position. *)
BlockKeepsIndex ==
  /\ \A s, t \in Slots : \A i \in DOMAIN tables[s], j \in DOMAIN tables[t] :
       tables[s][i] = tables[t][j] => i = j
  /\ \A s \in Slots, k \in DOMAIN entries : \A i \in DOMAIN tables[s] :
       tables[s][i] = entries[k] => Len(k) = i * BlockSize
  /\ \A j, k \in DOMAIN entries : entries[j] = entries[k] => Len(j) = Len(k)

(* free_many raises on a list with a duplicate and retain and release on a
   block that is not in use: no call the cache makes gets there, so a slot
   can always be cleared and the oldest entry always be evicted. *)
CleanupCannotRaise ==
  /\ \A s \in Slots : IsInjective(tables[s]) /\ ToSet(tables[s]) \subseteq inUse
  /\ \A k \in DOMAIN entries : entries[k] \in inUse

(* The LRU order lists every key of the prefix cache once, and the cache
   never outgrows max_entries, whatever mix of lookups and inserts. *)
LruExact ==
  /\ ToSet(lru) = DOMAIN entries
  /\ IsInjective(lru)
  /\ Len(lru) <= MaxEntries

(* Blocks that a second reader may look at. *)
Shared(b) ==
  \/ \E k \in DOMAIN entries : entries[k] = b
  \/ \E s, t \in Slots : s # t /\ b \in ToSet(tables[s]) /\ b \in ToSet(tables[t])

(* Whatever a slot shares lies wholly below its write cursor. *)
SharedBelowCursor ==
  \A s \in Slots : \A i \in DOMAIN tables[s] :
    Shared(tables[s][i]) => i * BlockSize <= pos[s]

(* No step writes to a block that the prefix cache or a second slot can
   read: there is no copy on write, so an append into a shared block would
   corrupt the other reader's prefix. *)
SharedNotWritten ==
  [][\A b \in Blocks : Shared(b) /\ b \in inUse' =>
       \A l \in Layers : kv'[l][b] = kv[l][b]]_vars

(* Holders come and go as in BlockOwnership: a block leaves the pool for one
   holder and is back in it in the very step its last holder lets go. *)
Holder == ({"slot"} \X Slots) \cup ({"entry"} \X Keys)
Ownership == INSTANCE BlockOwnership WITH
               Holders <- Holder,
               pool <- FreeBlocks,
               holders <- holders
ImplementsOwnership == Ownership!Spec

(* A slot reads, block by block, what the promise of SlotCache says: its own
   tokens' cells and, after a prefix hit, the cells that were kept under that
   prefix, whatever is shared, evicted, freed and handed out again below. *)
Cell(l, t, i) == LET c == Resolve(t, i - 1) IN kv[l][c[1]][c[2]]
Promise == INSTANCE SlotCache WITH
             seen <- [s \in Slots |-> [l \in Layers |->
                        [i \in 1..pos[s] |-> Cell(l, tables[s], i)]]],
             kept <- [k \in DOMAIN entries |-> [l \in Layers |->
                        [i \in 1..BlockSize |-> kv[l][entries[k]][i - 1]]]]
ImplementsSlotCache == Promise!Spec

(* init_batch makes the pool large enough for every slot at max_seq_len: an
   append finds it empty only when the prefix cache pins a block that no slot
   uses any more. *)
PoolCoversSlots == Cardinality(Blocks) >= Cardinality(Slots) * BlocksNeeded(MaxSeqLen)
OnlyPinsExhaust ==
  PoolCoversSlots /\ raised = "BlockPoolExhaustedError" =>
    \E b \in Blocks : holders[b] # {} /\ SlotHolders(b) = {}
=============================================================================
