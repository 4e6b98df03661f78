------------------------- MODULE PagedKVCacheProofs -------------------------
(***************************************************************************)
(* Proofs that the paged KV cache keeps its books, for any number of       *)
(* slots, blocks, prompts, layers and cache entries, and that both caches  *)
(* of the engine keep the promise of SlotCache, for any contents.  In the  *)
(* paged cache a slot reads through its table: what it has read stays,     *)
(* because blocks that a second reader may look at are not written and     *)
(* blocks that anybody holds are not cleared.  In the dense cache a write  *)
(* starts above the cursor of its slot, and all layers are cut at that one *)
(* cursor.  Last, a count of the places in the tables: when the pool of    *)
(* init_batch runs dry, the prefix cache pins a block that no slot uses.   *)
(***************************************************************************)
EXTENDS PagedKVCache, FiniteSetTheorems, SequenceTheorems, TLAPS, WellFoundedInduction

(* What the loops of lookup() and insert() rely on from one iteration to
   the next: the keys passed are still cached, the block to register exists
   and the prompt lies below the slot's write cursor. *)
CallOK ==
  /\ call.op = "lookup" =>
       \A i \in 1 .. call.next - 1 : Key(call.tokens, i) \in DOMAIN entries
  /\ call.op = "insert" =>
       /\ call.next <= FullBlocks(call.tokens)
       /\ call.next <= Len(tables[call.slot])
       /\ Len(call.tokens) <= pos[call.slot]

(* Only prompts that fitted the cache have been registered, so a slot that
   loads a prefix stays within max_seq_len even for a longer prompt. *)
KeysFit == \A k \in DOMAIN entries : Len(k) \in Nat /\ Len(k) <= MaxSeqLen

HoldersFinite == \A b \in Blocks : IsFiniteSet(holders[b])

(* The inductive invariant. *)
IInv == /\ TypeOK
        /\ PoolExact
        /\ HoldersFinite
        /\ BlockKeepsIndex
        /\ SharedBelowCursor
        /\ LruExact
        /\ KeysFit
        /\ CallOK

-----------------------------------------------------------------------------
(* Arithmetic of block boundaries. *)

(* Full blocks end inside the sequence. *)
LEMMA FullBlockFits ==
  ASSUME NEW n \in Nat, NEW d \in Nat \ {0}, NEW i \in 1 .. (n \div d)
  PROVE  i * d <= n
OBVIOUS

(* Blocks that end at the same token are the same block. *)
LEMMA SameEnd ==
  ASSUME NEW i \in Nat, NEW j \in Nat, NEW d \in Nat \ {0}, i * d = j * d
  PROVE  i = j
OBVIOUS

(* The block of a token below n is among the blocks n tokens need. *)
LEMMA BlockOfToken ==
  ASSUME NEW n \in Nat, NEW d \in Nat \ {0}, NEW p \in 0 .. n - 1
  PROVE  (p \div d) + 1 \in 1 .. ((n + d - 1) \div d)
OBVIOUS

(* A block that ends at or before the cursor holds no token from it on. *)
LEMMA BelowCursor ==
  ASSUME NEW p \in Nat, NEW q \in Nat, NEW d \in Nat \ {0}, p <= q,
         NEW i \in Nat, i * d <= p
  PROVE  i # (q \div d) + 1
OBVIOUS

LEMMA DivType ==
  ASSUME NEW n \in Nat, NEW d \in Nat \ {0}
  PROVE  n \div d \in Nat
OBVIOUS

LEMMA MultipleMonotone ==
  ASSUME NEW i \in Nat, NEW j \in Nat, NEW d \in Nat, i <= j
  PROVE  i * d <= j * d
OBVIOUS

LEMMA FullBlocksType ==
  ASSUME NEW tokens \in Prompts
  PROVE  FullBlocks(tokens) \in Nat
<1>1. Len(tokens) \in Nat /\ BlockSize \in Nat \ {0}
  BY PromptsAssumption, SizesAssumption
<1>. QED  BY <1>1 DEF FullBlocks

(* The key of block i is as long as the prompt up to the end of block i. *)
LEMMA KeyLength ==
  ASSUME NEW tokens \in Prompts, NEW i \in 1 .. FullBlocks(tokens)
  PROVE  /\ Len(Key(tokens, i)) = i * BlockSize
         /\ Key(tokens, i) \in Keys
         /\ FullBlocks(tokens) \in Nat
         /\ i * BlockSize <= Len(tokens)
<1>1. tokens \in Seq(Token) /\ Len(tokens) \in Nat /\ BlockSize \in Nat \ {0}
  BY PromptsAssumption, SizesAssumption
<1>2. FullBlocks(tokens) \in Nat
  BY <1>1 DEF FullBlocks
<1>3. i * BlockSize <= Len(tokens)
  BY <1>1, FullBlockFits DEF FullBlocks
<1>4. i * BlockSize \in Nat
  BY <1>1, <1>2
<1>5. Len(Key(tokens, i)) = i * BlockSize
  <2>1. 1 \in 1 .. Len(tokens) + 1 /\ i * BlockSize \in 1 - 1 .. Len(tokens)
    BY <1>1, <1>3, <1>4
  <2>2. Len(SubSeq(tokens, 1, i * BlockSize)) =
          IF 1 <= i * BlockSize THEN i * BlockSize - 1 + 1 ELSE 0
    BY <1>1, <2>1, SubSeqProperties
  <2>. QED  BY <2>2, <1>4 DEF Key
<1>6. Key(tokens, i) \in Keys
  BY DEF Keys
<1>. QED  BY <1>2, <1>3, <1>5, <1>6

-----------------------------------------------------------------------------
(* Counting holders. *)

(* A holder is a slot that lists the block or an entry that maps to it. *)
LEMMA HolderCases ==
  ASSUME NEW b \in Blocks, NEW h
  PROVE  h \in holders[b] <=>
           \/ \E s \in Slots : h = <<"slot", s>> /\ b \in ToSet(tables[s])
           \/ \E k \in DOMAIN entries : h = <<"entry", k>> /\ entries[k] = b
BY DEF holders, SlotHolders, EntryHolders

(* Blocks taken from the free list by one holder leave the books exact. *)
LEMMA ExactAfterAllocate ==
  ASSUME TypeOK, PoolExact, HoldersFinite,
         NEW h, NEW B \in SUBSET FreeBlocks, Allocate(B),
         holders' = [b \in Blocks |-> IF b \in B THEN {h} ELSE holders[b]]
  PROVE  PoolExact' /\ HoldersFinite'
<1>. SUFFICES ASSUME NEW b \in Blocks
              PROVE  /\ refcount'[b] = Cardinality(holders'[b])
                     /\ b \in inUse' <=> holders'[b] # {}
                     /\ free'[b] = IF holders'[b] = {} THEN 1 ELSE 0
                     /\ IsFiniteSet(holders'[b])
  BY DEF PoolExact, HoldersFinite
<1>1. CASE b \in B
  <2>1. holders'[b] = {h} /\ Cardinality({h}) = 1 /\ IsFiniteSet({h})
    BY <1>1, FS_Singleton
  <2>2. free[b] = 1
    BY <1>1 DEF PoolExact, FreeBlocks
  <2>. QED  BY <1>1, <2>1, <2>2 DEF Allocate
<1>2. CASE b \notin B
  BY <1>2 DEF Allocate, PoolExact, HoldersFinite, TypeOK
<1>. QED  BY <1>1, <1>2

(* So do blocks in use that one more holder retains. *)
LEMMA ExactAfterRetain ==
  ASSUME TypeOK, PoolExact, HoldersFinite,
         NEW h, NEW q \in Seq(Blocks), IsInjective(q), Retain(q),
         \A b \in ToSet(q) : h \notin holders[b],
         holders' = [b \in Blocks |-> IF b \in ToSet(q) THEN holders[b] \cup {h}
                                                        ELSE holders[b]]
  PROVE  PoolExact' /\ HoldersFinite'
<1>. SUFFICES ASSUME NEW b \in Blocks
              PROVE  /\ refcount'[b] = Cardinality(holders'[b])
                     /\ b \in inUse' <=> holders'[b] # {}
                     /\ free'[b] = IF holders'[b] = {} THEN 1 ELSE 0
                     /\ IsFiniteSet(holders'[b])
  BY DEF PoolExact, HoldersFinite
<1>. DEFINE at == {i \in DOMAIN q : q[i] = b}
<1>1. refcount'[b] = refcount[b] + Cardinality(at)
  BY DEF Retain
<1>2. IsFiniteSet(holders[b]) /\ refcount[b] = Cardinality(holders[b]) /\ refcount[b] \in Nat
  BY DEF PoolExact, HoldersFinite, TypeOK
<1>3. CASE b \in ToSet(q)
  <2>1. PICK i \in DOMAIN q : q[i] = b
    BY <1>3 DEF ToSet
  <2>2. at = {i}
    BY <2>1 DEF IsInjective
  <2>3. Cardinality(at) = 1
    BY <2>2, FS_Singleton
  <2>4. /\ IsFiniteSet(holders[b] \cup {h})
        /\ Cardinality(holders[b] \cup {h}) = Cardinality(holders[b]) + 1
    BY <1>2, <1>3, FS_AddElement
  <2>5. holders'[b] = holders[b] \cup {h} /\ b \in inUse
    BY <1>3 DEF Retain
  <2>. QED  BY <1>1, <1>2, <2>3, <2>4, <2>5 DEF Retain, PoolExact
<1>4. CASE b \notin ToSet(q)
  <2>1. at = {}
    BY <1>4 DEF ToSet
  <2>2. Cardinality(at) = 0
    BY <2>1, FS_EmptySet
  <2>. QED  BY <1>1, <1>2, <1>4, <2>2 DEF Retain, PoolExact
<1>. QED  BY <1>3, <1>4

(* Retaining adds to the counts. *)
LEMMA RetainType ==
  ASSUME refcount \in [Blocks -> Nat], NEW q \in Seq(Blocks), Retain(q)
  PROVE  refcount' \in [Blocks -> Nat]
<1>1. ASSUME NEW b \in Blocks
      PROVE  Cardinality({i \in DOMAIN q : q[i] = b}) \in Nat
  <2>1. IsFiniteSet(DOMAIN q)
    BY LenProperties, FS_Interval
  <2>. QED  BY <2>1, FS_Subset, FS_CardinalityType
<1>. QED  BY <1>1 DEF Retain

(* And so does a holder that releases everything it holds. *)
LEMMA ExactAfterRelease ==
  ASSUME TypeOK, PoolExact, HoldersFinite,
         NEW h, Release({b \in Blocks : h \in holders[b]}),
         holders' = [b \in Blocks |-> holders[b] \ {h}]
  PROVE  PoolExact' /\ HoldersFinite'
<1>. SUFFICES ASSUME NEW b \in Blocks
              PROVE  /\ refcount'[b] = Cardinality(holders'[b])
                     /\ b \in inUse' <=> holders'[b] # {}
                     /\ free'[b] = IF holders'[b] = {} THEN 1 ELSE 0
                     /\ IsFiniteSet(holders'[b])
  BY DEF PoolExact, HoldersFinite
<1>1. /\ IsFiniteSet(holders[b]) /\ refcount[b] = Cardinality(holders[b])
      /\ refcount[b] \in Nat
      /\ holders'[b] = holders[b] \ {h}
  BY DEF PoolExact, HoldersFinite, TypeOK
<1>2. /\ IsFiniteSet(holders[b] \ {h})
      /\ Cardinality(holders[b] \ {h}) =
           IF h \in holders[b] THEN Cardinality(holders[b]) - 1 ELSE Cardinality(holders[b])
  BY <1>1, FS_RemoveElement
<1>3. Cardinality(holders[b] \ {h}) = 0 <=> holders[b] \ {h} = {}
  BY <1>2, FS_EmptySet
<1>4. CASE h \in holders[b]
  <2>1. refcount'[b] = refcount[b] - 1 /\ b \in inUse /\ free[b] = 0
    BY <1>4 DEF Release, PoolExact
  <2>2. b \in LastReference({c \in Blocks : h \in holders[c]}) <=> refcount[b] = 1
    BY <1>4 DEF LastReference
  <2>. QED  BY <1>1, <1>2, <1>3, <1>4, <2>1, <2>2 DEF Release
<1>5. CASE h \notin holders[b]
  <2>1. b \notin LastReference({c \in Blocks : h \in holders[c]})
    BY <1>5 DEF LastReference
  <2>2. holders'[b] = holders[b]
    BY <1>1, <1>5
  <2>. QED  BY <1>1, <1>2, <1>5, <2>1, <2>2 DEF Release, PoolExact
<1>. QED  BY <1>4, <1>5

-----------------------------------------------------------------------------
(* The LRU order. *)

(* A sequence whose elements are in S is a sequence over S. *)
LEMMA SeqFromDomain ==
  ASSUME NEW T, NEW q \in Seq(T), NEW S, \A i \in 1 .. Len(q) : q[i] \in S
  PROVE  q \in Seq(S)
<1>1. q \in [1 .. Len(q) -> S] /\ Len(q) \in Nat
  BY LenProperties
<1>. QED  BY <1>1

(* Moving a key to the end keeps the keys and lists each of them once. *)
LEMMA RenewedKeepsKeys ==
  ASSUME NEW S, NEW q \in Seq(S), IsInjective(q), NEW i \in DOMAIN q
  PROVE  /\ Renewed(q, i) \in Seq(S)
         /\ Len(Renewed(q, i)) = Len(q)
         /\ ToSet(Renewed(q, i)) = ToSet(q)
         /\ IsInjective(Renewed(q, i))
<1>. DEFINE r == Renewed(q, i)
            n == Len(q)
<1>1. n \in Nat /\ DOMAIN q = 1..n /\ i \in 1..n /\ \A j \in 1..n : q[j] \in S
  BY LenProperties, ElementOfSeq
<1>2. /\ DOMAIN r = 1..n
      /\ \A j \in 1..n : r[j] = IF j < i THEN q[j] ELSE IF j < n THEN q[j + 1] ELSE q[i]
  BY <1>1 DEF Renewed
<1>3. r = [j \in 1..n |-> r[j]] /\ \A j \in 1..n : r[j] \in S
  BY <1>1, <1>2 DEF Renewed
<1>4. r \in Seq(S) /\ Len(r) = n
  <2>1. r \in [1..n -> S]
    BY <1>3
  <2>. HIDE DEF r
  <2>2. r \in Seq(S)
    BY <2>1, <1>1
  <2>. QED  BY <2>1, <2>2, <1>1, LenProperties
<1>5. ToSet(r) = ToSet(q)
  <2>1. ASSUME NEW j \in 1..n PROVE \E k \in 1..n : r[j] = q[k]
    BY <1>1, <1>2
  <2>2. ASSUME NEW k \in 1..n PROVE \E j \in 1..n : r[j] = q[k]
    <3>1. CASE k < i
      BY <1>1, <1>2, <3>1
    <3>2. CASE k = i
      <4>1. r[n] = q[i]
        BY <1>1, <1>2
      <4>. QED  BY <1>1, <3>2, <4>1
    <3>3. CASE k > i
      <4>1. k - 1 \in 1..n /\ r[k - 1] = q[k]
        BY <1>1, <1>2, <3>3
      <4>. QED  BY <4>1
    <3>. QED  BY <1>1, <3>1, <3>2, <3>3
  <2>3. ToSet(r) = {r[j] : j \in 1..n} /\ ToSet(q) = {q[j] : j \in 1..n}
    BY <1>1, <1>2 DEF ToSet
  <2>. HIDE DEF r
  <2>. QED  BY <2>1, <2>2, <2>3
<1>6. IsInjective(r)
  BY <1>1, <1>2 DEF IsInjective
<1>. QED  BY <1>4, <1>5, <1>6

(* So a lookup or insert that renews a key keeps the order exact. *)
LEMMA MoveToEndExact ==
  ASSUME lru \in Seq(DOMAIN entries), LruExact, NEW k \in DOMAIN entries,
         MoveToEnd(k), entries' = entries
  PROVE  lru' \in Seq(DOMAIN entries') /\ LruExact'
BY RenewedKeepsKeys DEF MoveToEnd, LruExact

-----------------------------------------------------------------------------
(* Steps of the abstract pool, recognised by what happens to the holders. *)

LEMMA PoolIsUnheld ==
  /\ PoolExact => FreeBlocks = {b \in Blocks : holders[b] = {}}
  /\ PoolExact' => FreeBlocks' = {b \in Blocks : holders'[b] = {}}
BY DEF PoolExact, FreeBlocks

LEMMA IsAcquire ==
  ASSUME PoolExact, PoolExact', NEW h \in Holder, NEW B \in SUBSET FreeBlocks,
         holders' = [b \in Blocks |-> IF b \in B THEN {h} ELSE holders[b]]
  PROVE  Ownership!Next
<1>1. /\ FreeBlocks = {b \in Blocks : holders[b] = {}}
      /\ FreeBlocks' = {b \in Blocks : holders'[b] = {}}
  BY PoolIsUnheld
<1>2. FreeBlocks' = FreeBlocks \ B
  BY <1>1
<1>3. Ownership!Acquire(h, B) /\ B \in SUBSET Blocks
  BY <1>1, <1>2 DEF Ownership!Acquire
<1>. QED  BY <1>3 DEF Ownership!Next

LEMMA IsShare ==
  ASSUME PoolExact, PoolExact', NEW h \in Holder, NEW B \in SUBSET Blocks,
         \A b \in B : holders[b] # {} /\ h \notin holders[b],
         holders' = [b \in Blocks |-> IF b \in B THEN holders[b] \cup {h}
                                                 ELSE holders[b]]
  PROVE  Ownership!Next
<1>1. /\ FreeBlocks = {b \in Blocks : holders[b] = {}}
      /\ FreeBlocks' = {b \in Blocks : holders'[b] = {}}
  BY PoolIsUnheld
<1>2. FreeBlocks' = FreeBlocks
  BY <1>1
<1>3. Ownership!Share(h, B)
  BY <1>2 DEF Ownership!Share
<1>. QED  BY <1>3 DEF Ownership!Next

LEMMA IsDrop ==
  ASSUME PoolExact, PoolExact', NEW h \in Holder,
         holders' = [b \in Blocks |-> holders[b] \ {h}]
  PROVE  Ownership!Next
<1>1. /\ FreeBlocks = {b \in Blocks : holders[b] = {}}
      /\ FreeBlocks' = {b \in Blocks : holders'[b] = {}}
  BY PoolIsUnheld
<1>2. FreeBlocks' = FreeBlocks \cup {b \in Blocks : holders[b] = {h}}
  BY <1>1
<1>3. Ownership!Drop(h)
  BY <1>2 DEF Ownership!Drop
<1>. QED  BY <1>3 DEF Ownership!Next

-----------------------------------------------------------------------------
(* Initial states, and one lemma per action. *)

LEMMA InitEstablishes == Init => IInv
<1>. SUFFICES ASSUME Init PROVE IInv
  OBVIOUS
<1>1. \A s \in Slots : tables[s] = <<>> /\ DOMAIN tables[s] = {}
  BY DEF Init
<1>2. DOMAIN entries = {} /\ lru = <<>> /\ ToSet(lru) = {} /\ call = Idle
  BY DEF Init, ToSet
<1>3. \A b \in Blocks : holders[b] = {}
  BY <1>1, <1>2 DEF holders, SlotHolders, EntryHolders, ToSet
<1>4. TypeOK
  <2>1. \A s \in Slots : tables[s] \in Seq(Blocks)
    BY <1>1, EmptySeq
  <2>2. tables \in [Slots -> Seq(Blocks)]
    BY <2>1 DEF Init
  <2>. QED  BY <1>2, <2>2, SizesAssumption DEF Init, TypeOK, Layers, Offsets
<1>5. PoolExact /\ HoldersFinite
  BY <1>3, FS_EmptySet DEF Init, PoolExact, HoldersFinite
<1>6. BlockKeepsIndex /\ SharedBelowCursor
  BY <1>1, <1>2 DEF BlockKeepsIndex, SharedBelowCursor
<1>7. LruExact
  BY <1>2, SizesAssumption DEF LruExact, IsInjective
<1>8. CallOK
  BY <1>2 DEF CallOK, Idle
<1>9. KeysFit
  BY <1>2 DEF KeysFit
<1>. QED  BY <1>4, <1>5, <1>6, <1>7, <1>8, <1>9 DEF IInv

(* Actions that leave the pool, the tables and the entries alone. *)
LEMMA QuietKeeps ==
  ASSUME IInv, UNCHANGED <<poolVars, tableVars, entries>>
  PROVE  /\ PoolExact' /\ HoldersFinite' /\ BlockKeepsIndex' /\ SharedBelowCursor'
         /\ KeysFit' /\ UNCHANGED Ownership!ovars
<1>1. UNCHANGED <<free, inUse, refcount, tables, pos, kv, entries>>
  BY DEF poolVars, tableVars
<1>2. holders' = holders
  BY <1>1 DEF holders, SlotHolders, EntryHolders
<1>3. PoolExact' /\ HoldersFinite' /\ BlockKeepsIndex'
  BY <1>1, <1>2 DEF IInv, PoolExact, HoldersFinite, BlockKeepsIndex
<1>4. SharedBelowCursor'
  BY <1>1 DEF IInv, SharedBelowCursor, Shared
<1>5. KeysFit'
  BY <1>1 DEF IInv, KeysFit
<1>6. UNCHANGED Ownership!ovars
  BY <1>1, <1>2 DEF Ownership!ovars, FreeBlocks
<1>. QED  BY <1>2, <1>3, <1>4, <1>5, <1>6

LEMMA TryLoadPrefixKeeps ==
  ASSUME IInv, NEW s \in Slots, NEW tokens \in Prompts, TryLoadPrefix(s, tokens)
  PROVE  IInv' /\ UNCHANGED Ownership!ovars
<1>1. UNCHANGED <<poolVars, tableVars, entries, lru>>
  BY DEF TryLoadPrefix
<1>2. FullBlocks(tokens) \in Nat
  BY PromptsAssumption, SizesAssumption DEF FullBlocks
<1>3. TypeOK' /\ CallOK'
  BY <1>1, <1>2 DEF IInv, TypeOK, CallOK, TryLoadPrefix, Call, Idle, poolVars, tableVars
<1>4. LruExact'
  BY <1>1 DEF IInv, LruExact
<1>. QED  BY <1>1, <1>3, <1>4, QuietKeeps DEF IInv

LEMMA MatchBlockKeeps == 
  ASSUME IInv, MatchBlock
  PROVE  IInv' /\ UNCHANGED Ownership!ovars
<1>1. UNCHANGED <<poolVars, tableVars, entries>> /\ entries' = entries
  BY DEF MatchBlock
<1>2. lru' \in Seq(DOMAIN entries') /\ LruExact'
  BY <1>1, MoveToEndExact DEF MatchBlock, IInv, TypeOK
<1>3. /\ call.tokens \in Prompts /\ call.next \in Nat \ {0} /\ call.slot \in Slots
      /\ call \in [op : {"lookup", "insert"}, slot : Slots, tokens : Prompts,
                   next : Nat \ {0}]
  BY DEF MatchBlock, IInv, TypeOK, Idle
<1>4. FullBlocks(call.tokens) \in Nat
  BY <1>3, PromptsAssumption, SizesAssumption DEF FullBlocks
<1>5. /\ call' \in [op : {"lookup", "insert"}, slot : Slots, tokens : Prompts,
                    next : Nat \ {0}]
      /\ call'.op = "lookup" /\ call'.tokens = call.tokens
      /\ call'.next = call.next + 1
  BY <1>3 DEF MatchBlock
<1>6. TypeOK'
  BY <1>1, <1>2, <1>3, <1>4, <1>5 DEF IInv, TypeOK, MatchBlock, poolVars, tableVars
<1>7. CallOK'
  BY <1>1, <1>3, <1>5 DEF IInv, CallOK, MatchBlock, NextKey
<1>. QED  BY <1>1, <1>2, <1>6, <1>7, QuietKeeps DEF IInv

LEMMA LoadMissKeeps == 
  ASSUME IInv, LoadMiss
  PROVE  IInv' /\ UNCHANGED Ownership!ovars
<1>1. UNCHANGED <<poolVars, tableVars, entries, lru>> /\ call' = Idle
  BY DEF LoadMiss
<1>2. TypeOK' /\ CallOK' /\ LruExact'
  BY <1>1 DEF IInv, TypeOK, CallOK, LruExact, Idle, poolVars, tableVars
<1>. QED  BY <1>1, <1>2, QuietKeeps DEF IInv

LEMMA LoadRejectedKeeps == 
  ASSUME IInv, LoadRejected
  PROVE  IInv' /\ UNCHANGED Ownership!ovars
<1>1. UNCHANGED <<poolVars, tableVars, entries, lru>> /\ call' = Idle
  BY DEF LoadRejected
<1>2. TypeOK' /\ CallOK' /\ LruExact'
  BY <1>1 DEF IInv, TypeOK, CallOK, LruExact, Idle, poolVars, tableVars
<1>. QED  BY <1>1, <1>2, QuietKeeps DEF IInv

(* Nobody lists or caches a block that is on the free list. *)
LEMMA FreeMeansUnheld ==
  ASSUME TypeOK, PoolExact, NEW b \in FreeBlocks
  PROVE  /\ b \in Blocks /\ holders[b] = {}
         /\ \A t \in Slots : \A i \in DOMAIN tables[t] : tables[t][i] # b
         /\ \A k \in DOMAIN entries : entries[k] # b
<1>1. b \in Blocks /\ holders[b] = {}
  BY DEF FreeBlocks, PoolExact
<1>. QED  BY <1>1 DEF holders, SlotHolders, EntryHolders, ToSet

(* What ensure_capacity does when it is granted the blocks q, together with
   the move of the cursor that may follow. *)
Grows(s, q) ==
  /\ Allocate(ToSet(q))
  /\ tables' = [tables EXCEPT ![s] = @ \o q]
  /\ entries' = entries
  /\ \A t \in Slots : pos'[t] \in Nat /\ pos[t] <= pos'[t]

(* The part of append that ensure_capacity does, whether or not it gets all
   the blocks it wants. *)
LEMMA GrowKeeps ==
  ASSUME IInv, NEW s \in Slots, NEW m \in Nat, NEW q \in Grants(m),
         Grows(s, q)
  PROVE  /\ tables' \in [Slots -> Seq(Blocks)]
         /\ \A t \in Slots : Len(tables[t]) <= Len(tables'[t])
         /\ free' \in [Blocks -> Nat] /\ inUse' \subseteq Blocks
         /\ refcount' \in [Blocks -> Nat]
         /\ ToSet(q) \subseteq FreeBlocks
         /\ holders' = [b \in Blocks |->
                          IF b \in ToSet(q) THEN {<<"slot", s>>} ELSE holders[b]]
         /\ PoolExact' /\ HoldersFinite' /\ BlockKeepsIndex' /\ SharedBelowCursor'
<1>. DEFINE n(t) == Len(tables[t])
<1>. USE DEF Grows
<1>1. /\ q \in [1..m -> FreeBlocks] /\ IsInjective(q) /\ q \in Seq(Blocks) /\ Len(q) = m
      /\ ToSet(q) \subseteq FreeBlocks /\ DOMAIN q = 1..m
  BY DEF Grants, FreeBlocks, ToSet
<1>2. \A t \in Slots : tables[t] \in Seq(Blocks) /\ n(t) \in Nat /\ DOMAIN tables[t] = 1..n(t)
  BY DEF IInv, TypeOK
<1>3. /\ tables'[s] = tables[s] \o q
      /\ \A t \in Slots : t # s => tables'[t] = tables[t]
      /\ tables[s] \o q \in Seq(Blocks)
      /\ tables' \in [Slots -> Seq(Blocks)]
  BY <1>1, <1>2 DEF IInv, TypeOK
<1>4. /\ DOMAIN tables'[s] = 1 .. n(s) + m /\ Len(tables'[s]) = n(s) + m
      /\ \A i \in 1 .. n(s) : tables'[s][i] = tables[s][i]
      /\ \A i \in 1 .. n(s) + m : i > n(s) => tables'[s][i] = q[i - n(s)]
  <2>1. /\ Len(tables[s] \o q) = n(s) + m
        /\ \A i \in 1 .. n(s) + m :
             (tables[s] \o q)[i] = IF i <= n(s) THEN tables[s][i] ELSE q[i - n(s)]
    BY <1>1, <1>2, ConcatProperties
  <2>2. DOMAIN (tables[s] \o q) = 1 .. Len(tables[s] \o q)
    BY <1>3, LenProperties
  <2>. QED  BY <1>1, <1>2, <1>3, <2>1, <2>2
<1>5. \A t \in Slots : Len(tables[t]) <= Len(tables'[t])
  BY <1>2, <1>3, <1>4
<1>6. \A b \in ToSet(q) :
        /\ b \in Blocks /\ holders[b] = {}
        /\ \A t \in Slots : \A i \in DOMAIN tables[t] : tables[t][i] # b
        /\ \A k \in DOMAIN entries : entries[k] # b
  BY <1>1, FreeMeansUnheld DEF IInv
\* an entry of a new table is an old one, or a granted block of slot s
<1>7. ASSUME NEW t \in Slots, NEW i \in DOMAIN tables'[t]
      PROVE  \/ i \in DOMAIN tables[t] /\ tables'[t][i] = tables[t][i]
             \/ /\ t = s /\ i > n(s) /\ i - n(s) \in 1..m
                /\ tables'[t][i] = q[i - n(s)] /\ q[i - n(s)] \in ToSet(q)
  <2>1. CASE t # s
    BY <2>1, <1>3
  <2>2. CASE t = s /\ i <= n(s)
    BY <2>2, <1>2, <1>4
  <2>3. CASE t = s /\ i > n(s)
    <3>1. i \in 1 .. n(s) + m /\ i - n(s) \in 1..m /\ tables'[t][i] = q[i - n(s)]
      BY <2>3, <1>1, <1>2, <1>4
    <3>. QED  BY <2>3, <3>1, <1>1 DEF ToSet
  <2>. QED  BY <2>1, <2>2, <2>3, <1>2, <1>4
<1>8. ToSet(tables'[s]) = ToSet(tables[s]) \cup ToSet(q)
  <2>1. \A i \in 1..m : i + n(s) \in 1 .. n(s) + m /\ i + n(s) > n(s)
                        /\ tables'[s][i + n(s)] = q[i]
    BY <1>1, <1>2, <1>4
  <2>2. ToSet(q) \subseteq ToSet(tables'[s])
    <3>1. ASSUME NEW i \in 1..m PROVE q[i] \in ToSet(tables'[s])
      BY <2>1, <3>1, <1>4 DEF ToSet
    <3>. QED  BY <3>1, <1>1 DEF ToSet
  <2>3. ToSet(tables[s]) \subseteq ToSet(tables'[s])
    <3>1. \A i \in 1 .. n(s) : i \in 1 .. n(s) + m
      BY <1>1, <1>2
    <3>. QED  BY <3>1, <1>2, <1>4 DEF ToSet
  <2>4. ToSet(tables'[s]) \subseteq ToSet(tables[s]) \cup ToSet(q)
    BY <1>7 DEF ToSet
  <2>. QED  BY <2>2, <2>3, <2>4
<1>9. holders' = [b \in Blocks |->
                    IF b \in ToSet(q) THEN {<<"slot", s>>} ELSE holders[b]]
  <2>1. ASSUME NEW b \in Blocks
        PROVE  holders'[b] = IF b \in ToSet(q) THEN {<<"slot", s>>} ELSE holders[b]
    <3>1. CASE b \in ToSet(q)
      <4>0. \A t \in Slots : b \notin ToSet(tables[t])
        BY <3>1, <1>6 DEF ToSet
      <4>1. \A t \in Slots : b \in ToSet(tables'[t]) <=> t = s
        BY <3>1, <4>0, <1>3, <1>8
      <4>2. \A k \in DOMAIN entries : entries[k] # b
        BY <3>1, <1>6
      <4>. QED  BY <3>1, <4>1, <4>2 DEF holders, SlotHolders, EntryHolders
    <3>2. CASE b \notin ToSet(q)
      <4>1. \A t \in Slots : b \in ToSet(tables'[t]) <=> b \in ToSet(tables[t])
        BY <3>2, <1>3, <1>8
      <4>. QED  BY <3>2, <4>1 DEF holders, SlotHolders, EntryHolders
    <3>. QED  BY <3>1, <3>2
  <2>. QED  BY <2>1 DEF holders
<1>10. PoolExact' /\ HoldersFinite'
  BY <1>1, <1>9, ExactAfterAllocate DEF IInv
<1>11. BlockKeepsIndex'
  <2>1. ASSUME NEW t \in Slots, NEW u \in Slots,
               NEW i \in DOMAIN tables'[t], NEW j \in DOMAIN tables'[u],
               tables'[t][i] = tables'[u][j]
        PROVE  i = j
    <3>1. CASE i \in DOMAIN tables[t] /\ tables'[t][i] = tables[t][i]
               /\ j \in DOMAIN tables[u] /\ tables'[u][j] = tables[u][j]
      BY <2>1, <3>1 DEF IInv, BlockKeepsIndex
    <3>2. CASE /\ i - n(s) \in 1..m /\ tables'[t][i] = q[i - n(s)] /\ i > n(s)
               /\ j - n(s) \in 1..m /\ tables'[u][j] = q[j - n(s)] /\ j > n(s)
               /\ t = s /\ u = s
      <4>1. i - n(s) = j - n(s)
        BY <2>1, <3>2, <1>1 DEF IsInjective
      <4>2. i \in Int /\ j \in Int
        BY <3>2, <1>2, <1>4
      <4>. QED  BY <4>1, <4>2, <1>2
    <3>. QED  BY <2>1, <3>1, <3>2, <1>6, <1>7
  <2>2. ASSUME NEW t \in Slots, NEW k \in DOMAIN entries, NEW i \in DOMAIN tables'[t],
               tables'[t][i] = entries[k]
        PROVE  Len(k) = i * BlockSize
    BY <2>2, <1>6, <1>7 DEF IInv, BlockKeepsIndex
  <2>. QED  BY <2>1, <2>2 DEF IInv, BlockKeepsIndex
<1>12. SharedBelowCursor'
  <2>. SUFFICES ASSUME NEW t \in Slots, NEW i \in DOMAIN tables'[t],
                       NEW b, b = tables'[t][i],
                       \/ \E k \in DOMAIN entries' : entries'[k] = b
                       \/ \E u, w \in Slots :
                            u # w /\ b \in ToSet(tables'[u]) /\ b \in ToSet(tables'[w])
                PROVE  i * BlockSize <= pos'[t]
    BY DEF SharedBelowCursor, Shared
  <2>1. CASE /\ t = s /\ i - n(s) \in 1..m /\ tables'[t][i] = q[i - n(s)]
             /\ q[i - n(s)] \in ToSet(q)
    <3>0. b \in ToSet(q)
      BY <2>1
    <3>1. \A u \in Slots : b \notin ToSet(tables[u])
      BY <3>0, <1>6 DEF ToSet
    <3>2. \A u \in Slots : u # s => b \notin ToSet(tables'[u])
      BY <3>1, <1>3
    <3>3. \A k \in DOMAIN entries : entries[k] # b
      BY <3>0, <1>6
    <3>. QED  BY <2>1, <3>2, <3>3
  <2>2. CASE i \in DOMAIN tables[t] /\ tables'[t][i] = tables[t][i]
    <3>1. b \notin ToSet(q)
      BY <2>2, <1>6
    <3>2. \A u \in Slots : b \in ToSet(tables'[u]) <=> b \in ToSet(tables[u])
      BY <3>1, <1>3, <1>8
    <3>3. Shared(tables[t][i])
      BY <2>2, <3>2 DEF Shared
    <3>4. i * BlockSize <= pos[t]
      BY <2>2, <3>3 DEF IInv, SharedBelowCursor
    <3>5. i * BlockSize \in Int /\ pos[t] \in Int
      BY <2>2, <1>2, SizesAssumption DEF IInv, TypeOK
    <3>. QED  BY <3>4, <3>5
  <2>. QED  BY <2>1, <2>2, <1>7
<1>13. /\ free' \in [Blocks -> Nat] /\ inUse' \subseteq Blocks
       /\ refcount' \in [Blocks -> Nat]
  <2>1. \A b \in FreeBlocks : free[b] - 1 \in Nat
    BY DEF FreeBlocks, IInv, TypeOK
  <2>. QED  BY <2>1, <1>1 DEF Allocate, IInv, TypeOK, FreeBlocks
<1>. QED  BY <1>1, <1>3, <1>5, <1>9, <1>10, <1>11, <1>12, <1>13

LEMMA AppendStoredKeeps ==
  ASSUME IInv, NEW s \in Slots, NEW layer \in Layers,
         NEW vals \in Seq(KVValue), AppendStored(s, layer, vals)
  PROVE  IInv' /\ Ownership!Next
<1>. DEFINE n == Len(vals)
            p == pos[s]
<1>1. n \in Nat /\ p \in Nat /\ p + n <= MaxSeqLen
  BY DEF AppendStored, IInv, TypeOK
<1>2. Lacking(s, n) \in Nat
  BY <1>1, SizesAssumption DEF Lacking, BlocksNeeded, IInv, TypeOK
<1>3. PICK q \in Grants(Lacking(s, n)) :
        /\ Allocate(ToSet(q))
        /\ tables' = [tables EXCEPT ![s] = @ \o q]
        /\ kv' = [kv EXCEPT ![layer] = [b \in Blocks |-> [o \in Offsets |->
                    IF Written(tables[s] \o q, p, n, b, o) = {} THEN kv[layer][b][o]
                    ELSE vals[CHOOSE i \in Written(tables[s] \o q, p, n, b, o) : TRUE]]]]
  BY DEF AppendStored
<1>4. /\ UNCHANGED <<entries, lru, call>> /\ call = Idle
      /\ pos' = IF layer = NumLayers - 1 THEN [pos EXCEPT ![s] = p + n] ELSE pos
  BY DEF AppendStored, cacheVars
<1>5. pos' \in [Slots -> 0..MaxSeqLen] /\ \A t \in Slots : pos'[t] \in Nat /\ pos[t] <= pos'[t]
  BY <1>1, <1>4, SizesAssumption DEF IInv, TypeOK
<1>6. /\ tables' \in [Slots -> Seq(Blocks)]
      /\ free' \in [Blocks -> Nat] /\ inUse' \subseteq Blocks /\ refcount' \in [Blocks -> Nat]
      /\ PoolExact' /\ HoldersFinite' /\ BlockKeepsIndex' /\ SharedBelowCursor'
      /\ ToSet(q) \subseteq FreeBlocks
      /\ holders' = [b \in Blocks |->
                       IF b \in ToSet(q) THEN {<<"slot", s>>} ELSE holders[b]]
  <2>1. /\ q \in Grants(Lacking(s, n)) /\ Allocate(ToSet(q))
        /\ tables' = [tables EXCEPT ![s] = @ \o q] /\ entries' = entries
    BY <1>3, <1>4
  <2>2. Grows(s, q)
    BY <2>1, <1>5 DEF Grows
  <2>. QED  BY <2>1, <2>2, <1>2, GrowKeeps
<1>7. kv' \in [Layers -> [Blocks -> [Offsets -> KVValue \cup {Uninit}]]]
  <2>1. ASSUME NEW b \in Blocks, NEW o \in Offsets,
               NEW w, w = Written(tables[s] \o q, p, n, b, o), w # {}
        PROVE  vals[CHOOSE i \in w : TRUE] \in KVValue
    <3>1. (CHOOSE i \in w : TRUE) \in w
      BY <2>1
    <3>2. w \subseteq 1..n
      BY <2>1 DEF Written
    <3>. QED  BY <3>1, <3>2, ElementOfSeq
  <2>. QED  BY <1>3, <2>1 DEF IInv, TypeOK
<1>8. TypeOK' /\ CallOK' /\ LruExact' /\ KeysFit'
  BY <1>4, <1>5, <1>6, <1>7 DEF IInv, TypeOK, CallOK, LruExact, Idle, KeysFit
<1>9. Ownership!Next
  <2>1. <<"slot", s>> \in Holder
    BY DEF Holder
  <2>. QED  BY <1>6, <2>1, IsAcquire DEF IInv
<1>. QED  BY <1>6, <1>8, <1>9 DEF IInv

LEMMA AppendExhaustedKeeps ==
  ASSUME IInv, NEW s \in Slots, NEW layer \in Layers,
         NEW vals \in Seq(KVValue), AppendExhausted(s, layer, vals)
  PROVE  IInv' /\ Ownership!Next
<1>. DEFINE m == Cardinality(FreeBlocks)
<1>1. m \in Nat
  BY FiniteAssumption, FS_Subset, FS_CardinalityType DEF FreeBlocks
<1>2. PICK q \in Grants(m) : /\ Allocate(ToSet(q))
                             /\ tables' = [tables EXCEPT ![s] = @ \o q]
  BY DEF AppendExhausted
<1>3. UNCHANGED <<entries, lru, call, kv, pos>> /\ call = Idle
  BY DEF AppendExhausted, cacheVars
<1>4. \A t \in Slots : pos'[t] \in Nat /\ pos[t] <= pos'[t]
  BY <1>3, SizesAssumption DEF IInv, TypeOK
<1>5. /\ tables' \in [Slots -> Seq(Blocks)]
      /\ free' \in [Blocks -> Nat] /\ inUse' \subseteq Blocks /\ refcount' \in [Blocks -> Nat]
      /\ PoolExact' /\ HoldersFinite' /\ BlockKeepsIndex' /\ SharedBelowCursor'
      /\ ToSet(q) \subseteq FreeBlocks
      /\ holders' = [b \in Blocks |->
                       IF b \in ToSet(q) THEN {<<"slot", s>>} ELSE holders[b]]
  <2>1. Grows(s, q)
    BY <1>2, <1>3, <1>4 DEF Grows
  <2>. QED  BY <2>1, <1>1, GrowKeeps
<1>6. TypeOK' /\ CallOK' /\ LruExact' /\ KeysFit'
  BY <1>3, <1>5 DEF IInv, TypeOK, CallOK, LruExact, Idle, KeysFit
<1>7. Ownership!Next
  <2>1. <<"slot", s>> \in Holder
    BY DEF Holder
  <2>. QED  BY <1>5, <2>1, IsAcquire DEF IInv
<1>. QED  BY <1>5, <1>6, <1>7 DEF IInv

LEMMA AppendTooLongKeeps ==
  ASSUME IInv, NEW s \in Slots, NEW layer \in Layers,
         NEW vals \in Seq(KVValue), AppendTooLong(s, layer, vals)
  PROVE  IInv' /\ UNCHANGED Ownership!ovars
<1>1. UNCHANGED <<poolVars, tableVars, entries, lru, call>>
  BY DEF AppendTooLong, cacheVars
<1>2. TypeOK' /\ CallOK' /\ LruExact'
  BY <1>1 DEF IInv, TypeOK, CallOK, LruExact, poolVars, tableVars
<1>. QED  BY <1>1, <1>2, QuietKeeps DEF IInv

LEMMA RegisterPrefixKeeps ==
  ASSUME IInv, NEW s \in Slots, NEW tokens \in Prompts, Len(tokens) <= pos[s],
         RegisterPrefix(s, tokens)
  PROVE  IInv' /\ UNCHANGED Ownership!ovars
<1>1. UNCHANGED <<poolVars, tableVars, entries, lru>>
  BY DEF RegisterPrefix
<1>2. FullBlocks(tokens) \in Nat
  BY PromptsAssumption, SizesAssumption DEF FullBlocks
<1>3. tables[s] # <<>> => 1 <= Len(tables[s])
  <2>1. tables[s] \in Seq(Blocks)
    BY DEF IInv, TypeOK
  <2>. QED  BY <2>1, EmptySeq
<1>4. TypeOK' /\ CallOK'
  BY <1>1, <1>2, <1>3
     DEF IInv, TypeOK, CallOK, RegisterPrefix, Call, Idle, poolVars, tableVars
<1>5. LruExact'
  BY <1>1 DEF IInv, LruExact
<1>. QED  BY <1>1, <1>4, <1>5, QuietKeeps DEF IInv

(* What insert() knows about the block it is at. *)
LEMMA InsertFacts ==
  ASSUME IInv, call.op = "insert"
  PROVE  /\ call \in [op : {"lookup", "insert"}, slot : Slots, tokens : Prompts,
                      next : Nat \ {0}]
         /\ call.slot \in Slots /\ call.tokens \in Prompts /\ call.next \in Nat \ {0}
         /\ call.next \in DOMAIN tables[call.slot]
         /\ tables[call.slot][call.next] \in Blocks
         /\ NextKey \in Keys /\ Len(NextKey) = call.next * BlockSize
         /\ call.next * BlockSize <= pos[call.slot]
<1>1. /\ call \in [op : {"lookup", "insert"}, slot : Slots, tokens : Prompts,
                   next : Nat \ {0}]
  BY DEF IInv, TypeOK, Idle
<1>2. call.next \in 1 .. FullBlocks(call.tokens) /\ FullBlocks(call.tokens) \in Nat
  BY <1>1, PromptsAssumption, SizesAssumption DEF IInv, CallOK, FullBlocks
<1>3. /\ NextKey \in Keys /\ Len(NextKey) = call.next * BlockSize
      /\ call.next * BlockSize <= Len(call.tokens)
  BY <1>1, <1>2, KeyLength DEF NextKey
<1>4. call.next * BlockSize <= pos[call.slot]
  <2>1. call.next * BlockSize \in Int /\ Len(call.tokens) \in Int /\ pos[call.slot] \in Int
    BY <1>1, SizesAssumption, PromptsAssumption DEF IInv, TypeOK
  <2>. QED  BY <1>3, <2>1 DEF IInv, CallOK
<1>5. call.next \in DOMAIN tables[call.slot] /\ tables[call.slot][call.next] \in Blocks
  BY <1>1, LenProperties, ElementOfSeq DEF IInv, TypeOK, CallOK
<1>. QED  BY <1>1, <1>3, <1>4, <1>5

(* insert() goes on to a block that exists, or is over. *)
LEMMA AfterInsertOK ==
  ASSUME IInv, call.op = "insert", call' = AfterInsert, UNCHANGED <<tables, pos>>
  PROVE  /\ CallOK'
         /\ \/ call' = Idle
            \/ /\ call' \in [op : {"lookup", "insert"}, slot : Slots, tokens : Prompts,
                             next : Nat \ {0}]
               /\ call'.next <= FullBlocks(call'.tokens) + 1
<1>1. call \in [op : {"lookup", "insert"}, slot : Slots, tokens : Prompts,
                next : Nat \ {0}]
  BY InsertFacts
<1>2. FullBlocks(call.tokens) \in Nat /\ Len(tables[call.slot]) \in Nat
  <2>1. tables[call.slot] \in Seq(Blocks) /\ call.tokens \in Seq(Token)
    BY <1>1, PromptsAssumption DEF IInv, TypeOK
  <2>2. FullBlocks(call.tokens) \in Nat
    BY <1>1, FullBlocksType
  <2>3. Len(tables[call.slot]) \in Nat
    BY <2>1, LenProperties
  <2>. QED  BY <2>2, <2>3
<1>3. CASE call' = Idle
  BY <1>3 DEF CallOK, Idle
<1>4. CASE /\ call' = [call EXCEPT !.next = @ + 1]
           /\ call.next < FullBlocks(call.tokens) /\ call.next < Len(tables[call.slot])
  <2>1. /\ call'.op = "insert" /\ call'.slot = call.slot /\ call'.tokens = call.tokens
        /\ call'.next = call.next + 1
        /\ call' \in [op : {"lookup", "insert"}, slot : Slots, tokens : Prompts,
                      next : Nat \ {0}]
    BY <1>1, <1>4
  <2>. QED  BY <1>1, <1>2, <1>4, <2>1 DEF CallOK, IInv
<1>. QED  BY <1>3, <1>4 DEF AfterInsert

LEMMA RenewEntryKeeps == 
  ASSUME IInv, RenewEntry
  PROVE  IInv' /\ UNCHANGED Ownership!ovars
<1>1. UNCHANGED <<poolVars, tableVars, entries>> /\ entries' = entries
  BY DEF RenewEntry
<1>2. lru' \in Seq(DOMAIN entries') /\ LruExact'
  BY <1>1, MoveToEndExact DEF RenewEntry, IInv, TypeOK
<1>3. /\ CallOK'
      /\ \/ call' = Idle
         \/ /\ call' \in [op : {"lookup", "insert"}, slot : Slots, tokens : Prompts,
                          next : Nat \ {0}]
            /\ call'.next <= FullBlocks(call'.tokens) + 1
  BY <1>1, AfterInsertOK DEF RenewEntry, tableVars
<1>4. TypeOK'
  BY <1>1, <1>2, <1>3 DEF IInv, TypeOK, Idle, poolVars, tableVars
<1>. QED  BY <1>1, <1>2, <1>3, <1>4, QuietKeeps DEF IInv

LEMMA AddEntryKeeps == ASSUME IInv, AddEntry PROVE IInv' /\ Ownership!Next
<1>. DEFINE block == tables[call.slot][call.next]
            h == <<"entry", NextKey>>
<1>1. /\ UNCHANGED <<tables, pos, kv>> /\ call.op = "insert" /\ call' = AfterInsert
      /\ NextKey \notin DOMAIN entries /\ Retain(<<block>>)
      /\ DOMAIN entries' = DOMAIN entries \cup {NextKey}
      /\ entries'[NextKey] = block
      /\ \A k \in DOMAIN entries : entries'[k] = entries[k]
      /\ lru' = Append(lru, NextKey) /\ Len(lru) < MaxEntries
  BY DEF AddEntry, tableVars
<1>2. /\ call.slot \in Slots /\ call.next \in DOMAIN tables[call.slot] /\ block \in Blocks
      /\ NextKey \in Keys /\ Len(NextKey) = call.next * BlockSize
      /\ call.next * BlockSize <= pos[call.slot]
      /\ call.next \in Nat \ {0}
  BY <1>1, InsertFacts
<1>3. ToSet(<<block>>) = {block} /\ <<block>> \in Seq(Blocks) /\ IsInjective(<<block>>)
  BY <1>2 DEF ToSet, IsInjective
<1>4. /\ CallOK'
      /\ \/ call' = Idle
         \/ /\ call' \in [op : {"lookup", "insert"}, slot : Slots, tokens : Prompts,
                          next : Nat \ {0}]
            /\ call'.next <= FullBlocks(call'.tokens) + 1
  BY <1>1, AfterInsertOK
<1>5. holders' = [b \in Blocks |-> IF b \in ToSet(<<block>>) THEN holders[b] \cup {h}
                                                             ELSE holders[b]]
  <2>1. ASSUME NEW b \in Blocks
        PROVE  holders'[b] = IF b = block THEN holders[b] \cup {h} ELSE holders[b]
    BY <1>1 DEF holders, SlotHolders, EntryHolders
  <2>. QED  BY <2>1, <1>3 DEF holders
<1>6. \A b \in ToSet(<<block>>) : h \notin holders[b]
  BY <1>1, <1>2, <1>3, HolderCases
<1>7. PoolExact' /\ HoldersFinite'
  BY <1>1, <1>3, <1>5, <1>6, ExactAfterRetain DEF IInv
<1>8. lru' \in Seq(DOMAIN entries') /\ LruExact'
  <2>1. lru \in Seq(DOMAIN entries') /\ NextKey \in DOMAIN entries'
    BY <1>1, SeqMonotonic DEF IInv, TypeOK
  <2>2. /\ lru' \in Seq(DOMAIN entries') /\ Len(lru') = Len(lru) + 1
        /\ \A i \in 1 .. Len(lru) : lru'[i] = lru[i]
        /\ lru'[Len(lru) + 1] = NextKey
    BY <1>1, <2>1, AppendProperties
  <2>3. DOMAIN lru = 1 .. Len(lru) /\ DOMAIN lru' = 1 .. Len(lru) + 1 /\ Len(lru) \in Nat
    BY <2>1, <2>2, LenProperties
  <2>4. ToSet(lru) = DOMAIN entries /\ IsInjective(lru)
    BY DEF IInv, LruExact
  <2>5. ToSet(lru') = DOMAIN entries'
    <3>1. ASSUME NEW k \in DOMAIN entries PROVE k \in ToSet(lru')
      <4>1. PICK i \in 1 .. Len(lru) : lru[i] = k
        BY <2>3, <2>4 DEF ToSet
      <4>2. lru'[i] = k /\ i \in DOMAIN lru'
        BY <4>1, <2>2, <2>3
      <4>. QED  BY <4>2 DEF ToSet
    <3>2. NextKey \in ToSet(lru')
      <4>1. Len(lru) + 1 \in DOMAIN lru'
        BY <2>3
      <4>2. lru'[Len(lru) + 1] = NextKey
        BY <2>2
      <4>. QED  BY <4>1, <4>2 DEF ToSet
    <3>3. ToSet(lru') \subseteq DOMAIN entries'
      BY <2>2, ElementOfSeq, LenProperties DEF ToSet
    <3>. QED  BY <1>1, <3>1, <3>2, <3>3
  <2>6. IsInjective(lru')
    <3>1. \A i \in 1 .. Len(lru) : lru[i] # NextKey
      BY <1>1, <2>3, <2>4 DEF ToSet
    <3>. QED  BY <3>1, <2>2, <2>3, <2>4 DEF IsInjective
  <2>7. Len(lru') <= MaxEntries
    BY <1>1, <2>2, <2>3, SizesAssumption
  <2>. QED  BY <2>2, <2>5, <2>6, <2>7 DEF LruExact
<1>9. BlockKeepsIndex'
  <2>1. \A t \in Slots : \A i \in DOMAIN tables[t] :
          tables[t][i] = block => i = call.next
    BY <1>2 DEF IInv, BlockKeepsIndex
  <2>2. \A k \in DOMAIN entries : entries[k] = block => Len(k) = Len(NextKey)
    BY <1>2 DEF IInv, BlockKeepsIndex
  <2>3. ASSUME NEW t \in Slots, NEW k \in DOMAIN entries', NEW i \in DOMAIN tables[t],
               tables[t][i] = entries'[k]
        PROVE  Len(k) = i * BlockSize
    <3>1. CASE k = NextKey
      BY <1>1, <1>2, <2>1, <2>3, <3>1
    <3>2. CASE k # NextKey
      BY <1>1, <2>3, <3>2 DEF IInv, BlockKeepsIndex
    <3>. QED  BY <3>1, <3>2
  <2>4. ASSUME NEW j \in DOMAIN entries', NEW k \in DOMAIN entries',
               entries'[j] = entries'[k]
        PROVE  Len(j) = Len(k)
    BY <1>1, <2>2, <2>4 DEF IInv, BlockKeepsIndex
  <2>. QED  BY <1>1, <2>3, <2>4 DEF IInv, BlockKeepsIndex
<1>10. SharedBelowCursor'
  <2>. SUFFICES ASSUME NEW t \in Slots, NEW i \in DOMAIN tables[t], NEW b, b = tables[t][i],
                       \/ \E k \in DOMAIN entries' : entries'[k] = b
                       \/ \E u, w \in Slots :
                            u # w /\ b \in ToSet(tables[u]) /\ b \in ToSet(tables[w])
                PROVE  i * BlockSize <= pos[t]
    BY <1>1 DEF SharedBelowCursor, Shared
  <2>1. CASE Shared(b)
    BY <2>1 DEF IInv, SharedBelowCursor
  <2>2. CASE ~Shared(b)
    <3>1. b = block
      BY <1>1, <2>2 DEF Shared
    <3>2. b \in ToSet(tables[t]) /\ b \in ToSet(tables[call.slot])
      BY <1>2, <3>1 DEF ToSet
    <3>3. t = call.slot
      BY <1>2, <2>2, <3>2 DEF Shared
    <3>4. i = call.next
      BY <1>2, <3>1 DEF IInv, BlockKeepsIndex
    <3>. QED  BY <1>2, <3>3, <3>4
  <2>. QED  BY <2>1, <2>2
<1>11. TypeOK'
  <2>1. refcount' \in [Blocks -> Nat]
    BY <1>1, <1>3, RetainType DEF IInv, TypeOK
  <2>2. UNCHANGED <<free, inUse, tables, pos, kv>>
    BY <1>1 DEF Retain
  <2>3. DOMAIN entries' \subseteq Keys /\ \A k \in DOMAIN entries' : entries'[k] \in Blocks
    BY <1>1, <1>2 DEF IInv, TypeOK
  <2>. QED  BY <1>4, <1>8, <2>1, <2>2, <2>3 DEF IInv, TypeOK, Idle
<1>12. KeysFit'
  <2>1. call.next * BlockSize \in Nat /\ pos[call.slot] \in 0..MaxSeqLen
    BY <1>2, SizesAssumption DEF IInv, TypeOK
  <2>. QED  BY <1>1, <1>2, <2>1, SizesAssumption DEF IInv, KeysFit
<1>13. Ownership!Next
  <2>1. {block} \in SUBSET Blocks /\ h \in Holder
    BY <1>2 DEF Holder
  <2>2. block \in inUse
    BY <1>1, <1>3 DEF Retain
  <2>3. \A b \in {block} : holders[b] # {} /\ h \notin holders[b]
    BY <1>2, <1>3, <1>6, <2>2 DEF IInv, PoolExact
  <2>. QED  BY <1>3, <1>5, <1>7, <2>1, <2>3, IsShare DEF IInv
<1>. QED  BY <1>4, <1>7, <1>8, <1>9, <1>10, <1>11, <1>12, <1>13 DEF IInv

(* Releasing everything one holder holds. *)
LEMMA ReleaseType ==
  ASSUME TypeOK, PoolExact, HoldersFinite, NEW B \in SUBSET Blocks, Release(B)
  PROVE  /\ free' \in [Blocks -> Nat] /\ inUse' \subseteq Blocks
         /\ refcount' \in [Blocks -> Nat]
         /\ kv' \in [Layers -> [Blocks -> [Offsets -> KVValue \cup {Uninit}]]]
<1>1. \A b \in B : refcount[b] - 1 \in Nat
  <2>. SUFFICES ASSUME NEW b \in B PROVE refcount[b] # 0 /\ refcount[b] \in Nat
    OBVIOUS
  <2>1. b \in inUse /\ holders[b] # {}
    BY DEF Release, PoolExact
  <2>2. refcount[b] = Cardinality(holders[b])
    BY DEF PoolExact
  <2>3. Cardinality(holders[b]) # 0
    BY <2>1, FS_EmptySet DEF HoldersFinite
  <2>. QED  BY <2>2, <2>3 DEF TypeOK
<1>2. free' \in [Blocks -> Nat] /\ inUse' \subseteq Blocks
  BY DEF Release, TypeOK, LastReference
<1>3. refcount' \in [Blocks -> Nat]
  BY <1>1 DEF Release, TypeOK
<1>4. kv' \in [Layers -> [Blocks -> [Offsets -> KVValue \cup {Uninit}]]]
  BY DEF Release, TypeOK
<1>. QED  BY <1>2, <1>3, <1>4

(* A full cache has an oldest entry. *)
LEMMA EvictsAnEntry ==
  ASSUME IInv, EvictOldest
  PROVE  /\ lru \in Seq(DOMAIN entries) /\ lru # <<>> /\ Len(lru) \in Nat \ {0}
         /\ DOMAIN lru = 1 .. Len(lru)
         /\ Head(lru) = lru[1] /\ Head(lru) \in DOMAIN entries
         /\ entries[Head(lru)] \in Blocks
<1>1. lru \in Seq(DOMAIN entries) /\ Len(lru) \in Nat /\ DOMAIN lru = 1 .. Len(lru)
  BY LenProperties DEF IInv, TypeOK
<1>2. Len(lru) # 0
  BY <1>1, SizesAssumption DEF EvictOldest
<1>3. lru # <<>>
  BY <1>1, <1>2, EmptySeq
<1>. QED  BY <1>1, <1>2, <1>3, HeadTailProperties DEF IInv, TypeOK

LEMMA EvictOldestKeeps == ASSUME IInv, EvictOldest PROVE IInv' /\ Ownership!Next
<1>. DEFINE old == Head(lru)
            h == <<"entry", old>>
<1>1. /\ UNCHANGED <<tables, pos, call>> /\ call.op = "insert"
      /\ Len(lru) >= MaxEntries /\ lru' = Tail(lru)
      /\ Release({entries[old]})
      /\ DOMAIN entries' = DOMAIN entries \ {old}
      /\ \A k \in DOMAIN entries \ {old} : entries'[k] = entries[k]
  BY DEF EvictOldest
<1>2. /\ lru \in Seq(DOMAIN entries) /\ lru # <<>> /\ Len(lru) \in Nat \ {0}
      /\ DOMAIN lru = 1 .. Len(lru)
      /\ ToSet(lru) = DOMAIN entries /\ IsInjective(lru) /\ Len(lru) <= MaxEntries
  BY EvictsAnEntry DEF IInv, LruExact
<1>3. old = lru[1] /\ old \in DOMAIN entries /\ entries[old] \in Blocks
  BY EvictsAnEntry
<1>4. /\ lru' \in Seq(DOMAIN entries) /\ Len(lru') = Len(lru) - 1
      /\ DOMAIN lru' = 1 .. Len(lru) - 1
      /\ \A i \in 1 .. Len(lru) - 1 : lru'[i] = lru[i + 1]
  BY <1>1, <1>2, HeadTailProperties, LenProperties
<1>5. lru' \in Seq(DOMAIN entries') /\ LruExact'
  <2>1. \A i \in 1 .. Len(lru) - 1 : lru[i + 1] \in DOMAIN entries /\ lru[i + 1] # old
    BY <1>2, <1>3 DEF IsInjective, ToSet
  <2>2. \A i \in 1 .. Len(lru) - 1 : lru'[i] \in DOMAIN entries'
    BY <1>1, <1>4, <2>1
  <2>3. lru' \in Seq(DOMAIN entries')
    BY <1>2, <1>4, <2>2, SeqFromDomain
  <2>4. ASSUME NEW k \in DOMAIN entries' PROVE k \in ToSet(lru')
    <3>1. k \in DOMAIN entries /\ k # old
      BY <1>1
    <3>2. PICK i \in 1 .. Len(lru) : lru[i] = k
      BY <3>1, <1>2 DEF ToSet
    <3>3. i - 1 \in 1 .. Len(lru) - 1 /\ lru'[i - 1] = k
      BY <3>1, <3>2, <1>2, <1>3, <1>4
    <3>. QED  BY <3>3, <1>4 DEF ToSet
  <2>5. ToSet(lru') \subseteq DOMAIN entries'
    BY <2>2, <1>4 DEF ToSet
  <2>6. IsInjective(lru')
    BY <1>2, <1>4 DEF IsInjective
  <2>7. Len(lru') <= MaxEntries
    BY <1>2, <1>4, SizesAssumption
  <2>. QED  BY <2>3, <2>4, <2>5, <2>6, <2>7 DEF LruExact
<1>6. {entries[old]} = {b \in Blocks : h \in holders[b]}
  BY <1>3, HolderCases
<1>7. holders' = [b \in Blocks |-> holders[b] \ {h}]
  <2>1. ASSUME NEW b \in Blocks PROVE holders'[b] = holders[b] \ {h}
    <3>1. \A t \in Slots : <<"slot", t>> # h
      OBVIOUS
    <3>2. SlotHolders(b)' = SlotHolders(b) /\ h \notin SlotHolders(b)
      BY <1>1 DEF SlotHolders
    <3>3. EntryHolders(b)' = EntryHolders(b) \ {h}
      BY <1>1 DEF EntryHolders
    <3>4. holders[b] = SlotHolders(b) \cup EntryHolders(b)
      BY DEF holders
    <3>5. holders'[b] = SlotHolders(b)' \cup EntryHolders(b)'
      BY DEF holders
    <3>. QED  BY <3>2, <3>3, <3>4, <3>5
  <2>. QED  BY <2>1 DEF holders
<1>8. PoolExact' /\ HoldersFinite'
  <2>1. Release({b \in Blocks : h \in holders[b]})
    BY <1>1, <1>6
  <2>. QED  BY <2>1, <1>7, ExactAfterRelease DEF IInv
<1>9. BlockKeepsIndex'
  BY <1>1 DEF IInv, BlockKeepsIndex
<1>10. SharedBelowCursor'
  <2>. SUFFICES ASSUME NEW t \in Slots, NEW i \in DOMAIN tables[t], NEW b, b = tables[t][i],
                       \/ \E k \in DOMAIN entries' : entries'[k] = b
                       \/ \E u, w \in Slots :
                            u # w /\ b \in ToSet(tables[u]) /\ b \in ToSet(tables[w])
                PROVE  i * BlockSize <= pos[t]
    BY <1>1 DEF SharedBelowCursor, Shared
  <2>1. Shared(b)
    BY <1>1 DEF Shared
  <2>. QED  BY <2>1 DEF IInv, SharedBelowCursor
<1>11. TypeOK'
  <2>1. {entries[old]} \in SUBSET Blocks
    BY <1>3
  <2>2. /\ free' \in [Blocks -> Nat] /\ inUse' \subseteq Blocks
        /\ refcount' \in [Blocks -> Nat]
        /\ kv' \in [Layers -> [Blocks -> [Offsets -> KVValue \cup {Uninit}]]]
    BY <1>1, <2>1, ReleaseType DEF IInv
  <2>. QED  BY <1>1, <1>5, <2>2 DEF IInv, TypeOK, Idle
<1>12. CallOK' /\ KeysFit'
  BY <1>1 DEF IInv, CallOK, KeysFit
<1>13. Ownership!Next
  <2>1. h \in Holder
    BY <1>3 DEF Holder, IInv, TypeOK
  <2>. QED  BY <1>7, <1>8, <2>1, IsDrop DEF IInv
<1>. QED  BY <1>5, <1>8, <1>9, <1>10, <1>11, <1>12, <1>13 DEF IInv

LEMMA ResetSlotKeeps ==
  ASSUME IInv, NEW s \in Slots, ResetSlot(s)
  PROVE  IInv' /\ Ownership!Next
<1>. DEFINE h == <<"slot", s>>
<1>1. /\ UNCHANGED <<entries, lru, call>> /\ call = Idle
      /\ Release(ToSet(tables[s])) /\ tables' = [tables EXCEPT ![s] = <<>>]
      /\ pos' = [pos EXCEPT ![s] = 0]
  BY DEF ResetSlot, Clear, cacheVars
<1>2. /\ tables'[s] = <<>> /\ DOMAIN tables'[s] = {} /\ ToSet(tables'[s]) = {}
      /\ \A t \in Slots : t # s => tables'[t] = tables[t] /\ pos'[t] = pos[t]
      /\ tables' \in [Slots -> Seq(Blocks)] /\ pos' \in [Slots -> 0..MaxSeqLen]
  BY <1>1, EmptySeq, SizesAssumption DEF IInv, TypeOK, ToSet
<1>3. ToSet(tables[s]) \subseteq Blocks
  BY ElementOfSeq, LenProperties DEF IInv, TypeOK, ToSet
<1>4. ToSet(tables[s]) = {b \in Blocks : h \in holders[b]}
  BY <1>3, HolderCases
<1>5. holders' = [b \in Blocks |-> holders[b] \ {h}]
  <2>1. ASSUME NEW b \in Blocks PROVE holders'[b] = holders[b] \ {h}
    <3>1. SlotHolders(b)' = SlotHolders(b) \ {h}
      BY <1>2 DEF SlotHolders
    <3>2. EntryHolders(b)' = EntryHolders(b) /\ h \notin EntryHolders(b)
      BY <1>1 DEF EntryHolders
    <3>3. holders[b] = SlotHolders(b) \cup EntryHolders(b)
      BY DEF holders
    <3>4. holders'[b] = SlotHolders(b)' \cup EntryHolders(b)'
      BY DEF holders
    <3>. QED  BY <3>1, <3>2, <3>3, <3>4
  <2>. QED  BY <2>1 DEF holders
<1>6. PoolExact' /\ HoldersFinite'
  <2>1. Release({b \in Blocks : h \in holders[b]})
    BY <1>1, <1>4
  <2>. QED  BY <2>1, <1>5, ExactAfterRelease DEF IInv
<1>7. BlockKeepsIndex'
  BY <1>1, <1>2 DEF IInv, BlockKeepsIndex
<1>8. SharedBelowCursor'
  <2>. SUFFICES ASSUME NEW t \in Slots, NEW i \in DOMAIN tables'[t], NEW b, b = tables'[t][i],
                       \/ \E k \in DOMAIN entries : entries[k] = b
                       \/ \E u, w \in Slots :
                            u # w /\ b \in ToSet(tables'[u]) /\ b \in ToSet(tables'[w])
                PROVE  i * BlockSize <= pos'[t]
    BY <1>1 DEF SharedBelowCursor, Shared
  <2>1. t # s /\ tables[t][i] = b /\ i \in DOMAIN tables[t] /\ pos'[t] = pos[t]
    BY <1>2
  <2>2. Shared(b)
    BY <1>2 DEF Shared
  <2>. QED  BY <2>1, <2>2 DEF IInv, SharedBelowCursor
<1>9. TypeOK'
  <2>1. /\ free' \in [Blocks -> Nat] /\ inUse' \subseteq Blocks
        /\ refcount' \in [Blocks -> Nat]
        /\ kv' \in [Layers -> [Blocks -> [Offsets -> KVValue \cup {Uninit}]]]
    BY <1>1, <1>3, ReleaseType DEF IInv
  <2>. QED  BY <1>1, <1>2, <2>1 DEF IInv, TypeOK, Idle
<1>10. CallOK' /\ LruExact' /\ KeysFit'
  BY <1>1 DEF IInv, CallOK, LruExact, Idle, KeysFit
<1>11. Ownership!Next
  <2>1. h \in Holder
    BY DEF Holder
  <2>. QED  BY <1>5, <1>6, <2>1, IsDrop DEF IInv
<1>. QED  BY <1>6, <1>7, <1>8, <1>9, <1>10, <1>11 DEF IInv

LEMMA LoadHitKeeps == ASSUME IInv, LoadHit PROVE IInv' /\ Ownership!Next
<1>. DEFINE s == call.slot
            tokens == call.tokens
            m == call.next - 1
            h == <<"slot", s>>
            q == [i \in 1..m |-> entries[Key(tokens, i)]]
<1>1. /\ call.op = "lookup" /\ m > 0 /\ tables[s] = <<>> /\ Retain(q)
      /\ tables' = [tables EXCEPT ![s] = q]
      /\ pos' = [pos EXCEPT ![s] = m * BlockSize]
      /\ call' = Idle /\ UNCHANGED <<kv, entries, lru>>
  BY DEF LoadHit, CursorAfterLoad, LookupOver, MatchedBlocks
<1>2. /\ s \in Slots /\ tokens \in Prompts /\ call.next \in Nat \ {0}
      /\ call.next <= FullBlocks(tokens) + 1 /\ FullBlocks(tokens) \in Nat
      /\ m \in Nat \ {0} /\ m <= FullBlocks(tokens)
  <2>1. /\ s \in Slots /\ tokens \in Prompts /\ call.next \in Nat \ {0}
        /\ call.next <= FullBlocks(tokens) + 1
    BY <1>1 DEF IInv, TypeOK, Idle
  <2>. QED  BY <1>1, <2>1, FullBlocksType
<1>3. \A i \in 1..m : /\ Key(tokens, i) \in DOMAIN entries
                      /\ Len(Key(tokens, i)) = i * BlockSize
                      /\ i * BlockSize <= Len(tokens)
                      /\ q[i] = entries[Key(tokens, i)]
                      /\ q[i] \in Blocks
  <2>. SUFFICES ASSUME NEW i \in 1..m
                PROVE  /\ Key(tokens, i) \in DOMAIN entries
                       /\ Len(Key(tokens, i)) = i * BlockSize
                       /\ i * BlockSize <= Len(tokens)
                       /\ entries[Key(tokens, i)] \in Blocks
    OBVIOUS
  <2>1. Key(tokens, i) \in DOMAIN entries
    BY <1>1 DEF IInv, CallOK
  <2>2. i \in 1 .. FullBlocks(tokens)
    BY <1>2
  <2>. QED  BY <2>1, <2>2, <1>2, KeyLength DEF IInv, TypeOK
<1>4. /\ q \in Seq(Blocks) /\ DOMAIN q = 1..m /\ Len(q) = m
  <2>1. q \in [1..m -> Blocks]
    BY <1>3
  <2>. HIDE DEF q
  <2>. QED  BY <2>1, <1>2
<1>5. IsInjective(q)
  <2>. SUFFICES ASSUME NEW i \in 1..m, NEW j \in 1..m, q[i] = q[j] PROVE i = j
    BY <1>4 DEF IsInjective
  <2>1. i * BlockSize = j * BlockSize
    BY <1>3 DEF IInv, BlockKeepsIndex
  <2>. QED  BY <2>1, SameEnd, SizesAssumption
<1>6. ToSet(q) = {q[i] : i \in 1..m}
  BY <1>4 DEF ToSet
<1>. HIDE DEF q
<1>7. /\ tables'[s] = q /\ \A t \in Slots : t # s => tables'[t] = tables[t]
      /\ tables' \in [Slots -> Seq(Blocks)]
      /\ ToSet(tables[s]) = {} /\ DOMAIN tables[s] = {}
      /\ pos'[s] = m * BlockSize /\ \A t \in Slots : t # s => pos'[t] = pos[t]
  BY <1>1, <1>2, <1>4 DEF IInv, TypeOK, ToSet
<1>8. m * BlockSize \in 0..MaxSeqLen
  <2>1. Key(tokens, m) \in DOMAIN entries /\ Len(Key(tokens, m)) = m * BlockSize
    BY <1>2, <1>3
  <2>. QED  BY <2>1, SizesAssumption DEF IInv, KeysFit
\* every matched block is shared already: an entry maps to it
<1>9. \A b \in ToSet(q) : b \in Blocks /\ Shared(b) /\ h \notin holders[b]
  <2>. SUFFICES ASSUME NEW i \in 1..m
                PROVE  q[i] \in Blocks /\ Shared(q[i]) /\ h \notin holders[q[i]]
    BY <1>6
  <2>1. q[i] \in Blocks /\ Shared(q[i])
    BY <1>3 DEF Shared
  <2>2. h \in holders[q[i]] => q[i] \in ToSet(tables[s])
    BY <2>1, <1>2, HolderCases
  <2>. QED  BY <2>1, <2>2, <1>7
<1>10. \A b : \A t \in Slots : t # s => (b \in ToSet(tables'[t]) <=> b \in ToSet(tables[t]))
  BY <1>7
<1>11. holders' = [b \in Blocks |-> IF b \in ToSet(q) THEN holders[b] \cup {h}
                                                      ELSE holders[b]]
  <2>1. ASSUME NEW b \in Blocks
        PROVE  holders'[b] = IF b \in ToSet(q) THEN holders[b] \cup {h} ELSE holders[b]
    <3>1. EntryHolders(b)' = EntryHolders(b)
      BY <1>1 DEF EntryHolders
    <3>2. SlotHolders(b)' = IF b \in ToSet(q) THEN SlotHolders(b) \cup {h} ELSE SlotHolders(b)
      <4>1. \A t \in Slots : b \in ToSet(tables'[t]) <=>
              IF t = s THEN b \in ToSet(q) ELSE b \in ToSet(tables[t])
        BY <1>7, <1>10
      <4>2. b \notin ToSet(tables[s])
        BY <1>7
      <4>. QED  BY <4>1, <4>2, <1>2 DEF SlotHolders
    <3>3. holders[b] = SlotHolders(b) \cup EntryHolders(b)
      BY DEF holders
    <3>4. holders'[b] = SlotHolders(b)' \cup EntryHolders(b)'
      BY DEF holders
    <3>. QED  BY <3>1, <3>2, <3>3, <3>4
  <2>. QED  BY <2>1 DEF holders
<1>12. PoolExact' /\ HoldersFinite'
  BY <1>1, <1>4, <1>5, <1>9, <1>11, ExactAfterRetain DEF IInv
<1>13. BlockKeepsIndex'
  <2>1. ASSUME NEW i \in 1..m, NEW t \in Slots, NEW j \in DOMAIN tables[t], tables[t][j] = q[i]
        PROVE  i = j
    <3>1. Len(Key(tokens, i)) = j * BlockSize
      BY <1>3, <2>1 DEF IInv, BlockKeepsIndex
    <3>2. j \in Nat
      BY LenProperties DEF IInv, TypeOK
    <3>. QED  BY <3>1, <3>2, <1>3, SameEnd, SizesAssumption
  <2>2. ASSUME NEW t \in Slots, NEW u \in Slots,
               NEW i \in DOMAIN tables'[t], NEW j \in DOMAIN tables'[u],
               tables'[t][i] = tables'[u][j]
        PROVE  i = j
    <3>1. CASE t = s /\ u = s
      BY <2>2, <3>1, <1>4, <1>5, <1>7 DEF IsInjective
    <3>2. CASE t = s /\ u # s
      <4>1. i \in 1..m /\ q[i] = tables[u][j] /\ j \in DOMAIN tables[u]
        BY <2>2, <3>2, <1>4, <1>7
      <4>. QED  BY <4>1, <2>1
    <3>3. CASE t # s /\ u = s
      <4>1. j \in 1..m /\ q[j] = tables[t][i] /\ i \in DOMAIN tables[t]
        BY <2>2, <3>3, <1>4, <1>7
      <4>. QED  BY <4>1, <2>1
    <3>4. CASE t # s /\ u # s
      BY <2>2, <3>4, <1>7 DEF IInv, BlockKeepsIndex
    <3>. QED  BY <3>1, <3>2, <3>3, <3>4
  <2>3. ASSUME NEW t \in Slots, NEW k \in DOMAIN entries, NEW i \in DOMAIN tables'[t],
               tables'[t][i] = entries[k]
        PROVE  Len(k) = i * BlockSize
    <3>1. CASE t = s
      <4>1. i \in 1..m /\ entries[Key(tokens, i)] = entries[k]
        BY <2>3, <3>1, <1>3, <1>4, <1>7
      <4>2. Key(tokens, i) \in DOMAIN entries /\ Len(Key(tokens, i)) = i * BlockSize
        BY <4>1, <1>3
      <4>. QED  BY <4>1, <4>2 DEF IInv, BlockKeepsIndex
    <3>2. CASE t # s
      <4>1. i \in DOMAIN tables[t] /\ tables[t][i] = entries[k]
        BY <2>3, <3>2, <1>7
      <4>2. BlockKeepsIndex
        BY DEF IInv
      <4>. QED  BY <4>1, <4>2 DEF BlockKeepsIndex
    <3>. QED  BY <3>1, <3>2
  <2>. QED  BY <1>1, <2>2, <2>3 DEF IInv, BlockKeepsIndex
<1>14. SharedBelowCursor'
  <2>. SUFFICES ASSUME NEW t \in Slots, NEW i \in DOMAIN tables'[t], NEW b, b = tables'[t][i],
                       \/ \E k \in DOMAIN entries : entries[k] = b
                       \/ \E u, w \in Slots :
                            u # w /\ b \in ToSet(tables'[u]) /\ b \in ToSet(tables'[w])
                PROVE  i * BlockSize <= pos'[t]
    BY <1>1 DEF SharedBelowCursor, Shared
  <2>1. CASE t = s
    <3>1. i \in 1..m
      BY <2>1, <1>4, <1>7
    <3>2. i * BlockSize <= m * BlockSize
      BY <3>1, <1>2, SizesAssumption, MultipleMonotone
    <3>. QED  BY <2>1, <3>2, <1>7
  <2>2. CASE t # s
    <3>1. /\ tables[t][i] = b /\ i \in DOMAIN tables[t] /\ pos'[t] = pos[t]
          /\ b \in ToSet(tables'[t])
      BY <2>2, <1>7 DEF ToSet
    <3>2. Shared(b)
      <4>1. CASE b \in ToSet(q)
        BY <4>1, <1>9
      <4>2. CASE b \notin ToSet(q)
        BY <4>2, <1>7, <1>10 DEF Shared
      <4>. QED  BY <4>1, <4>2
    <3>. QED  BY <3>1, <3>2 DEF IInv, SharedBelowCursor
  <2>. QED  BY <2>1, <2>2
<1>15. TypeOK'
  <2>1. refcount' \in [Blocks -> Nat] /\ UNCHANGED <<free, inUse>>
    BY <1>1, <1>4, RetainType DEF IInv, TypeOK, Retain
  <2>2. pos' \in [Slots -> 0..MaxSeqLen]
    BY <1>1, <1>2, <1>8 DEF IInv, TypeOK
  <2>. QED  BY <1>1, <1>7, <2>1, <2>2 DEF IInv, TypeOK, Idle
<1>16. CallOK' /\ LruExact' /\ KeysFit'
  BY <1>1 DEF IInv, CallOK, LruExact, Idle, KeysFit
<1>17. Ownership!Next
  <2>1. h \in Holder /\ ToSet(q) \in SUBSET Blocks
    BY <1>2, <1>9 DEF Holder
  <2>2. \A b \in ToSet(q) : holders[b] # {} /\ h \notin holders[b]
    BY <1>1, <1>9 DEF Retain, IInv, PoolExact
  <2>. QED  BY <1>11, <1>12, <2>1, <2>2, IsShare DEF IInv
<1>. QED  BY <1>12, <1>13, <1>14, <1>15, <1>16, <1>17 DEF IInv

-----------------------------------------------------------------------------
(* Every cached token has its block: what is needed for the cells a reader
   looks at to exist. *)

TablesCover == \A s \in Slots : BlocksNeeded(pos[s]) <= Len(tables[s])

LEMMA CeilingMonotone ==
  ASSUME NEW m \in Nat, NEW n \in Nat, NEW d \in Nat \ {0}, m <= n
  PROVE  /\ (m + d - 1) \div d \in Nat
         /\ (m + d - 1) \div d <= (n + d - 1) \div d
OBVIOUS

LEMMA CeilingOfMultiple ==
  ASSUME NEW m \in Nat, NEW d \in Nat \ {0}
  PROVE  (m * d + d - 1) \div d = m
OBVIOUS

(* More tokens need no fewer blocks. *)
LEMMA NeededMonotone ==
  ASSUME NEW m \in Nat, NEW n \in Nat, m <= n
  PROVE  BlocksNeeded(m) \in Nat /\ BlocksNeeded(n) \in Nat /\ BlocksNeeded(m) <= BlocksNeeded(n)
<1>1. BlockSize \in Nat \ {0}
  BY SizesAssumption
<1>2. BlocksNeeded(m) \in Nat /\ BlocksNeeded(m) <= BlocksNeeded(n)
  BY <1>1, CeilingMonotone DEF BlocksNeeded
<1>3. BlocksNeeded(n) \in Nat
  BY <1>1, CeilingMonotone, n <= n DEF BlocksNeeded
<1>. QED  BY <1>2, <1>3

(* A whole number of blocks of tokens needs just these blocks. *)
LEMMA WholeBlocks ==
  ASSUME NEW m \in Nat
  PROVE  BlocksNeeded(m * BlockSize) = m
<1>1. BlockSize \in Nat \ {0}
  BY SizesAssumption
<1>. QED  BY <1>1, CeilingOfMultiple DEF BlocksNeeded

LEMMA AppendStoredCovers ==
  ASSUME IInv, TablesCover, NEW s \in Slots, NEW layer, NEW vals \in Seq(KVValue),
         AppendStored(s, layer, vals)
  PROVE  TablesCover'
<1>. DEFINE n == Len(vals)
<1>1. PICK q \in Grants(Lacking(s, n)) : tables' = [tables EXCEPT ![s] = @ \o q]
  BY DEF AppendStored
<1>2. n \in Nat /\ pos \in [Slots -> Nat] /\ tables \in [Slots -> Seq(Blocks)]
      /\ BlockSize \in Nat \ {0}
  BY SizesAssumption DEF IInv, TypeOK
<1>3. pos' = IF layer = NumLayers - 1 THEN [pos EXCEPT ![s] = pos[s] + n] ELSE pos
  BY DEF AppendStored
<1>4. /\ Len(tables[s]) \in Nat
      /\ BlocksNeeded(pos[s] + n) \in Nat /\ BlocksNeeded(pos[s]) <= BlocksNeeded(pos[s] + n)
      /\ BlocksNeeded(pos[s]) \in Nat
  <2>1. Len(tables[s]) \in Nat
    BY <1>2, LenProperties
  <2>2. pos[s] \in Nat /\ pos[s] + n \in Nat /\ pos[s] <= pos[s] + n
    BY <1>2
  <2>. QED  BY <2>1, <2>2, NeededMonotone
<1>5. Lacking(s, n) \in Nat /\ BlocksNeeded(pos[s] + n) <= Len(tables[s]) + Lacking(s, n)
  BY <1>4 DEF Lacking
<1>6. Len(tables'[s]) = Len(tables[s]) + Lacking(s, n)
  <2>. DEFINE m == Lacking(s, n)
  <2>1. q \in [1..m -> FreeBlocks] /\ FreeBlocks \subseteq Blocks /\ m \in Nat
    BY <1>5 DEF Grants, FreeBlocks
  <2>. HIDE DEF m
  <2>2. q \in Seq(Blocks) /\ Len(q) = m
    BY <2>1
  <2>3. tables'[s] = tables[s] \o q
    BY <1>1, <1>2
  <2>4. Len(tables'[s]) = Len(tables[s]) + m
    BY <1>2, <2>2, <2>3, ConcatProperties
  <2>. QED  BY <2>4 DEF m
<1>. SUFFICES ASSUME NEW t \in Slots
              PROVE  BlocksNeeded(pos'[t]) <= Len(tables'[t])
  BY DEF TablesCover, BlocksNeeded
<1>. HIDE DEF n
<1>7. CASE t = s
  BY <1>2, <1>3, <1>4, <1>5, <1>6, <1>7
<1>8. CASE t # s
  BY <1>1, <1>2, <1>3, <1>8 DEF TablesCover
<1>. QED  BY <1>7, <1>8

LEMMA AppendExhaustedCovers ==
  ASSUME IInv, TablesCover, NEW s \in Slots, NEW layer, NEW vals,
         AppendExhausted(s, layer, vals)
  PROVE  TablesCover'
<1>. DEFINE m == Cardinality(FreeBlocks)
<1>1. PICK q \in Grants(m) : tables' = [tables EXCEPT ![s] = @ \o q]
  BY DEF AppendExhausted
<1>2. pos \in [Slots -> Nat] /\ tables \in [Slots -> Seq(Blocks)] /\ BlockSize \in Nat \ {0}
  BY SizesAssumption DEF IInv, TypeOK
<1>3. pos' = pos
  BY DEF AppendExhausted
<1>4. m \in Nat
  BY FiniteAssumption, FS_Subset, FS_CardinalityType DEF FreeBlocks
<1>5. Len(tables'[s]) >= Len(tables[s])
  <2>1. q \in [1..m -> FreeBlocks] /\ FreeBlocks \subseteq Blocks
    BY DEF Grants, FreeBlocks
  <2>. HIDE DEF m
  <2>2. q \in Seq(Blocks) /\ Len(q) \in Nat
    BY <1>4, <2>1
  <2>3. tables'[s] = tables[s] \o q
    BY <1>1, <1>2
  <2>4. Len(tables[s] \o q) = Len(tables[s]) + Len(q) /\ Len(tables[s]) \in Nat
    BY <1>2, <2>2, ConcatProperties, LenProperties
  <2>. QED  BY <2>2, <2>3, <2>4
<1>6. ASSUME NEW t \in Slots
      PROVE  Len(tables[t]) \in Nat /\ BlocksNeeded(pos[t]) \in Nat
  <2>1. pos[t] \in Nat /\ pos[t] <= pos[t] /\ tables[t] \in Seq(Blocks)
    BY <1>2
  <2>. QED  BY <2>1, NeededMonotone, LenProperties
<1>. SUFFICES ASSUME NEW t \in Slots
              PROVE  BlocksNeeded(pos[t]) <= Len(tables'[t])
  BY <1>3 DEF TablesCover, BlocksNeeded
<1>7. CASE t = s
  <2>1. Len(tables'[s]) \in Nat
    <3>1. q \in [1..m -> FreeBlocks] /\ FreeBlocks \subseteq Blocks
      BY DEF Grants, FreeBlocks
    <3>. HIDE DEF m
    <3>2. q \in Seq(Blocks)
      BY <1>4, <3>1
    <3>3. tables'[s] = tables[s] \o q
      BY <1>1, <1>2
    <3>. QED  BY <1>2, <3>2, <3>3, ConcatProperties, LenProperties
  <2>. QED  BY <1>5, <1>6, <1>7, <2>1 DEF TablesCover
<1>8. CASE t # s
  BY <1>1, <1>2, <1>8 DEF TablesCover
<1>. QED  BY <1>7, <1>8

LEMMA LoadHitCovers ==
  ASSUME IInv, TablesCover, LoadHit
  PROVE  TablesCover'
<1>. DEFINE s == call.slot
            m == call.next - 1
            q == [i \in 1..m |-> entries[Key(call.tokens, i)]]
<1>1. /\ call.op = "lookup" /\ m > 0
      /\ tables' = [tables EXCEPT ![s] = q]
      /\ pos' = [pos EXCEPT ![s] = m * BlockSize]
  BY DEF LoadHit, CursorAfterLoad, LookupOver, MatchedBlocks
<1>2. s \in Slots /\ m \in Nat
  BY <1>1 DEF IInv, TypeOK, Idle
<1>3. pos \in [Slots -> Nat] /\ tables \in [Slots -> Seq(Blocks)] /\ BlockSize \in Nat \ {0}
  BY SizesAssumption DEF IInv, TypeOK
<1>4. Len(q) = m
  <2>. HIDE DEF m
  <2>. QED  BY <1>2
<1>5. BlocksNeeded(m * BlockSize) = m
  <2>. HIDE DEF m
  <2>. QED  BY <1>2, WholeBlocks
<1>. SUFFICES ASSUME NEW t \in Slots
              PROVE  BlocksNeeded(pos'[t]) <= Len(tables'[t])
  BY DEF TablesCover, BlocksNeeded
<1>. HIDE DEF m, q
<1>6. CASE t = s
  BY <1>1, <1>2, <1>3, <1>4, <1>5, <1>6
<1>7. CASE t # s
  BY <1>1, <1>3, <1>7 DEF TablesCover
<1>. QED  BY <1>6, <1>7

LEMMA ResetSlotCovers ==
  ASSUME IInv, TablesCover, NEW s \in Slots, ResetSlot(s)
  PROVE  TablesCover'
<1>1. tables' = [tables EXCEPT ![s] = <<>>] /\ pos' = [pos EXCEPT ![s] = 0]
  BY DEF ResetSlot, Clear
<1>2. pos \in [Slots -> Nat] /\ tables \in [Slots -> Seq(Blocks)] /\ BlockSize \in Nat \ {0}
  BY SizesAssumption DEF IInv, TypeOK
<1>3. BlocksNeeded(0) = 0
  <2>1. BlocksNeeded(0 * BlockSize) = 0
    BY WholeBlocks
  <2>2. 0 * BlockSize = 0
    BY <1>2
  <2>. QED  BY <2>1, <2>2
<1>. SUFFICES ASSUME NEW t \in Slots
              PROVE  BlocksNeeded(pos'[t]) <= Len(tables'[t])
  BY DEF TablesCover, BlocksNeeded
<1>4. CASE t = s
  BY <1>1, <1>2, <1>3, <1>4
<1>5. CASE t # s
  BY <1>1, <1>2, <1>5 DEF TablesCover
<1>. QED  BY <1>4, <1>5

-----------------------------------------------------------------------------
(* The theorems. *)

(* A value that append is called with in Next. *)
LEMMA UniformValues ==
  ASSUME NEW n \in 1..MaxSeqLen, NEW v \in KVValue
  PROVE  [i \in 1..n |-> v] \in Seq(KVValue)
BY SizesAssumption

LEMMA NextKeeps ==
  ASSUME IInv, [Next]_vars
  PROVE  IInv' /\ [Ownership!Next]_(Ownership!ovars)
<1>. DEFINE Goal == IInv' /\ (Ownership!Next \/ UNCHANGED Ownership!ovars)
<1>1. ASSUME NEW s \in Slots, NEW tokens \in Prompts, TryLoadPrefix(s, tokens)
      PROVE  Goal
  BY <1>1, TryLoadPrefixKeeps
<1>2. ASSUME NEW s \in Slots, NEW tokens \in Prompts,
             Len(tokens) <= pos[s], RegisterPrefix(s, tokens)
      PROVE  Goal
  BY <1>2, RegisterPrefixKeeps
<1>3. ASSUME NEW s \in Slots, NEW layer \in Layers, NEW n \in 1..MaxSeqLen,
             NEW v \in KVValue, AppendKV(s, layer, [i \in 1..n |-> v])
      PROVE  Goal
  BY <1>3, UniformValues, AppendStoredKeeps, AppendExhaustedKeeps, AppendTooLongKeeps
     DEF AppendKV
<1>4. ASSUME NEW s \in Slots, ResetSlot(s) PROVE Goal
  BY <1>4, ResetSlotKeeps
<1>5. CASE Lookup
  BY <1>5, MatchBlockKeeps, LoadMissKeeps, LoadHitKeeps, LoadRejectedKeeps DEF Lookup
<1>6. CASE Insert
  BY <1>6, RenewEntryKeeps, EvictOldestKeeps, AddEntryKeeps DEF Insert
<1>7. CASE UNCHANGED vars
  <2>1. UNCHANGED <<poolVars, tableVars, entries, lru, call>>
    BY <1>7 DEF vars, cacheVars
  <2>2. TypeOK' /\ CallOK' /\ LruExact'
    BY <2>1 DEF IInv, TypeOK, CallOK, LruExact, poolVars, tableVars
  <2>. QED  BY <2>1, <2>2, QuietKeeps DEF IInv
<1>. QED
  <2>1. Goal
    BY <1>1, <1>2, <1>3, <1>4, <1>5, <1>6, <1>7 DEF Next
  <2>. QED  BY <2>1

THEOREM Invariance == Spec => []IInv
<1>1. Init => IInv
  BY InitEstablishes
<1>2. IInv /\ [Next]_vars => IInv'
  BY NextKeeps
<1>. QED  BY <1>1, <1>2, PTL DEF Spec

(* Every call keeps the state of the cache well formed: tables hold block
   ids, cursors stay within max_seq_len, cells hold K/V or nothing. *)
THEOREM TypeCorrect == Spec => []TypeOK
<1>1. IInv => TypeOK
  BY DEF IInv
<1>. QED  BY <1>1, Invariance, PTL

(* retain and release count holders: no block leaks, none is handed out
   while a table or a cached prefix still refers to it. *)
THEOREM PoolStaysExact == Spec => []PoolExact
<1>1. IInv => PoolExact
  BY DEF IInv
<1>. QED  BY <1>1, Invariance, PTL

(* A physical block is only ever reused at the logical index it was filled
   for, so the positions baked into its K/V stay right. *)
THEOREM BlocksStayInPlace == Spec => []BlockKeepsIndex
<1>1. IInv => BlockKeepsIndex
  BY DEF IInv
<1>. QED  BY <1>1, Invariance, PTL

(* The LRU order and the entries of the prefix cache agree, and the cache
   respects max_entries. *)
THEOREM LruStaysExact == Spec => []LruExact
<1>1. IInv => LruExact
  BY DEF IInv
<1>. QED  BY <1>1, Invariance, PTL

(* Whoever holds blocks can give them back. *)
LEMMA CleanupIsSafe == ASSUME IInv PROVE CleanupCannotRaise
<1>1. ASSUME NEW s \in Slots PROVE IsInjective(tables[s])
  BY DEF IInv, BlockKeepsIndex, IsInjective
<1>2. ASSUME NEW s \in Slots, NEW b \in ToSet(tables[s]) PROVE b \in inUse
  <2>1. b \in Blocks
    BY ElementOfSeq, LenProperties DEF IInv, TypeOK, ToSet
  <2>2. <<"slot", s>> \in holders[b]
    BY <2>1, <1>2, HolderCases
  <2>. QED  BY <2>1, <2>2 DEF IInv, PoolExact
<1>3. ASSUME NEW k \in DOMAIN entries PROVE entries[k] \in inUse
  <2>1. entries[k] \in Blocks
    BY DEF IInv, TypeOK
  <2>2. <<"entry", k>> \in holders[entries[k]]
    BY <2>1, HolderCases
  <2>. QED  BY <2>1, <2>2 DEF IInv, PoolExact
<1>. QED  BY <1>1, <1>2, <1>3 DEF CleanupCannotRaise

(* No release or free_many the cache makes can raise. *)
THEOREM CleanupNeverRaises == Spec => []CleanupCannotRaise
<1>1. IInv => CleanupCannotRaise
  BY CleanupIsSafe
<1>. QED  BY <1>1, Invariance, PTL

(* A slot never shares what lies at or above its write cursor. *)
THEOREM SharedStaysBelowCursor == Spec => []SharedBelowCursor
<1>1. IInv => SharedBelowCursor
  BY DEF IInv
<1>. QED  BY <1>1, Invariance, PTL

(* The cache implements the abstract pool of reference-counted blocks. *)
THEOREM OwnershipImplemented == Spec => ImplementsOwnership
<1>1. Init => Ownership!Init
  <2>. SUFFICES ASSUME Init PROVE Ownership!Init
    OBVIOUS
  <2>1. \A b \in Blocks : holders[b] = {}
    BY DEF Init, holders, SlotHolders, EntryHolders, ToSet
  <2>2. holders = [b \in Blocks |-> {}]
    BY <2>1 DEF holders
  <2>3. FreeBlocks = Blocks
    BY DEF Init, FreeBlocks
  <2>. QED  BY <2>2, <2>3 DEF Ownership!Init
<1>2. IInv /\ [Next]_vars => [Ownership!Next]_(Ownership!ovars)
  BY NextKeeps
<1>. QED  BY <1>1, <1>2, Invariance, PTL DEF Spec, ImplementsOwnership, Ownership!Spec

(* The cells append writes belong to blocks that end above the cursor. *)
LEMMA WrittenAboveCursor ==
  ASSUME IInv, NEW s \in Slots, NEW vals \in Seq(KVValue), NEW q \in Seq(Blocks),
         BlocksNeeded(pos[s] + Len(vals)) <= Len(tables[s] \o q),
         NEW b \in Blocks, NEW o,
         Written(tables[s] \o q, pos[s], Len(vals), b, o) # {}
  PROVE  \/ b \in ToSet(q)
         \/ \E j \in DOMAIN tables[s] : tables[s][j] = b /\ pos[s] < j * BlockSize
<1>. DEFINE t == tables[s] \o q
            p == pos[s]
            n == Len(vals)
<1>1. /\ p \in Nat /\ n \in Nat /\ tables[s] \in Seq(Blocks) /\ t \in Seq(Blocks)
      /\ BlockSize \in Nat \ {0}
  BY SizesAssumption DEF IInv, TypeOK
<1>2. PICK i \in 1..n : Resolve(t, p + i - 1) = <<b, o>>
  BY DEF Written
<1>. DEFINE c == p + i - 1
            j == (c \div BlockSize) + 1
<1>3. c \in 0 .. (p + n) - 1 /\ c \in Nat /\ p <= c /\ p + n \in Nat
  BY <1>1
<1>4. j \in 1 .. BlocksNeeded(p + n) /\ BlocksNeeded(p + n) \in Nat
  <2>. HIDE DEF c
  <2>1. j \in 1 .. ((p + n + BlockSize - 1) \div BlockSize)
    BY <1>1, <1>3, BlockOfToken
  <2>2. (p + n + BlockSize - 1) \div BlockSize \in Nat
    <3>1. p + n + BlockSize - 1 \in Nat
      BY <1>1
    <3>. QED  BY <1>1, <3>1, DivType
  <2>. QED  BY <2>1, <2>2 DEF BlocksNeeded
<1>5. t[j] = b
  BY <1>2 DEF Resolve
<1>6. j \in 1 .. Len(t) /\ j \in Nat
  <2>. HIDE DEF j, t
  <2>1. Len(t) \in Nat
    BY <1>1, LenProperties
  <2>. QED  BY <1>4, <2>1 DEF t
<1>7. CASE j <= Len(tables[s])
  <2>1. j \in DOMAIN tables[s] /\ t[j] = tables[s][j]
    BY <1>1, <1>6, <1>7, ConcatProperties, LenProperties
  <2>2. ~(j * BlockSize <= p)
    <3>1. ASSUME j * BlockSize <= p PROVE j # (c \div BlockSize) + 1
      <4>. HIDE DEF c, j
      <4>. QED  BY <1>1, <1>3, <1>6, <3>1, BelowCursor
    <3>. QED  BY <3>1
  <2>3. j * BlockSize \in Nat
    <3>. HIDE DEF j
    <3>. QED  BY <1>1, <1>6
  <2>. HIDE DEF j
  <2>. QED  BY <1>1, <1>5, <2>1, <2>2, <2>3
<1>8. CASE j > Len(tables[s])
  <2>. HIDE DEF j
  <2>1. /\ Len(tables[s]) \in Nat /\ Len(q) \in Nat /\ DOMAIN q = 1 .. Len(q)
        /\ Len(t) = Len(tables[s]) + Len(q)
        /\ t[j] = q[j - Len(tables[s])]
    BY <1>1, <1>6, <1>8, ConcatProperties, LenProperties
  <2>2. j - Len(tables[s]) \in 1 .. Len(q)
    BY <1>6, <1>8, <2>1
  <2>. QED  BY <1>5, <2>1, <2>2 DEF ToSet
<1>. QED
  <2>. HIDE DEF j
  <2>1. Len(tables[s]) \in Nat
    BY <1>1, LenProperties
  <2>. QED  BY <1>6, <1>7, <1>8, <2>1

LEMMA AppendSparesShared ==
  ASSUME IInv, NEW s \in Slots, NEW layer \in Layers, NEW vals \in Seq(KVValue),
         AppendStored(s, layer, vals), NEW b \in Blocks, Shared(b), NEW l \in Layers
  PROVE  kv'[l][b] = kv[l][b]
<1>. DEFINE n == Len(vals)
            p == pos[s]
<1>1. PICK q \in Grants(Lacking(s, n)) :
        kv' = [kv EXCEPT ![layer] = [c \in Blocks |-> [o \in Offsets |->
                IF Written(tables[s] \o q, p, n, c, o) = {} THEN kv[layer][c][o]
                ELSE vals[CHOOSE i \in Written(tables[s] \o q, p, n, c, o) : TRUE]]]]
  BY DEF AppendStored
<1>2. /\ n \in Nat /\ p \in Nat /\ tables[s] \in Seq(Blocks)
      /\ BlocksNeeded(p + n) \in Int
  BY SizesAssumption DEF IInv, TypeOK, BlocksNeeded
<1>3. Lacking(s, n) \in Nat /\ BlocksNeeded(p + n) <= Len(tables[s]) + Lacking(s, n)
  <2>1. Len(tables[s]) \in Nat
    BY <1>2, LenProperties
  <2>. QED  BY <1>2, <2>1 DEF Lacking
<1>4. /\ q \in Seq(Blocks) /\ Len(q) = Lacking(s, n) /\ ToSet(q) \subseteq FreeBlocks
  <2>1. q \in [1 .. Lacking(s, n) -> FreeBlocks] /\ FreeBlocks \subseteq Blocks
    BY DEF Grants, FreeBlocks
  <2>. HIDE DEF n
  <2>. QED  BY <1>3, <2>1 DEF ToSet
<1>5. BlocksNeeded(p + n) <= Len(tables[s] \o q)
  BY <1>2, <1>3, <1>4, ConcatProperties
<1>6. b \notin ToSet(q)
  BY <1>4, FreeMeansUnheld DEF IInv, Shared, ToSet
<1>7. ASSUME NEW o \in Offsets PROVE Written(tables[s] \o q, p, n, b, o) = {}
  <2>1. ASSUME NEW j \in DOMAIN tables[s], tables[s][j] = b, p < j * BlockSize
        PROVE  FALSE
    <3>1. j * BlockSize <= p
      BY <2>1 DEF IInv, SharedBelowCursor
    <3>2. j * BlockSize \in Int
      BY <1>2, SizesAssumption, LenProperties
    <3>. QED  BY <2>1, <3>1, <3>2, <1>2
  <2>. QED  BY <1>4, <1>5, <1>6, <2>1, WrittenAboveCursor
<1>8. kv[layer][b] = [o \in Offsets |-> kv[layer][b][o]]
  BY DEF IInv, TypeOK
<1>9. kv'[layer][b] = [o \in Offsets |-> kv[layer][b][o]]
  BY <1>1, <1>7 DEF IInv, TypeOK
<1>. QED  BY <1>1, <1>8, <1>9 DEF IInv, TypeOK

(* An append never touches a block another reader may see. *)
THEOREM SharedIsNeverWritten == Spec => SharedNotWritten
<1>. DEFINE Spared == \A b \in Blocks : Shared(b) /\ b \in inUse' =>
                        \A l \in Layers : kv'[l][b] = kv[l][b]
<1>1. ASSUME IInv, Next PROVE Spared
  <2>. SUFFICES ASSUME NEW b \in Blocks, Shared(b), b \in inUse', NEW l \in Layers
                PROVE  kv'[l][b] = kv[l][b]
    OBVIOUS
  <2>1. CASE kv' = kv
    BY <2>1
  <2>2. ASSUME NEW B \in SUBSET Blocks, Release(B) PROVE kv'[l][b] = kv[l][b]
    BY <2>2 DEF Release
  <2>3. ASSUME NEW s \in Slots, NEW layer \in Layers, NEW n \in 1..MaxSeqLen,
               NEW v \in KVValue, AppendKV(s, layer, [i \in 1..n |-> v])
        PROVE  kv'[l][b] = kv[l][b]
    <3>. DEFINE vals == [i \in 1..n |-> v]
    <3>1. vals \in Seq(KVValue)
      BY UniformValues
    <3>. HIDE DEF vals
    <3>2. CASE AppendStored(s, layer, vals)
      BY <1>1, <3>1, <3>2, AppendSparesShared
    <3>3. CASE AppendExhausted(s, layer, vals) \/ AppendTooLong(s, layer, vals)
      BY <2>1, <3>3 DEF AppendExhausted, AppendTooLong, tableVars
    <3>. QED  BY <2>3, <3>2, <3>3 DEF AppendKV, vals
  <2>4. ASSUME NEW s \in Slots, ResetSlot(s) PROVE kv'[l][b] = kv[l][b]
    <3>1. ToSet(tables[s]) \in SUBSET Blocks
      BY <1>1, ElementOfSeq, LenProperties DEF IInv, TypeOK, ToSet
    <3>. QED  BY <2>2, <2>4, <3>1 DEF ResetSlot, Clear
  <2>5. CASE EvictOldest
    <3>1. entries[Head(lru)] \in Blocks
      BY <1>1, <2>5, EvictsAnEntry
    <3>. QED  BY <2>2, <2>5, <3>1 DEF EvictOldest
  <2>6. CASE Lookup \/ RenewEntry \/ AddEntry
    BY <2>1, <2>6 DEF Lookup, MatchBlock, LoadMiss, LoadHit, LoadRejected, RenewEntry,
                      AddEntry, tableVars
  <2>7. ASSUME NEW s \in Slots, NEW tokens \in Prompts,
               TryLoadPrefix(s, tokens) \/ RegisterPrefix(s, tokens)
        PROVE  kv'[l][b] = kv[l][b]
    BY <2>1, <2>7 DEF TryLoadPrefix, RegisterPrefix, tableVars
  <2>. QED  BY <1>1, <2>3, <2>4, <2>5, <2>6, <2>7 DEF Next, Insert
<1>2. ASSUME UNCHANGED vars PROVE Spared
  BY <1>2 DEF vars, tableVars
<1>3. IInv /\ [Next]_vars => [Spared]_vars
  BY <1>1, <1>2
<1>. QED  BY <1>3, Invariance, PTL DEF Spec, SharedNotWritten

-----------------------------------------------------------------------------
(* What a reader finds in the cells.  Seen is the content of the cell that
   token p of a slot resolves to; a slot is intact when its blocks stay in
   place with what they hold. *)

Seen(l, s, p) == kv[l][tables[s][(p \div BlockSize) + 1]][p % BlockSize]

Intact(s) ==
  \A i \in DOMAIN tables[s] :
    /\ i \in DOMAIN tables'[s] /\ tables'[s][i] = tables[s][i]
    /\ \A l \in Layers : kv'[l][tables[s][i]] = kv[l][tables[s][i]]

EntriesIntact ==
  \A k \in DOMAIN entries : \A l \in Layers : kv'[l][entries[k]] = kv[l][entries[k]]

(* A token is found from its block and its place in it. *)
LEMMA SameToken ==
  ASSUME NEW p \in Nat, NEW q \in Nat, NEW d \in Nat \ {0},
         p \div d = q \div d, p % d = q % d
  PROVE  p = q
OBVIOUS

LEMMA OffsetInBlock ==
  ASSUME NEW p \in Nat
  PROVE  p % BlockSize \in Offsets /\ p \div BlockSize \in Nat
<1>1. BlockSize \in Nat \ {0}
  BY SizesAssumption
<1>2. p % BlockSize \in 0 .. BlockSize - 1
  BY <1>1
<1>3. p \div BlockSize \in Nat
  BY <1>1, DivType
<1>. QED  BY <1>2, <1>3 DEF Offsets

LEMMA CellOfToken ==
  ASSUME NEW t \in Seq(Blocks), NEW n \in Nat, BlocksNeeded(n) <= Len(t),
         NEW p \in 0 .. n - 1
  PROVE  (p \div BlockSize) + 1 \in DOMAIN t /\ p % BlockSize \in Offsets
<1>1. BlockSize \in Nat \ {0} /\ p \in Nat
  BY SizesAssumption
<1>2. (p \div BlockSize) + 1 \in 1 .. ((n + BlockSize - 1) \div BlockSize)
  BY <1>1, BlockOfToken
<1>3. n + BlockSize - 1 \in Nat
  BY <1>1
<1>4. (n + BlockSize - 1) \div BlockSize \in Nat
  BY <1>1, <1>3, DivType
<1>5. DOMAIN t = 1 .. Len(t) /\ Len(t) \in Nat
  BY LenProperties
<1>. DEFINE i == (p \div BlockSize) + 1
            m == (n + BlockSize - 1) \div BlockSize
<1>6. m <= Len(t)
  BY DEF BlocksNeeded
<1>7. i \in 1 .. m /\ m \in Nat
  BY <1>2, <1>4
<1>8. i \in DOMAIN t
  <2>. HIDE DEF i, m
  <2>. QED  BY <1>5, <1>6, <1>7
<1>. QED  BY <1>1, <1>8, OffsetInBlock

(* An intact slot shows what it showed. *)
LEMMA IntactSeen ==
  ASSUME NEW s \in Slots, Intact(s), NEW l \in Layers, NEW p,
         (p \div BlockSize) + 1 \in DOMAIN tables[s]
  PROVE  Seen(l, s, p)' = Seen(l, s, p)
BY DEF Intact, Seen

(* The tables and cells that append leaves. *)
LEMMA AppendShape ==
  ASSUME IInv, NEW s \in Slots, NEW layer \in Layers, NEW vals \in Seq(KVValue),
         AppendStored(s, layer, vals)
  PROVE  \E q \in Seq(Blocks) :
           /\ ToSet(q) \subseteq FreeBlocks
           /\ tables' = [tables EXCEPT ![s] = tables[s] \o q]
           /\ kv' = [kv EXCEPT ![layer] = [c \in Blocks |-> [o \in Offsets |->
                       IF Written(tables[s] \o q, pos[s], Len(vals), c, o) = {}
                       THEN kv[layer][c][o]
                       ELSE vals[CHOOSE i \in Written(tables[s] \o q, pos[s], Len(vals), c, o) : TRUE]]]]
           /\ BlocksNeeded(pos[s] + Len(vals)) <= Len(tables[s] \o q)
<1>. DEFINE n == Len(vals)
            p == pos[s]
<1>1. PICK q \in Grants(Lacking(s, n)) :
        /\ tables' = [tables EXCEPT ![s] = tables[s] \o q]
        /\ kv' = [kv EXCEPT ![layer] = [c \in Blocks |-> [o \in Offsets |->
                IF Written(tables[s] \o q, p, n, c, o) = {} THEN kv[layer][c][o]
                ELSE vals[CHOOSE i \in Written(tables[s] \o q, p, n, c, o) : TRUE]]]]
  BY DEF AppendStored
<1>2. /\ n \in Nat /\ p \in Nat /\ tables[s] \in Seq(Blocks)
      /\ BlocksNeeded(p + n) \in Int
  BY SizesAssumption DEF IInv, TypeOK, BlocksNeeded
<1>3. Lacking(s, n) \in Nat /\ BlocksNeeded(p + n) <= Len(tables[s]) + Lacking(s, n)
  <2>1. Len(tables[s]) \in Nat
    BY <1>2, LenProperties
  <2>. QED  BY <1>2, <2>1 DEF Lacking
<1>4. /\ q \in Seq(Blocks) /\ Len(q) = Lacking(s, n) /\ ToSet(q) \subseteq FreeBlocks
  <2>1. q \in [1 .. Lacking(s, n) -> FreeBlocks] /\ FreeBlocks \subseteq Blocks
    BY DEF Grants, FreeBlocks
  <2>. HIDE DEF n
  <2>. QED  BY <1>3, <2>1 DEF ToSet
<1>5. BlocksNeeded(p + n) <= Len(tables[s] \o q)
  BY <1>2, <1>3, <1>4, ConcatProperties
<1>. QED  BY <1>1, <1>4, <1>5

(* An append leaves the other slots and the entries as they are. *)
LEMMA AppendStoredOthers ==
  ASSUME IInv, NEW s \in Slots, NEW layer \in Layers, NEW vals \in Seq(KVValue),
         AppendStored(s, layer, vals)
  PROVE  /\ EntriesIntact
         /\ \A t \in Slots \ {s} : Intact(t) /\ tables'[t] = tables[t]
<1>1. PICK q \in Seq(Blocks) :
           /\ ToSet(q) \subseteq FreeBlocks
           /\ tables' = [tables EXCEPT ![s] = tables[s] \o q]
           /\ kv' = [kv EXCEPT ![layer] = [c \in Blocks |-> [o \in Offsets |->
                       IF Written(tables[s] \o q, pos[s], Len(vals), c, o) = {}
                       THEN kv[layer][c][o]
                       ELSE vals[CHOOSE i \in Written(tables[s] \o q, pos[s], Len(vals), c, o) : TRUE]]]]
           /\ BlocksNeeded(pos[s] + Len(vals)) <= Len(tables[s] \o q)
  BY AppendShape
<1>2. EntriesIntact
  <2>1. ASSUME NEW k \in DOMAIN entries, NEW l \in Layers
        PROVE  kv'[l][entries[k]] = kv[l][entries[k]]
    <3>1. entries[k] \in Blocks /\ Shared(entries[k])
      BY DEF IInv, TypeOK, Shared
    <3>. QED  BY <3>1, AppendSparesShared
  <2>. QED  BY <2>1 DEF EntriesIntact
<1>3. ASSUME NEW t \in Slots \ {s} PROVE Intact(t) /\ tables'[t] = tables[t]
  <2>1. tables'[t] = tables[t] /\ tables[t] \in Seq(Blocks) /\ tables[s] \in Seq(Blocks)
    BY <1>1 DEF IInv, TypeOK
  <2>2. ASSUME NEW i \in DOMAIN tables[t], NEW l \in Layers
        PROVE  kv'[l][tables[t][i]] = kv[l][tables[t][i]]
    <3>. DEFINE b == tables[t][i]
    <3>1. b \in Blocks
      BY <2>1, ElementOfSeq, LenProperties
    <3>2. CASE b \in ToSet(tables[s])
      <4>1. b \in ToSet(tables[t])
        BY DEF ToSet
      <4>2. Shared(b)
        BY <3>2, <4>1 DEF Shared
      <4>. QED  BY <3>1, <4>2, AppendSparesShared
    <3>3. CASE b \notin ToSet(tables[s])
      <4>1. b \notin ToSet(q)
        BY <1>1, FreeMeansUnheld DEF IInv
      <4>2. ASSUME NEW o \in Offsets
            PROVE  Written(tables[s] \o q, pos[s], Len(vals), b, o) = {}
        <5>1. \A j \in DOMAIN tables[s] : tables[s][j] # b
          BY <3>3 DEF ToSet
        <5>. HIDE DEF b
        <5>. QED  BY <1>1, <3>1, <4>1, <5>1, WrittenAboveCursor
      <4>. HIDE DEF b
      <4>3. kv[layer][b] = [o \in Offsets |-> kv[layer][b][o]]
        BY <3>1 DEF IInv, TypeOK
      <4>4. kv'[layer][b] = [o \in Offsets |-> kv[layer][b][o]]
        BY <1>1, <3>1, <4>2 DEF IInv, TypeOK
      <4>5. l # layer => kv'[l] = kv[l]
        BY <1>1 DEF IInv, TypeOK
      <4>6. kv'[l][b] = kv[l][b]
        BY <4>3, <4>4, <4>5
      <4>. QED  BY <4>6 DEF b
    <3>. QED  BY <3>2, <3>3
  <2>. QED  BY <2>1, <2>2 DEF Intact
<1>. QED  BY <1>2, <1>3

(* Two tokens of a sequence that resolve to one cell are the same token. *)
LEMMA CellsApart ==
  ASSUME NEW t \in Seq(Blocks), IsInjective(t), NEW p \in Nat, NEW q \in Nat,
         (p \div BlockSize) + 1 \in DOMAIN t, (q \div BlockSize) + 1 \in DOMAIN t,
         Resolve(t, p) = Resolve(t, q)
  PROVE  p = q
<1>1. BlockSize \in Nat \ {0}
  BY SizesAssumption
<1>. DEFINE a == p \div BlockSize
            b == q \div BlockSize
<1>2. a \in Nat /\ b \in Nat
  BY OffsetInBlock
<1>3. t[a + 1] = t[b + 1] /\ p % BlockSize = q % BlockSize
  BY DEF Resolve
<1>4. a + 1 = b + 1
  BY <1>3 DEF IsInjective
<1>5. a = b
  <2>. HIDE DEF a, b
  <2>. QED  BY <1>2, <1>4
<1>. QED  BY <1>1, <1>3, <1>5, SameToken DEF a, b

(* An append leaves the slot's cells below its cursor as they are, and those
   of the other layers; in its own layer the values follow each other from the
   cursor on. *)
LEMMA AppendStoredOwn ==
  ASSUME IInv, IInv', TablesCover, NEW s \in Slots, NEW layer \in Layers,
         NEW vals \in Seq(KVValue), AppendStored(s, layer, vals)
  PROVE  /\ BlocksNeeded(pos[s] + Len(vals)) <= Len(tables'[s])
         /\ \A i \in DOMAIN tables[s] : i \in DOMAIN tables'[s] /\ tables'[s][i] = tables[s][i]
         /\ \A l \in Layers, c \in 0 .. pos[s] - 1 : Seen(l, s, c)' = Seen(l, s, c)
         /\ \A l \in Layers \ {layer}, c \in Nat :
              (c \div BlockSize) + 1 \in DOMAIN tables[s] => Seen(l, s, c)' = Seen(l, s, c)
         /\ \A i \in 1..Len(vals), c \in Nat :
              c = pos[s] + i - 1 => Seen(layer, s, c)' = vals[i]
<1>. DEFINE n == Len(vals)
            p == pos[s]
<1>1. PICK q \in Seq(Blocks) :
           /\ ToSet(q) \subseteq FreeBlocks
           /\ tables' = [tables EXCEPT ![s] = tables[s] \o q]
           /\ kv' = [kv EXCEPT ![layer] = [c \in Blocks |-> [o \in Offsets |->
                       IF Written(tables[s] \o q, pos[s], Len(vals), c, o) = {}
                       THEN kv[layer][c][o]
                       ELSE vals[CHOOSE i \in Written(tables[s] \o q, pos[s], Len(vals), c, o) : TRUE]]]]
           /\ BlocksNeeded(pos[s] + Len(vals)) <= Len(tables[s] \o q)
  BY AppendShape
<1>. DEFINE t == tables[s] \o q
<1>2. /\ p \in Nat /\ n \in Nat /\ tables[s] \in Seq(Blocks) /\ t \in Seq(Blocks)
      /\ tables'[s] = t
  BY <1>1 DEF IInv, TypeOK
<1>3. BlocksNeeded(p + n) <= Len(tables'[s])
  BY <1>1, <1>2
<1>4. \A i \in DOMAIN tables[s] : i \in DOMAIN t /\ t[i] = tables[s][i]
  <2>1. /\ DOMAIN tables[s] = 1..Len(tables[s]) /\ Len(tables[s]) \in Nat
        /\ DOMAIN t = 1..Len(t) /\ Len(t) = Len(tables[s]) + Len(q) /\ Len(q) \in Nat
    BY <1>2, LenProperties, ConcatProperties
  <2>2. \A i \in 1..Len(tables[s]) : t[i] = tables[s][i]
    BY <1>2, ConcatProperties
  <2>. HIDE DEF t
  <2>. QED  BY <2>1, <2>2
<1>5. IsInjective(t)
  <2>1. BlockKeepsIndex'
    BY DEF IInv
  <2>2. \A i, j \in DOMAIN tables'[s] : tables'[s][i] = tables'[s][j] => i = j
    BY <2>1 DEF BlockKeepsIndex
  <2>. QED  BY <1>2, <2>2 DEF IsInjective
<1>6. ASSUME NEW c \in 0 .. (p + n) - 1
      PROVE  /\ (c \div BlockSize) + 1 \in DOMAIN t /\ c % BlockSize \in Offsets /\ c \in Nat
             /\ t[(c \div BlockSize) + 1] \in Blocks
  <2>1. p + n \in Nat /\ c \in Nat /\ BlocksNeeded(p + n) <= Len(t)
    BY <1>2, <1>3
  <2>. HIDE DEF p, n, t
  <2>2. (c \div BlockSize) + 1 \in DOMAIN t /\ c % BlockSize \in Offsets
    BY <1>2, <2>1, CellOfToken
  <2>3. t[(c \div BlockSize) + 1] \in Blocks
    BY <1>2, <2>2, ElementOfSeq, LenProperties
  <2>. QED  BY <2>1, <2>2, <2>3
<1>7. ASSUME NEW l \in Layers, NEW c \in 0 .. p - 1
      PROVE  Seen(l, s, c)' = Seen(l, s, c)
  <2>. DEFINE i == (c \div BlockSize) + 1
              o == c % BlockSize
  <2>1. c \in 0 .. (p + n) - 1 /\ c \in Nat
    BY <1>2
  <2>2. i \in DOMAIN tables[s] /\ o \in Offsets
    BY <1>2, CellOfToken DEF IInv, TablesCover
  <2>3. t[i] = tables[s][i] /\ t[i] \in Blocks
    BY <1>4, <1>6, <2>1, <2>2
  <2>4. Written(t, p, n, t[i], o) = {}
    <3>1. ASSUME NEW j \in 1..n, Resolve(t, p + j - 1) = <<t[i], o>>
          PROVE  FALSE
      <4>1. p + j - 1 \in 0 .. (p + n) - 1 /\ p + j - 1 \in Nat /\ p + j - 1 # c
        BY <1>2
      <4>2. Resolve(t, c) = <<t[i], o>>
        BY DEF Resolve
      <4>. DEFINE d == p + j - 1
      <4>3. d \in 0 .. (p + n) - 1 /\ d \in Nat /\ d # c /\ Resolve(t, d) = Resolve(t, c)
        BY <3>1, <4>1, <4>2
      <4>. HIDE DEF d, t, p, n
      <4>4. (d \div BlockSize) + 1 \in DOMAIN t /\ (c \div BlockSize) + 1 \in DOMAIN t
        BY <1>6, <2>1, <4>3
      <4>. QED  BY <1>2, <1>5, <2>1, <4>3, <4>4, CellsApart
    <3>. QED  BY <3>1 DEF Written
  <2>5. kv'[l][t[i]][o] = kv[l][t[i]][o]
    <3>. HIDE DEF t, p, n, i, o
    <3>1. l # layer => kv'[l] = kv[l]
      BY <1>1 DEF IInv, TypeOK
    <3>2. kv'[layer][t[i]][o] = kv[layer][t[i]][o]
      BY <1>1, <2>2, <2>3, <2>4 DEF IInv, TypeOK, t, p, n
    <3>. QED  BY <3>1, <3>2
  <2>. QED  BY <1>2, <2>3, <2>5 DEF Seen
<1>8. ASSUME NEW l \in Layers \ {layer}, NEW c \in Nat, (c \div BlockSize) + 1 \in DOMAIN tables[s]
      PROVE  Seen(l, s, c)' = Seen(l, s, c)
  <2>1. kv'[l] = kv[l]
    BY <1>1 DEF IInv, TypeOK
  <2>. QED  BY <1>2, <1>4, <1>8, <2>1 DEF Seen
<1>9. ASSUME NEW i \in 1..n, NEW c \in Nat, c = p + i - 1
      PROVE  Seen(layer, s, c)' = vals[i]
  <2>. DEFINE b == t[(c \div BlockSize) + 1]
              o == c % BlockSize
  <2>1. c \in 0 .. (p + n) - 1
    BY <1>2, <1>9
  <2>2. b \in Blocks /\ o \in Offsets /\ (c \div BlockSize) + 1 \in DOMAIN t
    <3>. HIDE DEF t, p, n
    <3>. QED  BY <1>6, <2>1
  <2>3. i \in Written(t, p, n, b, o)
    BY <1>9 DEF Written, Resolve
  <2>4. ASSUME NEW j \in Written(t, p, n, b, o) PROVE j = i
    <3>. DEFINE d == p + j - 1
    <3>1. j \in 1..n /\ Resolve(t, d) = <<b, o>>
      BY DEF Written
    <3>2. d \in 0 .. (p + n) - 1 /\ d \in Nat
      BY <1>2, <3>1
    <3>3. Resolve(t, d) = Resolve(t, c)
      BY <3>1 DEF Resolve
    <3>4. d = c
      <4>. HIDE DEF d, t, p, n
      <4>1. (d \div BlockSize) + 1 \in DOMAIN t
        BY <1>6, <3>2
      <4>. QED  BY <1>2, <1>5, <2>1, <2>2, <3>2, <3>3, <4>1, CellsApart
    <3>. QED  BY <1>2, <1>9, <3>1, <3>4
  <2>5. (CHOOSE j \in Written(t, p, n, b, o) : TRUE) = i
    <3>. HIDE DEF t, p, n, b, o
    <3>. QED  BY <2>3, <2>4
  <2>6. kv'[layer][b][o] = vals[i]
    <3>. HIDE DEF b, o
    <3>. QED  BY <1>1, <2>2, <2>3, <2>5 DEF IInv, TypeOK, t, p, n
  <2>. QED  BY <1>2, <2>6 DEF Seen
<1>. QED  BY <1>2, <1>3, <1>4, <1>7, <1>8, <1>9

(* An append that finds the pool dry only adds blocks to its own table. *)
LEMMA AppendExhaustedCells ==
  ASSUME IInv, NEW s \in Slots, NEW layer, NEW vals, AppendExhausted(s, layer, vals)
  PROVE  /\ EntriesIntact
         /\ \A t \in Slots : Intact(t)
         /\ \A t \in Slots \ {s} : tables'[t] = tables[t]
<1>. DEFINE m == Cardinality(FreeBlocks)
<1>1. PICK q \in Grants(m) : tables' = [tables EXCEPT ![s] = tables[s] \o q]
  BY DEF AppendExhausted
<1>2. kv' = kv
  BY DEF AppendExhausted
<1>3. IsFiniteSet(FreeBlocks)
  BY FiniteAssumption, FS_Subset DEF FreeBlocks
<1>4. m \in Nat
  BY <1>3, FS_CardinalityType
<1>5. q \in Seq(Blocks)
  <2>1. q \in [1 .. m -> FreeBlocks] /\ FreeBlocks \subseteq Blocks
    BY DEF Grants, FreeBlocks
  <2>. HIDE DEF m
  <2>. QED  BY <1>4, <2>1
<1>6. tables \in [Slots -> Seq(Blocks)]
  BY DEF IInv, TypeOK
<1>7. \A i \in DOMAIN tables[s] : i \in DOMAIN (tables[s] \o q) /\ (tables[s] \o q)[i] = tables[s][i]
  <2>. DEFINE t == tables[s] \o q
  <2>1. tables[s] \in Seq(Blocks)
    BY <1>6
  <2>2. /\ DOMAIN tables[s] = 1..Len(tables[s]) /\ Len(tables[s]) \in Nat
        /\ DOMAIN t = 1..Len(t) /\ Len(t) = Len(tables[s]) + Len(q) /\ Len(q) \in Nat
    BY <1>5, <2>1, LenProperties, ConcatProperties
  <2>3. \A i \in 1..Len(tables[s]) : t[i] = tables[s][i]
    BY <1>5, <2>1, ConcatProperties
  <2>. HIDE DEF t
  <2>4. \A i \in DOMAIN tables[s] : i \in DOMAIN t /\ t[i] = tables[s][i]
    BY <2>2, <2>3
  <2>. QED  BY <2>4 DEF t
<1>8. \A t \in Slots \ {s} : tables'[t] = tables[t]
  BY <1>1, <1>6
<1>9. tables'[s] = tables[s] \o q
  BY <1>1, <1>6
<1>. QED  BY <1>2, <1>7, <1>8, <1>9 DEF Intact, EntriesIntact

(* A block that someone else holds too is not cleared when it is let go. *)
LEMMA ReleaseSparesHeld ==
  ASSUME IInv, NEW B \in SUBSET Blocks, Release(B), NEW b \in Blocks,
         NEW g \in holders[b], NEW h \in holders[b], g # h, NEW l \in Layers
  PROVE  kv'[l][b] = kv[l][b]
<1>1. IsFiniteSet(holders[b]) /\ refcount[b] = Cardinality(holders[b])
  BY DEF IInv, HoldersFinite, PoolExact
<1>2. IsFiniteSet({g, h}) /\ Cardinality({g, h}) = 2
  <2>1. IsFiniteSet({g}) /\ Cardinality({g}) = 1
    BY FS_Singleton
  <2>2. {g, h} = {g} \cup {h} /\ h \notin {g}
    OBVIOUS
  <2>. QED  BY <2>1, <2>2, FS_AddElement
<1>3. {g, h} \subseteq holders[b]
  OBVIOUS
<1>4. 2 <= Cardinality(holders[b]) /\ Cardinality(holders[b]) \in Nat
  BY <1>1, <1>2, <1>3, FS_Subset, FS_CardinalityType
<1>5. b \notin LastReference(B)
  BY <1>1, <1>4 DEF LastReference
<1>. QED  BY <1>5 DEF Release

LEMMA ResetSlotCells ==
  ASSUME IInv, NEW s \in Slots, ResetSlot(s)
  PROVE  /\ EntriesIntact
         /\ \A t \in Slots \ {s} : Intact(t) /\ tables'[t] = tables[t] /\ pos'[t] = pos[t]
<1>. DEFINE B == ToSet(tables[s])
<1>1. /\ tables \in [Slots -> Seq(Blocks)] /\ pos \in [Slots -> 0..MaxSeqLen]
      /\ \A k \in DOMAIN entries : entries[k] \in Blocks
  BY DEF IInv, TypeOK
<1>2. \A t \in Slots : \A i \in DOMAIN tables[t] : tables[t][i] \in Blocks
  BY <1>1, ElementOfSeq, LenProperties
<1>3. B \in SUBSET Blocks
  BY <1>2 DEF ToSet
<1>4. /\ Release(B) /\ tables' = [tables EXCEPT ![s] = <<>>]
      /\ pos' = [pos EXCEPT ![s] = 0]
  BY DEF ResetSlot, Clear
<1>5. ASSUME NEW b \in Blocks, NEW l \in Layers, NEW g \in holders[b], g # <<"slot", s>>
      PROVE  kv'[l][b] = kv[l][b]
  <2>1. CASE b \in B
    <3>1. <<"slot", s>> \in holders[b]
      BY <2>1, HolderCases
    <3>. QED  BY <1>3, <1>4, <1>5, <3>1, ReleaseSparesHeld
  <2>2. CASE b \notin B
    BY <1>4, <2>2 DEF Release, LastReference
  <2>. QED  BY <2>1, <2>2
<1>6. EntriesIntact
  <2>1. ASSUME NEW k \in DOMAIN entries, NEW l \in Layers
        PROVE  kv'[l][entries[k]] = kv[l][entries[k]]
    <3>1. <<"entry", k>> \in holders[entries[k]] /\ <<"entry", k>> # <<"slot", s>>
      BY <1>1, HolderCases
    <3>. QED  BY <1>1, <1>5, <3>1
  <2>. QED  BY <2>1 DEF EntriesIntact
<1>7. ASSUME NEW t \in Slots \ {s}
      PROVE  Intact(t) /\ tables'[t] = tables[t] /\ pos'[t] = pos[t]
  <2>1. tables'[t] = tables[t] /\ pos'[t] = pos[t]
    BY <1>1, <1>4
  <2>2. ASSUME NEW i \in DOMAIN tables[t], NEW l \in Layers
        PROVE  kv'[l][tables[t][i]] = kv[l][tables[t][i]]
    <3>1. tables[t][i] \in ToSet(tables[t])
      BY DEF ToSet
    <3>2. <<"slot", t>> \in holders[tables[t][i]] /\ <<"slot", t>> # <<"slot", s>>
      BY <1>2, <3>1, HolderCases
    <3>. QED  BY <1>2, <1>5, <3>2
  <2>. QED  BY <2>1, <2>2 DEF Intact
<1>. QED  BY <1>6, <1>7

LEMMA EvictOldestCells ==
  ASSUME IInv, EvictOldest
  PROVE  /\ \A t \in Slots : Intact(t) /\ tables'[t] = tables[t]
         /\ pos' = pos
         /\ DOMAIN entries' \subseteq DOMAIN entries
         /\ \A k \in DOMAIN entries' : /\ entries'[k] = entries[k]
                                       /\ \A l \in Layers : kv'[l][entries[k]] = kv[l][entries[k]]
<1>. DEFINE e == Head(lru)
            B == {entries[e]}
<1>1. /\ tables \in [Slots -> Seq(Blocks)]
      /\ \A k \in DOMAIN entries : entries[k] \in Blocks
  BY DEF IInv, TypeOK
<1>2. \A t \in Slots : \A i \in DOMAIN tables[t] : tables[t][i] \in Blocks
  BY <1>1, ElementOfSeq, LenProperties
<1>3. e \in DOMAIN entries /\ entries[e] \in Blocks
  BY EvictsAnEntry
<1>4. /\ Release(B) /\ tables' = tables /\ pos' = pos
      /\ entries' = [k \in DOMAIN entries \ {e} |-> entries[k]]
  BY DEF EvictOldest
<1>5. ASSUME NEW b \in Blocks, NEW l \in Layers, NEW g \in holders[b], g # <<"entry", e>>
      PROVE  kv'[l][b] = kv[l][b]
  <2>1. CASE b = entries[e]
    <3>1. <<"entry", e>> \in holders[b]
      BY <1>3, <2>1, HolderCases
    <3>. QED  BY <1>3, <1>4, <1>5, <3>1, ReleaseSparesHeld
  <2>2. CASE b # entries[e]
    BY <1>4, <2>2 DEF Release, LastReference
  <2>. QED  BY <2>1, <2>2
<1>6. ASSUME NEW k \in DOMAIN entries \ {e}, NEW l \in Layers
      PROVE  kv'[l][entries[k]] = kv[l][entries[k]]
  <2>1. <<"entry", k>> \in holders[entries[k]] /\ <<"entry", k>> # <<"entry", e>>
    BY <1>1, HolderCases
  <2>. QED  BY <1>1, <1>5, <2>1
<1>7. ASSUME NEW t \in Slots
      PROVE  Intact(t)
  <2>1. ASSUME NEW i \in DOMAIN tables[t], NEW l \in Layers
        PROVE  kv'[l][tables[t][i]] = kv[l][tables[t][i]]
    <3>1. tables[t][i] \in ToSet(tables[t])
      BY DEF ToSet
    <3>2. <<"slot", t>> \in holders[tables[t][i]] /\ <<"slot", t>> # <<"entry", e>>
      BY <1>2, <3>1, HolderCases
    <3>. QED  BY <1>2, <1>5, <3>2
  <2>. QED  BY <1>4, <2>1 DEF Intact
<1>. QED  BY <1>4, <1>6, <1>7


-----------------------------------------------------------------------------
(* Blocks of one size, one after the other. *)

(* A set of natural numbers has a least one, from the well-foundedness of
   strict inclusion on finite sets. *)
LEMMA LeastNat ==
  ASSUME NEW T \in SUBSET Nat, T # {}
  PROVE  \E m \in T : \A y \in T : m <= y
<1>. DEFINE Segments == {0..x : x \in T}
            R == StrictSubsetOrdering(Nat)
<1>1. IsWellFoundedOn(R, FiniteSubsetsOf(Nat))
  BY FS_StrictSubsetOrderingWellFounded
<1>2. Segments \subseteq FiniteSubsetsOf(Nat)
  <2>1. ASSUME NEW x \in T PROVE 0..x \in FiniteSubsetsOf(Nat)
    <3>1. IsFiniteSet(0..x)
      <4>1. x \in Int /\ 0 \in Int
        OBVIOUS
      <4>. QED BY ONLY <4>1, FS_Interval, Zenon
    <3>2. 0..x \subseteq Nat
      OBVIOUS
    <3>. QED BY <3>1, <3>2 DEF FiniteSubsetsOf
  <2>. QED BY <2>1
<1>3. Segments # {}
  OBVIOUS
<1>4. PICK s \in Segments : \A y \in Segments : ~ (<<y, s>> \in R)
  <2>. HIDE DEF Segments, R
  <2>. QED BY <1>1, <1>2, <1>3, WFMin
<1>5. PICK m \in T : s = 0..m
  OBVIOUS
<1>6. ASSUME NEW y \in T, ~(m <= y) PROVE FALSE
  <2>1. <<0..y, 0..m>> \in R
    <3>1. 0..y \subseteq 0..m /\ 0..y \subseteq Nat /\ 0..m \subseteq Nat
      BY <1>6
    <3>2. m \in 0..m /\ m \notin 0..y
      BY <1>6
    <3>. QED  BY <3>1, <3>2 DEF StrictSubsetOrdering
  <2>. QED BY <1>4, <1>5, <2>1
<1>. QED BY <1>6

(* What FlattenSeq makes of n sequences of d cells each *)
Laid(q, d, n) == [j \in 1 .. n * d |-> q[((j - 1) \div d) + 1][((j - 1) % d) + 1]]
Flattens(f, q) ==
  f = [i \in 1 .. Len(q) |-> IF i = 1 THEN q[i] ELSE f[i - 1] \o q[i]]

LEMMA Places ==
  ASSUME NEW d \in Nat \ {0}, NEW n \in Nat, NEW k \in 1 .. d
  PROVE  /\ ((n * d + k) - 1) \div d = n
         /\ ((n * d + k) - 1) % d = k - 1
OBVIOUS

LEMMA PlacesBelow ==
  ASSUME NEW d \in Nat \ {0}, NEW n \in Nat, NEW j \in 1 .. n * d
  PROVE  /\ ((j - 1) \div d) + 1 \in 1 .. n
         /\ ((j - 1) % d) + 1 \in 1 .. d
OBVIOUS

LEMMA PlaceOf ==
  ASSUME NEW d \in Nat \ {0}, NEW n \in Nat, NEW j \in 1 .. (n + 1) * d, ~(j <= n * d)
  PROVE  \E k \in 1 .. d : j = n * d + k
<1>1. PICK m \in Nat : m = n * d /\ (n + 1) * d = m + d
  OBVIOUS
<1>2. j - m \in 1 .. d /\ j = m + (j - m)
  BY <1>1
<1>. QED  BY <1>1, <1>2

LEMMA AsFunction ==
  ASSUME NEW S, NEW q \in Seq(S), NEW n \in Nat, Len(q) = n
  PROVE  q = [j \in 1 .. n |-> q[j]]
OBVIOUS

LEMMA Joined ==
  ASSUME NEW S, NEW a \in Seq(S), NEW b \in Seq(S)
  PROVE  /\ a \o b \in Seq(S) /\ Len(a \o b) = Len(a) + Len(b)
         /\ \A j \in 1 .. Len(a) + Len(b) :
              (a \o b)[j] = IF j <= Len(a) THEN a[j] ELSE b[j - Len(a)]
OBVIOUS

(* One more sequence of d cells goes behind the n before it. *)
LEMMA LaidStep ==
  ASSUME NEW S, NEW d \in Nat \ {0}, NEW q, NEW n \in Nat,
         \A i \in 1 .. n + 1 : q[i] \in Seq(S) /\ Len(q[i]) = d
  PROVE  /\ Laid(q, d, n) \in Seq(S) /\ Len(Laid(q, d, n)) = n * d
         /\ Laid(q, d, n) \o q[n + 1] = Laid(q, d, n + 1)
<1>1. PICK m \in Nat : m = n * d /\ (n + 1) * d = m + d
  OBVIOUS
<1>2. \A i \in 1 .. n + 1 : \A k \in 1 .. d : q[i][k] \in S
  <2>. SUFFICES ASSUME NEW i \in 1 .. n + 1, NEW k \in 1 .. d PROVE q[i][k] \in S
    OBVIOUS
  <2>1. q[i] \in Seq(S) /\ Len(q[i]) = d
    OBVIOUS
  <2>. QED BY <2>1
<1>3. Laid(q, d, n) = [j \in 1 .. m |-> q[((j - 1) \div d) + 1][((j - 1) % d) + 1]]
  BY <1>1 DEF Laid
<1>4. \A j \in 1 .. m : Laid(q, d, n)[j] \in S
  <2>. SUFFICES ASSUME NEW j \in 1 .. m PROVE Laid(q, d, n)[j] \in S
    OBVIOUS
  <2>1. ((j - 1) \div d) + 1 \in 1 .. n /\ ((j - 1) % d) + 1 \in 1 .. d
    BY <1>1, PlacesBelow
  <2>2. ((j - 1) \div d) + 1 \in 1 .. n + 1
    BY <2>1
  <2>3. q[((j - 1) \div d) + 1][((j - 1) % d) + 1] \in S
    BY <2>1, <2>2, <1>2
  <2>. QED BY <2>3, <1>3
<1>5. Laid(q, d, n) \in Seq(S) /\ Len(Laid(q, d, n)) = m
  BY <1>3, <1>4
<1>6. q[n + 1] \in Seq(S) /\ Len(q[n + 1]) = d
  OBVIOUS
<1>7. Laid(q, d, n + 1) = [j \in 1 .. m + d |-> q[((j - 1) \div d) + 1][((j - 1) % d) + 1]]
  BY <1>1 DEF Laid
<1>8. Laid(q, d, n) \o q[n + 1] =
        [j \in 1 .. m + d |-> IF j <= m THEN Laid(q, d, n)[j] ELSE q[n + 1][j - m]]
  <2>. DEFINE laid == Laid(q, d, n)
              b == q[n + 1]
              both == laid \o b
  <2>1. laid \in Seq(S) /\ Len(laid) = m /\ b \in Seq(S) /\ Len(b) = d
    BY <1>5, <1>6
  <2>2. /\ both \in Seq(S) /\ Len(both) = m + d
        /\ \A j \in 1 .. m + d : both[j] = IF j <= m THEN laid[j] ELSE b[j - m]
    <3>. HIDE DEF laid, b
    <3>. QED BY <2>1, Joined
  <2>3. both = [j \in 1 .. m + d |-> both[j]]
    <3>1. m + d \in Nat
      OBVIOUS
    <3>. HIDE DEF both
    <3>. QED BY ONLY <2>2, <3>1, AsFunction
  <2>4. both = [j \in 1 .. m + d |-> IF j <= m THEN laid[j] ELSE b[j - m]]
    <3>. HIDE DEF both, laid, b
    <3>. QED BY <2>2, <2>3
  <2>. QED BY <2>4
<1>9. ASSUME NEW j \in 1 .. m + d
      PROVE  (IF j <= m THEN Laid(q, d, n)[j] ELSE q[n + 1][j - m])
               = q[((j - 1) \div d) + 1][((j - 1) % d) + 1]
  <2>1. CASE j <= m
    BY <2>1, <1>3
  <2>2. CASE ~(j <= m)
    <3>1. j \in 1 .. (n + 1) * d /\ ~(j <= n * d)
      BY <2>2, <1>1
    <3>2. PICK k \in 1 .. d : j = n * d + k
      BY <3>1, PlaceOf
    <3>3. (j - 1) \div d = n /\ (j - 1) % d = k - 1
      BY <3>2, Places
    <3>4. j - m = k
      BY <3>2, <1>1
    <3>. QED  BY <2>2, <3>3, <3>4
  <2>. QED BY <2>1, <2>2
<1>10. Laid(q, d, n) \o q[n + 1] = Laid(q, d, n + 1)
  BY <1>7, <1>8, <1>9
<1>. QED  BY <1>1, <1>5, <1>10

LEMMA LaidOne ==
  ASSUME NEW S, NEW d \in Nat \ {0}, NEW q, q[1] \in Seq(S), Len(q[1]) = d
  PROVE  Laid(q, d, 1) = q[1]
<1>1. Laid(q, d, 1) = [j \in 1 .. d |-> q[((j - 1) \div d) + 1][((j - 1) % d) + 1]]
  BY DEF Laid
<1>2. ASSUME NEW j \in 1 .. d PROVE ((j - 1) \div d) + 1 = 1 /\ ((j - 1) % d) + 1 = j
  OBVIOUS
<1>3. q[1] = [j \in 1 .. d |-> q[1][j]]
  OBVIOUS
<1>. QED  BY <1>1, <1>2, <1>3

(* FlattenSeq lays them all. *)
LEMMA FlatBlocks ==
  ASSUME NEW S, NEW d \in Nat \ {0}, NEW n \in Nat \ {0}, NEW q \in Seq(Seq(S)),
         Len(q) = n, \A i \in 1 .. n : q[i] \in Seq(S) /\ Len(q[i]) = d
  PROVE  Promise!FlattenSeq(q) = Laid(q, d, n)
<1>1. \E f : Flattens(f, q)
  <2>. DEFINE g == [i \in 1 .. n |-> Laid(q, d, i)]
  <2>1. ASSUME NEW i \in 1 .. n
        PROVE  g[i] = IF i = 1 THEN q[i] ELSE g[i - 1] \o q[i]
    <3>1. CASE i = 1
      <4>1. q[1] \in Seq(S) /\ Len(q[1]) = d
        OBVIOUS
      <4>. QED BY <3>1, <4>1, LaidOne
    <3>2. CASE i # 1
      <4>1. PICK m \in Nat : m = i - 1 /\ i = m + 1 /\ m \in 1 .. n
        BY <3>2
      <4>2. \A k \in 1 .. m + 1 : q[k] \in Seq(S) /\ Len(q[k]) = d
        BY <4>1
      <4>3. Laid(q, d, m) \o q[m + 1] = Laid(q, d, m + 1)
        <5>1. m \in Nat /\ d \in Nat \ {0}
          BY <4>1
        <5>. QED BY ONLY <4>2, <5>1, LaidStep
      <4>. QED BY <3>2, <4>1, <4>3
    <3>. QED BY <3>1, <3>2
  <2>2. g = [i \in 1 .. n |-> IF i = 1 THEN q[i] ELSE g[i - 1] \o q[i]]
    BY <2>1
  <2>. HIDE DEF g
  <2>. QED BY <2>2 DEF Flattens
<1>2. ASSUME NEW f, Flattens(f, q) PROVE f[n] = Laid(q, d, n)
  <2>. DEFINE Wrong == {i \in 1 .. n : f[i] # Laid(q, d, i)}
  <2>0. f = [i \in 1 .. n |-> IF i = 1 THEN q[i] ELSE f[i - 1] \o q[i]]
    BY <1>2 DEF Flattens
  <2>1. \A i \in 1 .. n : f[i] = IF i = 1 THEN q[i] ELSE f[i - 1] \o q[i]
    BY <2>0
  <2>2. SUFFICES ASSUME Wrong # {} PROVE FALSE
    OBVIOUS
  <2>3. PICK i \in Wrong : \A k \in Wrong : i <= k
    <3>1. Wrong \in SUBSET Nat
      OBVIOUS
    <3>. HIDE DEF Wrong
    <3>. QED BY <2>2, <3>1, LeastNat
  <2>4. i \in 1 .. n /\ f[i] # Laid(q, d, i)
    OBVIOUS
  <2>5. CASE i = 1
    <3>1. q[1] \in Seq(S) /\ Len(q[1]) = d
      OBVIOUS
    <3>2. f[1] = q[1]
      BY <2>1
    <3>. QED BY <2>4, <2>5, <3>1, <3>2, LaidOne
  <2>6. CASE i # 1
    <3>1. PICK m \in Nat : m = i - 1 /\ i = m + 1 /\ m \in 1 .. n
      BY <2>4, <2>6
    <3>2. f[m] = Laid(q, d, m)
      <4>1. m \notin Wrong
        BY <2>3, <3>1
      <4>. QED BY <3>1, <4>1
    <3>3. \A k \in 1 .. m + 1 : q[k] \in Seq(S) /\ Len(q[k]) = d
      BY <3>1, <2>4
    <3>4. Laid(q, d, m) \o q[m + 1] = Laid(q, d, m + 1)
      BY <3>3, LaidStep
    <3>5. f[i] = f[m] \o q[i]
      BY <2>1, <2>4, <2>6, <3>1
    <3>. QED BY <3>1, <3>2, <3>4, <3>5, <2>4
  <2>. QED BY <2>5, <2>6
<1>3. Promise!FlattenSeq(q) = (CHOOSE f : Flattens(f, q))[n]
  BY DEF Promise!FlattenSeq, Flattens
<1>4. Flattens(CHOOSE f : Flattens(f, q), q)
  BY <1>1
<1>. QED BY <1>2, <1>3, <1>4

-----------------------------------------------------------------------------
(* What the promise sees of the paged cache. *)

seen == [s \in Slots |-> [l \in Layers |-> [i \in 1..pos[s] |-> Cell(l, tables[s], i)]]]
kept == [k \in DOMAIN entries |-> [l \in Layers |->
           [i \in 1..BlockSize |-> kv[l][entries[k]][i - 1]]]]

Covered == IInv /\ TablesCover

LEMMA CoveredAlways == Spec => []Covered
<1>1. Init => Covered
  <2>1. BlocksNeeded(0) = 0
    <3>1. 0 * BlockSize = 0
      BY SizesAssumption
    <3>2. BlocksNeeded(0 * BlockSize) = 0
      BY WholeBlocks, 0 \in Nat
    <3>. QED BY <3>1, <3>2
  <2>2. Len(<<>>) = 0
    OBVIOUS
  <2>. QED BY <2>1, <2>2, InitEstablishes DEF Init, TablesCover, Covered
<1>2. Covered /\ [Next]_vars => Covered'
  <2>. SUFFICES ASSUME Covered, [Next]_vars PROVE Covered'
    OBVIOUS
  <2>1. IInv'
    BY NextKeeps DEF Covered
  <2>2. ASSUME UNCHANGED <<tables, pos>> PROVE TablesCover'
    BY <2>2 DEF TablesCover, BlocksNeeded, Covered
  <2>3. CASE UNCHANGED vars
    BY <2>1, <2>2, <2>3 DEF vars, tableVars, Covered
  <2>4. ASSUME NEW s \in Slots, NEW tokens \in Prompts,
               TryLoadPrefix(s, tokens) \/ RegisterPrefix(s, tokens)
        PROVE  TablesCover'
    BY <2>2, <2>4 DEF TryLoadPrefix, RegisterPrefix, tableVars
  <2>5. ASSUME NEW s \in Slots, NEW layer \in Layers, NEW n \in 1..MaxSeqLen, NEW v \in KVValue,
               AppendKV(s, layer, [i \in 1..n |-> v])
        PROVE  TablesCover'
    <3>. DEFINE vals == [i \in 1..n |-> v]
    <3>1. vals \in Seq(KVValue)
      BY UniformValues
    <3>. HIDE DEF vals
    <3>2. CASE AppendStored(s, layer, vals)
      BY <3>1, <3>2, AppendStoredCovers DEF Covered
    <3>3. CASE AppendExhausted(s, layer, vals)
      BY <3>3, AppendExhaustedCovers DEF Covered
    <3>4. CASE AppendTooLong(s, layer, vals)
      BY <2>2, <3>4 DEF AppendTooLong, tableVars
    <3>. QED BY <2>5, <3>2, <3>3, <3>4 DEF AppendKV, vals
  <2>6. ASSUME NEW s \in Slots, ResetSlot(s) PROVE TablesCover'
    BY <2>6, ResetSlotCovers DEF Covered
  <2>7. ASSUME Lookup PROVE TablesCover'
    <3>1. CASE LoadHit
      BY <3>1, LoadHitCovers DEF Covered
    <3>. QED BY <2>2, <2>7, <3>1 DEF Lookup, MatchBlock, LoadMiss, LoadRejected, tableVars
  <2>8. ASSUME Insert PROVE TablesCover'
    BY <2>2, <2>8 DEF Insert, RenewEntry, EvictOldest, AddEntry, tableVars
  <2>. QED BY <2>1, <2>3, <2>4, <2>5, <2>6, <2>7, <2>8 DEF Next, Covered
<1>. QED  BY <1>1, <1>2, PTL DEF Spec

(* A slot that is intact, with the cursor where it was, shows what it showed. *)
LEMMA SeenStays ==
  ASSUME Covered, NEW s \in Slots, Intact(s), pos'[s] = pos[s]
  PROVE  seen'[s] = seen[s]
<1>1. tables[s] \in Seq(Blocks) /\ pos[s] \in Nat
  BY SizesAssumption DEF Covered, IInv, TypeOK
<1>2. ASSUME NEW l \in Layers, NEW i \in 1..pos[s]
      PROVE  Cell(l, tables[s], i)' = Cell(l, tables[s], i)
  <2>1. PICK p \in 0 .. pos[s] - 1 : p = i - 1
    BY <1>1
  <2>2. (p \div BlockSize) + 1 \in DOMAIN tables[s]
    BY <1>1, CellOfToken DEF Covered, TablesCover
  <2>3. Seen(l, s, p)' = Seen(l, s, p)
    BY <2>2, IntactSeen
  <2>. QED BY <2>1, <2>3 DEF Seen, Cell, Resolve
<1>. QED  BY <1>2 DEF seen

LEMMA KeptStays ==
  ASSUME EntriesIntact, entries' = entries
  PROVE  kept' = kept
BY DEF EntriesIntact, kept

LEMMA QuietShowsNothing ==
  ASSUME UNCHANGED <<tableVars, entries>>
  PROVE  UNCHANGED Promise!svars
BY DEF tableVars, Promise!svars, Cell, Resolve

(* A function on 1 .. n is a sequence of n. *)
LEMMA FunctionIsSeq ==
  ASSUME NEW n \in Nat, NEW f, f = [i \in 1 .. n |-> f[i]]
  PROVE  /\ f \in Seq({f[i] : i \in 1 .. n})
         /\ Len(f) = n
         /\ DOMAIN f = 1 .. n
OBVIOUS

LEMMA SeenCells ==
  ASSUME Covered, NEW s \in Slots, NEW l \in Layers
  PROVE  /\ seen[s][l] \in Seq({seen[s][l][i] : i \in 1 .. pos[s]})
         /\ Len(seen[s][l]) = pos[s]
         /\ pos[s] \in 0 .. MaxSeqLen
         /\ \A p \in 0 .. pos[s] - 1 : seen[s][l][p + 1] = Seen(l, s, p)
<1>1. pos[s] \in 0 .. MaxSeqLen /\ pos[s] \in Nat
  BY SizesAssumption DEF Covered, IInv, TypeOK
<1>2. seen[s][l] = [i \in 1..pos[s] |-> Cell(l, tables[s], i)]
  BY DEF seen
<1>3. seen[s][l] = [i \in 1..pos[s] |-> seen[s][l][i]]
  BY <1>2
<1>4. ASSUME NEW p \in 0 .. pos[s] - 1 PROVE seen[s][l][p + 1] = Seen(l, s, p)
  <2>1. p + 1 \in 1 .. pos[s] /\ (p + 1) - 1 = p
    BY <1>1
  <2>. QED BY <1>2, <2>1 DEF Cell, Resolve, Seen
<1>. HIDE DEF seen
<1>. QED  BY <1>1, <1>3, <1>4, FunctionIsSeq

LEMMA SeenCellsNext ==
  ASSUME Covered', NEW s \in Slots, NEW l \in Layers
  PROVE  /\ seen'[s][l] \in Seq({seen'[s][l][i] : i \in 1 .. pos'[s]})
         /\ Len(seen'[s][l]) = pos'[s]
         /\ pos'[s] \in 0 .. MaxSeqLen
         /\ \A p \in 0 .. pos'[s] - 1 : seen'[s][l][p + 1] = Seen(l, s, p)'
<1>1. pos'[s] \in 0 .. MaxSeqLen /\ pos'[s] \in Nat
  BY SizesAssumption DEF Covered, IInv, TypeOK
<1>2. seen'[s][l] = [i \in 1..pos'[s] |-> Cell(l, tables[s], i)']
  BY DEF seen
<1>3. seen'[s][l] = [i \in 1..pos'[s] |-> seen'[s][l][i]]
  BY <1>2
<1>4. ASSUME NEW p \in 0 .. pos'[s] - 1 PROVE seen'[s][l][p + 1] = Seen(l, s, p)'
  <2>1. p + 1 \in 1 .. pos'[s] /\ (p + 1) - 1 = p
    BY <1>1
  <2>. QED BY <1>2, <2>1 DEF Cell, Resolve, Seen
<1>. HIDE DEF seen
<1>. QED  BY <1>1, <1>3, <1>4, FunctionIsSeq

-----------------------------------------------------------------------------
(* The steps of the paged cache as steps of the promise. *)

LEMMA PrefixByCells ==
  ASSUME NEW S, NEW T, NEW a \in Seq(S), NEW b \in Seq(T), Len(a) <= Len(b),
         \A i \in 1 .. Len(a) : a[i] = b[i]
  PROVE  Promise!IsPrefix(a, b)
<1>1. SubSeq(a, 1, Len(a)) = SubSeq(b, 1, Len(a))
  OBVIOUS
<1>. QED  BY <1>1 DEF Promise!IsPrefix

(* An append in the last layer shows the new tokens in every layer; in the
   others it shows nothing yet. *)
LEMMA AppendStoredExtends ==
  ASSUME Covered, Covered', NEW s \in Slots, NEW layer \in Layers, NEW vals \in Seq(KVValue),
         AppendStored(s, layer, vals)
  PROVE  Promise!Extend(s)
<1>1. pos[s] \in Nat /\ pos \in [Slots -> 0..MaxSeqLen] /\ Len(vals) \in Nat
  BY SizesAssumption DEF Covered, IInv, TypeOK
<1>2. /\ pos[s] <= pos'[s] /\ \A t \in Slots \ {s} : pos'[t] = pos[t]
  BY <1>1 DEF AppendStored
<1>3. \A t \in Slots \ {s} : seen'[t] = seen[t]
  BY <1>2, AppendStoredOthers, SeenStays DEF Covered
<1>4. kept' = kept
  <2>1. entries' = entries
    BY DEF AppendStored, cacheVars
  <2>2. EntriesIntact
    BY AppendStoredOthers DEF Covered
  <2>. QED BY <2>1, <2>2, KeptStays
<1>5. ASSUME NEW l \in Layers PROVE Promise!IsPrefix(seen[s][l], seen'[s][l])
  <2>1. \A c \in 0 .. pos[s] - 1 : Seen(l, s, c)' = Seen(l, s, c)
    BY AppendStoredOwn DEF Covered
  <2>2. ASSUME NEW i \in 1 .. pos[s] PROVE seen[s][l][i] = seen'[s][l][i]
    <3>1. PICK c \in 0 .. pos[s] - 1 : i = c + 1
      <4>1. i - 1 \in 0 .. pos[s] - 1 /\ i = (i - 1) + 1
        BY <1>1
      <4>. QED BY <4>1
    <3>2. c \in 0 .. pos'[s] - 1
      <4>1. pos'[s] \in Nat
        BY SizesAssumption DEF Covered, IInv, TypeOK
      <4>. QED BY <1>1, <1>2, <4>1
    <3>3. seen[s][l][c + 1] = Seen(l, s, c)
      BY SeenCells
    <3>4. seen'[s][l][c + 1] = Seen(l, s, c)'
      BY <3>2, SeenCellsNext
    <3>. QED BY <2>1, <3>1, <3>3, <3>4
  <2>3. /\ seen[s][l] \in Seq({seen[s][l][i] : i \in 1 .. pos[s]}) /\ Len(seen[s][l]) = pos[s]
        /\ seen'[s][l] \in Seq({seen'[s][l][i] : i \in 1 .. pos'[s]}) /\ Len(seen'[s][l]) = pos'[s]
    BY SeenCells, SeenCellsNext
  <2>. HIDE DEF seen
  <2>. QED BY <1>2, <2>2, <2>3, PrefixByCells
<1>6. \A l \in Layers : Len(seen'[s][l]) - Len(seen[s][l]) = pos'[s] - pos[s]
  BY SeenCells, SeenCellsNext
<1>. QED  BY <1>3, <1>4, <1>5, <1>6 DEF Promise!Extend, Promise!Growth, Promise!Only, seen, kept

(* An append that runs out of blocks shows nothing at all. *)
LEMMA AppendExhaustedShowsNothing ==
  ASSUME Covered, NEW s \in Slots, NEW layer, NEW vals, AppendExhausted(s, layer, vals)
  PROVE  UNCHANGED Promise!svars
<1>1. pos' = pos /\ entries' = entries
  BY DEF AppendExhausted, cacheVars
<1>2. kept' = kept
  BY <1>1, AppendExhaustedCells, KeptStays DEF Covered
<1>3. \A t \in Slots : seen'[t] = seen[t]
  BY <1>1, AppendExhaustedCells, SeenStays DEF Covered
<1>4. seen' = seen
  BY <1>3 DEF seen
<1>. QED  BY <1>2, <1>4 DEF Promise!svars, seen, kept

(* A reset empties its slot; what others read from the blocks it shared with
   them stays. *)
LEMMA ResetSlotClears ==
  ASSUME Covered, NEW s \in Slots, ResetSlot(s)
  PROVE  Promise!Clear(s)
<1>1. /\ pos'[s] = 0 /\ \A t \in Slots \ {s} : pos'[t] = pos[t]
      /\ entries' = entries
  BY DEF ResetSlot, cacheVars, Covered, IInv, TypeOK
<1>2. kept' = kept
  BY <1>1, ResetSlotCells, KeptStays DEF Covered
<1>3. \A t \in Slots \ {s} : seen'[t] = seen[t]
  BY <1>1, ResetSlotCells, SeenStays DEF Covered
<1>4. seen'[s] = [l \in Layers |-> <<>>]
  BY <1>1 DEF seen
<1>5. seen' = [seen EXCEPT ![s] = [l \in Layers |-> <<>>]]
  BY <1>3, <1>4 DEF seen
<1>. QED  BY <1>2, <1>5 DEF Promise!Clear, seen, kept

(* An eviction forgets the oldest prefix and shows nothing to the slots. *)
LEMMA EvictOldestForgets ==
  ASSUME Covered, EvictOldest
  PROVE  \E k \in DOMAIN entries : Promise!Forget(k)
<1>1. PICK k \in DOMAIN entries : k = Head(lru)
  BY EvictsAnEntry DEF Covered
<1>2. entries' = [j \in DOMAIN entries \ {k} |-> entries[j]]
  BY <1>1 DEF EvictOldest
<1>3. \A t \in Slots : seen'[t] = seen[t]
  BY EvictOldestCells, SeenStays DEF Covered
<1>4. seen' = seen
  BY <1>3 DEF seen
<1>5. kept' = [j \in DOMAIN kept \ {k} |-> kept[j]]
  <2>1. DOMAIN kept = DOMAIN entries /\ DOMAIN entries' = DOMAIN entries \ {k}
    BY <1>2 DEF kept
  <2>2. ASSUME NEW j \in DOMAIN entries \ {k}
        PROVE  [l \in Layers |-> [i \in 1..BlockSize |-> kv'[l][entries'[j]][i - 1]]] = kept[j]
    <3>1. entries'[j] = entries[j] /\ \A l \in Layers : kv'[l][entries[j]] = kv[l][entries[j]]
      BY <2>1, EvictOldestCells DEF Covered
    <3>. QED BY <3>1 DEF kept
  <2>. QED BY <2>1, <2>2 DEF kept
<1>6. Promise!Forget(k)
  BY <1>4, <1>5 DEF Promise!Forget, seen, kept
<1>. QED  BY <1>6

(* Cell i of a kept block is token (n - 1) * BlockSize + i - 1 of the slot. *)
LEMMA CellOfBlock ==
  ASSUME NEW n \in Nat \ {0}, NEW i \in 1 .. BlockSize, NEW m \in Nat, n * BlockSize <= m
  PROVE  /\ (n - 1) * BlockSize + i - 1 \in 0 .. m - 1
         /\ ((n - 1) * BlockSize + i - 1) \div BlockSize = n - 1
         /\ ((n - 1) * BlockSize + i - 1) % BlockSize = i - 1
         /\ n * BlockSize - BlockSize + i = ((n - 1) * BlockSize + i - 1) + 1
<1>1. BlockSize \in Nat \ {0}
  BY SizesAssumption
<1>2. PICK k \in Nat, a \in Nat : k = n - 1 /\ n = k + 1 /\ a = k * BlockSize /\ n * BlockSize = a + BlockSize
  <2>1. n - 1 \in Nat /\ (n - 1) * BlockSize \in Nat /\ n * BlockSize = (n - 1) * BlockSize + BlockSize
    BY <1>1
  <2>. QED BY <2>1
<1>3. /\ ((k * BlockSize + i) - 1) \div BlockSize = k
      /\ ((k * BlockSize + i) - 1) % BlockSize = i - 1
  BY <1>1, Places
<1>. QED  BY <1>1, <1>2, <1>3

(* A new entry keeps the block its prefix ends with, as the slot shows it. *)
LEMMA AddEntryKeepsBlock ==
  ASSUME Covered, AddEntry
  PROVE  \E s \in Slots : \E k \in DOMAIN entries' \ DOMAIN entries : Promise!Keep(s, k)
<1>1. PICK s \in Slots, n \in Nat \ {0}, k \in Keys :
        /\ s = call.slot /\ n = call.next /\ k = NextKey
        /\ n \in DOMAIN tables[s] /\ Len(k) = n * BlockSize /\ n * BlockSize <= pos[s]
  BY InsertFacts DEF AddEntry, Covered
<1>2. PICK block : block = tables[s][n]
  OBVIOUS
<1>3. /\ k \notin DOMAIN entries
      /\ entries' = [j \in DOMAIN entries \cup {k} |-> IF j = k THEN block ELSE entries[j]]
      /\ UNCHANGED <<tables, pos, kv>>
  BY <1>1, <1>2 DEF AddEntry, tableVars
<1>4. seen' = seen
  BY <1>3 DEF seen, Cell, Resolve
<1>5. DOMAIN kept' = DOMAIN kept \cup {k} /\ k \in DOMAIN entries' \ DOMAIN entries
  BY <1>3 DEF kept
<1>6. \A j \in DOMAIN kept : kept'[j] = kept[j]
  BY <1>3 DEF kept
<1>7. pos[s] \in Nat /\ BlockSize \in Nat \ {0}
  BY SizesAssumption DEF Covered, IInv, TypeOK
<1>8. ASSUME NEW l \in Layers
      PROVE  /\ Len(k) <= Len(seen[s][l])
             /\ kept'[k][l] = SubSeq(seen[s][l], Len(k) - BlockSize + 1, Len(k))
  <2>1. /\ seen[s][l] \in Seq({seen[s][l][i] : i \in 1 .. pos[s]})
        /\ Len(seen[s][l]) = pos[s]
        /\ \A p \in 0 .. pos[s] - 1 : seen[s][l][p + 1] = Seen(l, s, p)
    BY SeenCells
  <2>2. kept'[k][l] = [i \in 1 .. BlockSize |-> kv[l][block][i - 1]]
    BY <1>3 DEF kept
  <2>3. ASSUME NEW i \in 1 .. BlockSize
        PROVE  seen[s][l][n * BlockSize - BlockSize + i] = kv[l][block][i - 1]
    <3>1. PICK p \in 0 .. pos[s] - 1 :
            /\ p = (n - 1) * BlockSize + i - 1
            /\ p \div BlockSize = n - 1 /\ p % BlockSize = i - 1
            /\ n * BlockSize - BlockSize + i = p + 1
      BY <1>1, <1>7, CellOfBlock
    <3>2. Seen(l, s, p) = kv[l][tables[s][n]][i - 1]
      <4>1. (n - 1) + 1 = n
        OBVIOUS
      <4>. QED BY <3>1, <4>1 DEF Seen
    <3>. HIDE DEF seen
    <3>. QED BY <1>2, <2>1, <3>1, <3>2
  <2>4. PICK a \in Nat : a = Len(k) - BlockSize /\ n * BlockSize - BlockSize = a /\ Len(k) = a + BlockSize
    <3>1. n * BlockSize >= BlockSize /\ n * BlockSize \in Nat
      <4>1. PICK m \in Nat : m = n - 1 /\ n = m + 1
        OBVIOUS
      <4>2. (m + 1) * BlockSize = m * BlockSize + BlockSize /\ m * BlockSize \in Nat
        BY <1>7
      <4>. QED BY <1>7, <4>1, <4>2
    <3>2. PICK w \in Nat, d \in Nat : /\ w = n * BlockSize /\ d = BlockSize /\ w >= d
                                     /\ Len(k) = w
      BY <1>1, <1>7, <3>1
    <3>3. w - d \in Nat /\ w = (w - d) + d
      BY <3>2
    <3>4. /\ w - d = Len(k) - BlockSize /\ n * BlockSize - BlockSize = w - d
          /\ Len(k) = (w - d) + BlockSize
      BY <3>2, <3>3
    <3>. QED BY ONLY <3>3, <3>4
  <2>5. SubSeq(seen[s][l], a + 1, a + BlockSize) = [i \in 1 .. BlockSize |-> seen[s][l][a + i]]
    <3>. DEFINE q == seen[s][l]
    <3>1. q \in Seq({q[i] : i \in 1 .. pos[s]}) /\ Len(q) = pos[s] /\ a + BlockSize <= Len(q)
      BY <1>1, <2>1, <2>4
    <3>. HIDE DEF q
    <3>2. SubSeq(q, a + 1, a + BlockSize) = [i \in 1 .. BlockSize |-> q[a + i]]
      BY <3>1, <1>7
    <3>. QED BY <3>2 DEF q
  <2>6. \A i \in 1 .. BlockSize : seen[s][l][a + i] = kv[l][block][i - 1]
    BY <2>3, <2>4
  <2>7. kept'[k][l] = SubSeq(seen[s][l], a + 1, a + BlockSize)
    <3>. HIDE DEF seen, kept
    <3>. QED BY <2>2, <2>5, <2>6
  <2>8. Len(k) - BlockSize + 1 = a + 1
    BY <2>4
  <2>. HIDE DEF seen, kept
  <2>. QED BY <1>1, <2>1, <2>4, <2>7, <2>8
<1>9. kept'[k] = [l \in Layers |-> SubSeq(seen[s][l], Len(k) - BlockSize + 1, Len(k))]
  <2>1. kept'[k] = [l \in Layers |-> kept'[k][l]]
    BY <1>3 DEF kept
  <2>. HIDE DEF seen, kept
  <2>. QED BY <1>8, <2>1
<1>10. Promise!Keep(s, k)
  BY <1>4, <1>5, <1>6, <1>8, <1>9 DEF Promise!Keep, seen, kept
<1>. QED  BY <1>5, <1>10

(* The first i blocks of a prefix of m blocks are the prefix of i blocks. *)
LEMMA KeyOfKey ==
  ASSUME NEW tokens \in Prompts, NEW m \in Nat \ {0}, m <= FullBlocks(tokens),
         NEW i \in 1 .. m
  PROVE  SubSeq(Key(tokens, m), 1, i * BlockSize) = Key(tokens, i)
<1>1. tokens \in Seq(Token) /\ Len(tokens) \in Nat /\ BlockSize \in Nat \ {0}
  BY PromptsAssumption, SizesAssumption
<1>2. PICK a \in Nat, c \in Nat : a = i * BlockSize /\ c = m * BlockSize /\ a <= c
  <2>1. i * BlockSize <= m * BlockSize
    BY <1>1, MultipleMonotone
  <2>. QED BY <1>1, <2>1
<1>3. c <= Len(tokens)
  <2>1. m \in 1 .. FullBlocks(tokens)
    BY FullBlocksType
  <2>. QED BY <1>2, <2>1, KeyLength
<1>4. SubSeq(SubSeq(tokens, 1, c), 1, a) = SubSeq(tokens, 1, a)
  <2>1. /\ SubSeq(tokens, 1, c) = [j \in 1 .. c |-> tokens[j]]
        /\ SubSeq(tokens, 1, a) = [j \in 1 .. a |-> tokens[j]]
    BY <1>1, <1>2, <1>3
  <2>2. SubSeq(SubSeq(tokens, 1, c), 1, a) = [j \in 1 .. a |-> SubSeq(tokens, 1, c)[j]]
    <3>. DEFINE q == SubSeq(tokens, 1, c)
    <3>1. q \in Seq(Token) /\ Len(q) = c
      BY <1>1, <1>2, <1>3
    <3>. HIDE DEF q
    <3>2. SubSeq(q, 1, a) = [j \in 1 .. a |-> q[j]]
      BY <3>1, <1>2
    <3>. QED BY <3>2 DEF q
  <2>3. \A j \in 1 .. a : SubSeq(tokens, 1, c)[j] = tokens[j]
    BY <2>1, <1>2
  <2>. QED BY <2>1, <2>2, <2>3
<1>. QED  BY <1>2, <1>4 DEF Key

LEMMA MultipleDivided ==
  ASSUME NEW m \in Nat, NEW d \in Nat \ {0}
  PROVE  (m * d) \div d = m
OBVIOUS

(* A prefix hit shows the slot the kept blocks of the prefix, in order. *)
LEMMA LoadHitLoads ==
  ASSUME Covered, Covered', LoadHit
  PROVE  \E s \in Slots : \E k \in DOMAIN entries : Promise!Load(s, k)
<1>1. PICK s \in Slots, tokens \in Prompts, m \in Nat \ {0} :
        /\ s = call.slot /\ tokens = call.tokens /\ m = MatchedBlocks
        /\ m <= FullBlocks(tokens)
        /\ \A i \in 1 .. m : Key(tokens, i) \in DOMAIN entries
  <2>1. /\ call.slot \in Slots /\ call.tokens \in Prompts /\ call.next \in Nat \ {0}
        /\ call.next <= FullBlocks(call.tokens) + 1 /\ call.op = "lookup"
        /\ \A i \in 1 .. call.next - 1 : Key(call.tokens, i) \in DOMAIN entries
    BY DEF LoadHit, LookupOver, Covered, IInv, TypeOK, CallOK, Idle
  <2>2. FullBlocks(call.tokens) \in Nat
    BY <2>1, FullBlocksType
  <2>3. MatchedBlocks \in Nat \ {0} /\ MatchedBlocks <= FullBlocks(call.tokens)
    BY <2>1, <2>2 DEF LoadHit, MatchedBlocks
  <2>. QED BY <2>1, <2>3 DEF MatchedBlocks
<1>2. PICK block : block = [i \in 1 .. m |-> entries[Key(tokens, i)]]
  OBVIOUS
<1>3. /\ tables' = [tables EXCEPT ![s] = block] /\ pos' = [pos EXCEPT ![s] = m * BlockSize]
      /\ UNCHANGED <<kv, entries>>
  BY <1>1, <1>2 DEF LoadHit, CursorAfterLoad
<1>4. PICK k : k = Key(tokens, m)
  OBVIOUS
<1>5. /\ k \in DOMAIN entries /\ Len(k) = m * BlockSize /\ Len(k) \div BlockSize = m
      /\ \A i \in 1 .. m : SubSeq(k, 1, i * BlockSize) = Key(tokens, i)
  <2>1. m \in 1 .. FullBlocks(tokens) /\ BlockSize \in Nat \ {0}
    BY <1>1, FullBlocksType, SizesAssumption
  <2>2. Len(k) = m * BlockSize
    BY <1>4, <2>1, KeyLength
  <2>3. (m * BlockSize) \div BlockSize = m
    BY <2>1, MultipleDivided
  <2>. QED BY <1>1, <1>4, <2>1, <2>2, <2>3, KeyOfKey
<1>. DEFINE chain == [i \in 1 .. Len(k) \div BlockSize |-> SubSeq(k, 1, i * BlockSize)]
<1>6. chain = [i \in 1 .. m |-> Key(tokens, i)]
  BY <1>5
<1>7. Promise!ToSet(chain) \subseteq DOMAIN entries
  BY <1>1, <1>6 DEF Promise!ToSet
<1>8. /\ tables[s] \in Seq(Blocks) /\ tables'[s] = block /\ pos'[s] = m * BlockSize
      /\ \A t \in Slots \ {s} : tables'[t] = tables[t] /\ pos'[t] = pos[t]
  BY <1>3 DEF Covered, IInv, TypeOK
<1>9. ASSUME NEW l \in Layers
      PROVE  seen'[s][l] = Promise!FlattenSeq([i \in DOMAIN chain |-> kept[chain[i]][l]])
  <2>. DEFINE q == [i \in 1 .. m |-> kept[Key(tokens, i)][l]]
  <2>0. PICK S : \A b \in Blocks, o \in Offsets : kv[l][b][o] \in S
    <3>1. \A b \in Blocks, o \in Offsets : kv[l][b][o] \in KVValue \cup {Uninit}
      BY DEF Covered, IInv, TypeOK
    <3>. QED BY <3>1
  <2>1. [i \in DOMAIN chain |-> kept[chain[i]][l]] = q
    BY <1>6
  <2>2. ASSUME NEW i \in 1 .. m
        PROVE  /\ q[i] = [j \in 1 .. BlockSize |-> kv[l][block[i]][j - 1]]
               /\ q[i] \in Seq(S) /\ Len(q[i]) = BlockSize
    <3>1. q[i] = [j \in 1 .. BlockSize |-> kv[l][block[i]][j - 1]]
      BY <1>1, <1>2 DEF kept
    <3>2. block[i] \in Blocks
      BY <1>1, <1>2 DEF Covered, IInv, TypeOK
    <3>3. BlockSize \in Nat /\ \A j \in 1 .. BlockSize : j - 1 \in Offsets
      BY SizesAssumption DEF Offsets
    <3>. HIDE DEF q
    <3>4. q[i] \in [1 .. BlockSize -> S]
      BY <2>0, <3>1, <3>2, <3>3
    <3>. QED BY <3>1, <3>3, <3>4
  <2>3. q \in Seq(Seq(S)) /\ Len(q) = m
    <3>1. q \in [1 .. m -> Seq(S)]
      <4>1. q = [i \in 1 .. m |-> q[i]]
        OBVIOUS
      <4>. HIDE DEF q
      <4>. QED BY <2>2, <4>1
    <3>. HIDE DEF q
    <3>. QED BY <3>1
  <2>4. Promise!FlattenSeq(q) = Laid(q, BlockSize, m)
    <3>1. BlockSize \in Nat \ {0}
      BY SizesAssumption
    <3>2. \A i \in 1 .. m : q[i] \in Seq(S) /\ Len(q[i]) = BlockSize
      <4>. HIDE DEF q
      <4>. QED BY <2>2
    <3>. HIDE DEF q
    <3>. QED BY <2>3, <3>1, <3>2, FlatBlocks
  <2>5. seen'[s][l] = [i \in 1 .. m * BlockSize |-> Cell(l, tables[s], i)']
    BY <1>8 DEF seen
  <2>6. ASSUME NEW i \in 1 .. m * BlockSize
        PROVE  Cell(l, tables[s], i)' = q[((i - 1) \div BlockSize) + 1][((i - 1) % BlockSize) + 1]
    <3>1. /\ ((i - 1) \div BlockSize) + 1 \in 1 .. m
          /\ ((i - 1) % BlockSize) + 1 \in 1 .. BlockSize
      BY SizesAssumption, PlacesBelow
    <3>2. Cell(l, tables[s], i)' = kv[l][block[((i - 1) \div BlockSize) + 1]][(i - 1) % BlockSize]
      BY <1>3, <1>8 DEF Cell, Resolve
    <3>3. (((i - 1) % BlockSize) + 1) - 1 = (i - 1) % BlockSize
      BY SizesAssumption
    <3>4. PICK n \in 1 .. m, j \in 1 .. BlockSize :
            n = ((i - 1) \div BlockSize) + 1 /\ j = ((i - 1) % BlockSize) + 1
      BY <3>1
    <3>5. q[n][j] = kv[l][block[n]][j - 1]
      <4>. HIDE DEF q
      <4>. QED BY <2>2
    <3>. HIDE DEF q
    <3>. QED BY <3>2, <3>3, <3>4, <3>5
  <2>7. seen'[s][l] = Laid(q, BlockSize, m)
    <3>. HIDE DEF q, seen
    <3>. QED BY <2>5, <2>6 DEF Laid
  <2>. HIDE DEF q, seen, chain, kept
  <2>. QED BY <2>1, <2>4, <2>7
<1>10. \A t \in Slots \ {s} : seen'[t] = seen[t]
  BY <1>3, <1>8 DEF seen, Cell, Resolve
<1>11. seen' = [seen EXCEPT ![s] = [l \in Layers |->
                  Promise!FlattenSeq([i \in DOMAIN chain |-> kept[chain[i]][l]])]]
  <2>1. seen'[s] = [l \in Layers |-> seen'[s][l]]
    BY DEF seen
  <2>2. seen' = [t \in Slots |-> seen'[t]] /\ seen = [t \in Slots |-> seen[t]]
    BY DEF seen
  <2>. HIDE DEF seen, kept, chain
  <2>. QED BY <1>9, <1>10, <2>1, <2>2
<1>12. kept' = kept /\ DOMAIN kept = DOMAIN entries
  BY <1>3 DEF kept
<1>13. Promise!Load(s, k)
  BY <1>7, <1>11, <1>12 DEF Promise!Load, seen, kept
<1>. QED  BY <1>5, <1>13

(* The paged cache implements SlotCache: whatever is shared, evicted, freed
   and handed out again, a slot reads its own tokens' cells and, after a prefix
   hit, the cells that were kept under that prefix. *)
THEOREM PagedCacheKeepsPromise == Spec => ImplementsSlotCache
<1>1. Init => Promise!Init
  BY DEF Init, Promise!Init
<1>2. Covered /\ Covered' /\ [Next]_vars => [Promise!Next]_(Promise!svars)
  <2>. SUFFICES ASSUME Covered, Covered', [Next]_vars
                PROVE  [Promise!Next]_(Promise!svars)
    OBVIOUS
  <2>1. CASE UNCHANGED vars
    BY <2>1, QuietShowsNothing DEF vars, cacheVars
  <2>2. ASSUME NEW s \in Slots, NEW tokens \in Prompts,
               TryLoadPrefix(s, tokens) \/ RegisterPrefix(s, tokens)
        PROVE  UNCHANGED Promise!svars
    BY <2>2, QuietShowsNothing DEF TryLoadPrefix, RegisterPrefix
  <2>3. ASSUME NEW s \in Slots, NEW layer \in Layers, NEW n \in 1..MaxSeqLen, NEW v \in KVValue,
               AppendKV(s, layer, [i \in 1..n |-> v])
        PROVE  Promise!Extend(s) \/ UNCHANGED Promise!svars
    <3>. DEFINE vals == [i \in 1..n |-> v]
    <3>1. vals \in Seq(KVValue)
      BY UniformValues
    <3>. HIDE DEF vals
    <3>2. CASE AppendStored(s, layer, vals)
      BY <3>1, <3>2, AppendStoredExtends
    <3>3. CASE AppendExhausted(s, layer, vals)
      BY <3>3, AppendExhaustedShowsNothing
    <3>4. CASE AppendTooLong(s, layer, vals)
      BY <3>4, QuietShowsNothing DEF AppendTooLong, cacheVars
    <3>. QED BY <2>3, <3>2, <3>3, <3>4 DEF AppendKV, vals
  <2>4. ASSUME NEW s \in Slots, ResetSlot(s) PROVE Promise!Clear(s)
    BY <2>4, ResetSlotClears
  <2>5. ASSUME Lookup
        PROVE  \/ \E s \in Slots : \E k \in DOMAIN entries : Promise!Load(s, k)
               \/ UNCHANGED Promise!svars
    <3>1. CASE LoadHit
      BY <3>1, LoadHitLoads
    <3>2. CASE MatchBlock \/ LoadMiss \/ LoadRejected
      BY <3>2, QuietShowsNothing DEF MatchBlock, LoadMiss, LoadRejected
    <3>. QED BY <2>5, <3>1, <3>2 DEF Lookup
  <2>6. ASSUME Insert
        PROVE  \/ \E s \in Slots : \E k \in DOMAIN entries' \ DOMAIN entries : Promise!Keep(s, k)
               \/ \E k \in DOMAIN entries : Promise!Forget(k)
               \/ UNCHANGED Promise!svars
    <3>1. CASE AddEntry
      BY <3>1, AddEntryKeepsBlock
    <3>2. CASE EvictOldest
      BY <3>2, EvictOldestForgets
    <3>3. CASE RenewEntry
      BY <3>3, QuietShowsNothing DEF RenewEntry
    <3>. QED BY <2>6, <3>1, <3>2, <3>3 DEF Insert
  <2>7. DOMAIN kept = DOMAIN entries /\ DOMAIN kept' = DOMAIN entries'
    BY DEF kept
  <2>8. ASSUME NEW s \in Slots, Promise!Extend(s) \/ Promise!Clear(s) PROVE Promise!Next
    BY <2>8 DEF Promise!Next
  <2>9. ASSUME NEW s \in Slots, NEW k \in DOMAIN entries, Promise!Load(s, k) PROVE Promise!Next
    BY <2>9, <2>7 DEF Promise!Next, kept
  <2>10. ASSUME NEW s \in Slots, NEW k \in DOMAIN entries' \ DOMAIN entries, Promise!Keep(s, k)
         PROVE  Promise!Next
    BY <2>10, <2>7 DEF Promise!Next, kept
  <2>11. ASSUME NEW k \in DOMAIN entries, Promise!Forget(k) PROVE Promise!Next
    BY <2>11, <2>7 DEF Promise!Next, kept
  <2>. QED BY <2>1, <2>2, <2>3, <2>4, <2>5, <2>6, <2>8, <2>9, <2>10, <2>11 DEF Next
<1>. QED  BY <1>1, <1>2, CoveredAlways, PTL DEF Spec, ImplementsSlotCache, Promise!Spec

-----------------------------------------------------------------------------
(* The dense cache, of the same slots and layers.  Here kv and pos are its
   cells and its cursors. *)
Dense == INSTANCE KVCache

DenseInv == /\ pos \in [Slots -> 0 .. MaxSeqLen]
            /\ kv \in [Dense!Layers -> [Slots -> [1 .. MaxSeqLen -> KVValue]]]

shown == [s \in Slots |-> [l \in Dense!Layers |-> [i \in 1 .. pos[s] |-> kv[l][s][i]]]]

LEMMA DenseInvariance == Dense!Spec => []DenseInv
<1>1. Dense!Init => DenseInv
  BY SizesAssumption DEF Dense!Init, DenseInv
<1>2. DenseInv /\ [Dense!Next]_(Dense!vars) => DenseInv'
  <2>. SUFFICES ASSUME DenseInv, [Dense!Next]_(Dense!vars) PROVE DenseInv'
    OBVIOUS
  <2>1. CASE UNCHANGED Dense!vars
    BY <2>1 DEF DenseInv, Dense!vars
  <2>2. ASSUME NEW s \in Slots, Dense!ResetSlot(s) PROVE DenseInv'
    BY <2>2, SizesAssumption DEF DenseInv, Dense!ResetSlot
  <2>3. ASSUME NEW s \in Slots, NEW layer \in Dense!Layers, NEW n \in 1 .. MaxSeqLen,
               NEW vals \in [1 .. n -> KVValue], Dense!AppendKV(s, layer, vals)
        PROVE  DenseInv'
    <3>1. Len(vals) = n /\ vals \in Seq(KVValue)
      OBVIOUS
    <3>2. pos' \in [Slots -> 0 .. MaxSeqLen]
      BY <2>3, <3>1 DEF DenseInv, Dense!AppendKV
    <3>3. \A i \in pos[s] + 1 .. pos[s] + n : vals[i - pos[s]] \in KVValue
      BY DEF DenseInv
    <3>4. kv' \in [Dense!Layers -> [Slots -> [1 .. MaxSeqLen -> KVValue]]]
      BY <2>3, <3>1, <3>3, SizesAssumption DEF DenseInv, Dense!AppendKV
    <3>. QED  BY <3>2, <3>4 DEF DenseInv
  <2>. QED  BY <2>1, <2>2, <2>3 DEF Dense!Next
<1>. QED  BY <1>1, <1>2, PTL DEF Dense!Spec

(* An append shows a slot more, the same number of cells in every layer, and
   nothing new to the other slots. *)
LEMMA DenseAppendExtends ==
  ASSUME DenseInv, DenseInv', NEW s \in Slots, NEW layer \in Dense!Layers,
         NEW n \in 1 .. MaxSeqLen, NEW vals \in [1 .. n -> KVValue],
         Dense!AppendKV(s, layer, vals)
  PROVE  Dense!Promise!Extend(s)
<1>1. Len(vals) = n
  OBVIOUS
<1>2. /\ pos[s] \in Nat /\ pos'[s] \in Nat /\ pos[s] <= pos'[s]
      /\ \A t \in Slots \ {s} : pos'[t] = pos[t]
  BY <1>1 DEF Dense!AppendKV, DenseInv
<1>3. \A l \in Dense!Layers, i \in 1 .. pos[s] : kv'[l][s][i] = kv[l][s][i]
  BY <1>1, <1>2, SizesAssumption DEF Dense!AppendKV, DenseInv
<1>4. \A l \in Dense!Layers : /\ shown[s][l] \in Seq(KVValue) /\ shown'[s][l] \in Seq(KVValue)
                        /\ Len(shown[s][l]) = pos[s] /\ Len(shown'[s][l]) = pos'[s]
  <2>. SUFFICES ASSUME NEW l \in Dense!Layers
                PROVE  /\ shown[s][l] \in Seq(KVValue) /\ shown'[s][l] \in Seq(KVValue)
                       /\ Len(shown[s][l]) = pos[s] /\ Len(shown'[s][l]) = pos'[s]
    OBVIOUS
  <2>1. kv[l][s] \in [1 .. MaxSeqLen -> KVValue] /\ pos[s] \in 0 .. MaxSeqLen
    BY DEF DenseInv
  <2>2. kv'[l][s] \in [1 .. MaxSeqLen -> KVValue] /\ pos'[s] \in 0 .. MaxSeqLen
    BY DEF DenseInv
  <2>3. /\ shown[s][l] = [i \in 1 .. pos[s] |-> kv[l][s][i]]
        /\ shown'[s][l] = [i \in 1 .. pos'[s] |-> kv'[l][s][i]]
    BY DEF shown
  <2>4. /\ [i \in 1 .. pos[s] |-> kv[l][s][i]] \in Seq(KVValue)
        /\ Len([i \in 1 .. pos[s] |-> kv[l][s][i]]) = pos[s]
    BY <2>1, SizesAssumption
  <2>5. /\ [i \in 1 .. pos'[s] |-> kv'[l][s][i]] \in Seq(KVValue)
        /\ Len([i \in 1 .. pos'[s] |-> kv'[l][s][i]]) = pos'[s]
    BY <2>2, SizesAssumption
  <2>. QED  BY <2>3, <2>4, <2>5
<1>5. \A l \in Dense!Layers : Dense!Promise!IsPrefix(shown[s][l], shown'[s][l])
  <2>. SUFFICES ASSUME NEW l \in Dense!Layers PROVE Dense!Promise!IsPrefix(shown[s][l], shown'[s][l])
    OBVIOUS
  <2>1. \A i \in 1 .. pos[s] : shown[s][l][i] = shown'[s][l][i]
    BY <1>2, <1>3 DEF shown
  <2>2. SubSeq(shown[s][l], 1, pos[s]) = SubSeq(shown'[s][l], 1, pos[s])
    BY <2>1, <1>4, <1>2
  <2>. QED  BY <2>2, <1>4, <1>2 DEF Dense!Promise!IsPrefix
<1>6. \A t \in Slots \ {s} : shown'[t] = shown[t]
  <2>. SUFFICES ASSUME NEW t \in Slots \ {s} PROVE shown'[t] = shown[t]
    OBVIOUS
  <2>1. \A l \in Dense!Layers : kv'[l][t] = kv[l][t]
    BY DEF Dense!AppendKV, DenseInv
  <2>. QED  BY <2>1, <1>2 DEF shown
<1>. QED  BY <1>4, <1>5, <1>6, <1>2 DEF Dense!Promise!Extend, Dense!Promise!Growth, Dense!Promise!Only, shown

(* A reset empties its slot, though the cells stay where they are. *)
LEMMA DenseResetClears ==
  ASSUME DenseInv, NEW s \in Slots, Dense!ResetSlot(s)
  PROVE  Dense!Promise!Clear(s)
<1>1. pos'[s] = 0 /\ \A t \in Slots \ {s} : pos'[t] = pos[t]
  BY DEF Dense!ResetSlot, DenseInv
<1>2. \A l \in Dense!Layers : [i \in 1 .. pos'[s] |-> kv'[l][s][i]] = <<>>
  BY <1>1
<1>3. shown' = [shown EXCEPT ![s] = [l \in Dense!Layers |-> <<>>]]
  <2>1. shown'[s] = [l \in Dense!Layers |-> <<>>]
    BY <1>2 DEF shown
  <2>2. \A t \in Slots \ {s} : shown'[t] = shown[t]
    BY <1>1 DEF shown, Dense!ResetSlot
  <2>. QED  BY <2>1, <2>2 DEF shown
<1>. QED  BY <1>3 DEF Dense!Promise!Clear, shown

(* The dense cache implements SlotCache without ever keeping a block. *)
THEOREM DenseCacheKeepsPromise ==
  Dense!Spec => Dense!ImplementsSlotCache
<1>1. Dense!Init => Dense!Promise!Init
  BY DEF Dense!Init, Dense!Promise!Init
<1>2. DenseInv /\ DenseInv' /\ [Dense!Next]_(Dense!vars) => [Dense!Promise!Next]_(Dense!Promise!svars)
  <2>. SUFFICES ASSUME DenseInv, DenseInv', [Dense!Next]_(Dense!vars) PROVE [Dense!Promise!Next]_(Dense!Promise!svars)
    OBVIOUS
  <2>1. CASE UNCHANGED Dense!vars
    BY <2>1 DEF Dense!vars, Dense!Promise!svars
  <2>2. ASSUME NEW s \in Slots, Dense!ResetSlot(s) PROVE Dense!Promise!Next
    BY <2>2, DenseResetClears DEF Dense!Promise!Next
  <2>3. ASSUME NEW s \in Slots, NEW layer \in Dense!Layers, NEW n \in 1 .. MaxSeqLen,
               NEW vals \in [1 .. n -> KVValue], Dense!AppendKV(s, layer, vals)
        PROVE  Dense!Promise!Next
    BY <2>3, DenseAppendExtends DEF Dense!Promise!Next
  <2>. QED  BY <2>1, <2>2, <2>3 DEF Dense!Next
<1>. QED  BY <1>1, <1>2, DenseInvariance, PTL DEF Dense!Spec, Dense!ImplementsSlotCache, Dense!Promise!Spec

-----------------------------------------------------------------------------
(* A pool as large as all tables together runs dry only of pinned blocks. *)

Bounded == \A s \in Slots : Len(tables[s]) <= BlocksNeeded(MaxSeqLen)

(* What an append that found the pool empty leaves until the next call *)
RanDry ==
  raised = "BlockPoolExhaustedError" =>
    /\ call = Idle
    /\ FreeBlocks = {}
    /\ \E s \in Slots : Len(tables[s]) < BlocksNeeded(MaxSeqLen)

LEMMA Granted ==
  ASSUME IInv, NEW s \in Slots, NEW m \in Nat, NEW q \in Grants(m),
         tables' = [tables EXCEPT ![s] = tables[s] \o q]
  PROVE  /\ Len(tables[s]) \in Nat /\ Len(tables'[s]) = Len(tables[s]) + m
         /\ \A t \in Slots \ {s} : tables'[t] = tables[t]
<1>1. tables \in [Slots -> Seq(Blocks)]
  BY DEF IInv, TypeOK
<1>2. q \in [1..m -> FreeBlocks] /\ FreeBlocks \subseteq Blocks
  BY DEF Grants, FreeBlocks
<1>3. q \in Seq(Blocks) /\ Len(q) = m
  BY <1>2
<1>4. Len(tables[s] \o q) = Len(tables[s]) + m /\ Len(tables[s]) \in Nat
  BY <1>1, <1>3, ConcatProperties, LenProperties
<1>. QED  BY <1>1, <1>4

(* All free blocks, each once: nothing is left. *)
LEMMA GrantOfAll ==
  ASSUME IInv, NEW q \in Grants(Cardinality(FreeBlocks)), Allocate(ToSet(q))
  PROVE  FreeBlocks' = {}
<1>. DEFINE m == Cardinality(FreeBlocks)
<1>1. IsFiniteSet(FreeBlocks) /\ m \in Nat
  BY FiniteAssumption, FS_Subset, FS_CardinalityType DEF FreeBlocks
<1>2. q \in [1..m -> FreeBlocks] /\ IsInjective(q)
  BY DEF Grants
<1>. HIDE DEF m
<1>3. q \in Injection(1..m, FreeBlocks)
  BY <1>2 DEF Injection, IsInjective
<1>4. Cardinality(1..m) = m
  BY <1>1, FS_Interval
<1>5. q \in Surjection(1..m, FreeBlocks)
  BY <1>1, <1>3, <1>4, FS_Injection DEF m
<1>6. FreeBlocks \subseteq ToSet(q)
  BY <1>2, <1>5 DEF Surjection, ToSet
<1>7. ASSUME NEW b \in Blocks PROVE ~(free'[b] > 0)
  <2>1. b \in ToSet(q) => free'[b] = free[b] - 1
    BY DEF Allocate
  <2>2. b \notin ToSet(q) => free'[b] = free[b]
    BY DEF Allocate
  <2>3. free[b] \in {0, 1}
    BY DEF IInv, PoolExact
  <2>4. free[b] = 1 => b \in ToSet(q)
    BY <1>6 DEF FreeBlocks
  <2>. QED BY <2>1, <2>2, <2>3, <2>4
<1>. QED  BY <1>7 DEF FreeBlocks

LEMMA RoomNeeded ==
  ASSUME IInv, NEW s \in Slots, NEW n \in Nat, pos[s] + n <= MaxSeqLen
  PROVE  /\ BlocksNeeded(pos[s] + n) \in Nat /\ BlocksNeeded(MaxSeqLen) \in Nat
         /\ BlocksNeeded(pos[s] + n) <= BlocksNeeded(MaxSeqLen)
<1>1. pos[s] + n \in Nat /\ MaxSeqLen \in Nat
  BY SizesAssumption DEF IInv, TypeOK
<1>. QED  BY <1>1, NeededMonotone

LEMMA AppendStoredBounded ==
  ASSUME IInv, Bounded, NEW s \in Slots, NEW layer, NEW vals \in Seq(KVValue),
         AppendStored(s, layer, vals)
  PROVE  Bounded'
<1>1. PICK q \in Grants(Lacking(s, Len(vals))) : tables' = [tables EXCEPT ![s] = tables[s] \o q]
  BY DEF AppendStored
<1>2. PICK n \in Nat : n = Len(vals) /\ pos[s] + n <= MaxSeqLen
  BY DEF AppendStored
<1>3. /\ BlocksNeeded(pos[s] + n) \in Nat /\ BlocksNeeded(MaxSeqLen) \in Nat
      /\ BlocksNeeded(pos[s] + n) <= BlocksNeeded(MaxSeqLen)
  BY <1>2, RoomNeeded
<1>4. Len(tables[s]) \in Nat
  BY LenProperties DEF IInv, TypeOK
<1>5. Lacking(s, n) \in Nat /\ \/ Lacking(s, n) = 0
                               \/ Len(tables[s]) + Lacking(s, n) = BlocksNeeded(pos[s] + n)
  BY <1>3, <1>4 DEF Lacking
<1>6. /\ Len(tables'[s]) = Len(tables[s]) + Lacking(s, n)
      /\ \A t \in Slots \ {s} : tables'[t] = tables[t]
  BY <1>1, <1>2, <1>5, Granted
<1>7. Len(tables'[s]) <= BlocksNeeded(MaxSeqLen)
  BY <1>3, <1>4, <1>5, <1>6 DEF Bounded
<1>. QED  BY <1>6, <1>7 DEF Bounded, BlocksNeeded

LEMMA AppendExhaustedBounded ==
  ASSUME IInv, Bounded, NEW s \in Slots, NEW layer, NEW vals \in Seq(KVValue),
         AppendExhausted(s, layer, vals)
  PROVE  Bounded' /\ RanDry'
<1>. DEFINE m == Cardinality(FreeBlocks)
<1>1. PICK q \in Grants(m) : /\ tables' = [tables EXCEPT ![s] = tables[s] \o q]
                             /\ Allocate(ToSet(q))
  BY DEF AppendExhausted
<1>2. PICK n \in Nat : n = Len(vals) /\ pos[s] + n <= MaxSeqLen /\ Lacking(s, n) > m
  BY DEF AppendExhausted
<1>3. /\ BlocksNeeded(pos[s] + n) \in Nat /\ BlocksNeeded(MaxSeqLen) \in Nat
      /\ BlocksNeeded(pos[s] + n) <= BlocksNeeded(MaxSeqLen)
  BY <1>2, RoomNeeded
<1>4. m \in Nat /\ Len(tables[s]) \in Nat
  BY FiniteAssumption, FS_Subset, FS_CardinalityType, LenProperties DEF FreeBlocks, IInv, TypeOK
<1>5. FreeBlocks' = {}
  BY <1>1, GrantOfAll
<1>. HIDE DEF m
<1>6. Len(tables[s]) + m < BlocksNeeded(pos[s] + n)
  BY <1>2, <1>3, <1>4 DEF Lacking
<1>7. /\ Len(tables'[s]) = Len(tables[s]) + m
      /\ \A t \in Slots \ {s} : tables'[t] = tables[t]
  BY <1>1, <1>4, Granted
<1>8. Len(tables'[s]) < BlocksNeeded(MaxSeqLen)
  BY <1>3, <1>4, <1>6, <1>7
<1>9. call' = Idle
  BY DEF AppendExhausted, cacheVars
<1>10. Bounded'
  BY <1>3, <1>4, <1>7, <1>8 DEF Bounded, BlocksNeeded
<1>11. RanDry'
  BY <1>5, <1>8, <1>9 DEF RanDry, BlocksNeeded
<1>. QED  BY <1>10, <1>11

LEMMA LoadHitBounded ==
  ASSUME IInv, Bounded, LoadHit
  PROVE  Bounded'
<1>1. PICK s \in Slots, tokens \in Prompts, m \in Nat \ {0} :
        /\ s = call.slot /\ tokens = call.tokens /\ m = MatchedBlocks
        /\ m \in 1 .. FullBlocks(tokens) /\ Key(tokens, m) \in DOMAIN entries
  <2>1. /\ call.slot \in Slots /\ call.tokens \in Prompts /\ call.next \in Nat \ {0}
        /\ call.next <= FullBlocks(call.tokens) + 1 /\ call.op = "lookup"
        /\ \A i \in 1 .. call.next - 1 : Key(call.tokens, i) \in DOMAIN entries
    BY DEF LoadHit, LookupOver, IInv, TypeOK, CallOK, Idle
  <2>2. FullBlocks(call.tokens) \in Nat
    BY <2>1, FullBlocksType
  <2>3. MatchedBlocks \in Nat \ {0} /\ MatchedBlocks <= FullBlocks(call.tokens)
    BY <2>1, <2>2 DEF LoadHit, MatchedBlocks
  <2>. QED BY <2>1, <2>2, <2>3 DEF MatchedBlocks
<1>2. PICK q : tables' = [tables EXCEPT ![s] = q] /\ q = [i \in 1 .. m |-> entries[Key(tokens, i)]]
  BY <1>1 DEF LoadHit
<1>3. Len(q) = m /\ tables'[s] = q /\ \A t \in Slots \ {s} : tables'[t] = tables[t]
  <2>1. Len(q) = m
    BY <1>2
  <2>. QED BY <1>2, <2>1 DEF IInv, TypeOK
<1>4. m * BlockSize \in Nat /\ m * BlockSize <= MaxSeqLen
  BY <1>1, KeyLength DEF IInv, KeysFit
<1>5. m <= BlocksNeeded(MaxSeqLen)
  <2>1. MaxSeqLen \in Nat /\ m \in Nat
    BY SizesAssumption
  <2>2. BlocksNeeded(m * BlockSize) <= BlocksNeeded(MaxSeqLen)
    BY <1>4, <2>1, NeededMonotone
  <2>. QED BY <2>1, <2>2, WholeBlocks
<1>. QED  BY <1>3, <1>5 DEF Bounded, BlocksNeeded

LEMMA ResetSlotBounded ==
  ASSUME IInv, Bounded, NEW s \in Slots, ResetSlot(s)
  PROVE  Bounded'
<1>1. tables' = [tables EXCEPT ![s] = <<>>] /\ tables \in [Slots -> Seq(Blocks)]
  BY DEF ResetSlot, Clear, IInv, TypeOK
<1>2. Len(<<>>) = 0 /\ MaxSeqLen \in Nat
  BY SizesAssumption
<1>3. BlocksNeeded(MaxSeqLen) \in Nat
  BY <1>2, NeededMonotone
<1>. QED  BY <1>1, <1>2, <1>3 DEF Bounded, BlocksNeeded

(* A call that starts clears what the last one left; inside a call nothing is
   left of an exhausted pool. *)
LEMMA OthersNotDry ==
  ASSUME RanDry, [Next]_vars,
         ~(\E s \in Slots, layer \in Layers, n \in 1..MaxSeqLen, v \in KVValue :
             AppendExhausted(s, layer, [i \in 1..n |-> v]))
  PROVE  RanDry'
<1>1. CASE UNCHANGED vars
  BY <1>1 DEF RanDry, vars, poolVars, tableVars, cacheVars, FreeBlocks, BlocksNeeded
<1>2. ASSUME raised' = "none" \/ raised' = "AssertionError" \/ raised' = "non-empty block table"
      PROVE  RanDry'
  BY <1>2 DEF RanDry
<1>3. ASSUME call.op = "lookup" \/ call.op = "insert" PROVE raised # "BlockPoolExhaustedError"
  BY <1>3 DEF RanDry, Idle
<1>4. ASSUME call.op = "lookup" \/ call.op = "insert", raised' = raised PROVE RanDry'
  BY <1>3, <1>4 DEF RanDry
<1>5. ASSUME NEW s \in Slots, NEW tokens \in Prompts,
             TryLoadPrefix(s, tokens) \/ RegisterPrefix(s, tokens)
      PROVE  RanDry'
  BY <1>2, <1>5 DEF TryLoadPrefix, RegisterPrefix
<1>6. ASSUME NEW s \in Slots, NEW layer \in Layers, NEW n \in 1..MaxSeqLen, NEW v \in KVValue,
             AppendKV(s, layer, [i \in 1..n |-> v])
      PROVE  RanDry'
  BY <1>2, <1>6 DEF AppendKV, AppendStored, AppendTooLong
<1>7. ASSUME NEW s \in Slots, ResetSlot(s) PROVE RanDry'
  BY <1>2, <1>7 DEF ResetSlot
<1>8. ASSUME Lookup PROVE RanDry'
  <2>1. CASE MatchBlock
    BY <1>4, <2>1 DEF MatchBlock
  <2>2. CASE LoadMiss
    BY <1>4, <2>2 DEF LoadMiss, LookupOver
  <2>3. CASE LoadHit
    BY <1>4, <2>3 DEF LoadHit, LookupOver
  <2>4. CASE LoadRejected
    BY <1>2, <2>4 DEF LoadRejected
  <2>. QED BY <1>8, <2>1, <2>2, <2>3, <2>4 DEF Lookup
<1>9. ASSUME Insert PROVE RanDry'
  BY <1>4, <1>9 DEF Insert, RenewEntry, EvictOldest, AddEntry
<1>. QED  BY <1>1, <1>5, <1>6, <1>7, <1>8, <1>9 DEF Next

LEMMA RoomAlways == Spec => [](Covered /\ Bounded /\ RanDry)
<1>. DEFINE Room == Bounded /\ RanDry
<1>1. Init => Room
  <2>1. Len(<<>>) = 0 /\ MaxSeqLen \in Nat
    BY SizesAssumption
  <2>2. BlocksNeeded(MaxSeqLen) \in Nat
    BY <2>1, NeededMonotone
  <2>. QED BY <2>1, <2>2 DEF Init, Bounded, RanDry
<1>2. Covered /\ Room /\ [Next]_vars => Room'
  <2>. SUFFICES ASSUME Covered, Room, [Next]_vars PROVE Room'
    OBVIOUS
  <2>1. IInv /\ Bounded /\ RanDry
    BY DEF Covered
  <2>2. CASE \E s \in Slots, layer \in Layers, n \in 1..MaxSeqLen, v \in KVValue :
               AppendExhausted(s, layer, [i \in 1..n |-> v])
    <3>1. PICK s \in Slots, layer \in Layers, n \in 1..MaxSeqLen, v \in KVValue :
            AppendExhausted(s, layer, [i \in 1..n |-> v])
      BY <2>2
    <3>. DEFINE vals == [i \in 1..n |-> v]
    <3>2. vals \in Seq(KVValue)
      BY UniformValues
    <3>3. AppendExhausted(s, layer, vals)
      BY <3>1
    <3>. HIDE DEF vals
    <3>. QED BY <2>1, <3>2, <3>3, AppendExhaustedBounded
  <2>3. CASE ~(\E s \in Slots, layer \in Layers, n \in 1..MaxSeqLen, v \in KVValue :
                 AppendExhausted(s, layer, [i \in 1..n |-> v]))
    <3>1. RanDry'
      BY <2>1, <2>3, OthersNotDry
    <3>2. ASSUME UNCHANGED tables PROVE Bounded'
      BY <2>1, <3>2 DEF Bounded, BlocksNeeded
    <3>3. ASSUME UNCHANGED vars PROVE Bounded'
      BY <3>2, <3>3 DEF vars, tableVars
    <3>4. ASSUME NEW s \in Slots, NEW tokens \in Prompts,
                 TryLoadPrefix(s, tokens) \/ RegisterPrefix(s, tokens)
          PROVE  Bounded'
      BY <3>2, <3>4 DEF TryLoadPrefix, RegisterPrefix, tableVars
    <3>5. ASSUME NEW s \in Slots, NEW layer \in Layers, NEW n \in 1..MaxSeqLen, NEW v \in KVValue,
                 AppendKV(s, layer, [i \in 1..n |-> v])
          PROVE  Bounded'
      <4>. DEFINE vals == [i \in 1..n |-> v]
      <4>1. vals \in Seq(KVValue)
        BY UniformValues
      <4>2. AppendStored(s, layer, vals) \/ AppendTooLong(s, layer, vals)
        BY <2>3, <3>5 DEF AppendKV
      <4>. HIDE DEF vals
      <4>3. CASE AppendStored(s, layer, vals)
        BY <2>1, <4>1, <4>3, AppendStoredBounded
      <4>4. CASE AppendTooLong(s, layer, vals)
        BY <3>2, <4>4 DEF AppendTooLong, tableVars
      <4>. QED BY <4>2, <4>3, <4>4
    <3>6. ASSUME NEW s \in Slots, ResetSlot(s) PROVE Bounded'
      BY <2>1, <3>6, ResetSlotBounded
    <3>7. ASSUME Lookup PROVE Bounded'
      <4>1. CASE LoadHit
        BY <2>1, <4>1, LoadHitBounded
      <4>. QED BY <3>2, <3>7, <4>1 DEF Lookup, MatchBlock, LoadMiss, LoadRejected, tableVars
    <3>8. ASSUME Insert PROVE Bounded'
      BY <3>2, <3>8 DEF Insert, RenewEntry, EvictOldest, AddEntry, tableVars
    <3>9. Bounded'
      BY <3>3, <3>4, <3>5, <3>6, <3>7, <3>8 DEF Next
    <3>. QED BY <3>1, <3>9
  <2>. QED BY <2>2, <2>3
<1>. HIDE DEF Room
<1>3. Spec => []Room
  BY <1>1, <1>2, CoveredAlways, PTL DEF Spec
<1>. QED  BY <1>3, CoveredAlways, PTL DEF Room

(* Blocks that are all in tables, one of which could have more: counted by
   their places, they are fewer than the pool has at least. *)
LEMMA TablesFull ==
  ASSUME IInv, Bounded, RanDry, PoolCoversSlots, raised = "BlockPoolExhaustedError"
  PROVE  \E b \in Blocks : holders[b] # {} /\ SlotHolders(b) = {}
<1>. SUFFICES ASSUME \A b \in Blocks : holders[b] # {} => SlotHolders(b) # {} PROVE FALSE
  OBVIOUS
<1>1. PICK s \in Slots : Len(tables[s]) < BlocksNeeded(MaxSeqLen)
  BY DEF RanDry
<1>2. PICK m \in Nat : m = BlocksNeeded(MaxSeqLen)
  <2>1. MaxSeqLen \in Nat
    BY SizesAssumption
  <2>. QED BY <2>1, NeededMonotone
<1>3. \A b \in Blocks : holders[b] # {}
  <2>1. FreeBlocks = {b \in Blocks : holders[b] = {}}
    BY PoolIsUnheld DEF IInv
  <2>. QED BY <2>1 DEF RanDry
<1>4. \A t \in Slots : tables[t] \in Seq(Blocks) /\ Len(tables[t]) \in Nat /\ Len(tables[t]) <= m
                       /\ DOMAIN tables[t] = 1 .. Len(tables[t])
  BY <1>2, LenProperties DEF Bounded, IInv, TypeOK
<1>. DEFINE All == Slots \X (1 .. m)
            Spots == All \ {<<s, m>>}
            Is(b, x) == x[2] \in DOMAIN tables[x[1]] /\ tables[x[1]][x[2]] = b
            place == [b \in Blocks |-> CHOOSE x \in Spots : Is(b, x)]
<1>5. ASSUME NEW b \in Blocks PROVE \E x \in Spots : Is(b, x)
  <2>1. PICK t \in Slots : b \in ToSet(tables[t])
    BY <1>3 DEF SlotHolders
  <2>2. PICK i \in DOMAIN tables[t] : tables[t][i] = b
    BY <2>1 DEF ToSet
  <2>3. i \in 1 .. m /\ (t = s => i # m)
    BY <1>1, <1>2, <1>4
  <2>4. <<t, i>> \in Spots /\ Is(b, <<t, i>>)
    BY <2>2, <2>3
  <2>. QED BY <2>4
<1>6. ASSUME NEW b \in Blocks PROVE place[b] \in Spots /\ Is(b, place[b])
  <2>. HIDE DEF Spots, Is
  <2>. QED BY <1>5
<1>7. place \in Injection(Blocks, Spots)
  <2>1. place \in [Blocks -> Spots]
    <3>1. place = [b \in Blocks |-> place[b]]
      OBVIOUS
    <3>. HIDE DEF place, Spots
    <3>. QED BY <1>6, <3>1
  <2>2. ASSUME NEW a \in Blocks, NEW b \in Blocks, place[a] = place[b] PROVE a = b
    <3>. HIDE DEF place, Spots
    <3>. QED BY <1>6, <2>2
  <2>. HIDE DEF place, Spots
  <2>. QED BY <2>1, <2>2 DEF Injection, IsInjective
<1>8. IsFiniteSet(1 .. m) /\ Cardinality(1 .. m) = m
  BY <1>2, FS_Interval
<1>9. IsFiniteSet(All) /\ Cardinality(All) = Cardinality(Slots) * m
  BY <1>8, FiniteAssumption, FS_Product
<1>10. <<s, m>> \in All
  BY <1>1, <1>2, <1>4
<1>. HIDE DEF All
<1>11. IsFiniteSet(Spots) /\ Cardinality(Spots) = Cardinality(All) - 1
  BY <1>9, <1>10, FS_RemoveElement
<1>. HIDE DEF Spots, place
<1>12. Cardinality(Blocks) <= Cardinality(All) - 1
  BY <1>7, <1>11, FS_Injection
<1>13. Cardinality(Blocks) >= Cardinality(All)
  BY <1>2, <1>9 DEF PoolCoversSlots
<1>14. Cardinality(Blocks) \in Nat /\ Cardinality(All) \in Nat
  BY <1>9, FiniteAssumption, FS_CardinalityType
<1>. QED  BY <1>12, <1>13, <1>14

(* With the pool of init_batch, an append finds it empty only when the prefix
   cache pins a block that no slot uses any more. *)
THEOREM OnlyPinsExhaustIt == Spec => []OnlyPinsExhaust
<1>1. Covered /\ Bounded /\ RanDry => OnlyPinsExhaust
  BY TablesFull DEF Covered, OnlyPinsExhaust
<1>. QED  BY <1>1, RoomAlways, PTL
=============================================================================
