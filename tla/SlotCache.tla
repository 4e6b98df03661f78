----------------------------- MODULE SlotCache -----------------------------
(***************************************************************************)
(* What a KV cache promises the attention layers.  Each slot and layer has *)
(* a sequence of cells, which get() returns; it grows at its end, in all   *)
(* layers at once, and is emptied, by calls for that slot and by nothing   *)
(* else.  The cells of a prompt's blocks may be kept under the prompt's    *)
(* prefixes, stay as they were when they were kept, and may be loaded into *)
(* a slot in place of computing them again.                                *)
(*                                                                         *)
(* KVCache implements this without keeping anything, PagedKVCache with a   *)
(* pool of shared blocks.                                                  *)
(***************************************************************************)
EXTENDS Integers, Sequences, SequencesExt

CONSTANTS Slots, Layers, BlockSize

VARIABLES
  seen,      \* seen[s][l]: the cells of slot s in layer l
  kept       \* kept[k][l]: the cells of the block that prefix k ends with

svars == <<seen, kept>>

Init == seen = [s \in Slots |-> [l \in Layers |-> <<>>]] /\ kept = <<>>

Only(s) == \A t \in Slots \ {s} : seen'[t] = seen[t]

Growth(s, l) == Len(seen'[s][l]) - Len(seen[s][l])
Extend(s) ==
  /\ \A l, m \in Layers : Growth(s, l) = Growth(s, m)
  /\ \A l \in Layers : IsPrefix(seen[s][l], seen'[s][l])
  /\ Only(s) /\ UNCHANGED kept

Clear(s) ==
  /\ seen' = [seen EXCEPT ![s] = [l \in Layers |-> <<>>]]
  /\ UNCHANGED kept

(* the blocks of the prefixes of k, which are all kept *)
Load(s, k) ==
  LET chain == [i \in 1 .. Len(k) \div BlockSize |-> SubSeq(k, 1, i * BlockSize)] IN
    /\ ToSet(chain) \subseteq DOMAIN kept
    /\ seen' = [seen EXCEPT ![s] = [l \in Layers |->
                  FlattenSeq([i \in DOMAIN chain |-> kept[chain[i]][l]])]]
    /\ UNCHANGED kept

Keep(s, k) ==
  /\ \A l \in Layers : Len(k) <= Len(seen[s][l])
  /\ DOMAIN kept' = DOMAIN kept \cup {k}
  /\ \A j \in DOMAIN kept : kept'[j] = kept[j]
  /\ kept'[k] = [l \in Layers |-> SubSeq(seen[s][l], Len(k) - BlockSize + 1, Len(k))]
  /\ UNCHANGED seen

Forget(k) == kept' = [j \in DOMAIN kept \ {k} |-> kept[j]] /\ UNCHANGED seen

Next ==
  \/ \E s \in Slots : Extend(s) \/ Clear(s)
  \/ \E s \in Slots, k \in DOMAIN kept : Load(s, k)
  \/ \E s \in Slots, k \in DOMAIN kept' \ DOMAIN kept : Keep(s, k)
  \/ \E k \in DOMAIN kept : Forget(k)

Spec == Init /\ [][Next]_svars
=============================================================================
