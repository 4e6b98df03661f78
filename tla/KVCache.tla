------------------------------ MODULE KVCache ------------------------------
(***************************************************************************)
(* The dense KV cache: max_seq_len cells for every slot and layer,         *)
(* allocated once, and a write cursor per slot.  Nothing is shared and     *)
(* nothing is ever erased: a slot that is reset keeps the cells of its     *)
(* last request above the cursor, and before the first they hold whatever  *)
(* torch.empty found.                                                      *)
(***************************************************************************)
EXTENDS Integers, Sequences

CONSTANTS Slots, KVValue, MaxSeqLen, NumLayers, BlockSize

VARIABLES
  kv,       \* kv[l][s][i]: cell i of slot s in layer l
  pos       \* pos[s]: tokens cached for slot s

vars == <<kv, pos>>

Layers == 0 .. NumLayers - 1

Init ==
  /\ kv \in [Layers -> [Slots -> [1 .. MaxSeqLen -> KVValue]]]
  /\ pos = [s \in Slots |-> 0]

(* append to one layer, which the assertion lets through only if it fits;
   the last layer moves the cursor *)
AppendKV(s, layer, vals) ==
  /\ pos[s] + Len(vals) <= MaxSeqLen
  /\ kv' = [kv EXCEPT ![layer][s] = [i \in 1 .. MaxSeqLen |->
              IF i \in pos[s] + 1 .. pos[s] + Len(vals) THEN vals[i - pos[s]] ELSE @[i]]]
  /\ pos' = IF layer = NumLayers - 1 THEN [pos EXCEPT ![s] = @ + Len(vals)] ELSE pos

ResetSlot(s) == pos' = [pos EXCEPT ![s] = 0] /\ UNCHANGED kv

Next ==
  \E s \in Slots :
    \/ ResetSlot(s)
    \/ \E layer \in Layers, n \in 1 .. MaxSeqLen : \E vals \in [1 .. n -> KVValue] :
         AppendKV(s, layer, vals)

Spec == Init /\ [][Next]_vars

-----------------------------------------------------------------------------
(* get() returns the cells below the cursor: what they show changes only as
   SlotCache promises, by calls for that slot, whatever the cells above hold
   and in whatever order the layers are written. *)
Promise == INSTANCE SlotCache WITH
             seen <- [s \in Slots |-> [l \in Layers |->
                        [i \in 1 .. pos[s] |-> kv[l][s][i]]]],
             kept <- <<>>
ImplementsSlotCache == Promise!Spec
=============================================================================
