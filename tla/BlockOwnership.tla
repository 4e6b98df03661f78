--------------------------- MODULE BlockOwnership ---------------------------
(***************************************************************************)
(* What a pool of reference-counted KV blocks promises its users.  A block *)
(* is either in the pool or held by a non-empty set of holders: block      *)
(* tables of slots and entries of the prefix cache.  Blocks leave the pool *)
(* for one holder, gain further holders while they are held, and go back   *)
(* to the pool in the step in which their last holder lets go.             *)
(*                                                                         *)
(* PagedKVCache implements this with a free list, an in-use set and        *)
(* integer reference counts.                                               *)
(***************************************************************************)
EXTENDS FiniteSets

CONSTANTS Blocks, Holders

VARIABLES
  pool,      \* blocks nobody holds and that may be handed out
  holders    \* holders[b]: who holds block b

ovars == <<pool, holders>>

Init == /\ pool = Blocks
        /\ holders = [b \in Blocks |-> {}]

(* A holder takes blocks out of the pool and is alone in holding them. *)
Acquire(h, B) ==
  /\ B \subseteq pool
  /\ pool' = pool \ B
  /\ holders' = [b \in Blocks |-> IF b \in B THEN {h} ELSE holders[b]]

(* A new holder joins the holders of blocks that are held already. *)
Share(h, B) ==
  /\ \A b \in B : holders[b] # {} /\ h \notin holders[b]
  /\ pool' = pool
  /\ holders' = [b \in Blocks |-> IF b \in B THEN holders[b] \cup {h}
                                            ELSE holders[b]]

(* A holder lets go of everything it holds. *)
Drop(h) ==
  /\ holders' = [b \in Blocks |-> holders[b] \ {h}]
  /\ pool' = pool \cup {b \in Blocks : holders[b] = {h}}

Next == \E h \in Holders :
          \/ \E B \in SUBSET Blocks : Acquire(h, B) \/ Share(h, B)
          \/ Drop(h)

Spec == Init /\ [][Next]_ovars
=============================================================================
