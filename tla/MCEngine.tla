------------------------------ MODULE MCEngine ------------------------------
(***************************************************************************)
(* Requests, prompts and blocks for the runs of Engine: blocks of two      *)
(* tokens, and two slots of two or three blocks.                           *)
(***************************************************************************)
EXTENDS Engine, TLC

CONSTANTS r1, r2, r3, a, b, b1, b2, b3, b4, b5, b6

MCRequests == {r1, r2, r3}
MCToken == {a, b}
MCFourBlocks == {b1, b2, b3, b4}
MCSixBlocks == {b1, b2, b3, b4, b5, b6}
Symmetric == Permutations(Blocks)

(* The first two share a block and differ in the next; the third may grow
   until the pool is empty or it is too long. *)
MCForkedPrompts == r1 :> <<a, a, b, b, a>> @@ r2 :> <<a, a, b, a, b>> @@ r3 :> <<b>>
MCForkedMaxNew == r1 :> 1 @@ r2 :> 2 @@ r3 :> 7

(* Nothing shared; with the sampled tokens all fit four positions. *)
MCShortPrompts == r1 :> <<a, a, b>> @@ r2 :> <<b, b, a>> @@ r3 :> <<b>>
MCShortMaxNew == r1 :> 2 @@ r2 :> 1 @@ r3 :> 3

(* A prompt of whole blocks, sent twice. *)
MCAlignedPrompts == r1 :> <<a, a>> @@ r2 :> <<a, a>> @@ r3 :> <<b>>
=============================================================================
