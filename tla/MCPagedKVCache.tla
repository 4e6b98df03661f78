--------------------------- MODULE MCPagedKVCache ---------------------------
(***************************************************************************)
(* PagedKVCache on two slots of two blocks of two tokens.  The prompts     *)
(* share a first block, differ in the second, end inside a block or at its *)
(* end, so that hits, partial hits, misses and evictions all occur.        *)
(***************************************************************************)
EXTENDS PagedKVCache, TLC

CONSTANTS a, b, b1, b2, b3, b4, v1, v2

MCToken == {a, b}
MCPrompts == {<<a, a>>, <<a, a, b, b>>, <<b, b, a>>}
MCBlocks == {b1, b2, b3, b4}
Symmetric == Permutations(MCBlocks) \cup Permutations(KVValue)
=============================================================================
