----------------------------- MODULE MCHFEngine -----------------------------
(* Requests for the runs on the Hugging Face backend, with blocks of two tokens. *)
EXTENDS EngineMetrics, TLC

CONSTANTS r1, r2, r3, a, b

MCRequests == {r1, r2, r3}
MCToken == {a, b}

(* A prompt of whole blocks sent twice, and one that begins with the block
   the first two end with and grows too long. *)
MCPrompts == r1 :> <<a, a, b, b>> @@ r2 :> <<a, a, b, b>> @@ r3 :> <<b, b, b, b, a>>
MCMaxNew == r1 :> 1 @@ r2 :> 2 @@ r3 :> 3
=============================================================================
