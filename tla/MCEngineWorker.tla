--------------------------- MODULE MCEngineWorker ---------------------------
(***************************************************************************)
(* Completions with a plain, a timed and a streaming client.               *)
(***************************************************************************)
EXTENDS Completions, TLC

CONSTANTS plain, timed, stream

MCMaxNew == plain :> 0 @@ timed :> 1 @@ stream :> 2
=============================================================================
