---------------------------- MODULE MCScheduler -----------------------------
(***************************************************************************)
(* Scheduler with three requests on up to three slots.  Prompts of one to  *)
(* three tokens, chunks of one and two and budgets of two and three make  *)
(* rows that fit, do not fit, and leave room for a later row.              *)
(***************************************************************************)
EXTENDS Scheduler, TLC

CONSTANTS r1, r2, r3

MCRequests == {r1, r2, r3}
MCPromptLen == r1 :> 1 @@ r2 :> 3 @@ r3 :> 2
MCMaxNew == r1 :> 2 @@ r2 :> 1 @@ r3 :> 0
=============================================================================
