------------------------------ MODULE MCBench ------------------------------
(***************************************************************************)
(* Two threads that send two prompts to a server with one slot and room    *)
(* for one timestamp, and a dashboard that polls.                          *)
(***************************************************************************)
EXTENDS Bench, TLC

CONSTANTS t1, t2
=============================================================================
