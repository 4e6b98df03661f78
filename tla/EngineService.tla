--------------------------- MODULE EngineService ----------------------------
(***************************************************************************)
(* What the engine promises to the threads that use it.  A request that is *)
(* queued yields its tokens one by one and completes with its last one,    *)
(* unless it is cancelled first; a request that has completed or failed    *)
(* stays so, and yields nothing more.                                      *)
(*                                                                         *)
(* Engine implements this; EngineWorker is built on it.                    *)
(***************************************************************************)
EXTENDS Naturals

CONSTANTS
  Requests,
  MaxNew       \* MaxNew[r]: max_new_tokens

VARIABLES
  status,      \* status[r]: new, queued, completed or failed
  emitted      \* emitted[r]: tokens generated so far

svars == <<status, emitted>>

Init == /\ status = [r \in Requests |-> "new"]
        /\ emitted = [r \in Requests |-> 0]

Submit(r) ==
  /\ status[r] = "new"
  /\ status' = [status EXCEPT ![r] = "queued"]
  /\ UNCHANGED emitted

(* The first token comes whatever max_new_tokens is. *)
Emit(r) ==
  /\ status[r] = "queued"
  /\ emitted' = [emitted EXCEPT ![r] = @ + 1]
  /\ status' = IF emitted'[r] >= MaxNew[r]
               THEN [status EXCEPT ![r] = "completed"] ELSE status

Cancel(r) ==
  /\ status[r] = "queued"
  /\ status' = [status EXCEPT ![r] = "failed"]
  /\ UNCHANGED emitted

Next == \E r \in Requests : Submit(r) \/ Emit(r) \/ Cancel(r)

Spec == Init /\ [][Next]_svars
=============================================================================
