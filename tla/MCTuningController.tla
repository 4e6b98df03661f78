------------------------- MODULE MCTuningController -------------------------
(* The policy's steps and bounds are the code's.  A unit of time is the 30
   seconds of the interval and the cooldown; the evaluation and the queue
   window take 60. *)
EXTENDS TuningController

MCStarts == {[chunk |-> c, budget |-> b, concurrent |-> 2, prefix |-> FALSE] :
               c \in {128}, b \in {512}}

Reading(t, p, e, q) == [ttft |-> t, tps |-> p, err |-> e, queued |-> q,
                        active |-> 1, prefixFriendly |-> TRUE]
MCReadings == {Reading(600, 20, 0, 2), Reading(400, 5, 0, 2), Reading(0, 0, 6, 0)}
=============================================================================
