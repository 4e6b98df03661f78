---------------------------- MODULE EngineWorker ----------------------------
(***************************************************************************)
(* The worker thread that steps the engine, the clients that submit        *)
(* requests and wait for them, each in a thread of its own, and the main   *)
(* thread that starts and stops the worker.                                *)
(*                                                                         *)
(* One lock guards the engine.  A client holds it for as long as one       *)
(* action here; the worker holds it for a whole step, while streaming      *)
(* clients take tokens from their queues and look at the stop flag without *)
(* it.  The engine is the one of EngineService, whose tokens come out one  *)
(* by one in a step.                                                       *)
(*                                                                         *)
(* The worker's wait has a timeout, so that a missed notify only delays    *)
(* it: it may wake whenever there is something to wake for.  Waking for    *)
(* nothing goes round the loop without effect, and is left out.            *)
(***************************************************************************)
EXTENDS Naturals, FiniteSets

CONSTANTS
  Requests,     \* one request per client
  MaxNew,
  Streams,      \* clients of generate_stream; the others use generate
  Timed         \* clients with a timeout

ASSUME ClientsAssumption == /\ Streams \subseteq Requests
                            /\ Timed \subseteq Requests \ Streams
                            /\ MaxNew \in [Requests -> Nat]

VARIABLES
  status, emitted,    \* the engine
  lock,               \* whether the worker holds _lock
  stop,               \* _stop
  thread,             \* "new", "alive" or "dead"
  wpc,                \* where the worker's loop is
  due,                \* requests the running step may still yield a token for
  mpc,                \* where the main thread is in stop()
  cpc,                \* cpc[r]: where the client of r is
  callbacks,          \* requests with a token callback
  token_queue,        \* token_queue[r]: number of tokens in it
  yielded,            \* yielded[r]: tokens the consumer of the stream has got
  finished            \* finished[r]: local variable of generate_stream

engineVars == <<status, emitted>>
workerVars == <<lock, thread, wpc, due>>
streamVars == <<callbacks, token_queue, yielded, finished>>
vars == <<engineVars, workerVars, stop, mpc, cpc, streamVars>>

Service == INSTANCE EngineService

HasWork == \E r \in Requests : status[r] = "queued"
Over(r) == status[r] \in {"completed", "failed"}

Init ==
  /\ Service!Init
  /\ lock = FALSE /\ stop = FALSE
  /\ thread = "new" /\ wpc = "none" /\ due = {}
  /\ mpc = "serving"
  /\ cpc = [r \in Requests |-> "new"]
  /\ callbacks = {}
  /\ token_queue = [r \in Requests |-> 0]
  /\ yielded = [r \in Requests |-> 0]
  /\ finished = [r \in Requests |-> FALSE]

-----------------------------------------------------------------------------
(* The main thread *)

(* start() of a live thread returns at once, whatever the flag; of one that
   has ended, it clears the flag and then raises. *)
Start ==
  /\ mpc \in {"serving", "stopped"}
  /\ thread # "alive"
  /\ stop' = FALSE
  /\ IF thread = "new" THEN thread' = "alive" /\ wpc' = "check"
                       ELSE UNCHANGED <<thread, wpc>>
  /\ mpc' = "serving"
  /\ UNCHANGED <<engineVars, lock, due, cpc, streamVars>>

(* stop(): set the flag, notify under the lock, join for a limited time.
   The notify itself changes nothing here. *)
StopSet ==
  /\ mpc = "serving" /\ thread # "new"
  /\ stop' = TRUE
  /\ mpc' = "notify"
  /\ UNCHANGED <<engineVars, workerVars, cpc, streamVars>>

StopNotify ==
  /\ mpc = "notify" /\ ~lock
  /\ mpc' = "join"
  /\ UNCHANGED <<engineVars, workerVars, stop, cpc, streamVars>>

StopJoin ==
  /\ mpc = "join"
  /\ mpc' = "stopped"
  /\ UNCHANGED <<engineVars, workerVars, stop, cpc, streamVars>>

-----------------------------------------------------------------------------
(* The worker's loop *)

WorkerEnds == thread' = "dead" /\ wpc' = "none"
WorkerGoes(p) == wpc' = p /\ UNCHANGED thread

WorkerCheck ==
  /\ wpc = "check"
  /\ IF stop THEN WorkerEnds ELSE WorkerGoes("acquire")
  /\ UNCHANGED <<engineVars, lock, due, stop, mpc, cpc, streamVars>>

(* the flag is tested again under the lock *)
WorkerLock ==
  /\ wpc = "acquire" /\ ~lock
  /\ IF stop THEN WorkerEnds /\ UNCHANGED lock
             ELSE WorkerGoes("locked") /\ lock' = TRUE
  /\ UNCHANGED <<engineVars, due, stop, mpc, cpc, streamVars>>

BeginStep ==
  /\ wpc = "locked" /\ HasWork
  /\ WorkerGoes("step")
  /\ due' = {r \in Requests : status[r] = "queued"}
  /\ UNCHANGED <<engineVars, lock, stop, mpc, cpc, streamVars>>

(* Slip: the worker sleeps with the lock in its hands. *)
WorkerWait_HoldsLock ==
  /\ wpc = "locked" /\ ~HasWork
  /\ WorkerGoes("wait")
  /\ UNCHANGED <<engineVars, lock, due, stop, mpc, cpc, streamVars>>

(* the condition's wait gives the lock back *)
WorkerWait ==
  /\ wpc = "locked" /\ ~HasWork
  /\ WorkerGoes("wait")
  /\ lock' = FALSE
  /\ UNCHANGED <<engineVars, due, stop, mpc, cpc, streamVars>>

(* Slip: only work ends the wait. *)
WorkerWake_ForWorkOnly ==
  /\ wpc = "wait" /\ ~lock /\ HasWork
  /\ WorkerGoes("check")
  /\ UNCHANGED <<engineVars, lock, due, stop, mpc, cpc, streamVars>>

WorkerWake ==
  /\ wpc = "wait" /\ ~lock
  /\ HasWork \/ stop
  /\ WorkerGoes("check")
  /\ UNCHANGED <<engineVars, lock, due, stop, mpc, cpc, streamVars>>

(* the engine reports a token: the scheduler first, then the callback *)
Report(r) ==
  /\ wpc = "step" /\ r \in due
  /\ Service!Emit(r)
  /\ due' = due \ {r}
  /\ token_queue' = IF r \in callbacks THEN [token_queue EXCEPT ![r] = @ + 1] ELSE token_queue
  /\ UNCHANGED <<lock, thread, wpc, stop, mpc, cpc, callbacks, yielded, finished>>

(* a step need not yield a token for every request: its slot or chunk may
   not be due *)
EndStep ==
  /\ wpc = "step"
  /\ WorkerGoes("check")
  /\ lock' = FALSE /\ due' = {}
  /\ UNCHANGED <<engineVars, stop, mpc, cpc, streamVars>>

(* step() raises: nothing catches it, the lock is released on the way out *)
StepRaises ==
  /\ wpc = "step"
  /\ WorkerEnds
  /\ lock' = FALSE /\ due' = {}
  /\ UNCHANGED <<engineVars, stop, mpc, cpc, streamVars>>

-----------------------------------------------------------------------------
(* The clients *)

ClientGoes(r, p) == cpc' = [cpc EXCEPT ![r] = p]

Submit(r) ==
  /\ cpc[r] = "new" /\ ~lock
  /\ Service!Submit(r)
  /\ callbacks' = IF r \in Streams THEN callbacks \cup {r} ELSE callbacks
  /\ ClientGoes(r, "poll")
  /\ UNCHANGED <<workerVars, stop, mpc, token_queue, yielded, finished>>

(* while not self._stop.is_set() *)
Poll(r) ==
  /\ cpc[r] = "poll"
  /\ ClientGoes(r, IF ~stop THEN "look" ELSE IF r \in Streams THEN "quit" ELSE "error")
  /\ UNCHANGED <<engineVars, workerVars, stop, mpc, streamVars>>

(* generate(): the result, or the deadline, or another round *)
LookResult(r) ==
  /\ cpc[r] = "look" /\ r \notin Streams /\ ~lock
  /\ ClientGoes(r, IF Over(r) THEN "returned" ELSE "poll")
  /\ UNCHANGED <<engineVars, workerVars, stop, mpc, streamVars>>

LookTimeout(r) ==
  /\ cpc[r] = "look" /\ r \in Timed /\ ~lock
  /\ ~Over(r)
  /\ Service!Cancel(r)
  /\ ClientGoes(r, "returned")
  /\ UNCHANGED <<workerVars, stop, mpc, streamVars>>

(* Slip: the queue is not read again once the request is over. *)
LookFinished_ThenClose(r) ==
  /\ cpc[r] = "look" /\ r \in Streams /\ ~lock
  /\ finished' = [finished EXCEPT ![r] = Over(r)]
  /\ ClientGoes(r, IF Over(r) THEN "close" ELSE "drain")
  /\ UNCHANGED <<engineVars, workerVars, stop, mpc, callbacks, token_queue, yielded>>

(* generate_stream(): is it over? is asked before the queue is drained *)
LookFinished(r) ==
  /\ cpc[r] = "look" /\ r \in Streams /\ ~lock
  /\ finished' = [finished EXCEPT ![r] = Over(r)]
  /\ ClientGoes(r, "drain")
  /\ UNCHANGED <<engineVars, workerVars, stop, mpc, callbacks, token_queue, yielded>>

(* Slip: an empty queue yields a token too. *)
TakeToken_Unchecked(r) ==
  /\ cpc[r] = "drain"
  /\ token_queue' = [token_queue EXCEPT ![r] = @ - 1]
  /\ yielded' = [yielded EXCEPT ![r] = @ + 1]
  /\ UNCHANGED <<engineVars, workerVars, stop, mpc, cpc, callbacks, finished>>

TakeToken(r) ==
  /\ cpc[r] = "drain" /\ token_queue[r] > 0
  /\ token_queue' = [token_queue EXCEPT ![r] = @ - 1]
  /\ yielded' = [yielded EXCEPT ![r] = @ + 1]
  /\ UNCHANGED <<engineVars, workerVars, stop, mpc, cpc, callbacks, finished>>

Drained(r) ==
  /\ cpc[r] = "drain" /\ token_queue[r] = 0
  /\ ClientGoes(r, IF finished[r] THEN "close" ELSE "poll")
  /\ UNCHANGED <<engineVars, workerVars, stop, mpc, streamVars>>

(* the consumer closes the generator where it has just yielded *)
Abandon(r) ==
  /\ cpc[r] = "drain" /\ yielded[r] > 0
  /\ ClientGoes(r, "quit")
  /\ UNCHANGED <<engineVars, workerVars, stop, mpc, streamVars>>

(* finally: unregister_token_callback *)
Close(r) ==
  /\ cpc[r] \in {"close", "quit"} /\ ~lock
  /\ ClientGoes(r, IF cpc[r] = "close" THEN "closed" ELSE "left")
  /\ callbacks' = callbacks \ {r}
  /\ UNCHANGED <<engineVars, workerVars, stop, mpc, token_queue, yielded, finished>>

Ended == {"returned", "error", "closed", "left"}

-----------------------------------------------------------------------------
Main == Start \/ StopSet \/ StopNotify \/ StopJoin
Worker == WorkerCheck \/ WorkerLock \/ BeginStep \/ WorkerWait \/ WorkerWake \/ EndStep
Look(r) == Poll(r) \/ LookResult(r) \/ LookFinished(r) \/ Drained(r) \/ Close(r)
Client(r) == Look(r) \/ TakeToken(r)

Next ==
  \/ Main \/ Worker \/ StepRaises
  \/ \E r \in Requests : \/ Submit(r) \/ Report(r) \/ Client(r)
                         \/ LookTimeout(r) \/ Abandon(r)

Spec == Init /\ [][Next]_vars

(* Threads run.  A step yields tokens for every request again and again, as
   the engine serves every request.  Nothing is assumed of the main thread,
   of deadlines, of consumers or of who submits; and the lock need not be
   fair: a client is sure of it only while it stays free. *)
FairSpec ==
  /\ Spec
  /\ WF_vars(Worker)
  /\ \A r \in Requests : SF_vars(Report(r)) /\ WF_vars(Client(r))

-----------------------------------------------------------------------------
TypeOK ==
  /\ status \in [Requests -> {"new", "queued", "completed", "failed"}]
  /\ emitted \in [Requests -> Nat]
  /\ lock \in BOOLEAN /\ stop \in BOOLEAN
  /\ thread \in {"new", "alive", "dead"}
  /\ wpc \in {"none", "check", "acquire", "locked", "step", "wait"}
  /\ due \subseteq Requests
  /\ mpc \in {"serving", "notify", "join", "stopped"}
  /\ cpc \in [Requests -> {"new", "poll", "look", "drain", "close", "quit"} \cup Ended]
  /\ callbacks \subseteq Streams
  /\ token_queue \in [Requests -> Nat]
  /\ yielded \in [Requests -> Nat]
  /\ finished \in [Requests -> BOOLEAN]

(* No token is lost between the step that generates it and the consumer, who
   does not take the lock to read the queue; a stream that ends of itself has
   delivered every token of a completed request. *)
StreamDeliversAll ==
  \A r \in Streams :
    /\ cpc[r] \in {"poll", "look", "drain"} => yielded[r] + token_queue[r] = emitted[r]
    /\ cpc[r] \in {"close", "closed"} => status[r] = "completed" /\ yielded[r] = emitted[r]

(* Every client gets its answer, its error or the end of its stream, however
   steps, deadlines, other clients and stop() come between its looks, unless
   no thread runs and the stop flag is not set, for good or again and again:
   before start(), after an exception of a step, or by a start() after stop(). *)
Stranded == thread # "alive" /\ ~stop
ClientReturns ==
  \A r \in Requests : []<>Stranded \/ (cpc[r] = "poll" ~> cpc[r] \in Ended)

(* stop() ends the thread, also when it waits for work or is in a step, unless
   start() clears the flag first. *)
StopEndsThread == stop ~> (thread = "dead" \/ ~stop)
=============================================================================
