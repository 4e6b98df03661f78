------------------------- MODULE CompletionsProofs -------------------------
(***************************************************************************)
(* Streams lose no token, and streamed completions are the worker's        *)
(* streams, event by event, for any number of clients of either kind.      *)
(***************************************************************************)
EXTENDS Completions, TLAPS

-----------------------------------------------------------------------------
(* The worker: streams of tokens. *)

(* Where a stream is, what it has got and what is in its queue.  A stream is
   never cancelled: it has no deadline. *)
StreamState(r) ==
  /\ status[r] # "failed"
  /\ cpc[r] = "new" =>
       status[r] = "new" /\ emitted[r] = 0 /\ token_queue[r] = 0 /\ yielded[r] = 0
  /\ cpc[r] \in {"poll", "look", "drain"} =>
       r \in callbacks /\ yielded[r] + token_queue[r] = emitted[r]
  /\ cpc[r] = "drain" /\ finished[r] => status[r] = "completed"
  /\ cpc[r] \in {"close", "closed"} => status[r] = "completed" /\ yielded[r] = emitted[r]

IInv == TypeOK /\ \A r \in Streams : StreamState(r)

LEMMA StreamsAreRequests == Streams \subseteq Requests /\ Timed \cap Streams = {}
                            /\ MaxNew \in [Requests -> Nat]
BY ClientsAssumption

LEMMA InitIInv == Init => IInv
<1> SUFFICES ASSUME Init PROVE IInv
  OBVIOUS
<1> USE StreamsAreRequests DEF Init, Service!Init
<1>1. TypeOK
  BY DEF TypeOK, Ended
<1>2. ASSUME NEW r \in Streams PROVE StreamState(r)
  BY DEF StreamState
<1> QED BY <1>1, <1>2 DEF IInv

(* The lock, the flag, the thread and the main thread are no part of what a
   stream sees. *)
LEMMA ThreadsKeepIInv ==
  ASSUME IInv, Main \/ Worker \/ StepRaises
  PROVE  IInv'
<1> USE StreamsAreRequests DEF IInv, streamVars, engineVars, workerVars, WorkerEnds, WorkerGoes
<1>1. ASSUME NEW r \in Streams,
             UNCHANGED <<engineVars, cpc, streamVars>>
      PROVE  StreamState(r)'
  BY <1>1 DEF StreamState
<1>2. CASE Main
  <2>1. TypeOK'
    BY <1>2 DEF Main, Start, StopSet, StopNotify, StopJoin, TypeOK, Ended
  <2>2. UNCHANGED <<engineVars, cpc, streamVars>>
    BY <1>2 DEF Main, Start, StopSet, StopNotify, StopJoin
  <2> QED BY <1>1, <2>1, <2>2
<1>3. CASE Worker \/ StepRaises
  <2>1. TypeOK'
    BY <1>3 DEF Worker, WorkerCheck, WorkerLock, BeginStep, WorkerWait, WorkerWake, EndStep,
                StepRaises, TypeOK, Ended
  <2>2. UNCHANGED <<engineVars, cpc, streamVars>>
    BY <1>3 DEF Worker, WorkerCheck, WorkerLock, BeginStep, WorkerWait, WorkerWake, EndStep,
                StepRaises
  <2> QED BY <1>1, <2>1, <2>2
<1> QED BY <1>2, <1>3

(* A token reaches the queue of its stream in the step that generates it. *)
LEMMA ReportKeepsIInv ==
  ASSUME IInv, NEW q \in Requests, Report(q)
  PROVE  IInv'
<1> USE StreamsAreRequests DEF IInv, Report, Service!Emit
<1>1. TypeOK'
  BY DEF TypeOK, Ended
<1>2. ASSUME NEW r \in Streams PROVE StreamState(r)'
  <2>1. StreamState(r) /\ r \in Requests
    OBVIOUS
  <2>2. CASE r = q
    <3>1. status[r] = "queued" /\ status'[r] \in {"queued", "completed"}
      BY <2>2 DEF TypeOK
    <3>2. cpc[r] \in {"poll", "look", "drain"} =>
            yielded'[r] + token_queue'[r] = emitted'[r]
      BY <2>1, <2>2 DEF TypeOK, StreamState
    <3>3. ~(cpc[r] = "drain" /\ finished[r]) /\ cpc[r] \notin {"new", "close", "closed"}
      BY <2>1, <3>1 DEF StreamState
    <3> QED BY <2>1, <3>1, <3>2, <3>3 DEF StreamState
  <2>3. CASE r # q
    BY <2>1, <2>3 DEF TypeOK, StreamState
  <2> QED BY <2>2, <2>3
<1> QED BY <1>1, <1>2

LEMMA ClientKeepsIInv ==
  ASSUME IInv, NEW q \in Requests,
         Submit(q) \/ Client(q) \/ LookTimeout(q) \/ Abandon(q)
  PROVE  IInv'
<1> USE StreamsAreRequests DEF IInv, engineVars, workerVars, streamVars, ClientGoes, Over
<1>1. TypeOK'
  <2>1. CASE Submit(q) \/ LookTimeout(q)
    BY <2>1 DEF Submit, LookTimeout, Service!Submit, Service!Cancel, TypeOK, Ended
  <2>2. CASE Poll(q) \/ LookResult(q)
    BY <2>2 DEF Poll, LookResult, TypeOK, Ended
  <2>3. CASE LookFinished(q)
    BY <2>3 DEF LookFinished, TypeOK, Ended
  <2>4. CASE TakeToken(q)
    BY <2>4 DEF TakeToken, TypeOK, Ended
  <2>5. CASE Drained(q) \/ Abandon(q)
    BY <2>5 DEF Drained, Abandon, TypeOK, Ended
  <2>6. CASE Close(q)
    BY <2>6 DEF Close, TypeOK, Ended
  <2> QED BY <2>1, <2>2, <2>3, <2>4, <2>5, <2>6 DEF Client, Look
<1>2. ASSUME NEW r \in Streams PROVE StreamState(r)'
  <2>0. StreamState(r) /\ r \in Requests /\ TypeOK
    OBVIOUS
  <2>1. CASE Submit(q)
    BY <2>0, <2>1 DEF Submit, Service!Submit, StreamState, TypeOK
  <2>2. CASE Poll(q)
    BY <2>0, <2>2 DEF Poll, StreamState, TypeOK
  <2>3. CASE LookResult(q)
    BY <2>0, <2>3 DEF LookResult, StreamState, TypeOK
  <2>4. CASE LookFinished(q)
    BY <2>0, <2>4 DEF LookFinished, StreamState, TypeOK
  <2>5. CASE TakeToken(q)
    BY <2>0, <2>5 DEF TakeToken, StreamState, TypeOK
  <2>6. CASE Drained(q)
    BY <2>0, <2>6 DEF Drained, StreamState, TypeOK
  <2>7. CASE Close(q)
    BY <2>0, <2>7 DEF Close, StreamState, TypeOK
  <2>8. CASE LookTimeout(q)
    BY <2>0, <2>8 DEF LookTimeout, Service!Cancel, StreamState, TypeOK
  <2>9. CASE Abandon(q)
    BY <2>0, <2>9 DEF Abandon, StreamState, TypeOK
  <2> QED BY <2>1, <2>2, <2>3, <2>4, <2>5, <2>6, <2>7, <2>8, <2>9 DEF Client, Look
<1> QED BY <1>1, <1>2

LEMMA StutterKeepsIInv == IInv /\ UNCHANGED vars => IInv'
BY DEF IInv, vars, engineVars, workerVars, streamVars, TypeOK, StreamState

THEOREM InductiveInvariant == Spec => []IInv
<1>1. IInv /\ [Next]_vars => IInv'
  BY ThreadsKeepIInv, ReportKeepsIInv, ClientKeepsIInv, StutterKeepsIInv DEF Next
<1> QED BY InitIInv, <1>1, PTL DEF Spec

(* Every reachable state of worker, clients and streams is well typed. *)
THEOREM TypeCorrect == Spec => []TypeOK
<1>1. IInv => TypeOK
  BY DEF IInv
<1> QED BY <1>1, InductiveInvariant, PTL

(* A stream that ends of itself has delivered every token of a completed
   request, and until then none is lost between engine and consumer. *)
THEOREM StreamsDeliverAll == Spec => []StreamDeliversAll
<1>1. IInv => StreamDeliversAll
  BY DEF IInv, StreamState, StreamDeliversAll
<1> QED BY <1>1, InductiveInvariant, PTL

-----------------------------------------------------------------------------
(* The completions endpoint: streams of events. *)

(* stop() has been called, or a step has raised.  A thread that has ended
   never runs again, so that this stays true. *)
Halted == stop \/ thread = "dead"

EventsTypeOK ==
  /\ pending \in [Streams -> {0, 1}]
  /\ sent \in [Streams -> Nat]
  /\ event \in [Streams -> {"none", "text", "length", "[DONE]", "gone"}]

(* Where a stream of events is, against the stream of tokens below it. *)
EventState(r) ==
  /\ sent[r] + pending[r] = yielded[r]
  /\ event[r] \in {"length", "[DONE]"} => cpc[r] \in {"closed", "left"} /\ pending[r] = 0
  /\ event[r] = "length" => sent[r] > 0
  /\ cpc[r] \in {"quit", "left"} => event[r] = "gone" \/ Halted

EInv ==
  /\ IInv /\ EventsTypeOK
  /\ stop => thread # "new"
  /\ \A r \in Streams : EventState(r)

-----------------------------------------------------------------------------
(* Whatever the handlers do is a step of the worker's specification. *)
LEMMA WorkerBelow == CompletionsNext => [Next]_vars
<1> USE StreamsAreRequests DEF Next, Client
<1>1. CASE (Main \/ Worker \/ StepRaises) /\ UNCHANGED eventVars
  BY <1>1
<1>2. ASSUME NEW r \in Requests, Submit(r) \/ Report(r) \/ LookTimeout(r)
      PROVE  Next
  BY <1>2
<1>3. ASSUME NEW r \in Requests, Handler(r)
      PROVE  [Next]_vars
  BY <1>3 DEF Handler, NextToken, LastText, Done
<1>4. ASSUME NEW r \in Streams, Disconnect(r)
      PROVE  [Next]_vars
  BY <1>4 DEF Disconnect
<1> QED BY <1>1, <1>2, <1>3, <1>4 DEF CompletionsNext

(* The specification of the completions implements the worker's, so that
   whatever is proved of streams holds below them. *)
THEOREM CompletionsAreClients == CompletionsSpec => Spec
<1>1. CompletionsInit => Init
  BY DEF CompletionsInit
<1>2. [CompletionsNext]_allVars => [Next]_vars
  BY WorkerBelow DEF allVars
<1> QED BY <1>1, <1>2, PTL DEF CompletionsSpec, Spec

-----------------------------------------------------------------------------
LEMMA InitEInv == CompletionsInit => EInv
<1> SUFFICES ASSUME CompletionsInit PROVE EInv
  OBVIOUS
<1> USE StreamsAreRequests DEF CompletionsInit, Init
<1>1. IInv
  BY InitIInv
<1>2. EventsTypeOK /\ (stop => thread # "new")
  BY DEF EventsTypeOK
<1>3. ASSUME NEW r \in Streams PROVE EventState(r)
  BY DEF EventState
<1> QED BY <1>1, <1>2, <1>3 DEF EInv

(* The part of EInv that only the main thread and the worker's thread touch *)
LEMMA ThreadsKeepHalted ==
  ASSUME EInv, [Next]_vars
  PROVE  (Halted => Halted') /\ (stop => thread # "new")'
<1> USE DEF EInv, Halted
<1>1. CASE Main
  BY <1>1 DEF Main, Start, StopSet, StopNotify, StopJoin, workerVars, IInv, TypeOK
<1>2. CASE Worker \/ StepRaises
  BY <1>2 DEF Worker, WorkerCheck, WorkerLock, BeginStep, WorkerWait, WorkerWake, EndStep,
              StepRaises, WorkerEnds, WorkerGoes
<1>3. ASSUME NEW r \in Requests,
             Submit(r) \/ Report(r) \/ Client(r) \/ LookTimeout(r) \/ Abandon(r)
      PROVE  UNCHANGED <<stop, thread>>
  <2>1. CASE Submit(r) \/ Report(r) \/ LookTimeout(r) \/ Abandon(r)
    BY <2>1 DEF Submit, Report, LookTimeout, Abandon, workerVars
  <2>2. CASE Client(r)
    BY <2>2 DEF Client, Look, Poll, LookResult, LookFinished, TakeToken, Drained, Close, workerVars
  <2> QED BY <1>3, <2>1, <2>2
<1>4. CASE UNCHANGED vars
  BY <1>4 DEF vars, workerVars
<1> QED BY <1>1, <1>2, <1>3, <1>4 DEF Next

(* A client that has come to its end stays there, and a stream is given up in
   silence only for the stop flag. *)
LEMMA SilentStep ==
  ASSUME EInv, NEW q \in Requests, NEW r \in Streams,
         \/ Main \/ Worker \/ StepRaises
         \/ Submit(q) \/ Report(q) \/ LookTimeout(q) \/ Look(q)
  PROVE  /\ yielded' = yielded
         /\ cpc[r] \in {"closed", "left"} => cpc'[r] = cpc[r]
         /\ cpc'[r] \in {"quit", "left"} => stop \/ cpc[r] \in {"quit", "left"}
<1> USE StreamsAreRequests DEF EInv, IInv, TypeOK, engineVars, streamVars
<1>1. CASE Main \/ Worker \/ StepRaises
  BY <1>1 DEF Main, Start, StopSet, StopNotify, StopJoin, Worker, WorkerCheck, WorkerLock,
              BeginStep, WorkerWait, WorkerWake, EndStep, StepRaises
<1>2. CASE Submit(q) \/ Report(q) \/ LookTimeout(q)
  BY <1>2 DEF Submit, Report, LookTimeout, ClientGoes
<1>3. CASE Look(q)
  <2>1. CASE Poll(q)
    BY <2>1 DEF Poll, ClientGoes
  <2>2. CASE LookResult(q) \/ LookFinished(q) \/ Drained(q)
    BY <2>2 DEF LookResult, LookFinished, Drained, ClientGoes
  <2>3. CASE Close(q)
    BY <2>3 DEF Close, ClientGoes
  <2> QED BY <1>3, <2>1, <2>2, <2>3 DEF Look
<1> QED BY <1>1, <1>2, <1>3

LEMMA SilentKeepsEvents ==
  ASSUME EInv, UNCHANGED eventVars, Halted => Halted',
         \/ Main \/ Worker \/ StepRaises
         \/ \E q \in Requests : Submit(q) \/ Report(q) \/ LookTimeout(q) \/ Look(q)
  PROVE  EventsTypeOK' /\ \A r \in Streams : EventState(r)'
<1>1. EventsTypeOK'
  BY DEF EInv, EventsTypeOK, eventVars
<1>2. ASSUME NEW r \in Streams PROVE EventState(r)'
  <2>1. /\ yielded' = yielded
        /\ cpc[r] \in {"closed", "left"} => cpc'[r] = cpc[r]
        /\ cpc'[r] \in {"quit", "left"} => stop \/ cpc[r] \in {"quit", "left"}
    BY SilentStep, StreamsAreRequests
  <2> QED BY <2>1 DEF EInv, EventState, Halted, eventVars
<1> QED BY <1>1, <1>2

LEMMA StreamKeepsEvents ==
  ASSUME EInv, NEW q \in Streams, Halted => Halted',
         NextToken(q) \/ LastText(q) \/ Done(q) \/ Disconnect(q)
  PROVE  EventsTypeOK' /\ \A r \in Streams : EventState(r)'
<1> USE StreamsAreRequests DEF EInv, EventsTypeOK
<1>0. EventState(q) /\ TypeOK
  BY DEF IInv
<1>1. EventsTypeOK'
  BY <1>0 DEF NextToken, LastText, Done, Disconnect
<1>2. CASE NextToken(q)
  <2>1. yielded' = [yielded EXCEPT ![q] = @ + 1] /\ cpc' = cpc /\ cpc[q] = "drain"
    BY <1>2 DEF NextToken, TakeToken
  <2>2. event[q] \notin {"length", "[DONE]"}
    BY <1>0, <2>1 DEF EventState
  <2>3. /\ pending' = [pending EXCEPT ![q] = 1] /\ sent' = [sent EXCEPT ![q] = @ + pending[q]]
        /\ event'[q] \in {event[q], "text"} /\ \A r \in Streams \ {q} : event'[r] = event[r]
    BY <1>2 DEF NextToken
  <2>4. ASSUME NEW r \in Streams PROVE EventState(r)'
    <3>1. EventState(r) /\ yielded[r] \in Nat /\ sent[r] \in Nat /\ pending[r] \in {0, 1}
      BY <1>0 DEF TypeOK
    <3>2. sent'[r] + pending'[r] = yielded'[r]
      BY <1>0, <2>1, <2>3, <3>1 DEF EventState, TypeOK
    <3>3. CASE r = q
      BY <2>1, <2>2, <2>3, <3>2, <3>3 DEF EventState
    <3>4. CASE r # q
      BY <2>1, <2>3, <3>1, <3>2, <3>4 DEF EventState
    <3> QED BY <3>3, <3>4
  <2> QED BY <1>1, <2>4
<1>3. CASE LastText(q)
  <2>1. ASSUME NEW r \in Streams PROVE EventState(r)'
    <3>1. EventState(r) /\ sent[r] \in Nat /\ sent[q] \in Nat
      OBVIOUS
    <3> QED BY <1>0, <1>3, <3>1 DEF LastText, Exhausted, EventState, vars, streamVars
  <2> QED BY <1>1, <2>1
<1>4. CASE Done(q)
  <2>1. ASSUME NEW r \in Streams PROVE EventState(r)'
    <3>1. EventState(r)
      OBVIOUS
    <3> QED BY <1>0, <1>4, <3>1 DEF Done, Exhausted, EventState, vars, streamVars
  <2> QED BY <1>1, <2>1
<1>5. CASE Disconnect(q)
  <2>1. UNCHANGED <<yielded, pending, sent>>
    BY <1>5 DEF Disconnect, Abandon, vars, streamVars
  <2>2. \A r \in Streams \ {q} : cpc'[r] = cpc[r]
    BY <1>0, <1>5 DEF Disconnect, Abandon, ClientGoes, vars, TypeOK
  <2>3. event' = [event EXCEPT ![q] = "gone"]
    BY <1>5 DEF Disconnect
  <2>4. ASSUME NEW r \in Streams PROVE EventState(r)'
    <3>1. EventState(r)
      OBVIOUS
    <3> QED BY <2>1, <2>2, <2>3, <3>1 DEF EventState
  <2> QED BY <1>1, <2>4
<1> QED BY <1>2, <1>3, <1>4, <1>5

LEMMA NextKeepsEInv == EInv /\ [CompletionsNext]_allVars => EInv'
<1> SUFFICES ASSUME EInv, [CompletionsNext]_allVars PROVE EInv'
  OBVIOUS
<1>1. [Next]_vars
  BY WorkerBelow DEF allVars
<1>2. IInv'
  BY <1>1, ThreadsKeepIInv, ReportKeepsIInv, ClientKeepsIInv, StutterKeepsIInv DEF EInv, Next
<1>3. (Halted => Halted') /\ (stop => thread # "new")'
  BY <1>1, ThreadsKeepHalted
<1>4. CASE UNCHANGED allVars
  <2>1. UNCHANGED <<stop, thread, cpc, yielded, pending, sent, event>>
    BY <1>4 DEF allVars, vars, workerVars, streamVars, eventVars
  <2> QED BY <1>2, <1>3, <2>1 DEF EInv, EventsTypeOK, EventState, Halted
<1>5. CASE CompletionsNext
  <2>1. EventsTypeOK' /\ \A r \in Streams : EventState(r)'
    <3>1. CASE (Main \/ Worker \/ StepRaises) /\ UNCHANGED eventVars
      BY <1>3, <3>1, SilentKeepsEvents
    <3>2. ASSUME NEW q \in Requests,
                 (Submit(q) \/ Report(q) \/ LookTimeout(q) \/ Look(q)) /\ UNCHANGED eventVars
          PROVE  EventsTypeOK' /\ \A r \in Streams : EventState(r)'
      BY <1>3, <3>2, SilentKeepsEvents
    <3>3. ASSUME NEW q \in Streams, NextToken(q) \/ LastText(q) \/ Done(q) \/ Disconnect(q)
          PROVE  EventsTypeOK' /\ \A r \in Streams : EventState(r)'
      BY <1>3, <3>3, StreamKeepsEvents
    <3> QED BY <1>5, <3>1, <3>2, <3>3 DEF CompletionsNext, Handler
  <2> QED BY <1>2, <1>3, <2>1 DEF EInv
<1> QED BY <1>4, <1>5

THEOREM EventsInvariant == CompletionsSpec => []EInv
BY InitEInv, NextKeepsEInv, PTL DEF CompletionsSpec

(* Every stream of events is the engine's tokens, each once, and ends with
   "length" and [DONE] only when they are all sent or stop() cut it short. *)
THEOREM EventsStayTokens == CompletionsSpec => []EventsAreTokens
<1>1. EInv => EventsAreTokens
  <2> SUFFICES ASSUME EInv, NEW r \in Streams
               PROVE  /\ sent[r] + pending[r] = yielded[r]
                      /\ event[r] \in {"length", "[DONE]"} =>
                           /\ sent[r] = yielded[r]
                           /\ event[r] = "[DONE]" \/ sent[r] > 0
                           /\ \/ status[r] = "completed" /\ sent[r] = emitted[r]
                              \/ stop \/ thread = "dead"
    BY DEF EventsAreTokens
  <2>1. EventState(r) /\ StreamState(r) /\ sent[r] \in Nat
    BY DEF EInv, IInv, EventsTypeOK
  <2> QED BY <2>1 DEF EventState, StreamState, Halted
<1> QED BY <1>1, EventsInvariant, PTL
=============================================================================
