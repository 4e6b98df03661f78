------------------------------- MODULE Bench -------------------------------
(***************************************************************************)
(* The load generator against a server: run_bench starts concurrency       *)
(* client threads that send prompts until the time is over, joins them and *)
(* reads the server's metrics once, as one more of the readers of          *)
(* MetricsStore.  The server is the engine of MetricsStore, which owes     *)
(* nobody an answer.                                                       *)
(*                                                                         *)
(* A request is the number its prompt was taken under.  Latencies and      *)
(* token counts are left out: every completed request yields               *)
(* max_new_tokens of them.                                                 *)
(***************************************************************************)
EXTENDS MetricsStore

CONSTANTS
  Clients,        \* the threads of run_bench
  MaxPrompts      \* bound: prompts taken before the time is over

ASSUME BenchAssumption ==
  /\ "bench" \in Readers /\ MaxPrompts \in Nat /\ Requests = 1 .. MaxPrompts
  /\ IsFiniteSet(Clients)

VARIABLES
  over,                     \* time.time() >= stop_at
  prompt_index,
  sent, ok, failed,
  tpc,                      \* tpc[t]: where thread t is
  taken,                    \* taken[t]: the request it is at, or 0
  joined                    \* all threads have been joined

threadVars == <<tpc, taken>>
countVars == <<sent, ok, failed>>
benchVars == <<over, prompt_index, countVars, threadVars, joined>>
allVars == <<vars, benchVars>>

BenchInit ==
  /\ Init
  /\ over = FALSE /\ prompt_index = 0
  /\ sent = 0 /\ ok = 0 /\ failed = 0
  /\ tpc = [t \in Clients |-> "check"]
  /\ taken = [t \in Clients |-> 0]
  /\ joined = FALSE

-----------------------------------------------------------------------------
(* A thread *)

ThreadGoes(t, p) == tpc' = [tpc EXCEPT ![t] = p]

(* while time.time() < stop_at *)
Check(t) ==
  /\ tpc[t] = "check"
  /\ ThreadGoes(t, IF over THEN "done" ELSE "take")
  /\ UNCHANGED <<vars, over, prompt_index, countVars, taken, joined>>

Take(t) ==
  /\ tpc[t] = "take" /\ prompt_index < MaxPrompts
  /\ prompt_index' = prompt_index + 1
  /\ taken' = [taken EXCEPT ![t] = prompt_index + 1]
  /\ ThreadGoes(t, "send")
  /\ UNCHANGED <<vars, over, countVars, joined>>

(* the bound: no more prompts before the time is over *)
TakeNoMore(t) ==
  /\ tpc[t] = "take" /\ prompt_index = MaxPrompts /\ over
  /\ ThreadGoes(t, "done")
  /\ UNCHANGED <<vars, over, prompt_index, countVars, taken, joined>>

Post(t) ==
  /\ tpc[t] = "send"
  /\ Enqueue(taken[t]) /\ ThreadGoes(t, "await")
  /\ UNCHANGED <<over, prompt_index, countVars, taken, joined>>

(* send() returns that it was a success, or that it was not *)
Returned(t, result) ==
  /\ ThreadGoes(t, result)
  /\ UNCHANGED <<vars, over, prompt_index, countVars, taken, joined>>

(* the server answers once the request has been reported *)
Answered(t) ==
  /\ tpc[t] = "await" /\ taken[t] \in completed /\ leaving = {}
  /\ Returned(t, "ok")

(* Slip: send() sets no timeout. *)
GivesUp_Never(t) == tpc[t] = "send" /\ Returned(t, "failed")

(* URLError or TimeoutError: the server goes on with a request it has got *)
GivesUp(t) == tpc[t] \in {"send", "await"} /\ Returned(t, "failed")

(* any other exception, of reading the response for one, ends the thread *)
Dies(t) ==
  /\ tpc[t] \in {"send", "await"}
  /\ ThreadGoes(t, "dead")
  /\ UNCHANGED <<vars, over, prompt_index, countVars, taken, joined>>

Count(t) ==
  /\ tpc[t] \in {"ok", "failed"}
  /\ sent' = sent + 1
  /\ IF tpc[t] = "ok" THEN ok' = ok + 1 /\ UNCHANGED failed
                      ELSE failed' = failed + 1 /\ UNCHANGED ok
  /\ ThreadGoes(t, "check") /\ taken' = [taken EXCEPT ![t] = 0]
  /\ UNCHANGED <<vars, over, prompt_index, joined>>

Thread(t) == Check(t) \/ Take(t) \/ TakeNoMore(t) \/ Count(t) \/ GivesUp(t)

-----------------------------------------------------------------------------
(* run_bench *)

TimeIsOver == ~over /\ over' = TRUE /\ UNCHANGED <<vars, prompt_index, countVars, threadVars, joined>>

Over(t) == tpc[t] \in {"done", "dead"}

(* Slip: the metrics are read while threads are still at work. *)
Join_First == ~joined /\ over /\ joined' = TRUE
              /\ UNCHANGED <<vars, over, prompt_index, countVars, threadVars>>

Join ==
  /\ ~joined /\ \A t \in Clients : Over(t)
  /\ joined' = TRUE
  /\ UNCHANGED <<vars, over, prompt_index, countVars, threadVars>>

(* fetch_server_metrics, once; the others poll *)
Fetch == joined /\ Snapshot("bench") /\ UNCHANGED benchVars
Poll(d) == (Snapshot(d) \/ Again(d)) /\ UNCHANGED benchVars

BenchNext ==
  \/ (Engine \/ TimePasses) /\ UNCHANGED benchVars
  \/ \E t \in Clients : Thread(t) \/ Post(t) \/ Answered(t) \/ Dies(t)
  \/ TimeIsOver \/ Join \/ Fetch
  \/ \E d \in Readers \ {"bench"} : Poll(d)

BenchSpec == BenchInit /\ [][BenchNext]_allVars

(* Time passes for the run and for a send(), threads run; the server need not
   answer, nor the engine do anything, and nobody else need read. *)
BenchFairSpec ==
  /\ BenchSpec
  /\ WF_allVars(TimeIsOver) /\ WF_allVars(Join) /\ WF_allVars(Fetch)
  /\ \A t \in Clients : WF_allVars(Thread(t))

-----------------------------------------------------------------------------
TypeOK ==
  /\ waiting \in Seq(Requests) /\ running \subseteq Requests
  /\ leaving \subseteq Requests /\ completed \subseteq Requests
  /\ total_completed \in Nat /\ completion_timestamps \in Seq(Requests)
  /\ age \in [Requests -> 0 .. Window + 1]
  /\ rpc \in [Readers -> {"idle", "queue", "sample", "rates", "totals", "copy", "ok", "error"}]
  /\ view \in [Readers -> [active : SUBSET Requests, queued : SUBSET Requests, completed : Nat]]
  /\ disturbed \subseteq Readers
  /\ over \in BOOLEAN /\ joined \in BOOLEAN
  /\ prompt_index \in 0 .. MaxPrompts
  /\ sent \in Nat /\ ok \in Nat /\ failed \in Nat
  /\ tpc \in [Clients -> {"check", "take", "send", "await", "ok", "failed", "done", "dead"}]
  /\ taken \in [Clients -> 0 .. MaxPrompts]

Uncounted == {t \in Clients : tpc[t] \in {"send", "await", "ok", "failed", "dead"}}
Dead == {t \in Clients : tpc[t] = "dead"}

(* The report adds up: every prompt taken is counted once, as ok or failed,
   but for those of threads that died; what the server reports as completed
   is what the clients call ok, and of the rest only what they gave up or
   died over. *)
ReportAddsUp ==
  /\ sent = ok + failed
  /\ prompt_index = sent + Cardinality(Uncounted)
  /\ ok <= total_completed
  /\ rpc["bench"] = "ok" =>
       LET server == view["bench"].completed IN
         ok <= server /\ server <= ok + failed + Cardinality(Dead)

(* run_bench returns, with or without the server's metrics, whatever the
   server does or fails to do. *)
BenchReturns == <>(rpc["bench"] \in {"ok", "error"})
=============================================================================
