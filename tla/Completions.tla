---------------------------- MODULE Completions ----------------------------
(***************************************************************************)
(* POST /v1/completions over the engine worker.  A streamed completion is  *)
(* a generator around generate_stream that runs one token behind it, so    *)
(* that the last text can carry finish_reason "length"; a blocking one is  *)
(* a client of generate, whose outcome is the response.                    *)
(*                                                                         *)
(* Left out are the JSON around a text and the request's validation.       *)
(***************************************************************************)
EXTENDS EngineWorker

VARIABLES
  pending,      \* pending[r]: 1 while pending_token_id is set, 0 otherwise
  sent,         \* sent[r]: events with a text
  event         \* the kind of the last event: "none", "text", "length", "[DONE]",
                \* or "gone" once the consumer has left

eventVars == <<pending, sent, event>>
allVars == <<vars, eventVars>>

CompletionsInit ==
  /\ Init
  /\ pending = [r \in Streams |-> 0]
  /\ sent = [r \in Streams |-> 0]
  /\ event = [r \in Streams |-> "none"]

-----------------------------------------------------------------------------
(* Slip: the first token is sent at once, and again with the second. *)
NextToken_Eager(r) ==
  /\ TakeToken(r)
  /\ pending' = [pending EXCEPT ![r] = 1]
  /\ sent' = [sent EXCEPT ![r] = @ + 1]
  /\ event' = [event EXCEPT ![r] = "text"]

(* the text of the token before is sent once there is another *)
NextToken(r) ==
  /\ TakeToken(r)
  /\ pending' = [pending EXCEPT ![r] = 1]
  /\ sent' = [sent EXCEPT ![r] = @ + pending[r]]
  /\ event' = IF pending[r] = 1 THEN [event EXCEPT ![r] = "text"] ELSE event

(* generate_stream has returned: of itself, or because of the stop flag *)
Exhausted(r) == cpc[r] \in {"closed", "left"} /\ event[r] \notin {"[DONE]", "gone"}

LastText(r) ==
  /\ Exhausted(r) /\ pending[r] = 1
  /\ pending' = [pending EXCEPT ![r] = 0]
  /\ sent' = [sent EXCEPT ![r] = @ + 1]
  /\ event' = [event EXCEPT ![r] = "length"]
  /\ UNCHANGED vars

Done(r) ==
  /\ Exhausted(r) /\ pending[r] = 0
  /\ event' = [event EXCEPT ![r] = "[DONE]"]
  /\ UNCHANGED <<vars, pending, sent>>

(* The response is cancelled at a yield: in the middle, where generate_stream
   is left too, or after its end. *)
Disconnect(r) ==
  /\ event' = [event EXCEPT ![r] = "gone"]
  /\ \/ event[r] = "text" /\ Abandon(r)
     \/ event[r] = "length" /\ UNCHANGED vars
  /\ UNCHANGED <<pending, sent>>

Handler(r) ==
  \/ Look(r) /\ UNCHANGED eventVars
  \/ r \in Streams /\ (NextToken(r) \/ LastText(r) \/ Done(r))

CompletionsNext ==
  \/ (Main \/ Worker \/ StepRaises) /\ UNCHANGED eventVars
  \/ \E r \in Requests : \/ (Submit(r) \/ Report(r) \/ LookTimeout(r)) /\ UNCHANGED eventVars
                         \/ Handler(r)
  \/ \E r \in Streams : Disconnect(r)

CompletionsSpec == CompletionsInit /\ [][CompletionsNext]_allVars

CompletionsFairSpec ==
  /\ CompletionsSpec
  /\ WF_allVars(Worker /\ UNCHANGED eventVars)
  /\ \A r \in Requests : /\ SF_allVars(Report(r) /\ UNCHANGED eventVars)
                         /\ WF_allVars(Handler(r))

-----------------------------------------------------------------------------
(* The events of a stream are the tokens the engine gave the request, each
   once: a stream closed by "length" and [DONE] has sent them all, and all of
   a completed request, unless stop() cut it short, which no event tells.
   Until then no more than one token is held back. *)
EventsAreTokens ==
  \A r \in Streams :
    /\ sent[r] + pending[r] = yielded[r]
    /\ event[r] \in {"length", "[DONE]"} =>
         /\ sent[r] = yielded[r]
         /\ event[r] = "[DONE]" \/ sent[r] > 0
         /\ \/ status[r] = "completed" /\ sent[r] = emitted[r]
            \/ stop \/ thread = "dead"
=============================================================================
