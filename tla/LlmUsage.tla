------------------------------ MODULE LlmUsage ------------------------------
(***************************************************************************)
(* The meter of an LLM call (app/services/llm_usage.py) beside what the    *)
(* provider charges for it.  The agent opens the meter for the pass of a   *)
(* ticket in a context variable, and the adapters record every answer that *)
(* is JSON in the meter of the context they run in.  A thread of a pool    *)
(* does not inherit that context: each sample is given a copy of it.  The  *)
(* meter adds under a lock of its own, so adding is one step here; tokens  *)
(* and costs, which it also adds up, are left out.                         *)
(*                                                                         *)
(* The provider is external: it charges a request it has answered, whether *)
(* the answer reaches the client or not, and none that it refuses.         *)
(*                                                                         *)
(* A definition commented "Faulty" is a plausible slip in the definition   *)
(* that follows it; the properties are checked to notice it.               *)
(***************************************************************************)
EXTENDS LlmClient

CONSTANT MaxLost  \* bound: how many answers get lost

VARIABLES
  metered,  \* UsageMeter.calls, as far as each worker has added to it
  charged   \* history: per worker, the requests the provider has charged

usageVars == <<metered, charged>>

UsageInit ==
  /\ LlmInit
  /\ metered = [w \in Worker |-> 0]
  /\ charged = [w \in Worker |-> 0]

\* Faulty: the pool's threads run outside the ticket's context.
SeesMeterLead(w) == w = Lead

\* The request of the calling thread runs in the ticket's context, and each sample
\* in a copy of it.
SeesMeter(w) == w \in Worker

Missed(w) == charged[w] - metered[w]
Charge(w) == charged' = [charged EXCEPT ![w] = @ + 1]
Record(w) == metered' = [metered EXCEPT ![w] = IF SeesMeter(w) THEN @ + 1 ELSE @]

\* An answer that is JSON is recorded before anything checks it, whether it then
\* proves to be of use or breaks the contract.
MeteredAnswer(w) ==
  /\ Answered(w) \/ PostBreaks(w)
  /\ Charge(w)
  /\ Record(w)

\* The answer comes too late, or the connection that brings it is lost, or it is no
\* JSON: the provider has given it.
LostAnswer(w) ==
  /\ MapThenSumSet(Missed, Worker) < MaxLost
  /\ PostFails(w) \/ PostBreaks(w)
  /\ Charge(w)
  /\ UNCHANGED metered

\* Every other step, and a request that the provider refuses or never gets.
UnpaidStep(w) ==
  /\ \/ Attempt(w) \/ NoTimeLeft(w) \/ Resume(w)
     \/ UseCached(w) \/ Fetch(w) \/ Fetched(w) \/ FetchFails(w) \/ FetchBreaks(w)
     \/ PostFails(w) \/ PostBreaks(w) \/ TokenRefused(w)
  /\ UNCHANGED usageVars

UsageStep(w) == MeteredAnswer(w) \/ LostAnswer(w) \/ UnpaidStep(w)

UsageNext ==
  \/ \E w \in Worker : UsageStep(w)
  \/ /\ \/ Complete \/ Classify \/ Finish
        \/ OthersFetch \/ OthersFetched \/ Revoke \/ Age \/ Tick
     /\ UNCHANGED usageVars

UsageSpec ==
  /\ UsageInit /\ [][UsageNext]_<<llmVars, usageVars>>
  /\ WF_llmVars(Tick /\ UNCHANGED usageVars)
  /\ WF_llmVars(Finish /\ UNCHANGED usageVars)
  /\ WF_llmVars(OthersFetched /\ UNCHANGED usageVars)
  /\ \A w \in Worker : WF_llmVars(UsageStep(w))

-----------------------------------------------------------------------------
(* Properties.                                                              *)

\* What the bill has and the meter has not is at most what the retries repeat: one
\* request per attempt, the parallel samples, which other threads send, and renewed
\* tokens included, and never the request whose answer is used (_with_retry,
\* _classify_by_sampling, GigaChatClient._call, llm_usage.record).
MeterMissesRetriesOnly ==
  \A w \in Worker :
    charged[w] <= metered[w] + (IF pc[w] = "ok" THEN MAX_RETRIES ELSE MAX_RETRIES + 1)
=============================================================================
