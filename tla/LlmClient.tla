----------------------------- MODULE LlmClient -----------------------------
(***************************************************************************)
(* One call of the LLM client (app/services/llm_adapters/base.py, with the *)
(* dialects openai_compatible.py and gigachat.py): the first request, the  *)
(* fall-back from logprobs to k-sampling, whose samples run in parallel    *)
(* threads, the retries of each request against one deadline, and the      *)
(* OAuth token that all the threads share, with each other and with every  *)
(* other call of the process.                                              *)
(*                                                                         *)
(* The call starts from any state the process may have left the client in: *)
(* logprobs already known to be missing, a token cached, cached and        *)
(* revoked, or none.  Time is discrete and passes only while nobody can    *)
(* take a step at once; a request, a token's request and a pause last any  *)
(* time up to until[w].  httpx is external: the timeout it is given bounds *)
(* the whole request here.                                                 *)
(*                                                                         *)
(* A definition commented "Faulty" is a plausible slip in the definition   *)
(* that follows it; the properties are checked to notice it.               *)
(***************************************************************************)
EXTENDS Integers, FiniteSets, FiniteSetsExt

CONSTANTS
  Sample,           \* the k parallel samples
  Lead,             \* the request of complete, or the one that asks for logprobs
  Label, NULL,      \* a category; no recognised category
  MAX_RETRIES,      \* RetryPolicy.max_retries: 3
  DEADLINE,         \* RetryPolicy.deadline_seconds: 10
  REQUEST_TIMEOUT,  \* RetryPolicy.request_timeout_seconds: 8
  Backoff,          \* the backoff's pauses, jitter included
  RetryAfter,       \* the pauses a provider may ask for in Retry-After
  MaxRevocations,   \* bound: how often the provider revokes tokens
  Other,            \* some other call of the process
  MaxLent           \* bound: on lent

Worker == Sample \cup {Lead}

ASSUME LlmAssumption ==
  /\ IsFiniteSet(Sample) /\ Sample # {} /\ Lead \notin Sample
  /\ NULL \notin Label \cup Worker
  /\ MAX_RETRIES \in Nat
  /\ DEADLINE \in Nat /\ REQUEST_TIMEOUT \in Nat \ {0}
  /\ Backoff \subseteq Nat /\ Backoff # {} /\ RetryAfter \subseteq Nat
  /\ MaxRevocations \in Nat /\ MaxLent \in Nat
  /\ Other # NULL /\ Other \notin Worker

VARIABLES
  dialect,      \* "openai" or "gigachat"
  mode,         \* LLM_CONFIDENCE_MODE: "auto" or "logprobs"; "k_sampling" is "auto" with
                \*   logprobs unavailable from the constructor on
  unavailable,  \* _logprobs_unavailable
  phase,        \* "idle", "generating", "measuring", "sampling" or "done"
  now,          \* since the call began
  pc, tries, limit, until,  \* per worker, in _with_retry
  held,         \* per worker, the token of its request: "none", "live" or "dead"
  refreshed,    \* per worker, the loop variable of _call
  answer,       \* per worker
  cached,       \* the provider's token: "none", "live" or "dead" (revoked)
  fresh,        \* is it far from its expiry
  lock,         \* the thread in GigaChatTokenProvider.token, or NULL
  lentUntil,    \* the end of the fetch that Other holds the lock for
  lent,         \* history: the timeouts of all the fetches of Other
  revocations,  \* history: during this call
  refused,      \* history: workers whose call failed as unauthorised
  result

settings == <<dialect, mode>>
tokenVars == <<cached, fresh, lock, lentUntil, lent>>
history == <<revocations, refused>>
llmVars ==
  <<dialect, mode, unavailable, phase, now, pc, tries, limit, until, held,
    refreshed, answer, cached, fresh, lock, lentUntil, lent, revocations, refused,
    result>>

Waiting == {"fetch", "post", "pause"}
Settled == {"ok", "down", "broken"}
Spoken == {"measured", "unmeasured", "text", "empty"}
Token == {"none", "live", "dead"}
Outcome == {"none", "probabilities", "text", "unavailable", "broken"}

Votes(label) == Cardinality({w \in Sample : pc[w] = "ok" /\ answer[w] = label})

\* LabelProbabilities: the shares are votes[l] / of; only k-sampling has them.
Plain(kind, source) ==
  [kind |-> kind, source |-> source, votes |-> [l \in Label |-> 0], of |-> 1]

LlmTypeOK ==
  /\ dialect \in {"openai", "gigachat"}
  /\ mode \in {"auto", "logprobs"}
  /\ unavailable \in BOOLEAN /\ fresh \in BOOLEAN
  /\ phase \in {"idle", "generating", "measuring", "sampling", "done"}
  /\ now \in Nat
  /\ pc \in [Worker -> {"idle", "try", "token"} \cup Waiting \cup Settled]
  /\ tries \in [Worker -> 0..MAX_RETRIES]
  /\ limit \in [Worker -> 0..REQUEST_TIMEOUT]
  /\ until \in [Worker -> Nat]
  /\ held \in [Worker -> Token] /\ cached \in Token
  /\ refreshed \in [Worker -> BOOLEAN]
  /\ answer \in [Worker -> Label \cup {NULL} \cup Spoken]
  /\ lock \in Worker \cup {Other, NULL}
  /\ lentUntil \in Nat /\ lent \in 0..MaxLent
  /\ revocations \in 0..MaxRevocations
  /\ refused \subseteq Worker
  /\ result \in [kind : Outcome, source : {"none", "logprobs", "k_sampling"},
                 votes : [Label -> 0..Cardinality(Sample)], of : Nat \ {0}]

LlmInit ==
  /\ dialect \in {"openai", "gigachat"}
  /\ mode \in {"auto", "logprobs"}
  /\ unavailable \in BOOLEAN
  /\ mode = "logprobs" => ~unavailable
  /\ phase = "idle" /\ now = 0
  /\ pc = [w \in Worker |-> "idle"]
  /\ tries = [w \in Worker |-> 0]
  /\ limit = [w \in Worker |-> 0]
  /\ until = [w \in Worker |-> 0]
  /\ held = [w \in Worker |-> "none"]
  /\ refreshed = [w \in Worker |-> FALSE]
  /\ answer = [w \in Worker |-> NULL]
  /\ cached \in IF dialect = "gigachat" THEN Token ELSE {"none"}
  /\ fresh \in BOOLEAN /\ (cached = "none" => ~fresh)
  /\ lock = NULL /\ lentUntil = 0 /\ lent = 0
  /\ revocations = 0 /\ refused = {}
  /\ result = Plain("none", "none")

-----------------------------------------------------------------------------
(* A call begins: complete, or classify by logprobs or at once by sampling. *)

Begun(first, p) ==
  /\ phase = "idle"
  /\ phase' = p
  /\ pc' = [w \in Worker |-> IF w \in first THEN "try" ELSE "idle"]
  /\ UNCHANGED <<settings, unavailable, now, tries, limit, until, held, refreshed,
                 answer, tokenVars, history, result>>

Complete == Begun({Lead}, "generating")

Classify == IF unavailable THEN Begun(Sample, "sampling") ELSE Begun({Lead}, "measuring")

-----------------------------------------------------------------------------
(* _with_retry.                                                             *)

\* The locals of an attempt end with it, and those of the loop with the loop.
EndAttempt(w) ==
  /\ limit' = [limit EXCEPT ![w] = 0]
  /\ held' = [held EXCEPT ![w] = "none"]
  /\ refreshed' = [refreshed EXCEPT ![w] = FALSE]

Settle(w, p) ==
  /\ EndAttempt(w)
  /\ pc' = [pc EXCEPT ![w] = p]
  /\ tries' = [tries EXCEPT ![w] = 0]
  /\ until' = [until EXCEPT ![w] = 0]

\* Faulty: each attempt gets the whole request timeout.
TimeoutNowWhole == REQUEST_TIMEOUT

\* The timeout of an attempt: the rest of the deadline when it is shorter.
TimeoutNow == Min({REQUEST_TIMEOUT, DEADLINE - now})

\* The first step of an attempt: the OAuth token, or the request itself.
Attempt(w) ==
  /\ pc[w] = "try"
  /\ now < DEADLINE
  /\ limit' = [limit EXCEPT ![w] = TimeoutNow]
  /\ refreshed' = [refreshed EXCEPT ![w] = FALSE]
  /\ IF dialect = "gigachat"
     THEN /\ pc' = [pc EXCEPT ![w] = "token"]
          /\ UNCHANGED until
     ELSE /\ pc' = [pc EXCEPT ![w] = "post"]
          /\ until' = [until EXCEPT ![w] = now + TimeoutNow]
  /\ UNCHANGED <<settings, unavailable, phase, now, tries, held, answer, tokenVars,
                 history, result>>

NoTimeLeft(w) ==
  /\ pc[w] = "try"
  /\ now >= DEADLINE
  /\ Settle(w, "down")
  /\ UNCHANGED <<settings, unavailable, phase, now, answer, tokenVars, history, result>>

\* Faulty: off by one.
LastAttemptLate(w) == tries[w] > MAX_RETRIES

LastAttempt(w) == tries[w] = MAX_RETRIES

\* RetryableError with the pause before the next attempt: given up after the last
\* attempt, or when the pause would reach the deadline.
Retry(w, pause) ==
  IF LastAttempt(w) \/ now + pause >= DEADLINE
  THEN Settle(w, "down")
  ELSE /\ EndAttempt(w)
       /\ pc' = [pc EXCEPT ![w] = "pause"]
       /\ until' = [until EXCEPT ![w] = now + pause]
       /\ UNCHANGED tries

Resume(w) ==
  /\ pc[w] = "pause" /\ now = until[w]
  /\ pc' = [pc EXCEPT ![w] = "try"]
  /\ tries' = [tries EXCEPT ![w] = @ + 1]
  /\ UNCHANGED <<settings, unavailable, phase, now, limit, until, held, refreshed,
                 answer, tokenVars, history, result>>

-----------------------------------------------------------------------------
(* GigaChatTokenProvider: the lock is held while a token is fetched.        *)

\* Faulty: a request refused as unauthorised asks for a token without forcing it.
MustFetchUnforced(w) == cached = "none" \/ ~fresh

\* token(): the cached token will not do, or a new one is demanded.
MustFetch(w) == cached = "none" \/ ~fresh \/ refreshed[w]

UseCached(w) ==
  /\ pc[w] = "token" /\ lock = NULL
  /\ ~MustFetch(w)
  /\ held' = [held EXCEPT ![w] = cached]
  /\ pc' = [pc EXCEPT ![w] = "post"]
  /\ until' = [until EXCEPT ![w] = now + limit[w]]
  /\ UNCHANGED <<settings, unavailable, phase, now, tries, limit, refreshed, answer,
                 tokenVars, history, result>>

Fetch(w) ==
  /\ pc[w] = "token" /\ lock = NULL
  /\ MustFetch(w)
  /\ lock' = w
  /\ pc' = [pc EXCEPT ![w] = "fetch"]
  /\ until' = [until EXCEPT ![w] = now + limit[w]]
  /\ UNCHANGED <<settings, unavailable, phase, now, tries, limit, held, refreshed,
                 answer, cached, fresh, lentUntil, lent, history, result>>

\* _fetch returns; the request follows with the same timeout again.
Fetched(w) ==
  /\ pc[w] = "fetch"
  /\ cached' = "live" /\ fresh' = TRUE /\ lock' = NULL
  /\ held' = [held EXCEPT ![w] = "live"]
  /\ pc' = [pc EXCEPT ![w] = "post"]
  /\ until' = [until EXCEPT ![w] = now + limit[w]]
  /\ UNCHANGED <<settings, unavailable, phase, now, tries, limit, refreshed, answer,
                 lentUntil, lent, history, result>>

\* Faulty: the lock is released on success only.
AfterFailedFetchKept == lock

\* The with statement releases the lock on an exception.
AfterFailedFetch == NULL

\* _fetch raises RetryableError, always without Retry-After.
FetchFails(w) ==
  /\ pc[w] = "fetch"
  /\ lock' = AfterFailedFetch
  /\ \E pause \in Backoff : Retry(w, pause)
  /\ UNCHANGED <<settings, unavailable, phase, now, answer, cached, fresh, lentUntil,
                 lent, history, result>>

\* _fetch raises ProviderContractError, or whatever a body that is no JSON raises.
FetchBreaks(w) ==
  /\ pc[w] = "fetch"
  /\ lock' = AfterFailedFetch
  /\ Settle(w, "broken")
  /\ UNCHANGED <<settings, unavailable, phase, now, answer, cached, fresh, lentUntil,
                 lent, history, result>>

\* The token's provider is one for the process: another call fetches a token, with the
\* lock held and a timeout of its own.  It matters once a worker of this call comes for
\* the lock; one that has begun before counts from there and ends the sooner.
OthersFetch ==
  /\ \E w \in Worker : pc[w] = "token"
  /\ lock = NULL
  /\ lent + REQUEST_TIMEOUT <= MaxLent
  /\ lock' = Other
  /\ lentUntil' = now + REQUEST_TIMEOUT
  /\ lent' = lent + REQUEST_TIMEOUT
  /\ UNCHANGED <<settings, unavailable, phase, now, pc, tries, limit, until, held,
                 refreshed, answer, cached, fresh, history, result>>

\* Its fetch has returned or failed.
OthersFetched ==
  /\ lock = Other
  /\ lock' = NULL
  /\ lentUntil' = 0
  /\ (cached' = "live" /\ fresh' = TRUE) \/ UNCHANGED <<cached, fresh>>
  /\ UNCHANGED <<settings, unavailable, phase, now, pc, tries, limit, until, held,
                 refreshed, answer, lent, history, result>>

-----------------------------------------------------------------------------
(* post_json and the dialects' _post and _call.                             *)

Unauthorised(w) == dialect = "gigachat" /\ held[w] = "dead"

\* What a successful attempt may bring: the generated text; for the first request
\* of classify, logprobs (of a category or of none) or no logprobs at all; for a
\* sample, a category or none.
Reply(w) ==
  IF w # Lead THEN Label \cup {NULL}
  ELSE IF phase = "generating" THEN {"text", "empty"}
  ELSE {"measured", "unmeasured"}

Answered(w) ==
  /\ pc[w] = "post" /\ ~Unauthorised(w)
  /\ \E a \in Reply(w) : answer' = [answer EXCEPT ![w] = a]
  /\ Settle(w, "ok")
  /\ UNCHANGED <<settings, unavailable, phase, now, tokenVars, history, result>>

\* A timeout, a lost connection or a retryable status.
PostFails(w) ==
  /\ pc[w] = "post"
  /\ \E pause \in Backoff \cup RetryAfter : Retry(w, pause)
  /\ UNCHANGED <<settings, unavailable, phase, now, answer, tokenVars, history, result>>

\* Another 4xx, or a body that is no answer: never retried.
PostBreaks(w) ==
  /\ pc[w] = "post" /\ ~Unauthorised(w)
  /\ Settle(w, "broken")
  /\ UNCHANGED <<settings, unavailable, phase, now, answer, tokenVars, history, result>>

\* 401 for a revoked token: a new one is demanded once, with the same timeout.
TokenRefused(w) ==
  /\ pc[w] = "post" /\ Unauthorised(w)
  /\ IF refreshed[w]
     THEN Settle(w, "broken") /\ refused' = refused \cup {w}
     ELSE /\ pc' = [pc EXCEPT ![w] = "token"]
          /\ refreshed' = [refreshed EXCEPT ![w] = TRUE]
          /\ UNCHANGED <<tries, limit, until, held, refused>>
  /\ UNCHANGED <<settings, unavailable, phase, now, answer, tokenVars, revocations,
                 result>>

-----------------------------------------------------------------------------
(* The results of classify and complete.                                    *)

Return(r) == phase' = "done" /\ result' = r

\* complete returns, or refuses an empty text.
Generated ==
  /\ phase = "generating" /\ pc[Lead] \in Settled
  /\ Return(CASE pc[Lead] = "down" -> Plain("unavailable", "none")
              [] pc[Lead] = "broken" \/ answer[Lead] = "empty" -> Plain("broken", "none")
              [] OTHER -> Plain("text", "none"))
  /\ UNCHANGED <<settings, unavailable, now, pc, tries, limit, until, held, refreshed,
                 answer, tokenVars, history>>

\* The request for logprobs settles the call: it failed, or it was measured.
Measured ==
  /\ phase = "measuring" /\ pc[Lead] \in Settled
  /\ pc[Lead] = "ok" => answer[Lead] # "unmeasured"
  /\ Return(CASE pc[Lead] = "down" -> Plain("unavailable", "none")
              [] pc[Lead] = "broken" -> Plain("broken", "none")
              [] OTHER -> Plain("probabilities", "logprobs"))
  /\ UNCHANGED <<settings, unavailable, now, pc, tries, limit, until, held, refreshed,
                 answer, tokenVars, history>>

\* _on_logprobs_missing: an error where they are required, otherwise k-sampling
\* with what is left of the same deadline.
LogprobsMissing ==
  /\ phase = "measuring" /\ pc[Lead] = "ok" /\ answer[Lead] = "unmeasured"
  /\ IF mode = "logprobs"
     THEN Return(Plain("broken", "none")) /\ UNCHANGED <<unavailable, pc>>
     ELSE /\ unavailable' = TRUE
          /\ phase' = "sampling"
          /\ pc' = [w \in Worker |-> IF w \in Sample THEN "try" ELSE pc[w]]
          /\ UNCHANGED result
  /\ UNCHANGED <<settings, now, tries, limit, until, held, refreshed, answer, tokenVars,
                 history>>

\* Faulty: a failed sample shrinks the denominator instead of voting for nobody.
VotersAnswered == Cardinality({w \in Sample : pc[w] = "ok"})

\* The denominator of distribution_from_votes: all k samples.
Voters == Cardinality(Sample)

\* _classify_by_sampling once every future has its result.
Tallied ==
  /\ phase = "sampling"
  /\ \A w \in Sample : pc[w] \in Settled
  /\ Return(CASE \E w \in Sample : pc[w] = "broken" -> Plain("broken", "none")
              [] \A w \in Sample : pc[w] = "down" -> Plain("unavailable", "none")
              [] OTHER -> [kind |-> "probabilities", source |-> "k_sampling",
                           votes |-> [l \in Label |-> Votes(l)], of |-> Voters])
  /\ UNCHANGED <<settings, unavailable, now, pc, tries, limit, until, held, refreshed,
                 answer, tokenVars, history>>

-----------------------------------------------------------------------------
(* The provider and the clock.                                              *)

\* The provider revokes every token it has issued.
Revoke ==
  /\ dialect = "gigachat" /\ phase \notin {"idle", "done"}
  /\ revocations < MaxRevocations
  /\ revocations' = revocations + 1
  /\ cached' = IF cached = "live" THEN "dead" ELSE cached
  /\ held' = [w \in Worker |-> IF held[w] = "live" THEN "dead" ELSE held[w]]
  /\ UNCHANGED <<settings, unavailable, phase, now, pc, tries, limit, until, refreshed,
                 answer, fresh, lock, lentUntil, lent, refused, result>>

\* The cached token comes within EXPIRY_BUFFER_MS of its expiry.
Age ==
  /\ phase \notin {"idle", "done"} /\ fresh
  /\ fresh' = FALSE
  /\ UNCHANGED <<settings, unavailable, phase, now, pc, tries, limit, until, held,
                 refreshed, answer, cached, lock, lentUntil, lent, history, result>>

\* Somebody waits for an end that time brings, and everybody else for the token's lock.
Tick ==
  /\ \E w \in Worker : pc[w] \in Waiting \/ (pc[w] = "token" /\ lock = Other)
  /\ \A w \in Worker :
       /\ pc[w] # "try"
       /\ pc[w] = "token" => lock # NULL
       /\ pc[w] \in Waiting => now < until[w]
  /\ lock = Other => now < lentUntil
  /\ now' = now + 1
  /\ UNCHANGED <<settings, unavailable, phase, pc, tries, limit, until, held, refreshed,
                 answer, tokenVars, history, result>>

Step(w) ==
  \/ Attempt(w) \/ NoTimeLeft(w) \/ Resume(w)
  \/ UseCached(w) \/ Fetch(w) \/ Fetched(w) \/ FetchFails(w) \/ FetchBreaks(w)
  \/ Answered(w) \/ PostFails(w) \/ PostBreaks(w) \/ TokenRefused(w)

Finish == Generated \/ Measured \/ LogprobsMissing \/ Tallied

LlmNext ==
  \/ Complete \/ Classify
  \/ \E w \in Worker : Step(w)
  \/ Finish
  \/ OthersFetch \/ OthersFetched
  \/ Revoke \/ Age \/ Tick

\* Threads run, and httpx raises when a timeout is over.
LlmSpec ==
  /\ LlmInit /\ [][LlmNext]_llmVars
  /\ WF_llmVars(Tick) /\ WF_llmVars(Finish) /\ WF_llmVars(OthersFetched)
  /\ \A w \in Worker : WF_llmVars(Step(w))

-----------------------------------------------------------------------------
(* Properties.                                                              *)

\* A client without OAuth never works past the deadline of the call, pauses,
\* retries and parallel samples included (RetryPolicy, _with_retry).
DeadlineKept == dialect = "openai" => now <= DEADLINE

\* A share of the votes is never larger than the share of the k samples that gave
\* that answer: a failed or unreadable sample lowers the confidence
\* (_classify_by_sampling, distribution_from_votes).
ConfidenceIsEarned ==
  result.source = "k_sampling" =>
    \A l \in Label :
      result.votes[l] * Cardinality(Sample) <= result.of * Votes(l)

\* A token revoked before the call never fails it: whoever gets 401 asks for a new
\* token and tries again, so only a second revocation can (GigaChatClient._call).
RevocationSurvived == refused # {} => revocations > 0

\* A call that has begun returns or raises, whatever the provider does: no thread
\* waits for a pause for ever, or for the token's lock, held by a sample or by
\* another call of the process, succeeding or failing.
CallEnds == (phase # "idle") ~> (phase = "done")

\* "The deadline limits everything together, pauses included" (RetryPolicy).
DeadlineLimitsAll == now <= DEADLINE
=============================================================================
