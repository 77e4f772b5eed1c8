-------------------------- MODULE LlmClientProofs --------------------------
(***************************************************************************)
(* What is proved of the LLM client for any number of samples and retries, *)
(* any deadline, timeout and pauses: its types with the count of retries,  *)
(* the deadline of a client without OAuth and the overrun of one with it,  *)
(* that only a revocation during the call can fail it as unauthorised, the *)
(* votes of the samples, and the meter of charged requests.                *)
(***************************************************************************)
EXTENDS LlmUsage, FiniteSetTheorems, TLAPS

\* The shorter of two times.
LEMMA MinOfTwo ==
  ASSUME NEW a \in Int, NEW b \in Int
  PROVE  /\ Min({a, b}) \in {a, b}
         /\ Min({a, b}) <= a /\ Min({a, b}) <= b
<1>1. \E x \in {a, b} : \A y \in {a, b} : x <= y
  <2>1. CASE a <= b
    BY <2>1
  <2>2. CASE ~(a <= b)
    BY <2>2
  <2>. QED BY <2>1, <2>2
<1>. QED BY <1>1 DEF Min

\* The timeout of an attempt fits its limits: positive, and no longer than the
\* request timeout or the rest of the deadline (_with_retry).
LEMMA TimeoutFits ==
  ASSUME now \in Nat, now < DEADLINE
  PROVE  /\ TimeoutNow \in 0..REQUEST_TIMEOUT
         /\ now + TimeoutNow \in Nat
         /\ now + TimeoutNow <= DEADLINE
<1>1. DEADLINE \in Nat /\ REQUEST_TIMEOUT \in Nat
  BY LlmAssumption
<1>2. /\ TimeoutNow \in {REQUEST_TIMEOUT, DEADLINE - now}
      /\ TimeoutNow <= REQUEST_TIMEOUT /\ TimeoutNow <= DEADLINE - now
  BY <1>1, MinOfTwo DEF TimeoutNow
<1>. QED BY <1>1, <1>2

\* The votes for a label are at most as many as the samples, and there is a sample.
LEMMA VotesBounded ==
  /\ Cardinality(Sample) \in Nat \ {0}
  /\ \A l \in Label : Votes(l) \in 0..Cardinality(Sample)
<1>1. Cardinality(Sample) \in Nat /\ Cardinality(Sample) # 0
  BY LlmAssumption, FS_CardinalityType, FS_EmptySet
<1>2. ASSUME NEW l \in Label
      PROVE  Votes(l) \in 0..Cardinality(Sample)
  <2>. DEFINE For == {w \in Sample : pc[w] = "ok" /\ answer[w] = l}
  <2>1. For \subseteq Sample
    OBVIOUS
  <2>2. IsFiniteSet(For) /\ Cardinality(For) <= Cardinality(Sample)
    BY <2>1, LlmAssumption, FS_Subset
  <2>3. Cardinality(For) \in Nat
    BY <2>2, FS_CardinalityType
  <2>. QED BY <1>1, <2>2, <2>3 DEF Votes
<1>. QED BY <1>1, <1>2

-----------------------------------------------------------------------------
(* Types.  A worker that pauses has a retry left, or tries would overflow.  *)

RetryLeft == \A w \in Worker : pc[w] = "pause" => tries[w] < MAX_RETRIES

LlmTypes == LlmTypeOK /\ RetryLeft

\* Settling a worker keeps the types of its locals.
LEMMA SettleTyped ==
  ASSUME LlmTypes, NEW w \in Worker, NEW p \in Settled, Settle(w, p)
  PROVE  /\ pc' \in [Worker -> {"idle", "try", "token"} \cup Waiting \cup Settled]
         /\ tries' \in [Worker -> 0..MAX_RETRIES]
         /\ limit' \in [Worker -> 0..REQUEST_TIMEOUT]
         /\ until' \in [Worker -> Nat]
         /\ held' \in [Worker -> Token]
         /\ refreshed' \in [Worker -> BOOLEAN]
         /\ RetryLeft'
BY LlmAssumption
   DEF LlmTypes, LlmTypeOK, RetryLeft, Settle, EndAttempt, Settled, Waiting, Token

\* So does a retry, and whoever pauses for one has an attempt left.
LEMMA RetryTyped ==
  ASSUME LlmTypes, NEW w \in Worker, NEW pause \in Nat, Retry(w, pause)
  PROVE  /\ pc' \in [Worker -> {"idle", "try", "token"} \cup Waiting \cup Settled]
         /\ tries' \in [Worker -> 0..MAX_RETRIES]
         /\ limit' \in [Worker -> 0..REQUEST_TIMEOUT]
         /\ until' \in [Worker -> Nat]
         /\ held' \in [Worker -> Token]
         /\ refreshed' \in [Worker -> BOOLEAN]
         /\ RetryLeft'
<1>1. CASE LastAttempt(w) \/ now + pause >= DEADLINE
  <2>1. Settle(w, "down")
    BY <1>1 DEF Retry
  <2>. QED BY <2>1, SettleTyped DEF Settled
<1>2. CASE ~(LastAttempt(w) \/ now + pause >= DEADLINE)
  <2>1. /\ EndAttempt(w) /\ UNCHANGED tries
        /\ pc' = [pc EXCEPT ![w] = "pause"]
        /\ until' = [until EXCEPT ![w] = now + pause]
        /\ tries[w] # MAX_RETRIES
    BY <1>2 DEF Retry, LastAttempt
  <2>. QED
    BY <2>1, LlmAssumption
       DEF LlmTypes, LlmTypeOK, RetryLeft, EndAttempt, Waiting, Settled, Token
<1>. QED BY <1>1, <1>2

\* A result without votes is well-formed.
LEMMA PlainTyped ==
  ASSUME NEW kind \in Outcome, NEW source \in {"none", "logprobs", "k_sampling"}
  PROVE  Plain(kind, source) \in
           [kind : Outcome, source : {"none", "logprobs", "k_sampling"},
            votes : [Label -> 0..Cardinality(Sample)], of : Nat \ {0}]
BY VotesBounded DEF Plain

\* Every step of the client keeps the types, and the retries left to a pause.
LEMMA LlmTypesStep == LlmTypes /\ [LlmNext]_llmVars => LlmTypes'
<1>. SUFFICES ASSUME LlmTypes, [LlmNext]_llmVars PROVE LlmTypes'
  OBVIOUS
<1>. USE LlmAssumption DEF LlmTypes
<1>1. CASE Complete \/ Classify
  BY <1>1 DEF Complete, Classify, Begun, LlmTypeOK, RetryLeft, settings, tokenVars, history
<1>2. ASSUME NEW w \in Worker, Step(w) PROVE LlmTypes'
  <2>1. CASE Attempt(w)
    <3>1. TimeoutNow \in 0..REQUEST_TIMEOUT /\ now + TimeoutNow \in Nat
      BY <2>1, TimeoutFits DEF Attempt, LlmTypeOK
    <3>. QED
      BY <2>1, <3>1
         DEF Attempt, LlmTypeOK, RetryLeft, Waiting, settings, tokenVars, history
  <2>2. CASE NoTimeLeft(w)
    <3>. QED
      BY <2>2, SettleTyped
         DEF NoTimeLeft, LlmTypeOK, Settled, settings, tokenVars, history
  <2>3. CASE Resume(w)
    BY <2>3 DEF Resume, LlmTypeOK, RetryLeft, Waiting, settings, tokenVars, history
  <2>4. CASE UseCached(w)
    BY <2>4
       DEF UseCached, LlmTypeOK, RetryLeft, Waiting, Token, settings, tokenVars, history
  <2>5. CASE Fetch(w)
    BY <2>5 DEF Fetch, LlmTypeOK, RetryLeft, Waiting, Token, settings, history
  <2>6. CASE Fetched(w)
    BY <2>6 DEF Fetched, LlmTypeOK, RetryLeft, Waiting, Token, settings, history
  <2>7. CASE FetchFails(w)
    <3>1. PICK pause \in Backoff : Retry(w, pause)
      BY <2>7 DEF FetchFails
    <3>. QED
      BY <2>7, <3>1, RetryTyped
         DEF FetchFails, AfterFailedFetch, LlmTypeOK, settings, history
  <2>8. CASE FetchBreaks(w)
    BY <2>8, SettleTyped
       DEF FetchBreaks, AfterFailedFetch, LlmTypeOK, Settled, settings, history
  <2>9. CASE Answered(w)
    <3>1. Settle(w, "ok") /\ answer' \in [Worker -> Label \cup {NULL} \cup Spoken]
      BY <2>9 DEF Answered, Reply, LlmTypeOK, Spoken
    <3>. QED
      BY <2>9, <3>1, SettleTyped
         DEF Answered, LlmTypeOK, Settled, settings, tokenVars, history
  <2>10. CASE PostFails(w)
    <3>1. PICK pause \in Backoff \cup RetryAfter : Retry(w, pause)
      BY <2>10 DEF PostFails
    <3>. QED
      BY <2>10, <3>1, RetryTyped DEF PostFails, LlmTypeOK, settings, tokenVars, history
  <2>11. CASE PostBreaks(w)
    BY <2>11, SettleTyped
       DEF PostBreaks, LlmTypeOK, Settled, settings, tokenVars, history
  <2>12. CASE TokenRefused(w)
    <3>1. CASE refreshed[w]
      BY <2>12, <3>1, SettleTyped
         DEF TokenRefused, LlmTypeOK, Settled, settings, tokenVars
    <3>2. CASE ~refreshed[w]
      <4>1. /\ pc' = [pc EXCEPT ![w] = "token"]
            /\ refreshed' = [refreshed EXCEPT ![w] = TRUE]
            /\ UNCHANGED <<dialect, mode, unavailable, phase, now, tries, limit, until, held,
                           answer, cached, fresh, lock, lentUntil, lent, revocations,
                           refused, result>>
        BY <2>12, <3>2 DEF TokenRefused, settings, tokenVars
      <4>. QED BY <4>1 DEF LlmTypeOK, RetryLeft, Waiting
    <3>. QED BY <3>1, <3>2
  <2>. QED
    BY <1>2, <2>1, <2>2, <2>3, <2>4, <2>5, <2>6, <2>7, <2>8, <2>9, <2>10, <2>11, <2>12
       DEF Step
<1>3. CASE Generated \/ Measured
  <2>1. result' \in {Plain(k, s) : k \in Outcome, s \in {"none", "logprobs"}}
    BY <1>3 DEF Generated, Measured, Return, Outcome
  <2>2. result' \in [kind : Outcome, source : {"none", "logprobs", "k_sampling"},
                     votes : [Label -> 0..Cardinality(Sample)], of : Nat \ {0}]
    BY <2>1, PlainTyped
  <2>. QED
    BY <1>3, <2>2
       DEF Generated, Measured, Return, LlmTypeOK, RetryLeft, settings, tokenVars, history
<1>4. CASE LogprobsMissing
  <2>1. CASE mode = "logprobs"
    BY <1>4, <2>1, PlainTyped
       DEF LogprobsMissing, Return, LlmTypeOK, RetryLeft, Outcome, settings, tokenVars,
           history
  <2>2. CASE mode # "logprobs"
    BY <1>4, <2>2
       DEF LogprobsMissing, LlmTypeOK, RetryLeft, settings, tokenVars, history
  <2>. QED BY <2>1, <2>2
<1>5. CASE Tallied
  <2>. DEFINE Tally == [kind |-> "probabilities", source |-> "k_sampling",
                        votes |-> [l \in Label |-> Votes(l)], of |-> Voters]
  <2>1. result' \in {Plain("broken", "none"), Plain("unavailable", "none"), Tally}
    BY <1>5 DEF Tallied, Return
  <2>2. Tally \in [kind : Outcome, source : {"none", "logprobs", "k_sampling"},
                   votes : [Label -> 0..Cardinality(Sample)], of : Nat \ {0}]
    BY VotesBounded DEF Voters, Outcome
  <2>3. result' \in [kind : Outcome, source : {"none", "logprobs", "k_sampling"},
                     votes : [Label -> 0..Cardinality(Sample)], of : Nat \ {0}]
    BY <2>1, <2>2, PlainTyped DEF Outcome
  <2>. QED
    BY <1>5, <2>3 DEF Tallied, Return, LlmTypeOK, RetryLeft, settings, tokenVars, history
<1>6. CASE Revoke
  BY <1>6 DEF Revoke, LlmTypeOK, RetryLeft, Token, settings
<1>7. CASE Age
  BY <1>7 DEF Age, LlmTypeOK, RetryLeft, settings, history
<1>8. CASE Tick
  BY <1>8 DEF Tick, LlmTypeOK, RetryLeft, settings, tokenVars, history
<1>9. CASE OthersFetch
  BY <1>9 DEF OthersFetch, LlmTypeOK, RetryLeft, settings, history
<1>10. CASE OthersFetched
  BY <1>10 DEF OthersFetched, LlmTypeOK, RetryLeft, Token, settings, history
<1>11. CASE UNCHANGED llmVars
  BY <1>11 DEF llmVars, LlmTypeOK, RetryLeft
<1>. QED
  BY <1>1, <1>2, <1>3, <1>4, <1>5, <1>6, <1>7, <1>8, <1>9, <1>10, <1>11
     DEF LlmNext, Finish

\* A client before its first call is well-formed, and stays so.
LEMMA LlmTypesInit == LlmInit => LlmTypes
BY LlmAssumption, PlainTyped
     DEF LlmInit, LlmTypes, LlmTypeOK, RetryLeft, Token, Outcome, Waiting, Settled

\* ... in every behaviour.
LEMMA LlmTypesHold == LlmSpec => []LlmTypes
BY LlmTypesInit, LlmTypesStep, PTL DEF LlmSpec

\* The client's variables keep their types, and no request is tried more than
\* MAX_RETRIES + 1 times.
THEOREM LlmTypeCorrect == LlmSpec => []LlmTypeOK
<1>1. LlmTypes => LlmTypeOK
  BY DEF LlmTypes
<1>. QED BY <1>1, LlmTypesHold, PTL

-----------------------------------------------------------------------------
(* The deadline.  Whatever a worker waits for ends in time, and time passes *)
(* only while somebody waits for something that has not ended.              *)

InTime ==
  dialect = "openai" =>
    /\ now <= DEADLINE
    /\ \A w \in Worker : /\ pc[w] \notin {"token", "fetch"}
                         /\ pc[w] \in {"post", "pause"} => until[w] <= DEADLINE

\* A settled worker waits for nothing.
LEMMA SettleInTime ==
  ASSUME LlmTypes, InTime, NEW w \in Worker, NEW p \in Settled, Settle(w, p),
         UNCHANGED <<dialect, now>>
  PROVE  InTime'
BY DEF LlmTypes, LlmTypeOK, InTime, Settle, Settled

\* A pause that would reach the deadline is not begun.
LEMMA RetryInTime ==
  ASSUME LlmTypes, InTime, NEW w \in Worker, NEW pause \in Nat, Retry(w, pause),
         UNCHANGED <<dialect, now>>
  PROVE  InTime'
<1>1. CASE LastAttempt(w) \/ now + pause >= DEADLINE
  <2>1. Settle(w, "down")
    BY <1>1 DEF Retry
  <2>. QED BY <2>1, SettleInTime DEF Settled
<1>2. CASE ~(LastAttempt(w) \/ now + pause >= DEADLINE)
  <2>1. /\ pc' = [pc EXCEPT ![w] = "pause"]
        /\ until' = [until EXCEPT ![w] = now + pause]
        /\ now + pause <= DEADLINE
    BY <1>2, LlmAssumption DEF Retry, LlmTypes, LlmTypeOK
  <2>. QED BY <2>1 DEF LlmTypes, LlmTypeOK, InTime
<1>. QED BY <1>1, <1>2

\* Every step keeps all waits within the deadline.
LEMMA InTimeInductive ==
  ASSUME LlmTypes, InTime, [LlmNext]_llmVars
  PROVE  InTime'
<1>. USE LlmAssumption DEF LlmTypes
<1>1. CASE Complete \/ Classify
  BY <1>1 DEF Complete, Classify, Begun, LlmTypeOK, InTime, settings
<1>2. ASSUME NEW w \in Worker, Step(w) PROVE InTime'
  <2>1. CASE Attempt(w)
    <3>1. now + TimeoutNow <= DEADLINE
      BY <2>1, TimeoutFits DEF Attempt, LlmTypeOK
    <3>. QED BY <2>1, <3>1 DEF Attempt, LlmTypeOK, InTime, settings
  <2>2. CASE Resume(w)
    BY <2>2 DEF Resume, LlmTypeOK, InTime, settings
  <2>3. CASE UseCached(w) \/ Fetch(w) \/ Fetched(w)
    BY <2>3 DEF UseCached, Fetch, Fetched, LlmTypeOK, InTime, settings
  <2>4. CASE FetchFails(w)
    BY <2>4, RetryInTime DEF FetchFails, settings
  <2>5. CASE PostFails(w)
    BY <2>5, RetryInTime DEF PostFails, settings
  <2>6. CASE NoTimeLeft(w) \/ FetchBreaks(w) \/ Answered(w) \/ PostBreaks(w)
    BY <2>6, SettleInTime
       DEF NoTimeLeft, FetchBreaks, Answered, PostBreaks, Settled, settings
  <2>7. CASE TokenRefused(w)
    BY <2>7, SettleInTime
       DEF TokenRefused, Unauthorised, LlmTypeOK, InTime, Settled, settings
  <2>. QED BY <1>2, <2>1, <2>2, <2>3, <2>4, <2>5, <2>6, <2>7 DEF Step
<1>3. CASE Generated \/ Measured \/ Tallied
  BY <1>3 DEF Generated, Measured, Tallied, InTime, settings
<1>4. CASE LogprobsMissing
  BY <1>4 DEF LogprobsMissing, LlmTypeOK, InTime, settings
<1>5. CASE OthersFetch \/ OthersFetched \/ Revoke \/ Age
  BY <1>5 DEF OthersFetch, OthersFetched, Revoke, Age, InTime, settings
<1>6. CASE Tick
  <2>1. ASSUME dialect = "openai" PROVE now + 1 <= DEADLINE
    <3>1. PICK w \in Worker : pc[w] \in Waiting
      BY <1>6, <2>1 DEF Tick, InTime
    <3>2. now < until[w] /\ until[w] <= DEADLINE
      BY <1>6, <2>1, <3>1 DEF Tick, InTime, Waiting
    <3>. QED BY <3>2 DEF LlmTypeOK
  <2>. QED BY <1>6, <2>1 DEF Tick, InTime, settings
<1>7. CASE UNCHANGED llmVars
  BY <1>7 DEF llmVars, InTime
<1>. QED BY <1>1, <1>2, <1>3, <1>4, <1>5, <1>6, <1>7 DEF LlmNext, Finish

\* A client without OAuth is within the deadline of its call at all times, for any
\* number of samples and retries (RetryPolicy, _with_retry).
THEOREM DeadlineHolds == LlmSpec => []DeadlineKept
<1>1. LlmInit => InTime
  BY LlmAssumption DEF LlmInit, InTime
<1>2. LlmTypes /\ InTime /\ [LlmNext]_llmVars => InTime'
  BY InTimeInductive
<1>3. InTime => DeadlineKept
  BY DEF InTime, DeadlineKept
<1>. QED BY <1>1, <1>2, <1>3, LlmTypesHold, PTL DEF LlmSpec

-----------------------------------------------------------------------------
(* Revocation.  A demanded token is new, so it is dead only if the provider *)
(* has revoked it since.                                                    *)

DemandedIsNew ==
  /\ \A w \in Worker :
       pc[w] = "post" /\ refreshed[w] /\ held[w] = "dead" => revocations > 0
  /\ RevocationSurvived

\* Every step keeps it: only Revoke makes a demanded token a dead one.
LEMMA DemandedIsNewInductive ==
  ASSUME LlmTypes, DemandedIsNew, [LlmNext]_llmVars
  PROVE  DemandedIsNew'
<1>. USE DEF LlmTypes, RevocationSurvived
<1>1. CASE Complete \/ Classify
  BY <1>1 DEF Complete, Classify, Begun, LlmTypeOK, DemandedIsNew, history
<1>2. ASSUME NEW w \in Worker, Step(w) PROVE DemandedIsNew'
  <2>1. CASE Attempt(w)
    BY <2>1 DEF Attempt, LlmTypeOK, DemandedIsNew, history
  <2>2. CASE Resume(w)
    BY <2>2 DEF Resume, LlmTypeOK, DemandedIsNew, history
  <2>3. CASE UseCached(w)
    BY <2>3 DEF UseCached, MustFetch, LlmTypeOK, DemandedIsNew, history
  <2>4. CASE Fetch(w)
    BY <2>4 DEF Fetch, LlmTypeOK, DemandedIsNew, history
  <2>5. CASE Fetched(w)
    BY <2>5 DEF Fetched, LlmTypeOK, DemandedIsNew, history
  <2>6. CASE FetchFails(w) \/ PostFails(w)
    <3>1. PICK pause : Retry(w, pause)
      BY <2>6 DEF FetchFails, PostFails
    <3>2. /\ refreshed' = [refreshed EXCEPT ![w] = FALSE]
          /\ held' = [held EXCEPT ![w] = "none"]
          /\ \A v \in Worker \ {w} : pc'[v] = pc[v]
      BY <3>1 DEF Retry, Settle, EndAttempt, LlmTypeOK
    <3>. QED
      BY <2>6, <3>2 DEF FetchFails, PostFails, LlmTypeOK, DemandedIsNew, history
  <2>7. CASE NoTimeLeft(w) \/ FetchBreaks(w) \/ Answered(w) \/ PostBreaks(w)
    BY <2>7
       DEF NoTimeLeft, FetchBreaks, Answered, PostBreaks, Settle, EndAttempt, LlmTypeOK,
           DemandedIsNew, history
  <2>8. CASE TokenRefused(w)
    <3>1. CASE refreshed[w]
      BY <2>8, <3>1
         DEF TokenRefused, Unauthorised, Settle, EndAttempt, LlmTypeOK, DemandedIsNew
    <3>2. CASE ~refreshed[w]
      BY <2>8, <3>2 DEF TokenRefused, LlmTypeOK, DemandedIsNew
    <3>. QED BY <3>1, <3>2
  <2>. QED BY <1>2, <2>1, <2>2, <2>3, <2>4, <2>5, <2>6, <2>7, <2>8 DEF Step
<1>3. CASE Generated \/ Measured \/ Tallied
  BY <1>3 DEF Generated, Measured, Tallied, DemandedIsNew, history
<1>4. CASE LogprobsMissing
  BY <1>4 DEF LogprobsMissing, LlmTypeOK, DemandedIsNew, history
<1>5. CASE Revoke
  BY <1>5, LlmAssumption DEF Revoke, LlmTypeOK, DemandedIsNew
<1>6. CASE OthersFetch \/ OthersFetched \/ Age \/ Tick
  BY <1>6 DEF OthersFetch, OthersFetched, Age, Tick, DemandedIsNew, history
<1>7. CASE UNCHANGED llmVars
  BY <1>7 DEF llmVars, DemandedIsNew
<1>. QED BY <1>1, <1>2, <1>3, <1>4, <1>5, <1>6, <1>7 DEF LlmNext, Finish

\* A call fails as unauthorised only if a token was revoked while it was under way
\* (GigaChatClient._call, GigaChatTokenProvider.token).
THEOREM RevocationHolds == LlmSpec => []RevocationSurvived
<1>1. LlmInit => DemandedIsNew
  BY DEF LlmInit, DemandedIsNew, RevocationSurvived
<1>2. LlmTypes /\ DemandedIsNew /\ [LlmNext]_llmVars => DemandedIsNew'
  BY DemandedIsNewInductive
<1>3. DemandedIsNew => RevocationSurvived
  BY DEF DemandedIsNew
<1>. QED BY <1>1, <1>2, <1>3, LlmTypesHold, PTL DEF LlmSpec

-----------------------------------------------------------------------------
(* Confidence.  The tally is taken when every sample is settled, and a      *)
(* settled worker takes no step.                                            *)

TallyIsTrue ==
  result.source = "k_sampling" =>
    /\ phase = "done"
    /\ \A w \in Sample : pc[w] \in Settled
    /\ result.of = Cardinality(Sample)
    /\ \A l \in Label : result.votes[l] = Votes(l)

\* A step of a worker is its own: it is not settled, and no other worker notices.
LEMMA StepIsLocal ==
  ASSUME LlmTypes, NEW w \in Worker, Step(w)
  PROVE  /\ pc[w] \notin Settled
         /\ UNCHANGED <<phase, result>>
         /\ \A v \in Worker \ {w} : pc'[v] = pc[v] /\ answer'[v] = answer[v]
<1>. USE DEF LlmTypes, LlmTypeOK, Settled
<1>1. CASE Attempt(w) \/ Resume(w) \/ UseCached(w) \/ Fetch(w) \/ Fetched(w)
  BY <1>1 DEF Attempt, Resume, UseCached, Fetch, Fetched
<1>2. CASE NoTimeLeft(w) \/ FetchBreaks(w) \/ Answered(w) \/ PostBreaks(w)
  BY <1>2 DEF NoTimeLeft, FetchBreaks, Answered, PostBreaks, Settle
<1>3. CASE FetchFails(w) \/ PostFails(w)
  <2>1. PICK pause : Retry(w, pause)
    BY <1>3 DEF FetchFails, PostFails
  <2>2. \A v \in Worker \ {w} : pc'[v] = pc[v]
    BY <2>1 DEF Retry, Settle
  <2>. QED BY <1>3, <2>2 DEF FetchFails, PostFails
<1>4. CASE TokenRefused(w)
  BY <1>4 DEF TokenRefused, Settle
<1>. QED BY <1>1, <1>2, <1>3, <1>4 DEF Step

\* The votes are those of the samples, whoever else moves.
LEMMA SameVotes ==
  ASSUME \A w \in Sample : pc'[w] = pc[w] /\ answer'[w] = answer[w]
  PROVE  \A l \in Label : Votes(l)' = Votes(l)
<1>1. ASSUME NEW l \in Label
      PROVE  {w \in Sample : pc'[w] = "ok" /\ answer'[w] = l}
               = {w \in Sample : pc[w] = "ok" /\ answer[w] = l}
  OBVIOUS
<1>. QED BY <1>1 DEF Votes

\* Every step keeps the tally true: it is taken when nobody votes any more.
LEMMA TallyIsTrueInductive ==
  ASSUME LlmTypes, TallyIsTrue, [LlmNext]_llmVars
  PROVE  TallyIsTrue'
<1>1. CASE Complete \/ Classify
  BY <1>1 DEF Complete, Classify, Begun, TallyIsTrue
<1>2. ASSUME NEW w \in Worker, Step(w) PROVE TallyIsTrue'
  <2>. SUFFICES ASSUME result'.source = "k_sampling"
                PROVE  TallyIsTrue'
    BY DEF TallyIsTrue
  <2>1. UNCHANGED <<phase, result>> /\ w \notin Sample
    BY <1>2, StepIsLocal DEF TallyIsTrue
  <2>2. \A v \in Sample : pc'[v] = pc[v] /\ answer'[v] = answer[v]
    BY <1>2, <2>1, StepIsLocal DEF Worker
  <2>. QED BY <2>1, <2>2, SameVotes DEF TallyIsTrue
<1>3. CASE Generated \/ Measured
  <2>1. result'.source \in {"none", "logprobs"}
    BY <1>3 DEF Generated, Measured, Return, Plain
  <2>. QED BY <2>1 DEF TallyIsTrue
<1>4. CASE LogprobsMissing
  <2>1. CASE mode = "logprobs"
    BY <1>4, <2>1 DEF LogprobsMissing, Return, Plain, TallyIsTrue
  <2>2. CASE mode # "logprobs"
    BY <1>4, <2>2 DEF LogprobsMissing, TallyIsTrue
  <2>. QED BY <2>1, <2>2
<1>5. CASE Tallied
  <2>1. \/ result'.source = "none"
        \/ result' = [kind |-> "probabilities", source |-> "k_sampling",
                      votes |-> [l \in Label |-> Votes(l)], of |-> Voters]
    BY <1>5 DEF Tallied, Return, Plain
  <2>2. /\ phase' = "done"
        /\ \A w \in Sample : pc[w] \in Settled
        /\ UNCHANGED <<pc, answer>>
    BY <1>5 DEF Tallied, Return
  <2>3. \A l \in Label : Votes(l)' = Votes(l)
    BY <2>2, SameVotes
  <2>. QED BY <2>1, <2>2, <2>3 DEF TallyIsTrue, Voters
<1>6. CASE OthersFetch \/ OthersFetched \/ Revoke \/ Age \/ Tick \/ UNCHANGED llmVars
  <2>1. UNCHANGED <<phase, result, pc, answer>>
    BY <1>6 DEF OthersFetch, OthersFetched, Revoke, Age, Tick, llmVars
  <2>. QED BY <2>1, SameVotes DEF TallyIsTrue
<1>. QED BY <1>1, <1>2, <1>3, <1>4, <1>5, <1>6 DEF LlmNext, Finish

\* A tally that is true earns the confidence.
LEMMA TallyIsEarned == TallyIsTrue => ConfidenceIsEarned
<1>. SUFFICES ASSUME TallyIsTrue, result.source = "k_sampling", NEW l \in Label
              PROVE  result.votes[l] * Cardinality(Sample) <= result.of * Votes(l)
  BY DEF ConfidenceIsEarned
<1>. DEFINE K == Cardinality(Sample)
            V == Votes(l)
<1>1. K \in Nat /\ V \in Nat
  BY VotesBounded
<1>2. result.votes[l] = V /\ result.of = K
  BY DEF TallyIsTrue
<1>. HIDE DEF K, V
<1>3. V * K <= K * V
  BY <1>1
<1>. QED BY <1>2, <1>3 DEF K, V

\* However many samples fail or cannot be read, no label's share exceeds the share
\* of all k samples that gave it (_classify_by_sampling, distribution_from_votes).
THEOREM ConfidenceHolds == LlmSpec => []ConfidenceIsEarned
<1>1. LlmInit => TallyIsTrue
  BY DEF LlmInit, TallyIsTrue, Plain
<1>2. LlmTypes /\ TallyIsTrue /\ [LlmNext]_llmVars => TallyIsTrue'
  BY TallyIsTrueInductive
<1>. QED BY <1>1, <1>2, TallyIsEarned, LlmTypesHold, PTL DEF LlmSpec

-----------------------------------------------------------------------------
(* The overrun.  The last attempt of a client with OAuth may begin just     *)
(* before the deadline, and its timeout is granted anew to each of its four *)
(* requests: token, request, demanded token, request again.  Waiting for    *)
(* the lock of the token comes on top: no timeout covers it.                *)

\* What is left of the fetch that another call holds the lock for.
Remaining == IF lock = Other THEN lentUntil - now ELSE 0

\* The latest end of the attempt of w, as far as it has come, without waiting for others.
EndOf(w) ==
  LET again == IF refreshed[w] THEN 0 ELSE 2 * limit[w]
  IN [token |-> now + again + 2 * limit[w],
      fetch |-> until[w] + again + limit[w],
      post |-> until[w] + again]

\* While the lead works alone, its attempt ends within three timeouts after the
\* deadline, put off by as long as others have held the lock, and nobody waits longer
\* than that.
LeadEnds ==
  phase \in {"idle", "generating", "measuring"} =>
    /\ \A w \in Sample : pc[w] = "idle"
    /\ phase = "idle" => pc[Lead] = "idle"
    /\ IF pc[Lead] = "fetch" THEN lock = Lead ELSE lock \in {NULL, Other}
    /\ Remaining \in 0..lent
    /\ pc[Lead] \in {"token", "fetch", "post"} =>
         EndOf(Lead)[pc[Lead]] + Remaining <= DEADLINE + 3 * limit[Lead] + lent
    /\ pc[Lead] \in Waiting => now <= until[Lead]
    /\ pc[Lead] = "pause" => until[Lead] <= DEADLINE
    /\ now + Remaining <= DEADLINE + 3 * REQUEST_TIMEOUT + lent

\* An attempt that settles or pauses takes no more time, and no lock is left to it.
LEMMA LeadRests ==
  ASSUME LlmTypes, LeadEnds, phase # "idle", UNCHANGED <<phase, now, lentUntil, lent>>,
         lock' \in {NULL, Other}, lock' = Other <=> lock = Other,
         \/ \E p \in Settled : Settle(Lead, p)
         \/ \E pause \in Nat : Retry(Lead, pause)
  PROVE  LeadEnds'
<1>. USE LlmAssumption DEF LlmTypes, LlmTypeOK, Worker
<1>0. Remaining' = Remaining
  BY DEF Remaining
<1>1. ASSUME NEW p \in Settled, Settle(Lead, p) PROVE LeadEnds'
  BY <1>0, <1>1 DEF Settle, Settled, Waiting, LeadEnds
<1>2. ASSUME NEW pause \in Nat, Retry(Lead, pause) PROVE LeadEnds'
  <2>1. CASE Settle(Lead, "down")
    BY <1>1, <2>1 DEF Settled
  <2>2. CASE ~Settle(Lead, "down")
    <3>1. /\ pc' = [pc EXCEPT ![Lead] = "pause"]
          /\ until' = [until EXCEPT ![Lead] = now + pause]
          /\ now + pause <= DEADLINE
      BY <1>2, <2>2 DEF Retry
    <3>. QED BY <1>0, <3>1 DEF LeadEnds, Waiting
  <2>. QED BY <2>1, <2>2
<1>. QED BY <1>1, <1>2

\* A step of the lead keeps the end of its attempt.
LEMMA LeadStep ==
  ASSUME LlmTypes, LeadEnds, phase \in {"generating", "measuring"}, Step(Lead)
  PROVE  LeadEnds'
<1>. USE LlmAssumption DEF LlmTypes, LlmTypeOK, Worker
<1>. DEFINE L == limit[Lead]
<1>0. L \in 0..REQUEST_TIMEOUT /\ until[Lead] \in Nat /\ Lead \in Worker
  OBVIOUS
<1>1. CASE Attempt(Lead)
  <2>1. TimeoutNow \in 0..REQUEST_TIMEOUT /\ now + TimeoutNow <= DEADLINE
    BY <1>1, TimeoutFits DEF Attempt
  <2>2. /\ limit'[Lead] = TimeoutNow /\ ~refreshed'[Lead] /\ UNCHANGED <<now, phase>>
        /\ \A w \in Sample : pc'[w] = pc[w]
        /\ UNCHANGED <<lock, lentUntil, lent>> /\ lock # Lead
        /\ \/ pc'[Lead] = "token"
           \/ pc'[Lead] = "post" /\ until'[Lead] = now + TimeoutNow
    BY <1>1 DEF Attempt, tokenVars, LeadEnds
  <2>3. Remaining' = Remaining
    BY <2>2 DEF Remaining
  <2>. QED BY <2>1, <2>2, <2>3 DEF LeadEnds, EndOf, Waiting
<1>2. CASE UseCached(Lead) \/ Fetch(Lead)
  <2>1. /\ pc[Lead] = "token" /\ UNCHANGED <<now, phase, limit, refreshed, lent>>
        /\ until'[Lead] = now + L /\ pc'[Lead] \in {"fetch", "post"}
        /\ lock' = IF pc'[Lead] = "fetch" THEN Lead ELSE NULL
        /\ \A w \in Sample : pc'[w] = pc[w]
    BY <1>2 DEF UseCached, Fetch, tokenVars
  <2>2. Remaining = 0 /\ Remaining' = 0
    BY <1>2, <2>1 DEF UseCached, Fetch, Remaining
  <2>3. now + (IF refreshed[Lead] THEN 0 ELSE 2 * L) + 2 * L <= DEADLINE + 3 * L + lent
    BY <2>1, <2>2 DEF LeadEnds, EndOf
  <2>. QED BY <1>0, <2>1, <2>2, <2>3 DEF LeadEnds, EndOf, Waiting
<1>3. CASE Fetched(Lead)
  <2>1. /\ pc[Lead] = "fetch" /\ UNCHANGED <<now, phase, limit, refreshed, lent>>
        /\ until'[Lead] = now + L /\ pc'[Lead] = "post" /\ lock' = NULL
        /\ \A w \in Sample : pc'[w] = pc[w]
    BY <1>3 DEF Fetched
  <2>2. Remaining' = 0 /\ Remaining \in 0..lent
    BY <2>1 DEF LeadEnds, Remaining
  <2>3. /\ until[Lead] + (IF refreshed[Lead] THEN 0 ELSE 2 * L) + L + Remaining
             <= DEADLINE + 3 * L + lent
        /\ now <= until[Lead]
    BY <2>1 DEF LeadEnds, EndOf, Waiting
  <2>. QED BY <1>0, <2>1, <2>2, <2>3 DEF LeadEnds, EndOf, Waiting
<1>4. CASE TokenRefused(Lead) /\ ~refreshed[Lead]
  <2>1. /\ pc[Lead] = "post" /\ UNCHANGED <<now, phase, limit, until>>
        /\ UNCHANGED <<lock, lentUntil, lent>> /\ lock # Lead
        /\ refreshed'[Lead] /\ pc'[Lead] = "token"
        /\ \A w \in Sample : pc'[w] = pc[w]
    BY <1>4 DEF TokenRefused, tokenVars, LeadEnds
  <2>2. Remaining' = Remaining
    BY <2>1 DEF Remaining
  <2>3. until[Lead] + 2 * L + Remaining <= DEADLINE + 3 * L + lent /\ now <= until[Lead]
    BY <1>4, <2>1 DEF LeadEnds, EndOf, Waiting
  <2>. QED BY <1>0, <2>1, <2>2, <2>3 DEF LeadEnds, EndOf, Waiting
<1>5. CASE TokenRefused(Lead) /\ refreshed[Lead]
  <2>1. lock \in {NULL, Other} /\ UNCHANGED <<phase, now, lock, lentUntil, lent>>
    BY <1>5 DEF TokenRefused, tokenVars, LeadEnds
  <2>. QED BY <1>5, <2>1, LeadRests DEF TokenRefused, Settled
<1>6. CASE NoTimeLeft(Lead) \/ Answered(Lead) \/ PostBreaks(Lead)
  <2>1. lock \in {NULL, Other} /\ UNCHANGED <<phase, now, lock, lentUntil, lent>>
    BY <1>6 DEF NoTimeLeft, Answered, PostBreaks, tokenVars, LeadEnds
  <2>. QED BY <1>6, <2>1, LeadRests DEF NoTimeLeft, Answered, PostBreaks, Settled
<1>7. CASE PostFails(Lead)
  <2>1. PICK pause \in Nat : Retry(Lead, pause)
    BY <1>7 DEF PostFails
  <2>2. lock \in {NULL, Other} /\ UNCHANGED <<phase, now, lock, lentUntil, lent>>
    BY <1>7 DEF PostFails, tokenVars, LeadEnds
  <2>. QED BY <2>1, <2>2, LeadRests
<1>8. CASE FetchFails(Lead) \/ FetchBreaks(Lead)
  <2>1. lock' = NULL /\ UNCHANGED <<phase, now, lentUntil, lent>>
    BY <1>8 DEF FetchFails, FetchBreaks, AfterFailedFetch
  <2>2. lock = Lead
    BY <1>8 DEF FetchFails, FetchBreaks, LeadEnds
  <2>. QED BY <1>8, <2>1, <2>2, LeadRests DEF FetchFails, FetchBreaks, Settled
<1>9. CASE Resume(Lead)
  BY <1>9 DEF Resume, LeadEnds, Waiting, Remaining, tokenVars
<1>. QED BY <1>1, <1>2, <1>3, <1>4, <1>5, <1>6, <1>7, <1>8, <1>9 DEF Step

\* A worker takes no step before the call sends it off.
LEMMA StepIsBegun ==
  ASSUME NEW w \in Worker, Step(w)
  PROVE  pc[w] # "idle"
BY DEF Step, Attempt, NoTimeLeft, Resume, UseCached, Fetch, Fetched, FetchFails, FetchBreaks,
       Answered, PostFails, PostBreaks, TokenRefused

\* Another call that takes the lock puts the end off by its own timeout, and one that
\* returns it early by less.
LEMMA OthersPutOff ==
  ASSUME LlmTypes, LeadEnds, OthersFetch \/ OthersFetched
  PROVE  LeadEnds'
<1>. USE LlmAssumption DEF LlmTypes, LlmTypeOK, Worker
<1>1. /\ UNCHANGED <<phase, now, pc, limit, until, refreshed>>
      /\ lock' \in {NULL, Other} /\ lent' \in Nat
  BY DEF OthersFetch, OthersFetched
<1>2. ASSUME phase \in {"idle", "generating", "measuring"}
      PROVE  /\ lock \in {NULL, Other} /\ pc[Lead] # "fetch"
             /\ Remaining' \in 0..lent' /\ Remaining \in 0..lent
             /\ Remaining' - lent' <= Remaining - lent
  BY <1>2 DEF OthersFetch, OthersFetched, LeadEnds, Remaining
<1>. SUFFICES ASSUME phase \in {"idle", "generating", "measuring"} PROVE LeadEnds'
  BY <1>1 DEF LeadEnds
<1>3. EndOf(Lead)' = EndOf(Lead)
  BY <1>1 DEF EndOf
<1>4. ASSUME pc[Lead] \in {"token", "post"}
      PROVE  EndOf(Lead)[pc[Lead]] \in Int
  BY <1>4 DEF EndOf
<1>5. pc[Lead] \in {"token", "post"} =>
        EndOf(Lead)[pc[Lead]] + Remaining' <= DEADLINE + 3 * limit[Lead] + lent'
  BY <1>1, <1>2, <1>4 DEF LeadEnds
<1>6. now + Remaining' <= DEADLINE + 3 * REQUEST_TIMEOUT + lent'
  BY <1>1, <1>2 DEF LeadEnds
<1>. QED BY <1>1, <1>2, <1>3, <1>5, <1>6 DEF LeadEnds, Waiting

\* While time passes the lead waits, or another call holds the lock.
LEMMA TickPutsOff ==
  ASSUME LlmTypes, LeadEnds, Tick
  PROVE  LeadEnds'
<1>. USE LlmAssumption DEF LlmTypes, LlmTypeOK, Worker
<1>1. /\ UNCHANGED <<phase, pc, limit, until, refreshed, lock, lentUntil, lent>>
      /\ now' = now + 1
  BY DEF Tick, tokenVars
<1>. SUFFICES ASSUME phase \in {"idle", "generating", "measuring"} PROVE LeadEnds'
  BY <1>1 DEF LeadEnds
<1>2. pc[Lead] \in Waiting \cup {"token"}
  <2>1. PICK w \in Worker : pc[w] \in Waiting \cup {"token"}
    BY DEF Tick
  <2>2. w = Lead
    BY <2>1 DEF LeadEnds, Waiting
  <2>. QED BY <2>1, <2>2
<1>3. /\ pc[Lead] = "token" => lock = Other
      /\ pc[Lead] \in Waiting => now < until[Lead]
  BY DEF Tick, LeadEnds
<1>4. limit[Lead] \in 0..REQUEST_TIMEOUT /\ until[Lead] \in Nat /\ now \in Nat
  OBVIOUS
<1>5. CASE lock = Other
  <2>1. Remaining' = Remaining - 1 /\ Remaining \in 1..lent
    BY <1>1, <1>5 DEF Tick, Remaining, LeadEnds
  <2>. QED BY <1>1, <1>2, <1>3, <1>4, <1>5, <2>1 DEF LeadEnds, EndOf, Waiting
<1>6. CASE lock # Other
  <2>1. Remaining' = 0 /\ Remaining = 0
    BY <1>1, <1>6 DEF Remaining
  <2>. QED BY <1>1, <1>2, <1>3, <1>4, <1>6, <2>1 DEF LeadEnds, EndOf, Waiting
<1>. QED BY <1>5, <1>6

\* Every step keeps it.
LEMMA LeadEndsInductive ==
  ASSUME LlmTypes, LeadEnds, [LlmNext]_llmVars
  PROVE  LeadEnds'
<1>. USE LlmAssumption DEF LlmTypes
<1>1. CASE Complete \/ Classify
  BY <1>1 DEF Complete, Classify, Begun, LlmTypeOK, LeadEnds, Remaining, Waiting, Worker,
              tokenVars
<1>2. ASSUME NEW w \in Worker, Step(w) PROVE LeadEnds'
  <2>1. UNCHANGED phase
    BY <1>2, StepIsLocal
  <2>2. CASE phase \notin {"idle", "generating", "measuring"}
    BY <2>1, <2>2 DEF LeadEnds
  <2>3. CASE phase \in {"idle", "generating", "measuring"}
    <3>1. w = Lead
      BY <1>2, <2>3, StepIsBegun DEF LeadEnds, Worker
    <3>2. phase # "idle"
      BY <1>2, <3>1, StepIsBegun DEF LeadEnds
    <3>. QED BY <1>2, <2>3, <3>1, <3>2, LeadStep
  <2>. QED BY <2>2, <2>3
<1>3. CASE Generated \/ Measured \/ Tallied
  BY <1>3 DEF Generated, Measured, Tallied, Return, LeadEnds
<1>4. CASE LogprobsMissing
  BY <1>4 DEF LogprobsMissing, Return, LeadEnds
<1>5. CASE Revoke \/ Age
  BY <1>5 DEF Revoke, Age, LeadEnds, EndOf, Remaining
<1>6. CASE OthersFetch \/ OthersFetched
  BY <1>6, OthersPutOff
<1>7. CASE Tick
  BY <1>7, TickPutsOff
<1>8. CASE UNCHANGED llmVars
  BY <1>8 DEF llmVars, LeadEnds, EndOf, Remaining
<1>. QED BY <1>1, <1>2, <1>3, <1>4, <1>5, <1>6, <1>7, <1>8 DEF LlmNext, Finish

\* A call that does not sample is at most three request timeouts past its deadline,
\* whatever tokens are revoked, plus the timeouts of the fetches for which other calls
\* have held the token's lock meanwhile: how far the deadline of RetryPolicy is missed
\* with OAuth, and no further (_with_retry, GigaChatClient._call,
\* GigaChatTokenProvider.token).
THEOREM OverrunBounded ==
  LlmSpec => [](phase \in {"generating", "measuring"}
                  => now <= DEADLINE + 3 * REQUEST_TIMEOUT + lent)
<1>1. LlmInit => LeadEnds
  BY LlmAssumption DEF LlmInit, LeadEnds, Remaining, Waiting, Worker
<1>2. LlmTypes /\ LeadEnds /\ [LlmNext]_llmVars => LeadEnds'
  BY LeadEndsInductive
<1>3. LlmTypes /\ LeadEnds => (phase \in {"generating", "measuring"}
                                 => now <= DEADLINE + 3 * REQUEST_TIMEOUT + lent)
  BY LlmAssumption DEF LlmTypes, LlmTypeOK, LeadEnds
<1>. QED BY <1>1, <1>2, <1>3, LlmTypesHold, PTL DEF LlmSpec

-----------------------------------------------------------------------------
(* The meter.  A worker that has not settled is charged at most once for    *)
(* each attempt it has behind it, and only attempts that are repeated or    *)
(* fail for good are missing in the meter.                                  *)

\* A step with the meter is a step of the client.
LEMMA UsageStepLives == [UsageNext]_<<llmVars, usageVars>> => [LlmNext]_llmVars
BY DEF UsageNext, UsageStep, MeteredAnswer, LostAnswer, UnpaidStep, LlmNext, Step

\* The meter changes nothing of the call: what LlmSpec may not do, UsageSpec does not.
LEMMA UsageIsACall == UsageSpec => LlmInit /\ [][LlmNext]_llmVars
<1>1. UsageInit => LlmInit
  BY DEF UsageInit
<1>. QED BY <1>1, UsageStepLives, PTL DEF UsageSpec

\* The invariants of the client hold with the meter beside it.
LEMMA UsageInvariants == UsageSpec => [](LlmTypes /\ InTime /\ DemandedIsNew /\ TallyIsTrue)
<1>1. LlmInit => LlmTypes /\ InTime /\ DemandedIsNew /\ TallyIsTrue
  BY LlmTypesInit, LlmAssumption
     DEF LlmInit, InTime, DemandedIsNew, RevocationSurvived, TallyIsTrue, Plain
<1>2. LlmTypes /\ InTime /\ DemandedIsNew /\ TallyIsTrue /\ [LlmNext]_llmVars
        => (LlmTypes /\ InTime /\ DemandedIsNew /\ TallyIsTrue)'
  BY LlmTypesStep, InTimeInductive, DemandedIsNewInductive, TallyIsTrueInductive
<1>. QED BY <1>1, <1>2, UsageIsACall, PTL

\* What is promised of a call holds with its charges recorded beside it.
THEOREM CallSafeWithMeter ==
  UsageSpec => [](LlmTypeOK /\ DeadlineKept /\ ConfidenceIsEarned /\ RevocationSurvived)
<1>1. LlmTypes => LlmTypeOK
  BY DEF LlmTypes
<1>2. InTime => DeadlineKept
  BY DEF InTime, DeadlineKept
<1>3. DemandedIsNew => RevocationSurvived
  BY DEF DemandedIsNew
<1>. QED BY <1>1, <1>2, <1>3, TallyIsEarned, UsageInvariants, PTL

\* The attempts of w that the provider may have charged and the meter has missed.
Missable(w) ==
  CASE pc[w] = "idle" -> 0
    [] pc[w] \in {"try", "token", "fetch", "post"} -> tries[w]
    [] pc[w] = "pause" -> tries[w] + 1
    [] pc[w] = "ok" -> MAX_RETRIES
    [] OTHER -> MAX_RETRIES + 1

\* No worker has missed more, and only the workers of the phase have been sent off.
MissesAttempts ==
  /\ metered \in [Worker -> Nat] /\ charged \in [Worker -> Nat]
  /\ \A w \in Worker : charged[w] <= metered[w] + Missable(w)
  /\ \A w \in Worker : pc[w] \in {"idle"} \cup Settled => tries[w] = 0
  /\ phase = "idle" => \A w \in Worker : pc[w] = "idle"
  /\ phase \in {"generating", "measuring"} => \A w \in Sample : pc[w] = "idle"

\* Every step that charges, meters or counts an attempt keeps the bound of its worker.
LEMMA MissableStep ==
  ASSUME LlmTypes, MissesAttempts, NEW w \in Worker, UsageStep(w)
  PROVE  /\ metered' \in [Worker -> Nat] /\ charged' \in [Worker -> Nat]
         /\ charged'[w] <= metered'[w] + Missable(w)'
         /\ pc'[w] \in {"idle"} \cup Settled => tries'[w] = 0
         /\ \A v \in Worker \ {w} : /\ charged'[v] = charged[v] /\ metered'[v] = metered[v]
                                    /\ pc'[v] = pc[v] /\ tries'[v] = tries[v]
<1>. USE LlmAssumption DEF LlmTypes, LlmTypeOK, MissesAttempts
<1>1. /\ charged[w] \in Nat /\ metered[w] \in Nat /\ tries[w] \in 0..MAX_RETRIES
      /\ charged[w] <= metered[w] + Missable(w)
  OBVIOUS
<1>2. ASSUME Answered(w) \/ PostBreaks(w), MeteredAnswer(w)
      PROVE  /\ pc[w] = "post" /\ pc'[w] \in Settled /\ tries'[w] = 0
             /\ \A v \in Worker \ {w} : pc'[v] = pc[v] /\ tries'[v] = tries[v]
  BY <1>2 DEF Answered, PostBreaks, Settle, Settled
<1>3. CASE MeteredAnswer(w)
  <2>1. /\ charged' = [charged EXCEPT ![w] = @ + 1]
        /\ metered' = [metered EXCEPT ![w] = @ + 1]
        /\ Answered(w) \/ PostBreaks(w)
    BY <1>3 DEF MeteredAnswer, Charge, Record, SeesMeter
  <2>2. Missable(w) = tries[w] /\ Missable(w)' \in {MAX_RETRIES, MAX_RETRIES + 1}
    BY <1>2, <1>3, <2>1 DEF Missable, Settled
  <2>. QED BY <1>1, <1>2, <1>3, <2>1, <2>2
<1>4. ASSUME NEW pause \in Nat, Retry(w, pause), pc[w] \in {"fetch", "post"}
      PROVE  /\ Missable(w)' \in {tries[w] + 1, MAX_RETRIES + 1}
             /\ pc'[w] \in {"pause"} \cup Settled
             /\ pc'[w] \in Settled => tries'[w] = 0
             /\ \A v \in Worker \ {w} : pc'[v] = pc[v] /\ tries'[v] = tries[v]
  <2>1. CASE Settle(w, "down")
    <3>1. pc'[w] = "down" /\ tries'[w] = 0
      BY <2>1 DEF Settle
    <3>. QED BY <1>1, <2>1, <3>1 DEF Settle, Settled, Missable
  <2>2. CASE ~Settle(w, "down")
    <3>1. pc' = [pc EXCEPT ![w] = "pause"] /\ tries' = tries
      BY <1>4, <2>2 DEF Retry
    <3>. QED BY <1>1, <3>1 DEF Settled, Missable
  <2>. QED BY <2>1, <2>2
<1>5. CASE LostAnswer(w)
  <2>1. charged' = [charged EXCEPT ![w] = @ + 1] /\ metered' = metered /\ pc[w] = "post"
    BY <1>5 DEF LostAnswer, Charge, PostFails, PostBreaks
  <2>2. Missable(w) = tries[w]
    BY <2>1 DEF Missable
  <2>3. CASE PostFails(w)
    <3>1. PICK pause \in Nat : Retry(w, pause)
      BY <2>3 DEF PostFails
    <3>. QED BY <1>1, <1>4, <2>1, <2>2, <3>1 DEF Settled
  <2>4. CASE PostBreaks(w)
    <3>1. /\ pc'[w] = "broken" /\ tries'[w] = 0
          /\ \A v \in Worker \ {w} : pc'[v] = pc[v] /\ tries'[v] = tries[v]
      BY <2>4 DEF PostBreaks, Settle
    <3>2. Missable(w)' = MAX_RETRIES + 1
      BY <3>1 DEF Missable
    <3>. QED BY <1>1, <2>1, <2>2, <3>1, <3>2 DEF Settled
  <2>. QED BY <1>5, <2>3, <2>4 DEF LostAnswer
<1>6. CASE UnpaidStep(w)
  <2>1. metered' = metered /\ charged' = charged
    BY <1>6 DEF UnpaidStep, usageVars
  <2>2. CASE Attempt(w) \/ UseCached(w) \/ Fetch(w) \/ Fetched(w)
    <3>1. /\ Missable(w)' = Missable(w) /\ pc'[w] \notin {"idle"} \cup Settled
          /\ \A v \in Worker \ {w} : pc'[v] = pc[v] /\ tries'[v] = tries[v]
      BY <2>2 DEF Attempt, UseCached, Fetch, Fetched, Missable, Settled
    <3>. QED BY <1>1, <2>1, <3>1
  <2>3. CASE Resume(w)
    <3>1. /\ pc[w] = "pause" /\ pc'[w] = "try" /\ tries'[w] = tries[w] + 1
          /\ \A v \in Worker \ {w} : pc'[v] = pc[v] /\ tries'[v] = tries[v]
      BY <2>3 DEF Resume
    <3>. QED BY <1>1, <2>1, <3>1 DEF Missable, Settled
  <2>4. CASE FetchFails(w) \/ PostFails(w)
    <3>1. PICK pause \in Nat : Retry(w, pause)
      BY <2>4 DEF FetchFails, PostFails
    <3>2. pc[w] \in {"fetch", "post"} /\ Missable(w) = tries[w]
      BY <2>4 DEF FetchFails, PostFails, Missable
    <3>. QED BY <1>1, <1>4, <2>1, <3>1, <3>2 DEF Settled
  <2>5. ASSUME NEW p \in {"down", "broken"}, Settle(w, p), pc[w] \in {"try", "fetch", "post"}
        PROVE  /\ charged'[w] <= metered'[w] + Missable(w)'
               /\ pc'[w] \in {"idle"} \cup Settled => tries'[w] = 0
               /\ \A v \in Worker \ {w} : pc'[v] = pc[v] /\ tries'[v] = tries[v]
    <3>1. /\ pc'[w] = p /\ tries'[w] = 0
          /\ \A v \in Worker \ {w} : pc'[v] = pc[v] /\ tries'[v] = tries[v]
      BY <2>5 DEF Settle
    <3>2. Missable(w) = tries[w] /\ Missable(w)' = MAX_RETRIES + 1
      BY <2>5, <3>1 DEF Missable
    <3>. QED BY <1>1, <2>1, <3>1, <3>2
  <2>6. CASE NoTimeLeft(w) \/ FetchBreaks(w) \/ PostBreaks(w)
    BY <2>1, <2>5, <2>6 DEF NoTimeLeft, FetchBreaks, PostBreaks
  <2>7. CASE TokenRefused(w)
    <3>1. CASE refreshed[w]
      BY <2>1, <2>5, <2>7, <3>1 DEF TokenRefused
    <3>2. CASE ~refreshed[w]
      <4>1. /\ pc[w] = "post" /\ pc'[w] = "token" /\ tries' = tries
            /\ \A v \in Worker \ {w} : pc'[v] = pc[v]
        BY <2>7, <3>2 DEF TokenRefused
      <4>. QED BY <1>1, <2>1, <4>1 DEF Missable, Settled
    <3>. QED BY <3>1, <3>2
  <2>. QED BY <1>6, <2>2, <2>3, <2>4, <2>6, <2>7 DEF UnpaidStep
<1>. QED BY <1>3, <1>5, <1>6 DEF UsageStep

\* Every step keeps what each worker may have missed.
LEMMA MissesAttemptsInductive ==
  ASSUME LlmTypes, MissesAttempts, [UsageNext]_<<llmVars, usageVars>>
  PROVE  MissesAttempts'
<1>. USE LlmAssumption
<1>1. ASSUME NEW w \in Worker, UsageStep(w) PROVE MissesAttempts'
  <2>1. Step(w)
    BY <1>1 DEF UsageStep, MeteredAnswer, LostAnswer, UnpaidStep, Step
  <2>2. pc[w] # "idle" /\ UNCHANGED phase
    BY <2>1, StepIsLocal, StepIsBegun
  <2>3. \A v \in Worker \ {w} : Missable(v)' = Missable(v)
    BY <1>1, MissableStep DEF Missable
  <2>. QED BY <1>1, <2>2, <2>3, MissableStep DEF MissesAttempts, Worker
<1>2. ASSUME Complete \/ Classify, UNCHANGED usageVars PROVE MissesAttempts'
  <2>1. /\ \A w \in Worker : pc[w] = "idle" /\ tries'[w] = tries[w]
        /\ \A w \in Worker : pc'[w] \in {"idle", "try"}
        /\ phase' # "idle"
        /\ phase' \in {"generating", "measuring"} => \A w \in Sample : pc'[w] = "idle"
    BY <1>2 DEF Complete, Classify, Begun, MissesAttempts, Worker
  <2>2. \A w \in Worker : Missable(w) = 0 /\ Missable(w)' = 0
    BY <2>1 DEF Missable, MissesAttempts, Settled
  <2>. QED BY <1>2, <2>1, <2>2 DEF MissesAttempts, Settled, usageVars
<1>3. ASSUME Generated \/ Measured \/ Tallied, UNCHANGED usageVars PROVE MissesAttempts'
  BY <1>3 DEF Generated, Measured, Tallied, Return, MissesAttempts, Missable, usageVars
<1>4. ASSUME LogprobsMissing, UNCHANGED usageVars PROVE MissesAttempts'
  <2>1. CASE mode = "logprobs"
    BY <1>4, <2>1 DEF LogprobsMissing, Return, MissesAttempts, Missable, usageVars
  <2>2. CASE mode # "logprobs"
    <3>1. /\ phase' = "sampling" /\ tries' = tries
          /\ pc' = [w \in Worker |-> IF w \in Sample THEN "try" ELSE pc[w]]
          /\ \A w \in Sample : pc[w] = "idle" /\ tries[w] = 0
      BY <1>4, <2>2 DEF LogprobsMissing, MissesAttempts, Worker
    <3>2. \A w \in Worker : Missable(w)' = Missable(w)
      BY <3>1 DEF Missable
    <3>. QED BY <1>4, <3>1, <3>2 DEF MissesAttempts, Settled, usageVars
  <2>. QED BY <2>1, <2>2
<1>5. ASSUME OthersFetch \/ OthersFetched \/ Revoke \/ Age \/ Tick, UNCHANGED usageVars
      PROVE  MissesAttempts'
  BY <1>5 DEF OthersFetch, OthersFetched, Revoke, Age, Tick, MissesAttempts, Missable,
              usageVars
<1>6. CASE UNCHANGED <<llmVars, usageVars>>
  BY <1>6 DEF llmVars, usageVars, MissesAttempts, Missable
<1>. QED BY <1>1, <1>2, <1>3, <1>4, <1>5, <1>6 DEF UsageNext, Finish

\* Whichever threads send them and however many tokens are renewed: the meter misses at
\* most one charged request per repeated attempt, and never the one whose answer is
\* used (llm_usage.record, _with_retry).
THEOREM MeterMissesFew == UsageSpec => []MeterMissesRetriesOnly
<1>1. UsageInit => MissesAttempts
  BY LlmAssumption DEF UsageInit, LlmInit, MissesAttempts, Missable, Settled
<1>2. LlmTypes /\ MissesAttempts => MeterMissesRetriesOnly
  <2>. SUFFICES ASSUME LlmTypes, MissesAttempts, NEW w \in Worker
                PROVE  charged[w] <= metered[w] + (IF pc[w] = "ok" THEN MAX_RETRIES
                                                   ELSE MAX_RETRIES + 1)
    BY DEF MeterMissesRetriesOnly
  <2>1. /\ charged[w] \in Nat /\ metered[w] \in Nat /\ tries[w] \in 0..MAX_RETRIES
        /\ charged[w] <= metered[w] + Missable(w)
        /\ pc[w] = "pause" => tries[w] < MAX_RETRIES
    BY DEF LlmTypes, LlmTypeOK, RetryLeft, MissesAttempts
  <2>2. /\ Missable(w) <= MAX_RETRIES + 1
        /\ pc[w] = "ok" => Missable(w) = MAX_RETRIES
    BY <2>1, LlmAssumption DEF Missable
  <2>3. Missable(w) \in Nat
    BY <2>1, LlmAssumption DEF Missable
  <2>. QED BY <2>1, <2>2, <2>3, LlmAssumption
<1>3. LlmTypes /\ MissesAttempts /\ [UsageNext]_<<llmVars, usageVars>> => MissesAttempts'
  BY MissesAttemptsInductive
<1>. QED BY <1>1, <1>2, <1>3, UsageInvariants, PTL DEF UsageSpec
=============================================================================
