----------------------- MODULE RetentionAndFeedProofs -----------------------
(***************************************************************************)
(* What is proved of the two modules that extend the life of tickets,      *)
(* TicketRetention and ConsoleFeed, for any number of tickets,             *)
(* escalations, operators, threads and consoles.  Either adds variables    *)
(* to a step of TicketLifecycle and steps that leave its variables alone:  *)
(* its behaviours are runs of TicketLifecycle, so what TicketLifecycleProofs *)
(* proves of all runs is there to be used.                                 *)
(***************************************************************************)
EXTENDS TicketRetention, ConsoleFeed, TicketLifecycleProofs

-----------------------------------------------------------------------------
(* Retention.                                                              *)

\* A sweep and the passing of time are nothing to the ticket's life.
LEMMA RetentionStepLives == [RetentionNext]_ticketVars => [LifecycleNext]_lifecycleVars
BY DEF RetentionNext, LifeStep, PassCutoff, ScrubExpired, ticketVars

\* A behaviour with retention is a run of the ticket's life.
LEMMA RetentionRuns == RetentionSpec => LifeRuns
<1>1. RetentionInit => LifecycleInit
  BY DEF RetentionInit
<1> QED BY <1>1, RetentionStepLives, PTL DEF RetentionSpec, LifeRuns

\* Every step keeps the types; a ticket is scrubbed only past its retention period.
LEMMA RetentionTypeStep ==
  ASSUME RetentionTypeOK, LifecycleTypeOK', [RetentionNext]_ticketVars
  PROVE  RetentionTypeOK'
<1> USE DEF RetentionTypeOK
<1>1. CASE LifeStep
  <2>1. received \subseteq received'
    BY <1>1, OnlyGrow DEF LifeStep
  <2>2. ASSUME NEW t \in Ticket PROVE Written(t) \subseteq Table
    BY DEF Written, Table
  <2> QED BY <1>1, <2>1, <2>2 DEF LifeStep
<1>2. ASSUME NEW t \in Ticket, PassCutoff(t) PROVE RetentionTypeOK'
  BY <1>2 DEF PassCutoff, lifecycleVars, lifeVars, clientVars
<1>3. CASE ScrubExpired
  BY <1>3 DEF ScrubExpired, Batches, Scrubbable, lifecycleVars, lifeVars, clientVars
<1>4. CASE UNCHANGED ticketVars
  BY <1>4 DEF ticketVars, retentionVars, lifecycleVars, lifeVars, clientVars
<1> QED BY <1>1, <1>2, <1>3, <1>4 DEF RetentionNext

\* What is stored about retention keeps its type; only tickets past the cutoff are
\* ever marked as scrubbed (scrub_expired).
THEOREM RetentionTypeCorrect == RetentionSpec => []RetentionTypeOK
<1>1. RetentionInit /\ LifecycleTypeOK => RetentionTypeOK
  BY DEF RetentionInit, RetentionTypeOK, Table
<1> QED
  BY <1>1, RetentionTypeStep, RetentionRuns, TurnsInvariant, PTL DEF RetentionSpec

\* Every step keeps the client's words until there is an answer: a sweep takes closed
\* tickets alone, and those have been answered.
LEMMA KeptStep ==
  ASSUME RetentionTypeOK, Turns, ClosedIsAnswered, KeptUntilAnswered,
         [RetentionNext]_ticketVars
  PROVE  KeptUntilAnswered'
<1> SUFFICES ASSUME NEW t \in received'
             PROVE  \/ "messages" \in texts'[t] \/ answered'[t] > 0
                    \/ \E e \in Of(t) : answer'[e] # NULL
  BY DEF KeptUntilAnswered, AnsweredOf, Of
<1>0. LifecycleTypeOK /\ [LifecycleNext]_lifecycleVars
  BY RetentionStepLives DEF RetentionTypeOK
<1>1. t \in Ticket
  BY <1>0, HandlersTypedStep
<1>2. \A e \in Of(t) : answer[e] # NULL => answer'[e] # NULL
  BY <1>0, EscalationsKept DEF Of
<1>3. answered[t] > 0 => answered'[t] > 0
  BY <1>0, <1>1, ClosingAnswers
<1>4. CASE answered[t] > 0 \/ AnsweredOf(t) # {}
  BY <1>2, <1>3, <1>4 DEF AnsweredOf
<1>5. CASE t \in received /\ "messages" \in texts[t] /\ ~(answered[t] > 0 \/ AnsweredOf(t) # {})
  <2>1. ~Scrubbable(t)
    BY <1>1, <1>5 DEF ClosedIsAnswered, Scrubbable, CLOSED_STATUSES, Closed
  <2>2. CASE ScrubExpired
    BY <1>1, <1>5, <2>1, <2>2 DEF ScrubExpired, Batches
  <2>3. CASE LifeStep
    BY <1>1, <1>5, <2>3 DEF LifeStep
  <2>4. CASE UNCHANGED texts
    BY <1>5, <2>4
  <2> QED BY <2>2, <2>3, <2>4 DEF RetentionNext, PassCutoff, ticketVars, retentionVars
<1>6. CASE t \notin received
  <2>1. LifeStep
    BY <1>6 DEF RetentionNext, PassCutoff, ScrubExpired, ticketVars, lifecycleVars, lifeVars,
                clientVars
  <2>2. "messages" \in Written(t)
    BY <1>6 DEF Written
  <2> QED BY <1>1, <2>1, <2>2 DEF LifeStep
<1>7. t \in received => "messages" \in texts[t] \/ answered[t] > 0 \/ AnsweredOf(t) # {}
  BY DEF KeptUntilAnswered
<1> QED BY <1>4, <1>5, <1>6, <1>7

\* Whoever closes, reopens or answers a ticket in which order: what its client wrote
\* is not overwritten before an answer has gone out (scrub_expired, CLOSED_STATUSES).
THEOREM WordsKept == RetentionSpec => []KeptUntilAnswered
<1>1. RetentionInit => KeptUntilAnswered
  BY DEF RetentionInit, LifecycleInit, KeptUntilAnswered
<1> QED
  BY <1>1, KeptStep, RetentionTypeCorrect, RetentionRuns, TurnsInvariant, ClosedInvariant, PTL
     DEF RetentionSpec

\* A scrub between the reads and the writes of a request for a human does not lose it.
THEOREM RequestsReachDeskWithRetention == RetentionSpec => RequestReachesDesk
BY RetentionRuns, RunsReachDesk, PTL
-----------------------------------------------------------------------------
(* The console's feed.                                                     *)

\* Hints, sockets and consoles change nothing of the ticket's life.
LEMMA FeedStepLives == [FeedNext]_consoleVars => [LifecycleNext]_lifecycleVars
BY DEF FeedNext, LifeGoesOn, Broadcast, LoseHint, Accept, Add, Greet, Close, Reach,
       consoleVars

\* The life of tickets with the feed beside it is the life of tickets, its fairness
\* included: the feed never holds the timeout up.
THEOREM FeedLives == FeedSpec => LifecycleSpec
<1>1. FeedInit => LifecycleInit
  BY DEF FeedInit
<1> QED BY <1>1, FeedStepLives, PTL DEF FeedSpec, LifecycleSpec

\* Every step keeps the feed's types: a hint is on its way only for an event that has
\* taken effect.
LEMMA FeedTypeStep ==
  ASSUME FeedTypeOK, LifecycleTypeOK', [FeedNext]_consoleVars
  PROVE  FeedTypeOK'
<1> USE DEF FeedTypeOK
<1>1. CASE LifeGoesOn
  <2>1. queued \subseteq queued'
    BY <1>1, OnlyGrow DEF LifeGoesOn
  <2> QED BY <1>1, <2>1 DEF LifeGoesOn
<1>2. ASSUME NEW k \in Console, NEW stage \in {"accepted", "added", "greeted"}, Reach(k, stage)
      PROVE  FeedTypeOK'
  BY <1>2 DEF Reach, lifecycleVars, lifeVars
<1>3. ASSUME NEW k \in Console, Accept(k) \/ Add(k) \/ Greet(k) PROVE FeedTypeOK'
  BY <1>2, <1>3 DEF Accept, Add, Greet
<1>4. ASSUME NEW k \in Console, Close(k) PROVE FeedTypeOK'
  BY <1>4 DEF Close, lifecycleVars, lifeVars
<1>5. ASSUME NEW e \in Escalation, Broadcast(e) PROVE FeedTypeOK'
  <2>1. unseen' \in [Console -> SUBSET Escalation]
    BY <1>5 DEF Broadcast
  <2> QED BY <1>5, <2>1 DEF Broadcast, lifecycleVars, lifeVars
<1>6. ASSUME NEW e \in Escalation, LoseHint(e) PROVE FeedTypeOK'
  BY <1>6 DEF LoseHint, lifecycleVars, lifeVars
<1>7. CASE UNCHANGED consoleVars
  BY <1>7 DEF consoleVars, feedVars, lifecycleVars, lifeVars
<1> QED BY <1>1, <1>3, <1>4, <1>5, <1>6, <1>7 DEF FeedNext

\* Hints, sockets and what consoles have missed keep their types.
THEOREM FeedTypeCorrect == FeedSpec => []FeedTypeOK
<1>1. FeedInit /\ LifecycleTypeOK => FeedTypeOK
  BY DEF FeedInit, FeedTypeOK
<1> QED
  BY <1>1, FeedTypeStep, FeedLives, LifeTypeCorrect, PTL DEF FeedSpec

\* What a console misses, it misses before it is in the hub; the hello that follows
\* makes it read the queue.
LEMMA GapStep ==
  ASSUME FeedTypeOK, FeedHasNoGap, [FeedNext]_consoleVars
  PROVE  FeedHasNoGap'
<1> USE DEF FeedTypeOK, FeedHasNoGap
<1>1. CASE LifeGoesOn
  BY <1>1 DEF LifeGoesOn
<1>2. ASSUME NEW k \in Console, Accept(k) \/ Add(k) \/ Greet(k) PROVE FeedHasNoGap'
  BY <1>2 DEF Accept, Add, Greet, Reach, ReloadsOn
<1>3. ASSUME NEW k \in Console, Close(k) PROVE FeedHasNoGap'
  BY <1>3 DEF Close
<1>4. ASSUME NEW e \in Escalation, Broadcast(e) PROVE FeedHasNoGap'
  BY <1>4 DEF Broadcast, InHub
<1>5. ASSUME NEW e \in Escalation, LoseHint(e) PROVE FeedHasNoGap'
  BY <1>5 DEF LoseHint
<1>6. CASE UNCHANGED consoleVars
  BY <1>6 DEF consoleVars, feedVars
<1> QED BY <1>1, <1>2, <1>3, <1>4, <1>5, <1>6 DEF FeedNext

\* A greeted console has read the queue since every broadcast it did not get: it was
\* in the hub before the hello (escalations_socket).
THEOREM NoGap == FeedSpec => []FeedHasNoGap
<1>1. FeedInit => FeedHasNoGap
  BY DEF FeedInit, FeedHasNoGap
<1> QED BY <1>1, GapStep, FeedTypeCorrect, PTL DEF FeedSpec
=============================================================================
