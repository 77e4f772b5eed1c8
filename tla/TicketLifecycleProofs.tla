------------------------ MODULE TicketLifecycleProofs ------------------------
(***************************************************************************)
(* What is proved of the life of tickets for any number of tickets,        *)
(* escalations, operators, threads, messages and requests, any claim TTL   *)
(* and any limit of clarifications: its types, that the agent speaks in    *)
(* turn, that an accepted request for a human reaches the desk, and that   *)
(* the desk keeps its promises with everybody else at work beside it.      *)
(***************************************************************************)
EXTENDS TicketLifecycle, EscalationClaimsProofs

USE ThresholdsAssumption, LifecycleAssumption

\* The specification without its fairness, which no safety property needs.
LifeRuns == LifecycleInit /\ [][LifecycleNext]_lifecycleVars

\* The behaviours of the specification are such runs.
LEMMA SpecRuns == LifecycleSpec => LifeRuns
BY PTL DEF LifecycleSpec, LifeRuns

\* The rows the escalations of S are inserted into, and no other change of the desk.
Added(S) ==
  /\ \A e \in S : status[e] = "absent"
  /\ CreateEscalations(S)
  /\ UNCHANGED releasing

\* A ticket that may be escalated has an id left for its escalation.
LEMMA FreshIsUnused ==
  ASSUME NEW t \in Ticket, Unused(t) # {}
  PROVE  /\ Fresh(t) \in Escalation /\ TicketOf[Fresh(t)] = t
         /\ status[Fresh(t)] = "absent"
BY DEF Fresh, Unused, Of

\* A step that leaves the escalations alone adds none.
LEMMA AddsNothing ==
  ASSUME LifecycleTypeOK, UNCHANGED <<status, lockedBy, left, operatorId, answer, releasing>>
  PROVE  Added({})
BY DEF Added, CreateEscalations, LifecycleTypeOK, ClaimsTypeOK

\* What a handler does to the desk, whoever it is: it inserts pending escalations, at
\* most one for each ticket, or nothing (create_escalation is the only writer beside
\* operations.py).
LEMMA HandlersOnlyAdd ==
  ASSUME LifecycleTypeOK, [LifecycleNext]_lifecycleVars
  PROVE  \/ ClaimsNext /\ UNCHANGED lifeVars
         \/ \E S \in SUBSET Escalation : Added(S)
<1> USE DEF claimVars, escVars
<1>1. ASSUME NEW w \in Thread, ClientStep(w) PROVE Added({})
  <2>1. UNCHANGED claimVars
    BY <1>1 DEF ClientStep, Intake, AddMessage, RequestRead
  <2> QED BY <2>1, AddsNothing
<1>2. ASSUME NEW w \in Thread, NEW action \in Action, Persist(w, action)
      PROVE  \E S \in SUBSET Escalation : Added(S)
  <2> DEFINE t == thread[w].ticket
  <2>1. t \in Ticket
    BY <1>2 DEF Persist, InFlight, LifecycleTypeOK, AgentPass, HumanRequest
  <2>2. CASE action \in EscalateActions
    <3>1. Unused(t) # {} /\ CreateEscalations({Fresh(t)}) /\ UNCHANGED releasing
      BY <1>2, <2>2 DEF Persist
    <3>2. Added({Fresh(t)}) /\ {Fresh(t)} \in SUBSET Escalation
      BY <2>1, <3>1, FreshIsUnused DEF Added
    <3> QED BY <3>2
  <2>3. CASE action \notin EscalateActions
    BY <1>2, <2>3, AddsNothing DEF Persist
  <2> QED BY <2>2, <2>3
<1>3. ASSUME NEW w \in Thread, EscalateUnavailable(w)
      PROVE  \E S \in SUBSET Escalation : Added(S)
  <2> DEFINE t == thread[w].ticket
  <2>1. t \in Ticket
    BY <1>3 DEF EscalateUnavailable, InFlight, LifecycleTypeOK, AgentPass, HumanRequest
  <2>2. Unused(t) # {} /\ CreateEscalations({Fresh(t)}) /\ UNCHANGED releasing
    BY <1>3 DEF EscalateUnavailable
  <2>3. Added({Fresh(t)}) /\ {Fresh(t)} \in SUBSET Escalation
    BY <2>1, <2>2, FreshIsUnused DEF Added
  <2> QED BY <2>3
<1>4. ASSUME NEW w \in Thread, RequestCommit(w)
      PROVE  \E S \in SUBSET Escalation : Added(S)
  <2> DEFINE t == thread[w].ticket
  <2>1. t \in Ticket
    BY <1>4 DEF RequestCommit, InFlight, LifecycleTypeOK, AgentPass, HumanRequest
  <2>2. CASE ReusesOpen(thread[w])
    BY <1>4, <2>2, AddsNothing DEF RequestCommit
  <2>3. CASE ~ReusesOpen(thread[w])
    <3>1. Unused(t) # {} /\ CreateEscalations({Fresh(t)}) /\ UNCHANGED releasing
      BY <1>4, <2>3 DEF RequestCommit
    <3>2. Added({Fresh(t)}) /\ {Fresh(t)} \in SUBSET Escalation
      BY <2>1, <3>1, FreshIsUnused DEF Added
    <3> QED BY <3>2
  <2> QED BY <2>2, <2>3
<1>5. ASSUME NEW w \in Thread, Abort(w) PROVE Added({})
  BY <1>5, AddsNothing DEF Abort
<1>6. CASE Timeout
  <2>1. PICK S \in SUBSET {t \in received : Silent(t)} :
          /\ \A t \in S : Unused(t) # {}
          /\ CreateEscalations({Fresh(t) : t \in S})
          /\ UNCHANGED releasing
    BY <1>6 DEF Timeout
  <2>2. \A t \in S : t \in Ticket
    BY <2>1 DEF LifecycleTypeOK
  <2>3. {Fresh(t) : t \in S} \in SUBSET Escalation
    BY <2>1, <2>2, FreshIsUnused
  <2>4. Added({Fresh(t) : t \in S})
    BY <2>1, <2>2, FreshIsUnused DEF Added
  <2> QED BY <2>3, <2>4
<1>7. CASE ConsumerStep
  <2>1. UNCHANGED <<escVars, releasing>>
    BY <1>7 DEF ConsumerStep, ConsumeRead, ConsumeCommit, ConsumeAbort
  <2> QED BY <2>1, AddsNothing
<1>8. CASE UNCHANGED lifecycleVars
  BY <1>8, AddsNothing DEF lifecycleVars
<1> QED
  BY <1>1, <1>2, <1>3, <1>4, <1>5, <1>6, <1>7, <1>8 DEF LifecycleNext, HandlerStep
-----------------------------------------------------------------------------
(* Turns of the agent.  A pass judges the ticket in the iteration it has    *)
(* read, once for all, and only a question begins the next one: what a pass *)
(* has read is stale exactly when somebody has judged before it.            *)

TurnsCounted == \A t \in Ticket : asked[t] = iteration[t]

PastIsClassified ==
  \A t \in Ticket, n \in 0..MAX_CLARIFICATIONS : n < iteration[t] => <<t, n>> \in classified

ReadsNotAhead ==
  \A w \in Thread :
    InFlight(w, "agent") => thread[w].iteration \in 0..iteration[thread[w].ticket]

AnswerIsLast ==
  \A t \in Ticket :
    answered[t] # 0 => answered[t] = 1 /\ <<t, iteration[t]>> \in classified

Turns == TurnsCounted /\ PastIsClassified /\ ReadsNotAhead /\ AnswerIsLast

\* The Decision Engine asks only while there are questions left: the limit is a row
\* above the one that clarifies (R7b, R7a).
LEMMA ClarifyHasRoom ==
  ASSUME NEW n \in 0..MAX_CLARIFICATIONS, "clarify" \in Verdicts[n]
  PROVE  n < MAX_CLARIFICATIONS
<1>1. PICK i \in [category : Category, rag : {NONE, RAG_CONFIDENCE},
                  class : {NONE, CLASS_CONFIDENCE}, iteration : {n}, human : {FALSE}] :
        Decide(i).action = "clarify"
  BY DEF Verdicts
<1>2. PICK k \in 1..11 : Fires(k, i) /\ RULES(i)[k].action = "clarify"
  <2>1. \E k \in 1..11 : Fires(k, i)
    BY <1>1 DEF Decide, DEFAULT_RULE, Rule
  <2>2. Fires(CHOOSE k \in 1..11 : Fires(k, i), i)
    BY <2>1
  <2> QED BY <1>1, <2>1, <2>2 DEF Decide
<1>3. k = 7
  BY <1>2 DEF RULES, Rule
<1>4. i.category = "tech_issue"
  BY <1>2, <1>3 DEF Fires, RULES, Rule
<1>5. ~RULES(i)[5].when
  BY <1>2, <1>3 DEF Fires
<1>6. ~ClarificationExhausted(i)
  BY <1>4, <1>5 DEF RULES, Rule
<1> QED BY <1>1, <1>6 DEF ClarificationExhausted

\* A pass that finds its iteration unjudged has read the ticket's present one, and the
\* ticket has had no answer: what the unique key of classifications is worth.
LEMMA UnjudgedIsCurrent ==
  ASSUME LifecycleTypeOK, Turns, NEW w \in Thread, InFlight(w, "agent"),
         Unjudged(thread[w])
  PROVE  /\ thread[w].ticket \in Ticket
         /\ thread[w].iteration = iteration[thread[w].ticket]
         /\ iteration[thread[w].ticket] \in 0..MAX_CLARIFICATIONS
         /\ answered[thread[w].ticket] = 0
<1> DEFINE t == thread[w].ticket
           n == thread[w].iteration
<1>1. t \in Ticket
  BY DEF InFlight, LifecycleTypeOK, AgentPass, HumanRequest
<1>2. iteration[t] \in 0..MAX_CLARIFICATIONS /\ n \in 0..iteration[t]
  BY <1>1 DEF LifecycleTypeOK, Turns, ReadsNotAhead
<1>3. <<t, n>> \notin classified
  BY DEF Unjudged
<1>4. n = iteration[t]
  BY <1>1, <1>2, <1>3 DEF Turns, PastIsClassified
<1>5. answered[t] = 0
  BY <1>1, <1>3, <1>4 DEF Turns, AnswerIsLast
<1> QED BY <1>1, <1>2, <1>4, <1>5

\* What a flush leaves in a status column is a status.
LEMMA SetTicketTyped ==
  ASSUME ticketStatus \in [Ticket -> TicketStatus], NEW t \in Ticket,
         NEW read, NEW set \in TicketStatus, SetTicket(t, read, set)
  PROVE  ticketStatus' \in [Ticket -> TicketStatus]
BY DEF SetTicket, Stored

\* Inserted escalations are pending, unlocked and unanswered.
LEMMA AddedTyped ==
  ASSUME ClaimsTypeOK, NEW S \in SUBSET Escalation, Added(S)
  PROVE  /\ status' \in [Escalation -> EscalationStatus]
         /\ UNCHANGED <<lockedBy, left, operatorId, answer, releasing>>
BY DEF ClaimsTypeOK, Added, CreateEscalations, EscalationStatus

\* Every step keeps the types of what the desk does not write.
LEMMA OthersTypedStep ==
  ASSUME LifecycleTypeOK, Turns, [LifecycleNext]_lifecycleVars
  PROVE  /\ ticketStatus' \in [Ticket -> TicketStatus]
         /\ iteration' \in [Ticket -> 0..MAX_CLARIFICATIONS]
         /\ classified' \subseteq Ticket \X (0..MAX_CLARIFICATIONS)
         /\ asked' \in [Ticket -> Nat] /\ answered' \in [Ticket -> Nat]
<1> USE DEF LifecycleTypeOK, agentVars
<1>0. ticketStatus \in [Ticket -> TicketStatus]
  BY DEF ClaimsTypeOK
<1>1. ASSUME NEW w \in Thread, ClientStep(w)
      PROVE  UNCHANGED <<ticketStatus, agentVars>>
  BY <1>1 DEF ClientStep, Intake, AddMessage, RequestRead, claimVars
<1>2. ASSUME NEW w \in Thread, NEW action \in Action, Persist(w, action)
      PROVE  /\ ticketStatus' \in [Ticket -> TicketStatus]
             /\ iteration' \in [Ticket -> 0..MAX_CLARIFICATIONS]
             /\ classified' \subseteq Ticket \X (0..MAX_CLARIFICATIONS)
             /\ asked' \in [Ticket -> Nat] /\ answered' \in [Ticket -> Nat]
  <2> DEFINE t == thread[w].ticket
             n == thread[w].iteration
  <2>1. t \in Ticket /\ n = iteration[t] /\ n \in 0..MAX_CLARIFICATIONS
    BY <1>2, UnjudgedIsCurrent DEF Persist
  <2>2. StatusByAction[action] \in TicketStatus
    BY DEF StatusByAction, TicketStatus, Escalated, Action, EscalateActions
  <2>3. ticketStatus' \in [Ticket -> TicketStatus]
    BY <1>0, <1>2, <2>1, <2>2, SetTicketTyped DEF Persist
  <2>4. action = "clarify" => n + 1 \in 0..MAX_CLARIFICATIONS
    BY <1>2, <2>1, ClarifyHasRoom DEF Persist
  <2>5. /\ iteration' \in [Ticket -> 0..MAX_CLARIFICATIONS]
        /\ asked' \in [Ticket -> Nat] /\ answered' \in [Ticket -> Nat]
    BY <1>2, <2>1, <2>4 DEF Persist
  <2>6. classified' = classified \cup {<<t, n>>}
    BY <1>2 DEF Persist
  <2> QED BY <2>1, <2>3, <2>5, <2>6
<1>3. ASSUME NEW w \in Thread, EscalateUnavailable(w)
      PROVE  ticketStatus' \in [Ticket -> TicketStatus] /\ UNCHANGED agentVars
  <2>1. thread[w].ticket \in Ticket /\ "escalated_standard" \in TicketStatus
    BY <1>3 DEF EscalateUnavailable, InFlight, AgentPass, HumanRequest, TicketStatus, Escalated
  <2> QED BY <1>0, <1>3, <2>1, SetTicketTyped DEF EscalateUnavailable
<1>4. ASSUME NEW w \in Thread, RequestCommit(w)
      PROVE  ticketStatus' \in [Ticket -> TicketStatus] /\ UNCHANGED agentVars
  <2>1. thread[w].ticket \in Ticket /\ "escalated_priority" \in TicketStatus
    BY <1>4 DEF RequestCommit, InFlight, AgentPass, HumanRequest, TicketStatus, Escalated
  <2> QED BY <1>0, <1>4, <2>1, SetTicketTyped DEF RequestCommit
<1>5. ASSUME NEW w \in Thread, Abort(w)
      PROVE  UNCHANGED <<ticketStatus, agentVars>>
  BY <1>5 DEF Abort, claimVars
<1>6. CASE Timeout
  BY <1>0, <1>6 DEF Timeout, lifeVars, TicketStatus, Escalated
<1>7. CASE ConsumerStep
  <2>1. CASE ConsumeCommit
    <3>1. consuming.esc \in Escalation
      BY <2>1 DEF ConsumeCommit
    <3>2. TicketOf[consuming.esc] \in Ticket /\ "pending_operator" \in TicketStatus
      BY <3>1, ClaimsAssumption DEF TicketStatus
    <3> QED BY <1>0, <2>1, <3>2, SetTicketTyped DEF ConsumeCommit
  <2>2. CASE ConsumeAbort \/ \E e \in Escalation : ConsumeRead(e)
    BY <1>0, <2>2 DEF ConsumeAbort, ConsumeRead, claimVars
  <2> QED BY <1>7, <2>1, <2>2 DEF ConsumerStep
<1>8. CASE ClaimsNext /\ UNCHANGED lifeVars
  BY <1>8, TypeStep DEF ClaimsTypeOK, lifeVars
<1>9. CASE UNCHANGED lifecycleVars
  BY <1>0, <1>9 DEF lifecycleVars, lifeVars, claimVars
<1> QED
  BY <1>0, <1>1, <1>2, <1>3, <1>4, <1>5, <1>6, <1>7, <1>8, <1>9
     DEF LifecycleNext, HandlerStep

\* Every step keeps the types of the desk's rows beside the ticket.
LEMMA RowsTypedStep ==
  ASSUME LifecycleTypeOK, [LifecycleNext]_lifecycleVars,
         ticketStatus' \in [Ticket -> TicketStatus]
  PROVE  ClaimsTypeOK'
<1>1. CASE ClaimsNext
  BY <1>1, TypeStep DEF LifecycleTypeOK
<1>2. ASSUME NEW S \in SUBSET Escalation, Added(S) PROVE ClaimsTypeOK'
  <2>1. /\ status' \in [Escalation -> EscalationStatus]
        /\ UNCHANGED <<lockedBy, left, operatorId, answer, releasing>>
    BY <1>2, AddedTyped DEF LifecycleTypeOK
  <2> QED BY <2>1 DEF LifecycleTypeOK, ClaimsTypeOK
<1> QED BY <1>1, <1>2, HandlersOnlyAdd

\* Every step keeps the types of the handlers and of the counts of what clients send.
LEMMA HandlersTypedStep ==
  ASSUME LifecycleTypeOK, [LifecycleNext]_lifecycleVars
  PROVE  /\ received' \subseteq Ticket
         /\ thread' \in [Thread -> AgentPass \cup HumanRequest \cup {NULL}]
         /\ consuming' \in [esc: Escalation, status: TicketStatus] \cup {NULL}
         /\ queued' \subseteq Escalation /\ requested' \subseteq Escalation
         /\ messages' \in [Ticket -> 0..MaxMessages]
         /\ requests' \in [Ticket -> 0..MaxRequests]
<1> USE DEF LifecycleTypeOK, clientVars
<1>0. ticketStatus \in [Ticket -> TicketStatus]
  BY DEF ClaimsTypeOK
<1>1. ASSUME NEW w \in Thread, NEW t \in Ticket, Begin(w, t)
      PROVE  thread' \in [Thread -> AgentPass \cup HumanRequest \cup {NULL}]
  <2>1. [kind |-> "agent", ticket |-> t, status |-> ticketStatus[t],
         iteration |-> iteration[t]] \in AgentPass
    BY <1>0 DEF AgentPass
  <2> QED BY <1>1, <2>1 DEF Begin
<1>2. ASSUME NEW w \in Thread, NEW t \in Ticket, Intake(w, t)
      PROVE  /\ received' \subseteq Ticket
             /\ thread' \in [Thread -> AgentPass \cup HumanRequest \cup {NULL}]
             /\ UNCHANGED <<consuming, queued, requested, messages, requests>>
  BY <1>1, <1>2 DEF Intake
<1>3. ASSUME NEW w \in Thread, NEW t \in Ticket, AddMessage(w, t)
      PROVE  /\ thread' \in [Thread -> AgentPass \cup HumanRequest \cup {NULL}]
             /\ messages' \in [Ticket -> 0..MaxMessages]
             /\ UNCHANGED <<received, consuming, queued, requested, requests>>
  BY <1>1, <1>3 DEF AddMessage
<1>4. ASSUME NEW w \in Thread, NEW t \in Ticket, RequestRead(w, t)
      PROVE  /\ thread' \in [Thread -> AgentPass \cup HumanRequest \cup {NULL}]
             /\ requests' \in [Ticket -> 0..MaxRequests]
             /\ UNCHANGED <<received, consuming, queued, requested, messages>>
  <2>1. PICK open \in Escalation \cup {NULL} :
          thread' = [thread EXCEPT ![w] = [kind |-> "request", ticket |-> t,
                                           status |-> ticketStatus[t], open |-> open,
                                           answeredBefore |-> AnsweredOf(t)]]
    BY <1>4 DEF RequestRead, OpenOf, Of
  <2>2. [kind |-> "request", ticket |-> t, status |-> ticketStatus[t], open |-> open,
         answeredBefore |-> AnsweredOf(t)] \in HumanRequest
    BY <1>0 DEF HumanRequest, AnsweredOf, Of
  <2> QED BY <1>4, <2>1, <2>2 DEF RequestRead
<1>5. ASSUME NEW w \in Thread, HandlerStep(w)
      PROVE  /\ thread' \in [Thread -> AgentPass \cup HumanRequest \cup {NULL}]
             /\ requested' \subseteq Escalation
             /\ UNCHANGED <<clientVars, consuming, queued>>
  <2>1. Finish(w)
    BY <1>5 DEF HandlerStep, Persist, EscalateUnavailable, RequestCommit, Abort
  <2>2. thread' \in [Thread -> AgentPass \cup HumanRequest \cup {NULL}]
    BY <2>1 DEF Finish
  <2>3. ASSUME RequestCommit(w) PROVE requested' \subseteq Escalation
    <3>1. thread[w] \in HumanRequest
      BY <2>3 DEF RequestCommit, InFlight, AgentPass
    <3>2. CASE ReusesOpen(thread[w])
      BY <2>3, <3>1, <3>2 DEF RequestCommit, HumanRequest
    <3>3. CASE ~ReusesOpen(thread[w])
      BY <2>3, <3>1, <3>3, FreshIsUnused DEF RequestCommit, HumanRequest
    <3> QED BY <3>2, <3>3
  <2> QED
    BY <1>5, <2>2, <2>3 DEF HandlerStep, Persist, EscalateUnavailable, RequestCommit, Abort
<1>6. CASE ConsumerStep
  <2>1. ASSUME NEW e \in Escalation, ConsumeRead(e)
        PROVE  consuming' \in [esc: Escalation, status: TicketStatus]
    <3>1. ticketStatus[TicketOf[e]] \in TicketStatus
      BY <1>0, ClaimsAssumption
    <3> QED BY <2>1, <3>1 DEF ConsumeRead
  <2> QED
    BY <1>6, <2>1 DEF ConsumerStep, ConsumeRead, ConsumeCommit, ConsumeAbort
<1>7. CASE Timeout \/ (ClaimsNext /\ UNCHANGED lifeVars) \/ UNCHANGED lifecycleVars
  BY <1>7 DEF Timeout, lifeVars, lifecycleVars
<1> QED
  BY <1>2, <1>3, <1>4, <1>5, <1>6, <1>7 DEF LifecycleNext, ClientStep

\* Every step keeps all the types.
LEMMA LifeTypesStep ==
  ASSUME LifecycleTypeOK, Turns, [LifecycleNext]_lifecycleVars
  PROVE  LifecycleTypeOK'
BY OthersTypedStep, RowsTypedStep, HandlersTypedStep DEF LifecycleTypeOK

\* A handler that begins has read the present; a handler that ends leaves no read.
LEMMA ReadsStay ==
  ASSUME LifecycleTypeOK, Turns,
         \A t \in Ticket : iteration'[t] \in Nat /\ iteration[t] <= iteration'[t],
         NEW w \in Thread,
         \A v \in Thread \ {w} : thread'[v] = thread[v],
         \/ thread'[w] = thread[w] \/ thread'[w] = NULL
         \/ thread'[w].kind # "agent"
         \/ thread'[w].ticket \in Ticket /\ thread'[w].iteration = iteration[thread'[w].ticket]
  PROVE  ReadsNotAhead'
<1> SUFFICES ASSUME NEW v \in Thread, thread'[v] # NULL, thread'[v].kind = "agent"
             PROVE  thread'[v].iteration \in 0..iteration'[thread'[v].ticket]
  BY DEF ReadsNotAhead, InFlight
<1>1. CASE thread'[v] = thread[v]
  <2>1. thread[v].ticket \in Ticket /\ thread[v].iteration \in 0..iteration[thread[v].ticket]
    BY <1>1 DEF Turns, ReadsNotAhead, InFlight, LifecycleTypeOK, AgentPass, HumanRequest
  <2>2. /\ iteration[thread[v].ticket] \in Nat /\ iteration'[thread[v].ticket] \in Nat
        /\ iteration[thread[v].ticket] <= iteration'[thread[v].ticket]
    BY <2>1 DEF LifecycleTypeOK
  <2> QED BY <1>1, <2>1, <2>2
<1>2. CASE thread'[v] # thread[v]
  <2>1. thread'[v].ticket \in Ticket /\ thread'[v].iteration = iteration[thread'[v].ticket]
    BY <1>2
  <2>2. iteration[thread'[v].ticket] \in Nat
    BY <2>1 DEF LifecycleTypeOK
  <2> QED BY <2>1, <2>2
<1> QED BY <1>1, <1>2

\* Every step keeps the turns.
LEMMA TurnsStep ==
  ASSUME LifecycleTypeOK, Turns, [LifecycleNext]_lifecycleVars
  PROVE  Turns'
<1> USE DEF agentVars
<1>0. ASSUME UNCHANGED agentVars, ReadsNotAhead' PROVE Turns'
  BY <1>0 DEF Turns, TurnsCounted, PastIsClassified, AnswerIsLast
<1>00. \A t \in Ticket : iteration[t] \in Nat /\ iteration[t] <= iteration[t]
  BY DEF LifecycleTypeOK
<1>1. ASSUME NEW w \in Thread, ClientStep(w) PROVE Turns'
  <2>1. UNCHANGED agentVars
    BY <1>1 DEF ClientStep, Intake, AddMessage, RequestRead
  <2>2. /\ \A v \in Thread \ {w} : thread'[v] = thread[v]
        /\ \/ thread'[w] = thread[w] \/ thread'[w].kind # "agent"
           \/ /\ thread'[w].ticket \in Ticket
              /\ thread'[w].iteration = iteration[thread'[w].ticket]
    BY <1>1 DEF ClientStep, Intake, AddMessage, RequestRead, Begin, LifecycleTypeOK
  <2> QED BY <1>0, <1>00, <2>1, <2>2, ReadsStay
<1>2. ASSUME NEW w \in Thread, NEW action \in Action, Persist(w, action) PROVE Turns'
  <2> DEFINE t == thread[w].ticket
             n == thread[w].iteration
  <2>1. /\ t \in Ticket /\ n = iteration[t] /\ n \in 0..MAX_CLARIFICATIONS
        /\ answered[t] = 0
    BY <1>2, UnjudgedIsCurrent DEF Persist
  <2>2. classified' = classified \cup {<<t, n>>}
    BY <1>2 DEF Persist
  <2>3. \A v \in Thread \ {w} : thread'[v] = thread[v]
    BY <1>2 DEF Persist, Finish, LifecycleTypeOK
  <2>4. thread'[w] = NULL
    BY <1>2 DEF Persist, Finish, LifecycleTypeOK
  <2>5. CASE action = "clarify"
    <3>1. /\ iteration' = [iteration EXCEPT ![t] = n + 1]
          /\ asked' = [asked EXCEPT ![t] = @ + 1]
          /\ answered' = answered
      BY <1>2, <2>5 DEF Persist
    <3>2. TurnsCounted'
      BY <2>1, <3>1 DEF Turns, TurnsCounted, LifecycleTypeOK
    <3>3. PastIsClassified'
      BY <2>1, <2>2, <3>1 DEF Turns, PastIsClassified, LifecycleTypeOK
    <3>4. AnswerIsLast'
      BY <2>1, <2>2, <3>1 DEF Turns, AnswerIsLast, LifecycleTypeOK
    <3>5. \A u \in Ticket : iteration'[u] \in Nat /\ iteration[u] <= iteration'[u]
      BY <2>1, <3>1 DEF LifecycleTypeOK
    <3>6. ReadsNotAhead'
      BY <2>3, <2>4, <3>5, ReadsStay
    <3> QED BY <3>2, <3>3, <3>4, <3>6 DEF Turns
  <2>6. CASE action # "clarify"
    <3>1. /\ UNCHANGED <<iteration, asked>>
          /\ answered' = answered \/ answered' = [answered EXCEPT ![t] = @ + 1]
      BY <1>2, <2>6 DEF Persist
    <3>2. TurnsCounted' /\ PastIsClassified'
      BY <2>2, <3>1 DEF Turns, TurnsCounted, PastIsClassified
    <3>3. AnswerIsLast'
      BY <2>1, <2>2, <3>1 DEF Turns, AnswerIsLast, LifecycleTypeOK
    <3>4. ReadsNotAhead'
      BY <1>00, <2>3, <2>4, <3>1, ReadsStay
    <3> QED BY <3>2, <3>3, <3>4 DEF Turns
  <2> QED BY <2>5, <2>6
<1>3. ASSUME NEW w \in Thread, EscalateUnavailable(w) \/ RequestCommit(w) \/ Abort(w)
      PROVE  Turns'
  <2>1. Finish(w) /\ UNCHANGED agentVars
    BY <1>3 DEF EscalateUnavailable, RequestCommit, Abort
  <2>2. thread'[w] = NULL /\ \A v \in Thread \ {w} : thread'[v] = thread[v]
    BY <2>1 DEF Finish, LifecycleTypeOK
  <2> QED BY <1>0, <1>00, <2>1, <2>2, ReadsStay
<1>4. CASE Timeout \/ ConsumerStep \/ (ClaimsNext /\ UNCHANGED lifeVars)
             \/ UNCHANGED lifecycleVars
  <2>1. UNCHANGED <<agentVars, thread>>
    BY <1>4 DEF Timeout, ConsumerStep, ConsumeRead, ConsumeCommit, ConsumeAbort, lifeVars,
                lifecycleVars
  <2> QED
    BY <2>1 DEF Turns, TurnsCounted, PastIsClassified, AnswerIsLast, ReadsNotAhead, InFlight
<1> QED BY <1>1, <1>2, <1>3, <1>4 DEF LifecycleNext, HandlerStep
\* The tickets as they are before the first of them exists.
LEMMA LifeBegins == LifecycleInit => LifecycleTypeOK /\ Turns
<1> SUFFICES ASSUME LifecycleInit PROVE LifecycleTypeOK /\ Turns
  OBVIOUS
<1>1. ClaimsTypeOK
  BY ClaimsAssumption DEF LifecycleInit, ClaimsTypeOK, EscalationStatus, TicketStatus
<1>2. LifecycleTypeOK
  BY <1>1 DEF LifecycleInit, LifecycleTypeOK
<1>3. Turns
  BY DEF LifecycleInit, Turns, TurnsCounted, PastIsClassified, ReadsNotAhead, AnswerIsLast,
         InFlight
<1> QED BY <1>2, <1>3

\* The inductive invariant of the agent's turns.
LEMMA TurnsInvariant == LifeRuns => [](LifecycleTypeOK /\ Turns)
BY LifeBegins, LifeTypesStep, TurnsStep, PTL DEF LifeRuns

\* Everything stored about tickets, and everything handlers have read, keeps its type;
\* no ticket counts more clarifications than there may be.
THEOREM LifeTypeCorrect == LifecycleSpec => []LifecycleTypeOK
BY SpecRuns, TurnsInvariant, PTL

\* Types and turns say how often the agent speaks.
LEMMA TurnsMeanInTurn == LifecycleTypeOK /\ Turns => AgentSpeaksInTurn
<1> SUFFICES ASSUME LifecycleTypeOK, Turns, NEW t \in Ticket
             PROVE  asked[t] <= MAX_CLARIFICATIONS /\ answered[t] <= 1
  BY DEF AgentSpeaksInTurn
<1>1. asked[t] = iteration[t] /\ iteration[t] \in 0..MAX_CLARIFICATIONS
  BY DEF Turns, TurnsCounted, LifecycleTypeOK
<1>2. answered[t] = 0 \/ answered[t] = 1
  BY DEF Turns, AnswerIsLast
<1> QED BY <1>1, <1>2

\* However many passes run at once and however stale what they have read: at most
\* MAX_CLARIFICATIONS questions and one automatic answer for each ticket.
THEOREM AgentInTurn == LifecycleSpec => []AgentSpeaksInTurn
BY SpecRuns, TurnsInvariant, TurnsMeanInTurn, PTL
-----------------------------------------------------------------------------
(* The desk beside the other writers.  What they do to the escalations is   *)
(* Added, which the desk does not notice.                                   *)

\* Inserted escalations are in no one's hands, so the rows of the desk still agree.
LEMMA RowsKept ==
  ASSUME LifecycleTypeOK, RowsAgree, [LifecycleNext]_lifecycleVars
  PROVE  RowsAgree'
<1>1. CASE ClaimsNext
  BY <1>1, RowsStep DEF LifecycleTypeOK
<1>2. ASSUME NEW S \in SUBSET Escalation, Added(S) PROVE RowsAgree'
  BY <1>2 DEF Added, CreateEscalations, RowsAgree, LockedIffInProgress, HolderIsRecorded,
              AnswerIsClaimants
<1> QED BY <1>1, <1>2, HandlersOnlyAdd

\* The rows agree in every run of the whole system.
LEMMA LifeRowsInvariant == LifeRuns => []RowsAgree
<1>1. LifecycleInit => RowsAgree
  BY DEF LifecycleInit, RowsAgree, LockedIffInProgress, HolderIsRecorded, AnswerIsClaimants
<1> QED BY <1>1, RowsKept, TurnsInvariant, PTL DEF LifeRuns

\* A claim is stored on an escalation exactly while it is in progress, with the agent,
\* the clients, the timeout and the consumer at work on the same tickets.
THEOREM LockAndStatusAgreeInLife == LifecycleSpec => []LockedIffInProgress
<1>1. RowsAgree => LockedIffInProgress
  BY DEF RowsAgree
<1> QED BY <1>1, SpecRuns, LifeRowsInvariant, PTL

\* A closed escalation holds its last claimant's answer, whoever else writes.
THEOREM AnsweredByClaimantInLife == LifecycleSpec => []AnswerIsClaimants
<1>1. RowsAgree => AnswerIsClaimants
  BY DEF RowsAgree
<1> QED BY <1>1, SpecRuns, LifeRowsInvariant, PTL

\* A step of anybody is a step of the abstract desk or changes nothing there.
LEMMA DeskStepInLife ==
  LifecycleTypeOK /\ RowsAgree /\ [LifecycleNext]_lifecycleVars
    => [Desk!DeskNext]_(Desk!deskVars)
<1> SUFFICES ASSUME LifecycleTypeOK, RowsAgree, [LifecycleNext]_lifecycleVars
             PROVE  [Desk!DeskNext]_(Desk!deskVars)
  OBVIOUS
<1>1. CASE ClaimsNext
  BY <1>1, DeskStep DEF LifecycleTypeOK
<1>2. ASSUME NEW S \in SUBSET Escalation, Added(S) PROVE UNCHANGED Desk!deskVars
  <2>1. Holder' = Holder /\ AnsweredBy' = AnsweredBy
    BY <1>2 DEF Added, CreateEscalations, Holder, AnsweredBy, Expired
  <2> QED BY <2>1, DeskMapped
<1> QED BY <1>1, <1>2, HandlersOnlyAdd

\* The whole system keeps the desk's promise, not only operations.py by itself: the
\* live claim is exclusive, only its holder answers, and an answer is given once.
THEOREM DeskImplementedInLife == LifecycleSpec => ImplementsDesk
<1>1. LifecycleInit => Desk!DeskInit
  <2>1. LifecycleInit => /\ Holder = [e \in Escalation |-> NULL]
                         /\ AnsweredBy = [e \in Escalation |-> NULL]
    BY DEF LifecycleInit, Holder, AnsweredBy, Expired
  <2> QED BY <2>1, DeskMapped
<1> QED
  BY <1>1, SpecRuns, DeskStepInLife, TurnsInvariant, LifeRowsInvariant, PTL
     DEF LifecycleSpec, ImplementsDesk, Desk!DeskSpec
-----------------------------------------------------------------------------
(* Requests for a human.  What a request has read may be stale at its       *)
(* commit, but it is stale in one way only: the open escalation it found    *)
(* has been answered meanwhile.                                             *)

\* No step takes an answer back, and an open escalation stays open until its answer:
\* a late release reopens an escalation, it never closes one.
LEMMA EscalationsKept ==
  ASSUME LifecycleTypeOK, [LifecycleNext]_lifecycleVars
  PROVE  \A e \in Escalation :
           /\ answer[e] # NULL => answer'[e] = answer[e]
           /\ Open(e) => Open(e)' \/ (answer[e] = NULL /\ answer'[e] # NULL)
<1> USE DEF LifecycleTypeOK, ClaimsTypeOK, Open
<1> DEFINE Kept(e) == /\ answer[e] # NULL => answer'[e] = answer[e]
                      /\ Open(e) => Open(e)' \/ (answer[e] = NULL /\ answer'[e] # NULL)
<1>1. ASSUME NEW S \in SUBSET Escalation, Added(S) PROVE \A e \in Escalation : Kept(e)
  BY <1>1 DEF Added, CreateEscalations
<1>2. CASE ClaimsNext
  <2>1. ASSUME NEW o \in Operator, NEW f \in Escalation, Claim(o, f)
        PROVE  \A e \in Escalation : Kept(e)
    BY <2>1 DEF Claim
  <2>2. ASSUME NEW o \in Operator, NEW f \in Escalation, NEW action \in OperatorActionType,
               Resolve(o, f, action)
        PROVE  \A e \in Escalation : Kept(e)
    <3>1. [operator |-> o, action |-> action] # NULL
      BY ClaimsAssumption DEF OperatorAction
    <3> QED BY <2>2, <3>1 DEF Resolve
  <2>3. ASSUME NEW S, ReturnToQueue(S), UNCHANGED answer
        PROVE  \A e \in Escalation : Kept(e)
    BY <2>3 DEF ReturnToQueue
  <2>4. ASSUME NEW o \in Operator,
               ReleaseFlush(o) \/ ReleaseAbort(o) \/ \E f \in Escalation : ReleaseRead(o, f)
        PROVE  \A e \in Escalation : Kept(e)
    BY <2>4 DEF ReleaseFlush, ReleaseAbort, ReleaseRead, escVars
  <2>5. CASE Tick
    BY <2>5 DEF Tick
  <2>6. CASE ReleaseExpired
    BY <2>3, <2>6 DEF ReleaseExpired
  <2>7. ASSUME NEW o \in Operator, ReleaseCommit(o) PROVE \A e \in Escalation : Kept(e)
    BY <2>3, <2>7 DEF ReleaseCommit
  <2> QED BY <1>2, <2>1, <2>2, <2>4, <2>5, <2>6, <2>7 DEF ClaimsNext, OperatorStep
<1> QED BY <1>1, <1>2, HandlersOnlyAdd

\* What a request in flight has read is true still, but for answers given since.
Followed(r) ==
  /\ \A e \in r.answeredBefore : answer[e] # NULL
  /\ r.open # NULL =>
       /\ r.open \in Of(r.ticket)
       /\ Open(r.open) \/ (answer[r.open] # NULL /\ r.open \notin r.answeredBefore)

\* It is so of every request in flight.
RequestsFollowed == \A w \in Thread : InFlight(w, "request") => Followed(thread[w])

\* A request in flight that was not there before has just read the ticket.
LEMMA RequestsBeginByReading ==
  ASSUME LifecycleTypeOK, [LifecycleNext]_lifecycleVars,
         NEW v \in Thread, thread'[v] # NULL, thread'[v].kind = "request",
         thread'[v] # thread[v]
  PROVE  \E t \in Ticket : RequestRead(v, t)
<1>1. ASSUME NEW w \in Thread, Finish(w) PROVE FALSE
  BY <1>1 DEF Finish, LifecycleTypeOK
<1>2. ASSUME NEW w \in Thread, HandlerStep(w) PROVE FALSE
  BY <1>1, <1>2 DEF HandlerStep, Persist, EscalateUnavailable, RequestCommit, Abort
<1>3. ASSUME NEW w \in Thread, NEW t \in Ticket, Begin(w, t) PROVE FALSE
  BY <1>3 DEF Begin, LifecycleTypeOK
<1>4. thread' # thread
  OBVIOUS
<1>5. PICK w \in Thread, t \in Ticket : RequestRead(w, t)
  BY <1>2, <1>3, <1>4
     DEF LifecycleNext, ClientStep, Intake, AddMessage, Timeout, ConsumerStep, ConsumeRead,
         ConsumeCommit, ConsumeAbort, lifeVars, lifecycleVars
<1>6. w = v
  BY <1>5 DEF RequestRead, LifecycleTypeOK
<1> QED BY <1>5, <1>6

\* Every step keeps it: a request reads the present, and what happens to the
\* escalations it has read is what EscalationsKept allows.
LEMMA FollowStep ==
  ASSUME LifecycleTypeOK, RequestsFollowed, [LifecycleNext]_lifecycleVars
  PROVE  RequestsFollowed'
<1> SUFFICES ASSUME NEW v \in Thread, thread'[v] # NULL, thread'[v].kind = "request"
             PROVE  Followed(thread[v])'
  BY DEF RequestsFollowed, InFlight
<1>1. CASE thread'[v] = thread[v]
  <2> DEFINE r == thread[v]
  <2>1. Followed(r) /\ r \in HumanRequest
    BY <1>1 DEF RequestsFollowed, InFlight, LifecycleTypeOK, AgentPass
  <2>2. r.answeredBefore \subseteq Escalation /\ r.open \in Escalation \cup {NULL}
    BY <2>1 DEF HumanRequest
  <2>3. \A e \in r.answeredBefore : answer'[e] # NULL
    BY <2>1, <2>2, EscalationsKept DEF Followed
  <2>4. ASSUME r.open # NULL
        PROVE  /\ r.open \in Of(r.ticket)
               /\ \/ status'[r.open] \in {"pending", "in_progress"}
                  \/ answer'[r.open] # NULL /\ r.open \notin r.answeredBefore
    <3>1. r.open \in Escalation /\ r.open \in Of(r.ticket)
      BY <2>1, <2>2, <2>4 DEF Followed
    <3>2. CASE Open(r.open) /\ ~Open(r.open)'
      BY <1>1, <2>1, <3>1, <3>2, EscalationsKept DEF Followed, Open
    <3>3. CASE ~Open(r.open)
      BY <2>1, <2>4, <3>1, <3>3, EscalationsKept DEF Followed
    <3> QED BY <1>1, <3>1, <3>2, <3>3 DEF Open
  <2> QED BY <1>1, <2>3, <2>4 DEF Followed, Of, Open
<1>2. CASE thread'[v] # thread[v]
  <2>1. PICK t \in Ticket : RequestRead(v, t)
    BY <1>2, RequestsBeginByReading
  <2>2. UNCHANGED <<status, answer>>
    BY <2>1 DEF RequestRead, claimVars
  <2>3. PICK open \in IF OpenOf(t) = {} THEN {NULL} ELSE OpenOf(t) :
          thread' = [thread EXCEPT ![v] = [kind |-> "request", ticket |-> t,
                                           status |-> ticketStatus[t], open |-> open,
                                           answeredBefore |-> AnsweredOf(t)]]
    BY <2>1 DEF RequestRead
  <2>4. /\ thread'[v].ticket = t /\ thread'[v].open = open
        /\ thread'[v].answeredBefore = AnsweredOf(t)
    BY <2>3 DEF LifecycleTypeOK
  <2>5. open # NULL => open \in Of(t) /\ Open(open)
    BY <2>3 DEF OpenOf
  <2> QED BY <2>2, <2>4, <2>5 DEF Followed, AnsweredOf, Of, Open
<1> QED BY <1>1, <1>2

\* It holds of every run.
LEMMA FollowInvariant == LifeRuns => []RequestsFollowed
<1>1. LifecycleInit => RequestsFollowed
  BY DEF LifecycleInit, RequestsFollowed, InFlight
<1> QED BY <1>1, FollowStep, TurnsInvariant, PTL DEF LifeRuns

\* A commit of a request leaves an open escalation, unless it finds a new answer.
LEMMA CommitReaches ==
  ASSUME LifecycleTypeOK, RequestsFollowed, NEW w \in Thread, NEW t \in Ticket,
         RequestCommit(w), thread[w].ticket = t
  PROVE  OpenOf(t)' # {} \/ AnsweredOf(t) \ thread[w].answeredBefore # {}
<1> DEFINE r == thread[w]
<1>1. Followed(r) /\ r \in HumanRequest
  BY DEF RequestsFollowed, RequestCommit, InFlight, LifecycleTypeOK, AgentPass
<1>2. CASE ReusesOpen(r)
  <2>1. UNCHANGED status /\ r.open # NULL
    BY <1>2 DEF RequestCommit, ReusesOpen, escVars
  <2>2. r.open \in Of(t)
    BY <1>1, <2>1 DEF Followed
  <2>3. CASE Open(r.open)
    <3>1. r.open \in OpenOf(t)'
      BY <2>1, <2>2, <2>3 DEF OpenOf, Of, Open
    <3> QED BY <3>1
  <2>4. CASE ~Open(r.open)
    <3>1. r.open \in AnsweredOf(t) \ r.answeredBefore
      BY <1>1, <2>1, <2>2, <2>4 DEF Followed, AnsweredOf
    <3> QED BY <3>1
  <2> QED BY <2>3, <2>4
<1>3. CASE ~ReusesOpen(r)
  <2>1. Unused(t) # {} /\ CreateEscalations({Fresh(t)})
    BY <1>3 DEF RequestCommit
  <2>2. Fresh(t) \in Escalation /\ TicketOf[Fresh(t)] = t
    BY <2>1, FreshIsUnused
  <2>3. Fresh(t) \in OpenOf(t)'
    BY <2>1, <2>2 DEF CreateEscalations, OpenOf, Of, Open
  <2> QED BY <2>3
<1> QED BY <1>2, <1>3

\* The same as a step.
LEMMA RequestsReach ==
  LifecycleTypeOK /\ RequestsFollowed =>
    [\A w \in Thread, t \in Ticket :
       RequestCommit(w) /\ thread[w].ticket = t =>
         OpenOf(t)' # {} \/ AnsweredOf(t) \ thread[w].answeredBefore # {}]_lifecycleVars
BY CommitReaches

\* In every run a request for a human that is accepted reaches the desk.
LEMMA RunsReachDesk == LifeRuns => RequestReachesDesk
BY RequestsReach, TurnsInvariant, FollowInvariant, PTL DEF RequestReachesDesk

\* A client who is told that a human will answer is in the operators' queue, or has
\* had an operator's answer since she asked, whatever ran between the request's reads
\* and its writes (request_human).
THEOREM RequestsReachDesk == LifecycleSpec => RequestReachesDesk
BY SpecRuns, RunsReachDesk, PTL
-----------------------------------------------------------------------------
(* Closed tickets.  Only an answer closes a ticket, and answers stay.       *)

\* Automatic answers are counted up; a status that closes a ticket is written together
\* with the answer, or it stood there before.
LEMMA ClosingAnswers ==
  ASSUME LifecycleTypeOK, Turns, [LifecycleNext]_lifecycleVars, NEW u \in Ticket
  PROVE  /\ answered[u] \in Nat /\ answered'[u] \in Nat /\ answered[u] <= answered'[u]
         /\ ticketStatus'[u] \in Closed =>
              \/ ticketStatus'[u] = ticketStatus[u]
              \/ answered'[u] > 0
              \/ \E e \in Of(u) : answer'[e] # NULL
<1> USE DEF LifecycleTypeOK, agentVars
<1> DEFINE Grows == answered[u] \in Nat /\ answered'[u] \in Nat /\ answered[u] <= answered'[u]
           Same == ticketStatus'[u] = ticketStatus[u]
           Shut == ticketStatus'[u] \in Closed
<1>0. ticketStatus \in [Ticket -> TicketStatus]
  BY DEF ClaimsTypeOK
<1>1. ASSUME UNCHANGED answered PROVE Grows
  BY <1>1
<1>2. ASSUME NEW w \in Thread, ClientStep(w) PROVE Same /\ Grows
  BY <1>1, <1>2 DEF ClientStep, Intake, AddMessage, RequestRead, claimVars
<1>3. ASSUME NEW w \in Thread, NEW action \in Action, Persist(w, action)
      PROVE  Grows /\ (Shut => Same \/ answered'[u] > 0)
  <2> DEFINE t == thread[w].ticket
  <2>1. t \in Ticket /\ answered[t] = 0
    BY <1>3, UnjudgedIsCurrent DEF Persist
  <2>2. answered' = IF action = "auto_answer"
                    THEN [answered EXCEPT ![t] = @ + 1] ELSE answered
    BY <1>3 DEF Persist
  <2>3. Grows
    BY <2>1, <2>2
  <2>4. ASSUME Shut, ~Same PROVE answered'[u] > 0
    <3>1. SetTicket(t, thread[w].status, StatusByAction[action])
      BY <1>3 DEF Persist
    <3>2. u = t /\ ticketStatus'[u] = StatusByAction[action]
      BY <1>0, <2>4, <3>1 DEF SetTicket, Stored
    <3>3. action = "auto_answer"
      BY <2>4, <3>2 DEF StatusByAction, Action, EscalateActions, Closed
    <3> QED BY <2>1, <2>2, <3>2, <3>3
  <2> QED BY <2>3, <2>4
<1>4. ASSUME NEW t, NEW read,
             NEW set \in {"escalated_standard", "escalated_priority", "pending_operator"},
             SetTicket(t, read, set), ~Same
      PROVE  ~Shut
  BY <1>0, <1>4 DEF SetTicket, Stored, Closed
<1>5. ASSUME NEW w \in Thread, EscalateUnavailable(w) PROVE Grows /\ (Shut => Same)
  BY <1>1, <1>4, <1>5 DEF EscalateUnavailable
<1>6. ASSUME NEW w \in Thread, RequestCommit(w) PROVE Grows /\ (Shut => Same)
  BY <1>1, <1>4, <1>6 DEF RequestCommit
<1>7. ASSUME NEW w \in Thread, Abort(w) PROVE Grows /\ Same
  BY <1>1, <1>7 DEF Abort, claimVars
<1>8. CASE Timeout
  <2>1. Grows
    BY <1>1, <1>8 DEF Timeout, lifeVars
  <2>2. Shut => Same
    BY <1>8 DEF Timeout, Closed
  <2> QED BY <2>1, <2>2
<1>9. CASE ConsumerStep
  <2>1. Grows
    BY <1>1, <1>9 DEF ConsumerStep, ConsumeRead, ConsumeCommit, ConsumeAbort
  <2>2. Shut => Same
    BY <1>4, <1>9 DEF ConsumerStep, ConsumeRead, ConsumeCommit, ConsumeAbort, claimVars
  <2> QED BY <2>1, <2>2
<1>10. CASE ClaimsNext /\ UNCHANGED lifeVars
  <2>1. Grows
    BY <1>1, <1>10 DEF lifeVars
  <2>2. ASSUME Shut, ~Same PROVE \E e \in Of(u) : answer'[e] # NULL
    <3>1. ASSUME NEW o \in Operator, ReleaseCommit(o) PROVE FALSE
      BY <1>0, <2>2, <3>1 DEF ReleaseCommit, TicketAfterReturn, Closed
    <3>2. ASSUME NEW o \in Operator, NEW e \in Escalation, Claim(o, e) PROVE FALSE
      BY <1>0, <2>2, <3>2 DEF Claim, Closed
    <3>3. ASSUME ReleaseExpired PROVE FALSE
      BY <1>0, <2>2, <3>3 DEF ReleaseExpired, TicketAfterReturn, Closed
    <3>4. PICK o \in Operator, e \in Escalation, action \in OperatorActionType :
            Resolve(o, e, action)
      BY <1>10, <2>2, <3>1, <3>2, <3>3
         DEF ClaimsNext, OperatorStep, ReleaseRead, ReleaseFlush, ReleaseAbort, Tick
    <3>5. TicketOf[e] = u
      BY <1>0, <2>2, <3>4 DEF Resolve
    <3>6. answer'[e] = [operator |-> o, action |-> action]
      BY <3>4 DEF Resolve, ClaimsTypeOK
    <3>7. [operator |-> o, action |-> action] # NULL
      BY ClaimsAssumption DEF OperatorAction
    <3> QED BY <3>5, <3>6, <3>7 DEF Of
  <2> QED BY <2>1, <2>2
<1>11. CASE UNCHANGED lifecycleVars
  BY <1>1, <1>11 DEF lifecycleVars, lifeVars, claimVars
<1> QED
  BY <1>2, <1>3, <1>5, <1>6, <1>7, <1>8, <1>9, <1>10, <1>11 DEF LifecycleNext, HandlerStep

\* A closed ticket has had an answer, an automatic one or an operator's.
ClosedIsAnswered ==
  \A t \in Ticket : ticketStatus[t] \in Closed => answered[t] > 0 \/ AnsweredOf(t) # {}

\* Every step keeps it: a late write of a stale status cannot close a ticket.
LEMMA ClosedStep ==
  ASSUME LifecycleTypeOK, Turns, ClosedIsAnswered, [LifecycleNext]_lifecycleVars
  PROVE  ClosedIsAnswered'
<1> SUFFICES ASSUME NEW t \in Ticket, ticketStatus'[t] \in Closed
             PROVE  answered'[t] > 0 \/ \E e \in Of(t) : answer'[e] # NULL
  BY DEF ClosedIsAnswered, AnsweredOf, Of
<1>1. CASE ticketStatus'[t] = ticketStatus[t]
  <2>1. answered[t] > 0 \/ \E e \in Of(t) : answer[e] # NULL
    BY <1>1 DEF ClosedIsAnswered, AnsweredOf
  <2>2. \A e \in Of(t) : answer[e] # NULL => answer'[e] # NULL
    BY EscalationsKept DEF Of
  <2>3. answered[t] > 0 => answered'[t] > 0
    BY ClosingAnswers
  <2> QED BY <2>1, <2>2, <2>3
<1>2. CASE ticketStatus'[t] # ticketStatus[t]
  BY <1>2, ClosingAnswers
<1> QED BY <1>1, <1>2

\* It holds of every run.
LEMMA ClosedInvariant == LifeRuns => []ClosedIsAnswered
<1>1. LifecycleInit => ClosedIsAnswered
  BY DEF LifecycleInit, ClosedIsAnswered, Closed
<1> QED BY <1>1, ClosedStep, TurnsInvariant, PTL DEF LifeRuns

\* No ticket is closed without an answer to its client, whatever stale status a pass,
\* a request, the consumer or a release writes late.
THEOREM ClosedMeansAnswered == LifecycleSpec => []ClosedIsAnswered
BY SpecRuns, ClosedInvariant, PTL
-----------------------------------------------------------------------------
(* Tickets at the desk.  A status that sends a ticket to the operators is   *)
(* written by one who inserts an escalation, or knows of one.               *)

\* Escalations are not deleted.
LEMMA EscalationsStay ==
  ASSUME LifecycleTypeOK, [LifecycleNext]_lifecycleVars
  PROVE  \A e \in Escalation : status[e] # "absent" => status'[e] # "absent"
<1> USE DEF LifecycleTypeOK, ClaimsTypeOK
<1>1. ASSUME NEW S \in SUBSET Escalation, Added(S)
      PROVE  \A e \in Escalation : status[e] # "absent" => status'[e] # "absent"
  BY <1>1 DEF Added, CreateEscalations
<1>2. CASE ClaimsNext
  BY <1>2 DEF ClaimsNext, OperatorStep, ReleaseFlush, ReleaseCommit, ReleaseAbort, Claim,
              ReleaseRead, Resolve, ReleaseExpired, Tick, ReturnToQueue, escVars
<1> QED BY <1>1, <1>2, HandlersOnlyAdd

AtOperators == Escalated \cup {"pending_operator", "in_progress"}
HasEscalation(t) == \E e \in Of(t) : status[e] # "absent"

\* A ticket that waits for an operator, or is with one, has an escalation.
EscalationBehind == \A t \in Ticket : ticketStatus[t] \in AtOperators => HasEscalation(t)

\* So has a ticket that a handler in flight takes for escalated: the consumer has its
\* event, a request has found it open.
KnownEscalations ==
  /\ consuming # NULL => status[consuming.esc] # "absent"
  /\ \A w \in Thread :
       InFlight(w, "request") /\ thread[w].open # NULL => HasEscalation(thread[w].ticket)

\* What handlers know of stays.
LEMMA KnownStep ==
  ASSUME LifecycleTypeOK, KnownEscalations, [LifecycleNext]_lifecycleVars
  PROVE  KnownEscalations'
<1> USE DEF LifecycleTypeOK
<1>1. \A t \in Ticket : HasEscalation(t) => HasEscalation(t)'
  BY EscalationsStay DEF HasEscalation, Of
<1>2. ASSUME consuming' # NULL PROVE status'[consuming'.esc] # "absent"
  <2>1. CASE consuming' = consuming
    <3>1. consuming.esc \in Escalation /\ status[consuming.esc] # "absent"
      BY <1>2, <2>1 DEF KnownEscalations
    <3> QED BY <2>1, <3>1, EscalationsStay
  <2>2. CASE consuming' # consuming
    <3>1. PICK e \in Escalation : ConsumeRead(e)
      BY <1>2, <2>2
         DEF LifecycleNext, ClientStep, Intake, AddMessage, RequestRead, HandlerStep, Persist,
             EscalateUnavailable, RequestCommit, Abort, Timeout, ConsumerStep, ConsumeCommit,
             ConsumeAbort, lifeVars, lifecycleVars
    <3> QED BY <3>1 DEF ConsumeRead, claimVars
  <2> QED BY <2>1, <2>2
<1>3. ASSUME NEW v \in Thread, thread'[v] # NULL, thread'[v].kind = "request",
             thread'[v].open # NULL
      PROVE  HasEscalation(thread[v].ticket)'
  <2>1. CASE thread'[v] = thread[v]
    <3>1. thread[v].ticket \in Ticket /\ HasEscalation(thread[v].ticket)
      BY <1>3, <2>1 DEF KnownEscalations, InFlight, AgentPass, HumanRequest
    <3>2. \E e \in Of(thread[v].ticket) : status'[e] # "absent"
      BY <1>1, <3>1 DEF HasEscalation, Of
    <3> QED BY <2>1, <3>2 DEF HasEscalation, Of
  <2>2. CASE thread'[v] # thread[v]
    <3>1. PICK t \in Ticket : RequestRead(v, t)
      BY <1>3, <2>2, RequestsBeginByReading
    <3>2. PICK open \in IF OpenOf(t) = {} THEN {NULL} ELSE OpenOf(t) :
            thread' = [thread EXCEPT ![v] = [kind |-> "request", ticket |-> t,
                                             status |-> ticketStatus[t], open |-> open,
                                             answeredBefore |-> AnsweredOf(t)]]
      BY <3>1 DEF RequestRead
    <3>3. thread'[v].ticket = t /\ thread'[v].open = open /\ UNCHANGED status
      BY <3>1, <3>2 DEF RequestRead, claimVars
    <3>4. open \in Of(t) /\ status'[open] # "absent"
      BY <1>3, <3>2, <3>3 DEF OpenOf, Open
    <3> QED BY <3>3, <3>4 DEF HasEscalation, Of
  <2> QED BY <2>1, <2>2
<1> QED BY <1>2, <1>3 DEF KnownEscalations, InFlight

\* Every step that sends a ticket to the operators leaves it an escalation.
LEMMA BehindStep ==
  ASSUME LifecycleTypeOK, KnownEscalations, EscalationBehind, [LifecycleNext]_lifecycleVars
  PROVE  EscalationBehind'
<1> SUFFICES ASSUME NEW u \in Ticket, ticketStatus'[u] \in AtOperators
             PROVE  HasEscalation(u)'
  BY DEF EscalationBehind
<1> USE DEF LifecycleTypeOK
<1>0. ticketStatus \in [Ticket -> TicketStatus] /\ status \in [Escalation -> EscalationStatus]
  BY DEF ClaimsTypeOK
<1>1. HasEscalation(u) => HasEscalation(u)'
  BY EscalationsStay DEF HasEscalation, Of
<1>2. CASE ticketStatus'[u] = ticketStatus[u]
  BY <1>1, <1>2 DEF EscalationBehind
<1>3. ASSUME NEW e \in Escalation, TicketOf[e] = u, status'[e] # "absent"
      PROVE  HasEscalation(u)'
  BY <1>3 DEF HasEscalation, Of
<1>4. CASE ticketStatus'[u] # ticketStatus[u]
  <2>1. ASSUME NEW t, NEW read, NEW set, SetTicket(t, read, set) PROVE t = u
    BY <1>0, <1>4, <2>1 DEF SetTicket
  <2>2. ASSUME Unused(u) # {}, CreateEscalations({Fresh(u)}) PROVE HasEscalation(u)'
    <3>1. Fresh(u) \in Escalation /\ TicketOf[Fresh(u)] = u /\ status'[Fresh(u)] # "absent"
      BY <2>2, FreshIsUnused DEF CreateEscalations
    <3> QED BY <1>3, <3>1
  <2>3. ASSUME NEW w \in Thread, NEW action \in Action, Persist(w, action)
        PROVE  HasEscalation(u)'
    <3>1. SetTicket(thread[w].ticket, thread[w].status, StatusByAction[action])
      BY <2>3 DEF Persist
    <3>2. thread[w].ticket = u
      BY <2>1, <3>1
    <3>3. ticketStatus'[u] = StatusByAction[action]
      BY <1>0, <1>4, <3>1, <3>2 DEF SetTicket, Stored
    <3>4. action \in EscalateActions
      BY <3>3 DEF StatusByAction, Action, EscalateActions, AtOperators, Escalated
    <3> QED BY <2>2, <2>3, <3>2, <3>4 DEF Persist
  <2>4. ASSUME NEW w \in Thread, EscalateUnavailable(w) PROVE HasEscalation(u)'
    BY <2>1, <2>2, <2>4 DEF EscalateUnavailable
  <2>5. ASSUME NEW w \in Thread, RequestCommit(w) PROVE HasEscalation(u)'
    <3>1. thread[w].ticket = u
      BY <1>4, <2>1, <2>5 DEF RequestCommit
    <3>2. CASE ReusesOpen(thread[w])
      BY <1>1, <2>5, <3>1, <3>2 DEF RequestCommit, ReusesOpen, KnownEscalations
    <3>3. CASE ~ReusesOpen(thread[w])
      BY <2>2, <2>5, <3>1, <3>3 DEF RequestCommit
    <3> QED BY <3>2, <3>3
  <2>6. CASE Timeout
    <3>1. PICK S \in SUBSET {t \in received : Silent(t)} \ {{}} :
            /\ \A t \in S : Unused(t) # {}
            /\ CreateEscalations({Fresh(t) : t \in S})
            /\ ticketStatus' = [t \in Ticket |->
                                  IF t \in S THEN "escalated_standard" ELSE ticketStatus[t]]
      BY <2>6 DEF Timeout
    <3>2. u \in S
      BY <1>4, <3>1
    <3>3. Fresh(u) \in Escalation /\ TicketOf[Fresh(u)] = u
      BY <3>1, <3>2, FreshIsUnused
    <3>4. status'[Fresh(u)] = "pending"
      BY <3>1, <3>2, <3>3 DEF CreateEscalations
    <3> QED BY <1>3, <3>3, <3>4
  <2>7. CASE ConsumerStep
    <3>1. ConsumeCommit
      BY <1>4, <2>7 DEF ConsumerStep, ConsumeRead, ConsumeAbort, claimVars
    <3>2. TicketOf[consuming.esc] = u
      BY <1>4, <2>1, <3>1 DEF ConsumeCommit
    <3>3. consuming.esc \in Escalation /\ status[consuming.esc] # "absent"
      BY <3>1 DEF ConsumeCommit, KnownEscalations
    <3> QED BY <1>3, <3>2, <3>3, EscalationsStay
  <2>8. CASE ClaimsNext
    <3>1. ASSUME NEW o \in Operator, NEW e \in Escalation, Claim(o, e) PROVE HasEscalation(u)'
      <4>1. TicketOf[e] = u /\ status'[e] = "in_progress"
        BY <1>0, <1>4, <3>1 DEF Claim
      <4> QED BY <1>3, <4>1
    <3>2. ASSUME NEW o \in Operator, ReleaseCommit(o) PROVE HasEscalation(u)'
      <4>1. releasing[o].esc \in Escalation
        BY <3>2 DEF ReleaseCommit, Flushed, ClaimsTypeOK
      <4>2. TicketOf[releasing[o].esc] = u /\ status'[releasing[o].esc] = "pending"
        BY <1>0, <1>4, <3>2, <4>1 DEF ReleaseCommit, ReturnToQueue
      <4> QED BY <1>3, <4>1, <4>2
    <3>3. CASE ReleaseExpired
      <4>1. PICK e \in Escalation : Swept(e) /\ TicketOf[e] = u
        BY <1>4, <3>3 DEF ReleaseExpired
      <4>2. status'[e] # "absent"
        BY <4>1, EscalationsStay DEF Swept
      <4> QED BY <1>3, <4>1, <4>2
    <3>4. ASSUME NEW o \in Operator, NEW e \in Escalation, NEW action \in OperatorActionType,
                 Resolve(o, e, action)
          PROVE  FALSE
      BY <1>0, <1>4, <3>4 DEF Resolve, AtOperators, Escalated
    <3> QED
      BY <1>4, <2>8, <3>1, <3>2, <3>3, <3>4
         DEF ClaimsNext, OperatorStep, ReleaseRead, ReleaseFlush, ReleaseAbort, Tick
  <2>9. ASSUME NEW w \in Thread, ClientStep(w) \/ Abort(w) PROVE FALSE
    BY <1>4, <2>9 DEF ClientStep, Intake, AddMessage, RequestRead, Abort, claimVars
  <2> QED
    BY <1>4, <2>3, <2>4, <2>5, <2>6, <2>7, <2>8, <2>9
       DEF LifecycleNext, HandlerStep, lifecycleVars, claimVars
<1> QED BY <1>2, <1>4

\* It holds of every run.
LEMMA BehindInvariant == LifeRuns => []EscalationBehind
<1>1. LifecycleInit => EscalationBehind /\ KnownEscalations
  BY DEF LifecycleInit, EscalationBehind, KnownEscalations, AtOperators, Escalated, InFlight
<1> QED BY <1>1, KnownStep, BehindStep, TurnsInvariant, PTL DEF LifeRuns

\* A ticket never waits for an operator without an escalation for one to find, however
\* stale the status that a request, the consumer or a release writes (create_escalation
\* in the transaction that sets the status; request_human, consumer.py).
THEOREM NoTicketWithoutEscalation == LifecycleSpec => []EscalationBehind
BY SpecRuns, BehindInvariant, PTL
-----------------------------------------------------------------------------
\* Tickets are not deleted, and an event that has taken effect does so once.
LEMMA OnlyGrow ==
  ASSUME [LifecycleNext]_lifecycleVars
  PROVE  received \subseteq received' /\ queued \subseteq queued'
BY DEF LifecycleNext, ClientStep, Intake, AddMessage, RequestRead, HandlerStep, Persist,
       EscalateUnavailable, RequestCommit, Abort, Timeout, ConsumerStep, ConsumeRead,
       ConsumeCommit, ConsumeAbort, clientVars, lifeVars, lifecycleVars
-----------------------------------------------------------------------------
(* The end of the agent's part.  Only a pass makes a ticket wait for a      *)
(* clarification, and only such a ticket gets another pass.                 *)

\* The ticket does not wait for an answer to the agent, and no pass of it is under way.
AgentIsOut(t) ==
  /\ t \in received /\ ticketStatus[t] # "awaiting_clarification"
  /\ \A w \in Thread : InFlight(w, "agent") => thread[w].ticket # t

\* The agent says no more.
Silence(t) == answered'[t] = answered[t] /\ asked'[t] = asked[t]

\* No step brings it back: nobody else writes that status, whatever he has read.
LEMMA OutStep ==
  ASSUME LifecycleTypeOK, [LifecycleNext]_lifecycleVars, NEW t \in Ticket, AgentIsOut(t)
  PROVE  AgentIsOut(t)' /\ Silence(t)
<1> USE DEF LifecycleTypeOK, Silence, agentVars
<1>0. /\ ticketStatus \in [Ticket -> TicketStatus]
      /\ \A w \in Thread : thread[w] # NULL /\ thread[w].kind = "agent" => thread[w].ticket # t
  BY DEF ClaimsTypeOK, AgentIsOut, InFlight
<1>1. t \in received'
  BY OnlyGrow DEF AgentIsOut
<1>2. ASSUME NEW w \in Thread, Finish(w), ticketStatus'[t] # "awaiting_clarification"
      PROVE  AgentIsOut(t)'
  BY <1>0, <1>1, <1>2 DEF Finish, AgentIsOut, InFlight
<1>3. ASSUME NEW u, NEW read, NEW set, SetTicket(u, read, set),
             set # "awaiting_clarification" \/ u # t
      PROVE  ticketStatus'[t] # "awaiting_clarification"
  BY <1>0, <1>3 DEF SetTicket, Stored, AgentIsOut
<1>4. ASSUME UNCHANGED thread, ticketStatus'[t] # "awaiting_clarification"
      PROVE  AgentIsOut(t)'
  BY <1>1, <1>4 DEF AgentIsOut, InFlight
<1>5. ASSUME NEW w \in Thread, NEW u \in Ticket, Intake(w, u) \/ AddMessage(w, u)
      PROVE  AgentIsOut(t)' /\ Silence(t)
  <2>1. UNCHANGED <<ticketStatus, agentVars>>
    BY <1>5 DEF Intake, AddMessage, claimVars
  <2>2. CASE UNCHANGED thread
    BY <1>4, <2>1, <2>2 DEF AgentIsOut
  <2>3. CASE thread' # thread
    <3>1. Begin(w, u) /\ (u \notin received \/ RunsAgent(ticketStatus[u]))
      BY <1>5, <2>3 DEF Intake, AddMessage
    <3>2. u # t
      BY <3>1 DEF RunsAgent, AgentIsOut
    <3>3. \A v \in Thread : thread'[v] # NULL /\ thread'[v].kind = "agent" => thread'[v].ticket # t
      BY <1>0, <3>1, <3>2 DEF Begin
    <3> QED BY <1>1, <2>1, <3>3 DEF AgentIsOut, InFlight
  <2> QED BY <2>2, <2>3
<1>6. ASSUME NEW w \in Thread, NEW u \in Ticket, RequestRead(w, u)
      PROVE  AgentIsOut(t)' /\ Silence(t)
  <2>1. UNCHANGED <<ticketStatus, agentVars>>
    BY <1>6 DEF RequestRead, claimVars
  <2>2. \A v \in Thread : thread'[v] # NULL /\ thread'[v].kind = "agent" => thread'[v].ticket # t
    BY <1>0, <1>6 DEF RequestRead
  <2> QED BY <1>1, <2>1, <2>2 DEF AgentIsOut, InFlight
<1>7. ASSUME NEW w \in Thread, NEW action \in Action, Persist(w, action)
      PROVE  AgentIsOut(t)' /\ Silence(t)
  <2>1. thread[w].ticket \in Ticket /\ thread[w].ticket # t
    BY <1>0, <1>7 DEF Persist, InFlight, AgentPass, HumanRequest
  <2>2. ticketStatus'[t] # "awaiting_clarification" /\ Finish(w)
    BY <1>3, <1>7, <2>1 DEF Persist
  <2>3. Silence(t)
    BY <1>7, <2>1 DEF Persist
  <2> QED BY <1>2, <2>2, <2>3
<1>8. ASSUME NEW w \in Thread, EscalateUnavailable(w) \/ RequestCommit(w) \/ Abort(w)
      PROVE  AgentIsOut(t)' /\ Silence(t)
  <2>1. CASE UNCHANGED ticketStatus
    BY <1>2, <1>8, <2>1 DEF EscalateUnavailable, RequestCommit, Abort, AgentIsOut
  <2>2. CASE ticketStatus' # ticketStatus
    <3>1. \E u, read : \E set \in {"escalated_standard", "escalated_priority"} :
            SetTicket(u, read, set)
      BY <1>8, <2>2 DEF EscalateUnavailable, RequestCommit, Abort, claimVars
    <3>2. ticketStatus'[t] # "awaiting_clarification"
      BY <1>3, <3>1
    <3> QED BY <1>2, <1>8, <3>2 DEF EscalateUnavailable, RequestCommit, Abort
  <2> QED BY <2>1, <2>2
<1>9. CASE Timeout
  BY <1>0, <1>4, <1>9 DEF Timeout, lifeVars, AgentIsOut
<1>10. CASE ConsumerStep
  <2>1. UNCHANGED <<thread, agentVars>>
    BY <1>10 DEF ConsumerStep, ConsumeRead, ConsumeCommit, ConsumeAbort
  <2>2. ticketStatus'[t] # "awaiting_clarification"
    BY <1>3, <1>10
       DEF ConsumerStep, ConsumeRead, ConsumeCommit, ConsumeAbort, claimVars, AgentIsOut
  <2> QED BY <1>4, <2>1, <2>2
<1>11. CASE ClaimsNext /\ UNCHANGED lifeVars
  <2>1. ticketStatus'[t] # "awaiting_clarification"
    BY <1>0, <1>11
       DEF AgentIsOut, ClaimsNext, OperatorStep, Claim, ReleaseRead, ReleaseFlush, ReleaseCommit,
           ReleaseAbort, Resolve, ReleaseExpired, Tick, TicketAfterReturn
  <2> QED BY <1>4, <1>11, <2>1 DEF lifeVars
<1>12. CASE UNCHANGED lifecycleVars
  BY <1>4, <1>12 DEF lifecycleVars, lifeVars, claimVars, AgentIsOut
<1> QED
  BY <1>5, <1>6, <1>7, <1>8, <1>9, <1>10, <1>11, <1>12
     DEF LifecycleNext, ClientStep, HandlerStep

\* What is true of "a request for a human wins": once no pass of a ticket is under way and
\* it does not wait for its client, the agent never speaks there again, whatever anybody
\* writes late.  Only a pass that has begun before can (request_human, _persist).
THEOREM AgentStaysOut ==
  LifecycleSpec =>
    [][\A t \in Ticket : AgentIsOut(t) => AgentIsOut(t)' /\ Silence(t)]_lifecycleVars
<1>1. LifecycleTypeOK /\ [LifecycleNext]_lifecycleVars =>
        [\A t \in Ticket : AgentIsOut(t) => AgentIsOut(t)' /\ Silence(t)]_lifecycleVars
  BY OutStep
<1> QED BY <1>1, SpecRuns, TurnsInvariant, PTL DEF LifeRuns
=============================================================================
