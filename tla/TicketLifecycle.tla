--------------------------- MODULE TicketLifecycle ---------------------------
(***************************************************************************)
(* A ticket and everybody who writes to it: the client (intake, messages,  *)
(* the request for a human), the agent, the clarification timeout, the     *)
(* consumer of escalation.created and the operators (EscalationClaims).    *)
(* Translated from app/api/tickets.py, app/tickets/service.py,             *)
(* app/agent/service.py, app/escalations/timeouts.py, consumer.py and      *)
(* writer.py.                                                              *)
(*                                                                         *)
(* Three handlers read a ticket without a lock and write it later from     *)
(* what they read: a pass of the agent waits for the LLM in between, and   *)
(* request_human and the consumer issue their statements one after the     *)
(* other.  Each is a step that reads and a step that commits.  SQLAlchemy  *)
(* writes a column at flush only when its new value differs from the value *)
(* it read (Stored).  The timeout reads and writes under row locks: one    *)
(* step.                                                                   *)
(*                                                                         *)
(* The outcome of a pass is any that the Decision Engine gives for some    *)
(* measurements.  Publication, redelivery and the inbox are in             *)
(* OutboxDelivery; here an escalation's event reaches the consumer at any  *)
(* time and takes effect once.  Time is left out: the clarification        *)
(* timeout and the window after an automatic answer may run out at any     *)
(* moment.  MaxMessages and MaxRequests bound what a client sends after    *)
(* the first message.                                                      *)
(*                                                                         *)
(* A definition commented "Faulty" is a plausible slip in the definition   *)
(* that follows it; the properties are checked to notice it.               *)
(***************************************************************************)
EXTENDS EscalationClaims, DecisionEngine

CONSTANTS
  Thread,                     \* the API's worker threads
  MaxMessages, MaxRequests

ASSUME LifecycleAssumption ==
  /\ NULL \notin Escalation
  /\ MaxMessages \in Nat /\ MaxRequests \in Nat

VARIABLES
  received,    \* the tickets that exist
  iteration,   \* tickets.clarification_count
  classified,  \* classifications: the rows' (ticket, iteration), unique
  thread,      \* per thread, the handler in flight and what it has read, or NULL
  consuming,   \* the consumer's handler in flight and what it has read, or NULL
  queued,      \* escalations whose event has taken effect
  requested,   \* history: escalations a client's explicit request leads to
  asked,       \* history: clarification questions sent, per ticket
  answered,    \* history: automatic answers sent, per ticket
  messages,    \* client messages after the first, per ticket
  requests     \* requests for a human, per ticket

clientVars == <<received, messages, requests>>
agentVars == <<iteration, classified, asked, answered>>
lifeVars == <<clientVars, agentVars, thread, consuming, queued, requested>>
lifecycleVars == <<claimVars, lifeVars>>

AgentPass == [kind: {"agent"}, ticket: Ticket, status: TicketStatus, iteration: Nat]
HumanRequest ==
  [kind: {"request"}, ticket: Ticket, status: TicketStatus,
   open: Escalation \cup {NULL}, answeredBefore: SUBSET Escalation]

LifecycleTypeOK ==
  /\ ClaimsTypeOK
  /\ received \subseteq Ticket
  /\ iteration \in [Ticket -> 0..MAX_CLARIFICATIONS]
  /\ classified \subseteq Ticket \X (0..MAX_CLARIFICATIONS)
  /\ thread \in [Thread -> AgentPass \cup HumanRequest \cup {NULL}]
  /\ consuming \in [esc: Escalation, status: TicketStatus] \cup {NULL}
  /\ queued \subseteq Escalation
  /\ requested \subseteq Escalation
  /\ asked \in [Ticket -> Nat]
  /\ answered \in [Ticket -> Nat]
  /\ messages \in [Ticket -> 0..MaxMessages]
  /\ requests \in [Ticket -> 0..MaxRequests]

LifecycleInit ==
  /\ status = [e \in Escalation |-> "absent"]
  /\ lockedBy = [e \in Escalation |-> NULL]
  /\ left = [e \in Escalation |-> 0]
  /\ operatorId = [e \in Escalation |-> NULL]
  /\ answer = [e \in Escalation |-> NULL]
  /\ ticketStatus = [t \in Ticket |-> "new"]
  /\ releasing = [o \in Operator |-> NULL]
  /\ received = {}
  /\ iteration = [t \in Ticket |-> 0]
  /\ classified = {}
  /\ thread = [w \in Thread |-> NULL]
  /\ consuming = NULL
  /\ queued = {}
  /\ requested = {}
  /\ asked = [t \in Ticket |-> 0]
  /\ answered = [t \in Ticket |-> 0]
  /\ messages = [t \in Ticket |-> 0]
  /\ requests = [t \in Ticket |-> 0]
-----------------------------------------------------------------------------
\* What a column holds after a flush by a session that read one value of it and
\* set another: equal values are not written.
Stored(read, set, now) == IF set = read THEN now ELSE set

SetTicket(t, read, set) ==
  ticketStatus' = [ticketStatus EXCEPT ![t] = Stored(read, set, @)]

Of(t) == {e \in Escalation : TicketOf[e] = t}
OpenOf(t) == {e \in Of(t) : Open(e)}
AnsweredOf(t) == {e \in Of(t) : answer[e] # NULL}

\* The id create_escalation gives the next escalation of a ticket.
Unused(t) == {e \in Of(t) : status[e] = "absent"}
Fresh(t) == CHOOSE e \in Unused(t) : TRUE

\* create_escalation, for the escalations in S.
CreateEscalations(S) ==
  /\ status' = [e \in Escalation |-> IF e \in S THEN "pending" ELSE status[e]]
  /\ UNCHANGED <<lockedBy, left, operatorId, answer>>

Finish(w) == thread' = [thread EXCEPT ![w] = NULL]
-----------------------------------------------------------------------------
(* The agent.                                                              *)

\* process, up to the wait for the LLM.
Begin(w, t) ==
  /\ thread[w] = NULL
  /\ thread' = [thread EXCEPT ![w] = [kind |-> "agent", ticket |-> t,
                                      status |-> ticketStatus[t],
                                      iteration |-> iteration[t]]]

\* _intake of a first delivery; a repeated webhook finds the ticket and stops.
Intake(w, t) ==
  /\ t \notin received
  /\ Begin(w, t)
  /\ received' = received \cup {t}
  /\ UNCHANGED <<claimVars, agentVars, consuming, queued, requested, messages, requests>>

Closed == {"resolved_auto", "resolved_by_operator"}

\* The agent works on a message only as an answer to its question.
RunsAgent(st) == st = "awaiting_clarification"

\* add_message: a message to a ticket that is not closed.
AddMessage(w, t) ==
  /\ t \in received
  /\ messages[t] < MaxMessages
  /\ ticketStatus[t] \notin Closed
  /\ messages' = [messages EXCEPT ![t] = @ + 1]
  /\ IF RunsAgent(ticketStatus[t]) THEN Begin(w, t) ELSE UNCHANGED thread
  /\ UNCHANGED <<claimVars, received, requests, agentVars, consuming, queued, requested>>

\* What the Decision Engine may decide in each iteration, nobody having asked for
\* a human.
Verdicts ==
  [n \in 0..MAX_CLARIFICATIONS |->
     {Decide(i).action : i \in [category : Category, rag : {NONE, RAG_CONFIDENCE},
                                class : {NONE, CLASS_CONFIDENCE}, iteration : {n},
                                human : {FALSE}]}]

StatusByAction ==
  [auto_answer |-> "resolved_auto",
   clarify |-> "awaiting_clarification",
   escalate |-> "escalated_standard",
   priority_escalate |-> "escalated_priority"]

InFlight(w, kind) == thread[w] # NULL /\ thread[w].kind = kind

\* Faulty: no unique key on classifications (ticket_id, iteration).
UnjudgedAlways(pass) == TRUE

\* The pass is the first to classify the ticket in its iteration: the unique key
\* of classifications aborts the transaction of any other.
Unjudged(pass) == <<pass.ticket, pass.iteration>> \notin classified

\* _persist and COMMIT.
Persist(w, action) ==
  /\ InFlight(w, "agent")
  /\ LET pass == thread[w]
         t == pass.ticket
     IN /\ Unjudged(pass)
        /\ action \in Verdicts[pass.iteration]
        /\ classified' = classified \cup {<<t, pass.iteration>>}
        /\ SetTicket(t, pass.status, StatusByAction[action])
        /\ IF action = "clarify"
           THEN /\ iteration' = [iteration EXCEPT ![t] = pass.iteration + 1]
                /\ asked' = [asked EXCEPT ![t] = @ + 1]
           ELSE UNCHANGED <<iteration, asked>>
        /\ answered' = IF action = "auto_answer"
                       THEN [answered EXCEPT ![t] = @ + 1] ELSE answered
        /\ IF action \in EscalateActions
           THEN Unused(t) # {} /\ CreateEscalations({Fresh(t)})
           ELSE UNCHANGED escVars
  /\ Finish(w)
  /\ UNCHANGED <<releasing, clientVars, consuming, queued, requested>>

\* _run_agent, the LLM being unavailable.
EscalateUnavailable(w) ==
  /\ InFlight(w, "agent")
  /\ LET t == thread[w].ticket
     IN /\ Unused(t) # {}
        /\ CreateEscalations({Fresh(t)})
        /\ SetTicket(t, thread[w].status, "escalated_standard")
  /\ Finish(w)
  /\ UNCHANGED <<releasing, clientVars, agentVars, consuming, queued, requested>>

\* A handler ends before COMMIT: the process dies, or Postgres aborts the
\* transaction (a unique key, a deadlock, a lost connection).
Abort(w) ==
  /\ thread[w] # NULL
  /\ Finish(w)
  /\ UNCHANGED <<claimVars, clientVars, agentVars, consuming, queued, requested>>
-----------------------------------------------------------------------------
(* The request for a human, the timeout and the consumer.                  *)

\* request_human up to its writes: ticket and open escalation, read together.
\* A request too late after an automatic answer is refused: no step.
RequestRead(w, t) ==
  /\ t \in received
  /\ requests[t] < MaxRequests
  /\ thread[w] = NULL
  /\ ticketStatus[t] # "resolved_by_operator"
  /\ \E open \in IF OpenOf(t) = {} THEN {NULL} ELSE OpenOf(t) :
       thread' = [thread EXCEPT ![w] = [kind |-> "request", ticket |-> t,
                                        status |-> ticketStatus[t], open |-> open,
                                        answeredBefore |-> AnsweredOf(t)]]
  /\ requests' = [requests EXCEPT ![t] = @ + 1]
  /\ UNCHANGED <<claimVars, received, messages, agentVars, consuming, queued, requested>>

\* Faulty: a ticket at the agent is taken for a ticket at a human.
ReusesOpenAndNew(r) == r.open # NULL \/ r.status = "new"

\* A ticket with an open escalation gets no second one.
ReusesOpen(r) == r.open # NULL

\* request_human, its writes and COMMIT.
RequestCommit(w) ==
  /\ InFlight(w, "request")
  /\ LET r == thread[w]
         t == r.ticket
     IN IF ReusesOpen(r)
        THEN /\ requested' = requested \cup ({r.open} \ {NULL})
             /\ IF r.status = "escalated_standard"
                THEN SetTicket(t, r.status, "escalated_priority")
                ELSE UNCHANGED ticketStatus
             /\ UNCHANGED escVars
        ELSE /\ Unused(t) # {}
             /\ CreateEscalations({Fresh(t)})
             /\ requested' = requested \cup {Fresh(t)}
             /\ SetTicket(t, r.status, "escalated_priority")
  /\ Finish(w)
  /\ UNCHANGED <<releasing, clientVars, agentVars, consuming, queued>>

\* Faulty: the timeout waits for a client who has not been asked.
SilentWrongStatus(t) == ticketStatus[t] = "new"

\* The rows escalate_clarification_timeouts may select.
Silent(t) == ticketStatus[t] = "awaiting_clarification"

\* escalate_clarification_timeouts: the tickets whose time is up, in one
\* transaction.
Timeout ==
  \E S \in SUBSET {t \in received : Silent(t)} \ {{}} :
    /\ \A t \in S : Unused(t) # {}
    /\ CreateEscalations({Fresh(t) : t \in S})
    /\ ticketStatus' = [t \in Ticket |->
                          IF t \in S THEN "escalated_standard" ELSE ticketStatus[t]]
    /\ UNCHANGED <<releasing, lifeVars>>

\* handle_escalation_created up to its writes: an unlocked read of the ticket.
ConsumeRead(e) ==
  /\ consuming = NULL
  /\ status[e] # "absent"
  /\ e \notin queued
  /\ consuming' = [esc |-> e, status |-> ticketStatus[TicketOf[e]]]
  /\ UNCHANGED <<claimVars, clientVars, agentVars, thread, queued, requested>>

\* The rest of it, and COMMIT: a ticket read as escalated goes to the operators.
ConsumeCommit ==
  /\ consuming # NULL
  /\ IF consuming.status \in Escalated
     THEN SetTicket(TicketOf[consuming.esc], consuming.status, "pending_operator")
     ELSE UNCHANGED ticketStatus
  /\ queued' = queued \cup {consuming.esc}
  /\ consuming' = NULL
  /\ UNCHANGED <<escVars, releasing, clientVars, agentVars, thread, requested>>

\* The consumer's transaction is rolled back; the event comes again.
ConsumeAbort ==
  /\ consuming # NULL
  /\ consuming' = NULL
  /\ UNCHANGED <<claimVars, clientVars, agentVars, thread, queued, requested>>
-----------------------------------------------------------------------------
ClientStep(w) ==
  \E t \in Ticket : Intake(w, t) \/ AddMessage(w, t) \/ RequestRead(w, t)

HandlerStep(w) ==
  \/ \E action \in Action : Persist(w, action)
  \/ EscalateUnavailable(w)
  \/ RequestCommit(w)
  \/ Abort(w)

ConsumerStep ==
  \/ \E e \in Escalation : ConsumeRead(e)
  \/ ConsumeCommit
  \/ ConsumeAbort

LifecycleNext ==
  \/ \E w \in Thread : ClientStep(w) \/ HandlerStep(w)
  \/ Timeout
  \/ ConsumerStep
  \/ ClaimsNext /\ UNCHANGED lifeVars

\* The scheduler runs for ever, and a ticket it locks for nobody else is not
\* skipped for ever.
LifecycleSpec == LifecycleInit /\ [][LifecycleNext]_lifecycleVars /\ WF_lifecycleVars(Timeout)
-----------------------------------------------------------------------------
\* Whatever runs at the same time, a client is asked at most MAX_CLARIFICATIONS
\* questions (NFR9) and answered automatically at most once (process with a stale
\* ticket, the unique key of classifications).
AgentSpeaksInTurn ==
  \A t \in Ticket : asked[t] <= MAX_CLARIFICATIONS /\ answered[t] <= 1

\* A request for a human that is accepted is not lost: an escalation of the ticket is
\* open, or an operator has answered one since the request came in (request_human).
RequestReachesDesk ==
  [][\A w \in Thread, t \in Ticket :
       RequestCommit(w) /\ thread[w].ticket = t =>
         OpenOf(t)' # {} \/ AnsweredOf(t) \ thread[w].answeredBefore # {}
    ]_lifecycleVars

\* A client's silence does not hold a ticket: whatever is in flight, a ticket that
\* waits for a clarification stops waiting (NFR9, escalate_clarification_timeouts).
SilenceEnds ==
  \A t \in Ticket :
    ticketStatus[t] = "awaiting_clarification" ~> ticketStatus[t] # "awaiting_clarification"

\* An explicit request for a human wins over everything else (R1, UC9): the agent
\* sends no automatic answer while an escalation the client asked for is open.
HumanRequestWins ==
  [][\A t \in Ticket :
       OpenOf(t) \cap requested # {} => answered'[t] = answered[t]]_lifecycleVars

\* The state of a ticket that is with an operator is not rolled back (consumer.py,
\* _QUEUEABLE): it returns to the queue only with its escalation.
QueueNeverRollsBack ==
  [][\A t \in Ticket :
       ticketStatus[t] = "in_progress" /\ ticketStatus'[t] = "pending_operator"
         => \E e \in Of(t) : status[e] # "pending" /\ status'[e] = "pending"]_lifecycleVars
=============================================================================
