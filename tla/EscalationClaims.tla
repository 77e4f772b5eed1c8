-------------------------- MODULE EscalationClaims --------------------------
(***************************************************************************)
(* The operator's side of an escalation: app/escalations/operations.py.    *)
(* The variables are columns of the Postgres rows the operations touch.    *)
(* claim, resolve and release_expired hold the escalation's row lock from  *)
(* their first statement to COMMIT (a conditional UPDATE, or SELECT FOR    *)
(* UPDATE), so each is one step.  release is three: an unlocked read of    *)
(* the escalation; the flush, which takes its row lock and then reads the  *)
(* ticket, without a lock; and COMMIT, when its writes can be seen.        *)
(*                                                                         *)
(* locked_until is kept as left = locked_until - now, counted in ticks and *)
(* stopping at -1: the code only ever asks whether locked_until < now.     *)
(*                                                                         *)
(* A definition commented "Faulty" is not part of the specification: it is *)
(* a plausible slip in the definition that follows it, and the properties  *)
(* below are checked to notice it.                                         *)
(***************************************************************************)
EXTENDS Integers, FiniteSets

CONSTANTS
  Escalation, Operator, Ticket,
  TicketOf,     \* escalations.ticket_id
  Drafted,      \* the escalations that carry a draft answer (ADR-008)
  Ttl,          \* claim TTL in ticks
  NULL

VARIABLES
  status,        \* escalations.status, or "absent" before the INSERT
  lockedBy,      \* escalations.locked_by
  left,          \* escalations.locked_until - now, 0 while locked_by is NULL
  operatorId,    \* escalations.operator_id: the last operator who claimed it
  answer,        \* operator_actions: the row of the escalation, or NULL
  ticketStatus,  \* tickets.status
  releasing      \* per operator: a release in flight, its escalation and the status
                 \* it has read of the ticket, NULL before that; or NULL

escVars == <<status, lockedBy, left, operatorId, answer>>
claimVars == <<status, lockedBy, left, operatorId, answer, ticketStatus, releasing>>

EscalationStatus == {"absent", "pending", "in_progress", "resolved"}
Escalated == {"escalated_standard", "escalated_priority"}
TicketStatus ==
  Escalated \cup {"new", "awaiting_clarification", "pending_operator", "in_progress",
                  "resolved_auto", "resolved_by_operator"}
OperatorActionType == {"confirm", "edit", "reject"}
OperatorAction == [operator: Operator, action: OperatorActionType]

ASSUME ClaimsAssumption ==
  /\ NULL \notin Operator
  /\ NULL \notin OperatorAction
  /\ NULL \notin TicketStatus
  /\ TicketOf \in [Escalation -> Ticket]
  /\ Drafted \subseteq Escalation
  /\ Ttl \in Nat

Open(e) == status[e] \in {"pending", "in_progress"}
Siblings(e) == {f \in Escalation : TicketOf[f] = TicketOf[e]}

ClaimsTypeOK ==
  /\ status \in [Escalation -> EscalationStatus]
  /\ lockedBy \in [Escalation -> Operator \cup {NULL}]
  /\ left \in [Escalation -> -1..Ttl]
  /\ operatorId \in [Escalation -> Operator \cup {NULL}]
  /\ answer \in [Escalation -> OperatorAction \cup {NULL}]
  /\ ticketStatus \in [Ticket -> TicketStatus]
  /\ releasing \in [Operator -> [esc: Escalation, ticket: TicketStatus \cup {NULL}] \cup {NULL}]

\* Escalations as create_escalation leaves them; the consumer may or may not
\* have moved their tickets to the operators' queue yet.
ClaimsInit ==
  /\ status = [e \in Escalation |-> "pending"]
  /\ lockedBy = [e \in Escalation |-> NULL]
  /\ left = [e \in Escalation |-> 0]
  /\ operatorId = [e \in Escalation |-> NULL]
  /\ answer = [e \in Escalation |-> NULL]
  /\ ticketStatus \in [Ticket -> Escalated \cup {"pending_operator"}]
  /\ releasing = [o \in Operator |-> NULL]
-----------------------------------------------------------------------------
\* The release of o has flushed its UPDATE and not committed it.
Flushed(o) == releasing[o] # NULL /\ releasing[o].ticket # NULL

\* The row lock of an escalation is held by a release.
Locked(e) == \E o \in Operator : Flushed(o) /\ releasing[o].esc = e

\* locked_until < now.  NULL < now is not true in SQL.
Expired(e) == lockedBy[e] # NULL /\ left[e] < 0

\* Faulty: a claim can be taken over in its last moment.
ClaimableEarly(o, e) == lockedBy[e] \in {NULL, o} \/ left[e] <= 0

\* The WHERE of the claiming UPDATE that says whose claim may be replaced.
Claimable(o, e) == lockedBy[e] \in {NULL, o} \/ Expired(e)

\* claim: one conditional UPDATE; then the ticket goes to in_progress,
\* whatever its status was.  An UPDATE that matches nothing changes nothing.
Claim(o, e) ==
  /\ ~Locked(e)
  /\ Open(e)
  /\ Claimable(o, e)
  /\ status' = [status EXCEPT ![e] = "in_progress"]
  /\ lockedBy' = [lockedBy EXCEPT ![e] = o]
  /\ left' = [left EXCEPT ![e] = Ttl]
  /\ operatorId' = [operatorId EXCEPT ![e] = o]
  /\ ticketStatus' = [ticketStatus EXCEPT ![TicketOf[e]] = "in_progress"]
  /\ UNCHANGED <<answer, releasing>>

\* Faulty: the escalation goes back to the queue and stays locked.
ReturnToQueueKeepsLock(S) ==
  /\ status' = [e \in Escalation |-> IF e \in S THEN "pending" ELSE status[e]]
  /\ UNCHANGED <<lockedBy, left>>

\* _return_to_queue, the escalation's columns, for the escalations in S.
ReturnToQueue(S) ==
  /\ status' = [e \in Escalation |-> IF e \in S THEN "pending" ELSE status[e]]
  /\ lockedBy' = [e \in Escalation |-> IF e \in S THEN NULL ELSE lockedBy[e]]
  /\ left' = [e \in Escalation |-> IF e \in S THEN 0 ELSE left[e]]

\* Faulty: the escalation's status written to the ticket; the ticket forgotten.
TicketAfterReturnWrongEnum(read, stored) == IF read = "in_progress" THEN "pending" ELSE stored
TicketAfterReturnForgotten(read, stored) == stored

\* _return_to_queue, the ticket: the status it leaves, given the one it read.
TicketAfterReturn(read, stored) == IF read = "in_progress" THEN "pending_operator" ELSE stored

\* release, up to the checks: an unlocked read of the escalation.
ReleaseRead(o, e) ==
  /\ releasing[o] = NULL
  /\ Open(e)
  /\ lockedBy[e] = o
  /\ releasing' = [releasing EXCEPT ![o] = [esc |-> e, ticket |-> NULL]]
  /\ UNCHANGED <<escVars, ticketStatus>>

\* _return_to_queue: session.get(Ticket) flushes the escalation's UPDATE first, which
\* waits for the row lock and keeps it, and only then reads the ticket.
ReleaseFlush(o) ==
  /\ releasing[o] # NULL
  /\ releasing[o].ticket = NULL
  /\ LET e == releasing[o].esc
     IN /\ ~Locked(e)
        /\ releasing' = [releasing EXCEPT
                           ![o] = [esc |-> e, ticket |-> ticketStatus[TicketOf[e]]]]
  /\ UNCHANGED <<escVars, ticketStatus>>

\* release, COMMIT: the escalation's columns, whatever the row held when the UPDATE
\* came, and the ticket if it was read in progress.
ReleaseCommit(o) ==
  /\ Flushed(o)
  /\ LET e == releasing[o].esc
         t == TicketOf[e]
     IN /\ ReturnToQueue({e})
        /\ ticketStatus' = [ticketStatus EXCEPT
                              ![t] = TicketAfterReturn(releasing[o].ticket, @)]
  /\ releasing' = [releasing EXCEPT ![o] = NULL]
  /\ UNCHANGED <<operatorId, answer>>

\* A request dies before COMMIT (crash, lost connection): nothing is written.
ReleaseAbort(o) ==
  /\ releasing[o] # NULL
  /\ releasing' = [releasing EXCEPT ![o] = NULL]
  /\ UNCHANGED <<escVars, ticketStatus>>

\* Faulty: the sweep looks for the wrong status.
SweptWrongStatus(e) == status[e] = "pending" /\ Expired(e)

\* The rows release_expired looks for.
Swept(e) == status[e] = "in_progress" /\ Expired(e)

\* release_expired, the scheduler's sweep: every expired claim in one transaction,
\* but for the rows locked by others (SKIP LOCKED).
ReleaseExpired ==
  LET expired == {e \in Escalation : Swept(e) /\ ~Locked(e)}
  IN /\ expired # {}
     /\ ReturnToQueue(expired)
     /\ ticketStatus' = [t \in Ticket |->
                           IF \E e \in expired : TicketOf[e] = t
                           THEN TicketAfterReturn(ticketStatus[t], ticketStatus[t])
                           ELSE ticketStatus[t]]
     /\ UNCHANGED <<operatorId, answer, releasing>>

\* _final_text: only a drafted answer can be confirmed as it stands.
Answerable(e, action) == action = "confirm" => e \in Drafted

\* Faulty: any live claim will do, whoever holds it.
HoldsClaimAnyone(o, e) == lockedBy[e] # NULL /\ ~Expired(e)

\* What resolve asks of the operator: the claim is hers and still alive.
HoldsClaim(o, e) == lockedBy[e] = o /\ ~Expired(e)

\* resolve: under the row lock, by the holder of a live claim.  operator_actions
\* is unique per escalation: a second row aborts the whole transaction.
Resolve(o, e, action) ==
  /\ ~Locked(e)
  /\ Open(e)
  /\ HoldsClaim(o, e)
  /\ Answerable(e, action)
  /\ answer[e] = NULL
  /\ answer' = [answer EXCEPT ![e] = [operator |-> o, action |-> action]]
  /\ status' = [status EXCEPT ![e] = "resolved"]
  /\ lockedBy' = [lockedBy EXCEPT ![e] = NULL]
  /\ left' = [left EXCEPT ![e] = 0]
  /\ ticketStatus' = [ticketStatus EXCEPT ![TicketOf[e]] = "resolved_by_operator"]
  /\ UNCHANGED <<operatorId, releasing>>

\* Time passes for every claim at once.
Tick ==
  /\ \E e \in Escalation : lockedBy[e] # NULL /\ left[e] >= 0
  /\ left' = [e \in Escalation |->
                IF lockedBy[e] # NULL /\ left[e] >= 0 THEN left[e] - 1 ELSE left[e]]
  /\ UNCHANGED <<status, lockedBy, operatorId, answer, ticketStatus, releasing>>

OperatorStep(o) ==
  \/ ReleaseFlush(o)
  \/ ReleaseCommit(o)
  \/ ReleaseAbort(o)
  \/ \E e \in Escalation :
       \/ Claim(o, e)
       \/ ReleaseRead(o, e)
       \/ \E action \in OperatorActionType : Resolve(o, e, action)

ClaimsNext ==
  \/ \E o \in Operator : OperatorStep(o)
  \/ ReleaseExpired
  \/ Tick

\* Operators may stop at any point; the clock and the scheduler do not.  A release
\* that holds a row lock ends, by COMMIT or by a lost connection.  The sweep comes
\* back every interval: it does not meet a locked row each time.
ClaimsFairness ==
  /\ WF_claimVars(Tick)
  /\ \A e \in Escalation : SF_claimVars(ReleaseExpired /\ Swept(e) /\ ~Locked(e))
  /\ \A o \in Operator : WF_claimVars(Flushed(o) /\ (ReleaseCommit(o) \/ ReleaseAbort(o)))

ClaimsSpec == ClaimsInit /\ [][ClaimsNext]_claimVars /\ ClaimsFairness
-----------------------------------------------------------------------------
\* An escalation is in progress exactly while somebody's claim is stored on it,
\* whatever a release in flight has read: no row is left locked in the queue
\* or taken without an owner (operations.py, _return_to_queue and resolve).
LockedIffInProgress ==
  \A e \in Escalation : status[e] = "in_progress" <=> lockedBy[e] # NULL

\* A closed escalation has an answer, and it is the answer of the last operator
\* who claimed it: nobody closes another operator's work (claim and resolve).
AnswerIsClaimants ==
  \A e \in Escalation :
    status[e] = "resolved" => answer[e] # NULL /\ answer[e].operator = operatorId[e]

\* While a ticket has one escalation and only the desk writes to it, the two rows
\* agree, stale releases included: in progress together, and an open escalation waits
\* on a closed ticket only if it has been answered already, when a release reopened it
\* behind the answer (release, _return_to_queue, claim, resolve).
TicketFollowsSoleEscalation ==
  \A e \in Escalation :
    Siblings(e) = {e} =>
      LET ticket == ticketStatus[TicketOf[e]]
      IN /\ status[e] = "in_progress" <=> ticket = "in_progress"
         /\ status[e] = "resolved" => ticket = "resolved_by_operator"
         /\ status[e] = "pending" =>
              \/ ticket \in Escalated \cup {"pending_operator"}
              \/ ticket = "resolved_by_operator" /\ answer[e] # NULL

\* The desk's promise: the live claim is exclusive, only its holder answers, the
\* answer is given once and kept.
Desk ==
  INSTANCE OperatorDesk WITH
    answeredBy <- [e \in Escalation |-> IF answer[e] = NULL THEN NULL ELSE answer[e].operator],
    holder <- [e \in Escalation |->
                 IF answer[e] = NULL /\ ~Expired(e) THEN lockedBy[e] ELSE NULL]
ImplementsDesk == Desk!DeskSpec

\* A claim that ran out does not stay on the escalation: the sweep returns it to
\* the queue, or somebody claims or closes it first (release_expired).
ExpiredClaimReturned ==
  \A e \in Escalation : (status[e] = "in_progress" /\ Expired(e)) ~> ~Expired(e)

\* A ticket an operator resolved is final: the state diagram of the design document
\* has no way out of ResolvedByOperator but the end.
ResolvedByOperatorIsFinal ==
  [][\A t \in Ticket :
       ticketStatus[t] = "resolved_by_operator" => ticketStatus'[t] = "resolved_by_operator"
    ]_claimVars
=============================================================================
