-------------------------- MODULE MCOperatorQueue --------------------------
(* Two operators and two escalations, each of a ticket of its own; pages of *)
(* one row.  The desk starts with standard priorities, one ticket in the    *)
(* queue and one just escalated, and clients raise the younger escalation   *)
(* only, the one that would then overtake the other.                        *)
EXTENDS OperatorQueue
CONSTANTS e1, e2, t1, t2
MCTicketOf == [e \in Escalation |-> IF e = e1 THEN t1 ELSE t2]
MCSeniority == [e \in Escalation |-> IF e = e1 THEN 1 ELSE 2]

MCInit ==
  /\ QueueInit
  /\ ticketStatus = [t \in Ticket |-> IF t = t1 THEN "pending_operator" ELSE "escalated_standard"]
  /\ priority = [e \in Escalation |-> PRIORITY_STANDARD]
MCNext == QueueNext /\ priority'[e1] = priority[e1]
MCSpec == MCInit /\ [][MCNext]_queueVars /\ ClaimsFairness
=============================================================================
