------------------------- MODULE MCEscalationClaims -------------------------
(* Two operators, two escalations, each of a ticket of its own; one draft. *)
EXTENDS EscalationClaims
CONSTANTS e1, e2, t1, t2
MCTicketOf == [e \in Escalation |-> IF e = e1 THEN t1 ELSE t2]
=============================================================================
