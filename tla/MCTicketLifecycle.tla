------------------------- MODULE MCTicketLifecycle -------------------------
(* One ticket and the escalations it may get. *)
EXTENDS TicketLifecycle
CONSTANT t1
MCTicketOf == [e \in Escalation |-> t1]
=============================================================================
