------------------------- MODULE MCTicketRetention -------------------------
(* One ticket and the escalations it may get. *)
EXTENDS TicketRetention
CONSTANT t1
MCTicketOf == [e \in Escalation |-> t1]
=============================================================================
