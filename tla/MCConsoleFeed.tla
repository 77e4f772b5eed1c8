--------------------------- MODULE MCConsoleFeed ---------------------------
(* One ticket and the escalations it may get. *)
EXTENDS ConsoleFeed
CONSTANT t1
MCTicketOf == [e \in Escalation |-> t1]
=============================================================================
