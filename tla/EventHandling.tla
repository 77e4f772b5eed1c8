---------------------------- MODULE EventHandling ----------------------------
(***************************************************************************)
(* What the delivery of escalation.created promises (ADR-004, ADR-007),    *)
(* without pollers, broker or consumers: an event recorded together with   *)
(* its escalation is eventually settled.  Settled means handled, its       *)
(* effect applied exactly once, or parked in the dead-letter queue for a   *)
(* person; a parked event may still be handled through another copy.       *)
(***************************************************************************)
CONSTANT Event

VARIABLE fate    \* per event: "absent", "recorded", "handled" or "parked"

HandlingTypeOK == fate \in [Event -> {"absent", "recorded", "handled", "parked"}]

HandlingInit == fate = [e \in Event |-> "absent"]

Record(e) ==
  /\ fate[e] = "absent"
  /\ fate' = [fate EXCEPT ![e] = "recorded"]

Handle(e) ==
  /\ fate[e] \in {"recorded", "parked"}
  /\ fate' = [fate EXCEPT ![e] = "handled"]

Park(e) ==
  /\ fate[e] = "recorded"
  /\ fate' = [fate EXCEPT ![e] = "parked"]

HandlingNext == \E e \in Event : Record(e) \/ Handle(e) \/ Park(e)

Settle(e) == fate[e] = "recorded" /\ (Handle(e) \/ Park(e))

HandlingSpec ==
  /\ HandlingInit /\ [][HandlingNext]_fate
  /\ \A e \in Event : WF_fate(Settle(e))
=============================================================================
