---------------------------- MODULE OperatorDesk ----------------------------
(***************************************************************************)
(* What the operator desk promises, without rows, leases or sessions: an   *)
(* escalation has at most one holder, only its holder answers it, and an   *)
(* answer is given once and kept.  EscalationClaims, the translation of    *)
(* app/escalations/operations.py, is shown to implement this module.       *)
(***************************************************************************)
CONSTANTS Escalation, Operator, NULL

VARIABLES
  holder,      \* the operator whose claim on the escalation is alive, or NULL
  answeredBy   \* the operator whose answer the client got, or NULL

deskVars == <<holder, answeredBy>>

DeskTypeOK ==
  /\ holder \in [Escalation -> Operator \cup {NULL}]
  /\ answeredBy \in [Escalation -> Operator \cup {NULL}]

DeskInit ==
  /\ holder = [e \in Escalation |-> NULL]
  /\ answeredBy = [e \in Escalation |-> NULL]

\* An operator takes a free, unanswered escalation.
Take(o, e) ==
  /\ answeredBy[e] = NULL
  /\ holder[e] = NULL
  /\ holder' = [holder EXCEPT ![e] = o]
  /\ UNCHANGED answeredBy

\* Some holders lose their claims: released, lapsed or taken away.
Drop(S) ==
  /\ holder' = [e \in Escalation |-> IF e \in S THEN NULL ELSE holder[e]]
  /\ UNCHANGED answeredBy

\* The holder answers; the escalation has no holder from then on.
Answer(o, e) ==
  /\ holder[e] = o
  /\ answeredBy[e] = NULL
  /\ answeredBy' = [answeredBy EXCEPT ![e] = o]
  /\ holder' = [holder EXCEPT ![e] = NULL]

DeskNext ==
  \/ \E o \in Operator, e \in Escalation : Take(o, e) \/ Answer(o, e)
  \/ \E S \in SUBSET Escalation : Drop(S)

DeskSpec == DeskInit /\ [][DeskNext]_deskVars
=============================================================================
