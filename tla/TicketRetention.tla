--------------------------- MODULE TicketRetention ---------------------------
(***************************************************************************)
(* Retention of personal data (NFR4), app/retention.py, beside everything  *)
(* that writes a ticket (TicketLifecycle).  Rows are not deleted: texts    *)
(* and the client's id are overwritten in four tables, in the transaction  *)
(* of the scheduler's tick that marks the ticket as scrubbed.              *)
(*                                                                         *)
(* texts holds, per ticket, the tables that store something personal; who  *)
(* writes a text there is told from what a step of the life cycle adds.    *)
(* Time is left out here as it is there: a ticket may pass the retention   *)
(* period at any moment, wherever it stands.                               *)
(***************************************************************************)
EXTENDS TicketLifecycle

VARIABLES
  aged,        \* tickets created before the cutoff of the sweep
  scrubbed,    \* tickets.scrubbed_at is set
  texts        \* per ticket, the tables that hold personal data of it

retentionVars == <<aged, scrubbed, texts>>
ticketVars == <<lifecycleVars, retentionVars>>

Table == {"tickets", "messages", "escalations", "operator_actions"}

RetentionTypeOK ==
  /\ LifecycleTypeOK
  /\ aged \subseteq received
  /\ scrubbed \subseteq aged
  /\ texts \in [Ticket -> SUBSET Table]

RetentionInit ==
  /\ LifecycleInit
  /\ aged = {}
  /\ scrubbed = {}
  /\ texts = [t \in Ticket |-> {}]
-----------------------------------------------------------------------------
\* The tables a step writes a text or the client's id of t into: the intake, a
\* message of any side, a draft, an operator's answer.
Written(t) ==
  UNION {
    IF t \in received' \ received THEN {"tickets", "messages"} ELSE {},
    IF messages'[t] # messages[t] \/ asked'[t] # asked[t] \/ answered'[t] # answered[t]
    THEN {"messages"} ELSE {},
    IF \E e \in Of(t) \cap Drafted : status[e] = "absent" /\ status'[e] # "absent"
    THEN {"escalations"} ELSE {},
    IF \E e \in Of(t) : answer'[e] # answer[e]
    THEN {"messages", "operator_actions"} ELSE {}}

\* A draft that was scrubbed can no longer be confirmed (_final_text).
ConfirmsStoredDraft ==
  \A e \in Escalation :
    answer'[e] # answer[e] /\ answer'[e].action = "confirm"
      => "escalations" \in texts[TicketOf[e]]

\* Any step of the ticket's life, with the texts it leaves.
LifeStep ==
  /\ LifecycleNext
  /\ ConfirmsStoredDraft
  /\ texts' = [t \in Ticket |-> texts[t] \cup Written(t)]
  /\ UNCHANGED <<aged, scrubbed>>

\* The retention period of a ticket is over.
PassCutoff(t) ==
  /\ t \in received \ aged
  /\ aged' = aged \cup {t}
  /\ UNCHANGED <<lifecycleVars, scrubbed, texts>>

\* Faulty: only the agent's answers count.
ClosedByAgentOnly == {"resolved_auto"}

CLOSED_STATUSES == {"resolved_auto", "resolved_by_operator"}

\* Faulty: the age of a ticket is enough.
ExpiredByAge(t) == t \in aged \ scrubbed

\* The rows scrub_expired selects.
Scrubbable(t) == t \in aged \ scrubbed /\ ticketStatus[t] \in CLOSED_STATUSES

\* The batches the query can take: LIMIT and SKIP LOCKED leave some rows for later.
Batches == SUBSET {t \in Ticket : Scrubbable(t)} \ {{}}

\* scrub_expired: a batch, in one transaction; _scrub overwrites the texts of every
\* table.
ScrubExpired ==
  \E S \in Batches :
    /\ texts' = [t \in Ticket |-> IF t \in S THEN {} ELSE texts[t]]
    /\ scrubbed' = scrubbed \cup S
    /\ UNCHANGED <<lifecycleVars, aged>>

RetentionNext ==
  \/ LifeStep
  \/ \E t \in Ticket : PassCutoff(t)
  \/ ScrubExpired

\* The scheduler ticks for ever, and no row is locked by others for ever.
RetentionSpec ==
  /\ RetentionInit
  /\ [][RetentionNext]_ticketVars
  /\ WF_ticketVars(Timeout /\ LifeStep)
  /\ WF_ticketVars(ScrubExpired)
-----------------------------------------------------------------------------
\* A client's words are kept until the client has some answer, an automatic one or an
\* operator's, whatever ends or reopens the ticket in between (scrub_expired,
\* CLOSED_STATUSES).  It does not say that no operator waits to read them: a ticket that
\* a stale pass has closed over a request is scrubbed with its escalation open.
KeptUntilAnswered ==
  \A t \in received :
    "messages" \in texts[t] \/ answered[t] > 0 \/ AnsweredOf(t) # {}

\* A closed ticket does not stay for ever as it is: past the retention period it is
\* scrubbed, unless it is opened again first (NFR4, run_once).
ClosedIsScrubbed ==
  \A t \in Ticket :
    t \in aged /\ ticketStatus[t] \in Closed
      ~> t \in scrubbed \/ ticketStatus[t] \notin Closed
=============================================================================
