--------------------------- MODULE DecisionEngine ---------------------------
(***************************************************************************)
(* The Decision Engine (app/domain/decision.py): a table of rules, tried   *)
(* from top to bottom, the first match decides.  A confidence is a whole   *)
(* number of steps of 0.0 .. 1.0, SCALE of them, or NONE when it was not   *)
(* measured.                                                               *)
(*                                                                         *)
(* A definition commented "Faulty" is a plausible slip in the definition   *)
(* that follows it; the properties are checked to notice it.               *)
(***************************************************************************)
EXTENDS Integers, Sequences

CONSTANTS
  NONE,
  SCALE,
  CLASS_CONFIDENCE, RAG_CONFIDENCE,   \* Thresholds, calibrated with the model
  MAX_CLARIFICATIONS                  \* 0 is legal: clarifications are off

Confidence == 0..SCALE

Category == {"faq", "order_status", "complaint", "refund", "tech_issue", "unclassified"}
HIGH_RISK_CATEGORIES == {"complaint", "refund"}
AUTO_ANSWERABLE_CATEGORIES == {"faq", "order_status"}

EscalateActions == {"escalate", "priority_escalate"}
Action == EscalateActions \cup {"auto_answer", "clarify"}

EscalationReason ==
  {"client_requested", "high_risk_category", "classification_failed", "low_class_confidence",
   "low_rag_confidence", "clarification_limit_reached", "clarification_timeout",
   "llm_unavailable", "order_data_unavailable", "decision_table_gap"}

\* Thresholds.__post_init__
ASSUME ThresholdsAssumption ==
  /\ SCALE \in Nat
  /\ NONE \notin Confidence
  /\ NONE \notin EscalationReason
  /\ CLASS_CONFIDENCE \in Confidence
  /\ RAG_CONFIDENCE \in Confidence
  /\ MAX_CLARIFICATIONS \in Nat

DecisionInput ==
  [category: Category,
   rag: Confidence \cup {NONE},
   class: Confidence \cup {NONE},
   iteration: Nat,
   human: BOOLEAN]

PRIORITY_CLIENT_REQUESTED == 10
PRIORITY_STANDARD == 0
-----------------------------------------------------------------------------
\* Not measured counts as below the threshold.
ClassConfident(i) == i.class # NONE /\ i.class >= CLASS_CONFIDENCE

RagConfident(i) == i.rag # NONE /\ i.rag >= RAG_CONFIDENCE

\* Faulty: one clarification too many.
ClarificationExhaustedLate(i) == i.iteration > MAX_CLARIFICATIONS

ClarificationExhausted(i) == i.iteration >= MAX_CLARIFICATIONS

Rule(id, when, action, reason) == [id |-> id, when |-> when, action |-> action, reason |-> reason]

\* RULES, evaluated on an input.
RULES(i) ==
  LET tech == i.category = "tech_issue"
      answerable == i.category \in AUTO_ANSWERABLE_CATEGORIES
      rag == RagConfident(i)
      class == ClassConfident(i)
  IN << Rule("R1", i.human, "priority_escalate", "client_requested"),
        Rule("R9", i.category = "unclassified", "escalate", "classification_failed"),
        Rule("R2/R3", i.category \in HIGH_RISK_CATEGORIES, "escalate", "high_risk_category"),
        Rule("R10", i.category = "order_status", "escalate", "order_data_unavailable"),
        Rule("R7b", tech /\ ClarificationExhausted(i),
             "escalate", "clarification_limit_reached"),
        Rule("R7c", tech /\ rag /\ ~class, "escalate", "low_class_confidence"),
        Rule("R7a", tech /\ rag /\ class, "clarify", NONE),
        Rule("R8", tech /\ ~rag, "escalate", "low_rag_confidence"),
        Rule("R5", answerable /\ rag /\ ~class, "escalate", "low_class_confidence"),
        Rule("R6", answerable /\ ~rag, "escalate", "low_rag_confidence"),
        Rule("R4", answerable /\ rag /\ class, "auto_answer", NONE) >>

DEFAULT_RULE == Rule("R-default", TRUE, "escalate", "decision_table_gap")

\* Row k is the first that matches.
Fires(k, i) == RULES(i)[k].when /\ \A j \in 1..(k - 1) : ~RULES(i)[j].when

\* decide: the matching row as a Decision; only R1 raises the priority.
Decide(i) ==
  LET row == IF \E k \in 1..11 : Fires(k, i)
             THEN RULES(i)[CHOOSE k \in 1..11 : Fires(k, i)]
             ELSE DEFAULT_RULE
  IN [action |-> row.action,
      rule |-> row.id,
      reason |-> row.reason,
      priority |-> IF row.id = "R1" THEN PRIORITY_CLIENT_REQUESTED ELSE PRIORITY_STANDARD]

RuleId ==
  {"R1", "R9", "R2/R3", "R10", "R7b", "R7c", "R7a", "R8", "R5", "R6", "R4", "R-default"}

Decision ==
  [action: Action, rule: RuleId, reason: EscalationReason \cup {NONE},
   priority: {PRIORITY_STANDARD, PRIORITY_CLIENT_REQUESTED}]
-----------------------------------------------------------------------------
\* What the table amounts to, without rows or their order (decision table,
\* invariants 1-6 of the design document).
Evidenced(i) == i.rag \in RAG_CONFIDENCE..SCALE /\ i.class \in CLASS_CONFIDENCE..SCALE

Policy(i, action) ==
  /\ action \in Action
  /\ action = "priority_escalate" <=> i.human
  /\ action = "auto_answer" <=> ~i.human /\ i.category = "faq" /\ Evidenced(i)
  /\ action = "clarify" <=> /\ ~i.human /\ i.category = "tech_issue" /\ Evidenced(i)
                           /\ i.iteration < MAX_CLARIFICATIONS
=============================================================================
