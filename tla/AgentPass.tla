------------------------------ MODULE AgentPass ------------------------------
(***************************************************************************)
(* One pass of the agent over a client's message: the graph of             *)
(* app/agent/graph.py with the classifiers of app/services/classifier.py,  *)
(* the Decision Engine, and what app/agent/service.py (_persist) and       *)
(* app/api/tickets.py (_run_agent, when the LLM is unavailable) do with    *)
(* the outcome.  Texts are left out: what the classifier and the retriever *)
(* say of a text is chosen freely.                                         *)
(*                                                                         *)
(* A definition commented "Faulty" is a plausible slip in the definition   *)
(* that follows it; the properties are checked to notice it.               *)
(***************************************************************************)
EXTENDS Retrieval

CONSTANTS
  DISAGREEMENT_CONFIDENCE,   \* the confidence of a disputed classification
  MAX_CONTEXT_CHUNKS,        \* what LlmResponseGenerator puts in its prompt
  MaxWeight                  \* bound: weight of the markers of a category in a text

\* build_classifier_and_generator refuses a threshold a dispute would pass.
ASSUME CrossCheckAssumption ==
  DISAGREEMENT_CONFIDENCE \in Confidence /\ DISAGREEMENT_CONFIDENCE < CLASS_CONFIDENCE

ASSUME ContextAssumption == MAX_CONTEXT_CHUNKS \in Nat \ {0}

ASSUME WeightAssumption == MaxWeight \in Nat

ASSUME NoneAssumption == NONE \notin Decision /\ NONE \notin {"answer", "question"}

VARIABLES
  node,         \* the graph's node to run next, "down" after an LLM failure, or "done"
  classifier,   \* "llm", "cross_checked" (by the baseline) or "baseline" alone
  mode,         \* rag_retrieval_mode
  iteration,    \* tickets.clarification_count when the pass began
  human,        \* the graph's human_requested
  class,        \* the classification, or NONE
  reference,    \* the baseline's category for the same text where it
                \*   is cross-checked, or NONE
  rag,          \* rag_confidence, or NONE
  evidence,     \* history: the highest relevance among the chunks that the
                \*   generator reads, or NONE
  decision,     \* the Decision, or NONE
  reply,        \* what the client is sent: "answer", "question" or NONE
  escalation,   \* the escalation created, or NONE
  ticketStatus  \* tickets.status written by the pass, or NONE

inputVars == <<classifier, mode, iteration, human>>
measureVars == <<class, reference, rag, evidence>>
outcomeVars == <<reply, escalation, ticketStatus>>
passVars == <<node, inputVars, measureVars, decision, outcomeVars>>

Classifiable == Category \ {"unclassified"}
Classification == [category: Category, confidence: Confidence \cup {NONE}]
Escalation == [reason: EscalationReason, draft: BOOLEAN]
Escalated == {"escalated_standard", "escalated_priority"}

PassTypeOK ==
  /\ node \in {"classify", "retrieve", "decide", "act", "down", "done"}
  /\ classifier \in {"llm", "cross_checked", "baseline"}
  /\ mode \in Mode
  /\ iteration \in Nat
  /\ human \in BOOLEAN
  /\ class \in Classification \cup {NONE}
  /\ reference \in Category \cup {NONE}
  /\ rag \in Confidence \cup {NONE}
  /\ evidence \in Confidence \cup {NONE}
  /\ decision \in Decision \cup {NONE}
  /\ reply \in {"answer", "question", NONE}
  /\ escalation \in Escalation \cup {NONE}
  /\ ticketStatus \in Escalated \cup {"resolved_auto", "awaiting_clarification", NONE}

\* process: the graph is entered past the redaction of the text, which sends
\* an explicit request for a human straight to the decision.
PassInit ==
  /\ classifier \in {"llm", "cross_checked", "baseline"}
  /\ mode \in Mode
  /\ iteration \in 0..(MAX_CLARIFICATIONS + 1)
  /\ human \in BOOLEAN
  /\ node = IF human THEN "decide" ELSE "classify"
  /\ class = NONE /\ reference = NONE /\ rag = NONE /\ evidence = NONE
  /\ decision = NONE
  /\ reply = NONE /\ escalation = NONE /\ ticketStatus = NONE
-----------------------------------------------------------------------------
(* The classifiers.  scores is the weight of the markers found in the text. *)

Scores == [Classifiable -> 0..MaxWeight]

Total(scores) ==
  scores["faq"] + scores["order_status"] + scores["complaint"] + scores["refund"]
    + scores["tech_issue"]

\* Of equal scores the last category in the alphabet wins.
Alphabetical ==
  [complaint |-> 1, faq |-> 2, order_status |-> 3, refund |-> 4, tech_issue |-> 5]

Beats(scores, c, d) ==
  scores[c] > scores[d] \/ (scores[c] = scores[d] /\ Alphabetical[c] > Alphabetical[d])

\* BaselineClassifier: the heaviest category with its share of the total weight,
\* or a failed classification when no marker was found.
Baseline(scores) ==
  IF Total(scores) = 0
  THEN {[category |-> "unclassified", confidence |-> NONE]}
  ELSE {r \in [category: Classifiable, confidence: Confidence] :
          /\ \A d \in Classifiable \ {r.category} : Beats(scores, r.category, d)
          /\ r.confidence * Total(scores) <= SCALE * scores[r.category]
          /\ SCALE * scores[r.category] < (r.confidence + 1) * Total(scores)}

\* LlmClassifier: a label outside the closed set is a failed classification.
LlmClassify(label, probability) ==
  IF label \in Classifiable
  THEN [category |-> label, confidence |-> probability]
  ELSE [category |-> "unclassified", confidence |-> NONE]

\* Faulty: the baseline's dissent is not looked at.
CrossCheckedIgnored(result, ref) == result

\* CrossCheckedClassifier: the baseline can only lower the confidence.
CrossChecked(result, ref) ==
  IF \/ result.category \in {"unclassified", ref}
     \/ result.confidence <= DISAGREEMENT_CONFIDENCE
  THEN result
  ELSE [result EXCEPT !.confidence = DISAGREEMENT_CONFIDENCE]

\* The classifier the factory has built.
Classified(base, label, p) ==
  CASE classifier = "baseline" -> base
    [] classifier = "llm" -> LlmClassify(label, p)
    [] OTHER -> CrossChecked(LlmClassify(label, p), base.category)

Classify ==
  /\ node = "classify"
  /\ \E base \in UNION {Baseline(scores) : scores \in Scores} :
       /\ reference' = IF classifier = "cross_checked" THEN base.category ELSE NONE
       /\ \E label \in Category, p \in Confidence : class' = Classified(base, label, p)
  /\ node' = "retrieve"
  /\ UNCHANGED <<inputVars, rag, evidence, decision, outcomeVars>>

\* The chunks a generator reads: the template quotes one.
Reads == IF classifier = "baseline" THEN 1 ELSE MAX_CONTEXT_CHUNKS

\* The chunks go to the generator, the confidence to the decision.
Retrieve ==
  /\ node = "retrieve"
  /\ \E found \in Retrieved(mode, Reads) : rag' = found.rag /\ evidence' = found.evidence
  /\ node' = "decide"
  /\ UNCHANGED <<inputVars, class, reference, decision, outcomeVars>>

CategoryOf(c) == IF c = NONE THEN "unclassified" ELSE c.category

\* _decide_node's DecisionInput.
InputOfPass ==
  [category |-> CategoryOf(class),
   rag |-> rag,
   class |-> IF class = NONE THEN NONE ELSE class.confidence,
   iteration |-> iteration,
   human |-> human]

DecideNode ==
  /\ node = "decide"
  /\ decision' = Decide(InputOfPass)
  /\ node' = "act"
  /\ UNCHANGED <<inputVars, measureVars, outcomeVars>>

StatusByAction ==
  [auto_answer |-> "resolved_auto",
   clarify |-> "awaiting_clarification",
   escalate |-> "escalated_standard",
   priority_escalate |-> "escalated_priority"]

\* _persist with a reply, no escalation.
Reply(text) ==
  /\ reply' = text
  /\ ticketStatus' = StatusByAction[decision.action]
  /\ node' = "done"
  /\ UNCHANGED <<inputVars, measureVars, decision, escalation>>

\* _persist with an escalation, no reply.
EscalateWith(draft) ==
  /\ escalation' = [reason |-> decision.reason, draft |-> draft]
  /\ ticketStatus' = StatusByAction[decision.action]
  /\ node' = "done"
  /\ UNCHANGED <<inputVars, measureVars, decision, reply>>

AutoAnswer ==
  /\ node = "act" /\ decision.action = "auto_answer"
  /\ Reply("answer")

\* A template, no LLM.
Clarify ==
  /\ node = "act" /\ decision.action = "clarify"
  /\ Reply("question")

\* ADR-008: no draft for complaints and refunds.
Draftable(category) == category \notin HIGH_RISK_CATEGORIES

\* Whether there is a draft: the template's always, the LLM's unless it fails.
Drafts ==
  IF ~Draftable(CategoryOf(class)) THEN {FALSE}
  ELSE IF classifier = "baseline" THEN {TRUE} ELSE BOOLEAN

Escalate ==
  /\ node = "act" /\ decision.action \in EscalateActions
  /\ \E draft \in Drafts : EscalateWith(draft)

\* Faulty: an LLM failure in the draft of an escalation is raised as well.
RaisesAlways == node \in {"classify", "act"}

\* Where LLMUnavailableError leaves the graph, if an LLM is asked at all.
Raises ==
  /\ classifier # "baseline"
  /\ \/ node = "classify"
     \/ node = "act" /\ decision.action = "auto_answer"

LlmFails ==
  /\ Raises
  /\ node' = "down"
  /\ UNCHANGED <<inputVars, measureVars, decision, outcomeVars>>

\* Faulty: the failure is only logged.
UnavailableEscalationNone == NONE

\* The escalation of NFR6.
UnavailableEscalation == [reason |-> "llm_unavailable", draft |-> FALSE]

\* _run_agent, except LLMUnavailableError: what the graph measured is lost with it.
EscalateUnavailable ==
  /\ node = "down"
  /\ escalation' = UnavailableEscalation
  /\ ticketStatus' = "escalated_standard"
  /\ node' = "done"
  /\ UNCHANGED <<inputVars, measureVars, decision, reply>>

PassNext ==
  \/ Classify \/ Retrieve \/ DecideNode
  \/ AutoAnswer \/ Clarify \/ Escalate
  \/ LlmFails \/ EscalateUnavailable

\* Calls of the LLM end by the deadline of their retry policy.
PassSpec == PassInit /\ [][PassNext]_passVars /\ WF_passVars(PassNext)
-----------------------------------------------------------------------------
\* The pass acts by the policy of the decision table, whatever the measurements:
\* the order of the rows leaves no gap and lets no row hide another.
PolicyFollowed ==
  decision # NONE => Policy(InputOfPass, decision.action) /\ decision.rule # "R-default"

\* The client is answered without a human only on an FAQ the client did not ask a
\* human about, with both confidences measured and at their thresholds, and where
\* the cross-check is on, with the baseline classifier of the same opinion
\* (classifier, factory, graph and R4 together).
AnswerIsEvidenced ==
  reply = "answer" =>
    /\ ~human
    /\ class.category = "faq"
    /\ classifier = "cross_checked" => reference = "faq"
    /\ class.confidence \in CLASS_CONFIDENCE..SCALE
    /\ rag \in RAG_CONFIDENCE..SCALE

\* "One document that fits is enough for an answer": the generator of an automatic
\* answer has read such a document, unless the fusion put it behind more chunks than
\* the generator reads (retrieve, rag_confidence; generate, chunks).
AnswerIsGrounded ==
  reply = "answer" /\ (mode = "vector" \/ TOP_K <= Reads) => evidence \in RAG_CONFIDENCE..SCALE

\* An LLM outage never hides the reason the Decision Engine gave, and never leaves
\* a complaint or a refund with a draft (_act_node, _run_agent).
OutageKeepsReason ==
  escalation # NONE =>
    /\ decision # NONE /\ decision.action \in EscalateActions
         => escalation.reason = decision.reason
    /\ escalation.reason = "llm_unavailable"
         => decision = NONE \/ decision.action = "auto_answer"
    /\ CategoryOf(class) \in HIGH_RISK_CATEGORIES => ~escalation.draft

\* A pass ends, outage or not, with the client answered, asked or escalated: one of
\* the three, and the ticket's status says which.
PassIsSettled ==
  <>(/\ node = "done"
     /\ \/ reply = "answer" /\ escalation = NONE /\ ticketStatus = "resolved_auto"
        \/ reply = "question" /\ escalation = NONE /\ ticketStatus = "awaiting_clarification"
        \/ reply = NONE /\ escalation # NONE /\ ticketStatus \in Escalated)
=============================================================================
