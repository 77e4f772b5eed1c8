--------------------------- MODULE AgentPassProofs ---------------------------
(***************************************************************************)
(* Proofs about the Decision Engine and a pass of the agent, for every     *)
(* scale of confidences, every pair of thresholds, every limit of          *)
(* clarifications and every input.                                         *)
(***************************************************************************)
EXTENDS AgentPass, TLAPS

USE ThresholdsAssumption, CrossCheckAssumption, NoneAssumption, ContextAssumption,
    RetrievalAssumption

\* No input falls through the table: the last rows complement each other.
LEMMA NoGap ==
  ASSUME NEW i \in DecisionInput
  PROVE  \E k \in 1..11 : Fires(k, i)
<1> SUFFICES ASSUME \A k \in 1..11 : ~Fires(k, i) PROVE FALSE
  OBVIOUS
<1> DEFINE when(k) == RULES(i)[k].when
<1>0. \A k \in 1..11 : (\A j \in 1..(k - 1) : ~when(j)) => ~when(k)
  BY DEF Fires
<1> HIDE DEF when
<1>1. ~when(1)
  BY <1>0
<1>2. ~when(2)
  BY <1>0, <1>1
<1>3. ~when(3)
  BY <1>0, <1>1, <1>2
<1>4. ~when(4)
  BY <1>0, <1>1, <1>2, <1>3
<1>5. ~when(5)
  BY <1>0, <1>1, <1>2, <1>3, <1>4
<1>6. ~when(6)
  BY <1>0, <1>1, <1>2, <1>3, <1>4, <1>5
<1>7. ~when(7)
  BY <1>0, <1>1, <1>2, <1>3, <1>4, <1>5, <1>6
<1>8. ~when(8)
  BY <1>0, <1>1, <1>2, <1>3, <1>4, <1>5, <1>6, <1>7
<1>9. ~when(9)
  BY <1>0, <1>1, <1>2, <1>3, <1>4, <1>5, <1>6, <1>7, <1>8
<1>10. ~when(10)
  BY <1>0, <1>1, <1>2, <1>3, <1>4, <1>5, <1>6, <1>7, <1>8, <1>9
<1>11. ~when(11)
  BY <1>0, <1>1, <1>2, <1>3, <1>4, <1>5, <1>6, <1>7, <1>8, <1>9, <1>10
<1> QED
  BY <1>1, <1>2, <1>3, <1>4, <1>5, <1>6, <1>7, <1>8, <1>9, <1>10, <1>11
     DEF when, RULES, Rule, DecisionInput, Category, HIGH_RISK_CATEGORIES,
         AUTO_ANSWERABLE_CATEGORIES

\* Evidence is what the two confidence predicates of the rules ask for.
LEMMA EvidenceOfPredicates ==
  ASSUME NEW i \in DecisionInput
  PROVE  Evidenced(i) <=> RagConfident(i) /\ ClassConfident(i)
BY DEF Evidenced, RagConfident, ClassConfident, DecisionInput, Confidence

\* What the policy asks of a row that fires on an input.
ActsByPolicy(i, row) ==
  /\ Policy(i, row.action)
  /\ row.id \in RuleId \ {"R-default"}
  /\ row.reason \in (EscalationReason \cup {NONE}) \ {"llm_unavailable"}
  /\ row.action \in EscalateActions <=> row.reason # NONE
  /\ row.id = "R1" <=> i.human

\* Every row that fires acts by the policy, gives a reason exactly when it
\* escalates, and is R1 exactly when the client asked for a human.
LEMMA RowActsByPolicy ==
  ASSUME NEW i \in DecisionInput, NEW k \in 1..11, Fires(k, i)
  PROVE  ActsByPolicy(i, RULES(i)[k])
<1>0. /\ RULES(i)[k].when
      /\ \A j \in 1..(k - 1) : ~RULES(i)[j].when
  BY DEF Fires
<1>a. Evidenced(i) <=> RagConfident(i) /\ ClassConfident(i)
  BY EvidenceOfPredicates
<1>b. ClarificationExhausted(i) <=> ~(i.iteration < MAX_CLARIFICATIONS)
  BY DEF ClarificationExhausted, DecisionInput
<1>c. i.category \in Category /\ i.human \in BOOLEAN
  BY DEF DecisionInput
<1>r1. /\ RULES(i)[1].when <=> i.human
      /\ RULES(i)[1].id = "R1"
      /\ RULES(i)[1].action = "priority_escalate"
      /\ RULES(i)[1].reason = "client_requested"
  BY DEF RULES, Rule
<1>r2. /\ RULES(i)[2].when <=> i.category = "unclassified"
      /\ RULES(i)[2].id = "R9"
      /\ RULES(i)[2].action = "escalate"
      /\ RULES(i)[2].reason = "classification_failed"
  BY DEF RULES, Rule
<1>r3. /\ RULES(i)[3].when <=> i.category \in HIGH_RISK_CATEGORIES
      /\ RULES(i)[3].id = "R2/R3"
      /\ RULES(i)[3].action = "escalate"
      /\ RULES(i)[3].reason = "high_risk_category"
  BY DEF RULES, Rule
<1>r4. /\ RULES(i)[4].when <=> i.category = "order_status"
      /\ RULES(i)[4].id = "R10"
      /\ RULES(i)[4].action = "escalate"
      /\ RULES(i)[4].reason = "order_data_unavailable"
  BY DEF RULES, Rule
<1>r5. /\ RULES(i)[5].when <=> i.category = "tech_issue" /\ ClarificationExhausted(i)
      /\ RULES(i)[5].id = "R7b"
      /\ RULES(i)[5].action = "escalate"
      /\ RULES(i)[5].reason = "clarification_limit_reached"
  BY DEF RULES, Rule
<1>r6. /\ RULES(i)[6].when <=> i.category = "tech_issue" /\ RagConfident(i) /\ ~ClassConfident(i)
      /\ RULES(i)[6].id = "R7c"
      /\ RULES(i)[6].action = "escalate"
      /\ RULES(i)[6].reason = "low_class_confidence"
  BY DEF RULES, Rule
<1>r7. /\ RULES(i)[7].when <=> i.category = "tech_issue" /\ RagConfident(i) /\ ClassConfident(i)
      /\ RULES(i)[7].id = "R7a"
      /\ RULES(i)[7].action = "clarify"
      /\ RULES(i)[7].reason = NONE
  BY DEF RULES, Rule
<1>r8. /\ RULES(i)[8].when <=> i.category = "tech_issue" /\ ~RagConfident(i)
      /\ RULES(i)[8].id = "R8"
      /\ RULES(i)[8].action = "escalate"
      /\ RULES(i)[8].reason = "low_rag_confidence"
  BY DEF RULES, Rule
<1>r9. /\ RULES(i)[9].when <=> i.category \in AUTO_ANSWERABLE_CATEGORIES /\ RagConfident(i) /\ ~ClassConfident(i)
      /\ RULES(i)[9].id = "R5"
      /\ RULES(i)[9].action = "escalate"
      /\ RULES(i)[9].reason = "low_class_confidence"
  BY DEF RULES, Rule
<1>r10. /\ RULES(i)[10].when <=> i.category \in AUTO_ANSWERABLE_CATEGORIES /\ ~RagConfident(i)
      /\ RULES(i)[10].id = "R6"
      /\ RULES(i)[10].action = "escalate"
      /\ RULES(i)[10].reason = "low_rag_confidence"
  BY DEF RULES, Rule
<1>r11. /\ RULES(i)[11].when <=> i.category \in AUTO_ANSWERABLE_CATEGORIES /\ RagConfident(i) /\ ClassConfident(i)
      /\ RULES(i)[11].id = "R4"
      /\ RULES(i)[11].action = "auto_answer"
      /\ RULES(i)[11].reason = NONE
  BY DEF RULES, Rule
<1> USE DEF ActsByPolicy, Policy
<1>1. CASE k = 1
  BY <1>0, <1>a, <1>b, <1>c, <1>1, <1>r1
     DEF Category, HIGH_RISK_CATEGORIES, AUTO_ANSWERABLE_CATEGORIES, EscalateActions,
         Action, EscalationReason, RuleId
<1>2. CASE k = 2
  BY <1>0, <1>a, <1>b, <1>c, <1>2, <1>r1, <1>r2
     DEF Category, HIGH_RISK_CATEGORIES, AUTO_ANSWERABLE_CATEGORIES, EscalateActions,
         Action, EscalationReason, RuleId
<1>3. CASE k = 3
  BY <1>0, <1>a, <1>b, <1>c, <1>3, <1>r1, <1>r2, <1>r3
     DEF Category, HIGH_RISK_CATEGORIES, AUTO_ANSWERABLE_CATEGORIES, EscalateActions,
         Action, EscalationReason, RuleId
<1>4. CASE k = 4
  BY <1>0, <1>a, <1>b, <1>c, <1>4, <1>r1, <1>r2, <1>r3, <1>r4
     DEF Category, HIGH_RISK_CATEGORIES, AUTO_ANSWERABLE_CATEGORIES, EscalateActions,
         Action, EscalationReason, RuleId
<1>5. CASE k = 5
  BY <1>0, <1>a, <1>b, <1>c, <1>5, <1>r1, <1>r2, <1>r3, <1>r4, <1>r5
     DEF Category, HIGH_RISK_CATEGORIES, AUTO_ANSWERABLE_CATEGORIES, EscalateActions,
         Action, EscalationReason, RuleId
<1>6. CASE k = 6
  BY <1>0, <1>a, <1>b, <1>c, <1>6, <1>r1, <1>r2, <1>r3, <1>r4, <1>r5, <1>r6
     DEF Category, HIGH_RISK_CATEGORIES, AUTO_ANSWERABLE_CATEGORIES, EscalateActions,
         Action, EscalationReason, RuleId
<1>7. CASE k = 7
  BY <1>0, <1>a, <1>b, <1>c, <1>7, <1>r1, <1>r2, <1>r3, <1>r4, <1>r5, <1>r6, <1>r7
     DEF Category, HIGH_RISK_CATEGORIES, AUTO_ANSWERABLE_CATEGORIES, EscalateActions,
         Action, EscalationReason, RuleId
<1>8. CASE k = 8
  BY <1>0, <1>a, <1>b, <1>c, <1>8, <1>r1, <1>r2, <1>r3, <1>r4, <1>r5, <1>r6, <1>r7, <1>r8
     DEF Category, HIGH_RISK_CATEGORIES, AUTO_ANSWERABLE_CATEGORIES, EscalateActions,
         Action, EscalationReason, RuleId
<1>9. CASE k = 9
  BY <1>0, <1>a, <1>b, <1>c, <1>9, <1>r1, <1>r2, <1>r3, <1>r4, <1>r5, <1>r6, <1>r7, <1>r8, <1>r9
     DEF Category, HIGH_RISK_CATEGORIES, AUTO_ANSWERABLE_CATEGORIES, EscalateActions,
         Action, EscalationReason, RuleId
<1>10. CASE k = 10
  BY <1>0, <1>a, <1>b, <1>c, <1>10, <1>r1, <1>r2, <1>r3, <1>r4, <1>r5, <1>r6, <1>r7, <1>r8, <1>r9, <1>r10
     DEF Category, HIGH_RISK_CATEGORIES, AUTO_ANSWERABLE_CATEGORIES, EscalateActions,
         Action, EscalationReason, RuleId
<1>11. CASE k = 11
  BY <1>0, <1>a, <1>b, <1>c, <1>11, <1>r1, <1>r2, <1>r3, <1>r4, <1>r5, <1>r6, <1>r7, <1>r8, <1>r9, <1>r10, <1>r11
     DEF Category, HIGH_RISK_CATEGORIES, AUTO_ANSWERABLE_CATEGORIES, EscalateActions,
         Action, EscalationReason, RuleId
<1> QED
  BY <1>1, <1>2, <1>3, <1>4, <1>5, <1>6, <1>7, <1>8, <1>9, <1>10, <1>11

\* The Decision Engine has no gap and follows the policy of the design document on
\* every input: the order of the rows hides no row that should have decided, an
\* escalation carries a reason and nothing else does (decide, RULES).
THEOREM DecisionFollowsPolicy ==
  ASSUME NEW i \in DecisionInput
  PROVE  /\ Decide(i) \in Decision
         /\ Policy(i, Decide(i).action)
         /\ Decide(i).rule # "R-default"
         /\ Decide(i).reason # "llm_unavailable"
         /\ Decide(i).action \in EscalateActions <=> Decide(i).reason # NONE
         /\ Decide(i).priority = PRIORITY_CLIENT_REQUESTED <=> i.human
<1>1. PICK k \in 1..11 : k = (CHOOSE n \in 1..11 : Fires(n, i)) /\ Fires(k, i)
  BY NoGap
<1>2. ActsByPolicy(i, RULES(i)[k])
  BY <1>1, RowActsByPolicy
<1> DEFINE row == RULES(i)[k]
<1>3. Decide(i) =
        [action |-> row.action, rule |-> row.id, reason |-> row.reason,
         priority |-> IF row.id = "R1" THEN PRIORITY_CLIENT_REQUESTED ELSE PRIORITY_STANDARD]
  BY <1>1 DEF Decide
<1> HIDE DEF row
<1>4. ActsByPolicy(i, row)
  BY <1>2 DEF row
<1> QED
  BY <1>3, <1>4
     DEF ActsByPolicy, Policy, Decision, PRIORITY_CLIENT_REQUESTED, PRIORITY_STANDARD
-----------------------------------------------------------------------------
(* The pass.                                                               *)

\* What holds of the decision once it is made.
Judged ==
  decision # NONE =>
    /\ Policy(InputOfPass, decision.action)
    /\ decision.rule # "R-default"
    /\ decision.reason # "llm_unavailable"
    /\ decision.action \in EscalateActions => decision.reason # NONE

\* Where the cross-check is on, a category the baseline disputes has a confidence
\* below the threshold.
DisputeIsWeak ==
  class # NONE /\ classifier = "cross_checked" =>
    \/ class.category \in {"unclassified", reference}
    \/ class.confidence = NONE
    \/ class.confidence <= DISAGREEMENT_CONFIDENCE

\* The confidence is that of a chunk the generator reads, unless the fusion put it
\* too far behind.
Grounded == mode = "vector" \/ TOP_K <= Reads => evidence = rag

\* How far the outcome is at each node of the graph.
Progress ==
  /\ node \in {"classify", "retrieve", "decide"} => decision = NONE
  /\ node = "act" => decision # NONE
  /\ node = "down" => decision = NONE \/ decision.action = "auto_answer"
  /\ node # "done" => reply = NONE /\ escalation = NONE
  /\ reply = "answer" => decision # NONE /\ decision.action = "auto_answer"

PassInv == PassTypeOK /\ Judged /\ DisputeIsWeak /\ Grounded /\ Progress /\ OutageKeepsReason

\* The input of the decision is one the Decision Engine accepts: DecisionInput does
\* not raise on what the classifier and the retriever measure.
LEMMA InputIsValid == PassTypeOK => InputOfPass \in DecisionInput
BY DEF PassTypeOK, InputOfPass, DecisionInput, CategoryOf, Classification, Category

\* A pass begins with nothing measured and nothing decided.
LEMMA PassInitially == PassInit => PassInv
BY DEF PassInit, PassInv, PassTypeOK, Judged, DisputeIsWeak, Grounded, Progress, OutageKeepsReason

\* The relevance of a chunk is clamped to the scale of confidences, and a farther
\* chunk is no more relevant.
LEMMA RelevanceBounded ==
  ASSUME NEW d \in Nat
  PROVE  /\ Relevance(d) \in Confidence
         /\ \A f \in Nat : d <= f => Relevance(f) <= Relevance(d)
BY DEF Relevance, Confidence

\* The highest of some relevances is one of them, and there is only one.
LEMMA HighestIsUnique ==
  ASSUME NEW S \in SUBSET Confidence
  PROVE  /\ Highest(S) \subseteq Confidence \cup {NONE}
         /\ \A x, y \in Highest(S) : x = y
<1>1. CASE S = {}
  BY <1>1 DEF Highest
<1>2. CASE S # {}
  <2>1. Highest(S) = {x \in S : \A y \in S : y <= x}
    BY <1>2 DEF Highest
  <2>2. Highest(S) \subseteq Confidence
    BY <2>1
  <2>3. ASSUME NEW x \in Highest(S), NEW y \in Highest(S) PROVE x = y
    <3>1. x <= y /\ y <= x
      BY <2>1
    <3>2. x \in Nat /\ y \in Nat
      BY <2>2 DEF Confidence
    <3> QED BY <3>1, <3>2
  <2> QED BY <2>2, <2>3
<1> QED BY <1>1, <1>2

\* Each row is one of the n chunks.
LEMMA RowsAreChunks ==
  ASSUME NEW n \in Nat, NEW m \in Mode, NEW rows \in Rows(m, n)
  PROVE  /\ \A i \in DOMAIN rows : rows[i] \in 1..n
         /\ DOMAIN rows \subseteq 1..TOP_K
         /\ m = "vector" => /\ DOMAIN rows = (1..n) \cap (1..TOP_K)
                            /\ \A i \in DOMAIN rows : rows[i] = i
<1>1. CASE m = "vector"
  BY <1>1 DEF Rows, Top, Nearest
<1>2. CASE m = "hybrid"
  <2>1. PICK lexical \in Matches(n) :
          \E q \in Fused(Top(Nearest(n), CANDIDATES), Top(lexical, CANDIDATES)) :
            rows = Top(q, TOP_K)
    BY <1>2 DEF Rows
  <2> DEFINE vec == Top(Nearest(n), CANDIDATES)
             lex == Top(lexical, CANDIDATES)
             found == Range(vec) \cup Range(lex)
  <2>2. PICK q \in Fused(vec, lex) : rows = Top(q, TOP_K)
    BY <2>1
  <2>3. Range(vec) \subseteq 1..n
    BY DEF Range, Top, Nearest
  <2>4. Range(lex) \subseteq 1..n
    <3>1. PICK k \in 0..n : lexical \in Injection(1..k, 1..n)
      BY DEF Matches
    <3>2. lexical \in [1..k -> 1..n]
      BY <3>1 DEF Injection, IsInjective
    <3> QED BY <3>2 DEF Range, Top
  <2>5. q \in [1..Cardinality(found) -> found]
    BY <2>2 DEF Fused, Bijection, Injection, Surjection
  <2> HIDE DEF found, vec, lex
  <2>6. \A i \in DOMAIN rows : i \in DOMAIN q /\ i \in 1..TOP_K /\ rows[i] = q[i]
    BY <2>2 DEF Top
  <2>7. found \subseteq 1..n
    BY <2>3, <2>4 DEF found
  <2> QED BY <1>2, <2>5, <2>6, <2>7
<1> QED BY <1>1, <1>2 DEF Mode

\* What retrieve returns: two confidences, which are one if the rows come in the
\* order of their distances or are all read.
LEMMA RetrievedFits ==
  ASSUME NEW m \in Mode, NEW reads \in Nat \ {0}, NEW found \in Retrieved(m, reads)
  PROVE  /\ found.rag \in Confidence \cup {NONE}
         /\ found.evidence \in Confidence \cup {NONE}
         /\ m = "vector" \/ TOP_K <= reads => found.evidence = found.rag
<1>0. PICK n \in 0..MaxChunks :
        \E rows \in Rows(m, n), f \in Distances(n) : found \in Measured(rows, f, reads)
  BY DEF Retrieved
<1>a. n \in Nat
  BY <1>0
<1>1. PICK rows \in Rows(m, n), f \in Distances(n) : found \in Measured(rows, f, reads)
  BY <1>0
<1> DEFINE R(k) == Relevances(rows, f, k)
<1>2. PICK x \in Highest(R(TOP_K)), y \in Highest(R(reads)) : found = [rag |-> x, evidence |-> y]
  BY <1>1 DEF Measured
<1>3. f \in [1..n -> Nat] /\ \A c, d \in 1..n : c <= d => f[c] <= f[d]
  BY <1>a DEF Distances
<1>4. /\ \A i \in DOMAIN rows : rows[i] \in 1..n
      /\ DOMAIN rows \subseteq 1..TOP_K
      /\ m = "vector" => /\ DOMAIN rows = (1..n) \cap (1..TOP_K)
                         /\ \A i \in DOMAIN rows : rows[i] = i
  BY <1>a, <1>1, RowsAreChunks
<1>5. \A k \in Nat : R(k) = {Relevance(f[rows[i]]) : i \in DOMAIN rows \cap 1..k}
  BY DEF Relevances
<1>6. \A k \in Nat : R(k) \in SUBSET Confidence
  <2>1. \A i \in DOMAIN rows : Relevance(f[rows[i]]) \in Confidence
    BY <1>3, <1>4, RelevanceBounded
  <2> QED BY <1>5, <2>1
<1> HIDE DEF R
<1>7. x \in Confidence \cup {NONE} /\ y \in Confidence \cup {NONE}
  BY <1>2, <1>6, HighestIsUnique
<1>8. CASE TOP_K <= reads
  <2>1. DOMAIN rows \cap 1..TOP_K = DOMAIN rows \cap 1..reads
    BY <1>4, <1>8
  <2>2. R(TOP_K) = R(reads)
    BY <1>5, <2>1
  <2> QED BY <1>2, <1>6, <1>7, <2>2, HighestIsUnique
<1>9. CASE m = "vector"
  <2>1. CASE n = 0
    <3>1. DOMAIN rows = {}
      BY <1>4, <1>9, <2>1
    <3>2. R(TOP_K) = {} /\ R(reads) = {}
      BY <1>5, <3>1
    <3> QED BY <1>2, <3>2 DEF Highest
  <2>2. CASE n # 0
    <3> DEFINE best == Relevance(f[1])
    <3>1. 1 \in DOMAIN rows /\ rows[1] = 1
      BY <1>a, <1>4, <1>9, <2>2
    <3>2. best \in Confidence
      BY <1>3, <1>4, <3>1, RelevanceBounded
    <3>3. \A k \in Nat \ {0} : best \in R(k)
      BY <1>5, <3>1
    <3>4. \A i \in DOMAIN rows : Relevance(f[rows[i]]) <= best
      BY <1>3, <1>4, <3>1, RelevanceBounded
    <3>5. \A k \in Nat : \A z \in R(k) : z <= best
      BY <1>5, <3>4
    <3> HIDE DEF best
    <3>6. \A k \in Nat \ {0} : \A z \in Highest(R(k)) : z = best
      <4> SUFFICES ASSUME NEW k \in Nat \ {0}, NEW z \in Highest(R(k))
                   PROVE  z = best
        OBVIOUS
      <4>1. z \in R(k) /\ best <= z
        BY <3>3 DEF Highest
      <4>2. z <= best /\ z \in Confidence
        BY <1>6, <3>5, <4>1
      <4> QED BY <3>2, <4>1, <4>2 DEF Confidence
    <3> QED BY <1>2, <1>7, <3>6
  <2> QED BY <2>1, <2>2
<1> QED BY <1>2, <1>7, <1>8, <1>9

\* The cross-check changes nothing but the confidence, and that downwards.
LEMMA CrossCheckLowers ==
  ASSUME NEW label \in Category, NEW p \in Confidence, NEW ref \in Category
  PROVE  LET c == CrossChecked(LlmClassify(label, p), ref)
         IN /\ c \in Classification
            /\ \/ c.category \in {"unclassified", ref}
               \/ c.confidence = NONE
               \/ c.confidence <= DISAGREEMENT_CONFIDENCE
<1>1. CASE label \in Classifiable
  BY <1>1 DEF CrossChecked, LlmClassify, Classification, Confidence
<1>2. CASE label \notin Classifiable
  BY <1>2 DEF CrossChecked, LlmClassify, Classification, Category
<1> QED
  BY <1>1, <1>2

\* Each of the three classifiers gives a well-formed classification.
LEMMA ClassifiedFits ==
  ASSUME NEW scores, NEW base \in Baseline(scores), NEW label \in Category, NEW p \in Confidence
  PROVE  /\ base.category \in Category
         /\ Classified(base, label, p) \in Classification
         /\ classifier = "cross_checked" =>
              Classified(base, label, p) = CrossChecked(LlmClassify(label, p), base.category)
<1>1. base \in Classification
  <2>1. CASE Total(scores) = 0
    BY <2>1 DEF Baseline, Classification, Category
  <2>2. CASE Total(scores) # 0
    <3>1. base \in [category: Classifiable, confidence: Confidence]
      BY <2>2 DEF Baseline
    <3> QED
      BY <3>1 DEF Classification, Classifiable
  <2> QED
    BY <2>1, <2>2
<1>2. base.category \in Category
  BY <1>1 DEF Classification
<1>3. LlmClassify(label, p) \in Classification
  BY DEF LlmClassify, Classification, Classifiable, Category
<1>4. CrossChecked(LlmClassify(label, p), base.category) \in Classification
  BY <1>2, CrossCheckLowers
<1>5. CASE classifier = "baseline"
  BY <1>1, <1>2, <1>5 DEF Classified
<1>6. CASE classifier = "llm"
  BY <1>2, <1>3, <1>6 DEF Classified
<1>7. CASE classifier \notin {"baseline", "llm"}
  BY <1>2, <1>4, <1>7 DEF Classified
<1> QED
  BY <1>5, <1>6, <1>7

\* Every node keeps the invariant.
LEMMA PassStep == PassInv /\ [PassNext]_passVars => PassInv'
<1> SUFFICES ASSUME PassInv, [PassNext]_passVars PROVE PassInv'
  OBVIOUS
<1> USE DEF PassInv
<1>1. CASE Classify
  <2>0. PICK scores \in Scores :
          \E base \in Baseline(scores) :
            /\ reference' = IF classifier = "cross_checked" THEN base.category ELSE NONE
            /\ \E label \in Category, p \in Confidence : class' = Classified(base, label, p)
    BY <1>1 DEF Classify
  <2>1. PICK base \in Baseline(scores) :
          /\ reference' = IF classifier = "cross_checked" THEN base.category ELSE NONE
          /\ \E label \in Category, p \in Confidence : class' = Classified(base, label, p)
    BY <2>0
  <2>2. PICK label \in Category, p \in Confidence : class' = Classified(base, label, p)
    BY <2>1
  <2>3. class' \in Classification /\ reference' \in Category \cup {NONE}
    BY <2>1, <2>2, ClassifiedFits
  <2>4. ASSUME classifier = "cross_checked"
        PROVE  \/ class'.category \in {"unclassified", reference'}
               \/ class'.confidence = NONE
               \/ class'.confidence <= DISAGREEMENT_CONFIDENCE
    <3>1. base.category \in Category
      BY ClassifiedFits
    <3>2. class' = CrossChecked(LlmClassify(label, p), base.category)
      BY <2>2, <2>4, ClassifiedFits
    <3> QED
      BY <2>1, <2>4, <3>1, <3>2, CrossCheckLowers
  <2>5. DisputeIsWeak' /\ Grounded'
    BY <1>1, <2>4 DEF Classify, DisputeIsWeak, Grounded, Reads, inputVars
  <2> QED
    BY <1>1, <2>3, <2>5
       DEF Classify, PassTypeOK, Judged, Progress, OutageKeepsReason, inputVars, outcomeVars
<1>2. CASE Retrieve
  <2>1. PICK found \in Retrieved(mode, Reads) : rag' = found.rag /\ evidence' = found.evidence
    BY <1>2 DEF Retrieve
  <2>2. mode \in Mode /\ Reads \in Nat \ {0}
    BY DEF PassTypeOK, Reads
  <2>3. /\ rag' \in Confidence \cup {NONE} /\ evidence' \in Confidence \cup {NONE}
        /\ mode = "vector" \/ TOP_K <= Reads => evidence' = rag'
    BY <2>1, <2>2, RetrievedFits
  <2>4. Grounded'
    BY <1>2, <2>3 DEF Retrieve, Grounded, Reads, inputVars
  <2> QED
    BY <1>2, <2>3, <2>4
       DEF Retrieve, PassTypeOK, Judged, DisputeIsWeak, Progress, OutageKeepsReason,
           inputVars, outcomeVars
<1>3. CASE DecideNode
  <2>1. InputOfPass \in DecisionInput /\ InputOfPass' = InputOfPass
    BY <1>3, InputIsValid DEF DecideNode, InputOfPass, inputVars, measureVars
  <2>2. /\ decision' \in Decision
        /\ Policy(InputOfPass, decision'.action)
        /\ decision'.rule # "R-default"
        /\ decision'.reason # "llm_unavailable"
        /\ decision'.action \in EscalateActions => decision'.reason # NONE
    BY <1>3, <2>1, DecisionFollowsPolicy DEF DecideNode
  <2>3. decision' # NONE
    BY <2>2
  <2> QED
    BY <1>3, <2>1, <2>2, <2>3
       DEF DecideNode, PassTypeOK, Judged, DisputeIsWeak, Grounded, Reads, Progress,
           OutageKeepsReason, inputVars, measureVars, outcomeVars
<1> DEFINE Kept == UNCHANGED <<inputVars, measureVars, decision>>
<1>a. Kept => Judged' /\ DisputeIsWeak' /\ Grounded'
  BY DEF Judged, DisputeIsWeak, Grounded, Reads, InputOfPass, inputVars, measureVars
<1>b. decision # NONE => decision.action \in Action /\ decision.reason \in EscalationReason \cup {NONE}
  BY DEF PassTypeOK, Decision
<1>4. CASE AutoAnswer
  BY <1>4, <1>a, <1>b
     DEF AutoAnswer, Reply, StatusByAction, PassTypeOK, Progress, OutageKeepsReason,
         inputVars, measureVars
<1>5. CASE Clarify
  BY <1>5, <1>a, <1>b
     DEF Clarify, Reply, StatusByAction, PassTypeOK, Progress, OutageKeepsReason,
         inputVars, measureVars
<1>6. CASE Escalate
  <2>1. PICK draft \in BOOLEAN :
          EscalateWith(draft) /\ (CategoryOf(class) \in HIGH_RISK_CATEGORIES => ~draft)
    BY <1>6 DEF Escalate, Drafts, Draftable
  <2>2. /\ decision # NONE
        /\ decision.action \in EscalateActions
        /\ decision.reason \in EscalationReason \ {"llm_unavailable"}
    BY <1>6, <1>b DEF Escalate, Progress, Judged
  <2>3. escalation' = [reason |-> decision.reason, draft |-> draft]
    BY <2>1 DEF EscalateWith
  <2>4. ticketStatus' \in Escalated
    BY <2>1, <2>2 DEF EscalateWith, StatusByAction, EscalateActions, Escalated
  <2>5. Kept /\ node' = "done" /\ reply' = reply
    BY <2>1 DEF EscalateWith
  <2>6. escalation' \in Escalation
    BY <2>2, <2>3 DEF Escalation
  <2>7. PassTypeOK'
    BY <2>4, <2>5, <2>6 DEF PassTypeOK, inputVars, measureVars
  <2>8. OutageKeepsReason'
    BY <2>1, <2>2, <2>3, <2>5 DEF OutageKeepsReason, CategoryOf, measureVars
  <2> QED
    BY <1>6, <1>a, <2>5, <2>7, <2>8 DEF Escalate, Progress
<1>7. CASE LlmFails
  BY <1>7, <1>a
     DEF LlmFails, Raises, PassTypeOK, Progress, OutageKeepsReason, inputVars, measureVars,
         outcomeVars
<1>8. CASE EscalateUnavailable
  BY <1>8, <1>a
     DEF EscalateUnavailable, UnavailableEscalation, PassTypeOK, Progress, OutageKeepsReason,
         inputVars, measureVars, Escalated, Escalation, EscalationReason, EscalateActions
<1>9. CASE UNCHANGED passVars
  BY <1>9, <1>a
     DEF passVars, PassTypeOK, Progress, OutageKeepsReason, inputVars, measureVars, outcomeVars
<1> QED
  BY <1>1, <1>2, <1>3, <1>4, <1>5, <1>6, <1>7, <1>8, <1>9 DEF PassNext

\* The inductive invariant of a pass.
LEMMA PassInvariant == PassSpec => []PassInv
BY PassInitially, PassStep, PTL DEF PassSpec

\* The variables of a pass keep their types: no measurement, outage or decision
\* takes a pass to a value the code does not know.
THEOREM PassTypeCorrect == PassSpec => []PassTypeOK
<1>1. PassInv => PassTypeOK
  BY DEF PassInv
<1> QED
  BY <1>1, PassInvariant, PTL

\* A pass acts by the policy of the decision table, for all thresholds.
THEOREM PassFollowsPolicy == PassSpec => []PolicyFollowed
<1>1. PassInv => PolicyFollowed
  BY DEF PassInv, Judged, PolicyFollowed
<1> QED
  BY <1>1, PassInvariant, PTL

\* An automatic answer goes out only on an FAQ, with both confidences at their
\* thresholds and, cross-checked, with the consent of the baseline classifier, for all
\* thresholds that the factory accepts.
THEOREM AutoAnswerIsEvidenced == PassSpec => []AnswerIsEvidenced
<1>1. PassInv => AnswerIsEvidenced
  <2> SUFFICES ASSUME PassInv, reply = "answer" PROVE AnswerIsEvidenced
    BY DEF AnswerIsEvidenced
  <2>1. Policy(InputOfPass, "auto_answer")
    BY DEF PassInv, Progress, Judged
  <2>2. /\ ~human /\ CategoryOf(class) = "faq"
        /\ rag \in RAG_CONFIDENCE..SCALE
        /\ InputOfPass.class \in CLASS_CONFIDENCE..SCALE
    BY <2>1 DEF Policy, Evidenced, InputOfPass
  <2>3. class # NONE /\ class.category = "faq"
    BY <2>2 DEF CategoryOf
  <2>4. class.confidence \in CLASS_CONFIDENCE..SCALE
    BY <2>2, <2>3 DEF InputOfPass
  <2>5. class.confidence # NONE /\ ~(class.confidence <= DISAGREEMENT_CONFIDENCE)
    BY <2>4 DEF Confidence
  <2>6. classifier = "cross_checked" => reference = "faq"
    BY <2>3, <2>5 DEF PassInv, DisputeIsWeak
  <2> QED
    BY <2>2, <2>3, <2>4, <2>6 DEF AnswerIsEvidenced
<1> QED
  BY <1>1, PassInvariant, PTL

\* The generator of an automatic answer has read a chunk that is relevant enough, for
\* all sizes of the knowledge base and of the lists, unless the fusion's order hides
\* it behind what the generator reads.
THEOREM AutoAnswerIsGrounded == PassSpec => []AnswerIsGrounded
<1>1. PassInv /\ AnswerIsEvidenced => AnswerIsGrounded
  BY DEF PassInv, Grounded, AnswerIsEvidenced, AnswerIsGrounded
<1> QED
  BY <1>1, PassInvariant, AutoAnswerIsEvidenced, PTL

\* An LLM outage does not replace a reason the Decision Engine gave, and complaints
\* and refunds never carry a draft.
THEOREM OutageHidesNothing == PassSpec => []OutageKeepsReason
<1>1. PassInv => OutageKeepsReason
  BY DEF PassInv
<1> QED
  BY <1>1, PassInvariant, PTL
=============================================================================
