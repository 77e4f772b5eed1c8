----------------------------- MODULE Retrieval -----------------------------
(***************************************************************************)
(* The search of the knowledge base for a pass of the agent                *)
(* (app/services/retrieval.py): the nearest versions, or in hybrid mode    *)
(* the fusion of the nearest and of those that match the words, and the    *)
(* confidence made of them.                                                *)
(*                                                                         *)
(* A chunk stands for a version that can be found at all (the current one  *)
(* of a document, embedded by the model of the application) and is named   *)
(* by its place when all are ordered by their cosine distance.  Distances  *)
(* are whole steps of 0.0 .. 1.0, SCALE of them, and one that stands for   *)
(* all up to 2.0.  Versions with an undefined distance come last in that   *)
(* order and are dropped: they are left out from the beginning.  What the  *)
(* text search finds, and in which order, is chosen freely.                *)
(***************************************************************************)
EXTENDS DecisionEngine, FiniteSets, FiniteSetsExt, Functions

CONSTANTS
  TOP_K,        \* rag_top_k
  CANDIDATES,   \* rag_candidates
  RRF_K,
  RRF_UNIT,     \* 1.0 of the fusion's scores, in parts that make 1 / (RRF_K + rank) whole
  MaxChunks     \* bound: chunks in the knowledge base

\* Retriever takes at least top_k candidates.
ASSUME RetrievalAssumption ==
  /\ TOP_K \in Nat \ {0} /\ CANDIDATES \in Nat /\ TOP_K <= CANDIDATES
  /\ RRF_K \in Nat /\ RRF_UNIT \in Nat
  /\ \A rank \in 1..CANDIDATES : RRF_UNIT % (RRF_K + rank) = 0
  /\ MaxChunks \in Nat

Mode == {"vector", "hybrid"}
-----------------------------------------------------------------------------
\* Faulty: the bounds of the cosine distance are forgotten.
RelevanceUnclamped(distance) == SCALE - distance

\* relevance_score of a chunk, from a cosine distance that may reach 2.0.
Relevance(distance) == IF distance <= SCALE THEN SCALE - distance ELSE 0

\* The first n of a ranking.
Top(ranking, n) == [i \in DOMAIN ranking \cap 1..n |-> ranking[i]]

\* Faulty: ordered as if a large number were a near one.
NearestLast(n) == [i \in 1..n |-> n + 1 - i]

\* ORDER BY distance, over n chunks.
Nearest(n) == [i \in 1..n |-> i]

\* What the text search may find among n chunks.
Matches(n) == UNION {Injection(1..m, 1..n) : m \in 0..n}

\* The place of c in a ranking, 0 if it is not there.
Rank(ranking, c) ==
  IF c \in Range(ranking) THEN CHOOSE i \in DOMAIN ranking : ranking[i] = c ELSE 0

\* 1 / (RRF_K + rank) for each ranking that has c.
Score(vector, lexical, c) ==
  LET Part(rank) == IF rank = 0 THEN 0 ELSE RRF_UNIT \div (RRF_K + rank)
  IN Part(Rank(vector, c)) + Part(Rank(lexical, c))

BestRank(vector, lexical, c) == Min({Rank(vector, c), Rank(lexical, c)} \ {0})

\* The key of the sort puts c before d; else their ids do.
Precedes(vector, lexical, c, d) ==
  LET s == Score(vector, lexical, c) - Score(vector, lexical, d)
  IN s > 0 \/ (s = 0 /\ BestRank(vector, lexical, c) < BestRank(vector, lexical, d))

\* rrf_fuse: the chunks of both rankings in the order of their scores.
Fused(vector, lexical) ==
  LET found == Range(vector) \cup Range(lexical)
  IN {q \in Bijection(1..Cardinality(found), found) :
        \A i, j \in DOMAIN q : i < j => ~Precedes(vector, lexical, q[j], q[i])}

\* The rows that retrieve makes its chunks of, one ranking for every order that the
\* words and the ids may give.
Rows(mode, n) ==
  IF mode = "vector" THEN {Top(Nearest(n), TOP_K)}
  ELSE {Top(q, TOP_K) :
          q \in UNION {Fused(Top(Nearest(n), CANDIDATES), Top(lexical, CANDIDATES)) :
                         lexical \in Matches(n)}}

Highest(S) == IF S = {} THEN {NONE} ELSE {x \in S : \A y \in S : y <= x}

\* The distances of n chunks in their order.
Distances(n) ==
  {f \in [1..n -> 0..(SCALE + 1)] : \A c, d \in 1..n : c <= d => f[c] <= f[d]}

\* relevance_score of the first n rows.
Relevances(rows, f, n) == {Relevance(f[rows[i]]) : i \in DOMAIN rows \cap 1..n}

\* rag_confidence of the rows, and the highest relevance among those that a generator
\* reads, which takes the first few of them.
Measured(rows, f, reads) ==
  {[rag |-> x, evidence |-> y] :
     x \in Highest(Relevances(rows, f, TOP_K)), y \in Highest(Relevances(rows, f, reads))}

\* What retrieve may return.  No chunk, as for a text without words, leaves the
\* confidence unmeasured.
Retrieved(mode, reads) ==
  UNION {UNION {Measured(rows, f, reads) : rows \in Rows(mode, n), f \in Distances(n)} :
           n \in 0..MaxChunks}
=============================================================================
