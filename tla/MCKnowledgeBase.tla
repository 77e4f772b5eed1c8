-------------------------- MODULE MCKnowledgeBase --------------------------
(* The knowledge base for TLC: requests differ in nothing but their steps.  *)
EXTENDS KnowledgeBase, TLC

RequestSymmetry == Permutations(Request)
=============================================================================
