---------------------------- MODULE MCPostCache ----------------------------
(* PostCache with two requests at a time.                                  *)
EXTENDS PostCache, TLC

CONSTANTS h1, h2

RequestSymmetry == Permutations(Handlers)
=============================================================================
