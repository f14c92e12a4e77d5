------------------------- MODULE MCCounterPipeline -------------------------
(* CounterPipeline on small instances. *)
EXTENDS CounterPipeline, TLC

CONSTANTS p1, r1, r2

MCPostOf == [r \in Rows |-> p1]

RowSymmetry == Permutations(Rows)
=============================================================================
