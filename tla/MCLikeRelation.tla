--------------------------- MODULE MCLikeRelation ---------------------------
(* LikeRelation with two likes and two unlikes. *)
EXTENDS LikeRelation, TLC

CONSTANTS l1, l2, u1, u2

MCOpOf == [h \in Handlers |-> IF h \in {l1, l2} THEN "like" ELSE "unlike"]

OpSymmetry == Permutations({l1, l2}) \cup Permutations({u1, u2})
=============================================================================
