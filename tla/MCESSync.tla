------------------------------ MODULE MCESSync ------------------------------
(* ESSync with two instances and three events: the second is poison, the   *)
(* third is in the next binlog file, at a lower position than the first.   *)
EXTENDS ESSync

CONSTANTS i1, i2

MCVersionOf ==
  [e \in Events |-> IF e < 3 THEN [seq |-> 1, pos |-> 4 + e] ELSE [seq |-> 2, pos |-> 4]]
=============================================================================
