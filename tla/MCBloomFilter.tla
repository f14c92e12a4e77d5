--------------------------- MODULE MCBloomFilter ---------------------------
(* BloomFilter with two instances, three posts, pages of one id, a reader.   *)
EXTENDS BloomFilter

CONSTANTS i1, i2, h1
=============================================================================
