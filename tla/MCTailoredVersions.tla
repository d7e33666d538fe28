------------------------- MODULE MCTailoredVersions --------------------------
(* Five symmetric requests, one more than it takes to exhaust three tries.  *)
EXTENDS TailoredVersions, TLC

CONSTANTS w1, w2, w3, w4, w5

FiveWriters == {w1, w2, w3, w4, w5}
WriterSymmetry == Permutations(FiveWriters)
=============================================================================
