------------------------------- MODULE MCQuota -------------------------------
(* Four requests against a cap of two, and three refunds, over two days.    *)
EXTENDS Quota, TLC

CONSTANTS c1, c2, c3, c4, r1, r2, r3

FourCalls == {c1, c2, c3, c4}
ThreeRefunds == {r1, r2, r3}
QuotaSymmetry == Permutations(FourCalls) \cup Permutations(ThreeRefunds)
=============================================================================
