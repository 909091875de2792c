--------------------------- MODULE MCSelfEmission ---------------------------
(* Small instances of SelfEmission for TLC.                                *)
EXTENDS SelfEmission, TLC

CONSTANTS r1, r2, r3, p1, p2

MCSymmetry == Permutations(Requests) \cup Permutations(Purchases)
=============================================================================
