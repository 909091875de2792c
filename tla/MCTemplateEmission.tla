------------------------- MODULE MCTemplateEmission -------------------------
(* Small instances of TemplateEmission for TLC: every issue is for the same *)
(* student, who signs up or is approved once per claim.                     *)
EXTENDS TemplateEmission, TLC

CONSTANTS d1, i1, i2, i3, e1, x1, c1

MCDocOf == [i \in Issues |-> d1]
MCClaimDoc == [c \in Claims |-> d1]

MCSymmetry == Permutations(Issues) \cup Permutations(Edits) \cup Permutations(Claims)
=============================================================================
