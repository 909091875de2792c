---------------------------- MODULE MCLeveling ----------------------------
(* A small instance of Leveling for TLC: the welcome mission and two        *)
(* missions for certificates, of one and of two events.  Rewards and the    *)
(* threshold of a level are scaled down.                                   *)
EXTENDS Leveling, TLC

CONSTANTS welcome, first, second, e1, e2, v1

MCRequired == [m \in Missions |-> IF m = second THEN 2 ELSE 1]
MCReward   == [m \in Missions |-> IF m = welcome THEN 1 ELSE IF m = first THEN 2 ELSE 3]
MCTypeOf   == [x \in Missions \cup Events |->
                 IF x = welcome THEN "COURSE_COMPLETION" ELSE "CERTIFICATE_EMISSION"]

MCSymmetry == Permutations(Events) \cup Permutations(Views)
=============================================================================
