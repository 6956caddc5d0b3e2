------------------------ MODULE MCMilestoneRewards ------------------------
(* Instances of MilestoneRewards for TLC. *)
EXTENDS MilestoneRewards

CONSTANTS p1, p2, s1, s2
=============================================================================
