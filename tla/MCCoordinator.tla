--------------------------- MODULE MCCoordinator ---------------------------
(* Instances of Coordinator for TLC. *)
EXTENDS Coordinator, TLC

CONSTANTS p1, p2, c1, s1, s2

OneConsumer  == [j \in Jobs |-> c1]
AllFit       == [j \in Jobs |-> Providers]

\* Each provider fits one job: the older job may wait while the younger fits.
OneEach      == [j \in Jobs |-> IF j = 1 THEN {p1} ELSE {p2}]

\* Jobs that cost nothing, for the runs that are not about credits.
FreeCost     == [j \in Jobs |-> 0]
FreeBills    == [j \in Jobs |-> {0}]

\* Jobs of cost 2, billed in part or in full.
TwoCost      == [j \in Jobs |-> 2]
TwoBills     == [j \in Jobs |-> {1, 2}]

Symmetry == Permutations({p1, p2})
=============================================================================
