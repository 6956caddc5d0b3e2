-------------------------- MODULE MCLedgerService --------------------------
(* Instances of LedgerService for TLC. *)
EXTENDS LedgerService, TLC

CONSTANTS alice, bob, e1, e2, e3, s1, s2

\* alice runs a job on bob's machine, and bob one on hers; a third escrow of
\* alice's was asked for with a negative amount.
MCConsumer == [e \in Escrows |-> IF e = e2 THEN bob ELSE alice]
MCProvider == [e \in Escrows |-> IF e = e2 THEN alice ELSE bob]
MCLocked   == [e \in Escrows |-> IF e = e3 THEN -50 ELSE 100]

\* What a release reports: a cost above the amount, and one below zero.
MCCosts == {150, -50}

Symmetry == Permutations({s1, s2})
=============================================================================
