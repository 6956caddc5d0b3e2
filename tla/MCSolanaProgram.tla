-------------------------- MODULE MCSolanaProgram --------------------------
(* Instances of SolanaProgram for TLC. *)
EXTENDS SolanaProgram, TLC

CONSTANTS j1, j2, w1, w2, p1

\* Jobs and wallets are interchangeable; the properties are safety properties.
Symmetry == Permutations({j1, j2}) \cup Permutations({w1, w2})
=============================================================================
