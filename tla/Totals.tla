------------------------------- MODULE Totals -------------------------------
(* The sum of f[x] over the elements x of S, for the properties about money. *)
EXTENDS Integers, FiniteSetsExt

Total(f, S) == MapThenSumSet(LAMBDA x : f[x], S)
=============================================================================
