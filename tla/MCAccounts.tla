---------------------------- MODULE MCAccounts ----------------------------
(* Instances of Accounts for TLC. *)
EXTENDS Accounts

\* A session pays for the account of the first device.
SamePayer == [x \in Sessions |-> <<"k1", "f1">>]
Amounts == [x \in Sessions |-> 1]
OneOwner == {"k1"} \X Fingerprints
=============================================================================
