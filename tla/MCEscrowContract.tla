------------------------- MODULE MCEscrowContract -------------------------
(* Instances of EscrowContract for TLC. *)
EXTENDS EscrowContract

CONSTANTS alice, bob, oracle

\* Either of two users may be the consumer.
TwoFunded == [w \in Wallets |-> IF w = oracle THEN 0 ELSE 20]
=============================================================================
