--------------------------- MODULE MCSettlement ---------------------------
(* Instances of Settlement for TLC. *)
EXTENDS Settlement, TLC

CONSTANTS alice, bob, oracle, t1, t2

\* One user pays for both jobs, and provides for both.
OneConsumer == [w \in Wallets |-> IF w = oracle THEN 0 ELSE 40]

\* Tasks are interchangeable.
Symmetry == Permutations({t1, t2})

\* Job ids of 3 and 36 bytes: with and without room in the last word.
Names == [j \in JobIds |-> [i \in 1 .. (IF j = 1 THEN 36 ELSE 3) |-> 96 + ((i + j) % 26)]]
Address == [i \in 1 .. 20 |-> i % 3]
Half(b) == [i \in 1 .. 32 |-> (b + i) % 256]
\* Ordinary ones with either recovery id, and one whose r starts with a zero.
Sigs == {[v |-> 0, r |-> Half(200), s |-> Half(77)],
         [v |-> 1, r |-> Half(30), s |-> Half(130)],
         [v |-> 1, r |-> Half(255), s |-> Half(12)]}

Configured == [ledger_url |-> TRUE, coordinator_secret |-> "s", ledger_secret |-> "s",
               escrow_address |-> TRUE, oracle_pk |-> TRUE]
AllDeployments == {Configured,
                   [Configured EXCEPT !.escrow_address = FALSE],
                   [Configured EXCEPT !.ledger_secret = ""],
                   [Configured EXCEPT !.ledger_url = FALSE]}
=============================================================================
