-------------------------- MODULE AbstractEscrow --------------------------
(***************************************************************************)
(* What a job escrow promises on either chain, without wallets, tokens,    *)
(* fees settings or time: a deposit is taken once, stays in the vault      *)
(* until the job ends, and leaves it completely and only once, as the cost *)
(* (a capped part of it the platform's fee) and the consumer's refund, or  *)
(* as a full refund.  Where Strays is TRUE an escrow may also end stranded:*)
(* a part of the deposit is left in the vault and stays there for ever.    *)
(* contracts/evm/src/Escrow.sol implements it without strays, the Solana   *)
(* program with them.                                                      *)
(***************************************************************************)
EXTENDS Integers

CONSTANTS JobIds, Amounts,
          Strays   \* whether an escrow can end with its vault not emptied

VARIABLE escrow   \* per job: phase, deposit, what the vault holds, cost and fee

NoEscrow == [phase |-> "None", deposit |-> 0, vault |-> 0, cost |-> 0, fee |-> 0]

Init == escrow = [j \in JobIds |-> NoEscrow]

Create(j) ==
  /\ escrow[j] = NoEscrow
  /\ \E amount \in Amounts :
       escrow' = [escrow EXCEPT ![j] =
                    [phase |-> "Open", deposit |-> amount, vault |-> amount, cost |-> 0, fee |-> 0]]

Lock(j) ==
  LET d == escrow[j].deposit IN
  /\ escrow[j] = [phase |-> "Open", deposit |-> d, vault |-> d, cost |-> 0, fee |-> 0]
  /\ escrow' = [escrow EXCEPT ![j] =
                  [phase |-> "Locked", deposit |-> d, vault |-> d, cost |-> 0, fee |-> 0]]

\* The provider is paid cost - fee, the consumer gets deposit - cost back.
Release(j) ==
  LET d == escrow[j].deposit IN
  /\ escrow[j] = [phase |-> "Locked", deposit |-> d, vault |-> d, cost |-> 0, fee |-> 0]
  /\ \E fee \in 0 .. (d \div 10) : \E cost \in (10 * fee) .. d :
       escrow' = [escrow EXCEPT ![j] =
                    [phase |-> "Settled", deposit |-> d, vault |-> 0, cost |-> cost, fee |-> fee]]

Cancel(j) ==
  LET d == escrow[j].deposit IN
  /\ escrow[j].phase \in {"Open", "Locked"} /\ escrow[j].vault = d
  /\ escrow' = [escrow EXCEPT ![j] =
                  [phase |-> "Cancelled", deposit |-> d, vault |-> 0, cost |-> 0, fee |-> 0]]

\* The job ends and the rest of the deposit can never be moved again.
Strand(j) ==
  LET d == escrow[j].deposit IN
  /\ Strays
  /\ escrow[j].phase \in {"Open", "Locked"} /\ escrow[j].vault = d
  /\ escrow' = [escrow EXCEPT ![j] = escrow'[j]]
  /\ escrow'[j] \in [phase : {"Stranded"}, deposit : {d}, vault : 0 .. d, cost : 0 .. d, fee : 0 .. d]
  /\ 10 * escrow'[j].fee <= escrow'[j].cost

Next == \E j \in JobIds : Create(j) \/ Lock(j) \/ Release(j) \/ Cancel(j) \/ Strand(j)

Spec == Init /\ [][Next]_escrow
=============================================================================
