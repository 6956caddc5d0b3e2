-------------------------- MODULE EscrowContract --------------------------
(***************************************************************************)
(* The on-chain escrow of contracts/evm/src/Escrow.sol together with the   *)
(* NMC balances it moves.  A transaction is one atomic step; one that      *)
(* reverts changes nothing and is not a step.  Who holds a ProviderNFT,    *)
(* the block time and tokens sent to the contract are the environment's.   *)
(***************************************************************************)
EXTENDS Integers, FiniteSets, Totals

CONSTANTS
  JobIds,        \* keccak256 of the off-chain job ids
  Wallets,       \* externally owned accounts
  Oracles,       \* wallets with ORACLE_ROLE
  This,          \* the contract's own address
  NoOne,         \* address(0)
  Amounts,       \* what a consumer may lock
  Costs,         \* what an oracle may report
  Durations,     \* maxDurationSecs, in blocks of the model
  Fees,          \* fees an admin tries to set, in basis points
  Collectors,    \* addresses an admin makes the fee collector
  Funds,         \* Funds[w]: opening balance of a wallet
  MaxTime        \* bound on the block time

ASSUME EscrowAssumption ==
  /\ Oracles \subseteq Wallets /\ Collectors \subseteq Wallets \cup {This, NoOne}
  /\ This \notin Wallets /\ NoOne \notin Wallets \cup {This} /\ IsFiniteSet(JobIds)
  /\ Amounts \subseteq Nat /\ Costs \subseteq Nat /\ Durations \subseteq Nat /\ Fees \subseteq Nat
  /\ Funds \in [Wallets -> Nat] /\ MaxTime \in Nat

MAX_FEE_BPS == 1000

VARIABLES
  jobs,            \* mapping jobId -> Job
  balance,         \* NMC balances
  platformFeeBps, feeCollector,
  verified,        \* wallets for which providerNft.isProvider holds
  time,            \* block.timestamp
  paid_in, paid_out \* history: NMC moved into and out of the contract for a job

config == <<platformFeeBps, feeCollector>>
vars   == <<jobs, balance, config, verified, time, paid_in, paid_out>>

\* The default value of a storage slot: createdAt = 0.
NoJob == [state |-> "None", consumer |-> NoOne, provider |-> NoOne, lockedNmc |-> 0,
          duration |-> 0, deadline |-> 0, actualCost |-> 0, feeCollected |-> 0]

Job == [state : {"None", "Open", "Locked", "Settled", "Cancelled"},
        consumer : Wallets \cup {NoOne}, provider : Wallets \cup {NoOne}, lockedNmc : Nat,
        duration : Nat, deadline : Nat, actualCost : Nat, feeCollected : Nat]

TypeOK ==
  /\ jobs \in [JobIds -> Job]
  /\ balance \in [Wallets \cup {This} -> Int]
  /\ platformFeeBps \in 0 .. MAX_FEE_BPS
  /\ feeCollector \in Collectors
  /\ verified \in SUBSET Wallets
  /\ time \in Nat
  /\ paid_in \in [JobIds -> Nat]
  /\ paid_out \in [JobIds -> Nat]
  /\ \A j \in JobIds : jobs[j].state # "None" => jobs[j].consumer \in Wallets /\ jobs[j].provider \in Wallets

Init ==
  /\ jobs = [j \in JobIds |-> NoJob]
  /\ balance = [w \in Wallets \cup {This} |-> IF w = This THEN 0 ELSE Funds[w]]
  /\ platformFeeBps \in {f \in Fees : f <= MAX_FEE_BPS}
  /\ feeCollector \in Collectors
  /\ verified = {}
  /\ time = 1
  /\ paid_in = [j \in JobIds |-> 0]
  /\ paid_out = [j \in JobIds |-> 0]

\* The job's money is in the contract.
Live(j) == jobs[j].state \in {"Open", "Locked"}

\* ERC-20 transfer; sender and recipient may be the same.
Moved(b, from, to, amount) ==
  IF from = to THEN b ELSE [b EXCEPT ![from] = @ - amount, ![to] = @ + amount]

\* "if (amount > 0) nmc.transfer(to, amount)", from the contract's tokens.
Paid(b, to, amount) == IF amount > 0 THEN Moved(b, This, to, amount) ELSE b

-----------------------------------------------------------------------------
(* The contract's functions; the caller is the parameter sender. *)

createEscrow(j, sender, provider, amount, duration) ==
  /\ jobs[j].state = "None"
  /\ provider \in verified
  /\ balance[sender] >= amount
  /\ balance' = Moved(balance, sender, This, amount)
  /\ jobs' = [jobs EXCEPT ![j] = [state |-> "Open", consumer |-> sender, provider |-> provider,
                                  lockedNmc |-> amount, duration |-> duration, deadline |-> 0,
                                  actualCost |-> 0, feeCollected |-> 0]]
  /\ paid_in' = [paid_in EXCEPT ![j] = @ + amount]
  /\ UNCHANGED <<config, verified, time, paid_out>>

\* MaxTime lies beyond every deadline: the model does not stop before it.
lockEscrow(j, sender) ==
  /\ time + jobs[j].duration < MaxTime
  /\ jobs[j].state = "Open"
  /\ sender = jobs[j].provider /\ sender \in verified
  /\ jobs' = [jobs EXCEPT ![j] = [@ EXCEPT !.state = "Locked",
                                              !.deadline = time + jobs[j].duration]]
  /\ UNCHANGED <<balance, config, verified, time, paid_in, paid_out>>

Fee(cost) == (cost * platformFeeBps) \div 10000

\* Mutant: a settled job can be settled again.
releaseEscrow_again(j, sender, cost) ==
  LET job == jobs[j]
      fee == Fee(cost) IN
  /\ sender \in Oracles
  /\ job.state \in {"Locked", "Settled"}
  /\ cost <= job.lockedNmc
  /\ fee > 0 => feeCollector # NoOne
  /\ balance[This] >= job.lockedNmc
  /\ jobs' = [jobs EXCEPT ![j] = [@ EXCEPT !.state = "Settled", !.actualCost = cost,
                                              !.feeCollected = fee]]
  /\ balance' = Paid(Paid(Paid(balance, job.provider, cost - fee), feeCollector, fee),
                     job.consumer, job.lockedNmc - cost)
  /\ paid_out' = [paid_out EXCEPT ![j] = @ + (cost - fee) + fee + (job.lockedNmc - cost)]
  /\ UNCHANGED <<config, verified, time, paid_in>>

\* Mutant: the provider is paid all that is locked, whatever the job cost.
releaseEscrow_full(j, sender, cost) ==
  LET job == jobs[j]
      fee == Fee(job.lockedNmc) IN
  /\ sender \in Oracles
  /\ job.state = "Locked"
  /\ cost <= job.lockedNmc
  /\ fee > 0 => feeCollector # NoOne
  /\ balance[This] >= job.lockedNmc
  /\ jobs' = [jobs EXCEPT ![j] = [@ EXCEPT !.state = "Settled", !.actualCost = job.lockedNmc,
                                              !.feeCollected = fee]]
  /\ balance' = Paid(Paid(balance, job.provider, job.lockedNmc - fee), feeCollector, fee)
  /\ paid_out' = [paid_out EXCEPT ![j] = @ + job.lockedNmc]
  /\ UNCHANGED <<config, verified, time, paid_in>>

\* A transfer of more than the balance reverts, and one to address(0).
releaseEscrow(j, sender, cost) ==
  LET job == jobs[j]
      fee == Fee(cost) IN
  /\ sender \in Oracles
  /\ job.state = "Locked"
  /\ cost <= job.lockedNmc
  /\ fee > 0 => feeCollector # NoOne
  /\ balance[This] >= job.lockedNmc
  /\ jobs' = [jobs EXCEPT ![j] = [@ EXCEPT !.state = "Settled", !.actualCost = cost,
                                              !.feeCollected = fee]]
  /\ balance' = Paid(Paid(Paid(balance, job.provider, cost - fee), feeCollector, fee),
                     job.consumer, job.lockedNmc - cost)
  /\ paid_out' = [paid_out EXCEPT ![j] = @ + (cost - fee) + fee + (job.lockedNmc - cost)]
  /\ UNCHANGED <<config, verified, time, paid_in>>

\* Mutant: past the deadline, too, only the consumer and the oracle may cancel.
MayCancel_parties(j, sender) ==
  LET job == jobs[j] IN
  Live(j) /\ (sender = job.consumer \/ sender \in Oracles)

\* Who may cancel, and when.
MayCancel(j, sender) ==
  LET job == jobs[j] IN
  \/ job.state = "Open" /\ (sender = job.consumer \/ sender \in Oracles)
  \/ job.state = "Locked" /\ (time > job.deadline \/ sender = job.consumer \/ sender \in Oracles)

\* Mutant: the state is not changed before the refund.
cancelEscrow_open(j, sender) ==
  /\ MayCancel(j, sender)
  /\ balance[This] >= jobs[j].lockedNmc
  /\ balance' = Moved(balance, This, jobs[j].consumer, jobs[j].lockedNmc)
  /\ paid_out' = [paid_out EXCEPT ![j] = @ + jobs[j].lockedNmc]
  /\ UNCHANGED <<jobs, config, verified, time, paid_in>>

cancelEscrow(j, sender) ==
  /\ MayCancel(j, sender)
  /\ balance[This] >= jobs[j].lockedNmc
  /\ jobs' = [jobs EXCEPT ![j] = [@ EXCEPT !.state = "Cancelled"]]
  /\ balance' = Moved(balance, This, jobs[j].consumer, jobs[j].lockedNmc)
  /\ paid_out' = [paid_out EXCEPT ![j] = @ + jobs[j].lockedNmc]
  /\ UNCHANGED <<config, verified, time, paid_in>>

\* Mutant: the cap is not checked.
setFee_uncapped(f) ==
  /\ platformFeeBps' = f
  /\ UNCHANGED <<feeCollector, jobs, balance, verified, time, paid_in, paid_out>>

setFee(f) ==
  /\ f <= MAX_FEE_BPS
  /\ platformFeeBps' = f
  /\ UNCHANGED <<feeCollector, jobs, balance, verified, time, paid_in, paid_out>>

setFeeCollector(w) ==
  /\ feeCollector' = w
  /\ UNCHANGED <<platformFeeBps, jobs, balance, verified, time, paid_in, paid_out>>

-----------------------------------------------------------------------------
(* The environment *)

\* ProviderNFT mints to a wallet or slashes it.
ProviderChange(w) ==
  /\ verified' = IF w \in verified THEN verified \ {w} ELSE verified \cup {w}
  /\ UNCHANGED <<jobs, balance, config, time, paid_in, paid_out>>

\* NMCToken's transfer: a holder sends tokens to the escrow contract.
TransferIn(w, amount) ==
  /\ balance[w] >= amount
  /\ balance' = Moved(balance, w, This, amount)
  /\ UNCHANGED <<jobs, config, verified, time, paid_in, paid_out>>

Tick ==
  /\ time < MaxTime
  /\ time' = time + 1
  /\ UNCHANGED <<jobs, balance, config, verified, paid_in, paid_out>>

UserStep ==
  \E j \in JobIds, w \in Wallets :
    \/ \E p \in Wallets, a \in Amounts, d \in Durations : createEscrow(j, w, p, a, d)
    \/ lockEscrow(j, w)
    \/ \E c \in Costs : releaseEscrow(j, w, c)
    \/ cancelEscrow(j, w)

AdminStep ==
  \/ \E f \in Fees : setFee(f)
  \/ \E a \in Collectors : setFeeCollector(a)

EnvironmentStep ==
  \/ \E w \in Wallets : ProviderChange(w) \/ \E a \in Amounts : TransferIn(w, a)
  \/ Tick

Next == UserStep \/ AdminStep \/ EnvironmentStep

Spec == Init /\ [][Next]_vars

\* Blocks are produced for ever, and somebody uses the right to cancel that
\* everybody has once the deadline has passed.
FairSpec ==
  /\ Spec
  /\ WF_vars(Tick)
  /\ \A j \in JobIds : WF_vars(\E w \in Wallets \ Oracles :
                                 jobs[j].consumer # w /\ cancelEscrow(j, w))

-----------------------------------------------------------------------------
(* Properties *)

\* What the contract holds for a job is its locked amount while the job is
\* live and nothing afterwards: release and cancel pay out exactly once and
\* never from another job's money.
PerJobSolvent ==
  \A j \in JobIds : paid_in[j] - paid_out[j] = IF Live(j) THEN jobs[j].lockedNmc ELSE 0

\* What each job has in the contract.
Held == [j \in JobIds |-> IF Live(j) THEN jobs[j].lockedNmc ELSE 0]

\* The contract's tokens cover what all its live jobs locked together, so no
\* refund or payment can fail for lack of funds, and none is made with the
\* money of another job.  (They may be more: anybody can send tokens to the
\* contract, and setFeeCollector accepts its own address.)
Solvent == balance[This] >= Total(Held, JobIds)

\* Whatever the admin sets the fee to, and whenever, the platform never keeps
\* more than a tenth of a job's cost (MAX_FEE_BPS).
FeeWithinCap == \A j \in JobIds : jobs[j].feeCollected * 10 <= jobs[j].actualCost

\* Escrowed money is not stuck: a locked job is settled or cancelled, even if
\* its consumer, its provider and the oracle all stop
\* ("by anyone after deadline has passed when Locked").
LockedEnds == \A j \in JobIds : jobs[j].state = "Locked" ~> jobs[j].state # "Locked"

\* The contract as AbstractEscrow sees it: what the vault holds for a job is
\* what was transferred in for it less what was transferred out.
AbstractState ==
  [j \in JobIds |-> [phase |-> jobs[j].state, deposit |-> jobs[j].lockedNmc,
                     vault |-> paid_in[j] - paid_out[j], cost |-> jobs[j].actualCost,
                     fee |-> jobs[j].feeCollected]]

Abstract == INSTANCE AbstractEscrow WITH escrow <- AbstractState, Strays <- FALSE

\* Every function of Escrow.sol is a step of the abstract escrow, or invisible
\* to it: an escrow is opened once, ends once, and is then empty for ever.
ImplementsEscrow == Abstract!Spec
=============================================================================
