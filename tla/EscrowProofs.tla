--------------------------- MODULE EscrowProofs ---------------------------
(***************************************************************************)
(* Proofs for modules EscrowContract and Settlement: for every number of   *)
(* jobs, wallets, oracles and settlement tasks, every amount, cost, fee    *)
(* and schedule of transactions.                                           *)
(***************************************************************************)
EXTENDS Settlement, TotalTheorems, SequenceTheorems, TLAPS

IInv == TypeOK /\ PerJobSolvent /\ FeeWithinCap

\* The fee of releaseEscrow is a natural number, at most a tenth of the cost.
LEMMA FeeBound ==
  ASSUME NEW cost \in Nat, platformFeeBps \in 0 .. MAX_FEE_BPS
  PROVE  Fee(cost) \in Nat /\ Fee(cost) * 10 <= cost /\ Fee(cost) <= cost
<1>1. cost * platformFeeBps \in Nat /\ cost * platformFeeBps <= cost * 1000
  BY DEF MAX_FEE_BPS
<1>2. \A x \in Nat : x <= cost * 1000 =>
        /\ x \div 10000 \in Nat /\ (x \div 10000) * 10 <= cost /\ x \div 10000 <= cost
  OBVIOUS
<1> QED BY <1>1, <1>2 DEF Fee

\* Moving tokens between known addresses keeps the balances' type.
LEMMA MovedType ==
  ASSUME NEW S, NEW b \in [S -> Int], NEW f \in S, NEW t \in S, NEW a \in Int
  PROVE  Moved(b, f, t, a) \in [S -> Int]
BY DEF Moved

\* So does paying from the contract's tokens; nothing is paid to address(0).
LEMMA PaidType ==
  ASSUME NEW S, NEW b \in [S -> Int], This \in S, NEW t, NEW a \in Nat, a > 0 => t \in S
  PROVE  Paid(b, t, a) \in [S -> Int]
BY MovedType DEF Paid

\* An empty contract satisfies the invariant.
LEMMA InitIInv == Init => IInv
BY EscrowAssumption
   DEF Init, IInv, TypeOK, PerJobSolvent, FeeWithinCap, Live, NoJob, Job, MAX_FEE_BPS

\* createEscrow takes in what it records.
LEMMA CreateKeepsIInv ==
  ASSUME IInv, NEW j \in JobIds, NEW w \in Wallets, NEW p \in Wallets, NEW a \in Amounts,
         NEW d \in Durations, createEscrow(j, w, p, a, d)
  PROVE  IInv'
<1> DEFINE new == [state |-> "Open", consumer |-> w, provider |-> p, lockedNmc |-> a,
                   duration |-> d, deadline |-> 0, actualCost |-> 0, feeCollected |-> 0]
           Accounts == Wallets \cup {This}
<1>0. a \in Nat /\ a \in Int /\ d \in Nat
  BY EscrowAssumption
<1>1. /\ jobs[j].state = "None" /\ jobs' = [jobs EXCEPT ![j] = new]
      /\ balance' = Moved(balance, w, This, a)
      /\ paid_in' = [paid_in EXCEPT ![j] = @ + a]
      /\ UNCHANGED <<platformFeeBps, feeCollector, verified, time, paid_out>>
  BY DEF createEscrow, config
<1>2. /\ new \in Job /\ new.state = "Open" /\ new.consumer = w /\ new.provider = p
      /\ new.lockedNmc = a /\ new.feeCollected = 0 /\ new.actualCost = 0
  BY <1>0 DEF Job
<1> HIDE DEF new
<1>3. jobs' \in [JobIds -> Job] /\ jobs'[j] = new /\ \A i \in JobIds \ {j} : jobs'[i] = jobs[i]
  BY <1>1, <1>2 DEF IInv, TypeOK
<1>4. balance' \in [Accounts -> Int]
  <2>1. balance \in [Accounts -> Int] /\ w \in Accounts /\ This \in Accounts
    BY DEF IInv, TypeOK
  <2> HIDE DEF Accounts
  <2> QED BY <1>0, <1>1, <2>1, MovedType
<1>5. paid_in' \in [JobIds -> Nat]
  BY <1>0, <1>1 DEF IInv, TypeOK
<1>6. \A i \in JobIds : jobs'[i].state # "None" => jobs'[i].consumer \in Wallets /\ jobs'[i].provider \in Wallets
  BY <1>2, <1>3 DEF IInv, TypeOK
<1>7. TypeOK'
  BY <1>1, <1>3, <1>4, <1>5, <1>6 DEF IInv, TypeOK
<1>8. PerJobSolvent'
  <2> SUFFICES ASSUME NEW i \in JobIds
               PROVE  paid_in'[i] - paid_out'[i] = IF Live(i)' THEN jobs'[i].lockedNmc ELSE 0
    BY DEF PerJobSolvent
  <2>1. CASE i = j
    BY <2>1, <1>0, <1>1, <1>2, <1>3 DEF IInv, TypeOK, PerJobSolvent, Live
  <2>2. CASE i # j
    BY <2>2, <1>1, <1>3 DEF IInv, TypeOK, PerJobSolvent, Live
  <2> QED BY <2>1, <2>2
<1>9. FeeWithinCap'
  BY <1>2, <1>3 DEF IInv, FeeWithinCap
<1> QED BY <1>7, <1>8, <1>9 DEF IInv

\* A transaction on one job keeps the others as they are.
LEMMA OneJobKeepsIInv ==
  ASSUME IInv, NEW j \in JobIds, NEW out \in Nat, jobs[j].state # "None",
         jobs' \in [JobIds -> Job],
         \A i \in JobIds \ {j} : jobs'[i] = jobs[i],
         /\ jobs'[j].consumer = jobs[j].consumer /\ jobs'[j].provider = jobs[j].provider
         /\ jobs'[j].lockedNmc = jobs[j].lockedNmc
         /\ jobs'[j].feeCollected * 10 <= jobs'[j].actualCost,
         Live(j), out = IF jobs'[j].state \in {"Open", "Locked"} THEN 0 ELSE jobs[j].lockedNmc,
         paid_out' = [paid_out EXCEPT ![j] = @ + out],
         balance' \in [Wallets \cup {This} -> Int],
         UNCHANGED <<platformFeeBps, feeCollector, verified, time, paid_in>>
  PROVE  IInv'
<1>1. TypeOK'
  BY DEF IInv, TypeOK
<1>2. PerJobSolvent'
  <2> SUFFICES ASSUME NEW i \in JobIds
               PROVE  paid_in'[i] - paid_out'[i] = IF Live(i)' THEN jobs'[i].lockedNmc ELSE 0
    BY DEF PerJobSolvent
  <2>1. CASE i = j
    BY <2>1 DEF IInv, TypeOK, PerJobSolvent, Live, Job
  <2>2. CASE i # j
    BY <2>2 DEF IInv, TypeOK, PerJobSolvent, Live
  <2> QED BY <2>1, <2>2
<1>3. FeeWithinCap'
  BY DEF IInv, FeeWithinCap
<1> QED BY <1>1, <1>2, <1>3 DEF IInv

\* lockEscrow moves no token.
LEMMA LockKeepsIInv ==
  ASSUME IInv, NEW j \in JobIds, NEW w \in Wallets, lockEscrow(j, w)
  PROVE  IInv'
<1> DEFINE deadline == time + jobs[j].duration
<1>1. deadline \in Nat /\ Live(j) /\ jobs[j].state # "None"
  BY DEF IInv, TypeOK, Job, Live, lockEscrow
<1>2. /\ jobs' = [jobs EXCEPT ![j] = [@ EXCEPT !.state = "Locked", !.deadline = deadline]]
      /\ UNCHANGED <<balance, platformFeeBps, feeCollector, verified, time, paid_in, paid_out>>
  BY DEF lockEscrow, config
<1> HIDE DEF deadline
<1>3. jobs' \in [JobIds -> Job]
  BY <1>1, <1>2 DEF IInv, TypeOK, Job
<1>4. /\ jobs'[j].state = "Locked" /\ \A i \in JobIds \ {j} : jobs'[i] = jobs[i]
      /\ jobs'[j].consumer = jobs[j].consumer /\ jobs'[j].provider = jobs[j].provider
      /\ jobs'[j].lockedNmc = jobs[j].lockedNmc
      /\ jobs'[j].feeCollected = jobs[j].feeCollected /\ jobs'[j].actualCost = jobs[j].actualCost
  BY <1>2 DEF IInv, TypeOK, Job
<1>5. paid_out' = [paid_out EXCEPT ![j] = @ + 0] /\ balance' \in [Wallets \cup {This} -> Int]
  BY <1>2 DEF IInv, TypeOK
<1>6. jobs'[j].feeCollected * 10 <= jobs'[j].actualCost
  BY <1>4 DEF IInv, FeeWithinCap
<1> QED
  BY <1>1, <1>2, <1>3, <1>4, <1>5, <1>6, OneJobKeepsIInv

\* releaseEscrow pays out the locked amount in three parts.
LEMMA ReleaseKeepsIInv ==
  ASSUME IInv, NEW j \in JobIds, NEW w \in Wallets, NEW cost \in Costs, releaseEscrow(j, w, cost)
  PROVE  IInv'
<1> DEFINE locked == jobs[j].lockedNmc
           fee == Fee(cost)
           Accounts == Wallets \cup {This}
           b1 == Paid(balance, jobs[j].provider, cost - fee)
           b2 == Paid(b1, feeCollector, fee)
<1>0. /\ cost \in Nat /\ locked \in Nat /\ cost <= locked /\ Live(j) /\ jobs[j].state # "None"
      /\ jobs[j].consumer \in Wallets /\ jobs[j].provider \in Wallets
      /\ feeCollector \in Accounts \cup {NoOne} /\ balance \in [Wallets \cup {This} -> Int]
      /\ (fee > 0 => feeCollector # NoOne)
  BY EscrowAssumption DEF IInv, TypeOK, Job, Live, releaseEscrow
<1>1. fee \in Nat /\ fee * 10 <= cost /\ fee <= cost
  BY <1>0, FeeBound DEF IInv, TypeOK
<1>2. /\ jobs' = [jobs EXCEPT ![j] = [@ EXCEPT !.state = "Settled", !.actualCost = cost,
                                              !.feeCollected = fee]]
      /\ balance' = Paid(b2, jobs[j].consumer, locked - cost)
      /\ paid_out' = [paid_out EXCEPT ![j] = @ + (cost - fee) + fee + (locked - cost)]
      /\ UNCHANGED <<platformFeeBps, feeCollector, verified, time, paid_in>>
  BY DEF releaseEscrow, config
<1> HIDE DEF locked, fee
<1>3. jobs' \in [JobIds -> Job]
  BY <1>0, <1>1, <1>2 DEF IInv, TypeOK, Job
<1>4. /\ jobs'[j].state = "Settled" /\ \A i \in JobIds \ {j} : jobs'[i] = jobs[i]
      /\ jobs'[j].consumer = jobs[j].consumer /\ jobs'[j].provider = jobs[j].provider
      /\ jobs'[j].lockedNmc = locked
      /\ jobs'[j].feeCollected = fee /\ jobs'[j].actualCost = cost
  BY <1>2 DEF IInv, TypeOK, Job, locked
<1>5. balance' \in [Accounts -> Int]
  <2>0. /\ balance \in [Accounts -> Int] /\ This \in Accounts
        /\ (fee > 0 => feeCollector \in Accounts)
        /\ jobs[j].provider \in Accounts /\ jobs[j].consumer \in Accounts
    BY <1>0
  <2>00. cost - fee \in Nat /\ fee \in Nat /\ locked - cost \in Nat
    BY <1>0, <1>1
  <2> HIDE DEF Accounts
  <2>1. b1 \in [Accounts -> Int]
    BY <2>0, <2>00, PaidType
  <2> HIDE DEF b1
  <2>2. b2 \in [Accounts -> Int]
    BY <2>0, <2>00, <2>1, PaidType
  <2> HIDE DEF b2
  <2> QED BY <1>2, <2>0, <2>00, <2>2, PaidType
<1>6. paid_out' = [paid_out EXCEPT ![j] = @ + locked]
  <2>1. paid_out[j] + (cost - fee) + fee + (locked - cost) = paid_out[j] + locked
    BY <1>0, <1>1 DEF IInv, TypeOK
  <2> QED BY <1>2, <2>1 DEF IInv, TypeOK
<1> QED
  BY <1>0, <1>1, <1>2, <1>3, <1>4, <1>5, <1>6, OneJobKeepsIInv DEF locked

\* cancelEscrow refunds the locked amount, once.
LEMMA CancelKeepsIInv ==
  ASSUME IInv, NEW j \in JobIds, NEW w \in Wallets, cancelEscrow(j, w)
  PROVE  IInv'
<1>0. /\ Live(j) /\ jobs[j].state # "None" /\ jobs[j].consumer \in Wallets
      /\ jobs[j].lockedNmc \in Nat /\ balance \in [Wallets \cup {This} -> Int]
  BY DEF IInv, TypeOK, Job, MayCancel, Live, cancelEscrow
<1>1. /\ jobs' = [jobs EXCEPT ![j] = [@ EXCEPT !.state = "Cancelled"]]
      /\ balance' = Moved(balance, This, jobs[j].consumer, jobs[j].lockedNmc)
      /\ paid_out' = [paid_out EXCEPT ![j] = @ + jobs[j].lockedNmc]
      /\ UNCHANGED <<platformFeeBps, feeCollector, verified, time, paid_in>>
  BY DEF cancelEscrow, config
<1>2. jobs' \in [JobIds -> Job]
  BY <1>1 DEF IInv, TypeOK, Job
<1>3. /\ jobs'[j].state = "Cancelled" /\ \A i \in JobIds \ {j} : jobs'[i] = jobs[i]
      /\ jobs'[j].consumer = jobs[j].consumer /\ jobs'[j].provider = jobs[j].provider
      /\ jobs'[j].lockedNmc = jobs[j].lockedNmc
      /\ jobs'[j].feeCollected = jobs[j].feeCollected /\ jobs'[j].actualCost = jobs[j].actualCost
  BY <1>1 DEF IInv, TypeOK, Job
<1> DEFINE Accounts == Wallets \cup {This}
<1>4. balance' \in [Accounts -> Int]
  <2>1. /\ balance \in [Accounts -> Int] /\ This \in Accounts /\ jobs[j].consumer \in Accounts
        /\ jobs[j].lockedNmc \in Int
    BY <1>0
  <2> HIDE DEF Accounts
  <2> QED BY <1>1, <2>1, MovedType
<1>5. jobs'[j].feeCollected * 10 <= jobs'[j].actualCost
  BY <1>3 DEF IInv, FeeWithinCap
<1> QED
  BY <1>0, <1>1, <1>2, <1>3, <1>4, <1>5, OneJobKeepsIInv

\* Every transaction, and the passing of time, keeps the invariant.
LEMMA NextIInv == IInv /\ [Next]_vars => IInv'
<1> SUFFICES ASSUME IInv, [Next]_vars PROVE IInv'
  OBVIOUS
<1>1. CASE UserStep
  BY <1>1, CreateKeepsIInv, LockKeepsIInv, ReleaseKeepsIInv, CancelKeepsIInv DEF UserStep
<1>2. ASSUME UNCHANGED <<jobs, paid_in, paid_out>>, balance' \in [Wallets \cup {This} -> Int],
             platformFeeBps' \in 0 .. MAX_FEE_BPS, feeCollector' \in Collectors,
             verified' \in SUBSET Wallets, time' \in Nat
      PROVE  IInv'
  BY <1>2 DEF IInv, TypeOK, PerJobSolvent, FeeWithinCap, Live
<1>3. CASE \E f \in Fees : setFee(f)
  <2>1. PICK f \in Fees : setFee(f)
    BY <1>3
  <2>2. f \in Nat /\ f <= MAX_FEE_BPS /\ f \in 0 .. MAX_FEE_BPS
    BY <2>1, EscrowAssumption DEF setFee, MAX_FEE_BPS
  <2> QED BY <1>2, <2>1, <2>2 DEF IInv, TypeOK, setFee
<1>4. CASE \/ \E a \in Collectors : setFeeCollector(a)
           \/ \E w \in Wallets : ProviderChange(w)
  BY <1>2, <1>4 DEF IInv, TypeOK, setFeeCollector, ProviderChange, config
<1>5. CASE Tick
  BY <1>2, <1>5 DEF IInv, TypeOK, Tick, config
<1>6. ASSUME NEW w \in Wallets, NEW a \in Amounts, TransferIn(w, a) PROVE IInv'
  <2>1. balance \in [Wallets \cup {This} -> Int] /\ a \in Int
    BY EscrowAssumption DEF IInv, TypeOK
  <2>2. balance' \in [Wallets \cup {This} -> Int]
    BY <1>6, <2>1, MovedType DEF TransferIn
  <2> QED BY <1>2, <1>6, <2>2 DEF IInv, TypeOK, TransferIn, config
<1>7. CASE UNCHANGED vars
  BY <1>2, <1>7 DEF IInv, TypeOK, vars, config
<1> QED BY <1>1, <1>3, <1>4, <1>5, <1>6, <1>7 DEF Next, AdminStep, EnvironmentStep

\* The contract's state, the balances and the fee keep their types; the fee
\* never exceeds MAX_FEE_BPS.
THEOREM EscrowTypeCorrect == Spec => []TypeOK
<1>1. IInv => TypeOK
  BY DEF IInv
<1> QED BY <1>1, InitIInv, NextIInv, PTL DEF Spec

\* For each job the contract holds exactly the locked amount while the job is
\* live and nothing once it is settled or cancelled.
THEOREM EachJobIsSolvent == Spec => []PerJobSolvent
<1>1. IInv => PerJobSolvent
  BY DEF IInv
<1> QED BY <1>1, InitIInv, NextIInv, PTL DEF Spec

\* The platform keeps at most a tenth of what a job cost.
THEOREM FeesAreCapped == Spec => []FeeWithinCap
<1>1. IInv => FeeWithinCap
  BY DEF IInv
<1> QED BY <1>1, InitIInv, NextIInv, PTL DEF Spec

-----------------------------------------------------------------------------
(* The contract's tokens cover what its live jobs locked *)

\* What the contract holds for a job is a natural number.
LEMMA HeldType == IInv => \A j \in JobIds : Held[j] \in Nat
BY DEF IInv, TypeOK, Job, Held

\* What a transaction adds to one job it adds to the contract's balance, at least.
LEMMA OneJobKeepsSolvent ==
  ASSUME IInv, IInv', Solvent, NEW j \in JobIds, NEW d \in Int,
         \A i \in JobIds \ {j} : jobs'[i] = jobs[i],
         Held'[j] = Held[j] + d, balance'[This] >= balance[This] + d
  PROVE  Solvent'
<1>1. \A i \in JobIds : Held[i] \in Nat /\ Held'[i] \in Nat
  BY HeldType DEF IInv, TypeOK, Job, Held
<1>2. \A i \in JobIds \ {j} : Held'[i] = Held[i]
  BY DEF Held, Live
<1>3. IsFiniteSet(JobIds)
  BY EscrowAssumption
<1> DEFINE f == Held
           g == Held'
<1>4. Total(g, JobIds) = Total(f, JobIds) - f[j] + g[j]
  <2>1. \A i \in JobIds : f[i] \in Int /\ g[i] \in Int
    BY <1>1
  <2>2. \A i \in JobIds \ {j} : f[i] = g[i]
    BY <1>2
  <2> HIDE DEF f, g
  <2> QED BY <1>3, <2>1, <2>2, TotalChange
<1>5. Total(f, JobIds) \in Int
  <2>1. \A i \in JobIds : f[i] \in Int
    BY <1>1
  <2> HIDE DEF f
  <2> QED BY <1>3, <2>1, TotalInt
<1>6. /\ f[j] \in Int /\ g[j] = f[j] + d /\ balance[This] >= Total(f, JobIds)
      /\ balance[This] \in Int /\ balance'[This] \in Int
  BY <1>1 DEF Solvent, IInv, TypeOK
<1>7. balance'[This] >= Total(g, JobIds)
  <2> HIDE DEF f, g
  <2> QED BY <1>4, <1>5, <1>6
<1> QED BY <1>7 DEF Solvent

\* What a transfer does to the contract's own balance.
LEMMA MovedThis ==
  ASSUME NEW S, This \in S, NEW b \in [S -> Int], NEW w \in S, w # This, NEW a \in Int
  PROVE  /\ Moved(b, w, This, a)[This] = b[This] + a
         /\ Moved(b, This, w, a)[This] = b[This] - a
BY DEF Moved

\* A payment takes its amount at most: nothing if the contract pays itself.
LEMMA PaidThis ==
  ASSUME NEW S, This \in S, NEW b \in [S -> Int], NEW t, NEW a \in Nat, a > 0 => t \in S
  PROVE  Paid(b, t, a)[This] \in Int /\ Paid(b, t, a)[This] >= b[This] - a
BY DEF Paid, Moved

\* createEscrow adds to the balance what it adds to the job.
LEMMA CreateKeepsSolvent ==
  ASSUME IInv, IInv', Solvent, NEW j \in JobIds, NEW w \in Wallets, NEW p \in Wallets,
         NEW a \in Amounts, NEW d \in Durations, createEscrow(j, w, p, a, d)
  PROVE  Solvent'
<1>1. a \in Nat /\ a \in Int /\ w # This
  BY EscrowAssumption
<1>2. \A i \in JobIds \ {j} : jobs'[i] = jobs[i]
  BY DEF createEscrow, IInv, TypeOK
<1>3. Held[j] = 0 /\ Held'[j] = a
  BY DEF Held, Live, createEscrow, IInv, TypeOK
<1>4. balance'[This] = balance[This] + a
  <2> DEFINE S == Wallets \cup {This}
  <2>1. balance \in [S -> Int] /\ This \in S /\ w \in S /\ balance' = Moved(balance, w, This, a)
    BY DEF createEscrow, IInv, TypeOK
  <2> HIDE DEF S
  <2> QED BY <1>1, <2>1, MovedThis
<1>5. balance[This] \in Int /\ balance'[This] >= balance[This] + a
  BY <1>1, <1>4 DEF IInv, TypeOK
<1>6. Held'[j] = Held[j] + a
  BY <1>1, <1>3
<1> QED BY <1>1, <1>2, <1>5, <1>6, OneJobKeepsSolvent

\* lockEscrow changes neither.
LEMMA LockKeepsSolvent ==
  ASSUME IInv, IInv', Solvent, NEW j \in JobIds, NEW w \in Wallets, lockEscrow(j, w)
  PROVE  Solvent'
<1>1. /\ \A i \in JobIds \ {j} : jobs'[i] = jobs[i]
      /\ jobs[j].state = "Open" /\ jobs'[j].state = "Locked"
      /\ jobs'[j].lockedNmc = jobs[j].lockedNmc /\ balance' = balance
  BY DEF lockEscrow, IInv, TypeOK, Job
<1>2. Held[j] \in Nat /\ Held'[j] = Held[j] + 0
  BY <1>1, HeldType DEF Held, Live
<1>3. balance'[This] >= balance[This] + 0
  BY <1>1 DEF IInv, TypeOK
<1> QED BY <1>1, <1>2, <1>3, OneJobKeepsSolvent

\* releaseEscrow pays out what it took in for the job, and no more.
LEMMA ReleaseKeepsSolvent ==
  ASSUME IInv, IInv', Solvent, NEW j \in JobIds, NEW w \in Wallets, NEW cost \in Costs,
         releaseEscrow(j, w, cost)
  PROVE  Solvent'
<1> DEFINE locked == jobs[j].lockedNmc
           fee == Fee(cost)
           S == Wallets \cup {This}
           b1 == Paid(balance, jobs[j].provider, cost - fee)
           b2 == Paid(b1, feeCollector, fee)
<1>0. /\ cost \in Nat /\ locked \in Nat /\ cost <= locked /\ jobs[j].state = "Locked"
      /\ jobs[j].consumer \in S /\ jobs[j].provider \in S
      /\ fee > 0 => feeCollector \in S
      /\ balance \in [S -> Int] /\ This \in S
  BY EscrowAssumption DEF IInv, TypeOK, Job, releaseEscrow
<1>1. fee \in Nat /\ fee <= cost
  BY <1>0, FeeBound DEF IInv, TypeOK
<1>2. /\ \A i \in JobIds \ {j} : jobs'[i] = jobs[i]
      /\ jobs'[j].state = "Settled"
      /\ balance' = Paid(b2, jobs[j].consumer, locked - cost)
  BY DEF releaseEscrow, IInv, TypeOK, Job
<1>3. Held[j] = locked /\ Held'[j] = 0
  BY <1>0, <1>2 DEF Held, Live
<1> HIDE DEF fee, locked, S
<1>4. cost - fee \in Nat /\ locked - cost \in Nat
  BY <1>0, <1>1
<1>5. b1 \in [S -> Int] /\ b1[This] >= balance[This] - (cost - fee)
  BY <1>0, <1>4, PaidType, PaidThis
<1> HIDE DEF b1
<1>6. b2 \in [S -> Int] /\ b2[This] >= b1[This] - fee
  BY <1>0, <1>1, <1>5, PaidType, PaidThis
<1> HIDE DEF b2
<1>7. balance'[This] \in Int /\ balance'[This] >= b2[This] - (locked - cost)
  BY <1>0, <1>2, <1>4, <1>6, PaidThis
<1>8. balance[This] \in Int /\ b1[This] \in Int /\ b2[This] \in Int
  BY <1>0, <1>5, <1>6
<1>9. balance'[This] >= balance[This] + (0 - locked) /\ (0 - locked) \in Int
  BY <1>0, <1>1, <1>5, <1>6, <1>7, <1>8
<1>10. Held'[j] = Held[j] + (0 - locked)
  BY <1>0, <1>3
<1> QED BY <1>2, <1>9, <1>10, OneJobKeepsSolvent

\* So does cancelEscrow.
LEMMA CancelKeepsSolvent ==
  ASSUME IInv, IInv', Solvent, NEW j \in JobIds, NEW w \in Wallets, cancelEscrow(j, w)
  PROVE  Solvent'
<1> DEFINE locked == jobs[j].lockedNmc
           S == Wallets \cup {This}
<1>0. /\ locked \in Nat /\ Live(j)
      /\ jobs[j].consumer \in S \ {This} /\ balance \in [S -> Int] /\ This \in S
  BY EscrowAssumption DEF IInv, TypeOK, Job, Live, MayCancel, cancelEscrow
<1>1. /\ \A i \in JobIds \ {j} : jobs'[i] = jobs[i]
      /\ jobs'[j].state = "Cancelled"
      /\ balance' = Moved(balance, This, jobs[j].consumer, locked)
  BY DEF cancelEscrow, IInv, TypeOK, Job
<1>2. Held[j] = locked /\ Held'[j] = 0
  BY <1>0, <1>1 DEF Held, Live
<1> HIDE DEF locked, S
<1>3. balance'[This] >= balance[This] + (0 - locked) /\ (0 - locked) \in Int
  <2>1. balance'[This] = balance[This] - locked
    BY <1>0, <1>1, MovedThis
  <2> QED BY <1>0, <2>1
<1>4. Held'[j] = Held[j] + (0 - locked)
  BY <1>0, <1>2
<1> QED BY <1>1, <1>3, <1>4, OneJobKeepsSolvent

\* An empty contract owes nothing.
LEMMA InitSolvent == Init => Solvent
<1> SUFFICES ASSUME Init PROVE Solvent
  OBVIOUS
<1>1. \A j \in JobIds : Held[j] = 0
  BY DEF Init, Held, Live, NoJob
<1>2. balance[This] = 0 /\ IsFiniteSet(JobIds)
  BY EscrowAssumption DEF Init
<1> QED BY <1>1, <1>2, TotalZero DEF Solvent

\* A gift adds to the balance and to no job.
LEMMA TransferKeepsSolvent ==
  ASSUME IInv, Solvent, NEW w \in Wallets, NEW a \in Amounts, TransferIn(w, a)
  PROVE  Solvent'
<1> DEFINE S == Wallets \cup {This}
<1>1. a \in Nat /\ a \in Int /\ w # This
  BY EscrowAssumption
<1>2. balance \in [S -> Int] /\ This \in S /\ w \in S /\ balance' = Moved(balance, w, This, a)
  BY DEF TransferIn, IInv, TypeOK
<1>3. balance'[This] = balance[This] + a /\ balance[This] \in Int
  <2> HIDE DEF S
  <2> QED BY <1>1, <1>2, MovedThis
<1>4. Total(Held, JobIds) \in Int
  BY HeldType, EscrowAssumption, TotalInt
<1>5. Held' = Held
  BY DEF TransferIn, Held, Live
<1>6. balance'[This] >= Total(Held, JobIds)
  BY <1>1, <1>3, <1>4 DEF Solvent
<1> QED BY <1>5, <1>6 DEF Solvent

\* Every step keeps what is held covered.
LEMMA NextSolvent == IInv /\ Solvent /\ [Next]_vars => Solvent'
<1> SUFFICES ASSUME IInv, Solvent, [Next]_vars PROVE Solvent'
  OBVIOUS
<1>0. IInv'
  BY NextIInv
<1>1. CASE UserStep
  BY <1>0, <1>1, CreateKeepsSolvent, LockKeepsSolvent, ReleaseKeepsSolvent, CancelKeepsSolvent DEF UserStep
<1>2. CASE UNCHANGED <<jobs, balance>>
  BY <1>2 DEF Solvent, Held, Live
<1>3. CASE AdminStep
  BY <1>2, <1>3 DEF AdminStep, setFee, setFeeCollector
<1>4. CASE EnvironmentStep
  BY <1>2, <1>4, TransferKeepsSolvent DEF EnvironmentStep, ProviderChange, Tick
<1>5. CASE UNCHANGED vars
  BY <1>2, <1>5 DEF vars
<1> QED BY <1>1, <1>3, <1>4, <1>5 DEF Next

\* The contract's tokens always cover what all its live jobs locked, although
\* anybody may send it tokens and it may be its own fee collector: release and
\* cancel never draw on what another job locked.
THEOREM ContractIsSolvent == Spec => []Solvent
<1>1. Init => IInv /\ Solvent
  BY InitIInv, InitSolvent
<1>2. IInv /\ Solvent /\ [Next]_vars => (IInv /\ Solvent)'
  BY NextIInv, NextSolvent
<1> QED BY <1>1, <1>2, PTL DEF Spec

-----------------------------------------------------------------------------
(* EscrowContract implements AbstractEscrow *)

\* Cost and fee are written by the settlement only, the amount by the creation.
Unsettled ==
  \A j \in JobIds :
    /\ jobs[j].state = "None" => jobs[j].lockedNmc = 0
    /\ jobs[j].state \in {"None", "Open", "Locked"} =>
         jobs[j].actualCost = 0 /\ jobs[j].feeCollected = 0

\* What AbstractEscrow sees of one job.
AbstractJob(job, held) ==
  [phase |-> job.state, deposit |-> job.lockedNmc, vault |-> held,
   cost |-> job.actualCost, fee |-> job.feeCollected]

\* A transaction on one job changes one entry of the abstract state.
LEMMA OneEntry ==
  ASSUME NEW j \in JobIds, NEW r,
         \A i \in JobIds \ {j} : /\ jobs'[i] = jobs[i]
                                 /\ paid_in'[i] = paid_in[i] /\ paid_out'[i] = paid_out[i],
         r = AbstractJob(jobs'[j], paid_in'[j] - paid_out'[j])
  PROVE  AbstractState' = [AbstractState EXCEPT ![j] = r]
BY DEF AbstractState, AbstractJob

\* The refinement mapping, job by job.
LEMMA EntryOf ==
  ASSUME NEW j \in JobIds
  PROVE  AbstractState[j] = AbstractJob(jobs[j], paid_in[j] - paid_out[j])
BY DEF AbstractState, AbstractJob

\* No job has a cost yet.
LEMMA InitUnsettled == Init => Unsettled
BY DEF Init, Unsettled, NoJob

\* Cost and fee are written together with the final state.
LEMMA NextUnsettled == TypeOK /\ Unsettled /\ [Next]_vars => Unsettled'
<1> SUFFICES ASSUME TypeOK, Unsettled, [Next]_vars PROVE Unsettled'
  OBVIOUS
<1>0. ASSUME UNCHANGED jobs PROVE Unsettled'
  BY <1>0 DEF Unsettled
<1>1. ASSUME NEW j \in JobIds, NEW w \in Wallets, NEW p \in Wallets, NEW a \in Amounts,
             NEW d \in Durations, createEscrow(j, w, p, a, d)
      PROVE  Unsettled'
  BY <1>1 DEF createEscrow, Unsettled, TypeOK
<1>2. ASSUME NEW j \in JobIds, NEW w \in Wallets, lockEscrow(j, w) PROVE Unsettled'
  BY <1>2 DEF lockEscrow, Unsettled, TypeOK, Job
<1>3. ASSUME NEW j \in JobIds, NEW w \in Wallets, NEW c \in Costs, releaseEscrow(j, w, c)
      PROVE  Unsettled'
  BY <1>3 DEF releaseEscrow, Unsettled, TypeOK, Job
<1>4. ASSUME NEW j \in JobIds, NEW w \in Wallets, cancelEscrow(j, w) PROVE Unsettled'
  BY <1>4 DEF cancelEscrow, Unsettled, TypeOK, Job
<1>5. CASE UserStep
  BY <1>1, <1>2, <1>3, <1>4, <1>5 DEF UserStep
<1>6. CASE AdminStep \/ EnvironmentStep \/ UNCHANGED vars
  BY <1>0, <1>6 DEF AdminStep, EnvironmentStep, Tick, TransferIn, setFee, setFeeCollector, ProviderChange, vars
<1> QED BY <1>5, <1>6 DEF Next

\* Initial states map to initial states.
LEMMA InitAbstract == Init => Abstract!Init
BY DEF Init, Abstract!Init, Abstract!NoEscrow, AbstractState, NoJob

\* createEscrow is Create.
LEMMA CreateAbstract ==
  ASSUME IInv, Unsettled, NEW j \in JobIds, NEW w \in Wallets, NEW p \in Wallets, NEW a \in Amounts,
         NEW d \in Durations, createEscrow(j, w, p, a, d)
  PROVE  Abstract!Create(j)
<1> DEFINE r == [phase |-> "Open", deposit |-> a, vault |-> a, cost |-> 0, fee |-> 0]
<1>1. AbstractState[j] = Abstract!NoEscrow
  BY EntryOf DEF createEscrow, IInv, PerJobSolvent, Live, Unsettled, AbstractJob, Abstract!NoEscrow
<1>2. /\ a \in Nat /\ paid_in[j] \in Nat /\ paid_out[j] \in Nat /\ paid_in[j] - paid_out[j] = 0
  BY EscrowAssumption DEF createEscrow, IInv, TypeOK, PerJobSolvent, Live
<1>3. /\ paid_in'[j] = paid_in[j] + a /\ paid_out'[j] = paid_out[j]
      /\ jobs'[j].state = "Open" /\ jobs'[j].lockedNmc = a
      /\ jobs'[j].actualCost = 0 /\ jobs'[j].feeCollected = 0
      /\ \A i \in JobIds \ {j} : /\ jobs'[i] = jobs[i]
                                 /\ paid_in'[i] = paid_in[i] /\ paid_out'[i] = paid_out[i]
  BY DEF createEscrow, IInv, TypeOK
<1>4. paid_in'[j] - paid_out'[j] = a
  BY <1>2, <1>3
<1>5. r = AbstractJob(jobs'[j], paid_in'[j] - paid_out'[j])
  BY <1>3, <1>4 DEF AbstractJob
<1> HIDE DEF r
<1>6. AbstractState' = [AbstractState EXCEPT ![j] = r]
  BY <1>3, <1>5, OneEntry
<1> QED BY <1>1, <1>6 DEF Abstract!Create, r

\* lockEscrow is Lock.
LEMMA LockAbstract ==
  ASSUME IInv, Unsettled, NEW j \in JobIds, NEW w \in Wallets, lockEscrow(j, w)
  PROVE  Abstract!Lock(j)
<1> DEFINE d == jobs[j].lockedNmc
           r == [phase |-> "Locked", deposit |-> d, vault |-> d, cost |-> 0, fee |-> 0]
<1>1. AbstractState[j] = [phase |-> "Open", deposit |-> d, vault |-> d, cost |-> 0, fee |-> 0]
  BY EntryOf DEF lockEscrow, IInv, PerJobSolvent, Live, Unsettled, AbstractJob
<1>2. paid_in[j] - paid_out[j] = d
  BY DEF lockEscrow, IInv, PerJobSolvent, Live
<1>3. /\ jobs'[j].state = "Locked" /\ jobs'[j].lockedNmc = d
      /\ jobs'[j].actualCost = 0 /\ jobs'[j].feeCollected = 0
      /\ paid_in' = paid_in /\ paid_out' = paid_out
      /\ \A i \in JobIds \ {j} : jobs'[i] = jobs[i]
  BY DEF lockEscrow, IInv, TypeOK, Job, Unsettled
<1>4. r = AbstractJob(jobs'[j], paid_in'[j] - paid_out'[j])
  BY <1>2, <1>3 DEF AbstractJob
<1>5. AbstractState[j].deposit = d
  BY <1>1
<1> HIDE DEF r, d
<1>6. AbstractState' = [AbstractState EXCEPT ![j] = r]
  BY <1>3, <1>4, OneEntry
<1> QED BY <1>1, <1>5, <1>6 DEF Abstract!Lock, r

\* releaseEscrow is Release: its three transfers empty the vault.
LEMMA ReleaseAbstract ==
  ASSUME IInv, Unsettled, NEW j \in JobIds, NEW w \in Wallets, NEW c \in Costs,
         releaseEscrow(j, w, c)
  PROVE  Abstract!Release(j)
<1> DEFINE d == jobs[j].lockedNmc
           f == Fee(c)
           r == [phase |-> "Settled", deposit |-> d, vault |-> 0, cost |-> c, fee |-> f]
<1>1. AbstractState[j] = [phase |-> "Locked", deposit |-> d, vault |-> d, cost |-> 0, fee |-> 0]
  BY EntryOf DEF releaseEscrow, IInv, PerJobSolvent, Live, Unsettled, AbstractJob
<1>2. /\ c \in Nat /\ d \in Nat /\ c <= d /\ paid_in[j] \in Nat /\ paid_out[j] \in Nat
      /\ paid_in[j] - paid_out[j] = d
  BY EscrowAssumption DEF releaseEscrow, IInv, TypeOK, Job, PerJobSolvent, Live
<1>3. f \in Nat /\ f * 10 <= c /\ f <= c
  BY <1>2, FeeBound DEF IInv, TypeOK
<1>4. /\ jobs'[j].state = "Settled" /\ jobs'[j].lockedNmc = d
      /\ jobs'[j].actualCost = c /\ jobs'[j].feeCollected = f
      /\ paid_in' = paid_in /\ paid_out'[j] = paid_out[j] + (c - f) + f + (d - c)
      /\ \A i \in JobIds \ {j} : jobs'[i] = jobs[i] /\ paid_out'[i] = paid_out[i]
  BY DEF releaseEscrow, IInv, TypeOK, Job
<1> HIDE DEF d, f
<1>5. paid_in'[j] - paid_out'[j] = 0
  BY <1>2, <1>3, <1>4
<1>6. r = AbstractJob(jobs'[j], paid_in'[j] - paid_out'[j])
  BY <1>4, <1>5 DEF AbstractJob
<1>7. AbstractState[j].deposit = d
  BY <1>1
<1> HIDE DEF r
<1>8. AbstractState' = [AbstractState EXCEPT ![j] = r]
  BY <1>4, <1>6, OneEntry
<1>9. f \in 0 .. (d \div 10) /\ c \in (10 * f) .. d
  BY <1>2, <1>3
<1> QED BY <1>1, <1>7, <1>8, <1>9 DEF Abstract!Release, r

\* cancelEscrow is Cancel.
LEMMA CancelAbstract ==
  ASSUME IInv, Unsettled, NEW j \in JobIds, NEW w \in Wallets, cancelEscrow(j, w)
  PROVE  Abstract!Cancel(j)
<1> DEFINE d == jobs[j].lockedNmc
           r == [phase |-> "Cancelled", deposit |-> d, vault |-> 0, cost |-> 0, fee |-> 0]
<1>0. Live(j)
  BY DEF cancelEscrow, MayCancel, Live
<1>1. AbstractState[j].phase \in {"Open", "Locked"} /\ AbstractState[j].vault = d
      /\ AbstractState[j].deposit = d
  <2>1. AbstractState[j] = AbstractJob(jobs[j], d)
    BY <1>0, EntryOf DEF IInv, PerJobSolvent
  <2> QED BY <1>0, <2>1 DEF AbstractJob, Live
<1>2. d \in Nat /\ paid_in[j] \in Nat /\ paid_out[j] \in Nat /\ paid_in[j] - paid_out[j] = d
  BY <1>0 DEF IInv, TypeOK, Job, PerJobSolvent
<1>3. /\ jobs'[j].state = "Cancelled" /\ jobs'[j].lockedNmc = d
      /\ jobs'[j].actualCost = 0 /\ jobs'[j].feeCollected = 0
      /\ paid_in' = paid_in /\ paid_out'[j] = paid_out[j] + d
      /\ \A i \in JobIds \ {j} : jobs'[i] = jobs[i] /\ paid_out'[i] = paid_out[i]
  BY <1>0 DEF cancelEscrow, IInv, TypeOK, Job, Unsettled, Live
<1> HIDE DEF d
<1>4. paid_in'[j] - paid_out'[j] = 0
  BY <1>2, <1>3
<1>5. r = AbstractJob(jobs'[j], paid_in'[j] - paid_out'[j])
  BY <1>3, <1>4 DEF AbstractJob
<1> HIDE DEF r
<1>6. AbstractState' = [AbstractState EXCEPT ![j] = r]
  BY <1>3, <1>5, OneEntry
<1> QED BY <1>1, <1>6 DEF Abstract!Cancel, r

\* Every step maps to an abstract step or to none.
LEMMA NextAbstract == IInv /\ Unsettled /\ [Next]_vars => [Abstract!Next]_AbstractState
<1> SUFFICES ASSUME IInv, Unsettled, [Next]_vars
             PROVE  Abstract!Next \/ UNCHANGED AbstractState
  OBVIOUS
<1>1. CASE UserStep
  BY <1>1, CreateAbstract, LockAbstract, ReleaseAbstract, CancelAbstract DEF UserStep, Abstract!Next
<1>2. CASE AdminStep \/ EnvironmentStep \/ UNCHANGED vars
  <2>1. UNCHANGED <<jobs, paid_in, paid_out>>
    BY <1>2 DEF AdminStep, EnvironmentStep, Tick, TransferIn, setFee, setFeeCollector, ProviderChange, vars
  <2> QED BY <2>1 DEF AbstractState
<1> QED BY <1>1, <1>2 DEF Next

\* Escrow.sol implements the abstract escrow: whatever its users, oracles and
\* administrators do, each deposit is taken once and leaves the contract once
\* and completely, with a capped fee.
THEOREM EscrowImplementsAbstract == Spec => ImplementsEscrow
<1>1. IInv => TypeOK
  BY DEF IInv
<1> QED
  BY <1>1, InitIInv, NextIInv, InitUnsettled, NextUnsettled, InitAbstract, NextAbstract, PTL
     DEF Spec, ImplementsEscrow, Abstract!Spec

-----------------------------------------------------------------------------
(* What was agreed stays *)

\* The parties, the amount and the duration of a created escrow, and everything
\* about one that has ended.
AgreementKept ==
  \A j \in JobIds : jobs[j].state # "None" =>
    /\ jobs'[j].consumer = jobs[j].consumer /\ jobs'[j].provider = jobs[j].provider
    /\ jobs'[j].lockedNmc = jobs[j].lockedNmc /\ jobs'[j].duration = jobs[j].duration
    /\ jobs'[j].state # "None"
    /\ jobs[j].state \in {"Settled", "Cancelled"} => jobs'[j] = jobs[j]

\* Each transaction keeps it.
LEMMA StepKeepsAgreement == TypeOK /\ [Next]_vars => AgreementKept
<1> SUFFICES ASSUME TypeOK, [Next]_vars, NEW j \in JobIds, jobs[j].state # "None"
             PROVE  /\ jobs'[j].consumer = jobs[j].consumer /\ jobs'[j].provider = jobs[j].provider
                    /\ jobs'[j].lockedNmc = jobs[j].lockedNmc /\ jobs'[j].duration = jobs[j].duration
                    /\ jobs'[j].state # "None"
                    /\ jobs[j].state \in {"Settled", "Cancelled"} => jobs'[j] = jobs[j]
  BY DEF AgreementKept
<1>0. jobs[j] \in Job /\ jobs \in [JobIds -> Job]
  BY DEF TypeOK
<1>1. ASSUME NEW i \in JobIds, NEW w, NEW p, NEW a, NEW d, createEscrow(i, w, p, a, d)
      PROVE  jobs'[j] = jobs[j]
  BY <1>0, <1>1 DEF createEscrow
<1>2. ASSUME NEW i \in JobIds, NEW w, lockEscrow(i, w)
      PROVE  \/ jobs'[j] = jobs[j]
             \/ /\ jobs[j].state = "Open"
                /\ jobs'[j] = [jobs[j] EXCEPT !.state = "Locked", !.deadline = time + jobs[j].duration]
  BY <1>0, <1>2 DEF lockEscrow
<1>3. ASSUME NEW i \in JobIds, NEW w, NEW cost, releaseEscrow(i, w, cost)
      PROVE  \/ jobs'[j] = jobs[j]
             \/ /\ jobs[j].state = "Locked"
                /\ jobs'[j] = [jobs[j] EXCEPT !.state = "Settled", !.actualCost = cost, !.feeCollected = Fee(cost)]
  BY <1>0, <1>3 DEF releaseEscrow
<1>4. ASSUME NEW i \in JobIds, NEW w, cancelEscrow(i, w)
      PROVE  \/ jobs'[j] = jobs[j]
             \/ /\ jobs[j].state \in {"Open", "Locked"}
                /\ jobs'[j] = [jobs[j] EXCEPT !.state = "Cancelled"]
  BY <1>0, <1>4 DEF cancelEscrow, MayCancel
<1>5. ASSUME AdminStep \/ EnvironmentStep \/ UNCHANGED vars PROVE jobs'[j] = jobs[j]
  BY <1>5 DEF AdminStep, EnvironmentStep, setFee, setFeeCollector, ProviderChange, TransferIn, Tick, vars
<1>6. \/ jobs'[j] = jobs[j]
      \/ /\ jobs[j].state = "Open"
         /\ jobs'[j] = [jobs[j] EXCEPT !.state = "Locked", !.deadline = time + jobs[j].duration]
      \/ /\ jobs[j].state = "Locked"
         /\ \E cost : jobs'[j] = [jobs[j] EXCEPT !.state = "Settled", !.actualCost = cost, !.feeCollected = Fee(cost)]
      \/ /\ jobs[j].state \in {"Open", "Locked"}
         /\ jobs'[j] = [jobs[j] EXCEPT !.state = "Cancelled"]
  BY <1>1, <1>2, <1>3, <1>4, <1>5 DEF Next, UserStep
<1> QED BY <1>0, <1>6 DEF Job

\* Once an escrow is created nobody - not an oracle, an administrator or a
\* second createEscrow with the same job id - changes its parties, its amount or
\* its duration, and once it has ended nothing about it changes again.
THEOREM AgreementIsKept == Spec => [][AgreementKept]_vars
<1>1. IInv /\ [Next]_vars => AgreementKept
  BY StepKeepsAgreement DEF IInv
<1>2. IInv /\ [Next]_vars => IInv'
  BY NextIInv
<1> QED BY <1>1, <1>2, InitIInv, PTL DEF Spec

-----------------------------------------------------------------------------
(* Encoding: how FromBytes folds *)

Byte == 0 .. 255

\* One step of the fold, and the function the community modules define by it.
Step(b, g, s) == IF s = {} THEN 0 ELSE 256 * g[s \ {Max(s)}] + b[Max(s)]
Folding(b) == CHOOSE iter : iter = [s \in SUBSET DOMAIN b |-> Step(b, iter, s)]

\* FoldLeft of FromBytes folds over the positions, the last one outermost.
LEMMA FromBytesFolds == ASSUME NEW b PROVE FromBytes(b) = Folding(b)[DOMAIN b]
  BY DEF FromBytes, FoldLeft, MapThenFoldSet, Folding, Step

\* Bounded sets of numbers have a greatest one.
LEMMA MaxOfSegment == ASSUME NEW k \in Nat PROVE Max(1 .. k + 1) = k + 1
<1>1. \A x \in 1 .. k + 1 : (\A y \in 1 .. k + 1 : x >= y) <=> x = k + 1
  OBVIOUS
<1>2. k + 1 \in 1 .. k + 1
  OBVIOUS
<1> QED BY <1>1, <1>2 DEF Max

\* The recursive equation of the fold has a solution on the sets of the first
\* n positions: with position n + 1 one that has it is formed from those without.
LEMMA FoldingExists ==
  ASSUME NEW b
  PROVE  \A n \in Nat : \E g : g = [s \in SUBSET (1 .. n) |-> Step(b, g, s)]
<1> DEFINE T == {n \in Nat : \E g : g = [s \in SUBSET (1 .. n) |-> Step(b, g, s)]}
<1>1. 0 \in T
  <2> DEFINE g == [s \in SUBSET (1 .. 0) |-> 0]
  <2>1. \A s \in SUBSET (1 .. 0) : s = {}
    OBVIOUS
  <2>2. g = [s \in SUBSET (1 .. 0) |-> Step(b, g, s)]
    BY <2>1 DEF Step
  <2> QED BY <2>2
<1>2. ASSUME NEW n \in Nat, n \in T PROVE n + 1 \in T
  <2>1. PICK h : h = [s \in SUBSET (1 .. n) |-> Step(b, h, s)]
    BY <1>2
  <2> DEFINE g == [s \in SUBSET (1 .. n + 1) |-> Step(b, h, s)]
  <2>2. \A s \in SUBSET (1 .. n) : s \in SUBSET (1 .. n + 1)
    OBVIOUS
  <2>3. \A s \in SUBSET (1 .. n) : g[s] = h[s]
    BY <2>1, <2>2
  <2>4. ASSUME NEW s \in SUBSET (1 .. n + 1), s # {} PROVE s \ {Max(s)} \in SUBSET (1 .. n)
    <3>1. CASE n + 1 \in s
      <4>1. \A x \in s : (\A y \in s : x >= y) <=> x = n + 1
        BY <3>1
      <4>2. Max(s) = n + 1
        BY <3>1, <4>1 DEF Max
      <4> QED BY <4>2
    <3>2. CASE n + 1 \notin s
      <4>1. ASSUME NEW x \in s PROVE x \in 1 .. n
        <5>1. x \in 1 .. n + 1 /\ x # n + 1
          BY <3>2
        <5> QED BY <5>1
      <4> QED BY <4>1
    <3> QED BY <3>1, <3>2
  <2>5. ASSUME NEW s \in SUBSET (1 .. n + 1) PROVE Step(b, h, s) = Step(b, g, s)
    <3> HIDE DEF g
    <3> QED BY <2>3, <2>4 DEF Step
  <2>6. g = [s \in SUBSET (1 .. n + 1) |-> Step(b, g, s)]
    BY <2>5
  <2> HIDE DEF g
  <2>7. \E k : k = [s \in SUBSET (1 .. n + 1) |-> Step(b, k, s)]
    BY <2>6
  <2> QED BY <2>7
<1>3. Nat \subseteq T
  <2> HIDE DEF T
  <2> QED BY <1>1, <1>2, NatSetInduction
<1> QED BY <1>3

\* So FromBytes takes the bytes one by one: upTo[k] is the number of the first k.
LEMMA FromBytesUnfold ==
  ASSUME NEW S, NEW b \in Seq(S)
  PROVE  \E upTo : /\ FromBytes(b) = upTo[Len(b)]
                   /\ upTo[0] = 0
                   /\ \A k \in 0 .. Len(b) - 1 : upTo[k + 1] = 256 * upTo[k] + b[k + 1]
<1>1. Len(b) \in Nat /\ DOMAIN b = 1 .. Len(b)
  OBVIOUS
<1>2. PICK n \in Nat : n = Len(b)
  BY <1>1
<1>3. PICK g : g = [s \in SUBSET (1 .. n) |-> Step(b, g, s)]
  BY FoldingExists
<1> DEFINE it == Folding(b)
<1>4. it = [s \in SUBSET (1 .. n) |-> Step(b, it, s)]
  BY <1>1, <1>2, <1>3 DEF Folding
<1> HIDE DEF it
<1>5. \A s \in SUBSET (1 .. n) : it[s] = Step(b, it, s)
  BY <1>4
<1> DEFINE upTo == [k \in 0 .. n |-> it[1 .. k]]
<1>6. FromBytes(b) = upTo[n]
  BY <1>1, <1>2, FromBytesFolds DEF it
<1>7. upTo[0] = 0
  <2>1. 1 .. 0 = {} /\ {} \in SUBSET (1 .. n)
    OBVIOUS
  <2>2. it[{}] = 0
    BY <1>5, <2>1 DEF Step
  <2> QED BY <2>1, <2>2
<1>8. ASSUME NEW k \in 0 .. n - 1 PROVE upTo[k + 1] = 256 * upTo[k] + b[k + 1]
  <2>1. Max(1 .. k + 1) = k + 1
    BY MaxOfSegment
  <2>0. k \in Nat /\ k + 1 \in 1 .. k + 1
    OBVIOUS
  <2>2. (1 .. k + 1) \ {k + 1} = 1 .. k /\ 1 .. k + 1 # {}
    <3>1. \A x : x \in (1 .. k + 1) \ {k + 1} <=> x \in 1 .. k
      BY <2>0
    <3> QED BY <2>0, <3>1
  <2>4. 1 .. k + 1 \in SUBSET (1 .. n)
    OBVIOUS
  <2>3. it[1 .. k + 1] = 256 * it[1 .. k] + b[k + 1]
    <3> DEFINE u == 1 .. k + 1
    <3>1. Max(u) = k + 1 /\ u \ {Max(u)} = 1 .. k /\ u # {} /\ u \in SUBSET (1 .. n)
      BY <2>1, <2>2, <2>4
    <3> HIDE DEF u
    <3>2. it[u] = 256 * it[1 .. k] + b[k + 1]
      BY <1>5, <3>1 DEF Step
    <3> QED BY <3>2 DEF u
  <2> QED BY <2>3
<1> HIDE DEF upTo
<1> QED BY <1>2, <1>6, <1>7, <1>8

-----------------------------------------------------------------------------
(* Encoding: integers as bytes and back *)

\* The four bytes of a number.
LEMMA ByteAtIs ==
  ASSUME NEW n \in Numbers
  PROVE  /\ ByteAt(n, 0) = n % 256
         /\ ByteAt(n, 1) = (n \div 256) % 256
         /\ ByteAt(n, 2) = (n \div 65536) % 256
         /\ ByteAt(n, 3) = (n \div 16777216) % 256
         /\ \A k \in Nat : k > 3 => ByteAt(n, k) = 0
         /\ \A k \in Nat : ByteAt(n, k) \in Byte
<1>1. n \in Nat
  BY SMT DEF Numbers
<1>2. /\ ByteAt(n, 0) = n % 256
      /\ ByteAt(n, 1) = (n \div 256) % 256
      /\ ByteAt(n, 2) = (n \div 65536) % 256
      /\ ByteAt(n, 3) = (n \div 16777216) % 256
  BY SMT, <1>1 DEF ByteAt
<1>3. \A k \in Nat : k > 3 => ByteAt(n, k) = 0
  BY SMT DEF ByteAt
<1>4. ASSUME NEW k \in Nat PROVE ByteAt(n, k) \in Byte
  <2>1. CASE k > 3
    BY <2>1, <1>3 DEF Byte
  <2>2. CASE k \in {0, 1, 2, 3}
    <3>1. \A m \in Nat : m % 256 \in Byte
      BY DEF Byte
    <3>2. n \div 256 \in Nat /\ n \div 65536 \in Nat /\ n \div 16777216 \in Nat
      BY SMT, <1>1
    <3> QED BY SMT, <1>1, <1>2, <2>2, <3>1, <3>2
  <2> QED BY <2>1, <2>2
<1> QED BY SMT, <1>2, <1>3, <1>4

\* They make up the number.
LEMMA BytesMakeNumber ==
  ASSUME NEW n \in Numbers
  PROVE  256 * (256 * (256 * ByteAt(n, 3) + ByteAt(n, 2)) + ByteAt(n, 1)) + ByteAt(n, 0) = n
<1>1. n \in Nat /\ n <= 2147483647
  BY SMT DEF Numbers
<1>2. (256 * (256 * (256 * ((n \div 16777216) % 256) + ((n \div 65536) % 256)) + ((n \div 256) % 256)) + (n % 256)) = n
  BY SMTT(30), <1>1
<1> QED BY SMT, <1>2, ByteAtIs

\* to_be_bytes gives bytes, as many as the integer is wide.
LEMMA BigEndianIs ==
  ASSUME NEW n \in Numbers, NEW w \in Nat
  PROVE  /\ BigEndian(n, w) \in Seq(Byte) /\ Len(BigEndian(n, w)) = w
         /\ \A i \in 1 .. w : BigEndian(n, w)[i] = ByteAt(n, w - i)
<1>1. \A i \in 1 .. w : ByteAt(n, w - i) \in Byte
  <2>1. \A i \in 1 .. w : w - i \in Nat
    OBVIOUS
  <2> QED BY <2>1, ByteAtIs
<1>2. BigEndian(n, w) \in [1 .. w -> Byte]
  BY <1>1 DEF BigEndian
<1> QED BY <1>2 DEF BigEndian

\* Reading a word of any width from four bytes on gives the number written.
LEMMA WordRoundTrip ==
  ASSUME NEW n \in Numbers, NEW w \in Nat, w >= 4
  PROVE  FromBytes(BigEndian(n, w)) = n
<1> DEFINE b == BigEndian(n, w)
<1>1. b \in Seq(Byte) /\ Len(b) = w /\ \A i \in 1 .. w : b[i] = ByteAt(n, w - i)
  BY BigEndianIs
<1> HIDE DEF b
<1>2. PICK upTo : /\ FromBytes(b) = upTo[w]
                  /\ upTo[0] = 0
                  /\ \A k \in 0 .. w - 1 : upTo[k + 1] = 256 * upTo[k] + b[k + 1]
  <2>1. \E upTo : /\ FromBytes(b) = upTo[Len(b)]
                  /\ upTo[0] = 0
                  /\ \A k \in 0 .. Len(b) - 1 : upTo[k + 1] = 256 * upTo[k] + b[k + 1]
    BY <1>1, FromBytesUnfold
  <2> QED BY <1>1, <2>1
<1>3. upTo[w - 4] = 0
  <2> DEFINE T == {k \in Nat : k <= w - 4 => upTo[k] = 0}
  <2>1. 0 \in T
    BY <1>2
  <2>2. ASSUME NEW k \in Nat, k \in T PROVE k + 1 \in T
    <3>1. SUFFICES ASSUME k + 1 <= w - 4 PROVE upTo[k + 1] = 0
      OBVIOUS
    <3>2. upTo[k] = 0 /\ k \in 0 .. w - 1 /\ k + 1 \in 1 .. w
      BY <2>2, <3>1
    <3>3. b[k + 1] = 0
      <4>1. w - (k + 1) \in Nat /\ w - (k + 1) > 3
        BY <3>1
      <4> QED BY <1>1, <3>2, <4>1, ByteAtIs
    <3> QED BY <1>2, <3>2, <3>3
  <2>3. Nat \subseteq T
    <3> HIDE DEF T
    <3> QED BY <2>1, <2>2, NatSetInduction
  <2> QED BY <2>3
<1>4. /\ b[w - 3] = ByteAt(n, 3) /\ b[w - 2] = ByteAt(n, 2)
      /\ b[w - 1] = ByteAt(n, 1) /\ b[w] = ByteAt(n, 0)
  BY <1>1
<1>5. /\ upTo[w - 3] = 256 * upTo[w - 4] + b[w - 3]
      /\ upTo[w - 2] = 256 * upTo[w - 3] + b[w - 2]
      /\ upTo[w - 1] = 256 * upTo[w - 2] + b[w - 1]
      /\ upTo[w] = 256 * upTo[w - 1] + b[w]
  <2>1. \A k \in 0 .. w - 1 : upTo[k + 1] = 256 * upTo[k] + b[k + 1]
    BY <1>2
  <2>2. /\ w - 4 \in 0 .. w - 1 /\ w - 3 \in 0 .. w - 1 /\ w - 2 \in 0 .. w - 1 /\ w - 1 \in 0 .. w - 1
        /\ w - 4 + 1 = w - 3 /\ w - 3 + 1 = w - 2 /\ w - 2 + 1 = w - 1 /\ w - 1 + 1 = w
    OBVIOUS
  <2> QED BY <2>1, <2>2
<1>6. \A k \in 0 .. 3 : ByteAt(n, k) \in Nat
  <2>1. \A k \in 0 .. 3 : k \in Nat
    OBVIOUS
  <2>2. Byte \subseteq Nat
    BY DEF Byte
  <2>3. \A k \in Nat : ByteAt(n, k) \in Byte
    BY ByteAtIs
  <2> QED BY <2>1, <2>2, <2>3
<1>7. upTo[w] = 256 * (256 * (256 * ByteAt(n, 3) + ByteAt(n, 2)) + ByteAt(n, 1)) + ByteAt(n, 0)
  BY <1>3, <1>4, <1>5, <1>6
<1> QED BY <1>2, <1>7, BytesMakeNumber DEF b

\* The first l bytes of weight l - 1 down to 0.
Digits(n, l) == [i \in 1 .. l |-> ByteAt(n, l - i)]

\* A positive number without its leading zeros: at most four bytes, the first
\* of them not 0.
LEMMA StrippedIs ==
  ASSUME NEW n \in Numbers, n # 0, NEW w \in Nat, w >= 4
  PROVE  \E l \in 1 .. 4 : /\ Stripped(BigEndian(n, w)) = Digits(n, l)
                           /\ ByteAt(n, l - 1) # 0
                           /\ \A k \in l .. 3 : ByteAt(n, k) = 0
<1> DEFINE b == BigEndian(n, w)
           I == {i \in 1 .. Len(b) : b[i] # 0}
<1>1. b \in Seq(Byte) /\ Len(b) = w /\ \A i \in 1 .. w : b[i] = ByteAt(n, w - i)
  BY BigEndianIs
<1> HIDE DEF b
<1>2. \E k \in 0 .. 3 : ByteAt(n, k) # 0
  <2> SUFFICES ASSUME \A k \in 0 .. 3 : ByteAt(n, k) = 0 PROVE FALSE
    OBVIOUS
  <2>1. ByteAt(n, 0) = 0 /\ ByteAt(n, 1) = 0 /\ ByteAt(n, 2) = 0 /\ ByteAt(n, 3) = 0
    OBVIOUS
  <2> QED BY <2>1, BytesMakeNumber
<1>3. PICK l \in 1 .. 4 : ByteAt(n, l - 1) # 0 /\ \A k \in l .. 3 : ByteAt(n, k) = 0
  <2>1. CASE ByteAt(n, 3) # 0
    <3>1. 4 \in 1 .. 4 /\ 4 - 1 = 3 /\ 4 .. 3 = {}
      OBVIOUS
    <3> QED BY <2>1, <3>1
  <2>2. CASE ByteAt(n, 3) = 0 /\ ByteAt(n, 2) # 0
    <3>1. 3 \in 1 .. 4 /\ 3 - 1 = 2 /\ 3 .. 3 = {3}
      OBVIOUS
    <3> QED BY <2>2, <3>1
  <2>3. CASE ByteAt(n, 3) = 0 /\ ByteAt(n, 2) = 0 /\ ByteAt(n, 1) # 0
    <3>1. 2 \in 1 .. 4 /\ 2 - 1 = 1 /\ 2 .. 3 = {2, 3}
      OBVIOUS
    <3> QED BY <2>3, <3>1
  <2>4. CASE ByteAt(n, 3) = 0 /\ ByteAt(n, 2) = 0 /\ ByteAt(n, 1) = 0
    <3>1. 1 \in 1 .. 4 /\ 1 - 1 = 0 /\ 1 .. 3 = {1, 2, 3} /\ 0 .. 3 = {0, 1, 2, 3}
      OBVIOUS
    <3> QED BY <1>2, <2>4, <3>1
  <2> QED BY <2>1, <2>2, <2>3, <2>4
<1>4. \A k \in Nat : k >= l => ByteAt(n, k) = 0
  <2>1. \A k \in Nat : k > 3 => ByteAt(n, k) = 0
    BY ByteAtIs
  <2> QED BY <1>3, <2>1
<1> DEFINE m == w + 1 - l
<1>5. m \in 1 .. w /\ b[m] # 0
  <2>1. m \in 1 .. w /\ w - m = l - 1
    OBVIOUS
  <2> QED BY <1>1, <1>3, <2>1
<1>6. \A i \in 1 .. w : i < m => b[i] = 0
  <2> SUFFICES ASSUME NEW i \in 1 .. w, i < m PROVE b[i] = 0
    OBVIOUS
  <2>1. w - i \in Nat /\ w - i >= l
    OBVIOUS
  <2> QED BY <1>1, <1>4, <2>1
<1>7. SelectInSeq(b, LAMBDA x : x # 0) = m
  <2>1. m \in I /\ \A i \in I : m <= i
    BY <1>1, <1>5, <1>6
  <2>2. \A x \in I : (\A y \in I : x <= y) <=> x = m
    BY <1>1, <2>1
  <2> HIDE DEF m
  <2>3. I # {} /\ Min(I) = m
    <3> HIDE DEF I
    <3> QED BY <2>1, <2>2 DEF Min
  <2> QED BY <2>3 DEF SelectInSeq
<1>8. Stripped(b) = SubSeq(b, m, w)
  BY <1>1, <1>7 DEF Stripped
<1>9. SubSeq(b, m, w) = Digits(n, l)
  <2>1. /\ SubSeq(b, m, w) \in Seq(Byte) /\ Len(SubSeq(b, m, w)) = l
        /\ \A i \in 1 .. l : SubSeq(b, m, w)[i] = b[m + i - 1]
    <3>1. \A i \in m .. w : b[i] \in Byte
      BY <1>1, <1>5
    <3>2. m \in Int /\ w \in Int /\ w - m + 1 = l /\ m <= w
      BY <1>5
    <3> HIDE DEF m
    <3> QED BY <3>1, <3>2, SubSeqProperties
  <2>2. \A i \in 1 .. l : m + i - 1 \in 1 .. w /\ w - (m + i - 1) = l - i
    BY <1>5
  <2>3. \A i \in 1 .. l : SubSeq(b, m, w)[i] = ByteAt(n, l - i)
    BY <1>1, <2>1, <2>2
  <2> HIDE DEF m
  <2>4. \A i \in 1 .. l : ByteAt(n, l - i) \in Byte
    <3>1. \A i \in 1 .. l : l - i \in Nat
      OBVIOUS
    <3> QED BY <3>1, ByteAtIs
  <2>5. Digits(n, l) \in [1 .. l -> Byte]
    BY <2>4 DEF Digits
  <2>6. Digits(n, l) \in Seq(Byte) /\ Len(Digits(n, l)) = l /\ \A i \in 1 .. l : Digits(n, l)[i] = ByteAt(n, l - i)
    BY <2>5 DEF Digits
  <2> QED BY <2>1, <2>3, <2>6, SeqEqual
<1> QED BY <1>3, <1>8, <1>9 DEF b

\* Nothing is lost with the leading zeros.
LEMMA StrippedRoundTrip ==
  ASSUME NEW n \in Numbers, n # 0, NEW w \in Nat, w >= 4
  PROVE  LET b == Stripped(BigEndian(n, w))
         IN  b \in Seq(Byte) /\ Len(b) \in 1 .. 4 /\ b[1] # 0 /\ FromBytes(b) = n
<1>1. PICK l \in 1 .. 4 : /\ Stripped(BigEndian(n, w)) = Digits(n, l)
                          /\ ByteAt(n, l - 1) # 0
                          /\ \A k \in l .. 3 : ByteAt(n, k) = 0
  BY StrippedIs
<1> DEFINE b == Digits(n, l)
<1>2. b \in Seq(Byte) /\ Len(b) = l /\ \A i \in 1 .. l : b[i] = ByteAt(n, l - i)
  <2>1. \A i \in 1 .. l : l - i \in Nat
    OBVIOUS
  <2>2. b \in [1 .. l -> Byte]
    BY <2>1, ByteAtIs DEF Digits
  <2> QED BY <2>2 DEF Digits
<1> HIDE DEF b
<1>3. \A k \in 0 .. 3 : ByteAt(n, k) \in Nat
  <2>1. \A k \in Nat : ByteAt(n, k) \in Byte
    BY ByteAtIs
  <2> QED BY <2>1 DEF Byte
<1>4. \E upTo : /\ FromBytes(b) = upTo[Len(b)]
                /\ upTo[0] = 0
                /\ \A k \in 0 .. Len(b) - 1 : upTo[k + 1] = 256 * upTo[k] + b[k + 1]
  BY <1>2, FromBytesUnfold
<1>5. PICK upTo : /\ FromBytes(b) = upTo[l]
                  /\ upTo[0] = 0
                  /\ \A k \in 0 .. l - 1 : upTo[k + 1] = 256 * upTo[k] + b[k + 1]
  BY <1>2, <1>4
<1>6. FromBytes(b) = 256 * (256 * (256 * ByteAt(n, 3) + ByteAt(n, 2)) + ByteAt(n, 1)) + ByteAt(n, 0)
  <2>1. CASE l = 1
    <3>1. ByteAt(n, 1) = 0 /\ ByteAt(n, 2) = 0 /\ ByteAt(n, 3) = 0
      BY <1>1, <2>1
    <3>2. upTo[1] = 256 * upTo[0] + b[1] /\ b[1] = ByteAt(n, 0)
      BY <1>2, <1>5, <2>1
    <3> QED BY <1>3, <1>5, <2>1, <3>1, <3>2
  <2>2. CASE l = 2
    <3>1. ByteAt(n, 2) = 0 /\ ByteAt(n, 3) = 0
      BY <1>1, <2>2
    <3>2. /\ upTo[1] = 256 * upTo[0] + b[1] /\ b[1] = ByteAt(n, 1)
          /\ upTo[2] = 256 * upTo[1] + b[2] /\ b[2] = ByteAt(n, 0)
      BY <1>2, <1>5, <2>2
    <3>3. upTo[0] = 0 /\ FromBytes(b) = upTo[2]
      BY <1>5, <2>2
    <3>4. upTo[1] = ByteAt(n, 1)
      BY <1>3, <3>2, <3>3
    <3>5. upTo[2] = 256 * ByteAt(n, 1) + ByteAt(n, 0)
      BY <3>2, <3>4
    <3>6. 256 * (256 * (256 * ByteAt(n, 3) + ByteAt(n, 2)) + ByteAt(n, 1)) + ByteAt(n, 0)
            = 256 * ByteAt(n, 1) + ByteAt(n, 0)
      BY <1>3, <3>1
    <3> QED BY <3>3, <3>5, <3>6
  <2>3. CASE l = 3
    <3>1. ByteAt(n, 3) = 0
      BY <1>1, <2>3
    <3>2. /\ upTo[1] = 256 * upTo[0] + b[1] /\ b[1] = ByteAt(n, 2)
          /\ upTo[2] = 256 * upTo[1] + b[2] /\ b[2] = ByteAt(n, 1)
          /\ upTo[3] = 256 * upTo[2] + b[3] /\ b[3] = ByteAt(n, 0)
      BY <1>2, <1>5, <2>3
    <3> QED BY <1>3, <1>5, <2>3, <3>1, <3>2
  <2>4. CASE l = 4
    <3>2. /\ upTo[1] = 256 * upTo[0] + b[1] /\ b[1] = ByteAt(n, 3)
          /\ upTo[2] = 256 * upTo[1] + b[2] /\ b[2] = ByteAt(n, 2)
          /\ upTo[3] = 256 * upTo[2] + b[3] /\ b[3] = ByteAt(n, 1)
          /\ upTo[4] = 256 * upTo[3] + b[4] /\ b[4] = ByteAt(n, 0)
      BY <1>2, <1>5, <2>4
    <3> QED BY <1>3, <1>5, <2>4, <3>2
  <2> QED BY <2>1, <2>2, <2>3, <2>4
<1>7. FromBytes(b) = n
  BY <1>6, BytesMakeNumber
<1>8. b[1] # 0
  BY <1>1, <1>2
<1> QED BY <1>1, <1>2, <1>7, <1>8 DEF b

-----------------------------------------------------------------------------
(* Encoding: RLP items *)

\* The bytes e stand in s from position p on.
At(s, p, e) == p + Len(e) - 1 <= Len(s) /\ \A i \in 1 .. Len(e) : s[p + i - 1] = e[i]

\* A byte string stands in itself, and the parts of a concatenation one after the other.
LEMMA AtItself == ASSUME NEW s \in Seq(Byte) PROVE At(s, 1, s)
  BY DEF At

\* Where two byte strings stand together each of them stands.
LEMMA AtParts ==
  ASSUME NEW s \in Seq(Byte), NEW p \in Nat \ {0}, NEW a \in Seq(Byte), NEW b \in Seq(Byte), At(s, p, a \o b)
  PROVE  At(s, p, a) /\ At(s, p + Len(a), b)
<1>1. Len(a) \in Nat /\ Len(b) \in Nat /\ Len(s) \in Nat /\ Len(a \o b) = Len(a) + Len(b)
  OBVIOUS
<1>2. \A i \in 1 .. Len(a) : (a \o b)[i] = a[i] /\ i \in 1 .. Len(a \o b)
  BY <1>1
<1>3. \A i \in 1 .. Len(b) : (a \o b)[Len(a) + i] = b[i] /\ Len(a) + i \in 1 .. Len(a \o b)
  BY <1>1
<1>4. At(s, p, a)
  BY <1>1, <1>2 DEF At
<1>5. ASSUME NEW i \in 1 .. Len(b) PROVE s[(p + Len(a)) + i - 1] = b[i]
  <2>1. p + (Len(a) + i) - 1 = (p + Len(a)) + i - 1
    BY <1>1
  <2>2. s[p + (Len(a) + i) - 1] = (a \o b)[Len(a) + i]
    BY <1>3 DEF At
  <2> QED BY <1>3, <2>1, <2>2
<1>6. At(s, p + Len(a), b)
  BY <1>1, <1>5 DEF At
<1> QED BY <1>4, <1>6

\* What stands there is what is cut out.
LEMMA AtCut ==
  ASSUME NEW s \in Seq(Byte), NEW p \in Nat \ {0}, NEW e \in Seq(Byte), At(s, p, e)
  PROVE  SubSeq(s, p, p + Len(e) - 1) = e
<1> DEFINE q == p + Len(e) - 1
<1>1. Len(e) \in Nat /\ Len(s) \in Nat /\ q \in Int /\ p \in Int /\ q <= Len(s) /\ q - p + 1 = Len(e)
  BY DEF At
<1>2. \A i \in p .. q : s[i] \in Byte
  BY <1>1
<1> HIDE DEF q
<1>3. /\ SubSeq(s, p, q) \in Seq(Byte)
      /\ Len(SubSeq(s, p, q)) = IF p <= q THEN q - p + 1 ELSE 0
      /\ \A i \in 1 .. q - p + 1 : SubSeq(s, p, q)[i] = s[p + i - 1]
  BY <1>1, <1>2, SubSeqProperties
<1>4. Len(SubSeq(s, p, q)) = Len(e)
  BY <1>1, <1>3
<1>5. \A i \in 1 .. Len(SubSeq(s, p, q)) : SubSeq(s, p, q)[i] = e[i]
  BY <1>1, <1>3, <1>4 DEF At
<1> QED BY <1>3, <1>4, <1>5, SeqEqual DEF q

\* One byte stands where the string of it stands.
LEMMA AtByte ==
  ASSUME NEW s \in Seq(Byte), NEW p \in Nat \ {0}, NEW x \in Byte, At(s, p, <<x>>)
  PROVE  s[p] = x /\ p <= Len(s)
<1>1. Len(<<x>>) = 1 /\ <<x>>[1] = x
  OBVIOUS
<1> QED BY <1>1 DEF At

\* An item whose payload d comes right after the first byte, and one whose
\* payload comes after its length in bytes u.
LEMMA ShortItemIs ==
  ASSUME NEW s \in Seq(Byte), NEW p \in Nat \ {0}, NEW kind, NEW d \in Seq(Byte), At(s, p + 1, d)
  PROVE  Item(s, p, kind, 0, Len(d)) = [kind |-> kind, payload |-> d, next |-> p + 1 + Len(d)]
<1>1. p + 1 \in Nat \ {0} /\ Len(d) \in Nat
  OBVIOUS
<1>2. SubSeq(s, p + 1, (p + 1) + Len(d) - 1) = d
  BY <1>1, AtCut
<1>3. p + 0 + 1 = p + 1 /\ p + 0 + Len(d) = (p + 1) + Len(d) - 1 /\ p + 0 + Len(d) + 1 = p + 1 + Len(d)
  BY <1>1
<1> QED BY <1>2, <1>3 DEF Item

\* A payload after its length in bytes is the item's payload.
LEMMA LongItemIs ==
  ASSUME NEW s \in Seq(Byte), NEW p \in Nat \ {0}, NEW kind, NEW u \in Seq(Byte), NEW d \in Seq(Byte),
         FromBytes(u) = Len(d), At(s, p + 1, u), At(s, p + 1 + Len(u), d)
  PROVE  LongItem(s, p, kind, Len(u))
           = [kind |-> kind, payload |-> d, next |-> p + 1 + Len(u) + Len(d)]
<1>1. p + 1 \in Nat \ {0} /\ Len(u) \in Nat /\ Len(d) \in Nat /\ p + 1 + Len(u) \in Nat \ {0}
  OBVIOUS
<1>2. SubSeq(s, p + 1, (p + 1) + Len(u) - 1) = u
  BY <1>1, AtCut
<1>3. (p + 1) + Len(u) - 1 = p + Len(u)
  BY <1>1
<1>4. FromBytes(SubSeq(s, p + 1, p + Len(u))) = Len(d)
  BY <1>2, <1>3
<1>5. SubSeq(s, p + 1 + Len(u), (p + 1 + Len(u)) + Len(d) - 1) = d
  BY <1>1, AtCut
<1>6. /\ p + Len(u) + 1 = p + 1 + Len(u) /\ p + Len(u) + Len(d) = (p + 1 + Len(u)) + Len(d) - 1
      /\ p + Len(u) + Len(d) + 1 = p + 1 + Len(u) + Len(d)
  BY <1>1
<1> QED BY <1>4, <1>5, <1>6 DEF LongItem, Item

\* A length in bytes.
LEMMA LengthBytes ==
  ASSUME NEW n \in Numbers, n # 0
  PROVE  /\ rlp_uint_bytes(n) \in Seq(Byte) /\ Len(rlp_uint_bytes(n)) \in 1 .. 4
         /\ FromBytes(rlp_uint_bytes(n)) = n
  BY StrippedRoundTrip DEF rlp_uint_bytes

\* The five kinds of items by their first byte.
LEMMA ItemKinds ==
  ASSUME NEW s, NEW p
  PROVE  /\ s[p] \in 0 .. 127 => ItemAt(s, p) = [kind |-> "string", payload |-> <<s[p]>>, next |-> p + 1]
         /\ \A n \in 0 .. 55 : s[p] = 128 + n => ItemAt(s, p) = Item(s, p, "string", 0, n)
         /\ \A k \in 1 .. 8 : s[p] = 183 + k => ItemAt(s, p) = LongItem(s, p, "string", k)
         /\ \A n \in 0 .. 55 : s[p] = 192 + n => ItemAt(s, p) = Item(s, p, "list", 0, n)
         /\ \A k \in 1 .. 8 : s[p] = 247 + k => ItemAt(s, p) = LongItem(s, p, "list", k)
<1>1. ASSUME s[p] \in 0 .. 127
      PROVE  ItemAt(s, p) = [kind |-> "string", payload |-> <<s[p]>>, next |-> p + 1]
  <2>1. s[p] < 128
    BY <1>1
  <2> QED BY <2>1 DEF ItemAt
<1> DEFINE b == s[p]
<1>2. ItemAt(s, p) = CASE b < 128 -> [kind |-> "string", payload |-> <<b>>, next |-> p + 1]
        [] b \in 128 .. 183 -> Item(s, p, "string", 0, b - 128)
        [] b \in 184 .. 191 -> LongItem(s, p, "string", b - 183)
        [] b \in 192 .. 247 -> Item(s, p, "list", 0, b - 192)
        [] OTHER -> LongItem(s, p, "list", b - 247)
  BY DEF ItemAt
<1> HIDE DEF b
<1>3. ASSUME NEW n \in 0 .. 55, b = 128 + n PROVE ItemAt(s, p) = Item(s, p, "string", 0, n)
  <2>1. ~(b < 128) /\ b \in 128 .. 183 /\ b - 128 = n
    BY <1>3
  <2> QED BY <1>2, <2>1
<1>4. ASSUME NEW k \in 1 .. 8, b = 183 + k PROVE ItemAt(s, p) = LongItem(s, p, "string", k)
  <2>1. ~(b < 128) /\ b \notin 128 .. 183 /\ b \in 184 .. 191 /\ b - 183 = k
    BY <1>4
  <2> QED BY <1>2, <2>1
<1>5. ASSUME NEW n \in 0 .. 55, b = 192 + n PROVE ItemAt(s, p) = Item(s, p, "list", 0, n)
  <2>1. ~(b < 128) /\ b \notin 128 .. 183 /\ b \notin 184 .. 191 /\ b \in 192 .. 247 /\ b - 192 = n
    BY <1>5
  <2> QED BY <1>2, <2>1
<1>6. ASSUME NEW k \in 1 .. 8, b = 247 + k PROVE ItemAt(s, p) = LongItem(s, p, "list", k)
  <2>1. ~(b < 128) /\ b \notin 128 .. 183 /\ b \notin 184 .. 191 /\ b \notin 192 .. 247 /\ b - 247 = k
    BY <1>6
  <2> QED BY <1>2, <2>1
<1> QED BY <1>1, <1>3, <1>4, <1>5, <1>6 DEF b

\* Header and payload of a string (from 128 on) or a list (from 192 on).
Header(short, n) ==
  IF n < 56 THEN <<short + n>>
  ELSE <<short + 55 + Len(rlp_uint_bytes(n))>> \o rlp_uint_bytes(n)

\* A header is one to five bytes.
LEMMA HeaderIs ==
  ASSUME NEW short \in {128, 192}, NEW n \in Numbers
  PROVE  Header(short, n) \in Seq(Byte) /\ Len(Header(short, n)) \in 1 .. 5
<1>1. n \in Nat
  BY SMT DEF Numbers
<1>2. CASE n < 56
  <2>1. short + n \in Byte
    BY <1>1, <1>2 DEF Byte
  <2> QED BY <1>2, <2>1 DEF Header
<1>3. CASE ~(n < 56)
  <2> DEFINE u == rlp_uint_bytes(n)
  <2>1. n # 0
    BY <1>1, <1>3
  <2>2. u \in Seq(Byte) /\ Len(u) \in 1 .. 4
    BY <2>1, LengthBytes
  <2>3. Header(short, n) = <<short + 55 + Len(u)>> \o u
    BY <1>3 DEF Header
  <2> HIDE DEF u
  <2>4. PICK k \in 1 .. 4 : k = Len(u)
    BY <2>2
  <2>5. short + 55 + k \in Byte
    BY DEF Byte
  <2>6. <<short + 55 + k>> \in Seq(Byte) /\ Len(<<short + 55 + k>>) = 1
    BY <2>5
  <2> DEFINE x == <<short + 55 + k>>
  <2>7. Header(short, n) = x \o u
    BY <2>3, <2>4
  <2> HIDE DEF x
  <2>8. x \o u \in Seq(Byte) /\ Len(x \o u) = 1 + k
    BY <2>2, <2>4, <2>6 DEF x
  <2>9. 1 + k \in 1 .. 5
    OBVIOUS
  <2> QED BY <2>7, <2>8, <2>9
<1> QED BY <1>2, <1>3

\* What ItemAt makes of either.
LEMMA PayloadItem ==
  ASSUME NEW short \in {128, 192}, NEW s \in Seq(Byte), NEW p \in Nat \ {0}, NEW d \in Seq(Byte),
         Len(d) \in Numbers, At(s, p, Header(short, Len(d)) \o d)
  PROVE  ItemAt(s, p) = [kind |-> IF short = 128 THEN "string" ELSE "list", payload |-> d,
                         next |-> p + Len(Header(short, Len(d)) \o d)]
<1> DEFINE kind == IF short = 128 THEN "string" ELSE "list"
           h == Header(short, Len(d))
<1>1. h \in Seq(Byte) /\ Len(h) \in Nat /\ Len(d) \in Nat /\ Len(h \o d) = Len(h) + Len(d)
  BY HeaderIs
<1>2. At(s, p, h) /\ At(s, p + Len(h), d)
  BY <1>1, AtParts
<1>0. /\ \A n \in 0 .. 55 : s[p] = 128 + n => ItemAt(s, p) = Item(s, p, "string", 0, n)
      /\ \A k \in 1 .. 8 : s[p] = 183 + k => ItemAt(s, p) = LongItem(s, p, "string", k)
      /\ \A n \in 0 .. 55 : s[p] = 192 + n => ItemAt(s, p) = Item(s, p, "list", 0, n)
      /\ \A k \in 1 .. 8 : s[p] = 247 + k => ItemAt(s, p) = LongItem(s, p, "list", k)
  BY ItemKinds
<1> DEFINE l == Len(d)
<1>9. l \in Nat
  BY <1>1
<1>3. CASE Len(d) < 56
  <2>1. h = <<short + Len(d)>> /\ short + Len(d) \in Byte
    BY <1>1, <1>3 DEF Header, Byte
  <2>2. s[p] = short + Len(d) /\ Len(h) = 1
    BY <1>2, <2>1, AtByte
  <2>3. Item(s, p, kind, 0, Len(d)) = [kind |-> kind, payload |-> d, next |-> p + 1 + Len(d)]
    BY <1>2, <2>2, ShortItemIs
  <2>4. ItemAt(s, p) = Item(s, p, kind, 0, Len(d))
    <3>0. l \in Nat /\ l < 56
      BY <1>3, <1>9
    <3>1. PICK n \in 0 .. 55 : n = Len(d)
      <4> HIDE DEF l
      <4>1. \E n \in 0 .. 55 : n = l
        BY <3>0
      <4> QED BY <4>1 DEF l
    <3>2. s[p] = short + n
      BY <2>2, <3>1
    <3>3. CASE short = 128
      <4>1. s[p] = 128 + n /\ kind = "string"
        BY <3>2, <3>3
      <4>2. ItemAt(s, p) = Item(s, p, "string", 0, n)
        BY <1>0, <4>1
      <4> QED BY <3>1, <4>1, <4>2
    <3>4. CASE short = 192
      <4>1. s[p] = 192 + n /\ kind = "list"
        BY <3>2, <3>4
      <4>2. ItemAt(s, p) = Item(s, p, "list", 0, n)
        BY <1>0, <4>1
      <4> QED BY <3>1, <4>1, <4>2
    <3> QED BY <3>3, <3>4
  <2> HIDE DEF h
  <2>5. p + 1 + Len(d) = p + Len(h \o d)
    BY <1>1, <2>2
  <2> QED BY <2>3, <2>4, <2>5 DEF h
<1>4. CASE ~(Len(d) < 56)
  <2> DEFINE u == rlp_uint_bytes(Len(d))
  <2>1. u \in Seq(Byte) /\ Len(u) \in 1 .. 4 /\ FromBytes(u) = Len(d)
    <3>1. Len(d) # 0
      BY <1>1, <1>4
    <3> QED BY <3>1, LengthBytes
  <2>2. h = <<short + 55 + Len(u)>> \o u
    BY <1>4 DEF Header
  <2> HIDE DEF u
  <2>3. PICK k \in 1 .. 4 : k = Len(u)
    BY <2>1
  <2> DEFINE x == <<short + 55 + k>>
  <2>4. short + 55 + k \in Byte
    BY DEF Byte
  <2>5. x \in Seq(Byte) /\ Len(x) = 1 /\ h = x \o u
    BY <2>2, <2>3, <2>4
  <2>6. At(s, p, x) /\ At(s, p + 1, u) /\ Len(h) = 1 + Len(u)
    <3> HIDE DEF x, h
    <3>1. PICK a \in Seq(Byte) : a = x /\ Len(a) = 1
      BY <2>5
    <3>2. PICK b \in Seq(Byte) : b = u
      BY <2>1
    <3>3. At(s, p, a \o b)
      BY <1>2, <2>5, <3>1, <3>2
    <3>4. At(s, p, a) /\ At(s, p + Len(a), b)
      BY <3>3, AtParts
    <3>5. Len(a \o b) = 1 + Len(b)
      <4>1. Len(a \o b) = Len(a) + Len(b)
        BY ConcatProperties
      <4> QED BY <3>1, <4>1
    <3> QED BY <2>5, <3>1, <3>2, <3>4, <3>5
  <2>10. s[p] = short + 55 + k
    BY <2>4, <2>6, AtByte
  <2> HIDE DEF x, h
  <2>7. LongItem(s, p, kind, Len(u)) = [kind |-> kind, payload |-> d, next |-> p + 1 + Len(u) + Len(d)]
    <3>1. p + Len(h) = p + 1 + Len(u)
      BY <1>1, <2>1, <2>6
    <3>2. At(s, p + 1 + Len(u), d)
      BY <1>2, <3>1
    <3>3. PICK b \in Seq(Byte) : b = u
      BY <2>1
    <3>4. FromBytes(b) = Len(d) /\ At(s, p + 1, b) /\ At(s, p + 1 + Len(b), d)
      BY <2>1, <2>6, <3>2, <3>3
    <3>5. LongItem(s, p, kind, Len(b)) = [kind |-> kind, payload |-> d, next |-> p + 1 + Len(b) + Len(d)]
      BY <3>4, LongItemIs
    <3> QED BY <3>3, <3>5
  <2>8. ItemAt(s, p) = LongItem(s, p, kind, Len(u))
    <3>1. k \in 1 .. 8
      OBVIOUS
    <3>2. CASE short = 128
      <4>1. s[p] = 183 + k /\ kind = "string"
        BY <2>10, <3>2
      <4>2. ItemAt(s, p) = LongItem(s, p, "string", k)
        BY <1>0, <3>1, <4>1
      <4> QED BY <2>3, <4>1, <4>2
    <3>3. CASE short = 192
      <4>1. s[p] = 247 + k /\ kind = "list"
        BY <2>10, <3>3
      <4>2. ItemAt(s, p) = LongItem(s, p, "list", k)
        BY <1>0, <3>1, <4>1
      <4> QED BY <2>3, <4>1, <4>2
    <3> QED BY <3>2, <3>3
  <2>9. p + 1 + Len(u) + Len(d) = p + Len(h \o d)
    BY <1>1, <2>1, <2>6
  <2> QED BY <2>7, <2>8, <2>9 DEF h
<1> QED BY <1>3, <1>4

\* rlp_length_encode writes the header of a string.
LEMMA LengthEncodeIs == ASSUME NEW n \in Nat, n \in Numbers PROVE rlp_length_encode(n) = Header(128, n)
<1>1. CASE n < 56
  BY <1>1 DEF rlp_length_encode, Header
<1>2. CASE ~(n < 56)
  <2>1. n # 0
    BY <1>2
  <2>2. PICK k \in 1 .. 4 : k = Len(rlp_uint_bytes(n))
    BY <2>1, LengthBytes
  <2>3. 183 + k = 128 + 55 + k
    OBVIOUS
  <2> QED BY <1>2, <2>2, <2>3 DEF rlp_length_encode, Header
<1> QED BY <1>1, <1>2

\* What rlp_append_bytes and rlp_append_uint append.
BytesField(d) == Header(128, Len(d)) \o d
UintPayload(val) == IF val = 0 THEN <<>> ELSE Stripped(BigEndian(val, 16))
UintField(val) ==
  LET bytes == UintPayload(val) IN IF Len(bytes) = 1 /\ bytes[1] < 128 THEN bytes ELSE BytesField(bytes)

\* The empty string is one byte, 0x80.
LEMMA EmptyField == BytesField(<<>>) = <<128>>
<1>1. Header(128, Len(<<>>)) = <<128>>
  BY DEF Header
<1>2. <<128>> \in Seq(Int)
  OBVIOUS
<1> QED BY <1>1, <1>2, ConcatEmptySeq DEF BytesField

\* rlp_append_bytes appends the field of the bytes, empty or not.
LEMMA AppendBytesIs ==
  ASSUME NEW buf, NEW d \in Seq(Byte), Len(d) \in Numbers
  PROVE  rlp_append_bytes(buf, d) = buf \o BytesField(d)
<1>1. CASE d = <<>>
  BY <1>1, EmptyField DEF rlp_append_bytes
<1>2. CASE d # <<>>
  <2>1. PICK n \in Nat : n = Len(d)
    OBVIOUS
  <2>2. rlp_length_encode(Len(d)) = Header(128, Len(d))
    BY <2>1, LengthEncodeIs
  <2> QED BY <1>2, <2>2 DEF rlp_append_bytes, BytesField
<1> QED BY <1>1, <1>2

\* The bytes of an integer in RLP: no leading zero, and they say the integer.
LEMMA UintPayloadIs ==
  ASSUME NEW val \in Numbers
  PROVE  /\ UintPayload(val) \in Seq(Byte) /\ Len(UintPayload(val)) \in 0 .. 4
         /\ UintPayload(val) = <<>> \/ UintPayload(val)[1] # 0
         /\ FromBytes(UintPayload(val)) = val
<1>1. CASE val = 0
  <2>1. UintPayload(val) = <<>>
    BY <1>1 DEF UintPayload
  <2>2. <<>> \in Seq(Byte) /\ Len(<<>>) = 0
    OBVIOUS
  <2>3. FromBytes(<<>>) = 0
    BY <2>2, FromBytesUnfold
  <2>4. /\ UintPayload(val) \in Seq(Byte)
        /\ UintPayload(val) = <<>> \/ UintPayload(val)[1] # 0
        /\ FromBytes(UintPayload(val)) = val
    BY <1>1, <2>1, <2>2, <2>3
  <2>5. Len(UintPayload(val)) \in 0 .. 4
    BY <2>1, <2>2
  <2> QED BY <2>4, <2>5
<1>2. CASE val # 0
  <2> DEFINE b == Stripped(BigEndian(val, 16))
  <2>1. b \in Seq(Byte) /\ Len(b) \in 1 .. 4 /\ b[1] # 0 /\ FromBytes(b) = val
    BY <1>2, StrippedRoundTrip
  <2>2. UintPayload(val) = b
    BY <1>2 DEF UintPayload
  <2> HIDE DEF b
  <2>3. Len(b) \in 0 .. 4
    BY <2>1
  <2> QED BY <2>1, <2>2, <2>3
<1> QED BY <1>1, <1>2

\* rlp_append_uint appends the field of the integer, zero or not.
LEMMA AppendUintIs ==
  ASSUME NEW buf, NEW val \in Numbers
  PROVE  rlp_append_uint(buf, val) = buf \o UintField(val)
<1>1. CASE val = 0
  <2>1. UintPayload(val) = <<>> /\ Len(<<>>) # 1
    BY <1>1 DEF UintPayload
  <2> QED BY <1>1, <2>1, EmptyField DEF rlp_append_uint, UintField
<1>2. CASE val # 0
  <2> DEFINE b == Stripped(BigEndian(val, 16))
  <2>1. UintPayload(val) = b
    BY <1>2 DEF UintPayload
  <2>2. Len(b) \in 0 .. 4
    BY <2>1, UintPayloadIs
  <2>3. rlp_append_uint(buf, val) = buf \o IF Len(b) = 1 /\ b[1] < 128 THEN b ELSE rlp_length_encode(Len(b)) \o b
    BY <1>2 DEF rlp_append_uint
  <2> HIDE DEF b
  <2>4. PICK n \in 0 .. 4 : n = Len(b)
    BY <2>2
  <2>5. n \in Nat /\ n \in Numbers
    BY SMT DEF Numbers
  <2>6. rlp_length_encode(Len(b)) \o b = BytesField(b)
    BY <2>4, <2>5, LengthEncodeIs DEF BytesField
  <2> QED BY <2>1, <2>3, <2>6 DEF UintField
<1> QED BY <1>1, <1>2

\* The fields are read back as they were written.
LEMMA BytesFieldIs ==
  ASSUME NEW d \in Seq(Byte), Len(d) \in Numbers
  PROVE  /\ BytesField(d) \in Seq(Byte) /\ Len(BytesField(d)) \in Len(d) + 1 .. Len(d) + 5
         /\ \A s \in Seq(Byte) : \A p \in Nat \ {0} : At(s, p, BytesField(d)) =>
              ItemAt(s, p) = [kind |-> "string", payload |-> d, next |-> p + Len(BytesField(d))]
<1>1. PICK h \in Seq(Byte) : h = Header(128, Len(d)) /\ Len(h) \in 1 .. 5
  BY HeaderIs
<1>2. h \o d \in Seq(Byte) /\ Len(h \o d) = Len(h) + Len(d)
  BY ConcatProperties
<1>3. Len(h \o d) \in Len(d) + 1 .. Len(d) + 5
  <2>1. PICK k \in 1 .. 5 : k = Len(h)
    BY <1>1
  <2>2. PICK n \in Nat : n = Len(d)
    OBVIOUS
  <2>3. Len(h \o d) = k + n
    BY <1>2, <2>1, <2>2
  <2> QED BY <2>2, <2>3
<1>4. ASSUME NEW s \in Seq(Byte), NEW p \in Nat \ {0}, At(s, p, BytesField(d))
      PROVE  ItemAt(s, p) = [kind |-> "string", payload |-> d, next |-> p + Len(BytesField(d))]
  <2>1. 128 \in {128, 192} /\ At(s, p, Header(128, Len(d)) \o d)
    BY <1>4 DEF BytesField
  <2> QED BY <2>1, PayloadItem DEF BytesField
<1> QED BY <1>1, <1>2, <1>3, <1>4 DEF BytesField

\* The field of an integer is read as its bytes wherever it stands.
LEMMA UintFieldIs ==
  ASSUME NEW val \in Numbers
  PROVE  /\ UintField(val) \in Seq(Byte) /\ Len(UintField(val)) \in 1 .. 9
         /\ \A s \in Seq(Byte) : \A p \in Nat \ {0} : At(s, p, UintField(val)) =>
              ItemAt(s, p) = [kind |-> "string", payload |-> UintPayload(val), next |-> p + Len(UintField(val))]
<1>1. PICK b \in Seq(Byte) : b = UintPayload(val) /\ Len(b) \in 0 .. 4
  BY UintPayloadIs
<1>2. CASE Len(b) = 1 /\ b[1] < 128
  <2>1. UintField(val) = b
    BY <1>1, <1>2 DEF UintField
  <2>2. b = <<b[1]>> /\ b[1] \in Byte
    BY <1>2
  <2>3. b[1] \in 0 .. 127
    <3>1. PICK y \in 0 .. 255 : y = b[1]
      BY <2>2 DEF Byte
    <3>2. y < 128
      BY <1>2, <3>1
    <3>3. y \in 0 .. 127
      BY <3>2
    <3> QED BY <3>1, <3>3
  <2>4. ASSUME NEW s \in Seq(Byte), NEW p \in Nat \ {0}, At(s, p, b)
        PROVE  ItemAt(s, p) = [kind |-> "string", payload |-> b, next |-> p + 1]
    <3>1. s[p] = b[1]
      BY <2>2, <2>4, AtByte
    <3>2. s[p] \in 0 .. 127 => ItemAt(s, p) = [kind |-> "string", payload |-> <<s[p]>>, next |-> p + 1]
      BY ItemKinds
    <3> QED BY <2>2, <2>3, <3>1, <3>2
  <2>5. Len(UintField(val)) \in 1 .. 9 /\ \A p \in Nat \ {0} : p + Len(UintField(val)) = p + 1
    <3>1. Len(UintField(val)) = 1 /\ 1 \in 1 .. 9
      BY <1>2, <2>1
    <3> QED BY <3>1
  <2> QED BY <1>1, <2>1, <2>4, <2>5
<1>3. CASE ~(Len(b) = 1 /\ b[1] < 128)
  <2>1. UintField(val) = BytesField(b)
    BY <1>1, <1>3 DEF UintField
  <2>4. PICK n \in 0 .. 4 : n = Len(b)
    BY <1>1
  <2>2. Len(b) \in Numbers
    <3>1. n \in Numbers
      BY SMT DEF Numbers
    <3> QED BY <2>4, <3>1
  <2>3. /\ BytesField(b) \in Seq(Byte) /\ Len(BytesField(b)) \in Len(b) + 1 .. Len(b) + 5
        /\ \A s \in Seq(Byte) : \A p \in Nat \ {0} : At(s, p, BytesField(b)) =>
             ItemAt(s, p) = [kind |-> "string", payload |-> b, next |-> p + Len(BytesField(b))]
    BY <2>2, BytesFieldIs
  <2>5. Len(BytesField(b)) \in 1 .. 9
    <3>1. PICK m \in n + 1 .. n + 5 : m = Len(BytesField(b))
      BY <2>3, <2>4
    <3>2. m \in 1 .. 9
      OBVIOUS
    <3> QED BY <3>1, <3>2
  <2> QED BY <1>1, <2>1, <2>3, <2>5
<1> QED BY <1>2, <1>3

\* What Items computes, from the back of the list.
ItemsFrom(s, f, p) ==
  IF p > Len(s) THEN <<>>
  ELSE <<ItemAt(s, p)>> \o IF ItemAt(s, p).next \in p + 1 .. Len(s) + 1 THEN f[ItemAt(s, p).next] ELSE <<>>
AllItems(s) == CHOOSE f : f = [p \in 1 .. Len(s) + 1 |-> ItemsFrom(s, f, p)]

\* The reference decoder's recursion, by name.
LEMMA ItemsIs == ASSUME NEW s PROVE Items(s) = AllItems(s)[1]
  BY DEF Items, AllItems, ItemsFrom

\* Its recursive equation has a solution on the last n + 1 positions.
LEMMA ItemsExist ==
  ASSUME NEW s, NEW l \in Nat, l = Len(s)
  PROVE  \A n \in Nat : n <= l => \E f : f = [p \in l + 1 - n .. l + 1 |-> ItemsFrom(s, f, p)]
<1> DEFINE T == {n \in Nat : n <= l => \E f : f = [p \in l + 1 - n .. l + 1 |-> ItemsFrom(s, f, p)]}
<1>1. 0 \in T
  <2> DEFINE f == [p \in l + 1 - 0 .. l + 1 |-> <<>>]
  <2>1. \A p \in l + 1 - 0 .. l + 1 : p > l
    OBVIOUS
  <2>2. \A p \in l + 1 - 0 .. l + 1 : ItemsFrom(s, f, p) = <<>>
    BY <2>1 DEF ItemsFrom
  <2>3. f = [p \in l + 1 - 0 .. l + 1 |-> ItemsFrom(s, f, p)]
    BY <2>2
  <2> HIDE DEF f
  <2>4. \E k : k = [p \in l + 1 - 0 .. l + 1 |-> ItemsFrom(s, k, p)]
    BY <2>3
  <2> QED BY <2>4
<1>2. ASSUME NEW n \in Nat, n \in T PROVE n + 1 \in T
  <2> SUFFICES ASSUME n + 1 <= l PROVE \E k : k = [p \in l + 1 - (n + 1) .. l + 1 |-> ItemsFrom(s, k, p)]
    OBVIOUS
  <2>1. PICK h : h = [p \in l + 1 - n .. l + 1 |-> ItemsFrom(s, h, p)]
    BY <1>2
  <2> DEFINE f == [p \in l + 1 - (n + 1) .. l + 1 |-> ItemsFrom(s, h, p)]
  <2>2. \A p \in l + 1 - n .. l + 1 : p \in l + 1 - (n + 1) .. l + 1
    OBVIOUS
  <2>3. \A p \in l + 1 - n .. l + 1 : f[p] = h[p]
    BY <2>1, <2>2
  <2>4. ASSUME NEW p \in l + 1 - (n + 1) .. l + 1 PROVE \A q \in p + 1 .. l + 1 : q \in l + 1 - n .. l + 1
    OBVIOUS
  <2>5. ASSUME NEW p \in l + 1 - (n + 1) .. l + 1 PROVE ItemsFrom(s, h, p) = ItemsFrom(s, f, p)
    <3> HIDE DEF f
    <3>1. \A q \in p + 1 .. l + 1 : f[q] = h[q]
      BY <2>3, <2>4
    <3> QED BY <3>1 DEF ItemsFrom
  <2>6. f = [p \in l + 1 - (n + 1) .. l + 1 |-> ItemsFrom(s, f, p)]
    BY <2>5
  <2> HIDE DEF f
  <2> QED BY <2>6
<1>3. Nat \subseteq T
  <2> HIDE DEF T
  <2> QED BY <1>1, <1>2, NatSetInduction
<1> QED BY <1>3

\* So Items takes one item after the other.
LEMMA ItemsUnfold ==
  ASSUME NEW s \in Seq(Byte)
  PROVE  \A p \in 1 .. Len(s) + 1 : AllItems(s)[p] = ItemsFrom(s, AllItems(s), p)
<1>1. PICK l \in Nat : l = Len(s)
  OBVIOUS
<1>2. l + 1 - l = 1 /\ l <= l
  OBVIOUS
<1>3. \E f : f = [p \in l + 1 - l .. l + 1 |-> ItemsFrom(s, f, p)]
  BY <1>1, <1>2, ItemsExist
<1>4. PICK f : f = [p \in 1 .. l + 1 |-> ItemsFrom(s, f, p)]
  BY <1>2, <1>3
<1> DEFINE a == AllItems(s)
<1>5. a = [p \in 1 .. l + 1 |-> ItemsFrom(s, a, p)]
  BY <1>1, <1>4 DEF AllItems
<1> HIDE DEF a
<1>6. \A p \in 1 .. l + 1 : a[p] = ItemsFrom(s, a, p)
  BY <1>5
<1> QED BY <1>1, <1>6 DEF a

\* Items finds items that follow each other from the first byte to the last.
LEMMA ItemsAre ==
  ASSUME NEW s \in Seq(Byte), NEW m \in Nat, NEW pos \in [0 .. m -> Nat], NEW it,
         pos[0] = 1, pos[m] = Len(s) + 1,
         \A i \in 1 .. m : /\ pos[i - 1] \in 1 .. Len(s) /\ pos[i] \in pos[i - 1] + 1 .. Len(s) + 1
                           /\ ItemAt(s, pos[i - 1]) = it[i] /\ it[i].next = pos[i]
  PROVE  Len(Items(s)) = m /\ \A i \in 1 .. m : Items(s)[i] = it[i]
<1> DEFINE X == {it[i] : i \in 1 .. m}
           a == AllItems(s)
           Good(k) == /\ a[pos[m - k]] \in Seq(X) /\ Len(a[pos[m - k]]) = k
                      /\ \A i \in 1 .. k : a[pos[m - k]][i] = it[m - k + i]
           T == {k \in Nat : k <= m => Good(k)}
<1>0. PICK l \in Nat : l = Len(s)
  OBVIOUS
<1>a. \A p \in 1 .. l + 1 : a[p] = ItemsFrom(s, a, p)
  BY <1>0, ItemsUnfold
<1> HIDE DEF a
<1>1. 0 \in T
  <2>1. m - 0 = m /\ pos[m] = l + 1 /\ l + 1 \in 1 .. l + 1 /\ l + 1 > l
    BY <1>0
  <2>2. ItemsFrom(s, a, l + 1) = <<>>
    BY <1>0, <2>1 DEF ItemsFrom
  <2>3. a[pos[m - 0]] = <<>>
    BY <1>a, <2>1, <2>2
  <2>4. <<>> \in Seq(X) /\ Len(<<>>) = 0 /\ 1 .. 0 = {}
    OBVIOUS
  <2>5. Good(0)
    BY <2>3, <2>4
  <2> QED BY <2>5
<1>2. ASSUME NEW k \in Nat, k \in T PROVE k + 1 \in T
  <2> SUFFICES ASSUME k + 1 <= m PROVE Good(k + 1)
    OBVIOUS
  <2> DEFINE r == a[pos[m - k]]
  <2>1. r \in Seq(X) /\ Len(r) = k /\ \A i \in 1 .. k : r[i] = it[m - k + i]
    BY <1>2
  <2> DEFINE j == m - k
  <2>2. j \in 1 .. m /\ m - (k + 1) = j - 1 /\ j - 1 \in 0 .. m
    OBVIOUS
  <2> HIDE DEF j
  <2>3. PICK p \in 1 .. l : p = pos[j - 1]
    BY <1>0, <2>2
  <2>4. ItemAt(s, p) = it[j] /\ it[j].next = pos[j] /\ pos[j] \in p + 1 .. l + 1
    BY <1>0, <2>2, <2>3
  <2>5. a[p] = <<it[j]>> \o a[pos[j]]
    <3>1. a[p] = ItemsFrom(s, a, p) /\ ~(p > l)
      BY <1>a
    <3> QED BY <1>0, <2>4, <3>1 DEF ItemsFrom
  <2> HIDE DEF r
  <2>6. a[pos[j]] = r
    BY DEF r, j
  <2>7. it[j] \in X /\ <<it[j]>> \in Seq(X) /\ Len(<<it[j]>>) = 1 /\ <<it[j]>>[1] = it[j]
    <3>1. it[j] \in X
      BY <2>2
    <3> HIDE DEF X
    <3> QED BY <3>1
  <2> DEFINE o == <<it[j]>>
  <2> HIDE DEF X, o
  <2>8. /\ o \o r \in Seq(X) /\ Len(o \o r) = Len(o) + Len(r)
        /\ \A i \in 1 .. Len(o) + Len(r) : (o \o r)[i] = IF i <= Len(o) THEN o[i] ELSE r[i - Len(o)]
    <3>1. PICK y \in Seq(X) : y = o
      BY <2>7 DEF o
    <3>2. PICK z \in Seq(X) : z = r
      BY <2>1
    <3>3. /\ y \o z \in Seq(X) /\ Len(y \o z) = Len(y) + Len(z)
          /\ \A i \in 1 .. Len(y) + Len(z) : (y \o z)[i] = IF i <= Len(y) THEN y[i] ELSE z[i - Len(y)]
      BY ConcatProperties
    <3> QED BY <3>1, <3>2, <3>3
  <2>9. o \o r \in Seq(X) /\ Len(o \o r) = k + 1
    BY <2>1, <2>7, <2>8 DEF o
  <2>10. ASSUME NEW i \in 1 .. k + 1 PROVE (o \o r)[i] = it[(j - 1) + i]
    <3>0. Len(o) = 1 /\ o[1] = it[j]
      BY <2>7 DEF o
    <3>1. (o \o r)[i] = IF i <= 1 THEN it[j] ELSE r[i - 1]
      <4>1. i \in 1 .. Len(o) + Len(r) /\ (i <= 1 => i = 1)
        BY <2>1, <3>0
      <4>2. (o \o r)[i] = IF i <= Len(o) THEN o[i] ELSE r[i - Len(o)]
        BY <2>8, <4>1
      <4> QED BY <3>0, <4>1, <4>2
    <3>2. CASE i = 1
      <4>1. (j - 1) + i = j
        BY <2>2, <3>2
      <4> QED BY <3>1, <3>2, <4>1
    <3>3. CASE i # 1
      <4>1. i - 1 \in 1 .. k /\ ~(i <= 1) /\ m - k + (i - 1) = (j - 1) + i
        BY <3>3 DEF j
      <4> QED BY <2>1, <3>1, <4>1
    <3> QED BY <3>2, <3>3
  <2>11. a[pos[m - (k + 1)]] = o \o r
    BY <2>2, <2>3, <2>5, <2>6 DEF o
  <2> QED BY <2>2, <2>9, <2>10, <2>11
<1>3. Nat \subseteq T
  <2> HIDE DEF T
  <2> QED BY <1>1, <1>2, NatSetInduction
<1>4. Good(m)
  <2>1. m \in T
    <3> HIDE DEF T
    <3> QED BY <1>3
  <2>2. m <= m
    OBVIOUS
  <2> QED BY <2>1, <2>2
<1>5. Items(s) = a[pos[m - m]]
  <2>1. m - m = 0
    OBVIOUS
  <2> QED BY <2>1, ItemsIs DEF a
<1>6. Len(Items(s)) = m /\ \A i \in 1 .. m : Items(s)[i] = it[m - m + i]
  BY <1>4, <1>5
<1>7. \A i \in 1 .. m : m - m + i = i
  OBVIOUS
<1> QED BY <1>6, <1>7

-----------------------------------------------------------------------------
(* Encoding: ABI calldata *)

\* Small lengths are numbers of the model.
LEMMA SmallNumbers == \A n \in Nat : n <= 1000000000 => n \in Numbers
  BY SMT DEF Numbers

\* The padding of an ABI string is less than a word.
LEMMA PaddingIs ==
  ASSUME NEW n \in Nat PROVE Padding(n) \in Seq(Byte) /\ Len(Padding(n)) \in 0 .. 31
<1>1. WORD \in 4 .. 32
  BY EncodingAssumption
<1>2. \A a \in Int : a % WORD \in 0 .. WORD - 1
  BY SMT, <1>1
<1>3. n % WORD \in Int
  BY <1>2
<1>4. WORD - (n % WORD) \in Int
  BY <1>1, <1>3
<1>5. PICK k \in 0 .. WORD - 1 : k = (WORD - (n % WORD)) % WORD
  BY <1>2, <1>4
<1>6. Padding(n) = [i \in 1 .. k |-> 0]
  BY <1>5 DEF Padding, Zeros
<1>7. k \in Nat /\ k \in 0 .. 31
  BY <1>1
<1>8. 0 \in Byte
  BY DEF Byte
<1>9. [i \in 1 .. k |-> 0] \in [1 .. k -> Byte]
  BY <1>8
<1> QED BY <1>6, <1>7, <1>9

\* A word in some arguments is read as the number it was written for.
LEMMA AbiUintIs ==
  ASSUME NEW args \in Seq(Byte), NEW at \in Nat, NEW n \in Numbers, At(args, at + 1, uint256_be(n))
  PROVE  AbiUint(args, at) = n
<1>1. WORD \in Nat /\ WORD >= 4
  BY EncodingAssumption
<1>2. PICK b \in Seq(Byte) : b = uint256_be(n) /\ Len(b) = WORD /\ b = BigEndian(n, WORD)
  BY <1>1, BigEndianIs DEF uint256_be
<1>3. at + 1 \in Nat \ {0} /\ (at + 1) + WORD - 1 = at + WORD
  BY <1>1
<1>4. SubSeq(args, at + 1, (at + 1) + Len(b) - 1) = b
  BY <1>2, <1>3, AtCut
<1>5. FromBytes(b) = n
  BY <1>1, <1>2, WordRoundTrip
<1> QED BY <1>2, <1>3, <1>4, <1>5 DEF AbiUint

\* An ABI word has WORD bytes.
LEMMA WordIs ==
  ASSUME NEW n \in Numbers PROVE uint256_be(n) \in Seq(Byte) /\ Len(uint256_be(n)) = WORD
<1>1. WORD \in Nat
  BY EncodingAssumption
<1> QED BY <1>1, BigEndianIs DEF uint256_be

\* A string whose offset, length and bytes stand in the arguments.
LEMMA AbiStringIs ==
  ASSUME NEW args \in Seq(Byte), NEW off \in Nat, off \in Numbers, NEW s \in Seq(Byte), Len(s) \in Numbers,
         At(args, 1, uint256_be(off)), At(args, off + 1, uint256_be(Len(s))), At(args, off + WORD + 1, s)
  PROVE  AbiString(args, 0) = s
<1>1. WORD \in Nat
  BY EncodingAssumption
<1>2. AbiUint(args, 0) = off
  <2>1. 0 \in Nat /\ 0 + 1 = 1
    OBVIOUS
  <2>2. At(args, 0 + 1, uint256_be(off))
    BY <2>1
  <2> QED BY <2>1, <2>2, AbiUintIs
<1>3. AbiUint(args, off) = Len(s)
  BY AbiUintIs
<1>4. PICK p \in Nat \ {0} : p = off + WORD + 1
  BY <1>1
<1>5. SubSeq(args, p, p + Len(s) - 1) = s
  BY <1>4, AtCut
<1>6. p + Len(s) - 1 = off + WORD + Len(s)
  <2>1. PICK n \in Nat : n = Len(s)
    OBVIOUS
  <2>2. p + n - 1 = off + WORD + n
    BY <1>1, <1>4
  <2> QED BY <2>1, <2>2
<1> QED BY <1>2, <1>3, <1>4, <1>5, <1>6 DEF AbiString

\* Sizes, by name: of job ids, and of the arguments of a call.
Few(n) == n \in Nat /\ n < 65536
Many(n) == n \in Nat /\ n <= 100000

\* What is small enough for the encoders.
LEMMA Sizes ==
  /\ \A n : Few(n) => n \in Numbers
  /\ \A n \in Nat : n <= 64 => n \in Numbers
  /\ \A n : \A w \in 4 .. 32 : \A k \in 0 .. 31 : Few(n) => Many(2 * w + n + k) /\ Many(3 * w + n + k)
  /\ \A n : Many(n) => n \in Nat /\ 4 + n \in Numbers
<1>1. \A n : Few(n) => n \in Numbers
  BY SMT DEF Few, Numbers
<1>2. \A n \in Nat : n <= 64 => n \in Numbers
  BY SMT DEF Numbers
<1>3. \A n : \A w \in 4 .. 32 : \A k \in 0 .. 31 : Few(n) => Many(2 * w + n + k) /\ Many(3 * w + n + k)
  BY SMT DEF Few, Many
<1>4. \A n : Many(n) => n \in Nat /\ 4 + n \in Numbers
  BY SMT DEF Many, Numbers
<1> QED BY <1>1, <1>2, <1>3, <1>4

\* A job id is a byte string of small length.
LEMMA JobIdIs == ASSUME NEW s, IsJobId(s) PROVE s \in Seq(Byte) /\ Few(Len(s))
<1>1. Len(s) \in Nat
  BY SMT DEF IsJobId
<1> QED BY SMT, <1>1 DEF IsJobId, Few, Byte

\* Two byte strings one after the other.
LEMMA Joined ==
  ASSUME NEW a \in Seq(Byte), NEW b \in Seq(Byte)
  PROVE  \E c \in Seq(Byte) : c = a \o b /\ Len(c) = Len(a) + Len(b)
<1>1. a \o b \in Seq(Byte) /\ Len(a \o b) = Len(a) + Len(b)
  BY ConcatProperties
<1> QED BY <1>1

\* (string): offset, length and bytes stand where the contract looks for them.
LEMMA AbiEncodeString ==
  ASSUME NEW s \in Seq(Byte), IsJobId(s)
  PROVE  LET args == abi_encode_string(s)
         IN  /\ args \in Seq(Byte) /\ Many(Len(args)) /\ Len(s) \in Numbers /\ WORD \in Numbers
             /\ At(args, 1, uint256_be(WORD)) /\ At(args, WORD + 1, uint256_be(Len(s)))
             /\ At(args, 2 * WORD + 1, s)
<1>1. WORD \in 4 .. 32
  BY EncodingAssumption
<1>2. PICK n \in Nat : n = Len(s)
  OBVIOUS
<1>e. Few(n)
  BY <1>2, JobIdIs
<1>3. n \in Numbers /\ WORD \in Numbers
  <2>1. WORD \in Nat /\ WORD <= 64
    BY <1>1
  <2> QED BY <1>e, <2>1, Sizes
<1>4. PICK a \in Seq(Byte) : a = uint256_be(WORD) /\ Len(a) = WORD
  BY <1>3, WordIs
<1>5. PICK b \in Seq(Byte) : b = uint256_be(n) /\ Len(b) = WORD
  BY <1>3, WordIs
<1>6. PICK d \in Seq(Byte) : d = Padding(n) /\ Len(d) \in 0 .. 31
  <2>1. Padding(n) \in Seq(Byte) /\ Len(Padding(n)) \in 0 .. 31
    BY PaddingIs
  <2> QED BY <2>1
<1>7. PICK ab \in Seq(Byte) : ab = a \o b /\ Len(ab) = Len(a) + Len(b)
  BY Joined
<1>8. PICK abs \in Seq(Byte) : abs = ab \o s /\ Len(abs) = Len(ab) + Len(s)
  BY Joined
<1>9. PICK args \in Seq(Byte) : args = abs \o d /\ Len(args) = Len(abs) + Len(d)
  BY Joined
<1>10. abi_encode_string(s) = args
  BY <1>2, <1>4, <1>5, <1>6, <1>7, <1>8, <1>9 DEF abi_encode_string
<1>11. At(args, 1, abs)
  <2>1. At(args, 1, args) /\ 1 \in Nat \ {0}
    BY AtItself
  <2>2. At(args, 1, abs \o d)
    BY <1>9, <2>1
  <2> QED BY <2>1, <2>2, AtParts
<1>12. At(args, 1, ab) /\ At(args, 1 + Len(ab), s)
  BY <1>8, <1>11, AtParts
<1>13. At(args, 1, a) /\ At(args, 1 + Len(a), b)
  BY <1>7, <1>12, AtParts
<1>14. Len(ab) = 2 * WORD /\ 1 + Len(ab) = 2 * WORD + 1 /\ 1 + Len(a) = WORD + 1
  BY <1>1, <1>4, <1>5, <1>7
<1>15. Many(Len(args))
  <2>1. PICK k \in 0 .. 31 : k = Len(d)
    BY <1>6
  <2>2. Len(args) = 2 * WORD + n + k
    BY <1>2, <1>8, <1>9, <1>14, <2>1
  <2> QED BY <1>1, <1>e, <2>1, <2>2, Sizes
<1> QED BY <1>2, <1>3, <1>4, <1>5, <1>10, <1>12, <1>13, <1>14, <1>15

\* (string, uint256): the amount stands between offset and length.
LEMMA AbiEncodeStringUint ==
  ASSUME NEW s \in Seq(Byte), IsJobId(s), NEW value \in Numbers
  PROVE  LET args == abi_encode_string_uint256(s, value)
         IN  /\ args \in Seq(Byte) /\ Many(Len(args)) /\ Len(s) \in Numbers /\ 2 * WORD \in Numbers
             /\ At(args, 1, uint256_be(2 * WORD)) /\ At(args, WORD + 1, uint256_be(value))
             /\ At(args, 2 * WORD + 1, uint256_be(Len(s))) /\ At(args, 3 * WORD + 1, s)
<1>1. WORD \in 4 .. 32
  BY EncodingAssumption
<1>2. PICK n \in Nat : n = Len(s)
  OBVIOUS
<1>e. Few(n)
  BY <1>2, JobIdIs
<1>3. n \in Numbers /\ 2 * WORD \in Numbers
  <2>1. 2 * WORD \in Nat /\ 2 * WORD <= 64
    BY <1>1
  <2> QED BY <1>e, <2>1, Sizes
<1>4. PICK a \in Seq(Byte) : a = uint256_be(2 * WORD) /\ Len(a) = WORD
  BY <1>3, WordIs
<1>v. PICK v \in Seq(Byte) : v = uint256_be(value) /\ Len(v) = WORD
  BY WordIs
<1>5. PICK b \in Seq(Byte) : b = uint256_be(n) /\ Len(b) = WORD
  BY <1>3, WordIs
<1>6. PICK d \in Seq(Byte) : d = Padding(n) /\ Len(d) \in 0 .. 31
  <2>1. Padding(n) \in Seq(Byte) /\ Len(Padding(n)) \in 0 .. 31
    BY PaddingIs
  <2> QED BY <2>1
<1>7. PICK av \in Seq(Byte) : av = a \o v /\ Len(av) = Len(a) + Len(v)
  BY Joined
<1>b. PICK avb \in Seq(Byte) : avb = av \o b /\ Len(avb) = Len(av) + Len(b)
  BY Joined
<1>8. PICK abs \in Seq(Byte) : abs = avb \o s /\ Len(abs) = Len(avb) + Len(s)
  BY Joined
<1>9. PICK args \in Seq(Byte) : args = abs \o d /\ Len(args) = Len(abs) + Len(d)
  BY Joined
<1>10. abi_encode_string_uint256(s, value) = args
  BY <1>2, <1>4, <1>v, <1>5, <1>6, <1>7, <1>b, <1>8, <1>9 DEF abi_encode_string_uint256
<1>11. At(args, 1, abs)
  <2>1. At(args, 1, args) /\ 1 \in Nat \ {0}
    BY AtItself
  <2>2. At(args, 1, abs \o d)
    BY <1>9, <2>1
  <2> QED BY <2>1, <2>2, AtParts
<1>12. At(args, 1, avb) /\ At(args, 1 + Len(avb), s)
  BY <1>8, <1>11, AtParts
<1>c. At(args, 1, av) /\ At(args, 1 + Len(av), b)
  BY <1>b, <1>12, AtParts
<1>13. At(args, 1, a) /\ At(args, 1 + Len(a), v)
  BY <1>7, <1>c, AtParts
<1>14. /\ Len(avb) = 3 * WORD /\ 1 + Len(avb) = 3 * WORD + 1 /\ 1 + Len(av) = 2 * WORD + 1
       /\ 1 + Len(a) = WORD + 1
  BY <1>1, <1>4, <1>v, <1>5, <1>7, <1>b
<1>15. Many(Len(args))
  <2>1. PICK k \in 0 .. 31 : k = Len(d)
    BY <1>6
  <2>2. Len(args) = 3 * WORD + n + k
    BY <1>2, <1>8, <1>9, <1>14, <2>1
  <2> QED BY <1>1, <1>e, <2>1, <2>2, Sizes
<1> QED BY <1>2, <1>3, <1>4, <1>v, <1>5, <1>10, <1>12, <1>c, <1>13, <1>14, <1>15

\* A call of the contract the oracle can make.
CallOf(c) ==
  /\ c = [call |-> c.call, job |-> c.job, wei |-> c.wei]
  /\ c.job \in DOMAIN JobName /\ c.wei \in Numbers
  /\ c.call = "release" \/ (c.call = "cancel" /\ c.wei = 0)

\* The four bytes of the function come before its arguments.
LEMMA CutCalldata ==
  ASSUME NEW f \in Seq(Byte), Len(f) = 4, NEW args \in Seq(Byte)
  PROVE  /\ f \o args \in Seq(Byte) /\ Len(f \o args) = 4 + Len(args)
         /\ SubSeq(f \o args, 1, 4) = f /\ SubSeq(f \o args, 5, Len(f \o args)) = args
<1>1. PICK data \in Seq(Byte) : data = f \o args /\ Len(data) = Len(f) + Len(args)
  BY Joined
<1>2. At(data, 1, f) /\ At(data, 1 + Len(f), args)
  <2>1. At(data, 1, data) /\ 1 \in Nat \ {0}
    BY AtItself
  <2>2. At(data, 1, f \o args)
    BY <1>1, <2>1
  <2> QED BY <2>1, <2>2, AtParts
<1>3. SubSeq(data, 1, 1 + Len(f) - 1) = f
  <2>1. 1 \in Nat \ {0}
    OBVIOUS
  <2> QED BY <1>2, <2>1, AtCut
<1>4. PICK n \in Nat : n = Len(args)
  OBVIOUS
<1>5. SubSeq(data, 5, 5 + Len(args) - 1) = args
  <2>1. 5 \in Nat \ {0} /\ 1 + Len(f) = 5
    OBVIOUS
  <2>2. At(data, 5, args)
    BY <1>2, <2>1
  <2> QED BY <2>1, <2>2, AtCut
<1>6. 5 + Len(args) - 1 = Len(data) /\ 1 + Len(f) - 1 = 4 /\ Len(data) = 4 + Len(args)
  BY <1>1, <1>4
<1> QED BY <1>1, <1>3, <1>5, <1>6

\* A selector has four bytes.
LEMMA SelectorIs ==
  ASSUME NEW call PROVE selector(call) \in Seq(Byte) /\ Len(selector(call)) = 4
<1>1. 17 \in Byte /\ 33 \in Byte /\ 2 \in Byte /\ 3 \in Byte /\ 4 \in Byte
  BY DEF Byte
<1> QED BY <1>1 DEF selector

\* release_escrow_calldata and cancel_escrow_calldata: the contract reads in
\* the calldata the call they were made for, whatever the job id (with or
\* without room in its last word) and the amount.
THEOREM CalldataRoundTrip ==
  ASSUME NEW c, CallOf(c)
  PROVE  /\ Calldata(c) \in Seq(Byte) /\ Len(Calldata(c)) \in 4 .. Len(Calldata(c)) /\ Many(Len(Calldata(c)) - 4)
         /\ ReadCall(Calldata(c)) = c
<1>1. PICK s \in Seq(Byte) : s = JobName[c.job] /\ IsJobId(s)
  BY EncodingAssumption, JobIdIs DEF CallOf
<1>2. \A j \in DOMAIN JobName : JobName[j] = s => j = c.job
  BY <1>1, EncodingAssumption DEF CallOf
<1>3. (CHOOSE j \in DOMAIN JobName : JobName[j] = s) = c.job
  BY <1>1, <1>2 DEF CallOf
<1>4. WORD \in 4 .. 32
  BY EncodingAssumption
<1>5. CASE c.call = "release"
  <2>1. PICK args \in Seq(Byte) : args = abi_encode_string_uint256(s, c.wei) /\ Many(Len(args))
    BY <1>1, AbiEncodeStringUint DEF CallOf
  <2>2. PICK data \in Seq(Byte) : /\ data = selector("release") \o args /\ Len(data) = 4 + Len(args)
                                  /\ SubSeq(data, 1, 4) = selector("release")
                                  /\ SubSeq(data, 5, Len(data)) = args
    BY SelectorIs, CutCalldata
  <2>3. Calldata(c) = data
    BY <1>1, <1>5, <2>1, <2>2 DEF Calldata, release_escrow_calldata
  <2>4. AbiString(args, 0) = s
    <3>1. PICK off \in Nat : off = 2 * WORD /\ off + WORD + 1 = 3 * WORD + 1
      BY <1>4
    <3>2. /\ off \in Numbers /\ Len(s) \in Numbers
          /\ At(args, 1, uint256_be(off)) /\ At(args, off + 1, uint256_be(Len(s))) /\ At(args, off + WORD + 1, s)
      BY <1>1, <2>1, <3>1, AbiEncodeStringUint DEF CallOf
    <3> QED BY <3>2, AbiStringIs
  <2>5. AbiUint(args, WORD) = c.wei
    <3>1. At(args, WORD + 1, uint256_be(c.wei)) /\ c.wei \in Numbers
      BY <1>1, <2>1, AbiEncodeStringUint DEF CallOf
    <3>2. WORD \in Nat
      BY <1>4
    <3> QED BY <3>1, <3>2, AbiUintIs
  <2>6. ReadCall(data) = [call |-> "release", job |-> c.job, wei |-> c.wei]
    BY <1>3, <2>2, <2>4, <2>5 DEF ReadCall
  <2>7. Len(data) \in 4 .. Len(data) /\ Many(Len(data) - 4)
    <3>1. PICK n \in Nat : n = Len(args)
      OBVIOUS
    <3>2. Len(data) = 4 + n /\ 4 + n \in 4 .. 4 + n /\ (4 + n) - 4 = n
      BY <2>2, <3>1
    <3> QED BY <2>1, <3>1, <3>2
  <2> QED BY <1>5, <2>3, <2>6, <2>7 DEF CallOf
<1>6. CASE c.call = "cancel"
  <2>1. PICK args \in Seq(Byte) : args = abi_encode_string(s) /\ Many(Len(args))
    BY <1>1, AbiEncodeString
  <2>2. PICK data \in Seq(Byte) : /\ data = selector("cancel") \o args /\ Len(data) = 4 + Len(args)
                                  /\ SubSeq(data, 1, 4) = selector("cancel")
                                  /\ SubSeq(data, 5, Len(data)) = args
    BY SelectorIs, CutCalldata
  <2>3. Calldata(c) = data
    BY <1>1, <1>6, <2>1, <2>2 DEF Calldata, cancel_escrow_calldata
  <2>4. AbiString(args, 0) = s
    <3>1. PICK off \in Nat : off = WORD /\ off + WORD + 1 = 2 * WORD + 1
      BY <1>4
    <3>2. /\ off \in Numbers /\ Len(s) \in Numbers
          /\ At(args, 1, uint256_be(off)) /\ At(args, off + 1, uint256_be(Len(s))) /\ At(args, off + WORD + 1, s)
      BY <1>1, <2>1, <3>1, AbiEncodeString
    <3> QED BY <3>2, AbiStringIs
  <2>5. selector("cancel") # selector("release")
    <3>1. selector("cancel")[1] = 33 /\ selector("release")[1] = 17
      BY DEF selector
    <3> QED BY <3>1
  <2>6. ReadCall(data) = [call |-> "cancel", job |-> c.job, wei |-> 0]
    BY <1>3, <2>2, <2>4, <2>5 DEF ReadCall
  <2>7. Len(data) \in 4 .. Len(data) /\ Many(Len(data) - 4)
    <3>1. PICK n \in Nat : n = Len(args)
      OBVIOUS
    <3>2. Len(data) = 4 + n /\ 4 + n \in 4 .. 4 + n /\ (4 + n) - 4 = n
      BY <2>2, <3>1
    <3> QED BY <2>1, <3>1, <3>2
  <2> QED BY <1>6, <2>3, <2>6, <2>7 DEF CallOf
<1> QED BY <1>5, <1>6 DEF CallOf

-----------------------------------------------------------------------------
(* Encoding: the list of fields *)

\* The bytes e are a field: wherever they stand, they are read as the string d.
IsField(e, d) ==
  /\ e \in Seq(Byte) /\ Len(e) \in Nat \ {0}
  /\ \A s \in Seq(Byte) : \A p \in Nat \ {0} : At(s, p, e) =>
       ItemAt(s, p) = [kind |-> "string", payload |-> d, next |-> p + Len(e)]

\* What rlp_append_bytes appends is a field.
LEMMA BytesAreField ==
  ASSUME NEW d \in Seq(Byte), Len(d) \in Numbers PROVE IsField(BytesField(d), d)
<1>1. PICK n \in Nat : n = Len(d)
  OBVIOUS
<1>2. BytesField(d) \in Seq(Byte) /\ Len(BytesField(d)) \in n + 1 .. n + 5
  BY <1>1, BytesFieldIs
<1>3. Len(BytesField(d)) \in Nat \ {0}
  BY <1>2
<1> QED BY <1>2, <1>3, BytesFieldIs DEF IsField

\* What rlp_append_uint appends is a field.
LEMMA UintIsField ==
  ASSUME NEW val \in Numbers PROVE IsField(UintField(val), UintPayload(val))
<1>1. UintField(val) \in Seq(Byte) /\ Len(UintField(val)) \in 1 .. 9
  BY UintFieldIs
<1>2. Len(UintField(val)) \in Nat \ {0}
  BY <1>1
<1> QED BY <1>1, <1>2, UintFieldIs DEF IsField

\* The m byte strings enc are fields that say pay; buf holds what has been
\* written after each; and the items it are m strings that say pay.
AreFields(enc, pay, m) == \A i \in 1 .. m : IsField(enc[i], pay[i])
Appended(buf, enc, m) == buf[0] = <<>> /\ \A i \in 1 .. m : buf[i] = buf[i - 1] \o enc[i]
SayStrings(it, pay, m) == Len(it) = m /\ \A i \in 1 .. m : it[i].kind = "string" /\ it[i].payload = pay[i]

\* Fields that are appended one after the other are read one after the other.
LEMMA FieldsRead ==
  ASSUME NEW m \in Nat, NEW buf \in [0 .. m -> Seq(Byte)], NEW enc, NEW pay,
         Appended(buf, enc, m), AreFields(enc, pay, m)
  PROVE  SayStrings(Items(buf[m]), pay, m)
<1>0. buf[0] = <<>> /\ \A i \in 1 .. m : IsField(enc[i], pay[i]) /\ buf[i] = buf[i - 1] \o enc[i]
  BY DEF AreFields, Appended
<1> USE <1>0
<1>1. PICK s \in Seq(Byte) : s = buf[m]
  <2>1. m \in 0 .. m
    OBVIOUS
  <2> QED BY <2>1
<1> DEFINE T == {k \in Nat : k <= m => At(s, 1, buf[m - k])}
<1>2. 0 \in T
  <2>1. At(s, 1, s) /\ m - 0 = m
    BY AtItself
  <2> QED BY <1>1, <2>1
<1>3. ASSUME NEW i \in 1 .. m, At(s, 1, buf[i]) PROVE At(s, 1, buf[i - 1]) /\ At(s, 1 + Len(buf[i - 1]), enc[i])
  <2>1. PICK a \in Seq(Byte) : a = buf[i - 1]
    <3>1. i - 1 \in 0 .. m
      OBVIOUS
    <3> QED BY <3>1
  <2>2. PICK e \in Seq(Byte) : e = enc[i]
    BY DEF IsField
  <2>0. buf[i] = a \o e
    BY <2>1, <2>2
  <2>3. At(s, 1, a \o e) /\ 1 \in Nat \ {0}
    BY <1>3, <2>0
  <2>4. At(s, 1, a) /\ At(s, 1 + Len(a), e)
    BY <2>3, AtParts
  <2> QED BY <2>1, <2>2, <2>4
<1>4. ASSUME NEW k \in Nat, k \in T PROVE k + 1 \in T
  <2> SUFFICES ASSUME k + 1 <= m PROVE At(s, 1, buf[m - (k + 1)])
    OBVIOUS
  <2>1. PICK i \in 1 .. m : i = m - k /\ i - 1 = m - (k + 1)
    <3>1. m - k \in 1 .. m /\ (m - k) - 1 = m - (k + 1)
      OBVIOUS
    <3> QED BY <3>1
  <2>2. At(s, 1, buf[i])
    BY <1>4, <2>1
  <2> QED BY <1>3, <2>1, <2>2
<1>5. Nat \subseteq T
  <2> HIDE DEF T
  <2> QED BY <1>2, <1>4, NatSetInduction
<1>6. ASSUME NEW i \in 0 .. m PROVE At(s, 1, buf[i])
  <2>1. m - i \in Nat /\ m - i <= m /\ m - (m - i) = i
    OBVIOUS
  <2>2. m - i \in T
    <3> HIDE DEF T
    <3> QED BY <1>5, <2>1
  <2> QED BY <2>1, <2>2
<1> HIDE DEF T
<1> DEFINE pos == [i \in 0 .. m |-> 1 + Len(buf[i])]
           it == [i \in 1 .. m |-> [kind |-> "string", payload |-> pay[i], next |-> pos[i]]]
<1>7. pos \in [0 .. m -> Nat] /\ pos[0] = 1 /\ pos[m] = Len(s) + 1
  <2>1. \A i \in 0 .. m : 1 + Len(buf[i]) \in Nat
    OBVIOUS
  <2>2. Len(buf[0]) = 0 /\ 0 \in 0 .. m /\ m \in 0 .. m
    OBVIOUS
  <2>3. 1 + Len(s) = Len(s) + 1
    OBVIOUS
  <2> QED BY <1>1, <2>1, <2>2, <2>3
<1>8. ASSUME NEW i \in 1 .. m
      PROVE  /\ pos[i - 1] \in 1 .. Len(s) /\ pos[i] \in pos[i - 1] + 1 .. Len(s) + 1
             /\ ItemAt(s, pos[i - 1]) = it[i] /\ it[i].next = pos[i]
  <2>1. i \in 0 .. m /\ i - 1 \in 0 .. m
    OBVIOUS
  <2>2. PICK a \in Seq(Byte) : a = buf[i - 1]
    BY <2>1
  <2>3. PICK e \in Seq(Byte) : e = enc[i] /\ Len(e) \in Nat \ {0}
    BY DEF IsField
  <2>4. PICK b \in Seq(Byte) : b = buf[i] /\ b = a \o e
    BY <2>1, <2>2, <2>3
  <2>5. PICK la \in Nat : la = Len(a)
    OBVIOUS
  <2>6. PICK le \in Nat \ {0} : le = Len(e)
    BY <2>3
  <2>7. Len(b) = la + le
    <3>1. Len(a \o e) = Len(a) + Len(e)
      BY ConcatProperties
    <3> QED BY <2>4, <2>5, <2>6, <3>1
  <2>8. PICK ls \in Nat : ls = Len(s)
    OBVIOUS
  <2>9. la + le <= ls
    <3>1. At(s, 1, b)
      BY <1>6, <2>1, <2>4
    <3>2. 1 + Len(b) - 1 <= Len(s)
      BY <3>1 DEF At
    <3> QED BY <2>7, <2>8, <3>2
  <2>10. pos[i - 1] = 1 + la /\ pos[i] = 1 + (la + le)
    BY <2>1, <2>2, <2>4, <2>5, <2>7
  <2>11. At(s, 1 + la, e)
    BY <1>3, <1>6, <2>1, <2>2, <2>3, <2>5
  <2>12. ItemAt(s, 1 + la) = [kind |-> "string", payload |-> pay[i], next |-> (1 + la) + le]
    <3>1. 1 + la \in Nat \ {0}
      OBVIOUS
    <3>2. IsField(e, pay[i])
      BY <2>3
    <3> QED BY <2>6, <2>11, <3>1, <3>2 DEF IsField
  <2>13. (1 + la) + le = 1 + (la + le) /\ 1 + la \in 1 .. ls /\ 1 + (la + le) \in (1 + la) + 1 .. ls + 1
    BY <2>9
  <2> HIDE DEF pos
  <2>14. it[i] = [kind |-> "string", payload |-> pay[i], next |-> 1 + (la + le)]
    BY <2>10
  <2> HIDE DEF it
  <2>15. it[i].next = pos[i]
    BY <2>10, <2>14
  <2> QED BY <2>8, <2>10, <2>12, <2>13, <2>14, <2>15
<1>9. \A i \in 1 .. m : it[i].kind = "string" /\ it[i].payload = pay[i]
  OBVIOUS
<1> HIDE DEF pos, it
<1>10. Len(Items(s)) = m /\ \A i \in 1 .. m : Items(s)[i] = it[i]
  BY <1>7, <1>8, ItemsAre
<1> QED BY <1>1, <1>9, <1>10 DEF SayStrings

\* A transaction and a signature whose fields are of the size the encoders are
\* used with.
Sendable(tx, sig) ==
  /\ {tx.chain_id, tx.nonce, tx.max_priority_fee_per_gas, tx.max_fee_per_gas, tx.gas_limit, tx.value, sig.v}
       \subseteq Numbers
  /\ tx.to \in Seq(Byte) /\ Len(tx.to) = 20
  /\ tx.data \in Seq(Byte) /\ Len(tx.data) \in 4 .. Len(tx.data) /\ Many(Len(tx.data) - 4)
  /\ tx.access_list = <<>>
  /\ sig.r \in Seq(Byte) /\ Len(sig.r) = 32 /\ sig.s \in Seq(Byte) /\ Len(sig.s) = 32

\* What is written in the twelve fields of a signed transaction, and how.
Payloads(tx, sig) ==
  <<UintPayload(tx.chain_id), UintPayload(tx.nonce), UintPayload(tx.max_priority_fee_per_gas), UintPayload(tx.max_fee_per_gas), UintPayload(tx.gas_limit),
    tx.to, UintPayload(tx.value),
    tx.data, tx.access_list, UintPayload(sig.v), sig.r, sig.s>>
Encoded(tx, sig) ==
  <<UintField(tx.chain_id), UintField(tx.nonce), UintField(tx.max_priority_fee_per_gas), UintField(tx.max_fee_per_gas), UintField(tx.gas_limit),
    BytesField(tx.to), UintField(tx.value),
    BytesField(tx.data), BytesField(tx.access_list), UintField(sig.v), BytesField(sig.r), BytesField(sig.s)>>

\* The sum of the field sizes is a number of the model.
LEMMA FieldSizes ==
  ASSUME NEW n, Many(n), NEW l \in Nat, l <= 420 + n PROVE l \in Numbers
  BY SMT DEF Many, Numbers

\* Each of the twelve is a field of limited size.
LEMMA EncodedFields ==
  ASSUME NEW tx, NEW sig, Sendable(tx, sig)
  PROVE  /\ \A i \in 1 .. 12 : IsField(Encoded(tx, sig)[i], Payloads(tx, sig)[i])
         /\ \A i \in (1 .. 12) \ {8} : Len(Encoded(tx, sig)[i]) \in 1 .. 37
         /\ Len(Encoded(tx, sig)[8]) \in 1 .. Len(tx.data) + 5
<1>1. ASSUME NEW n \in Numbers
      PROVE  IsField(UintField(n), UintPayload(n)) /\ Len(UintField(n)) \in 1 .. 37
  <2>1. PICK l \in 1 .. 9 : l = Len(UintField(n))
    BY UintFieldIs
  <2>2. l \in 1 .. 37
    OBVIOUS
  <2> QED BY <2>1, <2>2, UintIsField
<1>2. ASSUME NEW d \in Seq(Byte), NEW k \in {0, 20, 32}, Len(d) = k
      PROVE  IsField(BytesField(d), d) /\ Len(BytesField(d)) \in 1 .. 37
  <2>1. Len(d) \in Numbers
    <3>1. k \in Nat /\ k <= 64
      OBVIOUS
    <3> QED BY <1>2, <3>1, Sizes
  <2>2. Len(BytesField(d)) \in k + 1 .. k + 5
    BY <1>2, <2>1, BytesFieldIs
  <2>3. Len(BytesField(d)) \in 1 .. 37
    <3>1. PICK l \in k + 1 .. k + 5 : l = Len(BytesField(d))
      BY <2>2
    <3>2. l \in 1 .. 37
      OBVIOUS
    <3> QED BY <3>1, <3>2
  <2> QED BY <2>1, <2>3, BytesAreField
<1>3. IsField(BytesField(tx.data), tx.data) /\ Len(BytesField(tx.data)) \in 1 .. Len(tx.data) + 5
  <2>1. PICK d \in Seq(Byte) : d = tx.data
    BY DEF Sendable
  <2>2. PICK n \in Nat : n = Len(d)
    OBVIOUS
  <2>3. Many(n - 4) /\ n - 4 \in Nat /\ 4 + (n - 4) = n
    <3>1. Many(n - 4) /\ n \in 4 .. n
      BY <2>1, <2>2 DEF Sendable
    <3> QED BY <3>1
  <2>4. Len(d) \in Numbers
    BY <2>2, <2>3, Sizes
  <2>5. PICK l \in n + 1 .. n + 5 : l = Len(BytesField(d))
    BY <2>2, <2>4, BytesFieldIs
  <2>6. l \in 1 .. n + 5
    OBVIOUS
  <2> QED BY <2>1, <2>2, <2>4, <2>5, <2>6, BytesAreField
<1>4. <<>> \in Seq(Byte) /\ Len(<<>>) = 0
  OBVIOUS
<1>11. IsField(Encoded(tx, sig)[1], Payloads(tx, sig)[1]) /\ Len(Encoded(tx, sig)[1]) \in 1 .. 37
  <2>1. Encoded(tx, sig)[1] = UintField(tx.chain_id) /\ Payloads(tx, sig)[1] = UintPayload(tx.chain_id)
    BY DEF Encoded, Payloads
  <2>2. tx.chain_id \in Numbers
    BY DEF Sendable
  <2> QED BY <1>1, <2>1, <2>2
<1>12. IsField(Encoded(tx, sig)[2], Payloads(tx, sig)[2]) /\ Len(Encoded(tx, sig)[2]) \in 1 .. 37
  <2>1. Encoded(tx, sig)[2] = UintField(tx.nonce) /\ Payloads(tx, sig)[2] = UintPayload(tx.nonce)
    BY DEF Encoded, Payloads
  <2>2. tx.nonce \in Numbers
    BY DEF Sendable
  <2> QED BY <1>1, <2>1, <2>2
<1>13. IsField(Encoded(tx, sig)[3], Payloads(tx, sig)[3]) /\ Len(Encoded(tx, sig)[3]) \in 1 .. 37
  <2>1. Encoded(tx, sig)[3] = UintField(tx.max_priority_fee_per_gas) /\ Payloads(tx, sig)[3] = UintPayload(tx.max_priority_fee_per_gas)
    BY DEF Encoded, Payloads
  <2>2. tx.max_priority_fee_per_gas \in Numbers
    BY DEF Sendable
  <2> QED BY <1>1, <2>1, <2>2
<1>14. IsField(Encoded(tx, sig)[4], Payloads(tx, sig)[4]) /\ Len(Encoded(tx, sig)[4]) \in 1 .. 37
  <2>1. Encoded(tx, sig)[4] = UintField(tx.max_fee_per_gas) /\ Payloads(tx, sig)[4] = UintPayload(tx.max_fee_per_gas)
    BY DEF Encoded, Payloads
  <2>2. tx.max_fee_per_gas \in Numbers
    BY DEF Sendable
  <2> QED BY <1>1, <2>1, <2>2
<1>15. IsField(Encoded(tx, sig)[5], Payloads(tx, sig)[5]) /\ Len(Encoded(tx, sig)[5]) \in 1 .. 37
  <2>1. Encoded(tx, sig)[5] = UintField(tx.gas_limit) /\ Payloads(tx, sig)[5] = UintPayload(tx.gas_limit)
    BY DEF Encoded, Payloads
  <2>2. tx.gas_limit \in Numbers
    BY DEF Sendable
  <2> QED BY <1>1, <2>1, <2>2
<1>16. IsField(Encoded(tx, sig)[6], Payloads(tx, sig)[6]) /\ Len(Encoded(tx, sig)[6]) \in 1 .. 37
  <2>1. Encoded(tx, sig)[6] = BytesField(tx.to) /\ Payloads(tx, sig)[6] = tx.to
    BY DEF Encoded, Payloads
  <2>2. tx.to \in Seq(Byte) /\ Len(tx.to) = 20 /\ 20 \in {0, 20, 32}
    BY <1>4 DEF Sendable
  <2> QED BY <1>2, <2>1, <2>2
<1>17. IsField(Encoded(tx, sig)[7], Payloads(tx, sig)[7]) /\ Len(Encoded(tx, sig)[7]) \in 1 .. 37
  <2>1. Encoded(tx, sig)[7] = UintField(tx.value) /\ Payloads(tx, sig)[7] = UintPayload(tx.value)
    BY DEF Encoded, Payloads
  <2>2. tx.value \in Numbers
    BY DEF Sendable
  <2> QED BY <1>1, <2>1, <2>2
<1>18. IsField(Encoded(tx, sig)[8], Payloads(tx, sig)[8]) /\ Len(Encoded(tx, sig)[8]) \in 1 .. Len(tx.data) + 5
  <2>1. Encoded(tx, sig)[8] = BytesField(tx.data) /\ Payloads(tx, sig)[8] = tx.data
    BY DEF Encoded, Payloads
  <2> QED BY <1>3, <2>1
<1>19. IsField(Encoded(tx, sig)[9], Payloads(tx, sig)[9]) /\ Len(Encoded(tx, sig)[9]) \in 1 .. 37
  <2>1. Encoded(tx, sig)[9] = BytesField(tx.access_list) /\ Payloads(tx, sig)[9] = tx.access_list
    BY DEF Encoded, Payloads
  <2>2. tx.access_list \in Seq(Byte) /\ Len(tx.access_list) = 0 /\ 0 \in {0, 20, 32}
    BY <1>4 DEF Sendable
  <2> QED BY <1>2, <2>1, <2>2
<1>20. IsField(Encoded(tx, sig)[10], Payloads(tx, sig)[10]) /\ Len(Encoded(tx, sig)[10]) \in 1 .. 37
  <2>1. Encoded(tx, sig)[10] = UintField(sig.v) /\ Payloads(tx, sig)[10] = UintPayload(sig.v)
    BY DEF Encoded, Payloads
  <2>2. sig.v \in Numbers
    BY DEF Sendable
  <2> QED BY <1>1, <2>1, <2>2
<1>21. IsField(Encoded(tx, sig)[11], Payloads(tx, sig)[11]) /\ Len(Encoded(tx, sig)[11]) \in 1 .. 37
  <2>1. Encoded(tx, sig)[11] = BytesField(sig.r) /\ Payloads(tx, sig)[11] = sig.r
    BY DEF Encoded, Payloads
  <2>2. sig.r \in Seq(Byte) /\ Len(sig.r) = 32 /\ 32 \in {0, 20, 32}
    BY <1>4 DEF Sendable
  <2> QED BY <1>2, <2>1, <2>2
<1>22. IsField(Encoded(tx, sig)[12], Payloads(tx, sig)[12]) /\ Len(Encoded(tx, sig)[12]) \in 1 .. 37
  <2>1. Encoded(tx, sig)[12] = BytesField(sig.s) /\ Payloads(tx, sig)[12] = sig.s
    BY DEF Encoded, Payloads
  <2>2. sig.s \in Seq(Byte) /\ Len(sig.s) = 32 /\ 32 \in {0, 20, 32}
    BY <1>4 DEF Sendable
  <2> QED BY <1>2, <2>1, <2>2
<1>5. 1 .. 12 = {1, 2, 3, 4, 5, 6, 7, 8, 9, 10, 11, 12}
  OBVIOUS
<1> QED BY <1>5, <1>11, <1>12, <1>13, <1>14, <1>15, <1>16, <1>17, <1>18, <1>19, <1>20, <1>21, <1>22

\* The byte strings of a transaction are of a size the encoder can write.
LEMMA SendableSizes ==
  ASSUME NEW tx, NEW sig, Sendable(tx, sig)
  PROVE  \A d \in {tx.to, tx.data, tx.access_list, sig.r, sig.s} : d \in Seq(Byte) /\ Len(d) \in Numbers
<1>1. ASSUME NEW d, Len(d) \in {0, 20, 32} PROVE Len(d) \in Numbers
  <2>1. \A k \in {0, 20, 32} : k \in Nat /\ k <= 64
    OBVIOUS
  <2> QED BY <1>1, <2>1, Sizes
<1>2. <<>> \in Seq(Byte) /\ Len(<<>>) = 0
  OBVIOUS
<1>3. Len(tx.data) \in Numbers
  <2>1. PICK n \in Nat : n = Len(tx.data)
    BY DEF Sendable
  <2>2. Many(n - 4) /\ 4 + (n - 4) = n
    BY <2>1 DEF Sendable
  <2> QED BY <2>1, <2>2, Sizes
<1>4. Len(tx.to) \in {0, 20, 32} /\ Len(sig.r) \in {0, 20, 32} /\ Len(sig.s) \in {0, 20, 32}
  BY DEF Sendable
<1>5. tx.to \in Seq(Byte) /\ Len(tx.to) \in Numbers
  <2>1. tx.to \in Seq(Byte)
    BY DEF Sendable
  <2> QED BY <1>1, <1>4, <2>1
<1>6. sig.r \in Seq(Byte) /\ Len(sig.r) \in Numbers
  <2>1. sig.r \in Seq(Byte)
    BY DEF Sendable
  <2> QED BY <1>1, <1>4, <2>1
<1>7. sig.s \in Seq(Byte) /\ Len(sig.s) \in Numbers
  <2>1. sig.s \in Seq(Byte)
    BY DEF Sendable
  <2> QED BY <1>1, <1>4, <2>1
<1>8. tx.data \in Seq(Byte)
  BY DEF Sendable
<1>9. tx.access_list \in Seq(Byte) /\ Len(tx.access_list) \in Numbers
  <2>1. tx.access_list = <<>>
    BY DEF Sendable
  <2>2. Len(<<>>) \in Numbers
    BY <1>1, <1>2
  <2> QED BY <1>2, <2>1, <2>2
<1> QED BY <1>3, <1>5, <1>6, <1>7, <1>8, <1>9

\* The buffer after each of the twelve fields.
LEMMA Buffers ==
  ASSUME NEW tx, NEW sig, Sendable(tx, sig)
  PROVE  \E buf \in [0 .. 12 -> Seq(Byte)] :
           /\ Appended(buf, Encoded(tx, sig), 12) /\ Len(buf[12]) \in Numbers
           /\ sign_and_encode(tx, sig) = <<2>> \o rlp_encode_list(buf[12])
           /\ Len(buf[9]) \in Numbers /\ signing_payload(tx) = <<2>> \o rlp_encode_list(buf[9])
<1> DEFINE e(i) == Encoded(tx, sig)[i]
<1>1. \A i \in 1 .. 12 : IsField(e(i), Payloads(tx, sig)[i])
  BY EncodedFields
<1>2. \A i \in 1 .. 12 : e(i) \in Seq(Byte)
  BY <1>1 DEF IsField
<1> HIDE DEF e
<1>3. PICK b0 \in Seq(Byte) : b0 = <<>> /\ Len(b0) = 0
  <2>1. <<>> \in Seq(Byte) /\ Len(<<>>) = 0
    OBVIOUS
  <2> QED BY <2>1
<1>10. ASSUME NEW i \in 1 .. 12, NEW b \in Seq(Byte)
       PROVE  \E c \in Seq(Byte) : c = b \o e(i) /\ Len(c) = Len(b) + Len(e(i))
  BY <1>2, Joined
<1>11. PICK b1 \in Seq(Byte) : b1 = b0 \o e(1) /\ Len(b1) = Len(b0) + Len(e(1))
  <2>1. 1 \in 1 .. 12
    OBVIOUS
  <2> QED BY <1>10, <2>1
<1>12. PICK b2 \in Seq(Byte) : b2 = b1 \o e(2) /\ Len(b2) = Len(b1) + Len(e(2))
  <2>1. 2 \in 1 .. 12
    OBVIOUS
  <2> QED BY <1>10, <2>1
<1>13. PICK b3 \in Seq(Byte) : b3 = b2 \o e(3) /\ Len(b3) = Len(b2) + Len(e(3))
  <2>1. 3 \in 1 .. 12
    OBVIOUS
  <2> QED BY <1>10, <2>1
<1>14. PICK b4 \in Seq(Byte) : b4 = b3 \o e(4) /\ Len(b4) = Len(b3) + Len(e(4))
  <2>1. 4 \in 1 .. 12
    OBVIOUS
  <2> QED BY <1>10, <2>1
<1>15. PICK b5 \in Seq(Byte) : b5 = b4 \o e(5) /\ Len(b5) = Len(b4) + Len(e(5))
  <2>1. 5 \in 1 .. 12
    OBVIOUS
  <2> QED BY <1>10, <2>1
<1>16. PICK b6 \in Seq(Byte) : b6 = b5 \o e(6) /\ Len(b6) = Len(b5) + Len(e(6))
  <2>1. 6 \in 1 .. 12
    OBVIOUS
  <2> QED BY <1>10, <2>1
<1>17. PICK b7 \in Seq(Byte) : b7 = b6 \o e(7) /\ Len(b7) = Len(b6) + Len(e(7))
  <2>1. 7 \in 1 .. 12
    OBVIOUS
  <2> QED BY <1>10, <2>1
<1>18. PICK b8 \in Seq(Byte) : b8 = b7 \o e(8) /\ Len(b8) = Len(b7) + Len(e(8))
  <2>1. 8 \in 1 .. 12
    OBVIOUS
  <2> QED BY <1>10, <2>1
<1>19. PICK b9 \in Seq(Byte) : b9 = b8 \o e(9) /\ Len(b9) = Len(b8) + Len(e(9))
  <2>1. 9 \in 1 .. 12
    OBVIOUS
  <2> QED BY <1>10, <2>1
<1>20. PICK b10 \in Seq(Byte) : b10 = b9 \o e(10) /\ Len(b10) = Len(b9) + Len(e(10))
  <2>1. 10 \in 1 .. 12
    OBVIOUS
  <2> QED BY <1>10, <2>1
<1>21. PICK b11 \in Seq(Byte) : b11 = b10 \o e(11) /\ Len(b11) = Len(b10) + Len(e(11))
  <2>1. 11 \in 1 .. 12
    OBVIOUS
  <2> QED BY <1>10, <2>1
<1>22. PICK b12 \in Seq(Byte) : b12 = b11 \o e(12) /\ Len(b12) = Len(b11) + Len(e(12))
  <2>1. 12 \in 1 .. 12
    OBVIOUS
  <2> QED BY <1>10, <2>1
<1> DEFINE buf == [i \in 0 .. 12 |-> IF i = 0 THEN b0 ELSE <<b1, b2, b3, b4, b5, b6, b7, b8, b9, b10, b11, b12>>[i]]
<1>4. /\ buf[0] = b0
      /\ buf[1] = b1
      /\ buf[2] = b2
      /\ buf[3] = b3
      /\ buf[4] = b4
      /\ buf[5] = b5
      /\ buf[6] = b6
      /\ buf[7] = b7
      /\ buf[8] = b8
      /\ buf[9] = b9
      /\ buf[10] = b10
      /\ buf[11] = b11
      /\ buf[12] = b12
  OBVIOUS
<1>5. 0 .. 12 = {0, 1, 2, 3, 4, 5, 6, 7, 8, 9, 10, 11, 12} /\ 1 .. 12 = {1, 2, 3, 4, 5, 6, 7, 8, 9, 10, 11, 12}
  OBVIOUS
<1>6. buf \in [0 .. 12 -> Seq(Byte)]
  <2>1. \A i \in 0 .. 12 : buf[i] \in Seq(Byte)
    <3> HIDE DEF buf
    <3> QED BY <1>4, <1>5
  <2> QED BY <2>1
<1> HIDE DEF buf, e
<1>7. \A i \in 1 .. 12 : buf[i] = buf[i - 1] \o e(i)
  <2>1. buf[1] = buf[1 - 1] \o e(1)
    <3>1. 1 - 1 = 0
      OBVIOUS
    <3> QED BY <1>4, <1>11, <3>1
  <2>2. buf[2] = buf[2 - 1] \o e(2)
    <3>1. 2 - 1 = 1
      OBVIOUS
    <3> QED BY <1>4, <1>12, <3>1
  <2>3. buf[3] = buf[3 - 1] \o e(3)
    <3>1. 3 - 1 = 2
      OBVIOUS
    <3> QED BY <1>4, <1>13, <3>1
  <2>4. buf[4] = buf[4 - 1] \o e(4)
    <3>1. 4 - 1 = 3
      OBVIOUS
    <3> QED BY <1>4, <1>14, <3>1
  <2>5. buf[5] = buf[5 - 1] \o e(5)
    <3>1. 5 - 1 = 4
      OBVIOUS
    <3> QED BY <1>4, <1>15, <3>1
  <2>6. buf[6] = buf[6 - 1] \o e(6)
    <3>1. 6 - 1 = 5
      OBVIOUS
    <3> QED BY <1>4, <1>16, <3>1
  <2>7. buf[7] = buf[7 - 1] \o e(7)
    <3>1. 7 - 1 = 6
      OBVIOUS
    <3> QED BY <1>4, <1>17, <3>1
  <2>8. buf[8] = buf[8 - 1] \o e(8)
    <3>1. 8 - 1 = 7
      OBVIOUS
    <3> QED BY <1>4, <1>18, <3>1
  <2>9. buf[9] = buf[9 - 1] \o e(9)
    <3>1. 9 - 1 = 8
      OBVIOUS
    <3> QED BY <1>4, <1>19, <3>1
  <2>10. buf[10] = buf[10 - 1] \o e(10)
    <3>1. 10 - 1 = 9
      OBVIOUS
    <3> QED BY <1>4, <1>20, <3>1
  <2>11. buf[11] = buf[11 - 1] \o e(11)
    <3>1. 11 - 1 = 10
      OBVIOUS
    <3> QED BY <1>4, <1>21, <3>1
  <2>12. buf[12] = buf[12 - 1] \o e(12)
    <3>1. 12 - 1 = 11
      OBVIOUS
    <3> QED BY <1>4, <1>22, <3>1
  <2> QED BY <1>5, <2>1, <2>2, <2>3, <2>4, <2>5, <2>6, <2>7, <2>8, <2>9, <2>10, <2>11, <2>12
<1>8. Len(b9) \in Numbers /\ Len(b12) \in Numbers
  <2>1. /\ \A i \in (1 .. 12) \ {8} : Len(e(i)) \in 1 .. 37
        /\ Len(e(8)) \in 1 .. Len(tx.data) + 5
    BY EncodedFields DEF e
  <2>2. PICK l1 \in 1 .. 37 : l1 = Len(e(1))
    BY <2>1
  <2>3. PICK l2 \in 1 .. 37 : l2 = Len(e(2))
    BY <2>1
  <2>4. PICK l3 \in 1 .. 37 : l3 = Len(e(3))
    BY <2>1
  <2>5. PICK l4 \in 1 .. 37 : l4 = Len(e(4))
    BY <2>1
  <2>6. PICK l5 \in 1 .. 37 : l5 = Len(e(5))
    BY <2>1
  <2>7. PICK l6 \in 1 .. 37 : l6 = Len(e(6))
    BY <2>1
  <2>8. PICK l7 \in 1 .. 37 : l7 = Len(e(7))
    BY <2>1
  <2>10. PICK l9 \in 1 .. 37 : l9 = Len(e(9))
    BY <2>1
  <2>11. PICK l10 \in 1 .. 37 : l10 = Len(e(10))
    BY <2>1
  <2>12. PICK l11 \in 1 .. 37 : l11 = Len(e(11))
    BY <2>1
  <2>13. PICK l12 \in 1 .. 37 : l12 = Len(e(12))
    BY <2>1
  <2>20. PICK n \in Nat : n = Len(tx.data) /\ Many(n - 4) /\ n - 4 \in Nat
    <3>1. Len(tx.data) \in Nat /\ Many(Len(tx.data) - 4)
      BY DEF Sendable
    <3>2. \A m : Many(m) => m \in Nat
      BY Sizes
    <3> QED BY <3>1, <3>2
  <2>21. PICK l8 \in 1 .. n + 5 : l8 = Len(e(8))
    BY <2>1, <2>20
  <2>9. Len(b9) = l1 + l2 + l3 + l4 + l5 + l6 + l7 + l8 + l9
    <3>1. Len(b1) = l1
      BY <1>3, <1>11, <2>2
    <3>2. Len(b2) = l1 + l2
      BY <3>1, <1>12, <2>3
    <3>3. Len(b3) = l1 + l2 + l3
      BY <3>2, <1>13, <2>4
    <3>4. Len(b4) = l1 + l2 + l3 + l4
      BY <3>3, <1>14, <2>5
    <3>5. Len(b5) = l1 + l2 + l3 + l4 + l5
      BY <3>4, <1>15, <2>6
    <3>6. Len(b6) = l1 + l2 + l3 + l4 + l5 + l6
      BY <3>5, <1>16, <2>7
    <3>7. Len(b7) = l1 + l2 + l3 + l4 + l5 + l6 + l7
      BY <3>6, <1>17, <2>8
    <3>8. Len(b8) = l1 + l2 + l3 + l4 + l5 + l6 + l7 + l8
      BY <3>7, <1>18, <2>21
    <3>9. Len(b9) = l1 + l2 + l3 + l4 + l5 + l6 + l7 + l8 + l9
      BY <3>8, <1>19, <2>10
    <3> QED BY <3>9
  <2>22. Len(b12) = l1 + l2 + l3 + l4 + l5 + l6 + l7 + l8 + l9 + l10 + l11 + l12
    <3>10. Len(b10) = l1 + l2 + l3 + l4 + l5 + l6 + l7 + l8 + l9 + l10
      BY <2>9, <1>20, <2>11
    <3>11. Len(b11) = l1 + l2 + l3 + l4 + l5 + l6 + l7 + l8 + l9 + l10 + l11
      BY <3>10, <1>21, <2>12
    <3>12. Len(b12) = l1 + l2 + l3 + l4 + l5 + l6 + l7 + l8 + l9 + l10 + l11 + l12
      BY <3>11, <1>22, <2>13
    <3> QED BY <3>12
  <2>24. Len(b9) = l1 + l2 + l3 + l4 + l5 + l6 + l7 + l8 + l9
    BY <2>9
  <2>25. PICK m \in Nat : n = m + 4 /\ n - 4 = m
    <3>1. n - 4 \in Nat /\ n = (n - 4) + 4
      BY <2>20
    <3> QED BY <3>1
  <2>26. PICK a \in Nat : a = l1 + l2 + l3 + l4 + l5 + l6 + l7 + l8 + l9 /\ a <= 305 + m
    <3>1. l8 <= m + 9
      BY <2>25
    <3>2. l1 + l2 + l3 + l4 <= 148 /\ l5 + l6 + l7 <= 111
      OBVIOUS
    <3>3. l1 + l2 + l3 + l4 + l5 + l6 + l7 + l8 + l9 <= 305 + m
      BY <3>1, <3>2
    <3>4. l1 + l2 + l3 + l4 + l5 + l6 + l7 + l8 + l9 \in Nat
      OBVIOUS
    <3> QED BY <3>3, <3>4
  <2>27. a + l10 + l11 + l12 \in Nat /\ a + l10 + l11 + l12 <= 420 + m /\ a <= 420 + m
    BY <2>26
  <2>28. Len(b12) = a + l10 + l11 + l12 /\ Len(b9) = a
    BY <2>22, <2>24, <2>26
  <2> QED BY <2>20, <2>25, <2>27, <2>28, FieldSizes
<1>9. /\ sign_and_encode(tx, sig) = <<2>> \o rlp_encode_list(b12)
      /\ signing_payload(tx) = <<2>> \o rlp_encode_list(b9)
  <2>1. rlp_append_uint(<<>>, tx.chain_id) = b1
    <3>1. tx.chain_id \in Numbers
      BY DEF Sendable
    <3>2. rlp_append_uint(<<>>, tx.chain_id) = <<>> \o UintField(tx.chain_id)
      BY <3>1, AppendUintIs
    <3> QED BY <1>3, <1>11, <3>2 DEF e, Encoded
  <2>2. rlp_append_uint(b1, tx.nonce) = b2
    <3>1. tx.nonce \in Numbers
      BY DEF Sendable
    <3>2. rlp_append_uint(b1, tx.nonce) = b1 \o UintField(tx.nonce)
      BY <3>1, AppendUintIs
    <3> QED BY <1>3, <1>12, <3>2 DEF e, Encoded
  <2>3. rlp_append_uint(b2, tx.max_priority_fee_per_gas) = b3
    <3>1. tx.max_priority_fee_per_gas \in Numbers
      BY DEF Sendable
    <3>2. rlp_append_uint(b2, tx.max_priority_fee_per_gas) = b2 \o UintField(tx.max_priority_fee_per_gas)
      BY <3>1, AppendUintIs
    <3> QED BY <1>3, <1>13, <3>2 DEF e, Encoded
  <2>4. rlp_append_uint(b3, tx.max_fee_per_gas) = b4
    <3>1. tx.max_fee_per_gas \in Numbers
      BY DEF Sendable
    <3>2. rlp_append_uint(b3, tx.max_fee_per_gas) = b3 \o UintField(tx.max_fee_per_gas)
      BY <3>1, AppendUintIs
    <3> QED BY <1>3, <1>14, <3>2 DEF e, Encoded
  <2>5. rlp_append_uint(b4, tx.gas_limit) = b5
    <3>1. tx.gas_limit \in Numbers
      BY DEF Sendable
    <3>2. rlp_append_uint(b4, tx.gas_limit) = b4 \o UintField(tx.gas_limit)
      BY <3>1, AppendUintIs
    <3> QED BY <1>3, <1>15, <3>2 DEF e, Encoded
  <2>6. rlp_append_bytes(b5, tx.to) = b6
    <3>1. tx.to \in Seq(Byte) /\ Len(tx.to) \in Numbers
      BY SendableSizes
    <3>2. rlp_append_bytes(b5, tx.to) = b5 \o BytesField(tx.to)
      BY <3>1, AppendBytesIs
    <3> QED BY <1>3, <1>16, <3>2 DEF e, Encoded
  <2>7. rlp_append_uint(b6, tx.value) = b7
    <3>1. tx.value \in Numbers
      BY DEF Sendable
    <3>2. rlp_append_uint(b6, tx.value) = b6 \o UintField(tx.value)
      BY <3>1, AppendUintIs
    <3> QED BY <1>3, <1>17, <3>2 DEF e, Encoded
  <2>8. rlp_append_bytes(b7, tx.data) = b8
    <3>1. tx.data \in Seq(Byte) /\ Len(tx.data) \in Numbers
      BY SendableSizes
    <3>2. rlp_append_bytes(b7, tx.data) = b7 \o BytesField(tx.data)
      BY <3>1, AppendBytesIs
    <3> QED BY <1>3, <1>18, <3>2 DEF e, Encoded
  <2>9. rlp_append_bytes(b8, tx.access_list) = b9
    <3>1. tx.access_list \in Seq(Byte) /\ Len(tx.access_list) \in Numbers
      BY SendableSizes
    <3>2. rlp_append_bytes(b8, tx.access_list) = b8 \o BytesField(tx.access_list)
      BY <3>1, AppendBytesIs
    <3> QED BY <1>3, <1>19, <3>2 DEF e, Encoded
  <2>10. rlp_append_uint(b9, sig.v) = b10
    <3>1. sig.v \in Numbers
      BY DEF Sendable
    <3>2. rlp_append_uint(b9, sig.v) = b9 \o UintField(sig.v)
      BY <3>1, AppendUintIs
    <3> QED BY <1>3, <1>20, <3>2 DEF e, Encoded
  <2>11. rlp_append_bytes(b10, sig.r) = b11
    <3>1. sig.r \in Seq(Byte) /\ Len(sig.r) \in Numbers
      BY SendableSizes
    <3>2. rlp_append_bytes(b10, sig.r) = b10 \o BytesField(sig.r)
      BY <3>1, AppendBytesIs
    <3> QED BY <1>3, <1>21, <3>2 DEF e, Encoded
  <2>12. rlp_append_bytes(b11, sig.s) = b12
    <3>1. sig.s \in Seq(Byte) /\ Len(sig.s) \in Numbers
      BY SendableSizes
    <3>2. rlp_append_bytes(b11, sig.s) = b11 \o BytesField(sig.s)
      BY <3>1, AppendBytesIs
    <3> QED BY <1>3, <1>22, <3>2 DEF e, Encoded
  <2>13. tx_fields(tx) = b9
    BY <2>1, <2>2, <2>3, <2>4, <2>5, <2>6, <2>7, <2>8, <2>9 DEF tx_fields
  <2> QED BY <2>10, <2>11, <2>12, <2>13 DEF sign_and_encode, signing_payload
<1>23. Appended(buf, Encoded(tx, sig), 12)
  BY <1>3, <1>4, <1>7 DEF Appended, e
<1> QED BY <1>4, <1>6, <1>8, <1>9, <1>23

-----------------------------------------------------------------------------
(* Encoding: the signed transaction *)

\* The header of a list.
LEMMA EncodeListIs ==
  ASSUME NEW d \in Seq(Byte), Len(d) \in Numbers
  PROVE  rlp_encode_list(d) = Header(192, Len(d)) \o d
<1>1. PICK n \in Nat : n = Len(d) /\ n \in Numbers
  OBVIOUS
<1>2. CASE n < 56
  BY <1>1, <1>2 DEF rlp_encode_list, Header
<1>3. CASE ~(n < 56)
  <2>1. n # 0
    BY <1>3
  <2>2. PICK k \in 1 .. 4 : k = Len(rlp_uint_bytes(n))
    BY <1>1, <2>1, LengthBytes
  <2>3. 247 + k = 192 + 55 + k
    OBVIOUS
  <2> QED BY <1>1, <1>3, <2>2, <2>3 DEF rlp_encode_list, Header
<1> QED BY <1>2, <1>3

\* The payload of a list is read as it was written.
LEMMA ListItem ==
  ASSUME NEW s \in Seq(Byte), NEW p \in Nat \ {0}, NEW d \in Seq(Byte),
         Len(d) \in Numbers, At(s, p, Header(192, Len(d)) \o d)
  PROVE  ItemAt(s, p).payload = d
<1>1. ItemAt(s, p) = [kind |-> IF 192 = 128 THEN "string" ELSE "list", payload |-> d,
                      next |-> p + Len(Header(192, Len(d)) \o d)]
  <2>1. 192 \in {128, 192}
    OBVIOUS
  <2> QED BY <2>1, PayloadItem
<1> QED BY <1>1

\* The raw transaction whose list is d is read as the items of d.
LEMMA RawRead ==
  ASSUME NEW d \in Seq(Byte), Len(d) \in Numbers
  PROVE  TxItems(<<2>> \o rlp_encode_list(d)) = Items(d)
<1>3. PICK h \in Seq(Byte) : h = Header(192, Len(d))
  BY HeaderIs
<1>4. PICK x \in Seq(Byte) : x = h \o d
  BY Joined
<1>5. PICK two \in Seq(Byte) : two = <<2>> /\ Len(two) = 1
  <2>1. 2 \in Byte
    BY DEF Byte
  <2>2. <<2>> \in Seq(Byte) /\ Len(<<2>>) = 1
    BY <2>1
  <2> QED BY <2>2
<1>6. PICK raw \in Seq(Byte) : raw = two \o x
  BY Joined
<1>7. <<2>> \o rlp_encode_list(d) = raw
  <2>1. rlp_encode_list(d) = h \o d
    BY <1>3, EncodeListIs
  <2> QED BY <1>4, <1>5, <1>6, <2>1
<1>8. At(raw, 1, two) /\ At(raw, 2, x)
  <2>1. At(raw, 1, two \o x)
    BY <1>6, AtItself
  <2>2. 1 \in Nat \ {0} /\ 1 + 1 = 2
    OBVIOUS
  <2>3. At(raw, 1, two) /\ At(raw, 1 + Len(two), x)
    BY <2>1, <2>2, AtParts
  <2> QED BY <1>5, <2>2, <2>3
<1>9. raw[1] = 2
  <2>1. At(raw, 1, <<2>>) /\ 1 \in Nat \ {0} /\ 2 \in Byte
    BY <1>5, <1>8 DEF Byte
  <2> QED BY <2>1, AtByte
<1>10. ItemAt(raw, 2).payload = d
  <2>1. 2 \in Nat \ {0}
    OBVIOUS
  <2>2. At(raw, 2, Header(192, Len(d)) \o d)
    BY <1>3, <1>4, <1>8
  <2> QED BY <2>1, <2>2, ListItem
<1>11. TxItems(raw) = Items(d)
  BY <1>9, <1>10 DEF TxItems
<1> QED BY <1>7, <1>11

\* A node reads the twelve fields of a signed transaction as they were meant,
\* and the nine that were hashed and signed.
LEMMA SignedRead ==
  ASSUME NEW tx, NEW sig, Sendable(tx, sig)
  PROVE  /\ SayStrings(TxItems(sign_and_encode(tx, sig)), Payloads(tx, sig), 12)
         /\ SayStrings(TxItems(signing_payload(tx)), Payloads(tx, sig), 9)
<1>1. PICK buf \in [0 .. 12 -> Seq(Byte)] :
           /\ Appended(buf, Encoded(tx, sig), 12) /\ Len(buf[12]) \in Numbers
           /\ sign_and_encode(tx, sig) = <<2>> \o rlp_encode_list(buf[12])
           /\ Len(buf[9]) \in Numbers /\ signing_payload(tx) = <<2>> \o rlp_encode_list(buf[9])
  BY Buffers
<1>2. AreFields(Encoded(tx, sig), Payloads(tx, sig), 12)
  BY EncodedFields DEF AreFields
<1>3. 12 \in 0 .. 12 /\ 9 \in 0 .. 12 /\ 12 \in Nat /\ 9 \in Nat
  OBVIOUS
<1>4. SayStrings(TxItems(sign_and_encode(tx, sig)), Payloads(tx, sig), 12)
  <2>1. PICK d \in Seq(Byte) : d = buf[12]
    BY <1>3
  <2>2. Len(d) \in Numbers
    BY <1>1, <2>1
  <2>3. TxItems(<<2>> \o rlp_encode_list(d)) = Items(d)
    BY <2>2, RawRead
  <2>4. Appended(buf, Encoded(tx, sig), 12)
    BY <1>1
  <2>5. SayStrings(Items(d), Payloads(tx, sig), 12)
    BY <1>2, <1>3, <2>1, <2>4, FieldsRead
  <2> QED BY <1>1, <2>1, <2>3, <2>5
<1>5. SayStrings(TxItems(signing_payload(tx)), Payloads(tx, sig), 9)
  <2>1. PICK d \in Seq(Byte) : d = buf[9]
    BY <1>3
  <2>2. Len(d) \in Numbers
    BY <1>1, <2>1
  <2>3. TxItems(<<2>> \o rlp_encode_list(d)) = Items(d)
    BY <2>2, RawRead
  <2>4. PICK first \in [0 .. 9 -> Seq(Byte)] : \A i \in 0 .. 9 : first[i] = buf[i]
    <3>1. \A i \in 0 .. 9 : buf[i] \in Seq(Byte)
      <4>1. \A i \in 0 .. 9 : i \in 0 .. 12
        OBVIOUS
      <4> QED BY <4>1
    <3>2. [i \in 0 .. 9 |-> buf[i]] \in [0 .. 9 -> Seq(Byte)]
      BY <3>1
    <3> QED BY <3>2
  <2>5. 0 \in 0 .. 9 /\ 9 \in 0 .. 9 /\ \A i \in 1 .. 9 : i \in 1 .. 12 /\ i \in 0 .. 9 /\ i - 1 \in 0 .. 9
    OBVIOUS
  <2>6. Appended(first, Encoded(tx, sig), 9)
    BY <1>1, <2>4, <2>5 DEF Appended
  <2>7. AreFields(Encoded(tx, sig), Payloads(tx, sig), 9)
    BY <1>2, <2>5 DEF AreFields
  <2>8. SayStrings(Items(first[9]), Payloads(tx, sig), 9)
    BY <1>3, <2>6, <2>7, FieldsRead
  <2>9. first[9] = d
    BY <2>1, <2>4, <2>5
  <2> QED BY <1>1, <2>1, <2>3, <2>8, <2>9
<1> QED BY <1>4, <1>5

\* The transaction of a call: its fields are of these sizes.
LEMMA SettlementSendable ==
  ASSUME NEW nonce \in Numbers, NEW c, CallOf(c), NEW sig \in Signatures
  PROVE  Sendable(Eip1559Tx(nonce, c), sig)
<1> DEFINE tx == Eip1559Tx(nonce, c)
<1>1. {tx.chain_id, tx.nonce, tx.max_priority_fee_per_gas, tx.max_fee_per_gas, tx.gas_limit, tx.value} \subseteq Numbers
  <2>1. /\ tx.nonce \in Numbers /\ tx.chain_id = 421614 /\ tx.max_priority_fee_per_gas = 100000000
        /\ tx.max_fee_per_gas = (20000000 * 3) \div 2 + 100000000
        /\ tx.gas_limit = 150000 /\ tx.value = 0
    BY SMT DEF Eip1559Tx
  <2> HIDE DEF tx
  <2> QED BY SMT, <2>1 DEF Numbers
<1>2. tx.to = EscrowAddress /\ tx.data = Calldata(c) /\ tx.access_list = <<>>
  BY SMT DEF Eip1559Tx
<1> HIDE DEF tx
<1>3. tx.to \in Seq(Byte) /\ Len(tx.to) = 20
  BY <1>2, EncodingAssumption DEF Byte
<1>4. tx.data \in Seq(Byte) /\ Len(tx.data) \in 4 .. Len(tx.data) /\ Many(Len(tx.data) - 4)
  BY <1>2, CalldataRoundTrip
<1>5. sig.v \in Numbers
  <2>1. sig.v \in {0, 1}
    BY EncodingAssumption
  <2> QED BY SMT, <2>1 DEF Numbers
<1>6. sig.r \in Seq(Byte) /\ Len(sig.r) = 32 /\ sig.s \in Seq(Byte) /\ Len(sig.s) = 32
  BY EncodingAssumption DEF Byte
<1>7. Sendable(tx, sig)
  BY <1>1, <1>2, <1>3, <1>4, <1>5, <1>6 DEF Sendable
<1> QED BY <1>7 DEF tx

\* signing_payload and sign_and_encode: what was hashed and signed is what is
\* sent, field by field, so the node recovers the oracle's address from it.
THEOREM SignedIsSent ==
  ASSUME NEW nonce \in Numbers, NEW c, CallOf(c), NEW sig \in Signatures
  PROVE  LET signed == TxItems(signing_payload(Eip1559Tx(nonce, c)))
             sent   == TxItems(sign_and_encode(Eip1559Tx(nonce, c), sig))
         IN  /\ Len(signed) = 9 /\ Len(sent) = 12
             /\ \A i \in 1 .. 9 : signed[i].kind = sent[i].kind /\ signed[i].payload = sent[i].payload
<1>1. PICK tx : tx = Eip1559Tx(nonce, c)
  OBVIOUS
<1>2. Sendable(tx, sig)
  BY <1>1, SettlementSendable
<1>3. PICK signed : signed = TxItems(signing_payload(tx))
  OBVIOUS
<1>4. PICK sent : sent = TxItems(sign_and_encode(tx, sig))
  OBVIOUS
<1>5. SayStrings(sent, Payloads(tx, sig), 12) /\ SayStrings(signed, Payloads(tx, sig), 9)
  BY <1>2, <1>3, <1>4, SignedRead
<1>6. \A i \in 1 .. 9 : i \in 1 .. 12
  OBVIOUS
<1>7. /\ Len(signed) = 9 /\ Len(sent) = 12
      /\ \A i \in 1 .. 9 : signed[i].kind = sent[i].kind /\ signed[i].payload = sent[i].payload
  BY <1>5, <1>6 DEF SayStrings
<1> QED BY <1>1, <1>3, <1>4, <1>7

\* sign_and_encode: what a node reads in the transaction of a call is that call,
\* for the escrow contract and with that nonce; it can read it unless a half of the signature
\* starts with a zero byte; and its access list is never a list.
THEOREM TransactionRoundTrip ==
  ASSUME NEW nonce \in Numbers, NEW c, CallOf(c), NEW sig \in Signatures
  PROVE  LET it == TxItems(sign_and_encode(Eip1559Tx(nonce, c), sig))
         IN  /\ ReadTx(it) = [nonce |-> nonce, to |-> EscrowAddress, c |-> c]
             /\ Readable(it) <=> (sig.r[1] # 0 /\ sig.s[1] # 0)
             /\ it[9].kind = "string"
<1>1. PICK tx : tx = Eip1559Tx(nonce, c)
  OBVIOUS
<1>2. Sendable(tx, sig)
  BY <1>1, SettlementSendable
<1>3. tx.nonce = nonce /\ tx.to = EscrowAddress /\ tx.data = Calldata(c)
  BY SMT, <1>1 DEF Eip1559Tx
<1>4. PICK it : it = TxItems(sign_and_encode(tx, sig))
  OBVIOUS
<1>5. Len(it) = 12 /\ \A i \in 1 .. 12 : it[i].kind = "string" /\ it[i].payload = Payloads(tx, sig)[i]
  BY <1>2, <1>4, SignedRead DEF SayStrings
<1>6. 1 .. 12 = {1, 2, 3, 4, 5, 6, 7, 8, 9, 10, 11, 12}
  OBVIOUS
<1>7. /\ it[1].payload = UintPayload(tx.chain_id)
      /\ it[2].payload = UintPayload(tx.nonce)
      /\ it[3].payload = UintPayload(tx.max_priority_fee_per_gas)
      /\ it[4].payload = UintPayload(tx.max_fee_per_gas)
      /\ it[5].payload = UintPayload(tx.gas_limit)
      /\ it[6].payload = tx.to
      /\ it[7].payload = UintPayload(tx.value)
      /\ it[8].payload = tx.data
      /\ it[10].payload = UintPayload(sig.v)
      /\ it[11].payload = sig.r
      /\ it[12].payload = sig.s
  <2>1. \A i \in {1, 2, 3, 4, 5, 6, 7, 8, 9, 10, 11, 12} : it[i].payload = Payloads(tx, sig)[i]
    BY <1>5, <1>6
  <2> QED BY <2>1 DEF Payloads
<1>8. \A i \in {1, 2, 3, 4, 5, 6, 7, 8, 9, 10, 11, 12} : it[i].kind = "string"
  BY <1>5, <1>6
<1>9. ReadTx(it) = [nonce |-> nonce, to |-> EscrowAddress, c |-> c]
  <2>1. FromBytes(it[2].payload) = nonce
    BY <1>3, <1>7, UintPayloadIs
  <2>2. ReadCall(it[8].payload) = c
    BY <1>3, <1>7, CalldataRoundTrip
  <2> QED BY <1>3, <1>7, <2>1, <2>2 DEF ReadTx
<1>10. \A i \in {1, 2, 3, 4, 5, 7, 10} : CanonicalUint(it[i])
  <2>1. ASSUME NEW i, NEW n \in Numbers, it[i].payload = UintPayload(n), it[i].kind = "string"
        PROVE  CanonicalUint(it[i])
    BY <2>1, UintPayloadIs DEF CanonicalUint
  <2>2. /\ tx.chain_id \in Numbers /\ tx.nonce \in Numbers /\ tx.max_priority_fee_per_gas \in Numbers
        /\ tx.max_fee_per_gas \in Numbers /\ tx.gas_limit \in Numbers /\ tx.value \in Numbers /\ sig.v \in Numbers
    BY <1>2 DEF Sendable
  <2> QED BY <1>7, <1>8, <2>1, <2>2
<1>11. (CanonicalUint(it[11]) <=> sig.r[1] # 0) /\ (CanonicalUint(it[12]) <=> sig.s[1] # 0)
  <2>1. sig.r # <<>> /\ sig.s # <<>>
    <3>1. Len(<<>>) = 0 /\ Len(sig.r) = 32 /\ Len(sig.s) = 32 /\ 32 # 0
      BY <1>2 DEF Sendable
    <3> QED BY <3>1
  <2> QED BY <1>7, <1>8, <2>1 DEF CanonicalUint
<1>12. Len(it[6].payload) = 20
  BY <1>2, <1>7 DEF Sendable
<1>13. Readable(it) <=> (sig.r[1] # 0 /\ sig.s[1] # 0)
  BY <1>5, <1>8, <1>10, <1>11, <1>12 DEF Readable
<1> QED BY <1>1, <1>4, <1>8, <1>9, <1>13

-----------------------------------------------------------------------------
(* Settlement: whatever the oracle sends, it only uses the contract *)

\* A call the contract carries out is a transaction of the oracle's wallet.
LEMMA ExecuteIsTransaction ==
  ASSUME NEW c, Execute(c) PROVE Next
<1>1. c \in Calls /\ c.job \in JobIds
  BY DEF Execute, Calls
<1>2. Oracle \in Wallets
  BY SettlementAssumption, EscrowAssumption
<1>3. CASE c.call = "release"
  <2>1. c.wei \in {nmc_to_wei_u128(h) : h \in Halves}
    BY <1>1, <1>3 DEF Calls
  <2>2. c.wei \in Costs
    BY <2>1, SettlementAssumption
  <2>3. releaseEscrow(c.job, Oracle, c.wei)
    BY <1>3 DEF Execute
  <2> QED BY <1>1, <1>2, <2>2, <2>3 DEF Next, UserStep
<1>4. CASE c.call # "release"
  <2>1. cancelEscrow(c.job, Oracle)
    BY <1>4 DEF Execute
  <2> QED BY <1>1, <1>2, <2>1 DEF Next, UserStep
<1> QED BY <1>3, <1>4

\* A step of a task, of the node or of another user is a transaction of the
\* contract, or leaves it alone.
LEMMA StepIsTransaction == [SettlementNext]_settlementVars => [Next]_vars
<1> SUFFICES ASSUME [SettlementNext]_settlementVars PROVE [Next]_vars
  OBVIOUS
<1>1. CASE OthersStep
  BY <1>1 DEF OthersStep, Next, UserStep
<1>2. CASE TaskStep
  BY <1>2 DEF TaskStep, complete_job_settle, report_completion_settle, fail_job_settle, Spawned,
              on_chain_release, on_chain_cancel, Forward, get_nonce, send_raw_tx, wait_for_receipt,
              task_error
<1>3. ASSUME NEW tx \in pool, Mine(tx) PROVE [Next]_vars
  BY <1>3, ExecuteIsTransaction DEF Mine
<1>4. ASSUME NEW tx \in pool, Drop(tx) PROVE [Next]_vars
  BY <1>4 DEF Drop
<1>5. CASE UNCHANGED settlementVars
  BY <1>5 DEF settlementVars
<1> QED BY <1>1, <1>2, <1>3, <1>4, <1>5 DEF SettlementNext, NodeStep

\* Settlement refines the contract: in every behaviour of the two services and
\* the node, Escrow.sol only makes the steps its module describes, so all that
\* is proved of the contract holds with the oracle, too.
THEOREM SettlementUsesContract == SettlementSpec => Spec
<1>1. SettlementInit => Init
  BY DEF SettlementInit
<1> QED BY <1>1, StepIsTransaction, PTL DEF SettlementSpec, Spec

-----------------------------------------------------------------------------
(* Settlement: what tasks and node know of each other *)

\* The contract has done what a call asks for, for good.
Done(c) ==
  LET job == jobs[c.job] IN
  IF c.call = "release" THEN job.state = "Settled" /\ job.actualCost = c.wei
                        ELSE job.state = "Cancelled"

Task == [pc : Stages, c : Calls \cup {NoCall}, nonce : Nonces]

OracleTypes ==
  /\ env \in Deployments
  /\ task \in [Tasks -> Task]
  /\ pool \subseteq Tx
  /\ mined \in Nat
  /\ receipts \subseteq [tx : Tx, status : BOOLEAN]

\* A task that left "idle" has a call, and asked for its nonce in the past.
TasksHaveCalls ==
  \A t \in Tasks : task[t].nonce <= mined /\ (task[t].pc # "idle" => task[t].c \in Calls)

\* The node has read what is pending.
PendingWasRead == \A tx \in pool : ReadingsOf(tx) # {}

\* A receipt of success is a fact about the contract.
ReceiptsAreTrue == \A r \in receipts : r.status => Done(r.tx.c)

OracleInv ==
  OracleTypes /\ TasksHaveCalls /\ PendingWasRead /\ OnePending /\ ReceiptsAreTrue /\ TrueReport

\* Settled and cancelled jobs stay as they are.
LEMMA DoneStays ==
  ASSUME TypeOK, [Next]_vars, NEW c \in Calls, Done(c) PROVE Done(c)'
<1> DEFINE j == c.job
<1>1. j \in JobIds
  BY DEF Calls
<1>2. jobs[j].state \in {"Settled", "Cancelled"}
  BY DEF Done
<1> HIDE DEF j
<1>3. jobs'[j] = jobs[j]
  BY <1>1, <1>2, StepKeepsAgreement DEF AgreementKept
<1> QED BY <1>3 DEF Done, j

\* After a call that was carried out, it is done.
LEMMA ExecutedIsDone ==
  ASSUME TypeOK, NEW c \in Calls, Execute(c) PROVE Done(c)'
<1> DEFINE j == c.job
<1>1. j \in JobIds
  BY DEF Calls
<1>2. CASE c.call = "release"
  <2>1. releaseEscrow(j, Oracle, c.wei)
    BY <1>2 DEF Execute
  <2> HIDE DEF j
  <2>2. jobs'[j].state = "Settled" /\ jobs'[j].actualCost = c.wei
    BY <1>1, <2>1 DEF releaseEscrow, TypeOK, Job
  <2> QED BY <1>2, <2>2 DEF Done, j
<1>3. CASE c.call # "release"
  <2>1. cancelEscrow(j, Oracle)
    BY <1>3 DEF Execute
  <2> HIDE DEF j
  <2>2. jobs'[j].state = "Cancelled"
    BY <1>1, <2>1 DEF cancelEscrow, TypeOK, Job
  <2> QED BY <1>3, <2>2 DEF Done, j
<1> QED BY <1>2, <1>3

\* The calls and nonces of the oracle are among those the encoders are used with.
LEMMA CallsAreEncoded ==
  /\ \A c \in Calls : CallOf(c)
  /\ \A nonce \in Nonces : nonce \in Numbers
<1>1. 0 \in Numbers
  BY SmallNumbers
<1>2. ASSUME NEW c \in Calls PROVE CallOf(c)
  <2>1. c.job \in DOMAIN JobName /\ c = [call |-> c.call, job |-> c.job, wei |-> c.wei]
    BY SettlementAssumption DEF Calls
  <2>2. c.wei \in Numbers
    BY <1>1, SettlementAssumption DEF Calls
  <2>3. c.call = "release" \/ (c.call = "cancel" /\ c.wei = 0)
    BY DEF Calls
  <2> QED BY <2>1, <2>2, <2>3 DEF CallOf
<1>3. ASSUME NEW nonce \in Nonces PROVE nonce \in Numbers
  <2>1. nonce \in Nat /\ nonce <= MaxNonce /\ MaxNonce \in Numbers
    BY SettlementAssumption DEF Nonces
  <2> QED BY SMT, <2>1 DEF Numbers
<1> QED BY <1>2, <1>3

\* What a node makes of the bytes of any transaction the oracle can send.
LEMMA ReadingIs ==
  ASSUME NEW r \in Readings
  PROVE  /\ r.says = [nonce |-> r.nonce, to |-> EscrowAddress, c |-> r.c]
         /\ r.readable <=> (r.sig.r[1] # 0 /\ r.sig.s[1] # 0)
         /\ r.list = FALSE
<1>1. PICK nonce \in Nonces, c \in Calls, sig \in Signatures :
        r = Reading(nonce, c, sig, TxItems(sign_and_encode(Eip1559Tx(nonce, c), sig)))
  BY DEF Readings
<1>2. PICK it : it = TxItems(sign_and_encode(Eip1559Tx(nonce, c), sig))
  OBVIOUS
<1>3. nonce \in Numbers /\ CallOf(c)
  BY CallsAreEncoded
<1>4. /\ ReadTx(it) = [nonce |-> nonce, to |-> EscrowAddress, c |-> c]
      /\ Readable(it) <=> (sig.r[1] # 0 /\ sig.s[1] # 0)
      /\ it[9].kind = "string"
  BY <1>2, <1>3, TransactionRoundTrip
<1>5. /\ r.nonce = nonce /\ r.c = c /\ r.sig = sig
      /\ r.says = ReadTx(it) /\ r.readable = Readable(it) /\ r.list = (it[9].kind = "list")
  BY <1>1, <1>2 DEF Reading
<1>6. r.list = FALSE
  BY <1>4, <1>5
<1> QED BY <1>4, <1>5, <1>6

\* What the node reads in a transaction is the call it was made for.
LEMMA SaidIsMeant ==
  ASSUME NEW tx, ReadingsOf(tx) # {} PROVE Said(tx).c = tx.c
<1>1. PICK r \in ReadingsOf(tx) : r = CHOOSE q \in ReadingsOf(tx) : TRUE
  OBVIOUS
<1>2. r \in Readings /\ r.c = tx.c
  BY DEF ReadingsOf
<1>3. r.says.c = r.c
  <2>1. r.says = [nonce |-> r.nonce, to |-> EscrowAddress, c |-> r.c]
    BY <1>2, ReadingIs
  <2> QED BY <2>1
<1> QED BY <1>1, <1>2, <1>3 DEF Said

\* No task, transaction or receipt at first.
LEMMA OracleInit == SettlementInit => OracleInv
<1> SUFFICES ASSUME SettlementInit PROVE OracleInv
  OBVIOUS
<1>1. FirstNonce \in Nonces /\ FirstNonce \in Nat
  BY SettlementAssumption DEF Nonces
<1>2. [pc |-> "idle", c |-> NoCall, nonce |-> FirstNonce] \in Task
  BY <1>1 DEF Task, Stages
<1>3. OracleTypes
  BY <1>1, <1>2 DEF SettlementInit, OracleTypes
<1> QED BY <1>1, <1>3 DEF SettlementInit, OracleInv, TasksHaveCalls, PendingWasRead, OnePending,
                         ReceiptsAreTrue, TrueReport

\* Contract and chain move on, the tasks do not.
LEMMA ChainKeepsOracle ==
  ASSUME TypeOK, OracleInv, [Next]_vars, UNCHANGED <<env, task>>,
         pool' \subseteq pool, OnePending', mined' \in {mined, mined + 1},
         \A r \in receipts' \ receipts :
           r \in [tx : Tx, status : BOOLEAN] /\ (r.status => Done(r.tx.c)')
  PROVE  OracleInv'
<1>1. OracleTypes'
  BY DEF OracleInv, OracleTypes
<1>2. TasksHaveCalls'
  <2>1. \A t \in Tasks : task[t].nonce \in Nat
    BY SettlementAssumption DEF OracleInv, OracleTypes, Task, Nonces
  <2>2. mined \in Nat
    BY DEF OracleInv, OracleTypes
  <2> QED BY <2>1, <2>2 DEF OracleInv, TasksHaveCalls
<1>3. PendingWasRead'
  <2>1. \A tx \in pool : ReadingsOf(tx) # {}
    BY DEF OracleInv, PendingWasRead
  <2> QED BY <2>1 DEF PendingWasRead, ReadingsOf, Readings
<1>4. ReceiptsAreTrue'
  <2>1. \A r \in receipts : r.tx.c \in Calls
    BY DEF OracleInv, OracleTypes, Tx
  <2>2. ASSUME NEW r \in receipts, r.status PROVE Done(r.tx.c)'
    BY <2>1, <2>2, DoneStays DEF OracleInv, ReceiptsAreTrue
  <2> QED BY <2>2 DEF ReceiptsAreTrue
<1>5. TrueReport'
  <2>1. \A t \in Tasks : task[t].pc = "ok" => task[t].c \in Calls /\ Done(task[t].c)
    BY DEF OracleInv, TasksHaveCalls, TrueReport, Done
  <2>2. ASSUME NEW t \in Tasks, task'[t].pc = "ok" PROVE Done(task[t].c)'
    <3>1. PICK c \in Calls : c = task[t].c
      BY <2>1, <2>2
    <3>2. Done(c)
      BY <2>1, <2>2, <3>1
    <3>3. Done(c)'
      BY <3>2, DoneStays
    <3> QED BY <3>1, <3>3 DEF Done
  <2> QED BY <2>2 DEF TrueReport, Done
<1> QED BY <1>1, <1>2, <1>3, <1>4, <1>5 DEF OracleInv

\* One task moves on; jobs, chain and receipts are as before.
LEMMA OneTaskMoves ==
  ASSUME OracleInv, NEW t \in Tasks, NEW e \in Task, task' = [task EXCEPT ![t] = e],
         UNCHANGED <<vars, env, mined, receipts>>,
         e.nonce <= mined, e.pc # "idle" => e.c \in Calls, e.pc = "ok" => Done(e.c),
         pool' \subseteq Tx, PendingWasRead', OnePending'
  PROVE  OracleInv'
<1>1. \A u \in Tasks : task'[u] = IF u = t THEN e ELSE task[u]
  BY DEF OracleInv, OracleTypes
<1>2. OracleTypes'
  BY DEF OracleInv, OracleTypes
<1>3. TasksHaveCalls'
  BY <1>1 DEF OracleInv, TasksHaveCalls
<1>4. UNCHANGED jobs /\ UNCHANGED receipts
  BY DEF vars
<1>5. ReceiptsAreTrue'
  BY <1>4 DEF OracleInv, ReceiptsAreTrue, Done
<1>6. TrueReport'
  BY <1>1, <1>4 DEF OracleInv, TrueReport, Done
<1> QED BY <1>2, <1>3, <1>5, <1>6 DEF OracleInv

\* The same with nothing new pending.
LEMMA OneTaskMovesOnly ==
  ASSUME OracleInv, NEW t \in Tasks, NEW e \in Task, task' = [task EXCEPT ![t] = e],
         UNCHANGED <<vars, env, pool, mined, receipts>>,
         e.nonce <= mined, e.pc # "idle" => e.c \in Calls, e.pc = "ok" => Done(e.c)
  PROVE  OracleInv'
<1>1. pool' \subseteq Tx /\ PendingWasRead' /\ OnePending'
  BY DEF OracleInv, OracleTypes, PendingWasRead, OnePending
<1> QED BY <1>1, OneTaskMoves

\* What is known of a task in progress.
LEMMA TaskFields ==
  ASSUME OracleInv, NEW t \in Tasks
  PROVE  /\ task[t] \in Task /\ task[t].nonce \in Nonces /\ task[t].nonce \in Nat
         /\ task[t].nonce <= mined /\ mined \in Nat
         /\ task[t].pc # "idle" => task[t].c \in Calls
<1>1. task[t] \in Task
  BY DEF OracleInv, OracleTypes
<1>2. task[t].nonce \in Nonces
  BY <1>1 DEF Task
<1>3. task[t].nonce \in Nat
  BY <1>2, SettlementAssumption DEF Nonces
<1> QED BY <1>1, <1>2, <1>3 DEF OracleInv, OracleTypes, TasksHaveCalls

\* A spawned task has a call and has asked for no nonce yet.
LEMMA SpawnKeepsOracle ==
  ASSUME OracleInv, NEW t \in Tasks, NEW c \in Calls, Spawned(t, c) PROVE OracleInv'
<1> DEFINE e == [pc |-> "request", c |-> c, nonce |-> FirstNonce]
<1>1. FirstNonce \in Nonces
  BY SettlementAssumption DEF Nonces
<1>2. e \in Task
  BY <1>1 DEF Task, Stages
<1>3. FirstNonce <= mined
  BY TaskFields, SettlementAssumption DEF Nonces
<1>4. /\ task' = [task EXCEPT ![t] = e] /\ UNCHANGED <<vars, env, pool, mined, receipts>>
  BY DEF Spawned
<1>5. e.nonce <= mined /\ e.c \in Calls /\ e.pc # "ok"
  BY <1>3
<1> HIDE DEF e
<1> QED BY <1>2, <1>4, <1>5, OneTaskMovesOnly

\* A task goes on with its call and nonce, or ends in an error.
LEMMA GotoKeepsOracle ==
  ASSUME OracleInv, NEW t \in Tasks, NEW pc \in Stages \ {"idle"}, Goto(t, pc), task[t].pc # "idle",
         pc = "ok" => Done(task[t].c),
         UNCHANGED <<vars, env, pool, mined, receipts>>
  PROVE  OracleInv'
<1> DEFINE e == [task[t] EXCEPT !.pc = pc]
<1>1. /\ e \in Task /\ e.pc = pc /\ e.c = task[t].c /\ e.nonce = task[t].nonce
  BY TaskFields DEF Task
<1>2. task' = [task EXCEPT ![t] = e]
  BY DEF Goto
<1>3. e.nonce <= mined /\ e.c \in Calls /\ (e.pc = "ok" => Done(e.c))
  BY <1>1, TaskFields DEF Done
<1> HIDE DEF e
<1> QED BY <1>1, <1>2, <1>3, OneTaskMovesOnly

\* The nonce is the number of mined transactions.
LEMMA NonceKeepsOracle ==
  ASSUME OracleInv, NEW t \in Tasks, get_nonce(t) PROVE OracleInv'
<1> DEFINE e == [pc |-> "send", c |-> task[t].c, nonce |-> mined]
<1>1. task[t].c \in Calls /\ mined \in Nonces /\ mined \in Nat
  BY TaskFields DEF get_nonce
<1>2. e \in Task
  BY <1>1 DEF Task, Stages
<1>3. task' = [task EXCEPT ![t] = e] /\ UNCHANGED <<vars, env, pool, mined, receipts>>
  BY DEF get_nonce
<1>4. e.nonce = mined /\ e.c \in Calls /\ e.pc # "ok"
  BY <1>1
<1>5. \A m \in Nat : m <= m
  OBVIOUS
<1>6. e.nonce <= mined
  BY <1>1, <1>4, <1>5
<1> HIDE DEF e
<1> QED BY <1>2, <1>3, <1>4, <1>6, OneTaskMovesOnly

\* The node takes a transaction only when nothing else is pending, and only
\* with the nonce that is next: that of a task is never beyond it.
LEMMA SendKeepsOracle ==
  ASSUME OracleInv, NEW t \in Tasks, send_raw_tx(t) PROVE OracleInv'
<1>1. PICK reading \in ReadingsOf(TxOf(t)) :
        IF Accepts(TxOf(t), reading)
        THEN /\ pool' = pool \cup {TxOf(t)}
             /\ Goto(t, "wait") \/ Goto(t, "failed")
        ELSE Goto(t, "failed") /\ UNCHANGED pool
  BY DEF send_raw_tx
<1>2. UNCHANGED <<vars, env, mined, receipts>> /\ task[t].pc = "send"
  BY DEF send_raw_tx
<1>3. CASE ~Accepts(TxOf(t), reading)
  <2>1. Goto(t, "failed") /\ UNCHANGED pool
    BY <1>1, <1>3
  <2>2. "failed" \in Stages \ {"idle"}
    BY DEF Stages
  <2> QED BY <1>2, <2>1, <2>2, GotoKeepsOracle
<1>4. CASE Accepts(TxOf(t), reading)
  <2>1. PICK pc \in {"wait", "failed"} : Goto(t, pc)
    BY <1>1, <1>4
  <2>2. PICK tx : tx = TxOf(t)
    OBVIOUS
  <2>3. tx \in Tx /\ tx.nonce <= mined /\ tx.nonce \in Nat /\ mined \in Nat
    BY <1>2, <2>2, TaskFields DEF TxOf, Tx
  <2>4. tx.nonce = mined /\ \A other \in pool : other.nonce # tx.nonce
    BY <1>4, <2>2, <2>3 DEF Accepts
  <2>5. pool = {} /\ pool' = {tx}
    BY <1>1, <1>4, <2>2, <2>4 DEF OracleInv, OnePending
  <2>6. pool' \subseteq Tx /\ OnePending'
    BY <1>2, <2>3, <2>4, <2>5 DEF OnePending
  <2>7. PendingWasRead'
    <3>1. ReadingsOf(tx) # {}
      BY <2>2
    <3>2. Readings' = Readings
      BY DEF Readings
    <3> QED BY <2>5, <3>1, <3>2 DEF PendingWasRead, ReadingsOf
  <2> DEFINE e == [task[t] EXCEPT !.pc = pc]
  <2>8. e \in Task /\ e.pc = pc /\ e.c = task[t].c /\ e.nonce = task[t].nonce
    BY TaskFields DEF Task, Stages
  <2>9. task' = [task EXCEPT ![t] = e]
    BY <2>1 DEF Goto
  <2>10. e.nonce <= mined /\ e.c \in Calls /\ e.pc # "ok"
    BY <1>2, <2>8, TaskFields
  <2> HIDE DEF e
  <2> QED BY <1>2, <2>6, <2>7, <2>8, <2>9, <2>10, OneTaskMoves
<1> QED BY <1>3, <1>4

\* A task reports success only with a receipt of success.
LEMMA ReceiptKeepsOracle ==
  ASSUME OracleInv, NEW t \in Tasks, wait_for_receipt(t) PROVE OracleInv'
<1>1. PICK r \in receipts : r.tx = TxOf(t) /\ Goto(t, IF r.status THEN "ok" ELSE "failed")
  BY DEF wait_for_receipt
<1>2. task[t].pc = "wait" /\ UNCHANGED <<vars, env, pool, mined, receipts>>
  BY DEF wait_for_receipt
<1>3. r.status => Done(task[t].c)
  <2>1. r.tx.c = task[t].c
    BY <1>1 DEF TxOf
  <2> QED BY <2>1 DEF OracleInv, ReceiptsAreTrue, Done
<1>4. PICK pc \in {"ok", "failed"} : Goto(t, pc) /\ (pc = "ok" => r.status)
  BY <1>1
<1>5. pc \in Stages \ {"idle"}
  BY DEF Stages
<1> QED BY <1>2, <1>3, <1>4, <1>5, GotoKeepsOracle

\* A mined transaction did what its receipt says.
LEMMA MineKeepsOracle ==
  ASSUME TypeOK, OracleInv, [Next]_vars, NEW tx \in pool, Mine(tx) PROVE OracleInv'
<1>1. /\ pool' = pool \ {tx} /\ mined' = mined + 1 /\ UNCHANGED <<env, task>>
  BY DEF Mine
<1>2. tx \in Tx /\ tx.c \in Calls /\ ReadingsOf(tx) # {}
  BY DEF OracleInv, OracleTypes, PendingWasRead, Tx
<1>3. OnePending'
  BY <1>1 DEF OracleInv, OnePending
<1>4. PICK c \in Calls : c = tx.c /\ Said(tx).c = c
  BY <1>2, SaidIsMeant
<1>5. \A r \in receipts' \ receipts :
        r \in [tx : Tx, status : BOOLEAN] /\ (r.status => Done(r.tx.c)')
  <2>1. CASE Execute(Said(tx).c) /\ receipts' = receipts \cup {[tx |-> tx, status |-> TRUE]}
    <3>1. Done(c)'
      BY <1>4, <2>1, ExecutedIsDone
    <3>2. \A r \in receipts' \ receipts : r = [tx |-> tx, status |-> TRUE]
      BY <2>1
    <3>3. [tx |-> tx, status |-> TRUE] \in [tx : Tx, status : BOOLEAN]
      BY <1>2
    <3>4. ASSUME NEW r \in receipts' \ receipts PROVE r.tx.c = c
      BY <1>4, <3>2
    <3>5. ASSUME NEW r \in receipts' \ receipts PROVE Done(r.tx.c)'
      BY <3>1, <3>4 DEF Done
    <3> QED BY <3>2, <3>3, <3>5
  <2>2. CASE receipts' = receipts \cup {[tx |-> tx, status |-> FALSE]}
    <3>1. \A r \in receipts' \ receipts : r = [tx |-> tx, status |-> FALSE]
      BY <2>2
    <3>2. [tx |-> tx, status |-> FALSE] \in [tx : Tx, status : BOOLEAN]
      BY <1>2
    <3>3. \A r \in receipts' \ receipts : r.status = FALSE
      BY <3>1
    <3> QED BY <3>1, <3>2, <3>3
  <2> QED BY <2>1, <2>2 DEF Mine
<1>6. pool' \subseteq pool /\ mined' \in {mined, mined + 1}
  BY <1>1
<1> QED BY <1>1, <1>3, <1>5, <1>6, ChainKeepsOracle

\* Every step of the two services, the node and the others keeps what they
\* know of each other.
LEMMA NextKeepsOracle ==
  TypeOK /\ OracleInv /\ [SettlementNext]_settlementVars => OracleInv'
<1> SUFFICES ASSUME TypeOK, OracleInv, [SettlementNext]_settlementVars PROVE OracleInv'
  OBVIOUS
<1>0. [Next]_vars
  BY StepIsTransaction
<1>1. CASE OthersStep \/ UNCHANGED settlementVars
  <2>1. UNCHANGED <<env, oracleVars>>
    BY <1>1 DEF OthersStep, settlementVars
  <2>2. OnePending' /\ pool' \subseteq pool /\ mined' \in {mined, mined + 1} /\ receipts' \ receipts = {}
    BY <2>1 DEF oracleVars, OracleInv, OnePending
  <2>3. UNCHANGED <<env, task>>
    BY <2>1 DEF oracleVars
  <2> QED BY <1>0, <2>2, <2>3, ChainKeepsOracle
<1>2. ASSUME NEW t \in Tasks, NEW j \in JobIds, NEW h \in Halves,
             complete_job_settle(t, j, h) \/ report_completion_settle(t, j, h)
      PROVE  OracleInv'
  <2> DEFINE c == [call |-> "release", job |-> j, wei |-> nmc_to_wei_u128(h)]
  <2>1. c \in Calls
    BY DEF Calls
  <2>2. Spawned(t, c)
    BY <1>2 DEF complete_job_settle, report_completion_settle
  <2> HIDE DEF c
  <2> QED BY <2>1, <2>2, SpawnKeepsOracle
<1>3. ASSUME NEW t \in Tasks, NEW j \in JobIds, fail_job_settle(t, j) PROVE OracleInv'
  <2>1. [call |-> "cancel", job |-> j, wei |-> 0] \in Calls
    BY DEF Calls
  <2> QED BY <1>3, <2>1, SpawnKeepsOracle DEF fail_job_settle
<1>4. ASSUME NEW t \in Tasks, on_chain_release(t) \/ on_chain_cancel(t) PROVE OracleInv'
  <2>1. PICK pc \in {"failed", "none", "nonce"} : Goto(t, pc)
    BY <1>4 DEF on_chain_release, on_chain_cancel, Forward
  <2>2. task[t].pc = "request" /\ UNCHANGED <<vars, env, pool, mined, receipts>>
    BY <1>4 DEF on_chain_release, on_chain_cancel, Forward
  <2>3. pc \in Stages \ {"idle"} /\ pc # "ok"
    BY DEF Stages
  <2> QED BY <2>1, <2>2, <2>3, GotoKeepsOracle
<1>5. ASSUME NEW t \in Tasks, task_error(t) PROVE OracleInv'
  <2>1. "failed" \in Stages \ {"idle"}
    BY DEF Stages
  <2>2. task[t].pc # "idle" /\ Goto(t, "failed") /\ UNCHANGED <<vars, env, pool, mined, receipts>>
    BY <1>5 DEF task_error
  <2> QED BY <2>1, <2>2, GotoKeepsOracle
<1>6. ASSUME NEW t \in Tasks, get_nonce(t) \/ send_raw_tx(t) \/ wait_for_receipt(t) PROVE OracleInv'
  BY <1>6, NonceKeepsOracle, SendKeepsOracle, ReceiptKeepsOracle
<1>7. ASSUME NEW tx \in pool, Mine(tx) PROVE OracleInv'
  BY <1>0, <1>7, MineKeepsOracle
<1>8. ASSUME NEW tx \in pool, Drop(tx) PROVE OracleInv'
  <2>1. /\ pool' = pool \ {tx} /\ UNCHANGED <<vars, env, task, mined, receipts>>
    BY <1>8 DEF Drop
  <2>2. OnePending' /\ pool' \subseteq pool /\ mined' \in {mined, mined + 1} /\ receipts' \ receipts = {}
    BY <2>1 DEF OracleInv, OnePending
  <2> QED BY <1>0, <2>1, <2>2, ChainKeepsOracle
<1> QED BY <1>1, <1>2, <1>3, <1>4, <1>5, <1>6, <1>7, <1>8 DEF SettlementNext, TaskStep, NodeStep

\* So they agree in every reachable state of the settlement system.
LEMMA OracleInvariant == SettlementSpec => [](IInv /\ OracleInv)
<1>1. SettlementInit => IInv /\ OracleInv
  BY InitIInv, OracleInit DEF SettlementInit
<1>2. (IInv /\ OracleInv) /\ [SettlementNext]_settlementVars => (IInv /\ OracleInv)'
  <2>1. IInv => TypeOK
    BY DEF IInv
  <2> QED BY <2>1, NextIInv, StepIsTransaction, NextKeepsOracle
<1> QED BY <1>1, <1>2, PTL DEF SettlementSpec

\* Contract, configuration, tasks, pending transactions and receipts have
\* their types, for any number of settlements at once.
THEOREM SettlementTypeCorrect == SettlementSpec => []SettlementTypeOK
<1>1. IInv /\ OracleInv => SettlementTypeOK
  BY DEF IInv, OracleInv, OracleTypes, SettlementTypeOK, Task
<1> QED BY <1>1, OracleInvariant, PTL

\* get_nonce asks with "latest" and two overlapping tasks get the same nonce:
\* send_raw_tx still never has two transactions pending, nor one with a used
\* nonce, however the tasks' calls interleave and whatever the node drops.
THEOREM OneTransactionPending == SettlementSpec => []OnePending
<1>1. IInv /\ OracleInv => OnePending
  BY DEF OracleInv
<1> QED BY <1>1, OracleInvariant, PTL

\* A task that ends with a transaction hash has its job settled with its cost,
\* or cancelled, in Escrow.sol.
THEOREM ReportsAreTrue == SettlementSpec => []TrueReport
<1>1. IInv /\ OracleInv => TrueReport
  BY DEF OracleInv
<1> QED BY <1>1, OracleInvariant, PTL

\* Whatever is pending says what was meant, and the node can read what a task
\* tries to send unless a half of the signature starts with a zero byte, which
\* rlp_append_bytes keeps: for every job id, amount, nonce and signature.
THEOREM SentAsMeantAlways == SettlementSpec => []SentAsMeant
<1>1. SentAsMeant
  <2>1. ASSUME NEW tx, NEW r \in ReadingsOf(tx)
        PROVE  /\ r.says = [nonce |-> tx.nonce, to |-> EscrowAddress, c |-> tx.c]
               /\ r.readable <=> (r.sig.r[1] # 0 /\ r.sig.s[1] # 0)
    <3>1. r \in Readings /\ r.nonce = tx.nonce /\ r.c = tx.c
      BY DEF ReadingsOf
    <3> QED BY <3>1, ReadingIs
  <2> QED BY <2>1 DEF SentAsMeant
<1> QED BY <1>1, PTL

\* The nonces of the mined transactions have no gap, and each is used once.
NoncesUsedOnce ==
  /\ \A r \in receipts : r.tx.nonce \in FirstNonce .. mined - 1
  /\ \A n \in FirstNonce .. mined - 1 : \E r \in receipts : r.tx.nonce = n
  /\ \A r, q \in receipts : r.tx.nonce = q.tx.nonce => r = q

\* Of the calls about a job at most one was carried out.
SettledOnce ==
  \A r, q \in receipts : r.status /\ q.status /\ r.tx.c.job = q.tx.c.job => r = q

\* A call that is carried out finds its job neither settled nor cancelled.
LEMMA ExecutedWasLive ==
  ASSUME NEW c \in Calls, Execute(c), NEW d \in Calls, d.job = c.job PROVE ~Done(d)
<1>1. jobs[c.job].state \notin {"Settled", "Cancelled"}
  <2>1. CASE c.call = "release"
    BY <2>1 DEF Execute, releaseEscrow
  <2>2. CASE c.call # "release"
    BY <2>2 DEF Execute, cancelEscrow, MayCancel
  <2> QED BY <2>1, <2>2
<1> QED BY <1>1 DEF Done

\* A mined transaction uses the next nonce and, if its call is carried out, is
\* the first one for its job.
LEMMA MineKeepsOnce ==
  ASSUME OracleInv, NoncesUsedOnce, SettledOnce, NEW tx \in pool, Mine(tx)
  PROVE  NoncesUsedOnce' /\ SettledOnce'
<1>1. tx \in Tx /\ tx.c \in Calls /\ ReadingsOf(tx) # {} /\ tx.nonce \in Nonces
  BY DEF OracleInv, OracleTypes, PendingWasRead, Tx
<1>2. mined' = mined + 1 /\ tx.nonce = mined /\ FirstNonce \in Nat /\ mined \in Nat /\ FirstNonce <= mined
  BY <1>1, SettlementAssumption DEF Mine, Nonces
<1>3. PICK n \in [tx : Tx, status : BOOLEAN] :
        n.tx = tx /\ receipts' = receipts \cup {n} /\ (n.status => Execute(tx.c))
  <2>1. CASE Execute(Said(tx).c) /\ receipts' = receipts \cup {[tx |-> tx, status |-> TRUE]}
    <3>1. Said(tx).c = tx.c
      BY <1>1, SaidIsMeant
    <3>2. PICK n : n = [tx |-> tx, status |-> TRUE]
      OBVIOUS
    <3>3. n \in [tx : Tx, status : BOOLEAN] /\ n.tx = tx /\ receipts' = receipts \cup {n}
      BY <1>1, <2>1, <3>2
    <3> QED BY <2>1, <3>1, <3>3
  <2>2. CASE receipts' = receipts \cup {[tx |-> tx, status |-> FALSE]}
    <3>2. PICK n : n = [tx |-> tx, status |-> FALSE]
      OBVIOUS
    <3>3. n \in [tx : Tx, status : BOOLEAN] /\ n.tx = tx /\ n.status = FALSE /\ receipts' = receipts \cup {n}
      BY <1>1, <2>2, <3>2
    <3> QED BY <3>3
  <2> QED BY <2>1, <2>2 DEF Mine
<1>4. FirstNonce .. mined' - 1 = (FirstNonce .. mined - 1) \cup {mined} /\ mined \notin FirstNonce .. mined - 1
  BY <1>2
<1>5. \A r \in receipts : r.tx.nonce \in FirstNonce .. mined - 1 /\ r.tx.nonce # mined
  BY <1>4 DEF NoncesUsedOnce
<1>6. n.tx.nonce = mined
  BY <1>2, <1>3
<1>7. NoncesUsedOnce'
  <2>1. \A r \in receipts' : r.tx.nonce \in FirstNonce .. mined' - 1
    BY <1>3, <1>4, <1>5, <1>6
  <2>2. \A k \in FirstNonce .. mined' - 1 : \E r \in receipts' : r.tx.nonce = k
    BY <1>3, <1>4, <1>6 DEF NoncesUsedOnce
  <2>3. \A r, q \in receipts' : r.tx.nonce = q.tx.nonce => r = q
    BY <1>3, <1>5, <1>6 DEF NoncesUsedOnce
  <2> QED BY <2>1, <2>2, <2>3 DEF NoncesUsedOnce
<1>8. ASSUME NEW r \in receipts, r.status, n.status PROVE r.tx.c.job # n.tx.c.job
  <2>1. r.tx.c \in Calls /\ Done(r.tx.c)
    BY <1>8 DEF OracleInv, OracleTypes, ReceiptsAreTrue, Tx
  <2> QED BY <1>1, <1>3, <1>8, <2>1, ExecutedWasLive
<1>9. SettledOnce'
  <2>1. \A r, q \in receipts' : r.status /\ q.status /\ r.tx.c.job = q.tx.c.job => r = q
    BY <1>3, <1>8 DEF SettledOnce
  <2> QED BY <2>1 DEF SettledOnce
<1> QED BY <1>7, <1>9

\* No other step of the system writes a receipt.
LEMMA OnceInvariant == SettlementSpec => [](NoncesUsedOnce /\ SettledOnce)
<1>1. SettlementInit => NoncesUsedOnce /\ SettledOnce
  <2>1. FirstNonce \in Nat
    BY SettlementAssumption
  <2>2. FirstNonce .. FirstNonce - 1 = {}
    BY <2>1
  <2> QED BY <2>2 DEF SettlementInit, NoncesUsedOnce, SettledOnce
<1>2. ASSUME OracleInv, NoncesUsedOnce, SettledOnce, [SettlementNext]_settlementVars
      PROVE  NoncesUsedOnce' /\ SettledOnce'
  <2>1. CASE \E tx \in pool : Mine(tx)
    BY <1>2, <2>1, MineKeepsOnce
  <2>2. CASE ~\E tx \in pool : Mine(tx)
    <3>1. UNCHANGED <<mined, receipts>>
      BY <1>2, <2>2
         DEF SettlementNext, OthersStep, TaskStep, NodeStep, Drop, settlementVars, oracleVars, Spawned,
             complete_job_settle, report_completion_settle, fail_job_settle, on_chain_release, on_chain_cancel,
             Forward, get_nonce, send_raw_tx, wait_for_receipt, task_error
    <3> QED BY <1>2, <3>1 DEF NoncesUsedOnce, SettledOnce
  <2> QED BY <2>1, <2>2
<1>3. OracleInv /\ (NoncesUsedOnce /\ SettledOnce) /\ [SettlementNext]_settlementVars => (NoncesUsedOnce /\ SettledOnce)'
  BY <1>2
<1> QED BY <1>1, <1>3, OracleInvariant, PTL DEF SettlementSpec

\* However often a settlement of a job is spawned, by however many overlapping
\* handlers and for whatever calls, with answers lost and transactions dropped
\* and sent again: the contract carries out one of them at most.
THEOREM JobsAreSettledOnce == SettlementSpec => []SettledOnce
BY OnceInvariant, PTL

\* get_nonce reads what is mined, so no nonce is left out or used by two mined
\* transactions, although overlapping tasks sign with the same one.
THEOREM NoncesAreUsedOnce == SettlementSpec => []NoncesUsedOnce
BY OnceInvariant, PTL

\* The escrows of the composed system - services, node, contract and its other
\* users - are those of the abstract specification.
THEOREM SettlementImplementsAbstract == SettlementSpec => ImplementsEscrow
BY SettlementUsesContract, EscrowImplementsAbstract, PTL

\* No transaction was ever taken, and no task has a transaction hash.
NothingSettles == pool = {} /\ receipts = {} /\ \A t \in Tasks : task[t].pc # "wait" /\ task[t].pc # "ok"

\* rlp_append_bytes writes the empty access list as the empty string 0x80: with
\* a node that insists on a list, no settlement ever gets into its pool, and no
\* task ever reports one.
THEOREM StrictNodeTakesNothing ==
  ASSUME StrictNode = TRUE PROVE SettlementSpec => []NothingSettles
<1>1. SettlementInit => OracleTypes /\ NothingSettles
  BY OracleInit DEF SettlementInit, OracleInv, NothingSettles
<1>2. ASSUME OracleTypes, NothingSettles, [SettlementNext]_settlementVars PROVE NothingSettles'
  <2>1. CASE OthersStep \/ UNCHANGED settlementVars
    BY <1>2, <2>1 DEF OthersStep, settlementVars, oracleVars, NothingSettles
  <2>2. ASSUME NEW t \in Tasks, NEW c, Spawned(t, c) PROVE NothingSettles'
    BY <1>2, <2>2 DEF Spawned, NothingSettles, OracleTypes
  <2>3. ASSUME NEW t \in Tasks, NEW pc, pc # "wait", pc # "ok", Goto(t, pc), UNCHANGED <<pool, receipts>>
        PROVE  NothingSettles'
    BY <1>2, <2>3 DEF Goto, NothingSettles, OracleTypes, Task
  <2>4. ASSUME NEW t \in Tasks, on_chain_release(t) \/ on_chain_cancel(t) PROVE NothingSettles'
    <3>1. PICK pc \in {"failed", "none", "nonce"} : Goto(t, pc)
      BY <2>4 DEF on_chain_release, on_chain_cancel, Forward
    <3>2. UNCHANGED <<pool, receipts>>
      BY <2>4 DEF on_chain_release, on_chain_cancel, Forward
    <3> QED BY <2>3, <3>1, <3>2
  <2>5. ASSUME NEW t \in Tasks, task_error(t) PROVE NothingSettles'
    BY <2>3, <2>5 DEF task_error
  <2>6. ASSUME NEW t \in Tasks, get_nonce(t) PROVE NothingSettles'
    BY <1>2, <2>6 DEF get_nonce, NothingSettles, OracleTypes
  <2>7. ASSUME NEW t \in Tasks, send_raw_tx(t) PROVE NothingSettles'
    <3>1. \A r \in ReadingsOf(TxOf(t)) : ~Accepts(TxOf(t), r)
      <4>1. \A r \in ReadingsOf(TxOf(t)) : r.list = FALSE
        BY ReadingIs DEF ReadingsOf
      <4> QED BY <4>1 DEF Accepts
    <3>2. Goto(t, "failed") /\ UNCHANGED <<pool, receipts>>
      BY <2>7, <3>1 DEF send_raw_tx
    <3> QED BY <2>3, <3>2
  <2>8. ASSUME NEW t \in Tasks, wait_for_receipt(t) PROVE NothingSettles'
    BY <1>2, <2>8 DEF wait_for_receipt, NothingSettles
  <2>9. ~NodeStep
    BY <1>2 DEF NodeStep, NothingSettles
  <2>10. CASE TaskStep
    BY <2>2, <2>4, <2>5, <2>6, <2>7, <2>8, <2>10
       DEF TaskStep, complete_job_settle, report_completion_settle, fail_job_settle
  <2> QED BY <1>2, <2>1, <2>9, <2>10 DEF SettlementNext
<1>3. SettlementSpec => []OracleTypes
  <2>1. IInv /\ OracleInv => OracleTypes
    BY DEF OracleInv
  <2> QED BY <2>1, OracleInvariant, PTL
<1>4. OracleTypes /\ NothingSettles /\ [SettlementNext]_settlementVars => NothingSettles'
  BY <1>2
<1> QED BY <1>1, <1>3, <1>4, PTL DEF SettlementSpec
=============================================================================
