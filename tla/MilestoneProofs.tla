-------------------------- MODULE MilestoneProofs --------------------------
(***************************************************************************)
(* Proofs for module MilestoneRewards: for every number of providers and   *)
(* concurrent reports, every runtime and every bound on the hours.         *)
(***************************************************************************)
EXTENDS MilestoneRewards, FiniteSetTheorems, TLAPS

EarnedInv     == TypeOK /\ CallsEarned /\ PaidWhenEarned
ContiguousInv == EarnedInv /\ CallsContiguous /\ RewardsContiguous
PaidInv       == EarnedInv /\ CallsPaid /\ RecordedIsPaid

\* A milestone within the earned ones is a milestone number.
LEMMA EarnedIsMilestone ==
  ASSUME NEW h \in 0 .. MaxHours, NEW e \in Nat, e * MILESTONE_HOURS <= h, NEW m \in 1 .. e
  PROVE  m \in Milestones /\ m * MILESTONE_HOURS <= h
BY MilestoneAssumption DEF Milestones, MILESTONE_HOURS

\* Whole milestones fit into the hours.
LEMMA DivBound ==
  ASSUME NEW h \in Nat
  PROVE  h \div MILESTONE_HOURS \in Nat /\ (h \div MILESTONE_HOURS) * MILESTONE_HOURS <= h
BY DEF MILESTONE_HOURS

\* A turn of the loop leaves a slot at an earned milestone, or idle.
LEMMA LoopKeepsCalls ==
  ASSUME TypeOK, CallsEarned, NEW s \in Slots, call[s].pc # "idle", NEW n \in Nat \ {0},
         Loop(s, n), UNCHANGED hours
  PROVE  /\ call' \in [Slots -> [pc : {"idle", "count", "pay", "record"},
                                 prov : Providers \cup {NoOne}, earned : Nat, next : Nat]]
         /\ CallsEarned'
         /\ \A t \in Slots \ {s} : call'[t] = call[t]
         /\ call'[s].pc \in {"idle", "pay"}
         /\ call'[s].pc = "pay" => call'[s].prov = call[s].prov /\ call'[s].next = n
<1>1. CASE n <= call[s].earned
  <2>1. call' = [call EXCEPT ![s] = [pc |-> "pay", prov |-> call[s].prov,
                                     earned |-> call[s].earned, next |-> n]]
    BY <1>1 DEF Loop
  <2> QED BY <1>1, <2>1 DEF TypeOK, CallsEarned
<1>2. CASE ~(n <= call[s].earned)
  <2>1. call' = [call EXCEPT ![s] = Idle]
    BY <1>2 DEF Loop
  <2> QED BY <2>1 DEF TypeOK, CallsEarned, Idle
<1> QED BY <1>1, <1>2

-----------------------------------------------------------------------------
\* Every statement of report_completion pays only earned milestones.
LEMMA EarnedStep == EarnedInv /\ [Next]_vars => EarnedInv'
<1> SUFFICES ASSUME EarnedInv, [Next]_vars PROVE EarnedInv'
  OBVIOUS
<1> USE DEF EarnedInv
<1>1. ASSUME NEW s \in Slots, NEW p \in Providers, NEW h \in JobHours, add_hours(s, p, h)
      PROVE  EarnedInv'
  <2> DEFINE total == hours[p] + h
             e == total \div MILESTONE_HOURS
  <2>1. h \in Nat /\ total \in Nat /\ total <= MaxHours /\ total >= hours[p]
    BY <1>1, MilestoneAssumption DEF TypeOK, add_hours
  <2>2. e \in Nat /\ e * MILESTONE_HOURS <= total
    BY <2>1, DivBound
  <2>3. /\ call[s].pc = "idle" /\ hours' = [hours EXCEPT ![p] = total]
        /\ call' = [call EXCEPT ![s] = [pc |-> "count", prov |-> p, earned |-> e, next |-> 0]]
        /\ UNCHANGED <<rewards, paid, dropped>>
    BY <1>1 DEF add_hours, TypeOK
  <2> HIDE DEF total, e
  <2>4. \A q \in Providers : hours'[q] >= hours[q] /\ hours'[q] \in 0 .. MaxHours
    BY <2>1, <2>3, MilestoneAssumption DEF TypeOK
  <2>5. TypeOK'
    BY <2>2, <2>3, <2>4 DEF TypeOK
  <2>6. CallsEarned'
    <3> SUFFICES ASSUME NEW t \in Slots
                 PROVE  /\ call'[t].pc # "idle" =>
                             /\ call'[t].prov \in Providers
                             /\ call'[t].earned * MILESTONE_HOURS <= hours'[call'[t].prov]
                        /\ call'[t].pc \in {"pay", "record"} => call'[t].next \in 1 .. call'[t].earned
      BY DEF CallsEarned
    <3>1. CASE t = s
      BY <2>2, <2>3, <3>1 DEF TypeOK
    <3>2. CASE t # s
      BY <2>3, <2>4, <3>2 DEF TypeOK, CallsEarned, MILESTONE_HOURS
    <3> QED BY <3>1, <3>2
  <2>7. PaidWhenEarned'
    BY <2>3, <2>4 DEF PaidWhenEarned, TypeOK, Milestones, MILESTONE_HOURS
  <2> QED BY <2>5, <2>6, <2>7
<1>2. ASSUME NEW s \in Slots, count_claimed(s)
      PROVE  EarnedInv'
  <2>1. \E n \in Nat \ {0} : Loop(s, n)
    <3>1. call[s].prov \in Providers
      BY <1>2 DEF count_claimed, CallsEarned
    <3>2. IsFiniteSet(Milestones)
      BY MilestoneAssumption, FS_Interval DEF Milestones, MILESTONE_HOURS
    <3>3. IsFiniteSet(rewards[call[s].prov])
      BY <3>1, <3>2, FS_Subset DEF TypeOK
    <3>4. Cardinality(rewards[call[s].prov]) \in Nat
      BY <3>3, FS_CardinalityType
    <3> QED BY <1>2, <3>4 DEF count_claimed
  <2>2. PICK n \in Nat \ {0} : Loop(s, n)
    BY <2>1
  <2>3. UNCHANGED <<hours, rewards, paid, dropped>> /\ call[s].pc # "idle"
    BY <1>2 DEF count_claimed
  <2> QED BY <2>2, <2>3, LoopKeepsCalls DEF TypeOK, PaidWhenEarned
<1>3. ASSUME NEW s \in Slots, pay_reward(s)
      PROVE  EarnedInv'
  <2> DEFINE p == call[s].prov
             n == call[s].next
  <2>1. p \in Providers /\ n \in Milestones /\ n * MILESTONE_HOURS <= hours[p]
    <3>1. /\ p \in Providers /\ hours[p] \in 0 .. MaxHours /\ call[s].earned \in Nat
          /\ call[s].earned * MILESTONE_HOURS <= hours[p] /\ n \in 1 .. call[s].earned
      BY <1>3 DEF pay_reward, CallsEarned, TypeOK
    <3> QED BY <3>1, EarnedIsMilestone
  <2>2. /\ call[s].pc = "pay" /\ call' = [call EXCEPT ![s] = [call[s] EXCEPT !.pc = "record"]]
        /\ UNCHANGED <<hours, rewards, dropped>>
    BY <1>3 DEF pay_reward, TypeOK
  <2> DEFINE row == [paid[p] EXCEPT ![n] = @ + 1]
  <2>3. paid' = [paid EXCEPT ![p] = row] \/ paid' = paid
    BY <1>3 DEF pay_reward
  <2> HIDE DEF p, n
  <2>30. row \in [Milestones -> Nat] /\ \A m \in Milestones : m # n => row[m] = paid[p][m]
    BY <2>1 DEF TypeOK
  <2> HIDE DEF row
  <2>31. /\ paid' \in [Providers -> [Milestones -> Nat]]
         /\ \A q \in Providers, m \in Milestones : paid'[q][m] = paid[q][m] \/ (q = p /\ m = n)
    BY <2>1, <2>3, <2>30 DEF TypeOK
  <2>4. TypeOK'
    BY <2>1, <2>2, <2>31 DEF TypeOK
  <2>5. CallsEarned'
    BY <2>2 DEF TypeOK, CallsEarned
  <2>6. PaidWhenEarned'
    BY <2>1, <2>2, <2>31 DEF PaidWhenEarned
  <2> QED BY <2>4, <2>5, <2>6
<1>4. ASSUME NEW s \in Slots, record_reward(s)
      PROVE  EarnedInv'
  <2> DEFINE p == call[s].prov
             n == call[s].next
  <2>1. p \in Providers /\ n \in Milestones /\ n * MILESTONE_HOURS <= hours[p] /\ n \in Nat
    <3>1. /\ p \in Providers /\ hours[p] \in 0 .. MaxHours /\ call[s].earned \in Nat
          /\ call[s].earned * MILESTONE_HOURS <= hours[p] /\ n \in 1 .. call[s].earned
      BY <1>4 DEF record_reward, CallsEarned, TypeOK
    <3> QED BY <3>1, EarnedIsMilestone
  <2>2. /\ call[s].pc # "idle" /\ Loop(s, n + 1) /\ UNCHANGED <<hours, paid, dropped>>
        /\ rewards' = [rewards EXCEPT ![p] = rewards[p] \cup {n}] \/ rewards' = rewards
    BY <1>4 DEF record_reward
  <2> HIDE DEF p, n
  <2>3. n + 1 \in Nat \ {0}
    BY <2>1
  <2>4. rewards' \in [Providers -> SUBSET Milestones]
    BY <2>1, <2>2 DEF TypeOK
  <2>5. PaidWhenEarned'
    BY <2>1, <2>2 DEF TypeOK, PaidWhenEarned
  <2> QED BY <2>2, <2>3, <2>4, <2>5, LoopKeepsCalls DEF TypeOK
<1>5. ASSUME NEW s \in Slots, abort_report(s)
      PROVE  EarnedInv'
  <2>1. call[s].prov \in Providers
    BY <1>5 DEF abort_report, CallsEarned
  <2> QED BY <1>5, <2>1 DEF abort_report, TypeOK, CallsEarned, PaidWhenEarned, Idle
<1>6. CASE UNCHANGED vars
  BY <1>6 DEF vars, TypeOK, CallsEarned, PaidWhenEarned
<1> QED BY <1>1, <1>2, <1>3, <1>4, <1>5, <1>6 DEF Next

\* Nothing is earned and nothing paid at first.
LEMMA EarnedInit == Init => EarnedInv
BY MilestoneAssumption
   DEF Init, EarnedInv, TypeOK, CallsEarned, PaidWhenEarned, Idle, Milestones, MILESTONE_HOURS

\* Every rewards row names one of the milestones and every report one of the
\* statements of report_completion, whatever fails and whoever is dropped.
THEOREM MilestoneTypeCorrect == Spec => []TypeOK
<1>1. EarnedInv => TypeOK
  BY DEF EarnedInv
<1> QED BY <1>1, EarnedInit, EarnedStep, PTL DEF Spec

\* No milestone is paid or recorded before it is earned, whatever fails.
THEOREM PaymentsAreEarned == Spec => []PaidWhenEarned
<1>1. EarnedInv => PaidWhenEarned
  BY DEF EarnedInv
<1> QED BY <1>1, EarnedInit, EarnedStep, PTL DEF Spec

-----------------------------------------------------------------------------
(* Where no statement fails, COUNT is the number of the last milestone. *)

\* Adding k + 1 or an element of 1 .. k to 1 .. k leaves no gap.
LEMMA AddContiguous ==
  ASSUME NEW k \in Nat, NEW n \in 1 .. (k + 1)
  PROVE  \E i \in {k, k + 1} : (1 .. k) \cup {n} = 1 .. i /\ n \in 1 .. i
<1>1. CASE n = k + 1
  <2>1. (1 .. k) \cup {n} = 1 .. (k + 1)
    BY <1>1
  <2> QED BY <1>1, <2>1
<1>2. CASE n # k + 1
  <2>1. (1 .. k) \cup {n} = 1 .. k /\ n \in 1 .. k
    BY <1>2
  <2> QED BY <2>1
<1> QED BY <1>1, <1>2

\* Where no statement fails, every statement keeps the rows without gaps.
LEMMA ContiguousStep == ContiguousInv /\ [Next]_vars => ContiguousInv'
<1> SUFFICES ASSUME ContiguousInv, [Next]_vars PROVE CallsContiguous' /\ RewardsContiguous'
  BY EarnedStep DEF ContiguousInv
<1>0. EarnedInv /\ EarnedInv' /\ TypeOK /\ CallsEarned /\ CallsContiguous /\ RewardsContiguous
  BY EarnedStep DEF ContiguousInv, EarnedInv
<1>1. ASSUME NEW s \in Slots, NEW p \in Providers, NEW h \in JobHours, add_hours(s, p, h)
      PROVE  CallsContiguous' /\ RewardsContiguous'
  BY <1>0, <1>1 DEF add_hours, TypeOK, CallsContiguous, RewardsContiguous
<1>2. ASSUME NEW s \in Slots, count_claimed(s)
      PROVE  CallsContiguous' /\ RewardsContiguous'
  <2> DEFINE p == call[s].prov
             c == Cardinality(rewards[p])
  <2>1. p \in Providers
    BY <1>0, <1>2 DEF count_claimed, CallsEarned
  <2>0. CASE p \in Failing
    <3>1. /\ UNCHANGED rewards /\ \A t \in Slots \ {s} : call'[t] = call[t]
          /\ call'[s].pc \in {"pay", "record"} => call'[s].prov = p
      BY <1>0, <1>2 DEF count_claimed, Loop, Idle, TypeOK
    <3> QED BY <1>0, <2>0, <3>1 DEF CallsContiguous, RewardsContiguous
  <2> SUFFICES ASSUME p \notin Failing PROVE CallsContiguous' /\ RewardsContiguous'
    BY <2>0
  <2>2. c \in Nat /\ rewards[p] = 1 .. c
    <3>1. PICK k \in 0 .. (MaxHours \div MILESTONE_HOURS) : rewards[p] = 1 .. k
      BY <1>0, <2>1 DEF RewardsContiguous
    <3>2. k \in Nat
      BY <3>1, MilestoneAssumption DEF MILESTONE_HOURS
    <3>3. Cardinality(1 .. k) = k
      <4>1. Cardinality(1 .. k) = IF 1 > k THEN 0 ELSE k - 1 + 1
        BY <3>2, FS_Interval
      <4> QED BY <3>2, <4>1
    <3> QED BY <3>1, <3>2, <3>3
  <2>3. call[s].pc # "idle" /\ Loop(s, c + 1) /\ UNCHANGED <<hours, rewards, paid>>
    BY <1>2 DEF count_claimed
  <2> HIDE DEF c
  <2>4. c + 1 \in Nat \ {0}
    BY <2>2
  <2>5. /\ \A t \in Slots \ {s} : call'[t] = call[t]
        /\ call'[s].pc \in {"idle", "pay"}
        /\ call'[s].pc = "pay" => call'[s].prov = p /\ call'[s].next = c + 1
    BY <1>0, <2>3, <2>4, LoopKeepsCalls
  <2> HIDE DEF p
  <2>6. c + 1 - 1 = c
    BY <2>2
  <2> QED BY <1>0, <2>2, <2>3, <2>5, <2>6 DEF CallsContiguous, RewardsContiguous
<1>3. ASSUME NEW s \in Slots, pay_reward(s)
      PROVE  CallsContiguous' /\ RewardsContiguous'
  BY <1>0, <1>3 DEF pay_reward, TypeOK, CallsContiguous, RewardsContiguous
<1>4. ASSUME NEW s \in Slots, record_reward(s)
      PROVE  CallsContiguous' /\ RewardsContiguous'
  <2> DEFINE p == call[s].prov
             n == call[s].next
  <2>0. CASE p \in Failing
    <3>1. /\ \A t \in Slots \ {s} : call'[t] = call[t]
          /\ call'[s].pc \in {"pay", "record"} => call'[s].prov = p
          /\ \A q \in Providers : q # p => rewards'[q] = rewards[q]
      BY <1>0, <1>4 DEF record_reward, Loop, Idle, TypeOK
    <3>2. \A t \in Slots : call[t].pc \in {"pay", "record"} => call[t].prov \in Providers
      BY <1>0 DEF CallsEarned
    <3> QED BY <1>0, <2>0, <3>1, <3>2 DEF CallsContiguous, RewardsContiguous
  <2> SUFFICES ASSUME p \notin Failing PROVE CallsContiguous' /\ RewardsContiguous'
    BY <2>0
  <2>1. /\ p \in Providers /\ n \in Nat /\ n >= 1
        /\ \A m \in 1 .. (n - 1) : m \in rewards[p]
    BY <1>0, <1>4 DEF record_reward, CallsEarned, CallsContiguous, TypeOK
  <2>2. /\ call[s].pc # "idle" /\ Loop(s, n + 1) /\ UNCHANGED <<hours, paid>>
        /\ rewards' = [rewards EXCEPT ![p] = rewards[p] \cup {n}]
    BY <1>4 DEF record_reward
  <2>3. /\ \A t \in Slots \ {s} : call'[t] = call[t]
        /\ call'[s].pc \in {"idle", "pay"}
        /\ call'[s].pc = "pay" => call'[s].prov = p /\ call'[s].next = n + 1
    BY <1>0, <2>1, <2>2, LoopKeepsCalls
  <2> HIDE DEF p, n
  <2>4. PICK k \in Nat : rewards[p] = 1 .. k
    BY <1>0, <2>1, MilestoneAssumption DEF RewardsContiguous, MILESTONE_HOURS
  <2>5. n \in 1 .. (k + 1)
    <3>1. CASE n = 1
      BY <3>1
    <3>2. CASE n # 1
      BY <2>1, <2>4, <3>2
    <3> QED BY <3>1, <3>2
  <2>6. PICK i \in {k, k + 1} : (1 .. k) \cup {n} = 1 .. i /\ n \in 1 .. i
    BY <2>5, AddContiguous
  <2>7. i \in Nat /\ rewards'[p] = 1 .. i /\ \A q \in Providers \ {p} : rewards'[q] = rewards[q]
    BY <1>0, <2>1, <2>2, <2>4, <2>6 DEF TypeOK
  <2>8. i \in 0 .. (MaxHours \div MILESTONE_HOURS)
    <3>1. \A m \in 1 .. i : m \in 1 .. (MaxHours \div MILESTONE_HOURS)
      BY <1>0, <2>1, <2>7 DEF EarnedInv, TypeOK, Milestones
    <3>2. MaxHours \div MILESTONE_HOURS \in Nat
      BY MilestoneAssumption DEF MILESTONE_HOURS
    <3> QED BY <2>7, <3>1, <3>2
  <2>9. RewardsContiguous'
    BY <1>0, <2>7, <2>8 DEF RewardsContiguous
  <2>10. \A q \in Providers : rewards[q] \subseteq rewards'[q]
    BY <2>2, <2>1, <1>0 DEF TypeOK
  <2>11. \A m \in 1 .. (n + 1 - 1) : m \in rewards'[p]
    BY <2>1, <2>6, <2>7
  <2>12. CallsContiguous'
    <3> SUFFICES ASSUME NEW t \in Slots, call'[t].pc \in {"pay", "record"},
                        call'[t].prov \notin Failing
                 PROVE  \A m \in 1 .. (call'[t].next - 1) : m \in rewards'[call'[t].prov]
      BY DEF CallsContiguous
    <3>1. CASE t = s
      <4>1. call'[t].prov = p /\ call'[t].next = n + 1
        BY <2>3, <3>1
      <4>2. call'[t].next - 1 = n + 1 - 1
        BY <2>1, <4>1
      <4> QED BY <2>11, <4>1, <4>2, Zenon
    <3>2. CASE t # s
      <4>1. call'[t] = call[t] /\ call[t].prov \in Providers
        BY <1>0, <2>3, <3>2 DEF CallsEarned
      <4> QED BY <1>0, <2>10, <4>1 DEF CallsContiguous
    <3> QED BY <3>1, <3>2
  <2> QED BY <2>9, <2>12
<1>5. ASSUME NEW s \in Slots, abort_report(s)
      PROVE  CallsContiguous' /\ RewardsContiguous'
  BY <1>0, <1>5 DEF abort_report, Idle, TypeOK, CallsContiguous, RewardsContiguous
<1>6. CASE UNCHANGED vars
  BY <1>0, <1>6 DEF vars, CallsContiguous, RewardsContiguous
<1> QED BY <1>1, <1>2, <1>3, <1>4, <1>5, <1>6 DEF Next

\* As long as no statement fails, the recorded milestones of a provider are
\* 1 .. k, so that COUNT(*) tells where to continue: for any number of
\* concurrent and dropped reports.
THEOREM RewardsAreContiguous == Spec => []RewardsContiguous
<1>1. Init => ContiguousInv
  <2> SUFFICES ASSUME Init PROVE CallsContiguous /\ RewardsContiguous
    BY EarnedInit DEF ContiguousInv
  <2>1. CallsContiguous
    BY DEF Init, Idle, CallsContiguous
  <2>2. 1 .. 0 = {} /\ 0 \in 0 .. (MaxHours \div MILESTONE_HOURS)
    BY MilestoneAssumption DEF MILESTONE_HOURS
  <2>3. RewardsContiguous
    BY <2>2 DEF Init, RewardsContiguous
  <2> QED BY <2>1, <2>3
<1>2. ContiguousInv => RewardsContiguous
  BY DEF ContiguousInv
<1> QED BY <1>1, <1>2, ContiguousStep, PTL DEF Spec

-----------------------------------------------------------------------------
(* Where no request gets lost, what is recorded was paid. *)

\* Where no request gets lost, every statement records what was paid.
LEMMA PaidStep == PaidInv /\ [Next]_vars => PaidInv'
<1> SUFFICES ASSUME PaidInv, [Next]_vars PROVE CallsPaid' /\ RecordedIsPaid'
  BY EarnedStep DEF PaidInv
<1>0. EarnedInv /\ TypeOK /\ CallsEarned /\ CallsPaid /\ RecordedIsPaid
  BY DEF PaidInv, EarnedInv
<1>1. ASSUME NEW s \in Slots, NEW p \in Providers, NEW h \in JobHours, add_hours(s, p, h)
      PROVE  CallsPaid' /\ RecordedIsPaid'
  BY <1>0, <1>1 DEF add_hours, TypeOK, CallsPaid, RecordedIsPaid
<1>2. ASSUME NEW s \in Slots, count_claimed(s)
      PROVE  CallsPaid' /\ RecordedIsPaid'
  <2>1. /\ UNCHANGED <<rewards, paid>>
        /\ \A t \in Slots : call'[t] = call[t] \/ call'[t].pc \in {"idle", "pay"}
    BY <1>0, <1>2 DEF count_claimed, Loop, Idle, TypeOK
  <2> QED BY <1>0, <2>1 DEF CallsPaid, RecordedIsPaid
<1>3. ASSUME NEW s \in Slots, pay_reward(s)
      PROVE  CallsPaid' /\ RecordedIsPaid'
  <2> DEFINE p == call[s].prov
             n == call[s].next
             row == [paid[p] EXCEPT ![n] = @ + 1]
  <2>1. p \in Providers /\ n \in Milestones
    <3>1. /\ p \in Providers /\ hours[p] \in 0 .. MaxHours /\ call[s].earned \in Nat
          /\ call[s].earned * MILESTONE_HOURS <= hours[p] /\ n \in 1 .. call[s].earned
      BY <1>0, <1>3 DEF pay_reward, CallsEarned, TypeOK
    <3> QED BY <3>1, EarnedIsMilestone
  <2>2. /\ call' = [call EXCEPT ![s] = [call[s] EXCEPT !.pc = "record"]]
        /\ paid' = [paid EXCEPT ![p] = row] \/ (p \in Lossy /\ paid' = paid)
        /\ UNCHANGED rewards
    BY <1>3 DEF pay_reward
  <2>3. call'[s].prov = p /\ call'[s].next = n /\ \A t \in Slots \ {s} : call'[t] = call[t]
    BY <1>0, <2>2 DEF TypeOK
  <2> HIDE DEF p, n
  <2>4. /\ row \in [Milestones -> Nat] /\ row[n] >= 1
        /\ \A m \in Milestones : row[m] >= paid[p][m]
    BY <1>0, <2>1 DEF TypeOK
  <2> HIDE DEF row
  <2>5. (p \notin Lossy => paid'[p][n] >= 1) /\ \A q \in Providers, m \in Milestones :
                               paid[q][m] \in Nat /\ paid'[q][m] \in Nat /\ paid'[q][m] >= paid[q][m]
    BY <1>0, <2>1, <2>2, <2>4 DEF TypeOK
  <2>6. RecordedIsPaid'
    <3> SUFFICES ASSUME NEW q \in Providers \ Lossy, NEW m \in rewards[q] PROVE paid'[q][m] >= 1
      BY <2>2 DEF RecordedIsPaid
    <3>1. m \in Milestones /\ paid[q][m] >= 1
      BY <1>0 DEF TypeOK, RecordedIsPaid
    <3> QED BY <2>5, <3>1
  <2>7. CallsPaid'
    <3> SUFFICES ASSUME NEW t \in Slots, call'[t].pc = "record", call'[t].prov \notin Lossy
                 PROVE  paid'[call'[t].prov][call'[t].next] >= 1
      BY DEF CallsPaid
    <3>1. CASE t = s
      BY <2>3, <2>5, <3>1
    <3>2. CASE t # s
      <4>1. /\ call'[t] = call[t] /\ call[t].prov \in Providers
            /\ paid[call[t].prov][call[t].next] >= 1
        BY <1>0, <2>3, <3>2 DEF CallsEarned, CallsPaid
      <4>2. call[t].next \in Milestones
        <5>1. /\ hours[call[t].prov] \in 0 .. MaxHours /\ call[t].earned \in Nat
              /\ call[t].earned * MILESTONE_HOURS <= hours[call[t].prov]
              /\ call[t].next \in 1 .. call[t].earned
          BY <1>0, <4>1 DEF CallsEarned, TypeOK
        <5> QED BY <5>1, EarnedIsMilestone
      <4> QED BY <2>5, <4>1, <4>2
    <3> QED BY <3>1, <3>2
  <2> QED BY <2>6, <2>7
<1>4. ASSUME NEW s \in Slots, record_reward(s)
      PROVE  CallsPaid' /\ RecordedIsPaid'
  <2>1. /\ UNCHANGED paid
        /\ \A t \in Slots : call'[t] = call[t] \/ call'[t].pc \in {"idle", "pay"}
    BY <1>0, <1>4 DEF record_reward, Loop, Idle, TypeOK
  <2>2. /\ call[s].prov \in Providers
        /\ call[s].prov \notin Lossy => paid[call[s].prov][call[s].next] >= 1
        /\ \/ rewards' = rewards
           \/ rewards' = [rewards EXCEPT ![call[s].prov] = rewards[call[s].prov] \cup {call[s].next}]
    BY <1>0, <1>4 DEF record_reward, CallsPaid, CallsEarned
  <2>3. RecordedIsPaid'
    BY <1>0, <2>1, <2>2 DEF TypeOK, RecordedIsPaid
  <2> QED BY <1>0, <2>1, <2>3 DEF CallsPaid
<1>5. ASSUME NEW s \in Slots, abort_report(s)
      PROVE  CallsPaid' /\ RecordedIsPaid'
  BY <1>0, <1>5 DEF abort_report, Idle, TypeOK, CallsPaid, RecordedIsPaid
<1>6. CASE UNCHANGED vars
  BY <1>0, <1>6 DEF vars, CallsPaid, RecordedIsPaid
<1> QED BY <1>1, <1>2, <1>3, <1>4, <1>5, <1>6 DEF Next

\* As long as the ledger answers, every recorded milestone was paid, also when
\* statements fail and reports are dropped.
THEOREM RecordedIsAlwaysPaid == Spec => []RecordedIsPaid
<1>1. Init => PaidInv
  BY EarnedInit DEF Init, Idle, PaidInv, CallsPaid, RecordedIsPaid
<1>2. PaidInv => RecordedIsPaid
  BY DEF PaidInv
<1> QED BY <1>1, <1>2, PaidStep, PTL DEF Spec
=============================================================================
