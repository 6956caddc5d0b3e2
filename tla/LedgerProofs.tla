---------------------------- MODULE LedgerProofs ----------------------------
(***************************************************************************)
(* Proofs for module LedgerService: for every number of accounts, escrows  *)
(* and concurrent requests and all amounts.                                *)
(***************************************************************************)
EXTENDS LedgerService, TotalTheorems, TLAPS

\* A release under way never costs more than was locked; a withdrawal under
\* way takes a natural number.
CallsBounded ==
  \A s \in Slots : /\ call[s].pc \in ReleasePc => call[s].amt <= Locked[call[s].id]
                   /\ call[s].pc = "withdraw_update" => call[s].amt \in Nat

\* Only the coordinator's withdraw separates the test from the debit.
BlindDebits == \A s \in Slots : call[s].pc = "withdraw_update" => call[s].id \in CoordinatorUsers

CallInv  == TypeOK /\ CallsBounded
DebitInv == CallInv /\ BlindDebits /\ OverdraftExplained

CallType == [pc : {"idle", "lock_insert", "withdraw_update"} \cup ReleasePc,
             id : Accounts \cup Escrows \cup {None}, amt : Int]

\* The fee and the provider's share are integers.
LEMMA FeePart ==
  ASSUME NEW cost \in Int
  PROVE  PlatformFee(cost) \in Int /\ ProviderShare(cost) \in Int
<1>1. cost * 8 \in Int
  OBVIOUS
<1>2. \A x \in Int : x \div 100 \in Int
  OBVIOUS
<1> QED BY <1>1, <1>2 DEF PlatformFee, ProviderShare

\* The cost of a release is an integer, at most the locked amount.
LEMMA CostPart ==
  ASSUME NEW e \in Escrows, NEW cost \in Costs
  PROVE  ActualCost(cost, e) \in Int /\ ActualCost(cost, e) <= Locked[e]
<1>1. cost \in Int /\ Locked[e] \in Int
  BY LedgerAssumption
<1> QED BY <1>1 DEF ActualCost

\* Steps that leave balances and calls to the cases below keep the rest typed.
LEMMA TypeFromParts ==
  ASSUME TypeOK,
         available_nmc' \in [Accounts -> Int], escrowed_nmc' \in [Accounts -> Int],
         escrow_state' \in [Escrows -> {"none", "locked", "released"}],
         call' \in [Slots -> CallType],
         \A s \in Slots : call'[s] = call[s] \/
              /\ call'[s].pc \in ReleasePc \cup {"lock_insert"} => call'[s].id \in Escrows
              /\ call'[s].pc = "withdraw_update" => call'[s].id \in Accounts,
         settled' \in [Escrows -> Nat], overlaps' \in [Escrows -> Nat], stops' \in [Escrows -> Nat],
         charged' \in [Accounts -> Nat],
         deposited' \in Nat, deposits' \in Nat, withdrawn' \in Nat, fees' \in Int,
         stranded' \in Int
  PROVE  TypeOK'
BY DEF TypeOK, CallType

-----------------------------------------------------------------------------
\* Every statement keeps types and the bounds of the amounts in hand.
LEMMA TypeStep == CallInv /\ [Next]_vars => CallInv'
<1> SUFFICES ASSUME CallInv, [Next]_vars PROVE CallInv'
  OBVIOUS
<1> USE DEF counts
<1>0. TypeOK /\ CallsBounded /\ call \in [Slots -> CallType]
  BY DEF CallInv, TypeOK, CallType
<1>01. \A s \in Slots :
         /\ call[s].amt \in Int
         /\ call[s].pc \in ReleasePc => call[s].id \in Escrows /\ call[s].amt <= Locked[call[s].id]
         /\ call[s].pc = "withdraw_update" => call[s].id \in Accounts /\ call[s].amt \in Nat
  BY <1>0 DEF TypeOK, CallsBounded, CallType
<1>1. ASSUME NEW a \in Accounts, NEW x \in Deposits, deposit(a, x)
      PROVE  CallInv'
  <2>1. x \in Nat
    BY LedgerAssumption
  <2>2. available_nmc' \in [Accounts -> Int]
    BY <1>0, <1>1, <2>1 DEF deposit, TypeOK
  <2>3. TypeOK'
    BY <1>0, <1>1, <2>1, <2>2 DEF deposit, TypeOK
  <2>4. CallsBounded'
    BY <1>0, <1>1 DEF deposit, CallsBounded
  <2> QED BY <2>2, <2>3, <2>4 DEF CallInv
<1>2. ASSUME NEW a \in Accounts, NEW x \in Withdrawals, withdraw(a, x)
      PROVE  CallInv'
  <2>1. x \in Nat
    BY LedgerAssumption
  <2>2. available_nmc' \in [Accounts -> Int]
    BY <1>0, <1>2, <2>1 DEF withdraw, TypeOK
  <2>3. TypeOK'
    BY <1>0, <1>2, <2>1, <2>2 DEF withdraw, TypeOK
  <2>4. CallsBounded'
    BY <1>0, <1>2 DEF withdraw, CallsBounded
  <2> QED BY <2>2, <2>3, <2>4 DEF CallInv
<1>3. ASSUME NEW s \in Slots, NEW e \in Escrows, lock_escrow_debit(s, e)
      PROVE  CallInv'
  <2>1. Consumer[e] \in Accounts /\ Locked[e] \in Int
    BY LedgerAssumption
  <2>2. /\ available_nmc' \in [Accounts -> Int]
        /\ escrowed_nmc' \in [Accounts -> Int]
    BY <1>0, <1>3, <2>1 DEF lock_escrow_debit, TypeOK
  <2>3. call' = [call EXCEPT ![s] = [pc |-> "lock_insert", id |-> e, amt |-> 0]]
    BY <1>3 DEF lock_escrow_debit, Start
  <2>4. /\ call' \in [Slots -> CallType] /\ call'[s].pc = "lock_insert" /\ call'[s].id = e
        /\ \A t \in Slots \ {s} : call'[t] = call[t]
    BY <1>0, <2>3 DEF CallType
  <2>5. TypeOK'
    BY <1>0, <1>3, <2>2, <2>4, TypeFromParts DEF lock_escrow_debit, totals, TypeOK
  <2>6. CallsBounded'
    BY <1>0, <2>4 DEF CallsBounded, ReleasePc
  <2> QED BY <2>2, <2>5, <2>6 DEF CallInv
<1>4. ASSUME NEW s \in Slots, NEW e \in Escrows, NEW cost \in Costs, release_escrow_select(s, e, cost)
      PROVE  CallInv'
  <2> DEFINE x == ActualCost(cost, e)
  <2>1. x \in Int /\ x <= Locked[e]
    BY CostPart
  <2>2. /\ call' = [call EXCEPT ![s] = [pc |-> "release_consumer", id |-> e, amt |-> x]]
        /\ overlaps' = [overlaps EXCEPT ![e] = IF Busy(e, ReleasePc) THEN @ + 1 ELSE @]
        /\ UNCHANGED <<available_nmc, escrowed_nmc, escrow_state, settled, stops, charged,
                       deposited, deposits, withdrawn, fees, stranded>>
    BY <1>4 DEF release_escrow_select, Overlap, Start, accountVars, totals
  <2> HIDE DEF x
  <2>3. /\ call' \in [Slots -> CallType] /\ call'[s].pc = "release_consumer" /\ call'[s].id = e
        /\ call'[s].amt = x /\ \A t \in Slots \ {s} : call'[t] = call[t]
    BY <1>0, <2>1, <2>2 DEF CallType, ReleasePc
  <2>30. overlaps' \in [Escrows -> Nat]
    BY <1>0, <2>2 DEF TypeOK
  <2>4. TypeOK'
    BY <1>0, <2>2, <2>3, <2>30, TypeFromParts DEF TypeOK
  <2>5. CallsBounded'
    BY <1>0, <2>1, <2>3 DEF CallsBounded
  <2> QED BY <2>4, <2>5 DEF CallInv
<1>5. ASSUME NEW s \in Slots, release_escrow_consumer(s)
      PROVE  CallInv'
  <2> DEFINE e == call[s].id
             c == Consumer[e]
             x == call[s].amt
             fee == PlatformFee(x)
  <2>1. /\ e \in Escrows /\ c \in Accounts /\ Locked[e] \in Int /\ x \in Int /\ x <= Locked[e]
        /\ fee \in Int
    <3>1. e \in Escrows /\ x \in Int /\ x <= Locked[e]
      BY <1>01, <1>5 DEF release_escrow_consumer, ReleasePc
    <3> QED BY <3>1, FeePart, LedgerAssumption
  <2>2. /\ call' = [call EXCEPT ![s] = [pc |-> "release_provider", id |-> e, amt |-> x]]
        /\ escrowed_nmc' = [escrowed_nmc EXCEPT ![c] = @ - Locked[e]]
        /\ available_nmc' = [available_nmc EXCEPT ![c] = @ + (Locked[e] - x)]
        /\ settled' = [settled EXCEPT ![e] = @ + 1] /\ fees' = fees + fee
        /\ UNCHANGED <<escrow_state, overlaps, stops, charged, deposited, deposits, withdrawn, stranded>>
    BY <1>5 DEF release_escrow_consumer, Goto
  <2> HIDE DEF e, c, x, fee
  <2>3. /\ call' \in [Slots -> CallType] /\ call'[s].pc = "release_provider" /\ call'[s].id = e
        /\ call'[s].amt = x /\ \A t \in Slots \ {s} : call'[t] = call[t]
    BY <1>0, <2>1, <2>2 DEF CallType, ReleasePc
  <2>4. /\ available_nmc' \in [Accounts -> Int] /\ escrowed_nmc' \in [Accounts -> Int]
        /\ settled' \in [Escrows -> Nat] /\ fees' \in Int
    BY <1>0, <2>1, <2>2 DEF TypeOK
  <2>5. TypeOK'
    BY <1>0, <2>1, <2>2, <2>3, <2>4, TypeFromParts DEF TypeOK
  <2>6. CallsBounded'
    BY <1>0, <2>1, <2>3 DEF CallsBounded
  <2> QED BY <2>4, <2>5, <2>6 DEF CallInv
<1>6. ASSUME NEW s \in Slots, release_escrow_provider(s)
      PROVE  CallInv'
  <2> DEFINE e == call[s].id
             c == Provider[e]
             x == call[s].amt
             share == ProviderShare(x)
  <2>1. e \in Escrows /\ c \in Accounts /\ x \in Int /\ x <= Locked[e] /\ share \in Int
    <3>1. e \in Escrows /\ x \in Int /\ x <= Locked[e]
      BY <1>01, <1>6 DEF release_escrow_provider, ReleasePc
    <3>2. share \in Int
      BY <3>1, FeePart
    <3> QED BY <3>1, <3>2, LedgerAssumption
  <2>2. /\ call' = [call EXCEPT ![s] = [pc |-> "release_mark", id |-> e, amt |-> x]]
        /\ available_nmc' = [available_nmc EXCEPT ![c] = @ + share]
        /\ charged' = [charged EXCEPT ![c] = IF share < 0 THEN @ - share ELSE @]
        /\ UNCHANGED <<escrowed_nmc, escrow_state, settled, overlaps, stops, deposited, deposits,
                       withdrawn, fees, stranded>>
    BY <1>6 DEF release_escrow_provider, Goto, totals
  <2> HIDE DEF e, c, x, share
  <2>3. /\ call' \in [Slots -> CallType] /\ call'[s].pc = "release_mark" /\ call'[s].id = e
        /\ call'[s].amt = x /\ \A t \in Slots \ {s} : call'[t] = call[t]
    BY <1>0, <2>1, <2>2 DEF CallType, ReleasePc
  <2>4. available_nmc' \in [Accounts -> Int] /\ charged' \in [Accounts -> Nat]
    BY <1>0, <2>1, <2>2 DEF TypeOK
  <2>5. TypeOK'
    BY <1>0, <2>1, <2>2, <2>3, <2>4, TypeFromParts DEF TypeOK
  <2>6. CallsBounded'
    BY <1>0, <2>1, <2>3 DEF CallsBounded
  <2> QED BY <2>4, <2>5, <2>6 DEF CallInv
<1>7. ASSUME NEW s \in Slots, lock_escrow_insert(s) \/ release_escrow_mark(s) \/ abort_call(s)
      PROVE  CallInv'
  <2>1. /\ call' = [call EXCEPT ![s] = Idle]
        /\ UNCHANGED <<available_nmc, escrowed_nmc, settled, overlaps, charged,
                       deposited, deposits, withdrawn, fees>>
        /\ stranded' \in {stranded, stranded + ProviderShare(call[s].amt), stranded + 0}
    BY <1>7 DEF lock_escrow_insert, release_escrow_mark, abort_call, Finish, accountVars, totals
  <2>2. escrow_state' \in [Escrows -> {"none", "locked", "released"}]
    BY <1>0, <1>7 DEF lock_escrow_insert, release_escrow_mark, abort_call, TypeOK, ReleasePc
  <2>3. /\ call' \in [Slots -> CallType] /\ call'[s].pc = "idle"
        /\ \A t \in Slots \ {s} : call'[t] = call[t]
    BY <1>0, <2>1 DEF CallType, Idle
  <2>30. call[s].amt \in Int /\ ProviderShare(call[s].amt) \in Int
    BY <1>0, FeePart DEF CallType
  <2>31. stranded' \in Int
    BY <1>0, <2>1, <2>30 DEF TypeOK
  <2>32. stops' = stops \/ \E e \in Escrows : stops' = [stops EXCEPT ![e] = @ + 1]
    BY <1>0, <1>7 DEF lock_escrow_insert, release_escrow_mark, abort_call, TypeOK, ReleasePc
  <2>33. stops' \in [Escrows -> Nat]
    BY <1>0, <2>32 DEF TypeOK
  <2>4. TypeOK'
    BY <1>0, <2>1, <2>2, <2>3, <2>31, <2>33, TypeFromParts DEF TypeOK, ReleasePc
  <2>5. CallsBounded'
    BY <1>0, <2>3 DEF CallsBounded, ReleasePc
  <2> QED BY <2>4, <2>5 DEF CallInv
<1>8. ASSUME NEW s \in Slots, coordinator_withdraw_update(s)
      PROVE  CallInv'
  <2> DEFINE a == call[s].id
             x == call[s].amt
  <2>1. a \in Accounts /\ x \in Nat
    BY <1>01, <1>8 DEF coordinator_withdraw_update
  <2>2. /\ call' = [call EXCEPT ![s] = Idle]
        /\ available_nmc' = [available_nmc EXCEPT ![a] = @ - x] /\ withdrawn' = withdrawn + x
        /\ UNCHANGED <<escrowed_nmc, escrow_state, counts, deposited, deposits, fees, stranded>>
    BY <1>8 DEF coordinator_withdraw_update, Finish
  <2> HIDE DEF a, x
  <2>3. /\ call' \in [Slots -> CallType] /\ call'[s].pc = "idle"
        /\ \A t \in Slots \ {s} : call'[t] = call[t]
    BY <1>0, <2>2 DEF CallType, Idle
  <2>4. available_nmc' \in [Accounts -> Int] /\ withdrawn' \in Nat
    BY <1>0, <2>1, <2>2 DEF TypeOK
  <2>5. TypeOK'
    BY <1>0, <2>2, <2>3, <2>4, TypeFromParts DEF TypeOK, ReleasePc
  <2>6. CallsBounded'
    BY <1>0, <2>3 DEF CallsBounded, ReleasePc
  <2> QED BY <2>5, <2>6 DEF CallInv
<1>9. ASSUME NEW s \in Slots, NEW a \in Accounts, NEW x \in Withdrawals,
             coordinator_withdraw_select(s, a, x)
      PROVE  CallInv'
  <2>1. x \in Nat
    BY LedgerAssumption
  <2>2. /\ call' = [call EXCEPT ![s] = [pc |-> "withdraw_update", id |-> a, amt |-> x]]
        /\ UNCHANGED <<available_nmc, escrowed_nmc, escrow_state, counts,
                       deposited, deposits, withdrawn, fees, stranded>>
    BY <1>9 DEF coordinator_withdraw_select, Start, accountVars, totals
  <2>3. /\ call' \in [Slots -> CallType] /\ call'[s].pc = "withdraw_update" /\ call'[s].id = a
        /\ \A t \in Slots \ {s} : call'[t] = call[t]
    BY <1>0, <2>1, <2>2 DEF CallType
  <2>4. TypeOK'
    BY <1>0, <2>2, <2>3, TypeFromParts DEF TypeOK, ReleasePc
  <2>5. CallsBounded'
    BY <1>0, <2>1, <2>2, <2>3 DEF CallsBounded, ReleasePc
  <2> QED BY <2>4, <2>5 DEF CallInv
<1>10. CASE UNCHANGED vars
  BY <1>0, <1>10 DEF vars, accountVars, totals, CallInv, TypeOK, CallsBounded
<1> QED BY <1>1, <1>2, <1>3, <1>4, <1>5, <1>6, <1>7, <1>8, <1>9, <1>10 DEF Next

\* Every column, request and total keeps its type.
THEOREM LedgerTypeCorrect == Spec => []TypeOK
<1>1. Init => CallInv
  BY DEF Init, CallInv, TypeOK, CallsBounded, Idle, ReleasePc
<1>2. CallInv => TypeOK
  BY DEF CallInv
<1> QED BY <1>1, <1>2, TypeStep, PTL DEF Spec

-----------------------------------------------------------------------------
\* Every statement keeps the accounts of the ledger's own users from overdraft.
LEMMA DebitStep == DebitInv /\ [Next]_vars => DebitInv'
<1> SUFFICES ASSUME DebitInv, [Next]_vars PROVE BlindDebits' /\ OverdraftExplained'
  BY TypeStep DEF DebitInv
<1> USE DEF counts
<1>0. /\ charged \in [Accounts -> Nat] /\ TypeOK /\ CallsBounded /\ BlindDebits /\ OverdraftExplained
      /\ available_nmc \in [Accounts -> Int] /\ call \in [Slots -> CallType]
  BY DEF DebitInv, CallInv, TypeOK, CallType
<1>1. ASSUME NEW a \in Accounts, NEW x \in Deposits, deposit(a, x)
      PROVE  BlindDebits' /\ OverdraftExplained'
  BY <1>0, <1>1, LedgerAssumption DEF deposit, BlindDebits, OverdraftExplained
<1>2. ASSUME NEW a \in Accounts, NEW x \in Withdrawals, withdraw(a, x)
      PROVE  BlindDebits' /\ OverdraftExplained'
  BY <1>0, <1>2, LedgerAssumption DEF withdraw, BlindDebits, OverdraftExplained
<1>3. ASSUME NEW s \in Slots, NEW e \in Escrows, lock_escrow_debit(s, e)
      PROVE  BlindDebits' /\ OverdraftExplained'
  <2>1. Consumer[e] \in Accounts /\ Locked[e] \in Int
    BY LedgerAssumption
  <2>2. OverdraftExplained'
    BY <1>0, <1>3, <2>1 DEF lock_escrow_debit, OverdraftExplained
  <2>3. BlindDebits'
    BY <1>0, <1>3 DEF lock_escrow_debit, Start, BlindDebits
  <2> QED BY <2>2, <2>3
<1>4. ASSUME NEW s \in Slots, NEW e \in Escrows, NEW cost \in Costs, release_escrow_select(s, e, cost)
      PROVE  BlindDebits' /\ OverdraftExplained'
  BY <1>0, <1>4 DEF release_escrow_select, Start, accountVars, BlindDebits,
                    OverdraftExplained
<1>5. ASSUME NEW s \in Slots, release_escrow_consumer(s)
      PROVE  BlindDebits' /\ OverdraftExplained'
  <2> DEFINE e == call[s].id
             x == call[s].amt
  <2>1. /\ Consumer[e] \in Accounts /\ Locked[e] \in Int /\ x \in Int /\ x <= Locked[e]
    <3>1. call[s].pc \in ReleasePc
      BY <1>5 DEF release_escrow_consumer, ReleasePc
    <3>2. e \in Escrows /\ x <= Locked[e]
      BY <1>0, <3>1 DEF TypeOK, CallsBounded
    <3>3. x \in Int
      BY <1>0 DEF CallType
    <3> QED BY <3>2, <3>3, LedgerAssumption
  <2>2. /\ available_nmc' = [available_nmc EXCEPT ![Consumer[e]] = @ + (Locked[e] - x)]
        /\ UNCHANGED charged
    BY <1>5 DEF release_escrow_consumer
  <2>3. BlindDebits'
    BY <1>0, <1>5 DEF release_escrow_consumer, Goto, BlindDebits
  <2> HIDE DEF e, x
  <2>4. OverdraftExplained'
    BY <1>0, <2>1, <2>2 DEF OverdraftExplained
  <2> QED BY <2>3, <2>4
<1>6. ASSUME NEW s \in Slots, release_escrow_provider(s)
      PROVE  BlindDebits' /\ OverdraftExplained'
  <2> DEFINE e == call[s].id
             share == ProviderShare(call[s].amt)
  <2>1. Provider[e] \in Accounts /\ share \in Int
    <3>1. e \in Escrows /\ call[s].amt \in Int
      BY <1>0, <1>6 DEF release_escrow_provider, TypeOK, ReleasePc
    <3>2. share \in Int
      BY <3>1, FeePart
    <3> QED BY <3>1, <3>2, LedgerAssumption
  <2>2. /\ available_nmc' = [available_nmc EXCEPT ![Provider[e]] = @ + share]
        /\ charged' = [charged EXCEPT ![Provider[e]] = IF share < 0 THEN @ - share ELSE @]
    BY <1>6 DEF release_escrow_provider
  <2>3. BlindDebits'
    BY <1>0, <1>6 DEF release_escrow_provider, Goto, BlindDebits
  <2> HIDE DEF e, share
  <2>4. OverdraftExplained'
    BY <1>0, <2>1, <2>2 DEF OverdraftExplained
  <2> QED BY <2>3, <2>4
<1>7. ASSUME NEW s \in Slots, lock_escrow_insert(s) \/ release_escrow_mark(s) \/ abort_call(s)
      PROVE  BlindDebits' /\ OverdraftExplained'
  <2>1. call' = [call EXCEPT ![s] = Idle] /\ UNCHANGED <<available_nmc, charged>>
    BY <1>7 DEF lock_escrow_insert, release_escrow_mark, abort_call, Finish, accountVars
  <2> QED BY <1>0, <2>1 DEF BlindDebits, OverdraftExplained, Idle
<1>8. ASSUME NEW s \in Slots, coordinator_withdraw_update(s)
      PROVE  BlindDebits' /\ OverdraftExplained'
  <2>1. /\ call[s].id \in CoordinatorUsers /\ call' = [call EXCEPT ![s] = Idle]
        /\ available_nmc' = [available_nmc EXCEPT ![call[s].id] = @ - call[s].amt] /\ UNCHANGED charged
    BY <1>0, <1>8 DEF coordinator_withdraw_update, Finish, BlindDebits
  <2>2. BlindDebits'
    BY <1>0, <2>1 DEF BlindDebits, Idle
  <2>3. OverdraftExplained'
    BY <1>0, <2>1 DEF OverdraftExplained
  <2> QED BY <2>2, <2>3
<1>9. ASSUME NEW s \in Slots, NEW a \in Accounts, NEW x \in Withdrawals,
             coordinator_withdraw_select(s, a, x)
      PROVE  BlindDebits' /\ OverdraftExplained'
  <2>1. /\ a \in CoordinatorUsers /\ UNCHANGED <<available_nmc, charged>>
        /\ call' = [call EXCEPT ![s] = [pc |-> "withdraw_update", id |-> a, amt |-> x]]
    BY <1>9 DEF coordinator_withdraw_select, Start, accountVars
  <2> QED BY <1>0, <2>1 DEF BlindDebits, OverdraftExplained
<1>10. CASE UNCHANGED vars
  BY <1>0, <1>10 DEF vars, accountVars, BlindDebits, OverdraftExplained
<1> QED BY <1>1, <1>2, <1>3, <1>4, <1>5, <1>6, <1>7, <1>8, <1>9, <1>10 DEF Next

\* Accounts start empty.
LEMMA DebitInit == Init => DebitInv
BY DEF Init, DebitInv, CallInv, TypeOK, CallsBounded, BlindDebits, OverdraftExplained, Idle, ReleasePc

\* An account that uses the ledger's own endpoints only is overdrawn by what
\* negative prices charged it as a provider and by nothing else, whatever the
\* interleaving, even if releases race or statements fail.
THEOREM OverdraftIsExplained == Spec => []OverdraftExplained
<1>1. DebitInv => OverdraftExplained
  BY DEF DebitInv
<1> QED BY <1>1, DebitInit, DebitStep, PTL DEF Spec

-----------------------------------------------------------------------------
(* Serialised releases settle an escrow once. *)

\* A request that moves a serial escrow on.
AtWork(s, e) == e \in Serial /\ call[s].id = e /\ call[s].pc \in ReleasePc \cup {"lock_insert"}

\* At most one request is at work on a serial escrow, and its position tells
\* whether the consumer was debited for it.
OneRequest ==
  \A s, t \in Slots, e \in Serial : AtWork(s, e) /\ AtWork(t, e) => s = t

Position ==
  \A s \in Slots, e \in Serial : AtWork(s, e) =>
    /\ call[s].pc \in ReleasePc => escrow_state[e] = "locked"
    /\ call[s].pc = "lock_insert" => escrow_state[e] = "none"
    /\ call[s].pc = "release_consumer" => settled[e] = 0

SettledLater ==
  \A e \in Serial :
    /\ escrow_state[e] = "none" => settled[e] = 0
    /\ escrow_state[e] = "locked" /\ settled[e] # 0 =>
         \E s \in Slots : AtWork(s, e) /\ call[s].pc \in {"release_provider", "release_mark"}

SerialSettledOnce == \A e \in Serial : settled[e] <= 1

SerialInv == OneRequest /\ Position /\ SettledLater /\ SerialSettledOnce

\* Every statement keeps the count of settlements in step with the requests.
LEMMA SerialStep == CallInv /\ SerialInv /\ [Next]_vars => SerialInv'
<1> SUFFICES ASSUME CallInv, SerialInv, [Next]_vars PROVE SerialInv'
  OBVIOUS
<1> USE DEF counts
<1>0. /\ OneRequest /\ Position /\ SettledLater /\ SerialSettledOnce
      /\ call \in [Slots -> CallType] /\ Serial \subseteq Escrows
      /\ escrow_state \in [Escrows -> {"none", "locked", "released"}]
      /\ settled \in [Escrows -> Nat]
      /\ \A s \in Slots : call[s].pc \in ReleasePc \cup {"lock_insert"} => call[s].id \in Escrows
  BY DEF SerialInv, CallInv, TypeOK, CallType, Serial
<1>1. ASSUME UNCHANGED <<escrow_state, settled, call>> PROVE SerialInv'
  BY <1>0, <1>1 DEF SerialInv, OneRequest, Position, SettledLater, SerialSettledOnce, AtWork
\* A step of a request that is at work on no serial escrow.
<1>2. ASSUME NEW s \in Slots, \A t \in Slots \ {s} : call'[t] = call[t],
             \A e \in Serial : ~AtWork(s, e) /\ ~AtWork(s, e)',
             \A e \in Serial : escrow_state'[e] = escrow_state[e] /\ settled'[e] = settled[e]
      PROVE  SerialInv'
  <2>1. \A t \in Slots, e \in Serial : AtWork(t, e)' => AtWork(t, e) /\ call'[t] = call[t]
    BY <1>2 DEF AtWork
  <2>2. \A t \in Slots, e \in Serial : AtWork(t, e) => AtWork(t, e)' /\ call'[t] = call[t]
    BY <1>2 DEF AtWork
  <2>3. OneRequest'
    BY <1>0, <2>1 DEF OneRequest
  <2>4. Position'
    BY <1>0, <1>2, <2>1 DEF Position
  <2>5. SettledLater' /\ SerialSettledOnce'
    BY <1>0, <1>2, <2>2 DEF SettledLater, SerialSettledOnce
  <2> QED BY <2>3, <2>4, <2>5 DEF SerialInv
\* A step of the only request that is at work on serial escrow e.
<1>3. ASSUME NEW s \in Slots, NEW e \in Serial, \A t \in Slots \ {s} : call'[t] = call[t],
             \A t \in Slots \ {s} : ~AtWork(t, e),
             \A f \in Serial \ {e} : ~AtWork(s, f) /\ ~AtWork(s, f)',
             \A f \in Serial \ {e} : escrow_state'[f] = escrow_state[f] /\ settled'[f] = settled[f],
             AtWork(s, e)' => /\ call'[s].pc \in ReleasePc => escrow_state'[e] = "locked"
                              /\ call'[s].pc = "lock_insert" => escrow_state'[e] = "none"
                              /\ call'[s].pc = "release_consumer" => settled'[e] = 0,
             escrow_state'[e] = "none" => settled'[e] = 0,
             escrow_state'[e] = "locked" /\ settled'[e] # 0 =>
               AtWork(s, e)' /\ call'[s].pc \in {"release_provider", "release_mark"},
             settled'[e] <= 1
      PROVE  SerialInv'
  <2>1. \A t \in Slots \ {s}, f \in Serial : AtWork(t, f)' <=> AtWork(t, f)
    BY <1>3 DEF AtWork
  <2>2. OneRequest'
    BY <1>0, <1>3, <2>1 DEF OneRequest
  <2>3. Position'
    <3> SUFFICES ASSUME NEW t \in Slots, NEW f \in Serial, AtWork(t, f)'
                 PROVE  /\ call'[t].pc \in ReleasePc => escrow_state'[f] = "locked"
                        /\ call'[t].pc = "lock_insert" => escrow_state'[f] = "none"
                        /\ call'[t].pc = "release_consumer" => settled'[f] = 0
      BY DEF Position
    <3>1. CASE t = s
      BY <1>3, <3>1
    <3>2. CASE t # s
      <4>1. call'[t] = call[t] /\ AtWork(t, f) /\ f # e
        BY <1>3, <2>1, <3>2
      <4> QED BY <1>0, <1>3, <4>1 DEF Position
    <3> QED BY <3>1, <3>2
  <2>4. SettledLater'
    <3> SUFFICES ASSUME NEW f \in Serial
                 PROVE  /\ escrow_state'[f] = "none" => settled'[f] = 0
                        /\ escrow_state'[f] = "locked" /\ settled'[f] # 0 =>
                             \E t \in Slots : /\ AtWork(t, f)'
                                              /\ call'[t].pc \in {"release_provider", "release_mark"}
      BY DEF SettledLater
    <3>1. CASE f = e
      BY <1>3, <3>1
    <3>2. CASE f # e
      <4>1. \A t \in Slots : AtWork(t, f) => AtWork(t, f)' /\ call'[t] = call[t]
        BY <1>3, <2>1, <3>2
      <4> QED BY <1>0, <1>3, <3>2, <4>1 DEF SettledLater
    <3> QED BY <3>1, <3>2
  <2>5. SerialSettledOnce'
    BY <1>0, <1>3 DEF SerialSettledOnce
  <2> QED BY <2>2, <2>3, <2>4, <2>5 DEF SerialInv
<1> USE DEF ReleasePc
<1>4. ASSUME NEW a \in Accounts, NEW x \in Deposits \cup Withdrawals, deposit(a, x) \/ withdraw(a, x)
      PROVE  SerialInv'
  BY <1>1, <1>4 DEF deposit, withdraw
<1>5. ASSUME NEW s \in Slots, NEW a \in Accounts, NEW x \in Withdrawals,
             coordinator_withdraw_select(s, a, x)
      PROVE  SerialInv'
  <2>1. /\ call[s].pc = "idle" /\ UNCHANGED <<escrow_state, settled>>
        /\ call' = [call EXCEPT ![s] = [pc |-> "withdraw_update", id |-> a, amt |-> x]]
    BY <1>5 DEF coordinator_withdraw_select, Start
  <2>2. call'[s].pc = "withdraw_update" /\ \A t \in Slots \ {s} : call'[t] = call[t]
    BY <1>0, <2>1
  <2> QED BY <1>2, <2>1, <2>2 DEF AtWork
<1>6. ASSUME NEW s \in Slots, coordinator_withdraw_update(s) PROVE SerialInv'
  <2>1. /\ call[s].pc = "withdraw_update" /\ UNCHANGED <<escrow_state, settled>>
        /\ call' = [call EXCEPT ![s] = Idle]
    BY <1>6 DEF coordinator_withdraw_update, Finish
  <2>2. call'[s].pc = "idle" /\ \A t \in Slots \ {s} : call'[t] = call[t]
    BY <1>0, <2>1 DEF Idle
  <2> QED BY <1>2, <2>1, <2>2 DEF AtWork
<1>7. ASSUME NEW s \in Slots, abort_call(s) PROVE SerialInv'
  <2>1. /\ call[s].id \notin Serial /\ UNCHANGED <<escrow_state, settled>>
        /\ call' = [call EXCEPT ![s] = Idle]
    BY <1>7 DEF abort_call, Finish, Serial
  <2>2. call'[s].pc = "idle" /\ \A t \in Slots \ {s} : call'[t] = call[t]
    BY <1>0, <2>1 DEF Idle
  <2> QED BY <1>2, <2>1, <2>2 DEF AtWork
<1>8. ASSUME NEW s \in Slots, NEW e \in Escrows, lock_escrow_debit(s, e) PROVE SerialInv'
  <2>1. /\ escrow_state[e] = "none" /\ call[s].pc = "idle"
        /\ \A t \in Slots : ~(call[t].pc = "lock_insert" /\ call[t].id = e)
        /\ UNCHANGED <<escrow_state, settled>>
        /\ call' = [call EXCEPT ![s] = [pc |-> "lock_insert", id |-> e, amt |-> 0]]
    BY <1>8 DEF lock_escrow_debit, Start, Busy
  <2>2. /\ call'[s].pc = "lock_insert" /\ call'[s].id = e
        /\ \A t \in Slots \ {s} : call'[t] = call[t]
    BY <1>0, <2>1
  <2>3. CASE e \in Serial
    <3>1. \A t \in Slots : ~AtWork(t, e)
      BY <1>0, <2>1, <2>3 DEF AtWork, Position
    <3>2. settled[e] = 0
      BY <1>0, <2>1, <2>3 DEF SettledLater
    <3> QED BY <1>3, <2>1, <2>2, <2>3, <3>1, <3>2 DEF AtWork
  <2>4. CASE e \notin Serial
    BY <1>2, <2>1, <2>2, <2>4 DEF AtWork
  <2> QED BY <2>3, <2>4
<1>9. ASSUME NEW s \in Slots, NEW e \in Escrows, NEW cost \in Costs, release_escrow_select(s, e, cost)
      PROVE  SerialInv'
  <2>1. /\ escrow_state[e] = "locked" /\ call[s].pc = "idle"
        /\ e \in Racing \/ \A t \in Slots : ~(call[t].pc \in ReleasePc /\ call[t].id = e)
        /\ UNCHANGED <<escrow_state, settled>>
        /\ call' = [call EXCEPT ![s] = [pc |-> "release_consumer", id |-> e,
                                        amt |-> ActualCost(cost, e)]]
    BY <1>9 DEF release_escrow_select, Overlap, Start, Busy
  <2>2. /\ call'[s].pc = "release_consumer" /\ call'[s].id = e
        /\ \A t \in Slots \ {s} : call'[t] = call[t]
    BY <1>0, <2>1
  <2>3. CASE e \in Serial
    <3>1. \A t \in Slots : ~AtWork(t, e)
      BY <1>0, <2>1, <2>3 DEF AtWork, Position, Serial
    <3>2. settled[e] = 0
      BY <1>0, <2>1, <2>3, <3>1 DEF SettledLater
    <3> QED BY <1>3, <2>1, <2>2, <2>3, <3>1, <3>2 DEF AtWork
  <2>4. CASE e \notin Serial
    BY <1>2, <2>1, <2>2, <2>4 DEF AtWork
  <2> QED BY <2>3, <2>4
\* The remaining statements: one request goes on with its escrow.
<1>10. ASSUME NEW s \in Slots, NEW e \in Escrows, e = call[s].id,
              \A t \in Slots \ {s} : call'[t] = call[t],
              call'[s].pc = "idle" \/ call'[s].id = e,
              call[s].pc \in ReleasePc \cup {"lock_insert"},
              \A f \in Escrows \ {e} : escrow_state'[f] = escrow_state[f] /\ settled'[f] = settled[f],
              e \in Serial =>
                \/ /\ call[s].pc = "lock_insert" /\ call'[s].pc = "idle"
                   /\ escrow_state'[e] = "locked" /\ settled'[e] = settled[e]
                \/ /\ call[s].pc = "release_consumer" /\ call'[s].pc = "release_provider"
                   /\ escrow_state'[e] = escrow_state[e] /\ settled'[e] = settled[e] + 1
                \/ /\ call[s].pc = "release_provider" /\ call'[s].pc = "release_mark"
                   /\ escrow_state'[e] = escrow_state[e] /\ settled'[e] = settled[e]
                \/ /\ call[s].pc = "release_mark" /\ call'[s].pc = "idle"
                   /\ escrow_state'[e] = "released" /\ settled'[e] = settled[e]
      PROVE  SerialInv'
  <2>1. CASE e \in Serial
    <3>1. AtWork(s, e) /\ \A t \in Slots \ {s} : ~AtWork(t, e)
      BY <1>0, <1>10, <2>1 DEF AtWork, OneRequest
    <3>2. \A f \in Serial \ {e} : ~AtWork(s, f) /\ ~AtWork(s, f)'
      BY <1>10 DEF AtWork
    <3>3. /\ call[s].pc \in ReleasePc => escrow_state[e] = "locked"
          /\ call[s].pc = "lock_insert" => escrow_state[e] = "none" /\ settled[e] = 0
          /\ call[s].pc = "release_consumer" => settled[e] = 0
          /\ settled[e] \in Nat /\ settled[e] <= 1
      BY <1>0, <2>1, <3>1 DEF Position, SettledLater, SerialSettledOnce
    <3>4. /\ AtWork(s, e)' => /\ call'[s].pc \in ReleasePc => escrow_state'[e] = "locked"
                              /\ call'[s].pc = "lock_insert" => escrow_state'[e] = "none"
                              /\ call'[s].pc = "release_consumer" => settled'[e] = 0
          /\ escrow_state'[e] = "none" => settled'[e] = 0
          /\ escrow_state'[e] = "locked" /\ settled'[e] # 0 =>
               AtWork(s, e)' /\ call'[s].pc \in {"release_provider", "release_mark"}
          /\ settled'[e] <= 1
      BY <1>10, <2>1, <3>3 DEF AtWork
    <3> QED BY <1>0, <1>3, <1>10, <2>1, <3>1, <3>2, <3>4
  <2>2. CASE e \notin Serial
    BY <1>0, <1>2, <1>10, <2>2 DEF AtWork
  <2> QED BY <2>1, <2>2
<1>11. ASSUME NEW s \in Slots, lock_escrow_insert(s) PROVE SerialInv'
  <2>1. /\ call[s].pc = "lock_insert" /\ call[s].id \in Escrows /\ call' = [call EXCEPT ![s] = Idle]
        /\ escrow_state' = [escrow_state EXCEPT ![call[s].id] = "locked"] /\ UNCHANGED settled
    BY <1>0, <1>11 DEF lock_escrow_insert, Finish
  <2>2. call'[s].pc = "idle" /\ \A t \in Slots \ {s} : call'[t] = call[t]
    BY <1>0, <2>1 DEF Idle
  <2> QED BY <1>0, <1>10, <2>1, <2>2
<1>12. ASSUME NEW s \in Slots, release_escrow_consumer(s) PROVE SerialInv'
  <2>1. /\ call[s].pc = "release_consumer" /\ call[s].id \in Escrows /\ UNCHANGED escrow_state
        /\ call' = [call EXCEPT ![s] = [pc |-> "release_provider", id |-> call[s].id,
                                        amt |-> call[s].amt]]
        /\ settled' = [settled EXCEPT ![call[s].id] = @ + 1]
    BY <1>0, <1>12 DEF release_escrow_consumer, Goto
  <2>2. /\ call'[s].pc = "release_provider" /\ call'[s].id = call[s].id
        /\ \A t \in Slots \ {s} : call'[t] = call[t]
    BY <1>0, <2>1
  <2> QED BY <1>0, <1>10, <2>1, <2>2
<1>13. ASSUME NEW s \in Slots, release_escrow_provider(s) PROVE SerialInv'
  <2>1. /\ call[s].pc = "release_provider" /\ call[s].id \in Escrows
        /\ UNCHANGED <<escrow_state, settled>>
        /\ call' = [call EXCEPT ![s] = [pc |-> "release_mark", id |-> call[s].id,
                                        amt |-> call[s].amt]]
    BY <1>0, <1>13 DEF release_escrow_provider, Goto
  <2>2. /\ call'[s].pc = "release_mark" /\ call'[s].id = call[s].id
        /\ \A t \in Slots \ {s} : call'[t] = call[t]
    BY <1>0, <2>1
  <2> QED BY <1>0, <1>10, <2>1, <2>2
<1>14. ASSUME NEW s \in Slots, release_escrow_mark(s) PROVE SerialInv'
  <2>1. /\ call[s].pc = "release_mark" /\ call[s].id \in Escrows /\ call' = [call EXCEPT ![s] = Idle]
        /\ escrow_state' = [escrow_state EXCEPT ![call[s].id] = "released"] /\ UNCHANGED settled
    BY <1>0, <1>14 DEF release_escrow_mark, Finish
  <2>2. call'[s].pc = "idle" /\ \A t \in Slots \ {s} : call'[t] = call[t]
    BY <1>0, <2>1 DEF Idle
  <2> QED BY <1>0, <1>10, <2>1, <2>2
<1>15. CASE UNCHANGED vars
  BY <1>1, <1>15 DEF vars
<1> QED BY <1>4, <1>5, <1>6, <1>7, <1>8, <1>9, <1>11, <1>12, <1>13, <1>14, <1>15 DEF Next

(* Every settlement beyond the first has an overlap or a failure of its own. *)

\* The releases of e that have not debited the consumer yet.
Waiting(e) ==
  [s \in Slots |-> IF call[s].pc = "release_consumer" /\ call[s].id = e THEN 1 ELSE 0]

\* A locked escrow nobody is releasing has its one regular debit to come.
Regular(e) == IF escrow_state[e] = "locked" /\ ~Busy(e, ReleasePc) THEN 0 ELSE 1

\* An escrow that does not exist yet was not settled; its row is inserted once.
Fresh ==
  \A e \in Escrows :
    /\ escrow_state[e] = "none" => settled[e] = 0 /\ ~Busy(e, ReleasePc)
    /\ Busy(e, {"lock_insert"}) => escrow_state[e] = "none"

OneInsert ==
  \A s, t \in Slots :
    call[s].pc = "lock_insert" /\ call[t].pc = "lock_insert" /\ call[s].id = call[t].id => s = t

Accounted ==
  \A e \in Escrows : settled[e] + Total(Waiting(e), Slots) <= overlaps[e] + stops[e] + Regular(e)

SettleInv == CallInv /\ Fresh /\ OneInsert /\ Accounted

\* The number of waiting releases is a natural number.
LEMMA WaitingNat == \A e \in Escrows : Total(Waiting(e), Slots) \in Nat
<1> SUFFICES ASSUME NEW e \in Escrows PROVE Total(Waiting(e), Slots) \in Nat
  OBVIOUS
<1> DEFINE f == Waiting(e)
<1>1. IsFiniteSet(Slots) /\ \A s \in Slots : f[s] \in Nat
  BY LedgerAssumption DEF Waiting
<1> HIDE DEF f
<1>2. Total(f, Slots) \in Nat
  BY <1>1, TotalNat
<1> QED BY <1>2 DEF f

\* The number of waiting releases changes as one request does.
LEMMA WaitingChange ==
  ASSUME NEW s \in Slots, NEW e \in Escrows, \A t \in Slots \ {s} : call'[t] = call[t]
  PROVE  Total(Waiting(e), Slots)' = Total(Waiting(e), Slots) - Waiting(e)[s] + Waiting(e)'[s]
<1> DEFINE f == Waiting(e)
           g == Waiting(e)'
<1>1. /\ IsFiniteSet(Slots) /\ \A t \in Slots : f[t] \in Int /\ g[t] \in Int
      /\ \A t \in Slots \ {s} : f[t] = g[t]
  BY LedgerAssumption DEF Waiting
<1> HIDE DEF f, g
<1>2. Total(g, Slots) = Total(f, Slots) - f[s] + g[s]
  BY <1>1, TotalChange
<1> QED BY <1>2 DEF f, g

\* A step of request s keeps the account of an escrow's settlements.
LEMMA SettleOne ==
  ASSUME NEW s \in Slots, NEW e \in Escrows, \A t \in Slots \ {s} : call'[t] = call[t],
         CallInv, CallInv', Accounted,
         settled'[e] + Waiting(e)'[s] + overlaps[e] + stops[e] + Regular(e)
           <= settled[e] + Waiting(e)[s] + overlaps'[e] + stops'[e] + Regular(e)'
  PROVE  settled'[e] + Total(Waiting(e), Slots)' <= overlaps'[e] + stops'[e] + Regular(e)'
<1>1. Total(Waiting(e), Slots)' = Total(Waiting(e), Slots) - Waiting(e)[s] + Waiting(e)'[s]
  BY WaitingChange
<1>2. Total(Waiting(e), Slots) \in Int /\ Waiting(e)[s] \in Int /\ Waiting(e)'[s] \in Int
  BY WaitingNat DEF Waiting
<1>3. /\ settled[e] \in Int /\ overlaps[e] \in Int /\ stops[e] \in Int
      /\ settled'[e] \in Int /\ overlaps'[e] \in Int /\ stops'[e] \in Int
  BY DEF CallInv, TypeOK
<1>4. Regular(e) \in Int /\ Regular(e)' \in Int
  BY DEF Regular
<1>5. settled[e] + Total(Waiting(e), Slots) <= overlaps[e] + stops[e] + Regular(e)
  BY DEF Accounted
<1> DEFINE w == Total(Waiting(e), Slots)
           w2 == Total(Waiting(e), Slots)'
           v == Waiting(e)[s]
           v2 == Waiting(e)'[s]
           r == Regular(e)
           r2 == Regular(e)'
<1>6. /\ w2 = w - v + v2 /\ w \in Int /\ v \in Int /\ v2 \in Int /\ r \in Int /\ r2 \in Int
      /\ settled[e] + w <= overlaps[e] + stops[e] + r
      /\ settled'[e] + v2 + overlaps[e] + stops[e] + r <= settled[e] + v + overlaps'[e] + stops'[e] + r2
  BY <1>1, <1>2, <1>4, <1>5
<1> HIDE DEF w, w2, v, v2, r, r2
<1>7. settled'[e] + w2 <= overlaps'[e] + stops'[e] + r2
  BY <1>3, <1>6
<1> QED BY <1>7 DEF w2, r2

\* A step of a request that begins, ends and continues no release of e.
LEMMA ReleasesSame ==
  ASSUME NEW s \in Slots, NEW e \in Escrows, \A t \in Slots \ {s} : call'[t] = call[t],
         ~(call[s].pc \in ReleasePc /\ call[s].id = e), ~(call'[s].pc \in ReleasePc /\ call'[s].id = e)
  PROVE  /\ Busy(e, ReleasePc)' <=> Busy(e, ReleasePc)
         /\ Waiting(e)[s] = 0 /\ Waiting(e)'[s] = 0
BY DEF Busy, Waiting, ReleasePc

\* Every statement keeps the account of settlements.
LEMMA SettleStep == SettleInv /\ [Next]_vars => SettleInv'
<1> SUFFICES ASSUME SettleInv, [Next]_vars PROVE SettleInv'
  OBVIOUS
<1> USE DEF counts
<1>0. /\ CallInv /\ CallInv' /\ Fresh /\ OneInsert /\ Accounted /\ call \in [Slots -> CallType]
      /\ escrow_state \in [Escrows -> {"none", "locked", "released"}]
      /\ settled \in [Escrows -> Nat] /\ overlaps \in [Escrows -> Nat] /\ stops \in [Escrows -> Nat]
      /\ \A s \in Slots : call[s].pc \in ReleasePc \cup {"lock_insert"} => call[s].id \in Escrows
  BY TypeStep DEF SettleInv, CallInv, TypeOK, CallType
<1>1. ASSUME UNCHANGED <<escrow_state, settled, overlaps, stops, call>> PROVE SettleInv'
  <2>1. \A e \in Escrows : /\ Busy(e, ReleasePc)' <=> Busy(e, ReleasePc)
                           /\ Busy(e, {"lock_insert"})' <=> Busy(e, {"lock_insert"})
                           /\ Waiting(e)' = Waiting(e)
    BY <1>1 DEF Busy, Waiting
  <2>2. \A e \in Escrows : Regular(e)' = Regular(e)
    BY <1>1, <2>1 DEF Regular
  <2>3. Accounted'
    BY <1>0, <1>1, <2>1, <2>2 DEF Accounted
  <2>4. Fresh' /\ OneInsert'
    BY <1>0, <1>1, <2>1 DEF Fresh, OneInsert
  <2> QED BY <1>0, <2>3, <2>4 DEF SettleInv
\* A request that is about no release, before and after.
<1>2. ASSUME NEW s \in Slots, \A t \in Slots \ {s} : call'[t] = call[t],
             call[s].pc \notin ReleasePc, call'[s].pc \notin ReleasePc,
             UNCHANGED <<settled, overlaps, stops>>,
             \A e \in Escrows : Regular(e)' = Regular(e)
      PROVE  Accounted'
  <2> SUFFICES ASSUME NEW e \in Escrows
               PROVE  settled'[e] + Total(Waiting(e), Slots)' <= overlaps'[e] + stops'[e] + Regular(e)'
    BY DEF Accounted
  <2>1. Waiting(e)[s] = 0 /\ Waiting(e)'[s] = 0
    BY <1>2, ReleasesSame
  <2>2. /\ Regular(e)' = Regular(e) /\ Regular(e) \in Int
        /\ settled[e] \in Int /\ overlaps[e] \in Int /\ stops[e] \in Int
    BY <1>0, <1>2 DEF Regular
  <2>3. settled'[e] + Waiting(e)'[s] + overlaps[e] + stops[e] + Regular(e)
          <= settled[e] + Waiting(e)[s] + overlaps'[e] + stops'[e] + Regular(e)'
    BY <1>2, <2>1, <2>2
  <2> QED BY <1>0, <1>2, <2>3, SettleOne
<1>3. ASSUME NEW a \in Accounts, NEW x \in Deposits \cup Withdrawals, deposit(a, x) \/ withdraw(a, x)
      PROVE  SettleInv'
  BY <1>1, <1>3 DEF deposit, withdraw
<1>4. ASSUME NEW s \in Slots, \A t \in Slots \ {s} : call'[t] = call[t],
             call[s].pc \notin ReleasePc \cup {"lock_insert"},
             call'[s].pc \notin ReleasePc \cup {"lock_insert"},
             UNCHANGED <<escrow_state, settled, overlaps, stops>>
      PROVE  SettleInv'
  <2>1. \A e \in Escrows : /\ Busy(e, ReleasePc)' <=> Busy(e, ReleasePc)
                           /\ Busy(e, {"lock_insert"})' <=> Busy(e, {"lock_insert"})
    BY <1>4 DEF Busy
  <2>2. \A e \in Escrows : Regular(e)' = Regular(e)
    BY <1>4, <2>1 DEF Regular
  <2>3. Accounted'
    BY <1>2, <1>4, <2>2
  <2>4. Fresh' /\ OneInsert'
    BY <1>0, <1>4, <2>1 DEF Fresh, OneInsert
  <2> QED BY <1>0, <2>3, <2>4 DEF SettleInv
<1>5. ASSUME NEW s \in Slots, NEW a \in Accounts, NEW x \in Withdrawals,
             coordinator_withdraw_select(s, a, x)
      PROVE  SettleInv'
  BY <1>0, <1>4, <1>5 DEF coordinator_withdraw_select, Start, accountVars, ReleasePc
<1>6. ASSUME NEW s \in Slots, coordinator_withdraw_update(s) PROVE SettleInv'
  BY <1>0, <1>4, <1>6 DEF coordinator_withdraw_update, Finish, Idle, ReleasePc
<1>7. ASSUME NEW s \in Slots, NEW e \in Escrows, lock_escrow_debit(s, e) PROVE SettleInv'
  <2>1. /\ call[s].pc = "idle" /\ escrow_state[e] = "none" /\ ~Busy(e, {"lock_insert"})
        /\ call' = [call EXCEPT ![s] = [pc |-> "lock_insert", id |-> e, amt |-> 0]]
        /\ UNCHANGED <<escrow_state, settled, overlaps, stops>>
    BY <1>7 DEF lock_escrow_debit, Start
  <2>2. /\ call'[s].pc = "lock_insert" /\ call'[s].id = e
        /\ \A t \in Slots \ {s} : call'[t] = call[t]
    BY <1>0, <2>1
  <2>3. \A f \in Escrows : Busy(f, ReleasePc)' <=> Busy(f, ReleasePc)
    BY <2>1, <2>2 DEF Busy, ReleasePc
  <2>4. \A f \in Escrows : Regular(f)' = Regular(f)
    BY <2>1, <2>3 DEF Regular
  <2>5. Accounted'
    BY <1>2, <2>1, <2>2, <2>4 DEF ReleasePc
  <2>6. \A f \in Escrows \ {e} : Busy(f, {"lock_insert"})' => Busy(f, {"lock_insert"})
    BY <2>2 DEF Busy
  <2>7. Fresh'
    BY <1>0, <2>1, <2>3, <2>6 DEF Fresh
  <2>8. OneInsert'
    BY <1>0, <2>1, <2>2 DEF OneInsert, Busy
  <2> QED BY <1>0, <2>5, <2>7, <2>8 DEF SettleInv
<1>8. ASSUME NEW s \in Slots, lock_escrow_insert(s) PROVE SettleInv'
  <2>1. PICK e \in Escrows : e = call[s].id
    BY <1>0, <1>8 DEF lock_escrow_insert
  <2>2. /\ call[s].pc = "lock_insert" /\ call' = [call EXCEPT ![s] = Idle]
        /\ escrow_state' = [escrow_state EXCEPT ![e] = "locked"]
        /\ UNCHANGED <<settled, overlaps, stops>>
    BY <1>8, <2>1 DEF lock_escrow_insert, Finish
  <2>3. call'[s].pc = "idle" /\ \A t \in Slots \ {s} : call'[t] = call[t]
    BY <1>0, <2>2 DEF Idle
  <2>4. escrow_state[e] = "none" /\ settled[e] = 0 /\ ~Busy(e, ReleasePc)
    BY <1>0, <2>1, <2>2 DEF Fresh, Busy
  <2>5. \A f \in Escrows : Busy(f, ReleasePc)' <=> Busy(f, ReleasePc)
    BY <2>2, <2>3 DEF Busy, ReleasePc
  <2>6. \A f \in Escrows : Busy(f, {"lock_insert"})' => Busy(f, {"lock_insert"}) /\ f # e
    BY <1>0, <2>1, <2>2, <2>3 DEF Busy, OneInsert
  <2>7. Fresh' /\ OneInsert'
    BY <1>0, <2>2, <2>3, <2>5, <2>6 DEF Fresh, OneInsert
  <2>8. ASSUME NEW f \in Escrows
        PROVE  settled'[f] + Total(Waiting(f), Slots)' <= overlaps'[f] + stops'[f] + Regular(f)'
    <3>1. Waiting(f)[s] = 0 /\ Waiting(f)'[s] = 0
      BY <2>2, <2>3 DEF Waiting
    <3>2. CASE f # e
      <4>1. Regular(f)' = Regular(f) /\ Regular(f) \in Int
        BY <1>0, <2>2, <2>5, <3>2 DEF Regular
      <4>2. settled'[f] + Waiting(f)'[s] + overlaps[f] + stops[f] + Regular(f)
              <= settled[f] + Waiting(f)[s] + overlaps'[f] + stops'[f] + Regular(f)'
        BY <1>0, <2>2, <3>1, <4>1
      <4> QED BY <1>0, <2>3, <4>2, SettleOne
    <3>3. CASE f = e
      <4>1. \A t \in Slots : Waiting(e)'[t] = 0
        BY <2>4, <2>5 DEF Waiting, Busy, ReleasePc
      <4>2. Total(Waiting(e), Slots)' = 0
        <5> DEFINE g == Waiting(e)'
        <5>1. \A t \in Slots : g[t] = 0
          BY <4>1
        <5> HIDE DEF g
        <5>2. Total(g, Slots) = 0
          BY <5>1, LedgerAssumption, TotalZero
        <5> QED BY <5>2 DEF g
      <4>3. Regular(e)' \in {0, 1}
        BY DEF Regular
      <4> QED BY <1>0, <2>2, <2>4, <3>3, <4>2, <4>3
    <3> QED BY <3>2, <3>3
  <2>9. Accounted'
    BY <2>8 DEF Accounted
  <2> QED BY <1>0, <2>7, <2>9 DEF SettleInv
\* A request that works on a release of e before or after its step.
<1>9. ASSUME NEW s \in Slots, NEW e \in Escrows, \A t \in Slots \ {s} : call'[t] = call[t],
             call[s].pc # "lock_insert", call'[s].pc # "lock_insert",
             escrow_state[e] # "none", escrow_state'[e] # "none",
             ~(call[s].pc \in ReleasePc) \/ call[s].id = e,
             ~(call'[s].pc \in ReleasePc) \/ call'[s].id = e,
             \A f \in Escrows \ {e} :
               /\ escrow_state'[f] = escrow_state[f] /\ settled'[f] = settled[f]
               /\ overlaps'[f] = overlaps[f] /\ stops'[f] = stops[f],
             ~Busy(e, {"lock_insert"}),
             settled'[e] + Waiting(e)'[s] + overlaps[e] + stops[e] + Regular(e)
               <= settled[e] + Waiting(e)[s] + overlaps'[e] + stops'[e] + Regular(e)'
      PROVE  SettleInv'
  <2>1. \A f \in Escrows : Busy(f, {"lock_insert"})' <=> Busy(f, {"lock_insert"})
    BY <1>9 DEF Busy
  <2>2. \A f \in Escrows \ {e} : Busy(f, ReleasePc)' <=> Busy(f, ReleasePc)
    BY <1>9 DEF Busy
  <2>3. Fresh'
    BY <1>0, <1>9, <2>1, <2>2 DEF Fresh
  <2>4. OneInsert'
    BY <1>0, <1>9 DEF OneInsert
  <2>5. ASSUME NEW f \in Escrows
        PROVE  settled'[f] + Total(Waiting(f), Slots)' <= overlaps'[f] + stops'[f] + Regular(f)'
    <3>1. CASE f # e
      <4>1. Regular(f)' = Regular(f) /\ Regular(f) \in Int
        BY <1>9, <2>2, <3>1 DEF Regular
      <4>2. Waiting(f)[s] = 0 /\ Waiting(f)'[s] = 0
        BY <1>9, <3>1 DEF Waiting, ReleasePc
      <4>3. settled'[f] + Waiting(f)'[s] + overlaps[f] + stops[f] + Regular(f)
              <= settled[f] + Waiting(f)[s] + overlaps'[f] + stops'[f] + Regular(f)'
        BY <1>0, <1>9, <3>1, <4>1, <4>2
      <4> QED BY <1>0, <1>9, <4>3, SettleOne
    <3>2. CASE f = e
      BY <1>0, <1>9, <3>2, SettleOne
    <3> QED BY <3>1, <3>2
  <2>6. Accounted'
    BY <2>5 DEF Accounted
  <2> QED BY <1>0, <2>3, <2>4, <2>6 DEF SettleInv
<1>10. ASSUME NEW s \in Slots, NEW e \in Escrows, NEW cost \in Costs, release_escrow_select(s, e, cost)
      PROVE  SettleInv'
  <2>1. /\ escrow_state[e] = "locked" /\ call[s].pc = "idle"
        /\ overlaps' = [overlaps EXCEPT ![e] = IF Busy(e, ReleasePc) THEN @ + 1 ELSE @]
        /\ UNCHANGED <<escrow_state, settled, stops>>
        /\ call' = [call EXCEPT ![s] = [pc |-> "release_consumer", id |-> e,
                                        amt |-> ActualCost(cost, e)]]
    BY <1>10 DEF release_escrow_select, Overlap, Start
  <2>2. /\ call'[s].pc = "release_consumer" /\ call'[s].id = e
        /\ \A t \in Slots \ {s} : call'[t] = call[t]
    BY <1>0, <2>1
  <2>3. Waiting(e)[s] = 0 /\ Waiting(e)'[s] = 1
    BY <2>1, <2>2 DEF Waiting
  <2>4. Busy(e, ReleasePc)'
    BY <2>2 DEF Busy, ReleasePc
  <2>5. Regular(e)' = 1 /\ Regular(e) = IF Busy(e, ReleasePc) THEN 1 ELSE 0
    BY <2>1, <2>4 DEF Regular
  <2>6. overlaps'[e] = overlaps[e] + Regular(e) /\ Regular(e) \in Int
    BY <1>0, <2>1, <2>5
  <2>7. settled'[e] + Waiting(e)'[s] + overlaps[e] + stops[e] + Regular(e)
          <= settled[e] + Waiting(e)[s] + overlaps'[e] + stops'[e] + Regular(e)'
    BY <1>0, <2>1, <2>3, <2>5, <2>6
  <2>8. ~Busy(e, {"lock_insert"})
    BY <1>0, <2>1 DEF Fresh
  <2>9. \A f \in Escrows \ {e} : overlaps'[f] = overlaps[f]
    BY <1>0, <2>1
  <2> QED BY <1>9, <2>1, <2>2, <2>7, <2>8, <2>9 DEF ReleasePc
\* The escrow of a release under way exists.
<1>11. ASSUME NEW s \in Slots, call[s].pc \in ReleasePc
       PROVE  /\ call[s].id \in Escrows /\ escrow_state[call[s].id] # "none"
              /\ Busy(call[s].id, ReleasePc) /\ ~Busy(call[s].id, {"lock_insert"})
              /\ Regular(call[s].id) = 1
  <2>1. call[s].id \in Escrows /\ Busy(call[s].id, ReleasePc)
    BY <1>0, <1>11 DEF Busy
  <2> QED BY <1>0, <2>1 DEF Fresh, Regular
<1>12. ASSUME NEW s \in Slots, release_escrow_consumer(s) PROVE SettleInv'
  <2>1. PICK e \in Escrows : e = call[s].id
    BY <1>11, <1>12 DEF release_escrow_consumer, ReleasePc
  <2>2. /\ call[s].pc = "release_consumer" /\ settled' = [settled EXCEPT ![e] = @ + 1]
        /\ call' = [call EXCEPT ![s] = [pc |-> "release_provider", id |-> e, amt |-> call[s].amt]]
        /\ UNCHANGED <<escrow_state, overlaps, stops>>
    BY <1>12, <2>1 DEF release_escrow_consumer, Goto
  <2>3. /\ call'[s].pc = "release_provider" /\ call'[s].id = e
        /\ \A t \in Slots \ {s} : call'[t] = call[t]
    BY <1>0, <2>2
  <2>4. Waiting(e)[s] = 1 /\ Waiting(e)'[s] = 0
    BY <2>1, <2>2, <2>3 DEF Waiting
  <2>5. /\ escrow_state[e] # "none" /\ ~Busy(e, {"lock_insert"})
        /\ Regular(e) = 1 /\ Regular(e)' = 1
    <3>1. Busy(e, ReleasePc)'
      BY <2>3 DEF Busy, ReleasePc
    <3> QED BY <1>11, <2>1, <2>2, <3>1 DEF Regular, ReleasePc
  <2>6. settled'[e] + Waiting(e)'[s] + overlaps[e] + stops[e] + Regular(e)
          <= settled[e] + Waiting(e)[s] + overlaps'[e] + stops'[e] + Regular(e)'
    BY <1>0, <2>2, <2>4, <2>5
  <2>7. \A f \in Escrows \ {e} : settled'[f] = settled[f]
    BY <1>0, <2>2
  <2> QED BY <1>9, <2>1, <2>2, <2>3, <2>5, <2>6, <2>7
<1>13. ASSUME NEW s \in Slots, release_escrow_provider(s) PROVE SettleInv'
  <2>1. PICK e \in Escrows : e = call[s].id
    BY <1>11, <1>13 DEF release_escrow_provider, ReleasePc
  <2>2. /\ call[s].pc = "release_provider"
        /\ call' = [call EXCEPT ![s] = [pc |-> "release_mark", id |-> e, amt |-> call[s].amt]]
        /\ UNCHANGED <<escrow_state, settled, overlaps, stops>>
    BY <1>13, <2>1 DEF release_escrow_provider, Goto
  <2>3. /\ call'[s].pc = "release_mark" /\ call'[s].id = e
        /\ \A t \in Slots \ {s} : call'[t] = call[t]
    BY <1>0, <2>2
  <2>4. Waiting(e)[s] = 0 /\ Waiting(e)'[s] = 0
    BY <2>1, <2>2, <2>3 DEF Waiting
  <2>5. /\ escrow_state[e] # "none" /\ ~Busy(e, {"lock_insert"})
        /\ Regular(e) = 1 /\ Regular(e)' = 1
    <3>1. Busy(e, ReleasePc)'
      BY <2>3 DEF Busy, ReleasePc
    <3> QED BY <1>11, <2>1, <2>2, <3>1 DEF Regular, ReleasePc
  <2>6. settled'[e] + Waiting(e)'[s] + overlaps[e] + stops[e] + Regular(e)
          <= settled[e] + Waiting(e)[s] + overlaps'[e] + stops'[e] + Regular(e)'
    BY <1>0, <2>2, <2>4, <2>5
  <2> QED BY <1>9, <2>1, <2>2, <2>3, <2>5, <2>6
<1>14. ASSUME NEW s \in Slots, release_escrow_mark(s) PROVE SettleInv'
  <2>1. PICK e \in Escrows : e = call[s].id
    BY <1>11, <1>14 DEF release_escrow_mark, ReleasePc
  <2>2. /\ call[s].pc = "release_mark" /\ call' = [call EXCEPT ![s] = Idle]
        /\ escrow_state' = [escrow_state EXCEPT ![e] = "released"]
        /\ UNCHANGED <<settled, overlaps, stops>>
    BY <1>14, <2>1 DEF release_escrow_mark, Finish
  <2>3. call'[s].pc = "idle" /\ \A t \in Slots \ {s} : call'[t] = call[t]
    BY <1>0, <2>2 DEF Idle
  <2>4. Waiting(e)[s] = 0 /\ Waiting(e)'[s] = 0
    BY <2>2, <2>3 DEF Waiting
  <2>5. /\ escrow_state[e] # "none" /\ ~Busy(e, {"lock_insert"})
        /\ escrow_state'[e] = "released" /\ Regular(e) = 1 /\ Regular(e)' = 1
    BY <1>0, <1>11, <2>1, <2>2 DEF Regular, ReleasePc
  <2>6. settled'[e] + Waiting(e)'[s] + overlaps[e] + stops[e] + Regular(e)
          <= settled[e] + Waiting(e)[s] + overlaps'[e] + stops'[e] + Regular(e)'
    BY <1>0, <2>2, <2>4, <2>5
  <2>7. \A f \in Escrows \ {e} : escrow_state'[f] = escrow_state[f]
    BY <1>0, <2>2
  <2> QED BY <1>9, <2>1, <2>2, <2>3, <2>5, <2>6, <2>7 DEF ReleasePc
<1>15. ASSUME NEW s \in Slots, abort_call(s), call[s].pc \in ReleasePc PROVE SettleInv'
  <2>1. PICK e \in Escrows : e = call[s].id
    BY <1>11, <1>15
  <2>2. /\ call' = [call EXCEPT ![s] = Idle] /\ UNCHANGED <<escrow_state, settled, overlaps>>
        /\ stops' = IF call[s].pc = "release_consumer" THEN stops ELSE [stops EXCEPT ![e] = @ + 1]
    BY <1>15, <2>1 DEF abort_call, Finish, ReleasePc
  <2>3. call'[s].pc = "idle" /\ \A t \in Slots \ {s} : call'[t] = call[t]
    BY <1>0, <2>2 DEF Idle
  <2>4. /\ Waiting(e)[s] = IF call[s].pc = "release_consumer" THEN 1 ELSE 0
        /\ Waiting(e)'[s] = 0
    BY <2>1, <2>3 DEF Waiting
  <2>5. escrow_state[e] # "none" /\ ~Busy(e, {"lock_insert"}) /\ Regular(e) = 1
    BY <1>11, <1>15, <2>1
  <2>6. stops'[e] + Waiting(e)[s] = stops[e] + 1 /\ Regular(e)' \in {0, 1}
    BY <1>0, <2>2, <2>4 DEF Regular
  <2>7. settled'[e] + Waiting(e)'[s] + overlaps[e] + stops[e] + Regular(e)
          <= settled[e] + Waiting(e)[s] + overlaps'[e] + stops'[e] + Regular(e)'
    <3>1. stops'[e] \in Int /\ Waiting(e)[s] \in Int
      BY <1>0, <2>2, <2>4
    <3> QED BY <1>0, <2>2, <2>4, <2>5, <2>6, <3>1
  <2>8. \A f \in Escrows \ {e} : stops'[f] = stops[f]
    BY <1>0, <2>2
  <2> QED BY <1>9, <1>15, <2>1, <2>2, <2>3, <2>5, <2>7, <2>8 DEF ReleasePc
<1>16. ASSUME NEW s \in Slots, abort_call(s), call[s].pc \notin ReleasePc PROVE SettleInv'
  <2>1. call' = [call EXCEPT ![s] = Idle] /\ UNCHANGED <<escrow_state, settled, overlaps, stops>>
    BY <1>16 DEF abort_call, Finish, ReleasePc
  <2>2. call'[s].pc = "idle" /\ \A t \in Slots \ {s} : call'[t] = call[t]
    BY <1>0, <2>1 DEF Idle
  <2>3. \A f \in Escrows : /\ Busy(f, ReleasePc)' <=> Busy(f, ReleasePc)
                           /\ Busy(f, {"lock_insert"})' => Busy(f, {"lock_insert"})
    BY <1>16, <2>2 DEF Busy, ReleasePc
  <2>4. \A f \in Escrows : Regular(f)' = Regular(f)
    BY <2>1, <2>3 DEF Regular
  <2>5. Accounted'
    BY <1>2, <1>16, <2>1, <2>2, <2>4 DEF ReleasePc
  <2>6. Fresh' /\ OneInsert'
    BY <1>0, <2>1, <2>2, <2>3 DEF Fresh, OneInsert
  <2> QED BY <1>0, <2>5, <2>6 DEF SettleInv
<1>17. CASE UNCHANGED vars
  BY <1>1, <1>17 DEF vars
<1> QED BY <1>3, <1>5, <1>6, <1>7, <1>8, <1>10, <1>12, <1>13, <1>14, <1>15, <1>16, <1>17 DEF Next

\* However releases race, fail and are retried, each debit of an escrow beyond
\* its first belongs to a release begun while another was under way, or to one
\* that failed after its debit and left the escrow 'locked'.
THEOREM SettlementsAreExplained == Spec => []SettlementsExplained
<1>1. Init => SettleInv
  <2> SUFFICES ASSUME Init PROVE SettleInv
    OBVIOUS
  <2>1. CallInv /\ Fresh /\ OneInsert
    BY DEF Init, CallInv, TypeOK, CallsBounded, Idle, ReleasePc, Fresh, OneInsert, Busy
  <2>2. ASSUME NEW e \in Escrows
        PROVE  settled[e] + Total(Waiting(e), Slots) <= overlaps[e] + stops[e] + Regular(e)
    <3>1. /\ settled[e] = 0 /\ overlaps[e] = 0 /\ stops[e] = 0 /\ Regular(e) = 1
          /\ IsFiniteSet(Slots) /\ \A s \in Slots : Waiting(e)[s] = 0
      BY LedgerAssumption DEF Init, Idle, Regular, Waiting
    <3>2. Total(Waiting(e), Slots) = 0
      BY <3>1, TotalZero
    <3> QED BY <3>1, <3>2
  <2> QED BY <2>1, <2>2 DEF SettleInv, Accounted
<1>2. SettleInv => SettlementsExplained
  <2> SUFFICES ASSUME SettleInv, NEW e \in Escrows PROVE settled[e] <= 1 + overlaps[e] + stops[e]
    BY DEF SettlementsExplained
  <2>1. /\ settled[e] \in Int /\ overlaps[e] \in Int /\ stops[e] \in Int
        /\ settled[e] + Total(Waiting(e), Slots) <= overlaps[e] + stops[e] + Regular(e)
    BY DEF SettleInv, Accounted, CallInv, TypeOK
  <2>2. Total(Waiting(e), Slots) \in Nat /\ Regular(e) \in {0, 1}
    BY WaitingNat DEF Regular
  <2> QED BY <2>1, <2>2
<1> QED BY <1>1, <1>2, SettleStep, PTL DEF Spec

-----------------------------------------------------------------------------
(* Where the money is: sums over accounts and requests *)

MoneyType ==
  /\ \A a \in Accounts : Holdings[a] \in Int
  /\ \A s \in Slots : Owed[s] \in Int
  /\ deposited \in Int /\ withdrawn \in Int /\ fees \in Int /\ stranded \in Int

\* All amounts that the sums add are integers.
LEMMA MoneyTyped == CallInv => MoneyType
<1> SUFFICES ASSUME CallInv PROVE MoneyType
  OBVIOUS
<1>1. /\ TypeOK
      /\ \A s \in Slots : call[s].amt \in Int
  BY DEF CallInv, TypeOK
<1>2. \A s \in Slots : ProviderShare(call[s].amt) \in Int
  BY <1>1, FeePart
<1>3. \A s \in Slots : Owed[s] \in Int
  BY <1>2 DEF Owed
<1> QED BY <1>1, <1>3 DEF MoneyType, TypeOK, Holdings

\* What the accounts hold together changes as one account does.
LEMMA HoldingsChange ==
  ASSUME MoneyType, MoneyType', NEW a \in Accounts, NEW d \in Int,
         \A b \in Accounts \ {a} : Holdings'[b] = Holdings[b],
         Holdings'[a] = Holdings[a] + d
  PROVE  Total(Holdings, Accounts)' = Total(Holdings, Accounts) + d
<1> DEFINE f == Holdings
           g == Holdings'
<1>1. /\ IsFiniteSet(Accounts) /\ \A b \in Accounts : f[b] \in Int /\ g[b] \in Int
      /\ \A b \in Accounts \ {a} : f[b] = g[b]
  BY LedgerAssumption DEF MoneyType
<1>2. f[a] \in Int /\ g[a] = f[a] + d
  BY DEF MoneyType
<1> HIDE DEF f, g
<1>3. Total(g, Accounts) = Total(f, Accounts) - f[a] + g[a]
  BY <1>1, TotalChange
<1>4. Total(f, Accounts) \in Int
  BY <1>1, TotalInt
<1>5. Total(g, Accounts) = Total(f, Accounts) + d
  BY <1>2, <1>3, <1>4
<1> QED BY <1>5 DEF f, g

\* Balances nobody writes have the same sum.
LEMMA HoldingsSame ==
  ASSUME UNCHANGED <<available_nmc, escrowed_nmc>>
  PROVE  Total(Holdings, Accounts)' = Total(Holdings, Accounts)
BY DEF Holdings

\* What requests under way owe together changes as one request does.
LEMMA OwedChange ==
  ASSUME MoneyType, MoneyType', NEW s \in Slots, NEW d \in Int,
         \A t \in Slots \ {s} : call'[t] = call[t], Owed'[s] = Owed[s] + d
  PROVE  Total(Owed, Slots)' = Total(Owed, Slots) + d
<1> DEFINE f == Owed
           g == Owed'
<1>1. /\ IsFiniteSet(Slots) /\ \A t \in Slots : f[t] \in Int /\ g[t] \in Int
      /\ \A t \in Slots \ {s} : f[t] = g[t]
  BY LedgerAssumption DEF MoneyType, Owed
<1>2. f[s] \in Int /\ g[s] = f[s] + d
  BY DEF MoneyType
<1> HIDE DEF f, g
<1>3. Total(g, Slots) = Total(f, Slots) - f[s] + g[s]
  BY <1>1, TotalChange
<1>4. Total(f, Slots) \in Int
  BY <1>1, TotalInt
<1>5. Total(g, Slots) = Total(f, Slots) + d
  BY <1>2, <1>3, <1>4
<1> QED BY <1>5 DEF f, g

\* Requests that do not move owe the same.
LEMMA OwedSame ==
  ASSUME UNCHANGED call
  PROVE  Total(Owed, Slots)' = Total(Owed, Slots)
BY DEF Owed

\* The sums are integers.
LEMMA TotalsInt ==
  ASSUME MoneyType
  PROVE  Total(Holdings, Accounts) \in Int /\ Total(Owed, Slots) \in Int
<1>1. IsFiniteSet(Accounts) /\ \A a \in Accounts : Holdings[a] \in Int
  BY LedgerAssumption DEF MoneyType
<1>2. IsFiniteSet(Slots) /\ \A s \in Slots : Owed[s] \in Int
  BY LedgerAssumption DEF MoneyType
<1> HIDE DEF Holdings, Owed
<1>3. Total(Holdings, Accounts) \in Int
  BY <1>1, TotalInt
<1>4. Total(Owed, Slots) \in Int
  BY <1>2, TotalInt
<1> QED BY <1>3, <1>4

\* Each statement moves what it books: h into accounts, o to requests under way.
LEMMA MoneyBooked ==
  ASSUME MoneyType, MoneyType', MoneyConserved, NEW h \in Int, NEW o \in Int,
         Total(Holdings, Accounts)' = Total(Holdings, Accounts) + h,
         Total(Owed, Slots)' = Total(Owed, Slots) + o,
         deposited' - withdrawn' - fees' - stranded'
           = deposited - withdrawn - fees - stranded + h + o
  PROVE  MoneyConserved'
<1>1. Total(Holdings, Accounts) \in Int /\ Total(Owed, Slots) \in Int
  BY TotalsInt
<1>2. deposited' = Total(Holdings, Accounts)' + withdrawn' + fees' + stranded' + Total(Owed, Slots)'
  BY <1>1 DEF MoneyType, MoneyConserved
<1> QED BY <1>2 DEF MoneyConserved

\* Every statement books what it moves.
LEMMA MoneyStep == CallInv /\ MoneyConserved /\ [Next]_vars => MoneyConserved'
<1> SUFFICES ASSUME CallInv, MoneyConserved, [Next]_vars PROVE MoneyConserved'
  OBVIOUS
<1> USE DEF counts
<1>0. /\ MoneyType /\ MoneyType' /\ TypeOK /\ CallsBounded /\ call \in [Slots -> CallType]
      /\ available_nmc \in [Accounts -> Int] /\ escrowed_nmc \in [Accounts -> Int]
      /\ deposited \in Int /\ withdrawn \in Int /\ fees \in Int /\ stranded \in Int
  <2>1. CallInv'
    BY TypeStep
  <2>2. (CallInv => MoneyType)'
    BY MoneyTyped, PTL
  <2> QED BY <2>1, <2>2, MoneyTyped DEF CallInv, TypeOK, CallType
<1>1. ASSUME NEW a \in Accounts, NEW x \in Deposits, deposit(a, x)
      PROVE  MoneyConserved'
  <2>1. x \in Int /\ Holdings'[a] = Holdings[a] + x /\ \A b \in Accounts \ {a} : Holdings'[b] = Holdings[b]
    BY <1>0, <1>1, LedgerAssumption DEF deposit, Holdings
  <2>2. Total(Holdings, Accounts)' = Total(Holdings, Accounts) + x
    BY <1>0, <2>1, HoldingsChange
  <2>3. /\ Total(Owed, Slots)' = Total(Owed, Slots) /\ deposited' = deposited + x
        /\ UNCHANGED <<withdrawn, fees, stranded>>
    BY <1>1, OwedSame DEF deposit
  <2>4. Total(Owed, Slots)' = Total(Owed, Slots) + 0
    BY <1>0, <2>3, TotalsInt
  <2> QED BY <1>0, <2>1, <2>2, <2>3, <2>4, MoneyBooked
<1>2. ASSUME NEW a \in Accounts, NEW x \in Withdrawals, withdraw(a, x)
      PROVE  MoneyConserved'
  <2>1. /\ x \in Int /\ -x \in Int /\ Holdings'[a] = Holdings[a] + (-x)
        /\ \A b \in Accounts \ {a} : Holdings'[b] = Holdings[b]
    BY <1>0, <1>2, LedgerAssumption DEF withdraw, Holdings
  <2>2. Total(Holdings, Accounts)' = Total(Holdings, Accounts) + (-x)
    BY <1>0, <2>1, HoldingsChange
  <2>3. /\ Total(Owed, Slots)' = Total(Owed, Slots) /\ withdrawn' = withdrawn + x
        /\ UNCHANGED <<deposited, fees, stranded>>
    BY <1>2, OwedSame DEF withdraw
  <2>4. Total(Owed, Slots)' = Total(Owed, Slots) + 0
    BY <1>0, <2>3, TotalsInt
  <2> QED BY <1>0, <2>1, <2>2, <2>3, <2>4, MoneyBooked
\* A request that moves on without owing anything before or after.
<1>3. ASSUME NEW s \in Slots, \A t \in Slots \ {s} : call'[t] = call[t],
             call[s].pc # "release_provider", call'[s].pc # "release_provider"
      PROVE  Total(Owed, Slots)' = Total(Owed, Slots) + 0
  <2>1. Owed'[s] = Owed[s] + 0
    BY <1>3 DEF Owed
  <2> QED BY <1>0, <1>3, <2>1, OwedChange
\* Accounts untouched.
<1>4. ASSUME UNCHANGED <<available_nmc, escrowed_nmc>>
      PROVE  Total(Holdings, Accounts)' = Total(Holdings, Accounts) + 0
  BY <1>0, <1>4, HoldingsSame, TotalsInt
<1>5. ASSUME NEW s \in Slots, NEW a \in Accounts, NEW x \in Withdrawals,
             coordinator_withdraw_select(s, a, x)
      PROVE  MoneyConserved'
  <2>1. /\ call[s].pc = "idle" /\ UNCHANGED <<available_nmc, escrowed_nmc>>
        /\ call' = [call EXCEPT ![s] = [pc |-> "withdraw_update", id |-> a, amt |-> x]]
        /\ UNCHANGED <<deposited, withdrawn, fees, stranded>>
    BY <1>5 DEF coordinator_withdraw_select, Start, accountVars, totals
  <2>2. call'[s].pc = "withdraw_update" /\ \A t \in Slots \ {s} : call'[t] = call[t]
    BY <1>0, <2>1
  <2>3. Total(Owed, Slots)' = Total(Owed, Slots) + 0
    BY <1>3, <2>1, <2>2
  <2> QED BY <1>0, <1>4, <2>1, <2>3, MoneyBooked
<1>6. ASSUME NEW s \in Slots, coordinator_withdraw_update(s) PROVE MoneyConserved'
  <2> DEFINE a == call[s].id
             x == call[s].amt
  <2>1. /\ a \in Accounts /\ x \in Int /\ call[s].pc = "withdraw_update"
        /\ available_nmc' = [available_nmc EXCEPT ![a] = @ - x]
        /\ withdrawn' = withdrawn + x /\ call' = [call EXCEPT ![s] = Idle]
        /\ UNCHANGED <<escrowed_nmc, deposited, fees, stranded>>
    BY <1>0, <1>6 DEF coordinator_withdraw_update, Finish, TypeOK
  <2>2. call'[s].pc = "idle" /\ \A t \in Slots \ {s} : call'[t] = call[t]
    BY <1>0, <2>1 DEF Idle
  <2>3. Total(Owed, Slots)' = Total(Owed, Slots) + 0
    BY <1>3, <2>1, <2>2
  <2> HIDE DEF a, x
  <2>4. /\ -x \in Int /\ Holdings'[a] = Holdings[a] + (-x)
        /\ \A b \in Accounts \ {a} : Holdings'[b] = Holdings[b]
    BY <1>0, <2>1 DEF Holdings
  <2>5. Total(Holdings, Accounts)' = Total(Holdings, Accounts) + (-x)
    BY <1>0, <2>1, <2>4, HoldingsChange
  <2> QED BY <1>0, <2>1, <2>3, <2>4, <2>5, MoneyBooked
<1>7. ASSUME NEW s \in Slots, NEW e \in Escrows, lock_escrow_debit(s, e) PROVE MoneyConserved'
  <2> DEFINE c == Consumer[e]
             x == Locked[e]
  <2>1. /\ c \in Accounts /\ x \in Int /\ call[s].pc = "idle"
        /\ available_nmc' = [available_nmc EXCEPT ![c] = @ - x]
        /\ escrowed_nmc' = [escrowed_nmc EXCEPT ![c] = @ + x]
        /\ call' = [call EXCEPT ![s] = [pc |-> "lock_insert", id |-> e, amt |-> 0]]
        /\ UNCHANGED <<deposited, withdrawn, fees, stranded>>
    BY <1>7, LedgerAssumption DEF lock_escrow_debit, Start, totals
  <2>2. call'[s].pc = "lock_insert" /\ \A t \in Slots \ {s} : call'[t] = call[t]
    BY <1>0, <2>1
  <2>3. Total(Owed, Slots)' = Total(Owed, Slots) + 0
    BY <1>3, <2>1, <2>2
  <2> HIDE DEF c, x
  <2>4. Holdings'[c] = Holdings[c] + 0 /\ \A b \in Accounts \ {c} : Holdings'[b] = Holdings[b]
    BY <1>0, <2>1 DEF Holdings
  <2>5. Total(Holdings, Accounts)' = Total(Holdings, Accounts) + 0
    BY <1>0, <2>1, <2>4, HoldingsChange
  <2> QED BY <1>0, <2>1, <2>3, <2>5, MoneyBooked
<1>8. ASSUME NEW s \in Slots, NEW e \in Escrows, NEW cost \in Costs, release_escrow_select(s, e, cost)
      PROVE  MoneyConserved'
  <2>1. /\ call[s].pc = "idle" /\ UNCHANGED <<available_nmc, escrowed_nmc>>
        /\ call' = [call EXCEPT ![s] = [pc |-> "release_consumer", id |-> e,
                                        amt |-> ActualCost(cost, e)]]
        /\ UNCHANGED <<deposited, withdrawn, fees, stranded>>
    BY <1>8 DEF release_escrow_select, Start, accountVars, totals
  <2>2. call'[s].pc = "release_consumer" /\ \A t \in Slots \ {s} : call'[t] = call[t]
    BY <1>0, <2>1
  <2>3. Total(Owed, Slots)' = Total(Owed, Slots) + 0
    BY <1>3, <2>1, <2>2
  <2> QED BY <1>0, <1>4, <2>1, <2>3, MoneyBooked
<1>9. ASSUME NEW s \in Slots, release_escrow_consumer(s) PROVE MoneyConserved'
  <2> DEFINE e == call[s].id
             c == Consumer[e]
             x == call[s].amt
             fee == PlatformFee(x)
             share == ProviderShare(x)
  <2>1. c \in Accounts /\ x \in Int /\ Locked[e] \in Int /\ fee \in Int /\ share = x - fee
    <3>1. x \in Int /\ e \in Escrows
      BY <1>0, <1>9 DEF release_escrow_consumer, TypeOK, ReleasePc
    <3> QED BY <3>1, FeePart, LedgerAssumption DEF ProviderShare
  <2>2. /\ call[s].pc = "release_consumer"
        /\ call' = [call EXCEPT ![s] = [pc |-> "release_provider", id |-> e, amt |-> x]]
        /\ escrowed_nmc' = [escrowed_nmc EXCEPT ![c] = @ - Locked[e]]
        /\ available_nmc' = [available_nmc EXCEPT ![c] = @ + (Locked[e] - x)]
        /\ fees' = fees + fee /\ UNCHANGED <<deposited, withdrawn, stranded>>
    BY <1>9 DEF release_escrow_consumer, Goto
  <2>3. /\ call'[s].pc = "release_provider" /\ call'[s].amt = x
        /\ \A t \in Slots \ {s} : call'[t] = call[t]
    BY <1>0, <2>2
  <2>4. Owed[s] = 0 /\ Owed'[s] = share
    BY <2>2, <2>3 DEF Owed
  <2> HIDE DEF e, c, x, fee, share
  <2>5. /\ -x \in Int /\ Holdings'[c] = Holdings[c] + (-x)
        /\ \A b \in Accounts \ {c} : Holdings'[b] = Holdings[b]
    BY <1>0, <2>1, <2>2 DEF Holdings
  <2>6. Total(Holdings, Accounts)' = Total(Holdings, Accounts) + (-x)
    BY <1>0, <2>1, <2>5, HoldingsChange
  <2>7. share \in Int /\ Owed'[s] = Owed[s] + share
    BY <2>1, <2>4
  <2>8. Total(Owed, Slots)' = Total(Owed, Slots) + share
    BY <1>0, <2>3, <2>7, OwedChange
  <2>9. deposited' - withdrawn' - fees' - stranded'
          = deposited - withdrawn - fees - stranded + (-x) + share
    BY <1>0, <2>1, <2>2
  <2> QED BY <1>0, <2>5, <2>6, <2>7, <2>8, <2>9, MoneyBooked
<1>10. ASSUME NEW s \in Slots, release_escrow_provider(s) PROVE MoneyConserved'
  <2> DEFINE e == call[s].id
             c == Provider[e]
             x == call[s].amt
             share == ProviderShare(x)
  <2>1. c \in Accounts /\ share \in Int
    <3>1. x \in Int /\ e \in Escrows
      BY <1>0, <1>10 DEF release_escrow_provider, TypeOK, ReleasePc
    <3> QED BY <3>1, FeePart, LedgerAssumption
  <2>2. /\ call[s].pc = "release_provider"
        /\ call' = [call EXCEPT ![s] = [pc |-> "release_mark", id |-> e, amt |-> x]]
        /\ available_nmc' = [available_nmc EXCEPT ![c] = @ + share]
        /\ UNCHANGED <<escrowed_nmc, deposited, withdrawn, fees, stranded>>
    BY <1>10 DEF release_escrow_provider, Goto, totals
  <2>3. call'[s].pc = "release_mark" /\ \A t \in Slots \ {s} : call'[t] = call[t]
    BY <1>0, <2>2
  <2>4. Owed[s] = share /\ Owed'[s] = 0
    BY <2>2, <2>3 DEF Owed
  <2> HIDE DEF e, c, x, share
  <2>5. Holdings'[c] = Holdings[c] + share /\ \A b \in Accounts \ {c} : Holdings'[b] = Holdings[b]
    BY <1>0, <2>1, <2>2 DEF Holdings
  <2>6. Total(Holdings, Accounts)' = Total(Holdings, Accounts) + share
    BY <1>0, <2>1, <2>5, HoldingsChange
  <2>7. -share \in Int /\ Owed'[s] = Owed[s] + (-share)
    BY <2>1, <2>4
  <2>8. Total(Owed, Slots)' = Total(Owed, Slots) + (-share)
    BY <1>0, <2>3, <2>7, OwedChange
  <2>9. deposited' - withdrawn' - fees' - stranded'
          = deposited - withdrawn - fees - stranded + share + (-share)
    BY <1>0, <2>1, <2>2
  <2> QED BY <1>0, <2>1, <2>6, <2>7, <2>8, <2>9, MoneyBooked
<1>11. ASSUME NEW s \in Slots, lock_escrow_insert(s) \/ release_escrow_mark(s) PROVE MoneyConserved'
  <2>1. /\ call[s].pc \in {"lock_insert", "release_mark"} /\ call' = [call EXCEPT ![s] = Idle]
        /\ UNCHANGED <<available_nmc, escrowed_nmc, deposited, withdrawn, fees, stranded>>
    BY <1>11 DEF lock_escrow_insert, release_escrow_mark, Finish, accountVars, totals
  <2>2. call'[s].pc = "idle" /\ \A t \in Slots \ {s} : call'[t] = call[t]
    BY <1>0, <2>1 DEF Idle
  <2>3. Total(Owed, Slots)' = Total(Owed, Slots) + 0
    BY <1>3, <2>1, <2>2
  <2> QED BY <1>0, <1>4, <2>1, <2>3, MoneyBooked
<1>12. ASSUME NEW s \in Slots, abort_call(s) PROVE MoneyConserved'
  <2> DEFINE owed == Owed[s]
  <2>1. /\ call' = [call EXCEPT ![s] = Idle] /\ stranded' = stranded + owed
        /\ UNCHANGED <<available_nmc, escrowed_nmc, deposited, withdrawn, fees>>
    BY <1>12 DEF abort_call, Finish, accountVars, Owed
  <2>2. call'[s].pc = "idle" /\ \A t \in Slots \ {s} : call'[t] = call[t]
    BY <1>0, <2>1 DEF Idle
  <2>3. owed \in Int /\ Owed'[s] = 0
    BY <1>0, <2>2 DEF Owed, MoneyType
  <2>4. -owed \in Int /\ Owed'[s] = Owed[s] + (-owed)
    BY <2>3
  <2>5. Total(Owed, Slots)' = Total(Owed, Slots) + (-owed)
    BY <1>0, <2>2, <2>4, OwedChange
  <2> HIDE DEF owed
  <2>6. deposited' - withdrawn' - fees' - stranded'
          = deposited - withdrawn - fees - stranded + 0 + (-owed)
    BY <1>0, <2>1, <2>3
  <2> QED BY <1>0, <1>4, <2>1, <2>4, <2>5, <2>6, MoneyBooked
<1>13. CASE UNCHANGED vars
  <2>1. UNCHANGED <<available_nmc, escrowed_nmc, call, deposited, withdrawn, fees, stranded>>
    BY <1>13 DEF vars, accountVars, totals
  <2> QED BY <2>1, HoldingsSame, OwedSame DEF MoneyConserved
<1> QED BY <1>1, <1>2, <1>5, <1>6, <1>7, <1>8, <1>9, <1>10, <1>11, <1>12, <1>13 DEF Next

\* Whatever interleaves, races or fails half-way, every credit that came in is
\* in an account, was paid out, kept as fee, or is owed to a provider.
THEOREM MoneyIsConserved == Spec => []MoneyConserved
<1>1. Init => CallInv /\ MoneyConserved
  <2> SUFFICES ASSUME Init PROVE CallInv /\ MoneyConserved
    OBVIOUS
  <2>1. CallInv
    BY DEF Init, CallInv, TypeOK, CallsBounded, Idle, ReleasePc
  <2>2. /\ IsFiniteSet(Accounts) /\ \A a \in Accounts : Holdings[a] = 0
        /\ IsFiniteSet(Slots) /\ \A s \in Slots : Owed[s] = 0
    BY LedgerAssumption DEF Init, Holdings, Owed, Idle
  <2>3. Total(Holdings, Accounts) = 0
    BY <2>2, TotalZero
  <2>4. Total(Owed, Slots) = 0
    BY <2>2, TotalZero
  <2> QED BY <2>1, <2>3, <2>4 DEF Init, MoneyConserved
<1>2. CallInv /\ MoneyConserved /\ [Next]_vars => (CallInv /\ MoneyConserved)'
  BY TypeStep, MoneyStep
<1> QED BY <1>1, <1>2, PTL DEF Spec

-----------------------------------------------------------------------------
(* What accounts have in escrow *)

\* A release that is past its first update has debited the consumer.
Debited ==
  \A s \in Slots : call[s].pc \in {"release_provider", "release_mark"} => settled[call[s].id] # 0

Explained == CallInv /\ SerialInv /\ Debited /\ EscrowExplained

\* A step on one escrow that books what the escrow holds to its consumer.
LEMMA EscrowBooked ==
  ASSUME CallInv, CallInv', EscrowExplained, NEW e \in Escrows,
         \A f \in Escrows \ {e} : Held'[f] = Held[f],
         \A a \in Accounts \ {Consumer[e]} : escrowed_nmc'[a] = escrowed_nmc[a],
         e \in Serial => escrowed_nmc'[Consumer[e]] = escrowed_nmc[Consumer[e]] - Held[e] + Held'[e]
  PROVE  EscrowExplained'
<1> SUFFICES ASSUME NEW a \in Accounts, NEW mine,
                    mine = {i \in Escrows : Consumer[i] = a}, mine \subseteq Serial
             PROVE  escrowed_nmc'[a] = Total(Held', mine)
  BY DEF EscrowExplained
<1> DEFINE f == Held
           g == Held'
<1>1. escrowed_nmc[a] = Total(f, mine)
  BY DEF EscrowExplained
<1>2. IsFiniteSet(mine) /\ \A i \in mine : f[i] \in Int /\ g[i] \in Int
  BY LedgerAssumption, FS_Subset DEF Held
<1>3. CASE a = Consumer[e]
  <2>1. e \in mine /\ \A i \in mine \ {e} : f[i] = g[i]
    BY <1>3
  <2>2. escrowed_nmc'[a] = escrowed_nmc[a] - f[e] + g[e]
    BY <1>3, <2>1
  <2> HIDE DEF f, g
  <2>3. Total(g, mine) = Total(f, mine) - f[e] + g[e]
    BY <1>2, <2>1, TotalChange
  <2>4. escrowed_nmc'[a] = Total(g, mine)
    BY <1>1, <2>2, <2>3
  <2> QED BY <2>4 DEF g
<1>4. CASE a # Consumer[e]
  <2>1. \A i \in mine : g[i] = f[i]
    BY <1>4
  <2>2. escrowed_nmc'[a] = escrowed_nmc[a]
    BY <1>4
  <2> HIDE DEF f, g
  <2>3. Total(g, mine) = Total(f, mine)
    BY <1>2, <2>1, TotalSame
  <2>4. escrowed_nmc'[a] = Total(g, mine)
    BY <1>1, <2>2, <2>3
  <2> QED BY <2>4 DEF g
<1> QED BY <1>3, <1>4

\* A step that leaves alone what any escrow holds.
LEMMA EscrowUntouched ==
  ASSUME CallInv, EscrowExplained, \A f \in Escrows : Held'[f] = Held[f], UNCHANGED escrowed_nmc
  PROVE  EscrowExplained'
<1> SUFFICES ASSUME NEW a \in Accounts, NEW mine,
                    mine = {i \in Escrows : Consumer[i] = a}, mine \subseteq Serial
             PROVE  escrowed_nmc'[a] = Total(Held', mine)
  BY DEF EscrowExplained
<1> DEFINE f == Held
           g == Held'
<1>1. escrowed_nmc[a] = Total(f, mine) /\ escrowed_nmc' = escrowed_nmc
  BY DEF EscrowExplained
<1>2. IsFiniteSet(mine) /\ \A i \in mine : g[i] = f[i]
  BY LedgerAssumption, FS_Subset
<1> HIDE DEF f, g
<1>3. Total(g, mine) = Total(f, mine)
  BY <1>2, TotalSame
<1>4. escrowed_nmc'[a] = Total(g, mine)
  BY <1>1, <1>3
<1> QED BY <1>4 DEF g

\* What escrow f holds changes only with a step of a request that locks it.
LEMMA HeldSame ==
  ASSUME NEW s \in Slots, NEW f \in Escrows, \A t \in Slots \ {s} : call'[t] = call[t],
         call[s].pc = "lock_insert" => call[s].id # f,
         call'[s].pc = "lock_insert" => call'[s].id # f,
         escrow_state'[f] = escrow_state[f], settled'[f] = settled[f]
  PROVE  Held'[f] = Held[f]
<1>1. Busy(f, {"lock_insert"})' <=> Busy(f, {"lock_insert"})
  BY DEF Busy
<1> QED BY <1>1 DEF Held

\* A release past its debit has counted its settlement.
LEMMA DebitedStep == CallInv /\ Debited /\ [Next]_vars => Debited'
<1> SUFFICES ASSUME CallInv, Debited, [Next]_vars PROVE Debited'
  OBVIOUS
<1> USE DEF counts
<1>0. /\ call \in [Slots -> CallType] /\ settled \in [Escrows -> Nat]
      /\ \A s \in Slots : call[s].pc \in ReleasePc => call[s].id \in Escrows
  BY DEF CallInv, TypeOK, CallType
<1>1. ASSUME NEW s \in Slots, \A t \in Slots \ {s} : call'[t] = call[t],
             call'[s].pc \notin {"release_provider", "release_mark"}, UNCHANGED settled
      PROVE  Debited'
  BY <1>1 DEF Debited
<1>2. ASSUME NEW a \in Accounts, NEW x \in Deposits \cup Withdrawals, deposit(a, x) \/ withdraw(a, x)
      PROVE  Debited'
  BY <1>2 DEF deposit, withdraw, Debited
<1>3. ASSUME NEW s \in Slots, NEW a \in Accounts, NEW x \in Withdrawals,
             coordinator_withdraw_select(s, a, x)
      PROVE  Debited'
  BY <1>0, <1>1, <1>3 DEF coordinator_withdraw_select, Start
<1>4. ASSUME NEW s \in Slots, NEW e \in Escrows, lock_escrow_debit(s, e) PROVE Debited'
  BY <1>0, <1>1, <1>4 DEF lock_escrow_debit, Start
<1>5. ASSUME NEW s \in Slots, NEW e \in Escrows, NEW cost \in Costs, release_escrow_select(s, e, cost)
      PROVE  Debited'
  BY <1>0, <1>1, <1>5 DEF release_escrow_select, Start
<1>6. ASSUME NEW s \in Slots,
             \/ coordinator_withdraw_update(s) \/ lock_escrow_insert(s)
             \/ release_escrow_mark(s) \/ abort_call(s)
      PROVE  Debited'
  <2>1. call' = [call EXCEPT ![s] = Idle] /\ UNCHANGED settled
    BY <1>6 DEF coordinator_withdraw_update, lock_escrow_insert, release_escrow_mark, abort_call, Finish
  <2> QED BY <1>0, <1>1, <2>1 DEF Idle
<1>7. ASSUME NEW s \in Slots, release_escrow_consumer(s) PROVE Debited'
  <2>1. /\ call[s].id \in Escrows
        /\ call' = [call EXCEPT ![s] = [pc |-> "release_provider", id |-> call[s].id,
                                        amt |-> call[s].amt]]
        /\ settled' = [settled EXCEPT ![call[s].id] = @ + 1]
    BY <1>0, <1>7 DEF release_escrow_consumer, Goto, ReleasePc
  <2>2. \A e \in Escrows : settled'[e] = settled[e] \/ settled'[e] = settled[e] + 1
    BY <1>0, <2>1
  <2>3. \A e \in Escrows : settled[e] # 0 => settled'[e] # 0
    BY <1>0, <2>2
  <2>4. settled'[call'[s].id] # 0
    BY <1>0, <2>1
  <2> QED BY <1>0, <2>1, <2>3, <2>4 DEF Debited, ReleasePc
<1>8. ASSUME NEW s \in Slots, release_escrow_provider(s) PROVE Debited'
  BY <1>0, <1>8 DEF release_escrow_provider, Goto, Debited
<1>9. CASE UNCHANGED vars
  BY <1>9 DEF vars, Debited
<1> QED BY <1>2, <1>3, <1>4, <1>5, <1>6, <1>7, <1>8, <1>9 DEF Next

\* Every statement keeps escrowed_nmc equal to what the escrows explain.
LEMMA ExplainedStep == Explained /\ [Next]_vars => EscrowExplained'
<1> SUFFICES ASSUME Explained, [Next]_vars PROVE EscrowExplained'
  OBVIOUS
<1> USE DEF counts
<1>0. /\ CallInv /\ CallInv' /\ EscrowExplained /\ Debited
      /\ OneRequest /\ Position /\ SettledLater
  BY TypeStep DEF Explained, SerialInv
<1>00. /\ call \in [Slots -> CallType] /\ escrowed_nmc \in [Accounts -> Int]
       /\ escrow_state \in [Escrows -> {"none", "locked", "released"}]
       /\ settled \in [Escrows -> Nat]
       /\ \A s \in Slots : call[s].pc \in ReleasePc \cup {"lock_insert"} => call[s].id \in Escrows
       /\ \A e \in Escrows : Consumer[e] \in Accounts /\ Locked[e] \in Int
  BY <1>0, LedgerAssumption DEF CallInv, TypeOK, CallType
<1>1. ASSUME UNCHANGED <<escrow_state, settled, call, escrowed_nmc>> PROVE EscrowExplained'
  <2>1. \A f \in Escrows : Held'[f] = Held[f]
    BY <1>1 DEF Held, Busy
  <2> QED BY <1>0, <1>1, <2>1, EscrowUntouched
\* A request that is not about a lock and changes no escrow.
<1>2. ASSUME NEW s \in Slots, \A t \in Slots \ {s} : call'[t] = call[t],
             call[s].pc # "lock_insert", call'[s].pc # "lock_insert",
             UNCHANGED <<escrow_state, settled, escrowed_nmc>>
      PROVE  EscrowExplained'
  <2>1. \A f \in Escrows : Held'[f] = Held[f]
    BY <1>2, HeldSame
  <2> QED BY <1>0, <1>2, <2>1, EscrowUntouched
<1>3. ASSUME NEW a \in Accounts, NEW x \in Deposits \cup Withdrawals, deposit(a, x) \/ withdraw(a, x)
      PROVE  EscrowExplained'
  BY <1>1, <1>3 DEF deposit, withdraw
<1>4. ASSUME NEW s \in Slots, NEW a \in Accounts, NEW x \in Withdrawals,
             coordinator_withdraw_select(s, a, x)
      PROVE  EscrowExplained'
  BY <1>00, <1>2, <1>4 DEF coordinator_withdraw_select, Start, accountVars
<1>5. ASSUME NEW s \in Slots, coordinator_withdraw_update(s) PROVE EscrowExplained'
  BY <1>00, <1>2, <1>5 DEF coordinator_withdraw_update, Finish, Idle
<1>6. ASSUME NEW s \in Slots, NEW e \in Escrows, NEW cost \in Costs, release_escrow_select(s, e, cost)
      PROVE  EscrowExplained'
  BY <1>00, <1>2, <1>6 DEF release_escrow_select, Start, accountVars
<1>7. ASSUME NEW s \in Slots, release_escrow_provider(s) PROVE EscrowExplained'
  BY <1>00, <1>2, <1>7 DEF release_escrow_provider, Goto
\* The requests about escrow e, when s takes a step on it.
<1>8. ASSUME NEW s \in Slots, NEW e \in Serial, AtWork(s, e)
      PROVE  \A t \in Slots \ {s} : ~(call[t].pc = "lock_insert" /\ call[t].id = e)
  BY <1>0, <1>8 DEF OneRequest, AtWork
<1>9. ASSUME NEW s \in Slots, NEW e \in Escrows, lock_escrow_debit(s, e) PROVE EscrowExplained'
  <2>1. /\ call[s].pc = "idle" /\ escrow_state[e] = "none" /\ ~Busy(e, {"lock_insert"})
        /\ escrowed_nmc' = [escrowed_nmc EXCEPT ![Consumer[e]] = @ + Locked[e]]
        /\ call' = [call EXCEPT ![s] = [pc |-> "lock_insert", id |-> e, amt |-> 0]]
        /\ UNCHANGED <<escrow_state, settled>>
    BY <1>9 DEF lock_escrow_debit, Start
  <2>2. /\ call'[s].pc = "lock_insert" /\ call'[s].id = e
        /\ \A t \in Slots \ {s} : call'[t] = call[t]
    BY <1>00, <2>1
  <2>3. \A f \in Escrows \ {e} : Held'[f] = Held[f]
    BY <2>1, <2>2, HeldSame
  <2>4. Held[e] = 0 /\ Held'[e] = Locked[e]
    BY <2>1, <2>2 DEF Held, Busy
  <2>5. escrowed_nmc'[Consumer[e]] = escrowed_nmc[Consumer[e]] - Held[e] + Held'[e]
    BY <1>00, <2>1, <2>4
  <2>6. \A a \in Accounts \ {Consumer[e]} : escrowed_nmc'[a] = escrowed_nmc[a]
    BY <1>00, <2>1
  <2> QED BY <1>0, <2>3, <2>5, <2>6, EscrowBooked
<1>10. ASSUME NEW s \in Slots, lock_escrow_insert(s) PROVE EscrowExplained'
  <2> DEFINE e == call[s].id
  <2>1. /\ call[s].pc = "lock_insert" /\ e \in Escrows /\ call' = [call EXCEPT ![s] = Idle]
        /\ escrow_state' = [escrow_state EXCEPT ![e] = "locked"]
        /\ UNCHANGED <<settled, escrowed_nmc>>
    BY <1>00, <1>10 DEF lock_escrow_insert, Finish, accountVars
  <2>2. call'[s].pc = "idle" /\ \A t \in Slots \ {s} : call'[t] = call[t]
    BY <1>00, <2>1 DEF Idle
  <2>3. \A f \in Escrows \ {e} : Held'[f] = Held[f]
    BY <1>00, <2>1, <2>2, HeldSame
  <2>4. ASSUME e \in Serial PROVE Held[e] = Locked[e] /\ Held'[e] = Locked[e]
    <3>1. AtWork(s, e)
      BY <2>1, <2>4 DEF AtWork
    <3>2. settled[e] = 0
      BY <1>0, <2>1, <2>4, <3>1 DEF Position, SettledLater
    <3>3. Busy(e, {"lock_insert"}) /\ escrow_state'[e] = "locked" /\ settled'[e] = 0
      BY <1>00, <2>1, <3>2 DEF Busy
    <3> QED BY <2>1, <3>3 DEF Held
  <2>5. e \in Serial => escrowed_nmc'[Consumer[e]] = escrowed_nmc[Consumer[e]] - Held[e] + Held'[e]
    BY <1>00, <2>1, <2>4
  <2> QED BY <1>0, <2>1, <2>3, <2>5, EscrowBooked
<1>11. ASSUME NEW s \in Slots, release_escrow_consumer(s) PROVE EscrowExplained'
  <2> DEFINE e == call[s].id
  <2>1. /\ call[s].pc = "release_consumer" /\ e \in Escrows
        /\ call' = [call EXCEPT ![s] = [pc |-> "release_provider", id |-> e, amt |-> call[s].amt]]
        /\ escrowed_nmc' = [escrowed_nmc EXCEPT ![Consumer[e]] = @ - Locked[e]]
        /\ settled' = [settled EXCEPT ![e] = @ + 1] /\ UNCHANGED escrow_state
    BY <1>00, <1>11 DEF release_escrow_consumer, Goto, ReleasePc
  <2>2. call'[s].pc = "release_provider" /\ \A t \in Slots \ {s} : call'[t] = call[t]
    BY <1>00, <2>1
  <2>3. \A f \in Escrows \ {e} : Held'[f] = Held[f]
    BY <1>00, <2>1, <2>2, HeldSame
  <2>4. ASSUME e \in Serial PROVE Held[e] = Locked[e] /\ Held'[e] = 0
    <3>1. AtWork(s, e)
      BY <2>1, <2>4 DEF AtWork, ReleasePc
    <3>2. settled[e] = 0 /\ escrow_state[e] = "locked" /\ settled'[e] # 0
      BY <1>0, <1>00, <2>1, <2>4, <3>1 DEF Position, ReleasePc
    <3>3. \A t \in Slots \ {s} : ~(call[t].pc = "lock_insert" /\ call[t].id = e)
      BY <1>8, <2>4, <3>1
    <3>4. \A t \in Slots : ~(call'[t].pc = "lock_insert" /\ call'[t].id = e)
      BY <2>2, <3>3
    <3>5. \A t \in Slots : ~(call[t].pc = "lock_insert" /\ call[t].id = e)
      BY <2>1, <3>3
    <3> HIDE DEF e
    <3> QED BY <2>1, <3>2, <3>4, <3>5 DEF Held, Busy
  <2>5. e \in Serial => escrowed_nmc'[Consumer[e]] = escrowed_nmc[Consumer[e]] - Held[e] + Held'[e]
    BY <1>00, <2>1, <2>4
  <2>6. \A a \in Accounts \ {Consumer[e]} : escrowed_nmc'[a] = escrowed_nmc[a]
    BY <1>00, <2>1
  <2> QED BY <1>0, <2>1, <2>3, <2>5, <2>6, EscrowBooked
<1>12. ASSUME NEW s \in Slots, release_escrow_mark(s) PROVE EscrowExplained'
  <2> DEFINE e == call[s].id
  <2>1. /\ call[s].pc = "release_mark" /\ e \in Escrows /\ call' = [call EXCEPT ![s] = Idle]
        /\ escrow_state' = [escrow_state EXCEPT ![e] = "released"]
        /\ UNCHANGED <<settled, escrowed_nmc>>
    BY <1>00, <1>12 DEF release_escrow_mark, Finish, accountVars, ReleasePc
  <2>2. call'[s].pc = "idle" /\ \A t \in Slots \ {s} : call'[t] = call[t]
    BY <1>00, <2>1 DEF Idle
  <2>3. \A f \in Escrows \ {e} : Held'[f] = Held[f]
    BY <1>00, <2>1, <2>2, HeldSame
  <2>4. settled[e] # 0 /\ escrow_state'[e] = "released"
    BY <1>0, <1>00, <2>1 DEF Debited
  <2>5. ASSUME e \in Serial PROVE Held[e] = 0 /\ Held'[e] = 0
    <3>1. AtWork(s, e)
      BY <2>1, <2>5 DEF AtWork, ReleasePc
    <3>2. \A t \in Slots \ {s} : ~(call[t].pc = "lock_insert" /\ call[t].id = e)
      BY <1>8, <2>5, <3>1
    <3>3. \A t \in Slots : ~(call[t].pc = "lock_insert" /\ call[t].id = e)
      BY <2>1, <3>2
    <3>4. \A t \in Slots : ~(call'[t].pc = "lock_insert" /\ call'[t].id = e)
      BY <2>2, <3>2
    <3> HIDE DEF e
    <3> QED BY <2>1, <2>4, <3>3, <3>4 DEF Held, Busy
  <2>6. e \in Serial => escrowed_nmc'[Consumer[e]] = escrowed_nmc[Consumer[e]] - Held[e] + Held'[e]
    BY <1>00, <2>1, <2>5
  <2> QED BY <1>0, <2>1, <2>3, <2>6, EscrowBooked
<1>13. ASSUME NEW s \in Slots, abort_call(s) PROVE EscrowExplained'
  <2> DEFINE e == call[s].id
  <2>1. /\ e \notin Serial /\ call' = [call EXCEPT ![s] = Idle]
        /\ UNCHANGED <<escrow_state, settled, escrowed_nmc>>
    BY <1>13 DEF abort_call, Finish, accountVars, Serial
  <2>2. call'[s].pc = "idle" /\ \A t \in Slots \ {s} : call'[t] = call[t]
    BY <1>00, <2>1 DEF Idle
  <2>3. CASE call[s].pc = "lock_insert"
    <3>1. e \in Escrows
      BY <1>00, <2>3
    <3>2. \A f \in Escrows \ {e} : Held'[f] = Held[f]
      BY <2>1, <2>2, <3>1, HeldSame
    <3> QED BY <1>0, <2>1, <3>1, <3>2, EscrowBooked
  <2>4. CASE call[s].pc # "lock_insert"
    BY <1>2, <2>1, <2>2, <2>4
  <2> QED BY <2>3, <2>4
<1>14. CASE UNCHANGED vars
  BY <1>1, <1>14 DEF vars, accountVars
<1> QED BY <1>3, <1>4, <1>5, <1>6, <1>7, <1>9, <1>10, <1>11, <1>12, <1>13, <1>14 DEF Next

\* The escrowed column of an account whose escrows are released one at a time
\* and without failures is the sum of what these escrows hold.
THEOREM EscrowIsExplained == Spec => []EscrowExplained
<1>1. Init => Explained
  <2> SUFFICES ASSUME Init PROVE Explained
    OBVIOUS
  <2>1. CallInv /\ SerialInv /\ Debited
    BY DEF Init, CallInv, TypeOK, CallsBounded, Idle, ReleasePc, SerialInv, OneRequest, Position,
           SettledLater, SerialSettledOnce, AtWork, Serial, Debited
  <2>2. \A e \in Escrows : Held[e] = 0
    BY DEF Init, Held, Busy, Idle
  <2>3. EscrowExplained
    <3> SUFFICES ASSUME NEW a \in Accounts, NEW mine, mine = {i \in Escrows : Consumer[i] = a}
                 PROVE  escrowed_nmc[a] = Total(Held, mine)
      BY DEF EscrowExplained
    <3>1. IsFiniteSet(mine) /\ \A e \in mine : Held[e] = 0
      BY <2>2, LedgerAssumption, FS_Subset
    <3>2. Total(Held, mine) = 0
      BY <3>1, TotalZero
    <3> QED BY <3>2 DEF Init
  <2> QED BY <2>1, <2>3 DEF Explained
<1>2. Explained /\ [Next]_vars => Explained'
  BY TypeStep, SerialStep, DebitedStep, ExplainedStep DEF Explained
<1>3. Explained => EscrowExplained
  BY DEF Explained
<1> QED BY <1>1, <1>2, <1>3, PTL DEF Spec
=============================================================================
