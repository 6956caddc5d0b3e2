--------------------------- MODULE LedgerService ---------------------------
(***************************************************************************)
(* The off-chain credit ledger: the handlers of the ledger service         *)
(* (ledger/src/off_chain/handlers.rs) and the coordinator's withdraw       *)
(* endpoint, which works on the same credit_accounts table of the same     *)
(* database.  One step per SQL statement; there are no transactions.  The  *)
(* table of past transactions is only ever listed, and every account has   *)
(* its row.  deposit and withdraw refuse amounts that are not positive;    *)
(* lock_escrow and release_escrow check no sign, so the amount locked and  *)
(* the cost reported may be negative.  A fee is rounded to a whole unit.   *)
(***************************************************************************)
EXTENDS Integers, FiniteSets, Totals

CONSTANTS
  Accounts,    \* account ids, among them '' for an escrow without provider_id
  Escrows,     \* escrow ids
  Slots,       \* requests handled at the same time
  None,        \* escrow and account of an idle slot
  Consumer,    \* Consumer[e], Provider[e], Locked[e]: the body of lock_escrow
  Provider,
  Locked,
  Costs,       \* runtime times price, as reported to release_escrow
  Deposits,    \* amounts deposited
  Withdrawals, \* amounts withdrawn
  MaxDeposits, \* bound on the number of deposits
  MaxSettled,  \* bound on the debits and the overlapping releases of one escrow
  CoordinatorUsers, \* accounts that also withdraw through the coordinator
  Racing,      \* escrows of which two releases may be under way at once
  Failing      \* accounts and escrows whose requests may fail half-way

ASSUME LedgerAssumption ==
  /\ Consumer \in [Escrows -> Accounts] /\ Provider \in [Escrows -> Accounts]
  /\ Locked \in [Escrows -> Int]
  /\ Costs \subseteq Int /\ Deposits \subseteq Nat \ {0} /\ Withdrawals \subseteq Nat \ {0}
  /\ MaxDeposits \in Nat /\ MaxSettled \in Nat
  /\ CoordinatorUsers \subseteq Accounts
  /\ None \notin Accounts \cup Escrows
  /\ IsFiniteSet(Accounts) /\ IsFiniteSet(Escrows) /\ IsFiniteSet(Slots)

VARIABLES
  available_nmc, escrowed_nmc,   \* table credit_accounts
  escrow_state,                  \* table escrows
  call,                          \* requests under way
  settled,                       \* history: times the consumer was debited for an escrow
  overlaps,                      \* history: its releases begun while one was under way
  stops,                         \* history: its releases that failed after the debit
  charged,                       \* history: what negative shares took from an account
  deposited, deposits, withdrawn, fees, \* history: totals
  stranded                       \* history: what failed releases owe to providers

accountVars == <<available_nmc, escrowed_nmc>>
totals      == <<deposited, deposits, withdrawn, fees, stranded>>
counts      == <<settled, overlaps, stops, charged>>
vars == <<accountVars, escrow_state, call, counts, totals>>

Idle == [pc |-> "idle", id |-> None, amt |-> 0]

ReleasePc == {"release_consumer", "release_provider", "release_mark"}

TypeOK ==
  /\ available_nmc \in [Accounts -> Int]
  /\ escrowed_nmc \in [Accounts -> Int]
  /\ escrow_state \in [Escrows -> {"none", "locked", "released"}]
  /\ call \in [Slots -> [pc : {"idle", "lock_insert", "withdraw_update"} \cup ReleasePc,
                         id : Accounts \cup Escrows \cup {None}, amt : Int]]
  /\ \A s \in Slots : /\ call[s].pc \in ReleasePc \cup {"lock_insert"} => call[s].id \in Escrows
                      /\ call[s].pc = "withdraw_update" => call[s].id \in Accounts
  /\ settled \in [Escrows -> Nat] /\ overlaps \in [Escrows -> Nat] /\ stops \in [Escrows -> Nat]
  /\ charged \in [Accounts -> Nat]
  /\ deposited \in Nat /\ deposits \in Nat /\ withdrawn \in Nat
  /\ fees \in Int /\ stranded \in Int

Init ==
  /\ available_nmc = [a \in Accounts |-> 0]
  /\ escrowed_nmc = [a \in Accounts |-> 0]
  /\ escrow_state = [e \in Escrows |-> "none"]
  /\ call = [s \in Slots |-> Idle]
  /\ settled = [e \in Escrows |-> 0]
  /\ overlaps = [e \in Escrows |-> 0]
  /\ stops = [e \in Escrows |-> 0]
  /\ charged = [a \in Accounts |-> 0]
  /\ deposited = 0 /\ deposits = 0 /\ withdrawn = 0 /\ fees = 0 /\ stranded = 0

Start(s, next, i, x) ==
  /\ call[s].pc = "idle"
  /\ call' = [call EXCEPT ![s] = [pc |-> next, id |-> i, amt |-> x]]

Goto(s, next) == call' = [call EXCEPT ![s] = [pc |-> next, id |-> call[s].id, amt |-> call[s].amt]]
Finish(s) == call' = [call EXCEPT ![s] = Idle]

\* A request about escrow e is under way.
Busy(e, pcs) == \E s \in Slots : call[s].pc \in pcs /\ call[s].id = e

-----------------------------------------------------------------------------
(* deposit and withdraw: one statement each, before the log entry *)

deposit(a, x) ==
  /\ deposits < MaxDeposits
  /\ available_nmc' = [available_nmc EXCEPT ![a] = @ + x]
  /\ deposited' = deposited + x /\ deposits' = deposits + 1
  /\ UNCHANGED <<escrowed_nmc, escrow_state, call, counts, withdrawn, fees, stranded>>

\* UPDATE ... WHERE account_id = a AND available_nmc >= x.
withdraw(a, x) ==
  /\ available_nmc[a] >= x
  /\ available_nmc' = [available_nmc EXCEPT ![a] = @ - x]
  /\ withdrawn' = withdrawn + x
  /\ UNCHANGED <<escrowed_nmc, escrow_state, call, counts, deposited, deposits, fees, stranded>>

\* The coordinator's withdraw: SELECT and test, then UPDATE without a test.
coordinator_withdraw_select(s, a, x) ==
  /\ a \in CoordinatorUsers
  /\ available_nmc[a] >= x
  /\ Start(s, "withdraw_update", a, x)
  /\ UNCHANGED <<accountVars, escrow_state, counts, totals>>

coordinator_withdraw_update(s) ==
  /\ call[s].pc = "withdraw_update"
  /\ available_nmc' = [available_nmc EXCEPT ![call[s].id] = @ - call[s].amt]
  /\ withdrawn' = withdrawn + call[s].amt
  /\ Finish(s)
  /\ UNCHANGED <<escrowed_nmc, escrow_state, counts, deposited, deposits, fees, stranded>>

-----------------------------------------------------------------------------
(* lock_escrow; the escrow id is a fresh UUID *)

lock_escrow_debit(s, e) ==
  /\ escrow_state[e] = "none" /\ ~Busy(e, {"lock_insert"})
  /\ available_nmc[Consumer[e]] >= Locked[e]
  /\ available_nmc' = [available_nmc EXCEPT ![Consumer[e]] = @ - Locked[e]]
  /\ escrowed_nmc' = [escrowed_nmc EXCEPT ![Consumer[e]] = @ + Locked[e]]
  /\ Start(s, "lock_insert", e, 0)
  /\ UNCHANGED <<escrow_state, counts, totals>>

lock_escrow_insert(s) ==
  /\ call[s].pc = "lock_insert"
  /\ escrow_state' = [escrow_state EXCEPT ![call[s].id] = "locked"]
  /\ Finish(s)
  /\ UNCHANGED <<accountVars, counts, totals>>

-----------------------------------------------------------------------------
(* release_escrow *)

\* Mutant: no .min(locked).
ActualCost_uncapped(cost, e) == cost

ActualCost(cost, e) == IF cost <= Locked[e] THEN cost ELSE Locked[e]
PlatformFee(cost)   == (cost * 8) \div 100
ProviderShare(cost) == cost - PlatformFee(cost)

\* The count of overlapping releases, and the bounds.
Overlap(e) ==
  /\ settled[e] + overlaps[e] < MaxSettled
  /\ e \in Racing \/ ~Busy(e, ReleasePc)
  /\ overlaps' = [overlaps EXCEPT ![e] = IF Busy(e, ReleasePc) THEN @ + 1 ELSE @]

\* Mutant: a settled escrow is not refused.
release_escrow_select_any(s, e, cost) ==
  /\ escrow_state[e] \in {"locked", "released"} /\ Overlap(e)
  /\ Start(s, "release_consumer", e, ActualCost(cost, e))
  /\ UNCHANGED <<accountVars, escrow_state, settled, stops, charged, totals>>

\* SELECT ... WHERE escrow_id = e AND state = 'locked'.
release_escrow_select(s, e, cost) ==
  /\ escrow_state[e] = "locked" /\ Overlap(e)
  /\ Start(s, "release_consumer", e, ActualCost(cost, e))
  /\ UNCHANGED <<accountVars, escrow_state, settled, stops, charged, totals>>

\* Mutant: the consumer is refunded the actual cost instead of the rest.
release_escrow_consumer_swapped(s) ==
  /\ call[s].pc = "release_consumer"
  /\ LET e == call[s].id
         c == Consumer[e] IN
       /\ escrowed_nmc' = [escrowed_nmc EXCEPT ![c] = @ - Locked[e]]
       /\ available_nmc' = [available_nmc EXCEPT ![c] = @ + call[s].amt]
       /\ settled' = [settled EXCEPT ![e] = @ + 1]
  /\ fees' = fees + PlatformFee(call[s].amt)
  /\ Goto(s, "release_provider")
  /\ UNCHANGED <<escrow_state, overlaps, stops, charged, deposited, deposits, withdrawn, stranded>>

\* The consumer's escrow goes down by the locked amount; the rest is refunded.
release_escrow_consumer(s) ==
  /\ call[s].pc = "release_consumer"
  /\ LET e == call[s].id
         c == Consumer[e] IN
       /\ escrowed_nmc' = [escrowed_nmc EXCEPT ![c] = @ - Locked[e]]
       /\ available_nmc' = [available_nmc EXCEPT ![c] = @ + (Locked[e] - call[s].amt)]
       /\ settled' = [settled EXCEPT ![e] = @ + 1]
  /\ fees' = fees + PlatformFee(call[s].amt)
  /\ Goto(s, "release_provider")
  /\ UNCHANGED <<escrow_state, overlaps, stops, charged, deposited, deposits, withdrawn, stranded>>

\* The share is added without a test, a negative one included.
release_escrow_provider(s) ==
  /\ call[s].pc = "release_provider"
  /\ LET share == ProviderShare(call[s].amt)
         p     == Provider[call[s].id] IN
       /\ available_nmc' = [available_nmc EXCEPT ![p] = @ + share]
       /\ charged' = [charged EXCEPT ![p] = IF share < 0 THEN @ - share ELSE @]
  /\ Goto(s, "release_mark")
  /\ UNCHANGED <<escrowed_nmc, escrow_state, settled, overlaps, stops, totals>>

release_escrow_mark(s) ==
  /\ call[s].pc = "release_mark"
  /\ escrow_state' = [escrow_state EXCEPT ![call[s].id] = "released"]
  /\ Finish(s)
  /\ UNCHANGED <<accountVars, counts, totals>>

\* A statement fails or the client disconnects: what was executed stays.
abort_call(s) ==
  /\ call[s].pc # "idle" /\ call[s].id \in Failing
  /\ Finish(s)
  /\ stranded' = stranded + (IF call[s].pc = "release_provider" THEN ProviderShare(call[s].amt) ELSE 0)
  /\ stops' = IF call[s].pc \in {"release_provider", "release_mark"}
              THEN [stops EXCEPT ![call[s].id] = @ + 1] ELSE stops
  /\ UNCHANGED <<accountVars, escrow_state, settled, overlaps, charged,
                 deposited, deposits, withdrawn, fees>>

Next ==
  \/ \E a \in Accounts :
       \/ \E x \in Deposits : deposit(a, x)
       \/ \E x \in Withdrawals : withdraw(a, x)
  \/ \E s \in Slots :
       \/ \E a \in Accounts, x \in Withdrawals : coordinator_withdraw_select(s, a, x)
       \/ \E e \in Escrows : \/ lock_escrow_debit(s, e)
                             \/ \E cost \in Costs : release_escrow_select(s, e, cost)
       \/ coordinator_withdraw_update(s) \/ lock_escrow_insert(s)
       \/ release_escrow_consumer(s) \/ release_escrow_provider(s) \/ release_escrow_mark(s)
       \/ abort_call(s)

Spec == Init /\ [][Next]_vars

-----------------------------------------------------------------------------
(* Properties *)

\* "Atomic debit (fails if insufficient balance)" (handlers.rs withdraw): no
\* interleaving of withdrawals, locks and releases, racing and failing ones
\* included, takes an account that uses the ledger's endpoints only below
\* zero, but for what releases at a negative price took from it as a provider.
OverdraftExplained ==
  \A a \in Accounts \ CoordinatorUsers : available_nmc[a] + charged[a] >= 0

\* Escrows whose releases come one at a time and do not fail.
Serial == Escrows \ (Racing \cup Failing)

\* What an escrow holds: it is locked and not settled, or just being locked.
Held ==
  [e \in Escrows |->
     IF (escrow_state[e] = "locked" /\ settled[e] = 0) \/ Busy(e, {"lock_insert"})
     THEN Locked[e] ELSE 0]

\* The escrowed_nmc of an account with serial escrows only is what its locked
\* escrows hold, give or take the requests between two of their statements
\* (handlers.rs lock_escrow, release_escrow).
EscrowExplained ==
  \A a \in Accounts :
    LET mine == {e \in Escrows : Consumer[e] = a} IN
    mine \subseteq Serial => escrowed_nmc[a] = Total(Held, mine)

Holdings == [a \in Accounts |-> available_nmc[a] + escrowed_nmc[a]]

\* The provider's share of a release between its two account updates.
Owed ==
  [s \in Slots |-> IF call[s].pc = "release_provider" THEN ProviderShare(call[s].amt) ELSE 0]

\* What was deposited is in the accounts, was withdrawn, was kept as the
\* platform's fee, is on its way to a provider or was to go there when a
\* release failed: whatever races or fails, nothing else is created or lost.
MoneyConserved ==
  deposited = Total(Holdings, Accounts) + withdrawn + fees + stranded + Total(Owed, Slots)

\* However releases of an escrow race and fail: the consumer is debited once,
\* and once more at most for each release that began while another one was
\* under way and for each that failed after its debit (release_escrow reads
\* the state first, writes it last and is retried while it is 'locked').
SettlementsExplained == \A e \in Escrows : settled[e] <= 1 + overlaps[e] + stops[e]
=============================================================================
