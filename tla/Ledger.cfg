SPECIFICATION Spec
CHECK_DEADLOCK FALSE
CONSTANTS
  alice = alice  bob = bob  e1 = e1  e2 = e2  e3 = e3  s1 = s1  s2 = s2  None = None
  Accounts = {alice, bob}
  Escrows = {e1, e2, e3}
  Slots = {s1, s2}
  Consumer <- MCConsumer
  Provider <- MCProvider
  Locked <- MCLocked
  Costs <- MCCosts
  Deposits = {100}
  Withdrawals = {40}
  MaxDeposits = 2
  MaxSettled = 2
  CoordinatorUsers = {bob}
  Racing = {e2}
  Failing = {bob, e2}
SYMMETRY Symmetry
INVARIANTS
  OverdraftExplained EscrowExplained MoneyConserved SettlementsExplained
