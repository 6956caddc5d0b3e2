SPECIFICATION FairSpec
CONSTANTS
  alice = alice  bob = bob  oracle = oracle  This = This  NoOne = NoOne
  JobIds = {1, 2}
  Wallets = {alice, bob, oracle}
  Oracles = {oracle}
  Amounts = {20}
  Costs = {13, 30}
  Durations = {1}
  Fees = {800, 2000}
  Collectors = {alice, This, NoOne}
  Funds <- TwoFunded
  MaxTime = 3
INVARIANTS
  PerJobSolvent Solvent
PROPERTIES
  LockedEnds ImplementsEscrow
