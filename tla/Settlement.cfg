SPECIFICATION SettlementSpec
CONSTANTS
  alice = alice  bob = bob  oracle = oracle  This = This  NoOne = NoOne  t1 = t1  t2 = t2
  JobIds = {1, 2}
  Wallets = {alice, oracle}
  Oracles = {oracle}
  Oracle = oracle
  Amounts = {20}
  Costs = {10, 30}
  Durations = {0}
  Fees = {1000}
  Collectors = {alice}
  Funds <- OneConsumer
  MaxTime = 2
  Tasks = {t1, t2}
  Halves = {1, 3}
  Deployments <- AllDeployments
  FirstNonce = 127
  MaxNonce = 129
  StrictNode = FALSE
  JobName <- Names
  UNIT = 20
  MAX_U128 = 1000
  WORD = 32
  EscrowAddress <- Address
  Signatures <- Sigs
SYMMETRY Symmetry
INVARIANTS
  SettlementTypeOK TrueReport SentAsMeant OnePending
