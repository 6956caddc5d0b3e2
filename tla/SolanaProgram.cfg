SPECIFICATION Spec
CONSTANTS
  j1 = j1  j2 = j2  w1 = w1  w2 = w2  p1 = p1  NoOne = NoOne
  JobIds = {j1, j2}
  Wallets = {w1, w2}
  Providers = {p1}
  Collectors = {w1, w2}
  Amounts = {20}
  Costs = {10, 20, 30}
  Fees = {1000, 2000}
  Limits = {20}
  MaxNonce = 1
  MAX_U64 = 19999
SYMMETRY Symmetry
INVARIANTS
  MintedOnceInOrder SupplyTracked VaultCovers OneNft
PROPERTIES
  ImplementsEscrow
