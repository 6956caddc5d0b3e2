SPECIFICATION FairSpec
CONSTANTS
  Keys = {"k1", "k2"}
  Fingerprints = {"f1", "f2"}
  Sessions = {"x1"}
  Payer <- SamePayer
  Amount <- Amounts
  Registrants <- OneOwner
  Secrets = {"", "secret"}
  Slots = {1, 2}
  MaxDeliveries = 2
  MaxErrors = 1
  MaxReports = 2
INVARIANTS
  BalanceShown RateInRange
PROPERTIES
  DeviceStays PaidIsCredited
