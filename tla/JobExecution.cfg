SPECIFICATION FairSpec
CONSTANTS
  Machines = {"mac", "linux"}
  HasVm = {"mac"}
  HasDmtcp = {"linux"}
  Bundles <- TwoBundles
  Clients = {"cli", "api", "dashboard"}
  ScriptNames = {"main.py"}
  Units = 2
  MaxRestoreAttempts = 1
  MaxCrashes = 1
CHECK_DEADLOCK FALSE
INVARIANTS
  TypeOK CheckpointBacked CompleteMeansRan PushedIsPrinted

  
