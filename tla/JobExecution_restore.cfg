SPECIFICATION FairSpec
CONSTANTS
  Machines = {"mac", "linux"}
  HasVm = {"mac"}
  HasDmtcp = {"linux"}
  Bundles <- OneBundle
  Clients = {"api"}
  ScriptNames = {"main.py"}
  Units = 2
  MaxRestoreAttempts = 1
  MaxCrashes = 1
CHECK_DEADLOCK FALSE
PROPERTIES
  ResumesFromCheckpoint
