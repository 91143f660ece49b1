SPECIFICATION FairSpec
CONSTANTS
  Worker = {w1, w2}
  Script = {s1}
  admin_address = admin_address
  AdminEmail = admin_address
  Account <- MCAccount
  MaxCrashes = 1
  MaxCommands = 1
  Environments <- AllEnvironments
  Engines <- AllEngines
  InitialStamps <- AllStamps
CHECK_DEADLOCK FALSE
INVARIANTS TypeOK ServesOverTables StampTellsSchema OneAccountPerAddress
PROPERTIES AccountsSurvive WorkersComeUp
