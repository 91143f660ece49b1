SPECIFICATION Spec
CONSTANTS
  Worker = {w1, w2}
  Script = {s1}
  admin_address = admin_address
  AdminEmail = admin_address
  Account <- MCAccount
  MaxCrashes = 0
  MaxCommands = 0
  Environments <- AllEnvironments
  Engines <- AllEngines
  InitialStamps = {0}
CHECK_DEADLOCK FALSE
INVARIANT EveryEnvironmentStarts
