SPECIFICATION Spec
CONSTANTS
  User = {u1, u2}
  Email = {e1}
  NoEmail = NoEmail
  Handler = {h1}
  MaxEvents = 2
  FaultSets = {{}}
CHECK_DEADLOCK FALSE
INVARIANTS AckedCreateApplied
