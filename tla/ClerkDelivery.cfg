SPECIFICATION FairSpec
CONSTANTS
  User = {u1}
  Email = {e1, e2}
  NoEmail = NoEmail
  Handler = {h1, h2}
  MaxEvents = 3
  FaultSets = {{"reorder"}, {"crash"}, {"crash", "db", "reject"}}
CHECK_DEADLOCK FALSE
INVARIANTS AckedDeleteEffective Mirrored
PROPERTIES ProfileMonotone UpdateLands
