SPECIFICATION Spec
CONSTANTS
  User = {u1, u2}
  Email = {e1}
  NoEmail = NoEmail
  Handler = {h1, h2}
  MaxEvents = 2
  FaultSets = {{"reorder", "timeout", "crash", "db", "reject"}, {"crash"}}
CHECK_DEADLOCK FALSE
SYMMETRY Symmetry
INVARIANTS TypeOK AckedUpdateApplied Mirrored
PROPERTIES ImplementsDirectory DeletedForGood
