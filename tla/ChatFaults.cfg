SPECIFICATION FairSpec
CONSTANTS
  Conn = {c1, c2}
  MaxTurns = 2
  MaxLen = 2
  Faults = {"team", "save", "kill"}
INVARIANTS TypeOK FilesAgree StateParsesAtRest
PROPERTIES PoisonedForever TurnsEnd
