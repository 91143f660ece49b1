SPECIFICATION Spec
CONSTANTS
  Conn = {c1}
  MaxTurns = 2
  MaxLen = 1
  Faults = {}
PROPERTIES HistoryIsLoaded
