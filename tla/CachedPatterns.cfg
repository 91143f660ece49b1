SPECIFICATION Spec
CONSTANTS
  UserId = {"u1", "u2"}
  LogId = {"7"}
  Page = {"1"}
  PageSize = {"10"}
  Call <- MCCall
  Depends <- MCDepends
  Touches <- MCTouches
INVARIANT PatternsInvalidate
