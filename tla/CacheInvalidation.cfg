SPECIFICATION Spec
CONSTANTS
  item = item
  user_items = user_items
  other_items = other_items
  update_item = update_item
  touch_user = touch_user
  Key <- MCKey
  Op <- MCOp
  Own <- MCOwn
  Extra <- MCExtra
  Matched <- MCMatched
  Affects <- MCAffects
  Reader = {r1}
  Writer = {w1, w2}
  Expiration = 1
  MaxLatency = 0
  Aborts = TRUE
  MaxWrites = 2
  MaxTime = 1
SYMMETRY Symmetry
INVARIANTS TypeOK StaleHasCause
