SPECIFICATION ClientSpec
CONSTANTS
  item = item
  user_items = user_items
  other_items = other_items
  update_item = update_item
  touch_user = touch_user
  Key <- OneKey
  Op <- OneOp
  Own <- UpdateOwn
  Extra <- UpdateExtra
  Matched <- UpdateExtra
  Affects <- UpdateAffects
  Reader = {r1, r2, r3}
  Writer = {w1}
  Expiration = 2
  MaxLatency = 2
  Aborts = FALSE
  MaxWrites = 1
  MaxTime = 8
  MaxAge = 1
SYMMETRY Symmetry
INVARIANTS TTLMissingOnlyInFill BoundedStaleness CopiesBounded
