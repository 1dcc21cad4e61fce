SPECIFICATION Spec
CONSTANTS
  a = a
  b = b
  c = c
  None = None
  Users = {a, b}
  Orders <- LimitWorkload
  Requests = {}
  FeeDivisions = {2}
  LimitCaps = {2}
  StopCaps = {2}
  Scale = 1
  InitialCoin <- Plenty
  InitialBase <- Plenty
  MaxOrderId = 4
  MaxBacklog = 0
CHECK_DEADLOCK FALSE
INVARIANT CachedOrdersAreOpen
