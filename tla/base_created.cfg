SPECIFICATION Spec
CONSTANTS
  a = a
  b = b
  c = c
  None = None
  Users = {a, b}
  Orders <- LimitWorkload
  Requests = {}
  FeeDivisions = {100}
  LimitCaps = {3}
  StopCaps = {3}
  Scale = 2
  InitialCoin <- Plenty
  InitialBase <- Plenty
  MaxOrderId = 4
  MaxBacklog = 0
CHECK_DEADLOCK FALSE
INVARIANT BaseNeverCreated
