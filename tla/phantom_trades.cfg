SPECIFICATION Spec
CONSTANTS
  a = a
  b = b
  c = c
  None = None
  Users = {a, b}
  Orders <- LimitWorkload
  Requests = {}
  FeeDivisions = {2}
  LimitCaps = {3}
  StopCaps = {3}
  Scale = 1
  InitialCoin <- Plenty
  InitialBase <- Plenty
  MaxOrderId = 5
  MaxBacklog = 4
CHECK_DEADLOCK FALSE
INVARIANT TradesReportedOnce
