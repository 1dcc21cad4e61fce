SPECIFICATION Spec
CONSTANTS
  a = a
  b = b
  c = c
  None = None
  Users = {a, b, c}
  Orders <- StopWorkload
  Requests = {}
  FeeDivisions = {2}
  LimitCaps = {3}
  StopCaps = {1}
  Scale = 1
  InitialCoin <- Plenty
  InitialBase <- Plenty
  MaxOrderId = 5
  MaxBacklog = 0
CHECK_DEADLOCK FALSE
INVARIANT StopCapRespected
