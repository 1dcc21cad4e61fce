SPECIFICATION FairSpec
CONSTANTS
  a = a
  b = b
  c = c
  None = None
  Users = {a, b}
  Orders <- MixedWorkload
  Requests = {"CancelOrder", "ClearOpenOrders", "ClearEveryonesOpenOrders", "SetConfig"}
  FeeDivisions = {2}
  LimitCaps = {1, 2}
  StopCaps = {2}
  Scale = 1
  InitialCoin <- Plenty
  InitialBase <- Plenty
  MaxOrderId = 4
  MaxBacklog = 3
CHECK_DEADLOCK FALSE
INVARIANTS
  CacheCoversBooks
PROPERTIES
  ClearsExactlyOwnOrders RefinesMatchingBook EveryMessageAnswered
