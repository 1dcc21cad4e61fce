SPECIFICATION Spec
CONSTANTS
  a = a
  b = b
  c = c
  None = None
  Users = {a, b}
  Orders <- LimitWorkload
  Requests = {}
  FeeDivisions = {2}
  LimitCaps = {2}
  StopCaps = {2}
  Scale = 2
  InitialCoin <- Scarce
  InitialBase <- Short
  MaxOrderId = 5
  MaxBacklog = 6
CHECK_DEADLOCK FALSE
INVARIANTS
  TypeOK BookNotCrossed MakersPayTrades CoinSolvent CoinNeverCreated MarketBuyAffordable
