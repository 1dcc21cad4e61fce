SPECIFICATION EngineSpec
CONSTANTS
  a = a
  b = b
  None = None
  Users = {a, b}
  Orders <- Sellers
  Requests = {"ClearOpenOrders"}
  FeeDivisions = {2}
  LimitCaps = {2}
  StopCaps = {2}
  Scale = 1
  InitialCoin <- Balances
  InitialBase <- Balances
  MaxOrderId = 3
  MaxBacklog = 3
  CoinIds <- NewCoinIds
  CoinPairs <- AllPairMessages
  FirstPair <- P31
  Transfers <- DepositAndOthers
  EngineRequests = {}
  MaxTransfers = 0
  MaxOrders = 2
CHECK_DEADLOCK FALSE
PROPERTY OtherMarketsStayFunded
