SPECIFICATION FairEngineSpec
CONSTANTS
  a = a
  b = b
  None = None
  Users = {a, b}
  Orders <- SellersAndBuyers
  Requests = {"CancelOrder"}
  FeeDivisions = {2}
  LimitCaps = {2}
  StopCaps = {2}
  Scale = 1
  InitialCoin <- Balances
  InitialBase <- Balances
  MaxOrderId = 3
  MaxBacklog = 3
  CoinIds <- NewCoinIds
  CoinPairs <- AllPairMessages
  FirstPair <- P31
  Transfers <- DepositAndOthers
  EngineRequests = {"CancelAllOrders", "ClearAllEveryonesOpenOrders", "SetConfig"}
  MaxTransfers = 1
  MaxOrders = 2
CHECK_DEADLOCK FALSE
INVARIANTS
  LookupsFindTheirOwn EscrowAcrossMarkets
PROPERTIES
  CancelAllLeavesNothing CancelAllSparesOthers EveryMarketMatches EngineAnswers
