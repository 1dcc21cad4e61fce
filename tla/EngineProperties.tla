-------------------------- MODULE EngineProperties --------------------------
(***************************************************************************)
(* What is claimed about module TradingEngine.                             *)
(***************************************************************************)
EXTENDS TradingEngine, MarketProperties

-----------------------------------------------------------------------------
(* Lookups *)

StrictlySorted(ids) == \A i, j \in 1 .. Len(ids) : i < j => ids[i] < ids[j]

\* GetMarket and GetWallet do not look whether what lower_bound returns is what
\* was asked for.  It is, for every market and coin that exists, in whatever
\* order they were created: the vectors stay sorted and hold no id twice.
LookupsFindTheirOwn ==
  /\ \A i \in DOMAIN walletIds : GetWallet(walletIds[i]) = walletIds[i]
  /\ \A p \in Existing : GetMarket(p) = p
  /\ StrictlySorted(walletIds)
  /\ \A id \in DOMAIN marketsMap : StrictlySorted(marketsMap[id])

-----------------------------------------------------------------------------
(* Wallets shared by markets *)

SellsIn(p, u) ==
  QuantityOf(u, MarketAt(p).limits["Sell"]) + QuantityOf(u, MarketAt(p).stops["Sell"])

\* Coins no market pays with: their wallets hold what is offered for sale.
SoldOnly == {p.coin : p \in Existing} \ {p.base : p \in Existing}

HeldInMarkets(c, u, pairs) ==
  TotalOver(AllPairs, [p \in AllPairs |-> IF p \in pairs /\ p.coin = c THEN SellsIn(p, u) ELSE 0])

\* Between messages exactly the coin a user offers for sale in all the markets
\* of the coin is in order, so the same coin is not promised in two of them:
\* through orders, cancellations and CancelAllOrders that succeed.
EscrowAcrossMarkets ==
  EngineIdle =>
    \A c \in SoldOnly, u \in Users \ adjusted :
      WalletAt(c)[u].inOrder = HeldInMarkets(c, u, Existing)

\* "Confirm wallets are unchanged" (CompareOtherMarket, test_trading_engine.cpp):
\* when ClearOpenOrders of one market succeeds, the coin that is offered in the
\* other markets is still in order.
OtherMarketsStayFunded ==
  [][phase = "cancel" /\ sweep = None /\ reply' = "ok" =>
       \A c \in SoldOnly, u \in Users :
         WalletAt(c)[u].inOrder >= HeldInMarkets(c, u, Existing \ {current.market})]_allVars

-----------------------------------------------------------------------------
(* CancelAllOrders *)

OrdersIn(p, u) ==
  [s \in Sides |-> <<OwnedBy(u, MarketAt(p).limits[s]), OwnedBy(u, MarketAt(p).stops[s])>>]

NoneOpen == [s \in Sides |-> << <<>>, <<>> >>]

\* When CancelAllOrders succeeds the user has no order left in any market, and
\* nothing in order in any of their wallets.
CancelAllLeavesNothing ==
  [][sweep # None /\ sweep' = None /\ reply' = "ok" =>
       \A p \in Existing :
         /\ OrdersIn(p, sweep.user) = NoneOpen
         /\ \A c \in {p.coin, p.base} : WalletAt(c)[sweep.user].inOrder = 0]_allVars

\* While it is at work, and when it fails half way, it does not touch an order
\* or a balance of anybody else in any market.
CancelAllSparesOthers ==
  [][sweep # None =>
       \A u \in Users \ {sweep.user} :
         /\ \A p \in Existing : OrdersIn(p, u)' = OrdersIn(p, u)
         /\ \A c \in AllCoins : AllWallets[c] # None => AllWallets'[c][u] = AllWallets[c][u]]_allVars

-----------------------------------------------------------------------------
(* Refinement and liveness *)

InWindow(p) == p = current.market
BookOf(p) ==
  IF InWindow(p) THEN LiveBook
  ELSE IF p \in Existing THEN markets[p].limits ELSE NoOrders
SavedOf(p)  == IF InWindow(p) /\ phase # "insert" THEN limits ELSE BookOf(p)
TakingOf(p) == IF InWindow(p) /\ phase \in Matching THEN Side ELSE "none"

MarketBook(p) == INSTANCE MatchingBook WITH
  book <- BookOf(p), saved <- SavedOf(p), taking <- TakingOf(p)

\* Each market is a matching engine with price-time priority of its own,
\* whatever happens in the others and however markets are created: the
\* specification of MatchingBook for every pair, written as one formula.
EveryMarketMatches ==
  /\ \A p \in AllPairs : MarketBook(p)!Init
  /\ [][\A p \in AllPairs :
          MarketBook(p)!Next \/ UNCHANGED <<BookOf(p), MarketBook(p)!bookVars>>]_allVars

\* Every message is answered, those that go through all markets included.
EngineAnswers == ~EngineIdle ~> EngineIdle

=============================================================================
