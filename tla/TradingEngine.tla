--------------------------- MODULE TradingEngine ---------------------------
(***************************************************************************)
(* The engine (TradingEngine.cpp): markets (MarketManager.cpp) that share  *)
(* the wallets of their coins (WalletManager.cpp, Wallet.cpp).             *)
(*                                                                         *)
(* Module Market is a window on one of them: its variables are the market  *)
(* and the two wallets the engine works on, `current' says which, and the  *)
(* other markets and wallets are kept in `markets' and `wallets'.  Focus   *)
(* moves the window, by the lookups of GetMarket and GetWallet; nothing    *)
(* else happens in that step.                                              *)
(***************************************************************************)
EXTENDS Market

CONSTANTS
  CoinIds,        \* the coin ids of NewCoin messages
  CoinPairs,      \* the pairs of NewMarket messages
  FirstPair,      \* the market trading starts with, InitialCoin and InitialBase deposited
  Transfers,      \* the Deposit, Withdraw and SetInOrder messages
  EngineRequests, \* which messages about all markets are sent
  MaxTransfers,   \* bound: transfers received
  MaxOrders       \* bound: no order is received once all markets together gave this many ids

CoinPair == [coin : Nat \ {0}, base : Nat \ {0}]
Transfer == [type : {"Deposit", "Withdraw", "SetInOrder"}, user : Users, coin : Nat, amount : Nat]
EngineRequestTypes == {"CancelAllOrders", "ClearAllEveryonesOpenOrders", "SetConfig"}

MarketConfig == [feeDivision : FeeDivisions, limitCap : LimitCaps, stopCap : StopCaps]

AllPairs == CoinPairs \cup {FirstPair}
AllCoins == (CoinIds \cap Nat) \cup UNION {{p.coin, p.base} : p \in AllPairs}

ASSUME PairsAssumption ==
  /\ AllPairs \subseteq CoinPair /\ FirstPair.coin # FirstPair.base
  /\ IsFiniteSet(CoinPairs) /\ CoinIds \subseteq Int   \* the ids are 32-bit integers
ASSUME EngineRequestsAssumption ==
  Transfers \subseteq Transfer /\ EngineRequests \subseteq EngineRequestTypes
\* None is not the progress of CancelAllOrders, either.
ASSUME NoneAssumption ==
  None \notin [user : Users, bases : SUBSET Nat, base : Nat \cup {None}, queue : Seq(Nat)]

VARIABLES
  marketsMap,     \* per base coin, the coins of its markets, in the order of the vector
  walletIds,      \* the coin ids of the wallets, in the order of the vector
  markets,        \* the markets that are not in the window
  wallets,        \* the wallets that are not in the window
  current,        \* the market in the window, and the coin ids of its two wallets
  sweep,          \* the progress of CancelAllOrders, None otherwise
  transfers,      \* the number of transfers received
  adjusted        \* users whose in-order balance was set by hand, or released by a
                  \* request that then failed (a history variable, read by no action)

indexVars  == <<marketsMap, walletIds>>
storeVars  == <<markets, wallets, current>>
engineVars == <<indexVars, storeVars, sweep, transfers, adjusted>>
allVars    == <<vars, engineVars>>

-----------------------------------------------------------------------------
(* Sorted vectors *)

\* std::lower_bound: the first position whose id is not smaller, or the end.
IsLowerBound(ids, x, i) ==
  /\ \A j \in 1 .. i - 1 : ids[j] < x
  /\ i <= Len(ids) => ids[i] >= x

LowerBound(ids, x) == CHOOSE i \in 1 .. Len(ids) + 1 : IsLowerBound(ids, x, i)

Holds(ids, x) ==
  LowerBound(ids, x) <= Len(ids) /\ ids[LowerBound(ids, x)] = x

\* Mutant of InsertSorted: the entry goes to the end of the vector.
InsertLast(ids, x) == Append(ids, x)
InsertSorted(ids, x) == InsertAt(ids, LowerBound(ids, x), x)

\* The markets of a base id: operator[] makes an empty vector for a new one.
Markets(id) == IF id \in DOMAIN marketsMap THEN marketsMap[id] ELSE <<>>

\* What is found under an id, be it the id that was asked for or a neighbour.
GetWallet(id) == walletIds[LowerBound(walletIds, id)]
GetMarket(p) == [coin |-> Markets(p.base)[LowerBound(Markets(p.base), p.coin)], base |-> p.base]

-----------------------------------------------------------------------------
(* The window *)

NoAddresses == [u \in Users |-> [total |-> 0, inOrder |-> 0]]
NoOrders == [s \in Sides |-> <<>>]

Window ==
  [limits |-> limits, stops |-> stops, userOrders |-> userOrders, knownUsers |-> knownUsers,
   orderId |-> currentOrderId, tradeId |-> currentTradeId, config |-> config, ops |-> ops]

NewMarketState(settings) ==
  [limits |-> NoOrders, stops |-> NoOrders, userOrders |-> {}, knownUsers |-> {},
   orderId |-> 1, tradeId |-> 1, config |-> settings, ops |-> <<>>]

Existing == {p \in AllPairs : \E i \in DOMAIN Markets(p.base) : Markets(p.base)[i] = p.coin}
MarketAt(p) == IF p = current.market THEN Window ELSE markets[p]
WalletAt(c) == IF c = current.coin THEN coin ELSE IF c = current.base THEN base ELSE wallets[c]
AllWallets == [c \in AllCoins |-> WalletAt(c)]

\* The wallets after a step, those of the window in their variables.
SetWallets(w) ==
  /\ coin' = w[current.coin] /\ base' = w[current.base]
  /\ wallets' = [c \in AllCoins |-> IF c \in {current.coin, current.base} THEN None ELSE w[c]]

\* One step of a handler, or one message, on the market in the window.
OnMarket == UNCHANGED <<indexVars, storeVars, transfers>>

NextOfSweep == [coin |-> Head(sweep.queue), base |-> sweep.base]

Focus(p) ==
  /\ phase = "idle"
  /\ p # current.market
  /\ sweep # None => sweep.queue # <<>> /\ p = NextOfSweep
  /\ LET found  == GetMarket(p)
         coinId == GetWallet(p.coin)
         baseId == GetWallet(p.base)
         market == markets[found]
     IN  /\ current' = [market |-> found, coin |-> coinId, base |-> baseId]
         /\ markets' = [markets EXCEPT ![current.market] = Window, ![found] = None]
         /\ wallets' = [c \in AllCoins |-> IF c \in {coinId, baseId} THEN None ELSE WalletAt(c)]
         /\ coin' = WalletAt(coinId) /\ base' = WalletAt(baseId)
         /\ limits' = market.limits /\ stops' = market.stops
         /\ userOrders' = market.userOrders /\ knownUsers' = market.knownUsers
         /\ currentOrderId' = market.orderId /\ currentTradeId' = market.tradeId
         /\ config' = market.config /\ ops' = market.ops
  /\ UNCHANGED <<indexVars, reply, simVars, callVars, phase, toCancel, sweep, transfers, adjusted>>

-----------------------------------------------------------------------------
(* The engine's messages *)

EngineIdle == phase = "idle" /\ sweep = None

OrderIdsGiven == FoldSet(LAMBDA p, sum : sum + MarketAt(p).orderId - 1, 0, Existing)

EngineInit ==
  /\ Init
  /\ marketsMap = [id \in {FirstPair.base} |-> <<FirstPair.coin>>]
  /\ walletIds = InsertSorted(<<FirstPair.base>>, FirstPair.coin)
  /\ markets = [p \in AllPairs |-> None]
  /\ wallets = [c \in AllCoins |-> None]
  /\ current = [market |-> FirstPair, coin |-> FirstPair.coin, base |-> FirstPair.base]
  /\ sweep = None /\ transfers = 0 /\ adjusted = {}

\* A message that changes nothing of the market in the window but its wallets.
EngineMessage(answer) ==
  /\ EngineIdle
  /\ reply' = answer
  /\ UNCHANGED <<bookVars, cacheVars, idVars, config, ops, simVars, callVars, phase, toCancel>>

RejectNewCoin(id) ==
  /\ EngineMessage(IF id <= 0 THEN "InvalidCoinId" ELSE "WalletAlreadyExists")
  /\ id <= 0 \/ Holds(walletIds, id)
  /\ UNCHANGED <<engineVars, walletVars>>

NewCoin(id) ==
  /\ EngineMessage("ok")
  /\ id > 0 /\ ~Holds(walletIds, id)
  /\ walletIds' = InsertSorted(walletIds, id)
  /\ wallets' = [wallets EXCEPT ![id] = NoAddresses]
  /\ UNCHANGED <<walletVars, marketsMap, markets, current, sweep, transfers, adjusted>>

RejectNewMarket(p) ==
  /\ EngineMessage(IF p.coin = p.base THEN "CoinIdsSame" ELSE "MarketAlreadyExists")
  /\ p.coin = p.base \/ Holds(Markets(p.base), p.coin)
  /\ UNCHANGED <<engineVars, walletVars>>

\* Clients create the coins before the market: nothing in the engine checks it.
NewMarket(p, settings) ==
  /\ EngineMessage("ok")
  /\ p.coin # p.base /\ ~Holds(Markets(p.base), p.coin)
  /\ Holds(walletIds, p.coin) /\ Holds(walletIds, p.base)
  /\ marketsMap' = [id \in DOMAIN marketsMap \cup {p.base} |->
                      IF id = p.base THEN InsertSorted(Markets(id), p.coin) ELSE marketsMap[id]]
  /\ markets' = [markets EXCEPT ![p] = NewMarketState(settings)]
  /\ UNCHANGED <<walletVars, walletIds, wallets, current, sweep, transfers, adjusted>>

\* Deposit, Withdraw and SetInOrder.  A withdrawal is not compared with anything.
Transferred(address, t) ==
  CASE t.type = "Deposit"    -> [address EXCEPT !.total = @ + t.amount]
    [] t.type = "Withdraw"   -> [address EXCEPT !.total = @ - t.amount]
    [] t.type = "SetInOrder" -> [address EXCEPT !.inOrder = t.amount]

ReceiveTransfer(t) ==
  /\ EngineMessage("ok")
  /\ transfers < MaxTransfers /\ Holds(walletIds, t.coin)
  /\ LET c == GetWallet(t.coin)
     IN  SetWallets([AllWallets EXCEPT ![c][t.user] = Transferred(@, t)])
  /\ transfers' = transfers + 1
  /\ adjusted' = IF t.type = "SetInOrder" THEN adjusted \cup {t.user} ELSE adjusted
  /\ UNCHANGED <<indexVars, markets, current, sweep>>

\* SetFees, SetMaxNumLimitOpenOrders, SetMaxNumStopLimitOpenOrders: all markets.
SetAllConfigs(field, value) ==
  /\ EngineIdle /\ "SetConfig" \in EngineRequests
  /\ config' = [config EXCEPT ![field] = value]
  /\ markets' = [p \in AllPairs |-> IF p \in Existing \ {current.market}
                                     THEN [markets[p] EXCEPT !.config[field] = value]
                                     ELSE markets[p]]
  /\ reply' = "ok"
  /\ UNCHANGED <<bookVars, cacheVars, idVars, walletVars, ops, simVars, callVars, phase, toCancel,
                 indexVars, wallets, current, sweep, transfers, adjusted>>

\* The wallets of the markets.  The first definition is a mutant: their coins
\* are left out.
BasesInvolved == {p.base : p \in Existing}
CoinsInvolved == UNION {{p.coin, p.base} : p \in Existing}

\* MarketManager::CancelAll(): everyone's orders in all markets.
ClearAllEveryonesOpenOrders ==
  /\ EngineIdle /\ "ClearAllEveryonesOpenOrders" \in EngineRequests
  /\ SetWallets([c \in AllCoins |->
                   IF c \in CoinsInvolved THEN Release(WalletAt(c), Users) ELSE WalletAt(c)])
  /\ limits' = NoOrders /\ stops' = NoOrders /\ userOrders' = {} /\ knownUsers' = {}
  /\ markets' = [p \in AllPairs |->
                   IF p \in Existing \ {current.market}
                     THEN [markets[p] EXCEPT !.limits = NoOrders, !.stops = NoOrders,
                                             !.userOrders = {}, !.knownUsers = {}]
                     ELSE markets[p]]
  /\ reply' = "ok"
  /\ UNCHANGED <<idVars, config, ops, simVars, callVars, phase, toCancel,
                 indexVars, current, sweep, transfers, adjusted>>

-----------------------------------------------------------------------------
(* CancelAllOrders: MarketManager::CancelAll(userId) *)

CancelAllOrders(user) ==
  /\ "CancelAllOrders" \in EngineRequests
  /\ EngineMessage("none")
  /\ sweep' = [user |-> user, bases |-> DOMAIN marketsMap, base |-> None, queue |-> <<>>]
  /\ UNCHANGED <<walletVars, indexVars, storeVars, transfers, adjusted>>

\* A step of the loops, between the markets.
SweepStep ==
  /\ phase = "idle" /\ sweep # None
  /\ UNCHANGED <<bookVars, cacheVars, idVars, config, ops, simVars, taker, lastTradePrice, pending,
                 indexVars, markets, current, transfers>>

\* Mutant of ReleaseUser: everyone's balances are released.
ReleaseEveryone(c) == SetWallets([AllWallets EXCEPT ![c] = Release(@, Users)])
ReleaseUser(c) == SetWallets([AllWallets EXCEPT ![c] = Release(@, {sweep.user})])

\* The next base id of the unordered map, in any order.  The first definition is
\* a mutant: it comes again.
SweepBaseAgain(id) ==
  /\ SweepStep
  /\ sweep.queue = <<>> /\ id \in sweep.bases
  /\ sweep' = [sweep EXCEPT !.base = id, !.queue = marketsMap[id]]
  /\ ReleaseUser(GetWallet(id))
  /\ reply' = "none"
  /\ UNCHANGED <<phase, message, toCancel, adjusted>>

SweepBase(id) ==
  /\ SweepStep
  /\ sweep.queue = <<>> /\ id \in sweep.bases
  /\ sweep' = [sweep EXCEPT !.bases = @ \ {id}, !.base = id, !.queue = marketsMap[id]]
  /\ ReleaseUser(GetWallet(id))
  /\ reply' = "none"
  /\ UNCHANGED <<phase, message, toCancel, adjusted>>

\* The next market of the base id, once it is in the window; CancelAll(user) of a
\* user that never had an order in it throws, and ends the loops.
\* The first definition is a mutant: the coin wallet is left alone.
SweepMarketKeepCoin ==
  /\ SweepStep
  /\ sweep.queue # <<>> /\ current.market = NextOfSweep
  /\ sweep.user \in knownUsers
  /\ sweep' = [sweep EXCEPT !.queue = Tail(@)]
  /\ phase' = "cancel" /\ message' = sweep.user /\ toCancel' = EntriesOf(sweep.user)
  /\ UNCHANGED <<walletVars, wallets, adjusted, reply>>

SweepMarket ==
  /\ SweepStep
  /\ sweep.queue # <<>> /\ current.market = NextOfSweep
  /\ sweep.user \in knownUsers
  /\ ReleaseUser(current.coin)
  /\ sweep' = [sweep EXCEPT !.queue = Tail(@)]
  /\ phase' = "cancel" /\ message' = sweep.user /\ toCancel' = EntriesOf(sweep.user)
  /\ reply' = "none"
  /\ UNCHANGED adjusted

SweepUnknown ==
  /\ SweepStep
  /\ sweep.queue # <<>> /\ current.market = NextOfSweep
  /\ sweep.user \notin knownUsers
  /\ ReleaseUser(current.coin)
  /\ sweep' = None /\ adjusted' = adjusted \cup {sweep.user}
  /\ reply' = "out_of_range"
  /\ UNCHANGED <<phase, message, toCancel>>

SweepDone ==
  /\ SweepStep
  /\ sweep.queue = <<>> /\ sweep.bases = {}
  /\ sweep' = None
  /\ reply' = "ok"
  /\ UNCHANGED <<walletVars, wallets, phase, message, toCancel, adjusted>>

-----------------------------------------------------------------------------

\* A handler's step on the market in the window.  An entry of the cache with no
\* order throws, and ends the loops over the markets, too.
HandlerStep ==
  /\ Processing
  /\ OnMarket
  /\ LET failed == phase = "cancel" /\ reply' = "InvalidIdPrice"
     IN  /\ sweep' = IF failed THEN None ELSE sweep
         /\ adjusted' = IF failed THEN adjusted \cup {message} ELSE adjusted

\* A message about one market, which is the one in the window.
MarketMessage ==
  /\ sweep = None
  /\ \/ OrderIdsGiven < MaxOrders /\ \E m \in Orders : RejectOrder(m) \/ AcceptOrder(m)
     \/ \E kind \in {"limit", "stop"}, side \in Sides :
          \E i \in 1 .. Len(Book(kind, side)) : CancelOrder(kind, side, i)
     \/ CancelUnknownOrder
     \/ \E user \in Users : ClearOpenOrders(user)
     \/ ClearEveryonesOpenOrders
  /\ OnMarket /\ UNCHANGED <<sweep, adjusted>>

EngineProcessing ==
  \/ HandlerStep
  \/ sweep # None /\ \E p \in Existing : Focus(p)
  \/ \E id \in DOMAIN marketsMap : SweepBase(id)
  \/ SweepMarket \/ SweepUnknown \/ SweepDone

EngineReceive ==
  \/ MarketMessage
  \/ sweep = None /\ \E p \in Existing : Focus(p)
  \/ \E id \in CoinIds : RejectNewCoin(id) \/ NewCoin(id)
  \/ \E p \in CoinPairs : RejectNewMarket(p) \/ \E settings \in MarketConfig : NewMarket(p, settings)
  \/ \E t \in Transfers : ReceiveTransfer(t)
  \/ \E d \in FeeDivisions : SetAllConfigs("feeDivision", d)
  \/ \E c \in LimitCaps : SetAllConfigs("limitCap", c)
  \/ \E c \in StopCaps : SetAllConfigs("stopCap", c)
  \/ ClearAllEveryonesOpenOrders
  \/ \E user \in Users : CancelAllOrders(user)

EngineNext == EngineProcessing \/ EngineReceive

EngineSpec == EngineInit /\ [][EngineNext]_allVars

\* Process runs on until it returns; no client has to send anything.
FairEngineSpec == EngineSpec /\ WF_allVars(EngineProcessing)

=============================================================================
