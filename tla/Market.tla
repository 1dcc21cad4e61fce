------------------------------- MODULE Market -------------------------------
(***************************************************************************)
(* One market of the engine (Market.cpp, Simulator.cpp): its four order    *)
(* books, the user order cache, the two wallets its trades settle in, and  *)
(* the listener whose operations become the reply to a message.            *)
(*                                                                         *)
(* The engine is single threaded.  A message arrives when `phase' is       *)
(* "idle"; every loop iteration of its handler is a step of the module,    *)
(* and the phases are the program points between the iterations.  While    *)
(* an order is matched the books do not move: the Simulator's fields below *)
(* record what is to be done, and the commit phases ("insert", "settle")   *)
(* do it.  An exception drops the record and leaves the books alone.       *)
(***************************************************************************)
EXTENDS OrderBook, FiniteSets, SequencesExt

CONSTANTS
  Users,           \* the users that trade on the market
  Orders,          \* the order messages clients send, a subset of OrderMessage
  Requests,        \* which of the other messages are sent, a subset of RequestTypes
  FeeDivisions,    \* the values SetFeePercentage (and NewMarket) may set
  LimitCaps,       \* the same for SetMaxNumLimitOpenOrders
  StopCaps,        \* and for SetMaxNumStopLimitOpenOrders
  Scale,           \* Units::scale
  InitialCoin,     \* deposits of coin and of base coin made before trading starts
  InitialBase,
  MaxOrderId,      \* bound: no order is received once the ids reach it
  MaxBacklog,      \* bound: nor while more operations than this are left over
  None             \* no message, no taker, no user

OrderMessage ==
  [kind : {"market", "limit", "stop"}, side : Sides, user : Users,
   amount : Nat \ {0}, price : Nat, actual : Nat]

RequestTypes == {"CancelOrder", "ClearOpenOrders", "ClearEveryonesOpenOrders", "SetConfig"}

ASSUME OrdersAssumption  == Orders \subseteq OrderMessage
ASSUME UsersAssumption   == None \notin Users /\ IsFiniteSet(Users)
ASSUME RequestsAssumption == Requests \subseteq RequestTypes
ASSUME ConfigAssumption  == /\ FeeDivisions \subseteq Nat \ {0}
                            /\ LimitCaps \subseteq Nat
                            /\ StopCaps \subseteq Nat
ASSUME ScaleAssumption   == Scale \in Nat \ {0}
ASSUME BalanceAssumption == InitialCoin \in [Users -> Nat] /\ InitialBase \in [Users -> Nat]

VARIABLES
  limits, stops,   \* the limit and the stop-limit book of each side
  userOrders,      \* userOrderMap: the (price, id) entries of all users
  knownUsers,      \* the users that have an entry in userOrderMap
  currentOrderId, currentTradeId,
  config,          \* MarketConfig
  coin, base,      \* the two wallets: an Address per user
  ops,             \* the listener's operations, returned to the client with the reply
  reply,           \* "ok" or an error for the last message, "none" while one is processed
  phase, message,  \* the program point, and the order message being processed
  taker,           \* the order the innermost ProcessLimitOrder works on
  lastTradePrice,  \* its lastTradePrice
  pending,         \* the triggered stop orders whose Process call is still to be made
  removed,         \* Simulator: numLimitOrdersToRemove
  lastFill,        \* Simulator: lastFill
  triggered,       \* Simulator: numTriggeredStopOrders
  insertedLimits,  \* Simulator: insertedLimitOrderMap
  insertedStop,    \* Simulator: insertedStopLimitOrder, <<>> when there is none
  trades,          \* Simulator: trades
  toCancel         \* the cache entries a CancelAll(user) loop has still to visit

bookVars   == <<limits, stops>>
cacheVars  == <<userOrders, knownUsers>>
idVars     == <<currentOrderId, currentTradeId>>
walletVars == <<coin, base>>
simVars    == <<removed, lastFill, triggered, insertedLimits, insertedStop, trades>>
callVars   == <<message, taker, lastTradePrice, pending>>

marketVars == <<bookVars, cacheVars, idVars, walletVars, config>>
vars == <<marketVars, reply, ops, simVars, callVars, phase, toCancel>>

-----------------------------------------------------------------------------
(* Records *)

\* A LimitOrder or a StopLimitOrder with the price it is filed under; `left' is
\* GetRemaining(), `actual' the limit price of a stop order.
Order == [id : Nat, user : Users, price : Nat, actual : Nat, left : Nat \ {0}]

\* One element of a UserOrders vector.
CacheEntry == [user : Users, kind : {"limit", "stop"}, side : Sides, price : Nat, id : Nat]
Entry(kind, side, o) ==
  [user |-> o.user, kind |-> kind, side |-> side, price |-> o.price, id |-> o.id]

Address == [total : Int, inOrder : Int]
Trade == [buyer : Users, seller : Users, amount : Nat, price : Nat, buyFee : Nat, sellFee : Nat]
Taker == [id : Nat, user : Users, kind : {"market", "limit", "stop"}, price : Nat,
          actual : Nat, left : Nat, resumed : Nat]
Triggered == [order : Order, trade : Int]

\* An Operation; id and id2 are the two unions of ListenerOrder.
Operation == [type : {"NewTrade", "PartialFill", "OrderFilled", "NewFilledOrder",
                      "NewOpenOrder", "StopLimitTriggered"},
              id : Nat, id2 : Int, amount : Nat, trade : Nat]
Op(type, id, amount) == [type |-> type, id |-> id, id2 |-> 0, amount |-> amount, trade |-> 0]

Errors == {"InsufficientFunds", "TradeSameUser", "IncompatibleOrders", "MarketOrderUnfilled",
           "ReachedNumOpenOrders", "NoOrdersCannotPlaceStopLimit", "StopPriceTooHighLow",
           "InvalidIdPrice", "InvalidCoinId", "WalletAlreadyExists", "CoinIdsSame",
           "MarketAlreadyExists"}

NoTrade == -1
\* Mutant of Available: what is in order may be spent again.
AvailableTotal(address) == address.total
Available(address) == address.total - address.inOrder
ScaleDown(n) == n \div Scale

Side == message.side
Makers == limits[Opposite(Side)]
SimTradeId == currentTradeId + Len(trades)     \* the Simulator's currentTradeId

-----------------------------------------------------------------------------
(* Validation of a new order *)

\* One order of the walk of SimulateMarketBuyOrder.  The remaining balance is
\* reduced by the product that was not scaled down, as the code does it.
\* The first definition is a mutant: the balance is not reduced at all.
MarketBuyStepSameBalance(m, walk, ask) ==
  LET want == IF ask.left > walk.left THEN walk.left ELSE ask.left
  IN  IF walk.ended THEN walk
      ELSE IF ask.user = m.user
        THEN [walk EXCEPT !.ended = TRUE, !.error = "TradeSameUser"]
      ELSE IF ScaleDown(want * ask.price) > walk.balance
        THEN [walk EXCEPT !.ended = TRUE, !.error = "InsufficientFunds"]
      ELSE IF ask.left > walk.left
        THEN [walk EXCEPT !.ended = TRUE]
      ELSE [walk EXCEPT !.left = @ - ask.left]

MarketBuyStep(m, walk, ask) ==
  LET want == IF ask.left > walk.left THEN walk.left ELSE ask.left
  IN  IF walk.ended THEN walk
      ELSE IF ask.user = m.user
        THEN [walk EXCEPT !.ended = TRUE, !.error = "TradeSameUser"]
      ELSE IF ScaleDown(want * ask.price) > walk.balance
        THEN [walk EXCEPT !.ended = TRUE, !.error = "InsufficientFunds"]
      ELSE IF ask.left > walk.left
        THEN [walk EXCEPT !.ended = TRUE]
      ELSE [walk EXCEPT !.balance = @ - ask.price * ask.left, !.left = @ - ask.left]

\* The walk over the first n orders.
MarketBuyWalk(m, availableBalance, asks, n) ==
  LET walk[i \in Nat] ==
        IF i = 0 THEN [ended |-> FALSE, error |-> "none", left |-> m.amount,
                       balance |-> availableBalance]
        ELSE MarketBuyStep(m, walk[i - 1], asks[i])
  IN  walk[n]

SimulateMarketBuyOrder(m, availableBalance) ==
  MarketBuyWalk(m, availableBalance, limits["Sell"], Len(limits["Sell"])).error

FundsError(m) ==
  CASE m.side = "Buy" /\ m.kind = "market" ->
         SimulateMarketBuyOrder(m, Available(base[m.user]))
    [] m.side = "Buy" /\ m.kind = "limit"  ->
         IF ScaleDown(m.amount * m.price) > Available(base[m.user])
           THEN "InsufficientFunds" ELSE "none"
    [] m.side = "Buy" /\ m.kind = "stop"   ->
         IF ScaleDown(m.amount * m.actual) > Available(base[m.user])
           THEN "InsufficientFunds" ELSE "none"
    [] m.side = "Sell" ->
         IF Available(coin[m.user]) < m.amount THEN "InsufficientFunds" ELSE "none"

\* lower_bound in a vector sorted like the map a taker of side `walker' walks:
\* is there an entry that does not come strictly before the price?
Check(walker, entries, price) ==
  \E e \in entries : Reached(Opposite(walker), e.price, price)

CachedOrders(user, kind, side) ==
  {e \in userOrders : e.user = user /\ e.kind = kind /\ e.side = side}

SameUserOrder(m) ==
  \/ /\ m.kind = "stop"
     /\ Check(m.side, CachedOrders(m.user, "limit", Opposite(m.side)), m.actual)
  \/ /\ m.kind = "limit"
     /\ Check(Opposite(m.side), CachedOrders(m.user, "stop", Opposite(m.side)), m.price)

ValidationError(m) ==
  IF FundsError(m) # "none" THEN FundsError(m)
  ELSE IF SameUserOrder(m) THEN "IncompatibleOrders" ELSE "none"

NumLimitOpenOrders(user) ==
  Cardinality({e \in userOrders : e.user = user /\ e.kind = "limit"})

-----------------------------------------------------------------------------
(* Receiving an order (NewProcess up to the call of Process) *)

Init ==
  /\ limits = [s \in Sides |-> <<>>] /\ stops = [s \in Sides |-> <<>>]
  /\ userOrders = {} /\ knownUsers = {}
  /\ currentOrderId = 1 /\ currentTradeId = 1
  /\ config \in [feeDivision : FeeDivisions, limitCap : LimitCaps, stopCap : StopCaps]
  /\ coin = [u \in Users |-> [total |-> InitialCoin[u], inOrder |-> 0]]
  /\ base = [u \in Users |-> [total |-> InitialBase[u], inOrder |-> 0]]
  /\ ops = <<>> /\ reply = "ok"
  /\ phase = "idle" /\ message = None /\ taker = None
  /\ lastTradePrice = NoTrade /\ pending = <<>>
  /\ removed = 0 /\ lastFill = 0 /\ triggered = 0
  /\ insertedLimits = <<>> /\ insertedStop = <<>> /\ trades = <<>>
  /\ toCancel = {}

Receivable == phase = "idle" /\ currentOrderId < MaxOrderId /\ Len(ops) <= MaxBacklog

\* The validations throw before anything is simulated.
RejectOrder(m) ==
  /\ Receivable
  /\ \E e \in Errors : ValidationError(m) = e /\ reply' = e
  /\ UNCHANGED <<marketVars, ops, simVars, callVars, phase, toCancel>>

AcceptOrder(m) ==
  /\ Receivable
  /\ ValidationError(m) = "none"
  /\ message' = m /\ reply' = "none"
  /\ taker' = [id |-> currentOrderId, user |-> m.user, kind |-> m.kind, price |-> m.price,
               actual |-> m.actual, left |-> m.amount, resumed |-> 0]
  /\ lastTradePrice' = NoTrade
  /\ phase' = IF m.kind = "stop" THEN "stop" ELSE "consume"
  /\ UNCHANGED <<marketVars, ops, simVars, pending, toCancel>>

\* Simulator::Clear, at the end of a message and when an exception is caught.
\* The first definition is a mutant: the trades survive.
ClearButTrades ==
  /\ removed' = 0 /\ lastFill' = 0 /\ triggered' = 0
  /\ insertedLimits' = <<>> /\ insertedStop' = <<>> /\ UNCHANGED trades

Clear ==
  /\ removed' = 0 /\ lastFill' = 0 /\ triggered' = 0
  /\ insertedLimits' = <<>> /\ insertedStop' = <<>> /\ trades' = <<>>

\* The stack of Process calls is gone and the engine waits for a message.
Return == phase' = "idle" /\ message' = None /\ taker' = None
          /\ lastTradePrice' = NoTrade /\ pending' = <<>>

\* The exception unwinds to NewProcess and the error becomes the reply.  What
\* the listener has been told stays in its list.
Throw(e) ==
  /\ Clear /\ Return
  /\ reply' = e
  /\ UNCHANGED <<marketVars, ops, toCancel>>

-----------------------------------------------------------------------------
(* ConsumeOrderBook and Consume: one maker order per step *)

\* ConsumeOrderBook skips the makers already removed by an earlier Process call
\* of this message and takes up the level they ended in: the rest of that level
\* is passed to Consume with no comparison of its price.
InResumedLevel(i) ==
  taker.resumed > 0 /\ Makers[i].price = Makers[taker.resumed].price

\* Mutant of Consumable: the taker wants a better price than its limit.
ConsumableStrict(i) ==
  taker.kind = "market" \/ ~Reached(Opposite(Side), Makers[i].price, taker.price)

Consumable(i) ==
  \/ taker.kind = "market"
  \/ InResumedLevel(i)
  \/ Reached(Side, Makers[i].price, taker.price)

Maker == Makers[removed + 1]

\* Mutant of MakerLeft: what the maker has lost to an earlier trade is forgotten.
MakerLeftStale == Maker.left
MakerLeft == Maker.left - lastFill

HasMaker == phase = "consume" /\ removed < Len(Makers) /\ Consumable(removed + 1)

TradeWith(maker, amount) ==
  [buyer   |-> IF Side = "Buy" THEN taker.user ELSE maker.user,
   seller  |-> IF Side = "Buy" THEN maker.user ELSE taker.user,
   amount  |-> amount,
   price   |-> maker.price,
   buyFee  |-> amount \div config.feeDivision,
   sellFee |-> ScaleDown(amount * maker.price) \div config.feeDivision]

NewTradeOp(maker, amount) ==
  [type   |-> "NewTrade",
   id     |-> IF Side = "Buy" THEN taker.id ELSE maker.id,
   id2    |-> IF Side = "Buy" THEN maker.id ELSE taker.id,
   amount |-> amount, trade |-> SimTradeId]

ConsumeOwn ==
  /\ HasMaker
  /\ Maker.user = taker.user
  /\ Throw("TradeSameUser")

\* The maker has more than the taker wants: eat into it.
ConsumePart ==
  /\ HasMaker
  /\ Maker.user # taker.user
  /\ MakerLeft > taker.left
  /\ lastFill' = lastFill + taker.left
  /\ taker' = [taker EXCEPT !.left = 0]
  /\ trades' = Append(trades, TradeWith(Maker, taker.left))
  /\ ops' = ops \o << NewTradeOp(Maker, taker.left),
                      Op("PartialFill", Maker.id, taker.left),
                      Op("NewFilledOrder", taker.id, 0) >>
  /\ lastTradePrice' = Maker.price
  /\ phase' = "kick"
  /\ UNCHANGED <<marketVars, reply, message, pending, removed, triggered,
                 insertedLimits, insertedStop, toCancel>>

\* The maker is used up, and so may be the taker.
ConsumeWhole ==
  /\ HasMaker
  /\ Maker.user # taker.user
  /\ MakerLeft <= taker.left
  /\ removed' = removed + 1
  /\ lastFill' = 0
  /\ taker' = [taker EXCEPT !.left = @ - MakerLeft]
  /\ trades' = Append(trades, TradeWith(Maker, MakerLeft))
  /\ ops' = ops \o << NewTradeOp(Maker, MakerLeft), Op("OrderFilled", Maker.id, 0) >>
                \o (IF MakerLeft = taker.left THEN <<Op("OrderFilled", taker.id, 0)>> ELSE <<>>)
  /\ lastTradePrice' = Maker.price
  /\ phase' = IF MakerLeft = taker.left THEN "kick" ELSE "consume"
  /\ UNCHANGED <<marketVars, reply, message, pending, triggered,
                 insertedLimits, insertedStop, toCancel>>

\* There are not enough limit orders for a market order.
MarketOrderUnfilled ==
  /\ phase = "consume" /\ ~HasMaker
  /\ taker.kind = "market"
  /\ Throw("MarketOrderUnfilled")

-----------------------------------------------------------------------------
(* The remainder of a limit order, and stop-limit orders *)

AtLimitCap == NumLimitOpenOrders(taker.user) >= config.limitCap

\* The cap of the stop-limit orders is compared with the number of limit orders.
AtStopCap == NumLimitOpenOrders(taker.user) >= config.stopCap

LimitOrderRefused ==
  /\ phase = "consume" /\ ~HasMaker
  /\ taker.kind = "limit"
  /\ AtLimitCap
  /\ Throw("ReachedNumOpenOrders")

RestLimitOrder ==
  /\ phase = "consume" /\ ~HasMaker
  /\ taker.kind = "limit"
  /\ ~AtLimitCap
  /\ insertedLimits' =
       Append(insertedLimits, [id |-> taker.id, user |-> taker.user, price |-> taker.price,
                               actual |-> 0, left |-> taker.left])
  /\ ops' = Append(ops, Op("NewOpenOrder", taker.id, taker.left))
  /\ taker' = [taker EXCEPT !.left = 0]
  /\ phase' = "kick"
  /\ UNCHANGED <<marketVars, reply, message, lastTradePrice, pending, removed, lastFill,
                 triggered, insertedStop, trades, toCancel>>

StopError ==
  IF Makers = <<>> THEN "NoOrdersCannotPlaceStopLimit"
  ELSE IF ~Reached(Opposite(Side), taker.price, Makers[1].price) THEN "StopPriceTooHighLow"
  ELSE IF AtStopCap THEN "ReachedNumOpenOrders" ELSE "none"

StopLimitRefused ==
  /\ phase = "stop"
  /\ StopError # "none"
  /\ Throw(StopError)

PlaceStopLimit ==
  /\ phase = "stop"
  /\ StopError = "none"
  /\ insertedStop' = << [id |-> taker.id, user |-> taker.user, price |-> taker.price,
                         actual |-> taker.actual, left |-> taker.left] >>
  /\ ops' = Append(ops, Op("NewOpenOrder", taker.id, taker.left))
  /\ taker' = [taker EXCEPT !.left = 0]
  /\ phase' = "next"
  /\ UNCHANGED <<marketVars, reply, message, lastTradePrice, pending, removed, lastFill,
                 triggered, insertedLimits, trades, toCancel>>

-----------------------------------------------------------------------------
(* KickOffStopOrders and ProcessStopOrders *)

\* The stop orders not yet triggered whose level the last trade reached, all of
\* them, with the id of that trade.
\* Mutants: the last one is left out; those already triggered are not skipped.
TriggeredButLast(k) ==
  [j \in 1 .. k - triggered - 1 |->
     [order |-> stops[Side][triggered + j], trade |-> SimTradeId - 1]]
TriggeredAgain(k) ==
  [j \in 1 .. k |-> [order |-> stops[Side][j], trade |-> SimTradeId - 1]]

TriggeredUpTo(k) ==
  [j \in 1 .. k - triggered |-> [order |-> stops[Side][triggered + j], trade |-> SimTradeId - 1]]

KickOffStopOrders ==
  /\ phase = "kick"
  /\ lastTradePrice # NoTrade
  /\ LET k == ReachedEnd(Side, stops[Side], triggered, lastTradePrice)
     IN  /\ triggered' = k
         /\ pending' = TriggeredUpTo(k) \o pending     \* they are processed first
  /\ phase' = "next"
  /\ UNCHANGED <<marketVars, reply, ops, message, taker, lastTradePrice, removed, lastFill,
                 insertedLimits, insertedStop, trades, toCancel>>

\* The first definition is a mutant: it asks whether the message has traded.
NoTradeAtAllNoKick ==
  /\ phase = "kick"
  /\ lastTradePrice = NoTrade /\ trades = <<>>
  /\ phase' = "next"
  /\ UNCHANGED <<marketVars, reply, ops, callVars, simVars, toCancel>>

NoTradeNoKick ==
  /\ phase = "kick"
  /\ lastTradePrice = NoTrade
  /\ phase' = "next"
  /\ UNCHANGED <<marketVars, reply, ops, callVars, simVars, toCancel>>

\* Process the next triggered order as a limit order at its actual price.
ProcessStopOrder ==
  /\ phase = "next"
  /\ pending # <<>>
  /\ LET o == Head(pending).order
     IN  /\ taker' = [id |-> o.id, user |-> o.user, kind |-> "limit", price |-> o.actual,
                      actual |-> 0, left |-> o.left, resumed |-> removed]
         /\ ops' = Append(ops, [Op("StopLimitTriggered", o.id, 0)
                                  EXCEPT !.id2 = Head(pending).trade])
  /\ pending' = Tail(pending)
  /\ lastTradePrice' = NoTrade
  /\ phase' = "consume"
  /\ UNCHANGED <<marketVars, reply, message, simVars, toCancel>>

-----------------------------------------------------------------------------
(* PostProcess and CommitChanges *)

\* Mutant of TriggeredEntries: RemoveOrders is not called.
NoEntries == {}
TriggeredEntries == {Entry("stop", Side, stops[Side][i]) : i \in 1 .. triggered}

\* The new ids, and the triggered stop orders leave their book and the cache.
PostProcess ==
  /\ phase = "next"
  /\ pending = <<>>
  /\ currentOrderId' = currentOrderId + 1
  /\ currentTradeId' = SimTradeId
  /\ stops' = [stops EXCEPT ![Side] = DropFirst(@, triggered)]
  /\ userOrders' = userOrders \ TriggeredEntries
  /\ phase' = "insert"
  /\ UNCHANGED <<limits, knownUsers, walletVars, config, reply, ops, simVars, callVars,
                 toCancel>>

\* The next order of insertedLimitOrderMap goes to its book and to the cache.
\* The map visits the prices in ascending order; orders of different prices do
\* not affect each other, those of one price keep their order.
InsertLimitOrder ==
  /\ phase = "insert"
  /\ insertedLimits # <<>>
  /\ LET o == Head(insertedLimits)
     IN  /\ limits' = [limits EXCEPT ![Side] = PushBack(Opposite(Side), @, o)]
         /\ userOrders' = userOrders \cup {Entry("limit", Side, o)}
         /\ knownUsers' = knownUsers \cup {o.user}
  /\ insertedLimits' = Tail(insertedLimits)
  /\ UNCHANGED <<stops, idVars, walletVars, config, reply, ops, callVars, phase, removed,
                 lastFill, triggered, insertedStop, trades, toCancel>>

\* The filled makers leave their book, and lastFill is taken from the next one.
\* updatedLimitOrderMap.begin() is dereferenced: there must be a next one.
\* The first definition is a mutant: it keeps what was filled.
UpdatedMakersSwapped ==
  LET rest == DropFirst(Makers, removed)
  IN  IF lastFill > 0 THEN [rest EXCEPT ![1].left = lastFill - @] ELSE rest

UpdatedMakers ==
  LET rest == DropFirst(Makers, removed)
  IN  IF lastFill > 0 THEN [rest EXCEPT ![1].left = @ - lastFill] ELSE rest

\* The cache entries RemoveOrders is asked to remove for the filled makers: it
\* is given the side of the taker, and it is called for whole levels only (the
\* loop over the last, partly filled level counts triggered stop orders).
MakerEntries ==
  {Entry("limit", Side, Makers[i]) :
     i \in {j \in 1 .. removed : removed = Len(Makers) \/ Makers[removed+1].price # Makers[j].price}}

Hold(wallet, user, amount) == [wallet EXCEPT ![user].inOrder = @ + amount]

UpdateBooks ==
  /\ phase = "insert"
  /\ insertedLimits = <<>>
  /\ limits' = [limits EXCEPT ![Opposite(Side)] = UpdatedMakers]
  /\ LET placed == {insertedStop[i] : i \in 1 .. Len(insertedStop)}
     IN  /\ stops' = IF insertedStop = <<>> THEN stops
                     ELSE [stops EXCEPT ![Side] = PushBack(Side, @, insertedStop[1])]
         /\ userOrders' = (userOrders \cup {Entry("stop", Side, o) : o \in placed}) \ MakerEntries
         /\ knownUsers' = knownUsers \cup {o.user : o \in placed}
  /\ base' = IF Side = "Buy" THEN Hold(base, message.user, message.amount) ELSE base
  /\ coin' = IF Side = "Sell" THEN Hold(coin, message.user, message.amount) ELSE coin
  /\ phase' = "settle"
  /\ UNCHANGED <<idVars, config, reply, ops, simVars, callVars, toCancel>>

\* AddToTotalBalance, and RemoveFromTotalBalance with RemoveFromInOrder.
\* Mutants of Debit: one of the two is forgotten.
DebitTotal(wallet, user, amount) == [wallet EXCEPT ![user].total = @ - amount]
DebitInOrder(wallet, user, amount) == [wallet EXCEPT ![user].inOrder = @ - amount]
Credit(wallet, user, amount) == [wallet EXCEPT ![user].total = @ + amount]
Debit(wallet, user, amount) ==
  [wallet EXCEPT ![user] = [total |-> @.total - amount, inOrder |-> @.inOrder - amount]]

\* One trade reaches the wallets.  The seller is credited the amount, not
\* the amount times the price that the buyer is debited.
SettleTrade ==
  /\ phase = "settle"
  /\ trades # <<>>
  /\ LET t == Head(trades)
     IN  /\ coin' = Debit(Credit(coin, t.buyer, t.amount - t.buyFee), t.seller, t.amount)
         /\ base' = Credit(Debit(base, t.buyer, ScaleDown(t.amount * t.price)),
                           t.seller, t.amount - t.sellFee)
  /\ trades' = Tail(trades)
  /\ UNCHANGED <<bookVars, cacheVars, idVars, config, reply, ops, callVars, phase, removed,
                 lastFill, triggered, insertedLimits, insertedStop, toCancel>>

\* simulator.Clear(), and TradingEngine::ProcessOrder turns the operations into
\* the reply and clears them.
AnswerOrder ==
  /\ phase = "settle"
  /\ trades = <<>>
  /\ Clear /\ Return
  /\ reply' = "ok" /\ ops' = <<>>
  /\ UNCHANGED <<marketVars, toCancel>>

-----------------------------------------------------------------------------
(* The other messages *)

Book(kind, side) == IF kind = "limit" THEN limits[side] ELSE stops[side]

RemoveFromBook(kind, side, i) ==
  IF kind = "limit"
    THEN limits' = [limits EXCEPT ![side] = Without(@, i)] /\ UNCHANGED stops
    ELSE stops'  = [stops  EXCEPT ![side] = Without(@, i)] /\ UNCHANGED limits

\* CancelHelper finds the order by its price and its id.  The user that sends
\* the message plays no part in it.
CancelOrder(kind, side, i) ==
  /\ phase = "idle" /\ "CancelOrder" \in Requests
  /\ LET o == Book(kind, side)[i]
     IN  /\ RemoveFromBook(kind, side, i)
         /\ base' = IF side = "Buy"  THEN Hold(base, o.user, -o.left) ELSE base
         /\ coin' = IF side = "Sell" THEN Hold(coin, o.user, -o.left) ELSE coin
         /\ userOrders' = userOrders \ {Entry(kind, side, o)}
  /\ reply' = "ok"
  /\ UNCHANGED <<knownUsers, idVars, config, ops, simVars, callVars, phase, toCancel>>

\* No order of the book has the price and the id of the message.
CancelUnknownOrder ==
  /\ phase = "idle" /\ "CancelOrder" \in Requests
  /\ reply' = "InvalidIdPrice"
  /\ UNCHANGED <<marketVars, ops, simVars, callVars, phase, toCancel>>

Release(wallet, users) ==
  [u \in Users |-> IF u \in users THEN [wallet[u] EXCEPT !.inOrder = 0] ELSE wallet[u]]

\* The four vectors of a user's cache.  The first definition is a mutant that
\* leaves out the vectors of the stop orders.
LimitEntriesOf(user) == {e \in userOrders : e.user = user /\ e.kind = "limit"}
EntriesOf(user) == {e \in userOrders : e.user = user}

\* ClearOpenOrders: the balances are released before the orders are looked for.
\* A user with no entry in userOrderMap makes at() throw std::out_of_range.
ClearOpenOrders(user) ==
  /\ phase = "idle" /\ "ClearOpenOrders" \in Requests
  /\ coin' = Release(coin, {user}) /\ base' = Release(base, {user})
  /\ IF user \in knownUsers
       THEN /\ phase' = "cancel"
            /\ message' = user
            /\ toCancel' = EntriesOf(user)
            /\ reply' = "none"
       ELSE reply' = "out_of_range" /\ UNCHANGED <<phase, message, toCancel>>
  /\ UNCHANGED <<bookVars, cacheVars, idVars, config, ops, simVars, taker, lastTradePrice,
                 pending>>

\* CancelAll(user) visits the four vectors one after the other, each in the
\* order of its map and, within a price, of the ids.
Stage(e) == (IF e.kind = "limit" THEN 0 ELSE 2) + (IF e.side = "Buy" THEN 1 ELSE 2)
Walker(e) == IF e.kind = "limit" THEN Opposite(e.side) ELSE e.side
Precedes(e, f) ==
  \/ Stage(e) < Stage(f)
  \/ Stage(e) = Stage(f) /\ ~Reached(Walker(e), f.price, e.price)
  \/ Stage(e) = Stage(f) /\ e.price = f.price /\ e.id <= f.id

FirstToCancel(e) == e \in toCancel /\ \A f \in toCancel : Precedes(e, f)

Position(e, i) ==
  /\ i \in 1 .. Len(Book(e.kind, e.side))
  /\ Book(e.kind, e.side)[i].id = e.id /\ Book(e.kind, e.side)[i].price = e.price

CancelNext(e) ==
  /\ phase = "cancel" /\ FirstToCancel(e)
  /\ \E i \in 1 .. Len(Book(e.kind, e.side)) : Position(e, i) /\ RemoveFromBook(e.kind, e.side, i)
  /\ toCancel' = toCancel \ {e}
  /\ UNCHANGED <<cacheVars, idVars, walletVars, config, reply, ops, simVars, callVars, phase>>

\* An entry whose order is gone ends the loop: the orders before it are
\* cancelled, those after it and the cache stay.
CancelStale(e) ==
  /\ phase = "cancel" /\ FirstToCancel(e)
  /\ \A i \in 1 .. Len(Book(e.kind, e.side)) : ~Position(e, i)
  /\ reply' = "InvalidIdPrice"
  /\ phase' = "idle" /\ message' = None /\ toCancel' = {}
  /\ UNCHANGED <<marketVars, ops, simVars, taker, lastTradePrice, pending>>

CancelledAll ==
  /\ phase = "cancel" /\ toCancel = {}
  /\ userOrders' = userOrders \ EntriesOf(message)
  /\ reply' = "ok"
  /\ phase' = "idle" /\ message' = None
  /\ UNCHANGED <<bookVars, knownUsers, idVars, walletVars, config, ops, simVars, taker,
                 lastTradePrice, pending, toCancel>>

ClearEveryonesOpenOrders ==
  /\ phase = "idle" /\ "ClearEveryonesOpenOrders" \in Requests
  /\ coin' = Release(coin, Users) /\ base' = Release(base, Users)
  /\ limits' = [s \in Sides |-> <<>>] /\ stops' = [s \in Sides |-> <<>>]
  /\ userOrders' = {} /\ knownUsers' = {}
  /\ reply' = "ok"
  /\ UNCHANGED <<idVars, config, ops, simVars, callVars, phase, toCancel>>

SetConfig(field, value) ==
  /\ phase = "idle" /\ "SetConfig" \in Requests
  /\ config' = [config EXCEPT ![field] = value]
  /\ reply' = "ok"
  /\ UNCHANGED <<bookVars, cacheVars, idVars, walletVars, ops, simVars, callVars, phase, toCancel>>

SetFeePercentage == \E d \in FeeDivisions : SetConfig("feeDivision", d)
SetMaxNumLimitOpenOrders == \E c \in LimitCaps : SetConfig("limitCap", c)
SetMaxNumStopLimitOpenOrders == \E c \in StopCaps : SetConfig("stopCap", c)

-----------------------------------------------------------------------------

\* The steps of a handler: once a message is received they follow one another
\* until the reply.
Processing ==
  \/ ConsumeOwn \/ ConsumePart \/ ConsumeWhole \/ MarketOrderUnfilled
  \/ LimitOrderRefused \/ RestLimitOrder \/ StopLimitRefused \/ PlaceStopLimit
  \/ KickOffStopOrders \/ NoTradeNoKick \/ ProcessStopOrder
  \/ PostProcess \/ InsertLimitOrder \/ UpdateBooks \/ SettleTrade \/ AnswerOrder
  \/ \E e \in toCancel : CancelNext(e) \/ CancelStale(e)
  \/ CancelledAll

Receive ==
  \/ \E m \in Orders : RejectOrder(m) \/ AcceptOrder(m)
  \/ \E kind \in {"limit", "stop"}, side \in Sides :
       \E i \in 1 .. Len(Book(kind, side)) : CancelOrder(kind, side, i)
  \/ CancelUnknownOrder
  \/ \E user \in Users : ClearOpenOrders(user)
  \/ ClearEveryonesOpenOrders
  \/ SetFeePercentage \/ SetMaxNumLimitOpenOrders \/ SetMaxNumStopLimitOpenOrders

Next == Processing \/ Receive

Spec == Init /\ [][Next]_vars

\* The thread that calls Process runs on: a handler never stops half way.
FairSpec == Spec /\ WF_vars(Processing)

=============================================================================
