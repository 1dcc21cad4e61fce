---------------------------- MODULE MarketProofs ----------------------------
(***************************************************************************)
(* For every set of users, of orders and of settings: a market's variables *)
(* keep their types, what the simulator records can always be done to the  *)
(* books, and stop orders are triggered by whole levels.                   *)
(*                                                                         *)
(* The three are proved together with ClearedWhenIdle as one inductive     *)
(* invariant: the bounds are needed to type the book the commit makes, and *)
(* the empty record to enter the next message within the bounds.           *)
(***************************************************************************)
EXTENDS MarketProperties, OrderBookProofs

\* Simulator::Clear has been called on every way out of a handler.
ClearedWhenIdle ==
  phase \in {"idle", "cancel"} =>
    removed = 0 /\ lastFill = 0 /\ triggered = 0 /\ insertedLimits = <<>>

IInv == TypeOK /\ SimulatorInBounds /\ WholeLevelsTriggered /\ ClearedWhenIdle

-----------------------------------------------------------------------------
(* Arithmetic and records *)

\* Division of naturals yields a natural.
LEMMA DivType ==
  ASSUME NEW n \in Nat, NEW d \in Nat \ {0}
  PROVE  n \div d \in Nat
BY SMT

\* So does Units::ScaleDown.
LEMMA ScaleDownType ==
  ASSUME NEW n \in Nat
  PROVE  ScaleDown(n) \in Nat
BY ScaleAssumption, DivType DEF ScaleDown

-----------------------------------------------------------------------------
(* The program points *)

\* While an order message is processed, its side and the book of the makers are
\* those of the message.
LEMMA SideType ==
  ASSUME IInv, phase \in OrderPhases
  PROVE  /\ Side \in Sides /\ Opposite(Side) \in Sides
         /\ Makers \in Seq(Order) /\ stops[Side] \in Seq(Order)
         /\ limits[Side] \in Seq(Order)
         /\ message.user \in Users /\ message.amount \in Nat \ {0}
<1>1. message \in OrderMessage
  BY OrdersAssumption DEF IInv, TypeOK, CallTypeOK
<1>2. Side \in Sides /\ Opposite(Side) \in Sides
  BY <1>1 DEF Side, OrderMessage, Sides, Opposite
<1>3. limits \in [Sides -> Seq(Order)] /\ stops \in [Sides -> Seq(Order)]
  BY DEF IInv, TypeOK, MarketTypeOK
<1> QED BY <1>1, <1>2, <1>3 DEF Makers, OrderMessage

\* A maker that Consume works on is an order, and what it has left is positive.
LEMMA MakerType ==
  ASSUME IInv, HasMaker
  PROVE  /\ Makers \in Seq(Order) /\ removed + 1 \in 1 .. Len(Makers)
         /\ Maker \in Order /\ MakerLeft \in Nat \ {0}
<1>1. phase = "consume" /\ phase \in OrderPhases /\ phase \in Matching
  BY DEF HasMaker, OrderPhases, Matching
<1>2. Makers \in Seq(Order) /\ removed \in Nat /\ lastFill \in Nat /\ removed < Len(Makers)
  BY <1>1, SideType DEF IInv, TypeOK, SimulatorTypeOK, HasMaker
<1>3. removed + 1 \in 1 .. Len(Makers)
  BY <1>2
<1>4. Maker \in Order
  BY <1>2, <1>3, ElementOfSeq DEF Maker
<1>5. lastFill > 0 => lastFill < Maker.left
  BY <1>1 DEF IInv, SimulatorInBounds
<1>6. Maker.left \in Nat \ {0}
  BY <1>4 DEF Order
<1> QED BY <1>2, <1>3, <1>4, <1>5, <1>6 DEF MakerLeft

-----------------------------------------------------------------------------
(* The steps of a handler *)

\* An exception empties the simulator's record and leaves the market alone.
LEMMA ThrowStep ==
  ASSUME IInv, NEW e \in Errors, Throw(e)
  PROVE  IInv'
<1> USE DEF Throw, Clear, Return, marketVars, bookVars, cacheVars, idVars, walletVars
<1>1. MarketTypeOK'
  BY DEF IInv, TypeOK, MarketTypeOK
<1>2. SimulatorTypeOK'
  BY EmptySeq DEF IInv, TypeOK, SimulatorTypeOK
<1>3. CallTypeOK'
  BY EmptySeq DEF IInv, TypeOK, CallTypeOK, OrderPhases, Matching
<1>4. ReplyTypeOK'
  BY DEF IInv, TypeOK, ReplyTypeOK
<1>5. SimulatorInBounds' /\ WholeLevelsTriggered' /\ ClearedWhenIdle'
  BY DEF SimulatorInBounds, WholeLevelsTriggered, ClearedWhenIdle, Matching
<1> QED BY <1>1, <1>2, <1>3, <1>4, <1>5 DEF IInv, TypeOK

\* The type of a trade with a maker, and of the operation that reports it.
LEMMA TradeType ==
  ASSUME IInv, HasMaker, NEW amount \in Nat
  PROVE  /\ TradeWith(Maker, amount) \in Trade
         /\ NewTradeOp(Maker, amount) \in Operation
<1>1. taker \in Taker /\ Maker \in Order
  BY MakerType DEF IInv, TypeOK, CallTypeOK, HasMaker, OrderPhases, Matching
<1>2. taker.user \in Users /\ taker.id \in Nat
  BY <1>1 DEF Taker
<1>3. Maker.user \in Users /\ Maker.id \in Nat /\ Maker.price \in Nat
  BY <1>1 DEF Order
<1>4. config.feeDivision \in Nat \ {0}
  BY ConfigAssumption DEF IInv, TypeOK, MarketTypeOK
<1>5. amount \div config.feeDivision \in Nat
  BY <1>4, DivType
<1>6. ScaleDown(amount * Maker.price) \div config.feeDivision \in Nat
  <2>1. amount * Maker.price \in Nat
    BY <1>3
  <2>2. ScaleDown(amount * Maker.price) \in Nat
    BY <2>1, ScaleDownType
  <2> QED BY <2>2, <1>4, DivType
<1>7. SimTradeId \in Nat
  BY LenProperties DEF SimTradeId, IInv, TypeOK, MarketTypeOK, SimulatorTypeOK
<1>8. TradeWith(Maker, amount) \in Trade
  BY <1>2, <1>3, <1>5, <1>6 DEF TradeWith, Trade
<1>9. NewTradeOp(Maker, amount) \in Operation
  BY <1>2, <1>3, <1>7 DEF NewTradeOp, Operation
<1> QED BY <1>8, <1>9

\* The operations about one order.
LEMMA OpType ==
  ASSUME NEW type \in {"PartialFill", "OrderFilled", "NewFilledOrder", "NewOpenOrder",
                       "StopLimitTriggered"},
         NEW id \in Nat, NEW amount \in Nat
  PROVE  Op(type, id, amount) \in Operation
BY DEF Op, Operation

\* Eating into a maker: lastFill stays below what the maker has left.
LEMMA ConsumePartStep ==
  ASSUME IInv, ConsumePart
  PROVE  IInv'
<1> USE DEF marketVars, bookVars, cacheVars, idVars, walletVars
<1>1. /\ HasMaker /\ MakerLeft > taker.left /\ phase = "consume"
      /\ taker \in Taker /\ taker.left \in Nat /\ taker.left > 0 /\ taker.id \in Nat
  BY DEF ConsumePart, HasMaker, IInv, TypeOK, CallTypeOK, SimulatorInBounds, Matching,
         OrderPhases, Taker
<1>2. /\ Makers \in Seq(Order) /\ removed + 1 \in 1 .. Len(Makers)
      /\ Maker \in Order /\ MakerLeft \in Nat \ {0} /\ Maker.left \in Nat
      /\ Maker.id \in Nat /\ Maker.price \in Nat
  BY <1>1, MakerType DEF Order
<1>3. removed \in Nat /\ lastFill \in Nat
  BY DEF IInv, TypeOK, SimulatorTypeOK
<1>4. MarketTypeOK'
  BY DEF ConsumePart, IInv, TypeOK, MarketTypeOK
<1>5. SimulatorTypeOK'
  <2>1. TradeWith(Maker, taker.left) \in Trade
    BY <1>1, TradeType
  <2>2. trades' \in Seq(Trade)
    BY <2>1, AppendProperties DEF ConsumePart, IInv, TypeOK, SimulatorTypeOK
  <2> QED BY <1>1, <1>3, <2>2 DEF ConsumePart, IInv, TypeOK, SimulatorTypeOK
<1>6. CallTypeOK'
  BY <1>1, <1>2 DEF ConsumePart, IInv, TypeOK, CallTypeOK, OrderPhases, Matching, Taker
<1>7. ReplyTypeOK'
  <2>1. /\ NewTradeOp(Maker, taker.left) \in Operation
        /\ Op("PartialFill", Maker.id, taker.left) \in Operation
        /\ Op("NewFilledOrder", taker.id, 0) \in Operation
    BY <1>1, <1>2, TradeType, OpType
  <2> DEFINE told == << NewTradeOp(Maker, taker.left), Op("PartialFill", Maker.id, taker.left),
                        Op("NewFilledOrder", taker.id, 0) >>
  <2>2. told \in Seq(Operation)
    BY <2>1
  <2>3. ops' = ops \o told
    BY DEF ConsumePart
  <2> HIDE DEF told
  <2>4. ops' \in Seq(Operation)
    BY <2>2, <2>3, ConcatProperties DEF IInv, TypeOK, ReplyTypeOK
  <2> QED BY <2>4 DEF ConsumePart, IInv, TypeOK, ReplyTypeOK
<1>8. SimulatorInBounds'
  <2>1. Makers' = Makers /\ Maker' = Maker /\ stops' = stops /\ Side' = Side
    BY DEF ConsumePart, Makers, Maker, Side
  <2>2. lastFill' < Maker.left /\ removed' < Len(Makers)
    <3>1. lastFill' = lastFill + taker.left /\ removed' = removed
      BY DEF ConsumePart
    <3>2. Maker.left - lastFill > taker.left
      BY <1>1 DEF MakerLeft
    <3> QED BY <1>1, <1>2, <1>3, <3>1, <3>2
  <2> QED BY <1>1, <1>2, <1>3, <2>1, <2>2
          DEF ConsumePart, IInv, SimulatorInBounds, Matching
<1>9. WholeLevelsTriggered' /\ ClearedWhenIdle'
  BY <1>1 DEF ConsumePart, IInv, WholeLevelsTriggered, ClearedWhenIdle, Matching, Side
<1> QED BY <1>4, <1>5, <1>6, <1>7, <1>8, <1>9 DEF IInv, TypeOK

\* Using a maker up: the next one is untouched, and a taker with nothing left
\* leaves the loop.
LEMMA ConsumeWholeStep ==
  ASSUME IInv, ConsumeWhole
  PROVE  IInv'
<1> USE DEF marketVars, bookVars, cacheVars, idVars, walletVars
<1>1. /\ HasMaker /\ MakerLeft <= taker.left /\ phase = "consume"
      /\ taker \in Taker /\ taker.left \in Nat /\ taker.id \in Nat
      /\ taker.resumed \in Nat /\ taker.resumed <= removed
  BY DEF ConsumeWhole, HasMaker, IInv, TypeOK, CallTypeOK, SimulatorInBounds, Matching,
         OrderPhases, Taker
<1>2. /\ Makers \in Seq(Order) /\ removed + 1 \in 1 .. Len(Makers)
      /\ Maker \in Order /\ MakerLeft \in Nat \ {0}
      /\ Maker.id \in Nat /\ Maker.price \in Nat
  BY <1>1, MakerType DEF Order
<1>3. removed \in Nat
  BY DEF IInv, TypeOK, SimulatorTypeOK
<1>4. taker.left - MakerLeft \in Nat
  BY <1>1, <1>2
<1>5. MarketTypeOK'
  BY DEF ConsumeWhole, IInv, TypeOK, MarketTypeOK
<1>6. SimulatorTypeOK'
  <2>1. TradeWith(Maker, MakerLeft) \in Trade
    BY <1>1, <1>2, TradeType
  <2>2. trades' \in Seq(Trade)
    BY <2>1, AppendProperties DEF ConsumeWhole, IInv, TypeOK, SimulatorTypeOK
  <2> QED BY <1>3, <2>2 DEF ConsumeWhole, IInv, TypeOK, SimulatorTypeOK
<1>7. CallTypeOK'
  <2>1. taker' \in Taker
    BY <1>1, <1>4 DEF ConsumeWhole, Taker
  <2> QED BY <1>1, <1>2, <2>1 DEF ConsumeWhole, IInv, TypeOK, CallTypeOK, OrderPhases, Matching
<1>8. ReplyTypeOK'
  <2>1. /\ NewTradeOp(Maker, MakerLeft) \in Operation
        /\ Op("OrderFilled", Maker.id, 0) \in Operation
        /\ Op("OrderFilled", taker.id, 0) \in Operation
    BY <1>1, <1>2, TradeType, OpType
  <2> DEFINE told == << NewTradeOp(Maker, MakerLeft), Op("OrderFilled", Maker.id, 0) >>
             done == IF MakerLeft = taker.left THEN <<Op("OrderFilled", taker.id, 0)>> ELSE <<>>
  <2>2. told \in Seq(Operation) /\ done \in Seq(Operation)
    BY <2>1
  <2>3. ops' = (ops \o told) \o done
    BY DEF ConsumeWhole
  <2> HIDE DEF told, done
  <2>4. ops \o told \in Seq(Operation)
    BY <2>2, ConcatProperties DEF IInv, TypeOK, ReplyTypeOK
  <2>5. ops' \in Seq(Operation)
    BY <2>2, <2>3, <2>4, ConcatProperties
  <2> QED BY <2>5 DEF ConsumeWhole, IInv, TypeOK, ReplyTypeOK
<1>9. SimulatorInBounds'
  <2>1. Makers' = Makers /\ stops' = stops /\ Side' = Side
    BY DEF ConsumeWhole, Makers, Side
  <2>2. phase' = "consume" => taker'.left > 0
    BY <1>1, <1>2 DEF ConsumeWhole, Taker
  <2>3. taker'.resumed = taker.resumed
    BY <1>1 DEF ConsumeWhole, Taker
  <2>4. removed' = removed + 1 /\ lastFill' = 0 /\ triggered' = triggered
        /\ phase' \in {"consume", "kick"}
    BY DEF ConsumeWhole
  <2> QED BY <1>1, <1>2, <1>3, <2>1, <2>2, <2>3, <2>4 DEF IInv, SimulatorInBounds, Matching
<1>10. WholeLevelsTriggered' /\ ClearedWhenIdle'
  BY <1>1 DEF ConsumeWhole, IInv, WholeLevelsTriggered, ClearedWhenIdle, Matching, Side
<1> QED BY <1>5, <1>6, <1>7, <1>8, <1>9, <1>10 DEF IInv, TypeOK

\* The orders that throw: the taker's own maker, an unfilled market order, and
\* orders refused because of a cap or of their price.
LEMMA RefusalSteps ==
  ASSUME IInv,
         ConsumeOwn \/ MarketOrderUnfilled \/ LimitOrderRefused \/ StopLimitRefused
  PROVE  IInv'
<1>1. CASE ConsumeOwn
  BY <1>1, ThrowStep DEF ConsumeOwn, Errors
<1>2. CASE MarketOrderUnfilled
  BY <1>2, ThrowStep DEF MarketOrderUnfilled, Errors
<1>3. CASE LimitOrderRefused
  BY <1>3, ThrowStep DEF LimitOrderRefused, Errors
<1>4. CASE StopLimitRefused
  BY <1>4, ThrowStep DEF StopLimitRefused, StopError, Errors
<1> QED BY <1>1, <1>2, <1>3, <1>4

\* What is left of a limit order waits to be inserted, with a positive amount.
LEMMA RestLimitOrderStep ==
  ASSUME IInv, RestLimitOrder
  PROVE  IInv'
<1> USE DEF marketVars, bookVars, cacheVars, idVars, walletVars
<1>1. phase = "consume" /\ taker \in Taker /\ taker.left > 0
  BY DEF RestLimitOrder, IInv, TypeOK, CallTypeOK, SimulatorInBounds, Matching, OrderPhases
<1>2. MarketTypeOK'
  BY DEF RestLimitOrder, IInv, TypeOK, MarketTypeOK
<1>3. SimulatorTypeOK'
  <2> DEFINE rest == [id |-> taker.id, user |-> taker.user, price |-> taker.price,
                      actual |-> 0, left |-> taker.left]
  <2>1. rest \in Order
    BY <1>1 DEF Taker, Order
  <2>2. insertedLimits' = Append(insertedLimits, rest)
    BY DEF RestLimitOrder
  <2> HIDE DEF rest
  <2>3. insertedLimits' \in Seq(Order)
    BY <2>1, <2>2, AppendProperties DEF IInv, TypeOK, SimulatorTypeOK
  <2> QED BY <2>3 DEF RestLimitOrder, IInv, TypeOK, SimulatorTypeOK
<1>4. CallTypeOK'
  BY <1>1 DEF RestLimitOrder, IInv, TypeOK, CallTypeOK, OrderPhases, Matching, Taker
<1>5. ReplyTypeOK'
  <2>1. Op("NewOpenOrder", taker.id, taker.left) \in Operation
    BY <1>1, OpType DEF Taker
  <2>2. ops' \in Seq(Operation)
    BY <2>1, AppendProperties DEF RestLimitOrder, IInv, TypeOK, ReplyTypeOK
  <2> QED BY <2>2 DEF RestLimitOrder, IInv, TypeOK, ReplyTypeOK
<1>6. SimulatorInBounds' /\ WholeLevelsTriggered' /\ ClearedWhenIdle'
  BY <1>1 DEF RestLimitOrder, IInv, SimulatorInBounds, WholeLevelsTriggered,
              ClearedWhenIdle, Matching, Side, Makers, Maker
<1> QED BY <1>2, <1>3, <1>4, <1>5, <1>6 DEF IInv, TypeOK

\* A stop-limit order waits to be inserted.
LEMMA PlaceStopLimitStep ==
  ASSUME IInv, PlaceStopLimit
  PROVE  IInv'
<1> USE DEF marketVars, bookVars, cacheVars, idVars, walletVars
<1>1. phase = "stop" /\ taker \in Taker /\ taker.left > 0
  BY DEF PlaceStopLimit, IInv, TypeOK, CallTypeOK, SimulatorInBounds, Matching, OrderPhases
<1>2. MarketTypeOK'
  BY DEF PlaceStopLimit, IInv, TypeOK, MarketTypeOK
<1>3. SimulatorTypeOK'
  <2> DEFINE order == [id |-> taker.id, user |-> taker.user, price |-> taker.price,
                       actual |-> taker.actual, left |-> taker.left]
  <2>1. order \in Order
    BY <1>1 DEF Taker, Order
  <2>2. insertedStop' = <<order>>
    BY DEF PlaceStopLimit
  <2> HIDE DEF order
  <2>3. insertedStop' \in Seq(Order)
    BY <2>1, <2>2
  <2> QED BY <2>3 DEF PlaceStopLimit, IInv, TypeOK, SimulatorTypeOK
<1>4. CallTypeOK'
  BY <1>1 DEF PlaceStopLimit, IInv, TypeOK, CallTypeOK, OrderPhases, Matching, Taker
<1>5. ReplyTypeOK'
  <2>1. Op("NewOpenOrder", taker.id, taker.left) \in Operation
    BY <1>1, OpType DEF Taker
  <2>2. ops' \in Seq(Operation)
    BY <2>1, AppendProperties DEF PlaceStopLimit, IInv, TypeOK, ReplyTypeOK
  <2> QED BY <2>2 DEF PlaceStopLimit, IInv, TypeOK, ReplyTypeOK
<1>6. SimulatorInBounds' /\ WholeLevelsTriggered' /\ ClearedWhenIdle'
  BY <1>1 DEF PlaceStopLimit, IInv, SimulatorInBounds, WholeLevelsTriggered,
              ClearedWhenIdle, Matching, Side, Makers, Maker
<1> QED BY <1>2, <1>3, <1>4, <1>5, <1>6 DEF IInv, TypeOK

\* The orders triggered between two counts.
LEMMA TriggeredUpToType ==
  ASSUME IInv, phase \in Matching, NEW k \in triggered .. Len(stops[Side])
  PROVE  TriggeredUpTo(k) \in Seq(Triggered)
<1>1. stops[Side] \in Seq(Order)
  BY SideType DEF OrderPhases
<1>2. triggered \in Nat
  BY DEF IInv, TypeOK, SimulatorTypeOK
<1>3. SimTradeId - 1 \in Int
  BY LenProperties DEF SimTradeId, IInv, TypeOK, MarketTypeOK, SimulatorTypeOK
<1>4. ASSUME NEW j \in 1 .. k - triggered
      PROVE  [order |-> stops[Side][triggered + j], trade |-> SimTradeId - 1] \in Triggered
  <2>1. stops[Side][triggered + j] \in Order
    BY <1>1, <1>2, ElementOfSeq
  <2> QED BY <1>3, <2>1 DEF Triggered
<1>5. k - triggered \in Nat
  BY <1>1, <1>2
<1> QED BY <1>4, <1>5 DEF TriggeredUpTo

\* The run of triggered orders ends where a price is reached and the next is
\* not: at the end of a level.
LEMMA KickOffStopOrdersStep ==
  ASSUME IInv, KickOffStopOrders
  PROVE  IInv'
<1> USE DEF marketVars, bookVars, cacheVars, idVars, walletVars
<1>1. phase = "kick" /\ phase \in Matching /\ phase \in OrderPhases
  BY DEF KickOffStopOrders, Matching, OrderPhases
<1>2. stops[Side] \in Seq(Order) /\ triggered \in Nat /\ triggered <= Len(stops[Side])
  BY <1>1, SideType DEF IInv, TypeOK, SimulatorTypeOK, SimulatorInBounds
<1> DEFINE k == ReachedEnd(Side, stops[Side], triggered, lastTradePrice)
<1>3. /\ k \in triggered .. Len(stops[Side])
      /\ IsReachedEnd(Side, stops[Side], triggered, lastTradePrice, k)
  BY <1>2, ReachedEndExists
<1>4. triggered' = k /\ pending' = TriggeredUpTo(k) \o pending /\ phase' = "next"
  BY DEF KickOffStopOrders
<1> HIDE DEF k
<1>5. MarketTypeOK' /\ ReplyTypeOK'
  BY DEF KickOffStopOrders, IInv, TypeOK, MarketTypeOK, ReplyTypeOK
<1>6. SimulatorTypeOK'
  BY <1>2, <1>3, <1>4 DEF KickOffStopOrders, IInv, TypeOK, SimulatorTypeOK
<1>7. CallTypeOK'
  <2>1. pending' \in Seq(Triggered)
    BY <1>1, <1>3, <1>4, TriggeredUpToType, ConcatProperties DEF IInv, TypeOK, CallTypeOK
  <2> QED BY <1>1, <1>4, <2>1
          DEF KickOffStopOrders, IInv, TypeOK, CallTypeOK, OrderPhases, Matching
<1>8. stops' = stops /\ Side' = Side /\ Makers' = Makers /\ Maker' = Maker
  BY DEF KickOffStopOrders, Side, Makers, Maker
<1>9. SimulatorInBounds'
  BY <1>1, <1>2, <1>3, <1>4, <1>8 DEF KickOffStopOrders, IInv, SimulatorInBounds, Matching
<1>10. WholeLevelsTriggered'
  <2>1. ASSUME k \in 1 .. Len(stops[Side]) - 1
        PROVE  stops[Side][k].price # stops[Side][k + 1].price
    <3>1. CASE k = triggered
      BY <1>1, <2>1, <3>1 DEF IInv, WholeLevelsTriggered
    <3>2. CASE k # triggered
      <4>1. Reached(Side, stops[Side][k].price, lastTradePrice)
        BY <1>2, <1>3, <3>2 DEF IsReachedEnd
      <4>2. ~Reached(Side, stops[Side][k + 1].price, lastTradePrice)
        BY <1>2, <1>3, <2>1 DEF IsReachedEnd
      <4> QED BY <4>1, <4>2
    <3> QED BY <3>1, <3>2
  <2> QED BY <1>4, <1>8, <2>1 DEF WholeLevelsTriggered
<1>11. ClearedWhenIdle'
  BY <1>4 DEF ClearedWhenIdle
<1> QED BY <1>5, <1>6, <1>7, <1>9, <1>10, <1>11 DEF IInv, TypeOK

\* A call that has not traded triggers nothing.
LEMMA NoTradeNoKickStep ==
  ASSUME IInv, NoTradeNoKick
  PROVE  IInv'
BY DEF NoTradeNoKick, IInv, TypeOK, MarketTypeOK, SimulatorTypeOK, CallTypeOK, ReplyTypeOK,
       SimulatorInBounds, WholeLevelsTriggered, ClearedWhenIdle, Matching, OrderPhases,
       Side, Makers, Maker, marketVars, bookVars, cacheVars, idVars, walletVars, callVars, simVars

\* A triggered order becomes the taker; it takes up where the makers ended.
LEMMA ProcessStopOrderStep ==
  ASSUME IInv, ProcessStopOrder
  PROVE  IInv'
<1> USE DEF marketVars, bookVars, cacheVars, idVars, walletVars, simVars
<1>1. phase = "next" /\ phase \in Matching /\ phase \in OrderPhases
  BY DEF ProcessStopOrder, Matching, OrderPhases
<1>2. /\ Head(pending) \in Triggered /\ pending' \in Seq(Triggered)
  BY HeadTailProperties DEF ProcessStopOrder, IInv, TypeOK, CallTypeOK
<1> DEFINE o == Head(pending).order
           id == Head(pending).trade
<1>3. o \in Order /\ o.id \in Nat /\ o.left \in Nat \ {0} /\ id \in Int
  BY <1>2 DEF Triggered, Order
<1>4. taker' = [id |-> o.id, user |-> o.user, kind |-> "limit", price |-> o.actual,
                actual |-> 0, left |-> o.left, resumed |-> removed]
  BY DEF ProcessStopOrder
<1>5. ops' = Append(ops, [Op("StopLimitTriggered", o.id, 0) EXCEPT !.id2 = id])
  BY DEF ProcessStopOrder
<1> HIDE DEF o, id
<1>6. removed \in Nat
  BY DEF IInv, TypeOK, SimulatorTypeOK
<1>7. taker' \in Taker
  BY <1>3, <1>4, <1>6 DEF Taker, Order
<1>8. MarketTypeOK' /\ SimulatorTypeOK'
  BY DEF ProcessStopOrder, IInv, TypeOK, MarketTypeOK, SimulatorTypeOK
<1>9. CallTypeOK'
  BY <1>1, <1>2, <1>7 DEF ProcessStopOrder, IInv, TypeOK, CallTypeOK, OrderPhases, Matching
<1>10. ReplyTypeOK'
  <2>1. [Op("StopLimitTriggered", o.id, 0) EXCEPT !.id2 = id] \in Operation
    BY <1>3 DEF Op, Operation
  <2>2. ops' \in Seq(Operation)
    BY <1>5, <2>1, AppendProperties DEF IInv, TypeOK, ReplyTypeOK
  <2> QED BY <2>2 DEF ProcessStopOrder, IInv, TypeOK, ReplyTypeOK
<1>11. SimulatorInBounds'
  <2>1. taker'.left > 0 /\ taker'.resumed = removed
    BY <1>3, <1>4
  <2>2. Side' = Side /\ Makers' = Makers /\ Maker' = Maker /\ stops' = stops
    BY DEF ProcessStopOrder, Side, Makers, Maker
  <2> QED BY <1>1, <1>6, <2>1, <2>2
          DEF ProcessStopOrder, IInv, SimulatorInBounds, Matching
<1>12. WholeLevelsTriggered' /\ ClearedWhenIdle'
  BY <1>1 DEF ProcessStopOrder, IInv, WholeLevelsTriggered, ClearedWhenIdle, Matching, Side
<1> QED BY <1>8, <1>9, <1>10, <1>11, <1>12 DEF IInv, TypeOK

-----------------------------------------------------------------------------
(* The commit *)

\* The triggered stop orders leave the front of their book: they are in it.
LEMMA PostProcessStep ==
  ASSUME IInv, PostProcess
  PROVE  IInv'
<1> USE DEF marketVars, bookVars, cacheVars, idVars, walletVars, simVars, callVars
<1>1. phase = "next" /\ phase \in Matching /\ phase \in OrderPhases
  BY DEF PostProcess, Matching, OrderPhases
<1>2. /\ Side \in Sides /\ stops[Side] \in Seq(Order) /\ triggered \in Nat
      /\ triggered <= Len(stops[Side])
  BY <1>1, SideType DEF IInv, TypeOK, SimulatorTypeOK, SimulatorInBounds
<1>3. MarketTypeOK'
  <2>1. DropFirst(stops[Side], triggered) \in Seq(Order)
    BY <1>2, DropFirstProperties
  <2>2. stops' \in [Sides -> Seq(Order)]
    BY <1>2, <2>1 DEF PostProcess, IInv, TypeOK, MarketTypeOK
  <2>3. currentOrderId' \in Nat /\ currentTradeId' \in Nat
    BY LenProperties DEF PostProcess, SimTradeId, IInv, TypeOK, MarketTypeOK, SimulatorTypeOK
  <2> QED BY <2>2, <2>3 DEF PostProcess, IInv, TypeOK, MarketTypeOK
<1>4. SimulatorTypeOK' /\ ReplyTypeOK'
  BY DEF PostProcess, IInv, TypeOK, SimulatorTypeOK, ReplyTypeOK
<1>5. CallTypeOK'
  BY <1>1 DEF PostProcess, IInv, TypeOK, CallTypeOK, OrderPhases, Matching
<1>6. SimulatorInBounds' /\ WholeLevelsTriggered' /\ ClearedWhenIdle'
  BY <1>1 DEF PostProcess, IInv, SimulatorInBounds, WholeLevelsTriggered, ClearedWhenIdle,
              Matching, Side, Makers, Maker
<1> QED BY <1>3, <1>4, <1>5, <1>6 DEF IInv, TypeOK

\* An entry of the cache.
LEMMA EntryType ==
  ASSUME NEW kind \in {"limit", "stop"}, NEW side \in Sides, NEW o \in Order
  PROVE  Entry(kind, side, o) \in CacheEntry
BY DEF Entry, CacheEntry, Order

\* The order goes to the book of the taker's side: the makers are not moved.
LEMMA InsertLimitOrderStep ==
  ASSUME IInv, InsertLimitOrder
  PROVE  IInv'
<1> USE DEF marketVars, bookVars, cacheVars, idVars, walletVars, callVars
<1>1. phase = "insert" /\ phase \in OrderPhases /\ phase' = phase
  BY DEF InsertLimitOrder, OrderPhases
<1>2. Side \in Sides /\ limits[Side] \in Seq(Order)
  BY <1>1, SideType
<1> DEFINE o == Head(insertedLimits)
<1>3. o \in Order /\ insertedLimits' \in Seq(Order)
  BY HeadTailProperties DEF InsertLimitOrder, IInv, TypeOK, SimulatorTypeOK
<1>4. /\ limits' = [limits EXCEPT ![Side] = PushBack(Opposite(Side), @, o)]
      /\ userOrders' = userOrders \cup {Entry("limit", Side, o)}
      /\ knownUsers' = knownUsers \cup {o.user}
  BY DEF InsertLimitOrder
<1> HIDE DEF o
<1>5. MarketTypeOK'
  <2>1. PushBack(Opposite(Side), limits[Side], o) \in Seq(Order)
    BY <1>2, <1>3, PushBackProperties
  <2>2. limits' \in [Sides -> Seq(Order)]
    BY <1>2, <1>4, <2>1 DEF IInv, TypeOK, MarketTypeOK
  <2>3. userOrders' \subseteq CacheEntry /\ knownUsers' \subseteq Users
    BY <1>2, <1>3, <1>4, EntryType DEF IInv, TypeOK, MarketTypeOK, Order
  <2> QED BY <2>2, <2>3 DEF InsertLimitOrder, IInv, TypeOK, MarketTypeOK
<1>6. SimulatorTypeOK' /\ CallTypeOK' /\ ReplyTypeOK'
  BY <1>3 DEF InsertLimitOrder, IInv, TypeOK, SimulatorTypeOK, CallTypeOK, ReplyTypeOK
<1>7. Makers' = Makers /\ Maker' = Maker
  <2>1. limits'[Opposite(Side)] = limits[Opposite(Side)] /\ Side' = Side
    BY <1>2, <1>4 DEF InsertLimitOrder, IInv, TypeOK, MarketTypeOK, Opposite, Sides, Side
  <2> QED BY <2>1 DEF InsertLimitOrder, Makers, Maker
<1>8. SimulatorInBounds' /\ WholeLevelsTriggered' /\ ClearedWhenIdle'
  BY <1>1, <1>7 DEF InsertLimitOrder, IInv, SimulatorInBounds, WholeLevelsTriggered,
                    ClearedWhenIdle, Matching
<1> QED BY <1>5, <1>6, <1>8 DEF IInv, TypeOK

\* The book the commit makes of the makers: the bounds make its first order one
\* that has something left.
LEMMA UpdatedMakersType ==
  ASSUME IInv, phase = "insert"
  PROVE  UpdatedMakers \in Seq(Order)
<1>1. /\ Makers \in Seq(Order) /\ removed \in Nat /\ lastFill \in Nat
      /\ removed <= Len(Makers)
      /\ lastFill > 0 => removed < Len(Makers) /\ lastFill < Makers[removed + 1].left
  BY SideType DEF IInv, TypeOK, SimulatorTypeOK, SimulatorInBounds, OrderPhases, Maker
<1> DEFINE rest == DropFirst(Makers, removed)
<1>2. /\ rest \in Seq(Order) /\ Len(rest) = Len(Makers) - removed
      /\ \A i \in 1 .. Len(Makers) - removed : rest[i] = Makers[removed + i]
  BY <1>1, DropFirstProperties
<1>3. UpdatedMakers = IF lastFill > 0 THEN [rest EXCEPT ![1].left = @ - lastFill] ELSE rest
  BY DEF UpdatedMakers
<1> HIDE DEF rest
<1>4. CASE lastFill > 0
  <2>1. 1 \in 1 .. Len(rest) /\ rest[1] = Makers[removed + 1]
    BY <1>1, <1>2, <1>4
  <2>2. rest[1] \in Order /\ rest[1].left - lastFill \in Nat \ {0}
    <3>1. rest[1] \in Order
      BY <1>2, <2>1, ElementOfSeq
    <3>2. rest[1].left \in Nat
      BY <3>1 DEF Order
    <3>3. lastFill \in Nat /\ lastFill < rest[1].left
      BY <1>1, <1>4, <2>1
    <3> QED BY <3>1, <3>2, <3>3
  <2>3. [rest[1] EXCEPT !.left = @ - lastFill] \in Order
    BY <2>2 DEF Order
  <2>4. [rest EXCEPT ![1] = [rest[1] EXCEPT !.left = @ - lastFill]] \in Seq(Order)
    BY <1>2, <2>1, <2>3, ExceptSeq
  <2> QED BY <1>3, <1>4, <2>4
<1>5. CASE ~(lastFill > 0)
  BY <1>2, <1>3, <1>5
<1> QED BY <1>4, <1>5

\* Adding to what a user has in order.
LEMMA HoldType ==
  ASSUME NEW wallet \in [Users -> Address], NEW user \in Users, NEW amount \in Int
  PROVE  Hold(wallet, user, amount) \in [Users -> Address]
BY DEF Hold, Address

\* The makers lose what was traded, the stop order is filed, the taker's funds
\* are held.
LEMMA UpdateBooksStep ==
  ASSUME IInv, UpdateBooks
  PROVE  IInv'
<1> USE DEF idVars, simVars, callVars
<1>1. phase = "insert" /\ phase \in OrderPhases /\ phase' = "settle"
  BY DEF UpdateBooks, OrderPhases
<1>2. /\ Side \in Sides /\ Opposite(Side) \in Sides /\ stops[Side] \in Seq(Order)
      /\ message.user \in Users /\ message.amount \in Int
  BY <1>1, SideType
<1>3. limits' \in [Sides -> Seq(Order)]
  <2>1. limits' = [limits EXCEPT ![Opposite(Side)] = UpdatedMakers]
    BY DEF UpdateBooks
  <2> QED BY <1>1, <1>2, <2>1, UpdatedMakersType DEF IInv, TypeOK, MarketTypeOK
<1>4. \A i \in 1 .. Len(insertedStop) : insertedStop[i] \in Order
  BY ElementOfSeq DEF IInv, TypeOK, SimulatorTypeOK
<1>5. stops' \in [Sides -> Seq(Order)]
  <2>1. CASE insertedStop = <<>>
    BY <2>1 DEF UpdateBooks, IInv, TypeOK, MarketTypeOK
  <2>2. CASE insertedStop # <<>>
    <3>1. insertedStop[1] \in Order
      BY <1>4, <2>2, EmptySeq DEF IInv, TypeOK, SimulatorTypeOK
    <3>2. PushBack(Side, stops[Side], insertedStop[1]) \in Seq(Order)
      BY <1>2, <3>1, PushBackProperties
    <3>3. stops' = [stops EXCEPT ![Side] = PushBack(Side, stops[Side], insertedStop[1])]
      BY <2>2 DEF UpdateBooks
    <3> QED BY <1>2, <3>2, <3>3 DEF IInv, TypeOK, MarketTypeOK
  <2> QED BY <2>1, <2>2
<1>6. userOrders' \subseteq CacheEntry /\ knownUsers' \subseteq Users
  <2> DEFINE placed == {insertedStop[i] : i \in 1 .. Len(insertedStop)}
  <2>1. /\ userOrders' = (userOrders \cup {Entry("stop", Side, o) : o \in placed}) \ MakerEntries
        /\ knownUsers' = knownUsers \cup {o.user : o \in placed}
    BY DEF UpdateBooks
  <2>2. placed \subseteq Order
    BY <1>4
  <2> HIDE DEF placed
  <2>3. {Entry("stop", Side, o) : o \in placed} \subseteq CacheEntry
    BY <1>2, <2>2, EntryType
  <2>4. {o.user : o \in placed} \subseteq Users
    BY <2>2 DEF Order
  <2> QED BY <2>1, <2>3, <2>4 DEF IInv, TypeOK, MarketTypeOK
<1>7. coin' \in [Users -> Address] /\ base' \in [Users -> Address]
  BY <1>2, HoldType DEF UpdateBooks, IInv, TypeOK, MarketTypeOK
<1>8. MarketTypeOK'
  BY <1>3, <1>5, <1>6, <1>7 DEF UpdateBooks, IInv, TypeOK, MarketTypeOK
<1>9. SimulatorTypeOK' /\ ReplyTypeOK'
  BY DEF UpdateBooks, IInv, TypeOK, SimulatorTypeOK, ReplyTypeOK
<1>10. CallTypeOK'
  BY <1>1 DEF UpdateBooks, IInv, TypeOK, CallTypeOK, OrderPhases, Matching
<1>11. SimulatorInBounds' /\ WholeLevelsTriggered' /\ ClearedWhenIdle'
  BY <1>1 DEF SimulatorInBounds, WholeLevelsTriggered, ClearedWhenIdle, Matching
<1> QED BY <1>8, <1>9, <1>10, <1>11 DEF IInv, TypeOK

\* Credits and debits of a user.
LEMMA CreditDebitType ==
  ASSUME NEW wallet \in [Users -> Address], NEW user \in Users, NEW amount \in Int
  PROVE  /\ Credit(wallet, user, amount) \in [Users -> Address]
         /\ Debit(wallet, user, amount) \in [Users -> Address]
BY DEF Credit, Debit, Address

\* A trade reaches the wallets.
LEMMA SettleTradeStep ==
  ASSUME IInv, SettleTrade
  PROVE  IInv'
<1> USE DEF bookVars, cacheVars, idVars, callVars
<1>1. phase = "settle" /\ phase' = phase
  BY DEF SettleTrade
<1> DEFINE t == Head(trades)
<1>2. t \in Trade /\ trades' \in Seq(Trade)
  BY HeadTailProperties DEF SettleTrade, IInv, TypeOK, SimulatorTypeOK
<1>3. /\ coin' = Debit(Credit(coin, t.buyer, t.amount - t.buyFee), t.seller, t.amount)
      /\ base' = Credit(Debit(base, t.buyer, ScaleDown(t.amount * t.price)),
                        t.seller, t.amount - t.sellFee)
  BY DEF SettleTrade
<1> HIDE DEF t
<1>4. /\ t.buyer \in Users /\ t.seller \in Users /\ t.amount \in Int
      /\ t.amount - t.buyFee \in Int /\ t.amount - t.sellFee \in Int
      /\ t.amount * t.price \in Nat
  BY <1>2 DEF Trade
<1>5. ScaleDown(t.amount * t.price) \in Int
  BY <1>4, ScaleDownType
<1>6. coin' \in [Users -> Address]
  <2>1. Credit(coin, t.buyer, t.amount - t.buyFee) \in [Users -> Address]
    BY <1>4, CreditDebitType DEF IInv, TypeOK, MarketTypeOK
  <2> QED BY <1>3, <1>4, <2>1, CreditDebitType
<1>7. base' \in [Users -> Address]
  <2>1. Debit(base, t.buyer, ScaleDown(t.amount * t.price)) \in [Users -> Address]
    BY <1>4, <1>5, CreditDebitType DEF IInv, TypeOK, MarketTypeOK
  <2> QED BY <1>3, <1>4, <2>1, CreditDebitType
<1>8. MarketTypeOK' /\ SimulatorTypeOK' /\ CallTypeOK' /\ ReplyTypeOK'
  BY <1>2, <1>6, <1>7 DEF SettleTrade, IInv, TypeOK, MarketTypeOK, SimulatorTypeOK,
                          CallTypeOK, ReplyTypeOK
<1>9. SimulatorInBounds' /\ WholeLevelsTriggered' /\ ClearedWhenIdle'
  BY <1>1 DEF SimulatorInBounds, WholeLevelsTriggered, ClearedWhenIdle, Matching
<1> QED BY <1>8, <1>9 DEF IInv, TypeOK

\* The reply to an order.
LEMMA AnswerOrderStep ==
  ASSUME IInv, AnswerOrder
  PROVE  IInv'
<1> USE DEF AnswerOrder, Clear, Return, marketVars, bookVars, cacheVars, idVars, walletVars
<1>1. MarketTypeOK' /\ SimulatorTypeOK' /\ CallTypeOK' /\ ReplyTypeOK'
  BY EmptySeq DEF IInv, TypeOK, MarketTypeOK, SimulatorTypeOK, CallTypeOK, ReplyTypeOK,
                  OrderPhases, Matching
<1>2. SimulatorInBounds' /\ WholeLevelsTriggered' /\ ClearedWhenIdle'
  BY DEF SimulatorInBounds, WholeLevelsTriggered, ClearedWhenIdle, Matching
<1> QED BY <1>1, <1>2 DEF IInv, TypeOK

-----------------------------------------------------------------------------
(* Between orders *)

\* Outside of an order message the bounds say nothing: a step that leaves the
\* simulator's record alone has only the types to keep.
LEMMA IdleStep ==
  ASSUME IInv, phase \in {"idle", "cancel"}, phase' \in {"idle", "cancel"},
         UNCHANGED simVars, TypeOK'
  PROVE  IInv'
BY DEF IInv, SimulatorInBounds, WholeLevelsTriggered, ClearedWhenIdle, Matching, simVars

\* An order that fails its validation.
LEMMA RejectOrderStep ==
  ASSUME IInv, NEW m \in Orders, RejectOrder(m)
  PROVE  IInv'
<1>1. phase = "idle" /\ phase' = "idle" /\ UNCHANGED simVars
  BY DEF RejectOrder, Receivable
<1>2. TypeOK'
  BY DEF RejectOrder, IInv, TypeOK, MarketTypeOK, SimulatorTypeOK, CallTypeOK, ReplyTypeOK,
         marketVars, bookVars, cacheVars, idVars, walletVars, simVars, callVars
<1> QED BY <1>1, <1>2, IdleStep

\* An order that is accepted finds the simulator's record empty.
LEMMA AcceptOrderStep ==
  ASSUME IInv, NEW m \in Orders, AcceptOrder(m)
  PROVE  IInv'
<1> USE DEF marketVars, bookVars, cacheVars, idVars, walletVars, simVars
<1>1. /\ phase = "idle" /\ phase' \in {"stop", "consume"} /\ m \in OrderMessage
  BY OrdersAssumption DEF AcceptOrder, Receivable
<1>2. m.side \in Sides /\ m.amount \in Nat \ {0}
  BY <1>1 DEF OrderMessage
<1>3. removed' = 0 /\ lastFill' = 0 /\ triggered' = 0
  BY <1>1 DEF AcceptOrder, IInv, ClearedWhenIdle
<1>4. MarketTypeOK' /\ SimulatorTypeOK'
  BY DEF AcceptOrder, IInv, TypeOK, MarketTypeOK, SimulatorTypeOK
<1>5. taker' \in Taker /\ taker'.left > 0 /\ taker'.resumed = 0
  BY <1>1, <1>2 DEF AcceptOrder, OrderMessage, Taker, IInv, TypeOK, MarketTypeOK
<1>6. CallTypeOK' /\ ReplyTypeOK'
  BY <1>1, <1>5 DEF AcceptOrder, IInv, TypeOK, CallTypeOK, ReplyTypeOK, OrderPhases, Matching
<1>7. SimulatorInBounds'
  <2>1. message' = m
    BY DEF AcceptOrder
  <2>2. m.side \in Sides /\ Opposite(m.side) \in Sides
    BY <1>2 DEF Opposite, Sides
  <2>3. limits'[Opposite(m.side)] \in Seq(Order) /\ stops'[m.side] \in Seq(Order)
    BY <1>4, <2>2 DEF MarketTypeOK
  <2>4. Len(Makers') \in Nat /\ Len(stops'[Side']) \in Nat
    BY <2>1, <2>3, LenProperties DEF Makers, Side
  <2> QED BY <1>3, <1>5, <2>4 DEF SimulatorInBounds
<1>8. WholeLevelsTriggered' /\ ClearedWhenIdle'
  BY <1>1, <1>3 DEF WholeLevelsTriggered, ClearedWhenIdle
<1> QED BY <1>4, <1>6, <1>7, <1>8 DEF IInv, TypeOK

\* Taking an order out of a book leaves books.
LEMMA RemoveFromBookType ==
  ASSUME IInv, NEW kind \in {"limit", "stop"}, NEW side \in Sides,
         NEW i \in 1 .. Len(Book(kind, side)), RemoveFromBook(kind, side, i)
  PROVE  limits' \in [Sides -> Seq(Order)] /\ stops' \in [Sides -> Seq(Order)]
<1>1. limits \in [Sides -> Seq(Order)] /\ stops \in [Sides -> Seq(Order)]
  BY DEF IInv, TypeOK, MarketTypeOK
<1>2. CASE kind = "limit"
  <2>1. Without(limits[side], i) \in Seq(Order)
    BY <1>1, <1>2, WithoutProperties DEF Book
  <2> QED BY <1>1, <1>2, <2>1 DEF RemoveFromBook
<1>3. CASE kind = "stop"
  <2>1. Without(stops[side], i) \in Seq(Order)
    BY <1>1, <1>3, WithoutProperties DEF Book
  <2> QED BY <1>1, <1>3, <2>1 DEF RemoveFromBook
<1> QED BY <1>2, <1>3

\* An order is cancelled by its price and id.
LEMMA CancelOrderStep ==
  ASSUME IInv, NEW kind \in {"limit", "stop"}, NEW side \in Sides,
         NEW i \in 1 .. Len(Book(kind, side)), CancelOrder(kind, side, i)
  PROVE  IInv'
<1> USE DEF idVars, simVars, callVars
<1>1. phase = "idle" /\ phase' = "idle" /\ UNCHANGED simVars
  BY DEF CancelOrder
<1> DEFINE o == Book(kind, side)[i]
<1>2. o \in Order
  <2>1. Book(kind, side) \in Seq(Order)
    BY DEF Book, IInv, TypeOK, MarketTypeOK
  <2> QED BY <2>1, ElementOfSeq
<1>3. /\ RemoveFromBook(kind, side, i)
      /\ base' = IF side = "Buy"  THEN Hold(base, o.user, -o.left) ELSE base
      /\ coin' = IF side = "Sell" THEN Hold(coin, o.user, -o.left) ELSE coin
      /\ userOrders' = userOrders \ {Entry(kind, side, o)}
  BY DEF CancelOrder
<1> HIDE DEF o
<1>4. base' \in [Users -> Address] /\ coin' \in [Users -> Address]
  <2>1. o.user \in Users /\ -o.left \in Int
    BY <1>2 DEF Order
  <2> QED BY <1>3, <2>1, HoldType DEF IInv, TypeOK, MarketTypeOK
<1>5. limits' \in [Sides -> Seq(Order)] /\ stops' \in [Sides -> Seq(Order)]
  BY <1>3, RemoveFromBookType
<1>6. TypeOK'
  BY <1>1, <1>3, <1>4, <1>5
     DEF CancelOrder, IInv, TypeOK, MarketTypeOK, SimulatorTypeOK, CallTypeOK, ReplyTypeOK,
         OrderPhases, Matching
<1> QED BY <1>1, <1>6, IdleStep

\* Releasing what users have in order.
LEMMA ReleaseType ==
  ASSUME NEW wallet \in [Users -> Address], NEW users
  PROVE  Release(wallet, users) \in [Users -> Address]
BY DEF Release, Address

\* ClearOpenOrders starts or fails.
LEMMA ClearOpenOrdersStep ==
  ASSUME IInv, NEW user \in Users, ClearOpenOrders(user)
  PROVE  IInv'
<1> USE DEF bookVars, cacheVars, idVars, simVars
<1>1. phase = "idle" /\ phase' \in {"idle", "cancel"} /\ UNCHANGED simVars
  BY DEF ClearOpenOrders
<1>2. coin' \in [Users -> Address] /\ base' \in [Users -> Address]
  BY ReleaseType DEF ClearOpenOrders, IInv, TypeOK, MarketTypeOK
<1>3. toCancel' \subseteq CacheEntry /\ (phase' = "cancel" => message' \in Users)
  BY <1>1 DEF ClearOpenOrders, EntriesOf, IInv, TypeOK, MarketTypeOK, CallTypeOK
<1>4. reply' \in Errors \cup {"ok", "none", "out_of_range"}
  BY DEF ClearOpenOrders
<1>5. TypeOK'
  BY <1>1, <1>2, <1>3, <1>4
     DEF ClearOpenOrders, IInv, TypeOK, MarketTypeOK, SimulatorTypeOK, CallTypeOK, ReplyTypeOK,
         OrderPhases, Matching
<1> QED BY <1>1, <1>5, IdleStep

\* The loop of CancelAll(user): an order, a stale entry, the end.
LEMMA CancelAllSteps ==
  ASSUME IInv,
         CancelledAll \/ \E e \in toCancel : CancelNext(e) \/ CancelStale(e)
  PROVE  IInv'
<1> USE DEF cacheVars, idVars, walletVars, simVars
<1>1. CASE CancelledAll
  <2>1. phase = "cancel" /\ phase' = "idle" /\ UNCHANGED simVars
    BY <1>1 DEF CancelledAll
  <2>2. TypeOK'
    BY <1>1, <2>1
       DEF CancelledAll, bookVars, IInv, TypeOK, MarketTypeOK, SimulatorTypeOK, CallTypeOK,
           ReplyTypeOK, OrderPhases, Matching
  <2> QED BY <2>1, <2>2, IdleStep
<1>2. ASSUME NEW e \in toCancel, CancelNext(e) PROVE IInv'
  <2>1. phase = "cancel" /\ phase' = "cancel" /\ UNCHANGED simVars
    BY <1>2 DEF CancelNext
  <2>2. e \in CacheEntry
    BY DEF IInv, TypeOK, CallTypeOK
  <2>3. e.kind \in {"limit", "stop"} /\ e.side \in Sides
    BY <2>2 DEF CacheEntry
  <2>4. PICK i \in 1 .. Len(Book(e.kind, e.side)) : RemoveFromBook(e.kind, e.side, i)
    BY <1>2 DEF CancelNext
  <2>5. limits' \in [Sides -> Seq(Order)] /\ stops' \in [Sides -> Seq(Order)]
    BY <2>3, <2>4, RemoveFromBookType
  <2>6. TypeOK'
    BY <1>2, <2>1, <2>5
       DEF CancelNext, callVars, IInv, TypeOK, MarketTypeOK, SimulatorTypeOK, CallTypeOK,
           ReplyTypeOK, OrderPhases, Matching
  <2> QED BY <2>1, <2>6, IdleStep
<1>3. ASSUME NEW e \in toCancel, CancelStale(e) PROVE IInv'
  <2>1. phase = "cancel" /\ phase' = "idle" /\ UNCHANGED simVars
    BY <1>3 DEF CancelStale
  <2>2. TypeOK'
    BY <1>3, <2>1
       DEF CancelStale, marketVars, bookVars, IInv, TypeOK, MarketTypeOK, SimulatorTypeOK,
           CallTypeOK, ReplyTypeOK, OrderPhases, Matching, Errors
  <2> QED BY <2>1, <2>2, IdleStep
<1> QED BY <1>1, <1>2, <1>3

\* The messages that are done in one step.
LEMMA OtherMessageSteps ==
  ASSUME IInv,
         \/ CancelUnknownOrder \/ ClearEveryonesOpenOrders
         \/ SetFeePercentage \/ SetMaxNumLimitOpenOrders \/ SetMaxNumStopLimitOpenOrders
  PROVE  IInv'
<1> USE DEF idVars, simVars, callVars
<1>1. CASE CancelUnknownOrder
  <2>1. phase = "idle" /\ phase' = "idle" /\ UNCHANGED simVars
    BY <1>1 DEF CancelUnknownOrder
  <2>2. TypeOK'
    BY <1>1, <2>1
       DEF CancelUnknownOrder, marketVars, bookVars, cacheVars, walletVars, IInv, TypeOK,
           MarketTypeOK, SimulatorTypeOK, CallTypeOK, ReplyTypeOK, Errors
  <2> QED BY <2>1, <2>2, IdleStep
<1>2. CASE ClearEveryonesOpenOrders
  <2>1. phase = "idle" /\ phase' = "idle" /\ UNCHANGED simVars
    BY <1>2 DEF ClearEveryonesOpenOrders
  <2>2. coin' \in [Users -> Address] /\ base' \in [Users -> Address]
    BY <1>2, ReleaseType DEF ClearEveryonesOpenOrders, IInv, TypeOK, MarketTypeOK
  <2>3. limits' \in [Sides -> Seq(Order)] /\ stops' \in [Sides -> Seq(Order)]
    BY <1>2, EmptySeq DEF ClearEveryonesOpenOrders
  <2>4. TypeOK'
    BY <1>2, <2>1, <2>2, <2>3
       DEF ClearEveryonesOpenOrders, IInv, TypeOK, MarketTypeOK, SimulatorTypeOK, CallTypeOK,
           ReplyTypeOK
  <2> QED BY <2>1, <2>4, IdleStep
<1>3. CASE SetFeePercentage \/ SetMaxNumLimitOpenOrders \/ SetMaxNumStopLimitOpenOrders
  <2> USE DEF SetFeePercentage, SetMaxNumLimitOpenOrders, SetMaxNumStopLimitOpenOrders, SetConfig
  <2>1. phase = "idle" /\ phase' = "idle" /\ UNCHANGED simVars
    BY <1>3
  <2>2. config' \in [feeDivision : FeeDivisions, limitCap : LimitCaps, stopCap : StopCaps]
    BY <1>3 DEF IInv, TypeOK, MarketTypeOK
  <2>3. TypeOK'
    BY <1>3, <2>1, <2>2
       DEF bookVars, cacheVars, walletVars, IInv, TypeOK, MarketTypeOK, SimulatorTypeOK,
           CallTypeOK, ReplyTypeOK
  <2> QED BY <2>1, <2>3, IdleStep
<1> QED BY <1>1, <1>2, <1>3

-----------------------------------------------------------------------------
(* The invariant *)

\* A new market satisfies the invariant.
LEMMA InitInvariant == Init => IInv
<1> SUFFICES ASSUME Init PROVE IInv
  OBVIOUS
<1>1. MarketTypeOK
  BY BalanceAssumption, EmptySeq DEF Init, MarketTypeOK, Address
<1>2. SimulatorTypeOK
  BY EmptySeq DEF Init, SimulatorTypeOK
<1>3. CallTypeOK /\ ReplyTypeOK
  BY EmptySeq DEF Init, CallTypeOK, ReplyTypeOK, OrderPhases, Matching
<1>4. SimulatorInBounds /\ WholeLevelsTriggered /\ ClearedWhenIdle
  BY DEF Init, SimulatorInBounds, WholeLevelsTriggered, ClearedWhenIdle, Matching
<1> QED BY <1>1, <1>2, <1>3, <1>4 DEF IInv, TypeOK

\* Every step of a handler keeps the invariant.
LEMMA ProcessingInvariant ==
  ASSUME IInv, Processing
  PROVE  IInv'
<1>1. CASE ConsumeOwn \/ MarketOrderUnfilled \/ LimitOrderRefused \/ StopLimitRefused
  BY <1>1, RefusalSteps
<1>2. CASE ConsumePart
  BY <1>2, ConsumePartStep
<1>3. CASE ConsumeWhole
  BY <1>3, ConsumeWholeStep
<1>4. CASE RestLimitOrder
  BY <1>4, RestLimitOrderStep
<1>5. CASE PlaceStopLimit
  BY <1>5, PlaceStopLimitStep
<1>6. CASE KickOffStopOrders
  BY <1>6, KickOffStopOrdersStep
<1>7. CASE NoTradeNoKick
  BY <1>7, NoTradeNoKickStep
<1>8. CASE ProcessStopOrder
  BY <1>8, ProcessStopOrderStep
<1>9. CASE PostProcess
  BY <1>9, PostProcessStep
<1>10. CASE InsertLimitOrder
  BY <1>10, InsertLimitOrderStep
<1>11. CASE UpdateBooks
  BY <1>11, UpdateBooksStep
<1>12. CASE SettleTrade
  BY <1>12, SettleTradeStep
<1>13. CASE AnswerOrder
  BY <1>13, AnswerOrderStep
<1>14. CASE CancelledAll \/ \E e \in toCancel : CancelNext(e) \/ CancelStale(e)
  BY <1>14, CancelAllSteps
<1> QED BY <1>1, <1>2, <1>3, <1>4, <1>5, <1>6, <1>7, <1>8, <1>9, <1>10, <1>11, <1>12, <1>13,
           <1>14 DEF Processing

\* So does every message that arrives.
LEMMA ReceiveInvariant ==
  ASSUME IInv, Receive
  PROVE  IInv'
<1>1. CASE \E m \in Orders : RejectOrder(m) \/ AcceptOrder(m)
  BY <1>1, RejectOrderStep, AcceptOrderStep
<1>2. CASE \E kind \in {"limit", "stop"}, side \in Sides :
             \E i \in 1 .. Len(Book(kind, side)) : CancelOrder(kind, side, i)
  BY <1>2, CancelOrderStep
<1>3. CASE \E user \in Users : ClearOpenOrders(user)
  BY <1>3, ClearOpenOrdersStep
<1>4. CASE \/ CancelUnknownOrder \/ ClearEveryonesOpenOrders
           \/ SetFeePercentage \/ SetMaxNumLimitOpenOrders \/ SetMaxNumStopLimitOpenOrders
  BY <1>4, OtherMessageSteps
<1> QED BY <1>1, <1>2, <1>3, <1>4 DEF Receive

\* A step that changes nothing keeps it as well.
LEMMA StutterInvariant ==
  ASSUME IInv, UNCHANGED vars
  PROVE  IInv'
BY DEF vars, IInv, TypeOK, MarketTypeOK, SimulatorTypeOK, CallTypeOK, ReplyTypeOK,
       SimulatorInBounds, WholeLevelsTriggered, ClearedWhenIdle, Side, Makers, Maker,
       marketVars, bookVars, cacheVars, idVars, walletVars, callVars, simVars

\* The invariant holds of every market, whatever its users send.
THEOREM Invariance == Spec => []IInv
<1>1. IInv /\ [Next]_vars => IInv'
  BY ProcessingInvariant, ReceiveInvariant, StutterInvariant DEF Next
<1> QED BY InitInvariant, <1>1, PTL DEF Spec

\* The members of the market, of the simulator and of the listener keep their types.
THEOREM TypeCorrect == Spec => []TypeOK
<1>1. IInv => TypeOK
  BY DEF IInv
<1> QED BY Invariance, <1>1, PTL

\* numLimitOrdersToRemove, lastFill and numTriggeredStopOrders stay within the
\* books: CommitChangesHelper never steps past the end of a map and never leaves
\* an order that has nothing left.
THEOREM CommitWithinBounds == Spec => []SimulatorInBounds
<1>1. IInv => SimulatorInBounds
  BY DEF IInv
<1> QED BY Invariance, <1>1, PTL

\* numTriggeredStopOrders ends at the end of a level, so ProcessStopOrders can
\* skip the triggered orders level by level.
THEOREM StopLevelsWhole == Spec => []WholeLevelsTriggered
<1>1. IInv => WholeLevelsTriggered
  BY DEF IInv
<1> QED BY Invariance, <1>1, PTL

=============================================================================
