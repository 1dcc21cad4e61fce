-------------------------- MODULE MarketProperties --------------------------
(***************************************************************************)
(* What is claimed about module Market, and the abstract book it refines.  *)
(***************************************************************************)
EXTENDS Market, Sums

\* The phases of an order message, and those in which the simulator records
\* what is to be done while the books stand still.
Matching    == {"consume", "stop", "kick", "next"}
OrderPhases == Matching \cup {"insert", "settle"}

-----------------------------------------------------------------------------
(* Types and bounds; module MarketProofs proves both *)

MarketTypeOK ==
  /\ limits \in [Sides -> Seq(Order)] /\ stops \in [Sides -> Seq(Order)]
  /\ userOrders \subseteq CacheEntry /\ knownUsers \subseteq Users
  /\ currentOrderId \in Nat /\ currentTradeId \in Nat
  /\ config \in [feeDivision : FeeDivisions, limitCap : LimitCaps, stopCap : StopCaps]
  /\ coin \in [Users -> Address] /\ base \in [Users -> Address]

SimulatorTypeOK ==
  /\ removed \in Nat /\ lastFill \in Nat /\ triggered \in Nat
  /\ insertedLimits \in Seq(Order) /\ insertedStop \in Seq(Order)
  /\ trades \in Seq(Trade)

CallTypeOK ==
  /\ phase \in OrderPhases \cup {"idle", "cancel"}
  /\ phase \in OrderPhases => message \in Orders /\ taker \in Taker
  /\ phase = "cancel" => message \in Users
  /\ lastTradePrice \in Nat \cup {NoTrade}
  /\ pending \in Seq(Triggered)
  /\ toCancel \subseteq CacheEntry

ReplyTypeOK ==
  /\ ops \in Seq(Operation)
  /\ reply \in Errors \cup {"ok", "none", "out_of_range"}

\* Every variable has the type of the member, parameter or local it stands for.
TypeOK == MarketTypeOK /\ SimulatorTypeOK /\ CallTypeOK /\ ReplyTypeOK

\* What the simulator records can be done to the books: the counters stay
\* within them, and lastFill is less than what the order it is taken from has
\* left.  CommitChangesHelper relies on it: it dereferences begin() of the
\* updated map, and steps over the triggered stop orders, without a check.
SimulatorInBounds ==
  /\ phase \in Matching \cup {"insert"} =>
       /\ removed <= Len(Makers)
       /\ lastFill > 0 => removed < Len(Makers) /\ lastFill < Maker.left
  /\ phase \in Matching => triggered <= Len(stops[Side])
  /\ phase \in {"consume", "stop"} => taker.left > 0 /\ taker.resumed <= removed

-----------------------------------------------------------------------------
(* The books *)

\* Between messages the best bid is below the best ask: what could trade has
\* traded, however many stop orders one message set off.
BookNotCrossed ==
  phase = "idle" =>
    \A i \in DOMAIN limits["Buy"], j \in DOMAIN limits["Sell"] :
      limits["Buy"][i].price < limits["Sell"][j].price

\* The ids of all orders the market answers for, one by one: the books without
\* the stop orders already triggered, the orders waiting to be inserted, the
\* triggered ones still to be processed and the taker.
LiveIds ==
  LET untriggered(s) == IF phase \in Matching /\ s = Side
                          THEN DropFirst(stops[s], triggered) ELSE stops[s]
  IN  Ids(limits["Buy"]) \o Ids(limits["Sell"]) \o Ids(untriggered("Buy"))
        \o Ids(untriggered("Sell")) \o Ids(insertedLimits)
        \o (IF phase \in Matching \cup {"insert"} THEN Ids(insertedStop) ELSE <<>>)
        \o [i \in DOMAIN pending |-> pending[i].order.id]
        \o (IF phase \in {"consume", "stop"} THEN <<taker.id>> ELSE <<>>)

\* An order is in one place at a time, wherever it travels: a stop order is
\* triggered once, and no id is given twice.
OrderInOnePlace == IsInjective(LiveIds)

-----------------------------------------------------------------------------
(* Stop orders *)

\* ProcessStopOrders skips the triggered orders by subtracting the sizes of whole
\* levels from numTriggeredStopOrders until it is 0: it has to end at a level's end.
WholeLevelsTriggered ==
  phase \in Matching /\ triggered \in 1 .. Len(stops[Side]) - 1 =>
    stops[Side][triggered].price # stops[Side][triggered + 1].price

\* When a message is about to be committed, no stop order of its side waits
\* whose price any of its trades has reached, those of triggered orders included.
NoMissedTrigger ==
  phase = "next" /\ pending = <<>> =>
    \A t \in 1 .. Len(trades), i \in triggered + 1 .. Len(stops[Side]) :
      ~Reached(Side, stops[Side][i].price, trades[t].price)

-----------------------------------------------------------------------------
(* Quantities and balances *)

\* Trades as parts of their buyers or of their sellers.
PartsOf(party, deals) ==
  [i \in 1 .. Len(deals) |-> [user |-> deals[i][party], left |-> deals[i].amount]]

Sold       == PartsOf("seller", trades)
TakerParts == PartsOf(IF Side = "Buy" THEN "buyer" ELSE "seller", trades)
MakerParts == PartsOf(IF Side = "Buy" THEN "seller" ELSE "buyer", trades)

\* What is recorded to be taken from the orders of a maker: those that are
\* removed, and lastFill of the next one.
TakenFrom(u) ==
  QuantityOf(u, SubSeq(Makers, 1, removed))
    + (IF lastFill > 0 /\ Maker.user = u THEN lastFill ELSE 0)

\* What the commit will take from a maker's orders is what the trades say the
\* maker has traded.
MakersPayTrades ==
  phase \in Matching => \A u \in Users : TakenFrom(u) = QuantityOf(u, MakerParts)

\* The order of the message, and the triggered stop orders still to be processed.
Demand  == [user |-> message.user, left |-> message.amount]
Waiting == [i \in 1 .. Len(pending) |-> pending[i].order]

BroughtIn(u) == Share(u, Demand) + QuantityOf(u, SubSeq(stops[Side], 1, triggered))

AccountedFor(u) ==
  QuantityOf(u, TakerParts) + QuantityOf(u, insertedLimits) + QuantityOf(u, insertedStop)
    + Share(u, taker) + QuantityOf(u, Waiting)

\* No quantity of the message or of the stop orders it triggered gets lost, is
\* used twice or becomes another user's: it has traded, rests, waits to be
\* processed, or is being matched.
TakersAccounted == phase \in Matching => \A u \in Users : BroughtIn(u) = AccountedFor(u)

OpenSells(u) == QuantityOf(u, limits["Sell"]) + QuantityOf(u, stops["Sell"])

\* Between messages exactly the coin a user offers for sale is in order, through
\* partial fills, triggered stop orders and cancellations of single orders.
CoinEscrow == phase = "idle" => \A u \in Users : coin[u].inOrder = OpenSells(u)

\* A user never owes coin: whatever a sell order sells is there to be delivered.
CoinSolvent == phase = "idle" => \A u \in Users : coin[u].total >= coin[u].inOrder

\* A market buy order that was accepted, whatever levels it eats through, costs
\* its user no more than what was available: SimulateMarketBuyOrder walks the
\* book before Consume does, and subtracts what each maker order will cost.
MarketBuyAffordable ==
  phase = "kick" /\ taker.kind = "market" /\ Side = "Buy" =>
    Total([i \in 1 .. Len(trades) |-> ScaleDown(trades[i].amount * trades[i].price)])
      <= Available(base[taker.user])

TotalIn(wallet) == TotalOver(Users, [u \in Users |-> wallet[u].total])
Deposited(deposits) == TotalOver(Users, deposits)

\* Trades move coin between users and only fees take some of it away.
CoinNeverCreated == TotalIn(coin) <= Deposited(InitialCoin)

\* The same of the base coin.
BaseNeverCreated == TotalIn(base) <= Deposited(InitialBase)

-----------------------------------------------------------------------------
(* The user order cache *)

InBook(kind, side) == {Entry(kind, side, Book(kind, side)[i]) : i \in DOMAIN Book(kind, side)}
Cached(kind, side) == {e \in userOrders : e.kind = kind /\ e.side = side}

\* Every resting order is in the cache of its owner, under its price and its
\* side: CancelHelper may take userOrderMap.at(), CancelAll(user) finds them all.
\* For stop orders there is nothing else in it.
CacheCoversBooks ==
  phase = "idle" =>
    /\ \A kind \in {"limit", "stop"}, side \in Sides :
         /\ InBook(kind, side) \subseteq Cached(kind, side)
         /\ kind = "stop" => Cached(kind, side) \subseteq InBook(kind, side)
    /\ {e.user : e \in userOrders} \subseteq knownUsers

\* "This is a map of user ids with a collection of all the orders they have open"
\* (Market.h): what is cached as a limit order is in the books.
CachedOrdersAreOpen ==
  phase = "idle" => \A side \in Sides : Cached("limit", side) \subseteq InBook("limit", side)

-----------------------------------------------------------------------------
(* What the messages and comments say *)

\* A triggered order is a limit order at its actual price: it trades at that
\* price or a better one.
TradesWithinLimit ==
  HasMaker /\ taker.kind = "limit" /\ Maker.user # taker.user =>
    Reached(Side, Maker.price, taker.price)

\* A user has no more stop-limit orders open than maxNumStopLimitOpenOrders.
StopCapRespected ==
  phase = "idle" =>
    \A u \in Users : Cardinality({e \in userOrders : e.user = u /\ e.kind = "stop"}) <= config.stopCap

\* The reply to an order tells of each trade once.
TradesReportedOnce ==
  phase = "settle" =>
    \A i, j \in DOMAIN ops :
      i # j /\ ops[i].type = "NewTrade" /\ ops[j].type = "NewTrade" => ops[i].trade # ops[j].trade

-----------------------------------------------------------------------------
(* Refinement and liveness *)

\* A map that a taker of `side' walks when the first n of some orders have been
\* filed in it, one after the other.
Filed(side, book, orders, n) ==
  LET filed[i \in Nat] ==
        IF i = 0 THEN book ELSE PushBack(side, filed[i - 1], orders[i])
  IN  filed[n]

\* The live book: the committed one with what the simulator has recorded.
LiveBook ==
  IF phase \in Matching \cup {"insert"}
    THEN [s \in Sides |->
            IF s = Side
              THEN Filed(Opposite(s), limits[s], insertedLimits, Len(insertedLimits))
              ELSE UpdatedMakers]
    ELSE limits

\* The book when the message at work arrived: PostProcess does not fail any more.
SavedBook == IF phase = "insert" THEN LiveBook ELSE limits

TakingSide == IF phase \in Matching THEN Side ELSE "none"

Abstract == INSTANCE MatchingBook WITH book <- LiveBook, saved <- SavedBook, taking <- TakingSide

\* The simulator's counters and lists, applied step by step, are a matching
\* engine with price-time priority that does a message completely or not at all.
RefinesMatchingBook == Abstract!Spec

OrdersOf(u, kind, side) == OwnedBy(u, Book(kind, side))

\* While the orders of a user are being cancelled no order of another user is
\* touched, and when the message is answered with "ok" the user has none left.
ClearsExactlyOwnOrders ==
  [][phase = "cancel" =>
       \A kind \in {"limit", "stop"}, side \in Sides :
         /\ \A u \in Users \ {message} : OrdersOf(u, kind, side)' = OrdersOf(u, kind, side)
         /\ reply' = "ok" => OrdersOf(message, kind, side) = <<>>]_vars

\* Every message is answered: the chain of triggered stop orders and the loops
\* of the commit come to an end.
EveryMessageAnswered == (phase # "idle") ~> (phase = "idle")

=============================================================================
