# A verification of the WezosTradingEngine in TLA+

The repository is an order matching engine for an exchange: a library whose
`TradingEngine::Process` takes a message and returns the messages that answer
it. This directory holds TLA+ modules that model it, TLC runs that check them
on small instances, and proofs, checked by TLAPS, for all instances.

## The system

| Part | State | Operations | Talks to |
|---|---|---|---|
| `TradingEngine` | a `MarketManager`, a `WalletManager` | `Process(message)`: orders, cancellations, deposits, new coins and markets, settings, queries; turns errors into messages | everything below |
| `MarketManager` | the markets, per base coin | add, find, cancel all of a user or of everyone, settings of all markets | `Market`, `WalletManager` |
| `Market` | four order books, `userOrderMap`, the next order and trade id, the settings, a listener, a `Simulator` | `NewProcess`, `CancelOrder`, `CancelAll`, setters | the two wallets of its coins, the listener |
| Order books (`market_helper.h`) | `std::map` from a price to a `std::deque` of orders, best price first | walk, push back, erase | `Market` |
| `Simulator` | what a message is going to do: counts of makers and stop orders to remove, the fill of the next maker, orders to insert, trades | setters, `Clear` | `Market` |
| User order cache | per user, the (price, id) of its orders, in four sorted vectors | `AddToUserCache`, `RemoveOrders`, `CancelHelper`, `CancelAll` | `Market` |
| `WalletManager`, `Wallet`, `Address` | per coin and user: total balance, balance in order | credit, debit, hold, release, deposit, withdraw | `Market`, `TradingEngine` |
| `Listener` | the list of operations of the current message | one method per operation, `ClearOperations` | `Market` appends, `TradingEngine::ProcessOrder` reads and clears |
| Orders, `Fee`, `Units`, `CoinPair`, `Message`, `Error` | values | | |
| `PoolAlloc`, `SharedPoolAllocator` | blocks of memory and a free list | allocate, deallocate | the maps and deques of the books |

Nothing runs concurrently: `Process` handles a message to its end, nothing is
persisted and nothing is sent over a network. What is hard is inside of a
message. An order is matched against books that **do not move** while it is
matched: the `const` methods only write to the `Simulator` and the listener,
and the books change in `CommitChangesHelper`, when all went well. A trade may
trigger stop orders, each of which is matched as a limit order and may trigger
others, recursively, all of them over the same unmoved books and the same
counters; each call has to find out again which makers and which stop orders
are already spoken for. Any of them may throw, long after trades were recorded.

What makes each part correct:

* **Market**: books that are not crossed between messages, price-time
  priority, a message that is done completely or not at all, stop orders
  triggered once and none missed, no quantity lost or used twice, caps.
* **Simulator**: counters that can be applied to the books.
* **Cache**: it knows every open order of a user, and nothing else.
* **Wallets**: nobody spends what is in order, what is in order is what the open
  orders of all markets promise, trades create no money.
* **MarketManager, WalletManager**: a market or wallet that exists is found, and
  nothing but it; requests about all markets reach all of them, and only the
  orders and balances they are about.
* **Listener**: each reply tells what its message did.
* **Allocators**: no node is handed out twice, none gets lost, and giving memory
  back cannot fail.

The hazards of the code, each with the line where it bites and the properties
that watch it, are listed in `PROJECT.json`.

## The modules

* `OrderBook`: the books as pure operators. A book is the sequence of its
  orders in the order of the map and, within a price, of the deque (this is
  what `Flatten` of `market_helper.h` computes). Nothing is lost, as the code
  erases a level when it becomes empty. One comparator `Reached` stands for
  `std::less_equal` and `std::greater_equal` of `ProcessLimitOrder` and
  `ProcessStopOrders`; the run of orders a walk covers ends at `ReachedEnd`.
* `Market`: one market with its two wallets and its listener, as a state
  machine with one step per iteration of the loops of the code. `phase` is the
  program point:

  | phase | code | steps |
  |---|---|---|
  | `idle` | waiting for a message | `AcceptOrder`, `RejectOrder` (`NewProcess` up to `Process`), `CancelOrder`, `ClearOpenOrders`, `ClearEveryonesOpenOrders`, `SetConfig` |
  | `consume` | `ConsumeOrderBook`, `Consume` | `ConsumePart`, `ConsumeWhole`, `ConsumeOwn` per maker; `RestLimitOrder`, `LimitOrderRefused`, `MarketOrderUnfilled` after the last |
  | `stop` | `ProcessStopLimitOrder` | `PlaceStopLimit`, `StopLimitRefused` |
  | `kick` | `KickOffStopOrders`, first half of `ProcessStopOrders` | `KickOffStopOrders`, `NoTradeNoKick` |
  | `next` | the loop at the end of `ProcessStopOrders`, on all levels of the recursion | `ProcessStopOrder`; `PostProcess` when none is left |
  | `insert` | `CommitChangesHelper` up to the balances | `InsertLimitOrder`, `UpdateBooks` |
  | `settle` | the loop over the trades | `SettleTrade`; `AnswerOrder` (reply, `ClearOperations`) |
  | `cancel` | `CancelAll(userId)` | `CancelNext`, `CancelStale`, `CancelledAll` |

  The stack of recursive calls is the sequence `pending`: a call puts the
  orders it triggered in front of those of its callers. Every `throw` is the
  operator `Throw`, which unwinds to `NewProcess`: the simulator is cleared,
  the market is untouched, the listener keeps what it was told.
  The walk of `SimulateMarketBuyOrder` is a recursive function over the sell orders,
  `MarketBuyWalk`, with one `MarketBuyStep` per order.
* `Sums`: sums over sequences and over sets, and what a user has in a sequence of
  orders or of parts of trades (`QuantityOf`). The properties are stated with them.
* `MatchingBook`: the abstract book. Trades take from the best order of the
  other side, orders come to rest behind all of their price and only when they
  do not cross, a message that fails leaves the book it found.
* `MarketProperties`: the properties of `Market`, and `MatchingBook`
  instantiated with the live book, that is the committed one with what the
  simulator has recorded so far: the orders to be inserted are filed one after the
  other (`Filed`), the makers used up have left.
* `TradingEngine`: the engine, which composes markets and wallets; see below.
* `EngineProperties`: its properties, with `MatchingBook` instantiated once for
  every market.
* `FreeList`: what the two allocators share, which is a stack of free nodes over blocks
  that are never returned, and operator new for other sizes. `PoolAlloc` and
  `SharedPool` extend it, each with the way its blocks are made.
* `Allocator`: the abstract allocator, which both implement: memory handed out is
  not handed out again before it is given back. `held` is the set of pieces in use and
  `owed` counts the hand-outs that are still open; the code has neither. Without the
  counter, to hand out a piece that is already held would leave the state as it is and
  pass for a stutter.
* `MCMarket`, `MCEngine`: the workloads of the runs.
* `OrderBookProofs` (books and sums), `MarketProofs` (types and bounds),
  `MarketQuantityProofs` (quantities and balances), `MarketBookProofs` (the books, the
  ids, the cache, the refinement), `EngineProofs` (the engine), each extending the one
  before; `FreeListProofs`, extended by `PoolAllocProofs` and `SharedPoolProofs`.

How they build on each other:

    OrderBook -- Market -- MarketProperties ----------- MCMarket
        |           |             |
        |           |             +-- MatchingBook (refined)
        |           +-- TradingEngine -- EngineProperties -- MCEngine
        +-- MatchingBook                        |
                                                +-- MatchingBook (one per market)
    FreeList -- PoolAlloc, SharedPool
        +-- Allocator (refined)
    Sums -- MarketProperties, EngineProperties, OrderBookProofs

### The engine as a window

`TradingEngine` extends `Market`. `Process` works on one market at a time, so the
variables of `Market` are a window: the market in focus and the two wallets it
trades in. `current` says which these are; all others are kept in `markets` and
`wallets`. `Focus` puts what is in the window back and loads another market
through `GetMarket` and `GetWallet`, as `ProcessOrder` and `GetMarketWallets` do
at the start of a message. It is a step of its own only because the choice of
the market and the rest of the message would otherwise have to be one action for
each message; it happens between handlers, changes nothing but the window, and every
property reads the state through `MarketAt` and `WalletAt`, which do not
depend on it. While a market is in the window its steps are those of `Market`, unchanged.

| code | actions |
|---|---|
| orders, `CancelOrder`, `ClearOpenOrders`, `ClearEveryonesOpenOrders` | `MarketMessage`, then `HandlerStep` |
| `NewCoin`, `Wallet::Wallet`, `AddWallet` | `NewCoin`, `RejectNewCoin` |
| `NewMarket`, `AddMarket` | `NewMarket`, `RejectNewMarket` |
| `Deposit`, `Withdraw`, `SetInOrder` | `ReceiveTransfer` |
| `SetFees` and the two caps, of all markets | `SetAllConfigs` |
| `ClearAllEveryonesOpenOrders` | `ClearAllEveryonesOpenOrders` |
| `CancelAllOrders`, the loops of `MarketManager::CancelAll(userId)` | `CancelAllOrders`, then per base coin `SweepBase`, per market `Focus` and `SweepMarket` with the `CancelNext` steps of `Market`, at the end `SweepDone`; `SweepUnknown` and a failing `HandlerStep` are the exceptions that end the loops |

The vectors of markets and wallets are sequences of ids, with
`std::lower_bound` (`LowerBound`) as the only way in, for lookups
as for insertions. `marketsMap` is an unordered map: `SweepBase` takes its keys in any order.

`adjusted` is the only variable the code does not have. It collects users whose
in-order balance was set by hand (`SetInOrder`), or released by a
`CancelAllOrders` that then failed. No action reads it; `EscrowAcrossMarkets`
claims nothing of these users.

Operators directly before a definition and commented as mutants of it are
plausible mistakes in that code. They are used by no specification; replacing the definition by
one of them makes the property violated that is meant to notice.

### What is abstracted

* The remaining amount of an order is one number (`left`); amount and filled
  are not told apart. Amounts are positive, prices are small numbers. Overflow
  of 64-bit integers cannot happen in the runs; see the end of this file.
* An operation keeps its type, ids and amount, a trade its price and fees.
* The sorted vectors of the cache are a set of entries. No duplicates exist as
  ids are unique, and the order in which `CancelAll(userId)` visits them is
  computed from price and id (`Precedes`), as `CompareUserOrders` sorts them.
* `InsertLimitOrder` files the orders as they came to rest; the code goes
  through the prices in ascending order. Orders of different prices do not
  influence each other's place, those of one price are in the same order.
* A wallet is a function from users to balances. `Wallet::GetAddress` makes an
  empty address for a user that has none, which the function has from the start.
* In the runs of module `Market` deposits are made before trading starts; module
  `TradingEngine` has them as messages.
* A message is well formed: positive amount, and it names a market that exists
  ("Assumes that the market exists", `MarketManager.cpp`). Clients create
  both coins before a market. With neither the code would dereference an
  iterator of the neighbour or of the end, which no client is meant to rely on.
* `libstdc++` is assumed for `std::vector` in the allocators: `reserve(n)` makes the
  capacity `n`, and `push_back` on a full vector doubles it. Addresses are a block and an
  offset; the code takes them with `operator[]` from vectors that have
  capacity but no elements, which is what it relies on the library to allow.

### The runs

| run | instance | checks |
|---|---|---|
| `limits` | 2 users, limit orders of 1 or 3 at 2 prices, market orders of 2, at most 4 orders accepted, caps 2, 4 coins and 1 base coin each, a scale of 2 | `TypeOK`, `BookNotCrossed`, `MakersPayTrades`, `CoinSolvent`, `CoinNeverCreated`, `MarketBuyAffordable` |
| `stops` | 3 users, one of them with stop orders of both sides, all combinations of 2 stop and 2 limit prices, at most 5 orders | `SimulatorInBounds`, `WholeLevelsTriggered`, `NoMissedTrigger`, `OrderInOnePlace`, `TakersAccounted`, `CoinEscrow` |
| `requests` | 2 users, orders of all kinds, every cancellation and setting, at most 3 orders | `CacheCoversBooks`, `ClearsExactlyOwnOrders`, `RefinesMatchingBook`, `EveryMessageAnswered` |
| `engine` | 2 users, a seller and a buyer; coins 0 to 3 (0 is invalid); market 3/1 at the start, 3/2 (same coin) and 2/1 (same base) created by messages; 2 orders and 1 transfer in all; cancellations and every request about all markets | `LookupsFindTheirOwn`, `EscrowAcrossMarkets`, `CancelAllLeavesNothing`, `CancelAllSparesOthers`, `EveryMarketMatches`, `EngineAnswers` |
| `pool_alloc` | a pool of 1 node that grows to 4 blocks, arrays of 2 | `NodesApart`, `NodesAccounted`, `Doubles`, `FreeingNeverAllocates`, `RefinesAllocator` |
| `shared_pool` | 2 chunks of 10 objects, nodes of 3, arrays of 1 and 4 | `NodesWithinBlocks`, `NodesAccounted`, `RefinesAllocator` |
| `other_market` | the markets of `engine`, a seller and `ClearOpenOrders` | `OtherMarketsStayFunded`, which the code violates |
| `stale_cache`, `trade_beyond_limit`, `stop_cap`, `phantom_trades`, `base_created` | as small as the case allows | one property each, which the code violates |

Why these bounds are enough. The interesting cases need a level with two
orders, two levels, a maker that is only partly filled, and an order of the
same message that comes back to that level: five orders on two prices have all
of them (two makers, two stop orders, the order that sets them off). Stop
orders whose trade triggers other stop orders need two stop prices. Little coin
in `limits` makes `CoinSolvent` depend on the check of the balance.

In `engine`, three markets are the least with both a shared coin and a shared
base. Two orders suffice for a trade in one market, and for open orders in two
at a time; the rest of the run varies when coins and markets come into being around them. Coin
2 and market 2/1 are inserted in the middle and at the front of their vectors. The seller
never had an order in some of the markets, so `CancelAllOrders` fails half way
in some behaviours and succeeds in others. A third order would make the run
too long; matching in depth is the business of the other runs.

Four blocks of a pool show two doublings of a block's size. A chunk of ten
with nodes of three has a cell left over, between the nodes from its start and the
one at its end.

Bounds in the guards. `MaxOrders`: the orders received by all markets of the
engine together; `MaxTransfers`: its deposits, withdrawals and `SetInOrder`s.
`MaxBlocks` and `MaxArrays`: the memory of a pool. `MaxOrderId`: no order is received once the ids reach it.
Rejected orders do not use up an id, so every accepted order may come after any
number of rejected ones. `MaxBacklog`: an order that fails half way leaves its
operations in the listener; no order is received while more than this many are
left, which lets one or two orders fail before the next success. The operations
are output only: no guard of the code reads them.

`CHECK_DEADLOCK FALSE`: an instance stops when `MaxOrderId` is reached and no
other message is enabled, as the engine does when no client sends anything.
That no handler gets stuck half way is `EveryMessageAnswered`.

Fairness. `FairSpec` adds weak fairness of `Processing`, the disjunction of all
steps inside of a handler: `Process` is an ordinary function call, it runs on
until it returns. Nothing makes clients send messages. `FairEngineSpec` says the same
of `EngineProcessing`, to which `CancelAllOrders`'s steps over the markets belong;
the `Focus` of a client's next message is not in it. The allocators have no liveness.

No symmetry is declared: the workloads give the users different roles.

### What the runs show

The stages of the code implement a matching engine with price-time priority
and atomic messages (`RefinesMatchingBook`), chains of triggered orders
included; coin, unlike base coin, is never lost to the bookkeeping. A market
buy order that is accepted can be paid (`MarketBuyAffordable`), although the walk
that checks it subtracts products that were not scaled down: this only makes
it reject orders it need not.

Every market of an engine is such a matching engine of its own
(`EveryMarketMatches`), and the sorted vectors find the right one without a
comparison. What is in order in the wallet of a coin is what all its markets
offer for sale (`EscrowAcrossMarkets`), as long as single orders are cancelled,
or all markets are cleared and nothing fails. Both pools hand out every node to
one owner at a time.

Six runs show where the code does something else than it says:

* `stale_cache`: entries of filled makers stay in `userOrderMap`. They count
  towards the maker's cap, and `ClearOpenOrders` fails at the first of them,
  after the in-order balances were set to 0.
* `trade_beyond_limit`: a triggered order buys the rest of the level in which
  the makers of an earlier order ended, whatever its own limit price is.
* `stop_cap`: the cap of stop-limit orders is compared with the number of
  limit orders.
* `phantom_trades`: after an order that traded and then failed, the next reply
  reports its trades, with ids that are given again.
* `base_created`: the seller receives the amount of coin in base coin, not
  amount times price (the run has prices of 1 and 2 and a scale of 2).
* `other_market`: `ClearOpenOrders` of one market sets the in-order balance of
  the whole wallet to 0. What the user offers in another market of the coin is no
  longer held.

## The proofs

TLC checks instances with two or three users and a few orders. What follows is
proved for every finite set of users, every set of orders and of settings, every
scale and any number of messages, and of the engine for every finite set of pairs of
coins.

### One market

| theorem | property | inductive invariant |
|---|---|---|
| `TypeCorrect` | `TypeOK` | `IInv` |
| `CommitWithinBounds` | `SimulatorInBounds` | `IInv` |
| `StopLevelsWhole` | `WholeLevelsTriggered` | `IInv` |
| `MakersPayWhatTheyTraded` | `MakersPayTrades` | `QuantityInv` |
| `TakersAreAccountedFor` | `TakersAccounted` | `QuantityInv` |
| `CoinInEscrow` (without `ClearOpenOrders`) | `CoinEscrow` | `EscrowInv` |
| `SellersSolvent` (without `ClearOpenOrders`) | `CoinSolvent` | `SolvencyInv` |
| `NoCoinFromNothing` | `CoinNeverCreated` | itself |
| `MarketBuysAreAffordable` | `MarketBuyAffordable` | `MarketBuyInv` |
| `NeverCrossed` | `BookNotCrossed` | `BookInv` |
| `EveryReachedStopTriggered` | `NoMissedTrigger` | `TriggerInv` |
| `EveryOrderInOnePlace` | `OrderInOnePlace` | `IdInv` |
| `EveryOrderCached` | `CacheCoversBooks` | `CacheInv` |
| `OwnOrdersCleared` | `ClearsExactlyOwnOrders` | `CacheInv`, `OwnerInv` |
| `MarketIsMatchingBook` | `RefinesMatchingBook` | `IInv`, `BookInv` |

Every proof has one lemma for each action, or for a group of actions that do the
same to what the invariant speaks of.

**`IInv`.** The first three properties are not inductive one by one: that an order
of the updated book has something left is a matter of `SimulatorInBounds`; that the
counters are within the bounds when a message arrives is `ClearedWhenIdle`, the fact
that every way out of a handler goes through `Simulator::Clear`. All later invariants
are preserved by the steps from states with `IInv`.

**`QuantityInv`.** What the commit takes from a maker (the first `removed`
orders whole, `lastFill` of the next) is a sum over the book; what the maker traded is
a sum over the trades. Both grow by the same number in `ConsumePart` and
`ConsumeWhole`. The invariant follows the first into the phase `insert` (`MakersPay`), where
the properties no longer look, because `UpdateBooks` needs it; `TakersDone` says which
parts of the record are empty when.

**`EscrowInv`, `SolvencyInv`.** While a message is committed coin moves between the
record, the books and the balance: orders are inserted before the message's amount
is held, and trades are settled after the makers have left. `Moving` is the difference at each
point. It is zero between messages, and that it is zero then uses `QuantityInv`: the amount
of the message is what its trades and remainders add up to. A seller is solvent as the amount was
available when the order was accepted, and no fee exceeds the amount it is taken from
(`FeesBelow`). Both theorems assume that no client sends `ClearOpenOrders`. This
is not a convenience of the proof: with it the code does not keep these properties, as balances are
released while orders stay, when the loop over the cache ends at a stale entry
(run `stale_cache`). `CancelOrder` and `ClearEveryonesOpenOrders` are covered.
The steps are proved of `HeldFor(others)`, which allows for a fixed amount per user that
is in order in the same wallet for other markets: here it is zero, the engine uses it
with what those markets offer.

**`MarketBuyInv`.** `Consume` repeats the walk that the validation made: after
`removed` makers the walk has not ended, what it has left to buy is what the taker has,
and the cost of the trades so far and the walk's balance together do not exceed what was available.
The walk puts by `price * left`, the trade costs that product scaled
down, which is why it holds for every scale; that the walk over the
whole book ends without an error says the next step does not fail either.

**`BookInv`.** `BookNotCrossed` is no use
as an invariant: while a message is committed the remainder of a taker is in its
book before the makers it used up have left theirs, and the books do cross.
`BookInv` therefore speaks of the makers that stay: those behind the first
`removed` ones are reached neither by a resting order of the taker's side nor by
one that waits to be inserted (`RecordApart`). The step that establishes it is
the end of the loop in `ConsumeOrderBook`: the next maker is not good enough for
the taker, and as the maps are sorted (`LimitsSorted`, kept by filing, removing
and cancelling) neither is any behind it. `UpdateBooks` turns it back into
`BooksApart`, with the two sides in either role.

**`TriggerInv`.** `KickOffStopOrders` looks at the last price of a call only. That this
suffices is `TradesOrdered`: a message trades at prices that only get worse, across all of
its calls, as the makers are sorted and none comes back. So a stop order reached by any trade is
reached by the last one, and `NoneMissed` holds after the call has kicked off its stop
orders, and for a call that did not trade.

**`IdInv`.** How often an id occurs is counted in each place (`Held`) and added
up. An id below `NextId` occurs at most once, one that has not been given never. Counting
makes a move from one place to another an equation. The committed books are counted on their
own, too: an exception puts the triggered stop orders back where they came from.

**`CacheInv`.** Every order in a book has its entry; cached stop orders are in
their book. The hard part is the loop of `CancelAll(userId)`: the cache is emptied
after the loop, so meanwhile it has entries of orders that are gone. `ToVisit` says
that what is left of the user's orders is still to be visited, `Visited` that stop entries are
good until they are. A stale entry ends the loop; it is a limit entry, these are visited first,
hence all stop orders are still there (`Precedes`).

**`MarketIsMatchingBook`.** With `LiveBook` for the book, `AcceptOrder` begins a
message, `ConsumePart` and `ConsumeWhole` are `Match`, `RestLimitOrder` is `Rest`, every
`Throw` is `Rollback`, `PostProcess` is `Commit`, the cancellations are `Cancel` and all other
steps stutter, those of the commit among them: they carry out what the live book has had since the
trade. The lemmas behind it say what a book is after a number of
orders were filed in it (`FiledFirst`: the commit files from the front what was recorded at the back)
and what a maker's book is after `removed` and `lastFill` (`TakenProperties`). That an order which comes to rest
does not cross the best maker left is the end of the loop again, and that it is behind all
orders of its price needs the sorted maps of `BookInv`.

**`OwnerInv`.** `CancelHelper` looks for the id of an entry and does not ask whose order it
finds. That it is the user's is not obvious, as an entry may outlive its order:
it is the fact that an id is never given to another user (`OneOwner`), neither by the orders
nor by the entries that are left of them. `OwnersGiven` says that all of them were given
already, so that the id `AcceptOrder` gives is a new one; every other
action moves orders, with their ids and users, from one place to the next. That nothing of the
user is left at the end is `ToVisit` of `CacheInv`. With `OwnedByNone` and `OwnedByWithout`
this becomes the action property: no order of another user moves, and none of the
user's own remains.

### The engine

For every set of coins and pairs of coins, and any order in which markets are created:

| theorem | property | inductive invariant |
|---|---|---|
| `EngineLookups` | `LookupsFindTheirOwn` | `IndexInv` |
| `EngineInvariance` | (basis of the following) | `EngineInv` |
| `OthersSpared` | `CancelAllSparesOthers` | `EngineInv` |
| `NothingLeft` | `CancelAllLeavesNothing` | `SweepDoneInv` |
| `MarketsMatch` | `EveryMarketMatches` | `EngineInv` |
| `EscrowEverywhere` (without the requests that clear one market) | `EscrowAcrossMarkets` | `HeldInv`, `SweepDoneInv` |

**`IndexInv`.** The vectors are sequences of naturals, strictly sorted. That
`lower_bound` has a result at all comes from the well-foundedness of `<` on the
naturals; that inserting at it keeps a vector sorted is `InsertKeepsSorted`. All
actions but `NewCoin` and `NewMarket` leave the vectors alone (`OthersKeepIndex`).

**`EngineInv`.** The window has all invariants of one market (`WindowInv`), so every step
of `Market` is covered by the lemmas above as it stands. A market that is put back is kept as a
record, of which `MarketOK` says what those invariants come to when no message is at work; it
does not mention the simulator, which is empty then (`Resting`).
`WindowStored` and `StoredWindow` lead from one to the other, and they are what lets `Focus`
change the market. Besides, the market in the window is one that exists (`CurrentInv`), its two
wallets do, too (`WalletsInv`), and `CancelAllOrders` meets no order message half way (`SweepInv`).

**`OthersSpared`, `NothingLeft`.** The first follows from what `OwnOrdersCleared` rests on,
for the market in the window (`CancelStepsClear`): the other steps of `CancelAllOrders` release balances of its user
alone. The second is about a state the loops reach after many steps. `SweepDoneInv` says of
each market behind them that the user has no order there and nothing in order
in its wallets, and that it remains so: nothing adds an order until the request
is answered, and a wallet two markets share is not touched again but to be released again.
A market in which the user never had an order ends the loops with an error (`SweepUnknown`), as
does a stale entry of the cache; so an answer of ok means that all markets were visited
(`SweepEnds`).

**`MarketsMatch`.** For each pair of coins: a step of the window is one of
`MatchingBook`, by the lemmas of `MarketIsMatchingBook`; the books of all other markets are as
they were, except in `SetAllConfigs` (which changes none), `ClearAllEveryonesOpenOrders`
(each is cleared, and none has a message at work), and `NewMarket` (the
new one is empty).

**`EscrowEverywhere`.** What is in order in a wallet is a sum over the markets that
share it, some of them in the window, some not, and during a commit some of the coin is moving.
`HeldInv` says the sum is right, for every coin no market pays with, also
for one that no market sells yet: its wallet may be the one of a market to
come, which starts with no offers. A step in the window changes the balance by as much as it changes the
offers of its own market (`HeldFor`), and `TotalOverChanged` passes that on to the sum. While
`CancelAllOrders` is at work its user is exempt (`Spared`), because the code
releases a wallet at the first market of its coin and cancels the orders of the second one later; when it
succeeds, `SweepDoneInv` closes the gap, as both sides are zero then. When it fails, the
user is among `adjusted`. The hypothesis is that no client sends `ClearOpenOrders` or
`ClearEveryonesOpenOrders`, which both clear one market and release the whole
wallet: with them the code violates the property (run `other_market`).
`CancelOrder`, `CancelAllOrders` and `ClearAllEveryonesOpenOrders` are covered.

### The allocators

For every size of nodes, blocks and chunks, `PoolAllocProofs` and
`SharedPoolProofs` prove `NodesAccounted`, `NodesApart`, `Doubles` and
`FreeingNeverAllocates` (`PoolAlloc`), `NodesWithinBlocks` and `NodesAccounted` (`SharedPool`), and that both
implement `Allocator` (`PoolRefinesAllocator`, `SharedRefinesAllocator`). Their invariant `FreeListInv` adds
to the properties that pieces in use do not overlap each other (`HeldApart`):
without it, giving one back could spoil `NodesApart`. The steps both have in common are
proved once, in `FreeListProofs`; the arithmetic of nodes within a chunk
is `ProductGap`.

### Books and sums

The lemmas of `OrderBookProofs` say what `ReachedEnd` chooses, that the
operators on books yield books, where they put the orders, that they keep
the books sorted, and what they do to sums over a book (`QuantityPushBack`,
`QuantityWithout`, `QuantitySplit`), to the ids in it (`HeldPushBack`, `HeldWithout`)
and to the orders of one user (`OwnedByWithout`). The sums, and the orders of a user, are
recursive functions on the naturals. The induction theorems of the library
cannot be used for them (they take an operator as parameter), so `NatInduct` is proved in terms of
sets instead: a set of naturals that has 0 and every successor has all. It
comes from `LeastNat`, that a non-empty set of naturals has a least element, which follows from the
well-foundedness of strict inclusion of finite sets. With it, `IsSumExists`, `IsSumUnique`
(`IsOwnedExists`, `IsOwnedUnique`) show that there is exactly one function as the definition
says, and the recursion can be used. For a sum over users or markets, `TotalOverChanged` says that changing
one value changes the sum by as much, whatever order they are added in (`TotalOverZero`:
zeros add up to zero), and `QuantityOwned` that what a user has in a book depends on their own orders only.

### Assumptions

Those the modules make on their constants. For `FreeList` and its
extensions the sizes are positive, and a chunk holds at least one node; for
`TradingEngine` coins are integers (`int32_t` in `CoinPair.h`), the pairs are finitely many, the
first market has two coins, transfers are well formed, and `None` is not the progress of a
`CancelAllOrders`. For `Market` they are that orders
are order messages with a positive amount and a price that is not negative,
that fee divisions and the scale are positive, that the caps are natural numbers, that deposits are not
negative, and that the set of users is finite. TLC evaluates them in every run.

### What is not proved

* Liveness (`EveryMessageAnswered`, `EngineAnswers`): the prover has no rules for fairness
  and `ENABLED`.
* `CoinEscrow`, `CoinSolvent` and `EscrowAcrossMarkets` are proved without the requests
  named above, with which the code does not keep them.

## Not modelled, and the plan

The parts of the system that keep state are modelled, and the safety properties of the
runs that hold are proved. What is left to do is a claim about base coin in order, once the code
settles the units of a buy order (it holds the amount and releases amount times price).

Left out for good:

* The arithmetic of `Fee` and `Units` beyond integer division: the conversion of
  a percentage and the division in `ScaleDown` go through `double`, which TLA+ does not have,
  and whether a 64-bit product overflows depends only on amounts and prices
  that no code bounds. `Market` starts from the divisor, and has unbounded integers.
* The queries `GetAmount`, `GetAvailable`, `GetInOrder`, `GetTotal` and messages of an
  unknown type: they change nothing. The strings of `CancelAllOrders` and the fields of output messages.
* Boost serialization of the orders (macros only), the text conversion of
  messages in the tests, equality operators, and `ForceAddOrder`,
  `SetMaxOrderId` and `SetMaxTradeId`, which rebuild a market from a database.
* The sorted vector of addresses of a wallet. It is searched by a lower bound that is
  compared with the user, and filled by the lookup itself.
