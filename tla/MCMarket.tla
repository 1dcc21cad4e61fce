------------------------------ MODULE MCMarket ------------------------------
(***************************************************************************)
(* Instances of module Market for TLC: the workloads of the runs.          *)
(***************************************************************************)
EXTENDS MarketProperties

CONSTANTS a, b, c   \* users

Limit(users, amounts, prices) ==
  [kind : {"limit"}, side : Sides, user : users, amount : amounts, price : prices, actual : {0}]
MarketOrders(users, amounts) ==
  [kind : {"market"}, side : Sides, user : users, amount : amounts, price : {0}, actual : {0}]
Stop(sides, users, amounts, prices, actuals) ==
  [kind : {"stop"}, side : sides, user : users, amount : amounts, price : prices, actual : actuals]

Deposits(n) == [u \in Users |-> n]
Plenty == Deposits(100)
Scarce == Deposits(4)
Short == Deposits(1)

\* Limit and market orders on two prices.
LimitWorkload == Limit({a, b}, {1, 3}, {1, 2}) \cup MarketOrders({a, b}, {2})

\* Stop orders of both sides, over books that two other users make.
StopWorkload ==
  Limit({a}, {1}, {1, 2}) \cup Limit({b}, {2}, {1, 2}) \cup Stop(Sides, {c}, {1}, {1, 2}, {1, 2})

\* A few orders of every kind, for the runs with cancellations.
MixedWorkload ==
  Limit({a, b}, {1, 2}, {1, 2}) \cup MarketOrders({a}, {1})
    \cup Stop(Sides, {b}, {1}, {1, 2}, {1, 2})

=============================================================================
