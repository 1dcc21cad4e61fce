------------------------------ MODULE MCEngine ------------------------------
(***************************************************************************)
(* Instances of module TradingEngine for TLC.                              *)
(***************************************************************************)
EXTENDS EngineProperties

CONSTANTS a, b   \* users

Pair(c, id) == [coin |-> c, base |-> id]
P31 == Pair(3, 1)

\* A market that sells the same coin for another base, one that has the same
\* base, and messages about a pair of one coin and a pair that exists.
OtherPairs == {Pair(3, 2), Pair(2, 1)}
AllPairMessages == OtherPairs \cup {P31, Pair(3, 3)}

NewCoinIds == 0 .. 3
Balances == [u \in Users |-> 2]

Limits(sides, users) ==
  [kind : {"limit"}, side : sides, user : users, amount : {1}, price : {1}, actual : {0}]
SellersAndBuyers == Limits({"Sell"}, {a}) \cup Limits({"Buy"}, {b})
Sellers == Limits({"Sell"}, {a})

DepositAndOthers ==
  {[type |-> "Deposit", user |-> b, coin |-> 2, amount |-> 1],
   [type |-> "Withdraw", user |-> a, coin |-> 3, amount |-> 1],
   [type |-> "SetInOrder", user |-> a, coin |-> 3, amount |-> 0]}

=============================================================================
