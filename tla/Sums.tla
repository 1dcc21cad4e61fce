-------------------------------- MODULE Sums --------------------------------
(***************************************************************************)
(* Sums over sequences, for the properties that speak of quantities and    *)
(* balances, and the ids and the owners of orders.  The recursions are     *)
(* functions, so that the proofs can use them.                             *)
(***************************************************************************)
EXTENDS Integers, Sequences, FiniteSets, SequencesExt

\* The sum of the first n numbers, and of all.
SumTo(numbers, n) ==
  LET sum[i \in Nat] == IF i = 0 THEN 0 ELSE sum[i - 1] + numbers[i]
  IN  sum[n]

Total(numbers) == SumTo(numbers, Len(numbers))

\* The sum of a function's values on a finite set, in some order of its elements.
TotalOver(S, f) ==
  LET order == SetToSeq(S)
  IN  SumTo([i \in 1 .. Cardinality(S) |-> f[order[i]]], Cardinality(S))

\* What a user owns of things that each have a user and something left: orders,
\* or one party's parts of trades.
Share(user, part) == IF part.user = user THEN part.left ELSE 0
QuantityOf(user, parts) == Total([i \in 1 .. Len(parts) |-> Share(user, parts[i])])

Ids(orders) == [i \in DOMAIN orders |-> orders[i].id]

\* The orders of a user among the first n, and among all, as SelectSeq takes them.
OwnedUpTo(user, orders, n) ==
  LET owned[i \in Nat] ==
        IF i = 0 THEN <<>>
        ELSE IF orders[i].user = user THEN Append(owned[i - 1], orders[i]) ELSE owned[i - 1]
  IN  owned[n]

OwnedBy(user, orders) == OwnedUpTo(user, orders, Len(orders))

=============================================================================
