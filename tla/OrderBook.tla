----------------------------- MODULE OrderBook -----------------------------
(***************************************************************************)
(* The four price maps of a Market (market_helper.h), as pure operators.   *)
(*                                                                         *)
(* An OrderMap is a std::map from a price to a deque of orders.  It is     *)
(* modelled by its Flatten (market_helper.h): the sequence of its orders,  *)
(* level after level in the map's order and first-in first-out within a    *)
(* level.  Nothing is lost, because a level is erased as soon as it is     *)
(* empty and a level is never looked up but by the price of its orders.    *)
(***************************************************************************)
EXTENDS Integers, Sequences

Sides == {"Buy", "Sell"}

Opposite(side) == IF side = "Buy" THEN "Sell" ELSE "Buy"

(***************************************************************************)
(* std::less_equal for a buy taker and std::greater_equal for a sell       *)
(* taker.  One comparator serves three purposes: an opposite limit price p *)
(* is good enough for a taker of `side' whose limit is `bound'; a stop     *)
(* price p of `side' is reached by a trade at `bound'; and p comes no      *)
(* later than `bound' in the maps a taker of `side' walks (the opposite    *)
(* limit map and its own stop map have the same comparator).               *)
(***************************************************************************)
Reached(side, p, bound) == IF side = "Buy" THEN p <= bound ELSE p >= bound

(***************************************************************************)
(* The end of the run of orders that starts after position `from' and      *)
(* whose prices are all Reached.  The books are sorted, so the walk of a   *)
(* map stops there for good.                                               *)
(***************************************************************************)
IsReachedEnd(side, book, from, bound, k) ==
  /\ \A i \in from+1 .. k : Reached(side, book[i].price, bound)
  /\ k < Len(book) => ~Reached(side, book[k+1].price, bound)

\* Mutants of ReachedEnd: the run stops before the orders at the bound itself,
\* and the run is of one order only.
ReachedEndStrict(side, book, from, bound) ==
  CHOOSE k \in from .. Len(book) :
    /\ \A i \in from+1 .. k : Reached(side, book[i].price, bound) /\ book[i].price # bound
    /\ k < Len(book) => ~Reached(side, book[k+1].price, bound) \/ book[k+1].price = bound
ReachedEndOne(side, book, from, bound) ==
  IF from < Len(book) /\ Reached(side, book[from+1].price, bound) THEN from + 1 ELSE from

ReachedEnd(side, book, from, bound) ==
  CHOOSE k \in from .. Len(book) : IsReachedEnd(side, book, from, bound, k)

(***************************************************************************)
(* map[o.price].push_back(o) in a map that a taker of `side' walks: behind *)
(* every order whose price is better or the same, before every worse one.  *)
(***************************************************************************)
\* Mutant of PushBack: the order goes before those of its own price.
PushFront(side, book, o) ==
  LET k == ReachedEndStrict(side, book, 0, o.price)
  IN  SubSeq(book, 1, k) \o <<o>> \o SubSeq(book, k + 1, Len(book))

PushBack(side, book, o) ==
  LET k == ReachedEnd(side, book, 0, o.price)
  IN  SubSeq(book, 1, k) \o <<o>> \o SubSeq(book, k + 1, Len(book))

\* The book without its first n orders, and without the order at position i.
DropFirst(book, n) == SubSeq(book, n + 1, Len(book))
Without(book, i)   == SubSeq(book, 1, i - 1) \o SubSeq(book, i + 1, Len(book))

\* A book in the map's order: no order has a strictly better price than one before it.
Sorted(side, book) ==
  \A i, j \in 1 .. Len(book) : i < j => Reached(side, book[i].price, book[j].price)

=============================================================================
