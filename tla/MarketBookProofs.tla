-------------------------- MODULE MarketBookProofs --------------------------
(***************************************************************************)
(* For every set of users, of orders and of settings, of the books of a    *)
(* market: between messages the best bid is below the best ask; a stop     *)
(* order whose price a trade of the message has reached is triggered; an   *)
(* order is in one place; the user order cache has every order; cancelling *)
(* the orders of a user touches those of nobody else; and the market       *)
(* implements module MatchingBook.                                         *)
(*                                                                         *)
(* The books cross while a message is committed: the remainder of a taker  *)
(* is inserted before the makers it traded with leave.  What is inductive  *)
(* is therefore said of the makers behind the first `removed' ones: none   *)
(* of them is reached by an order of the taker's side, be it in its book   *)
(* or waiting to be inserted.  That the maps are sorted carries the one    *)
(* comparison that ended the loop of ConsumeOrderBook to all of them.      *)
(***************************************************************************)
EXTENDS MarketQuantityProofs

\* None of the makers behind the first `gone' is reached by one of the orders.
Apart(side, orders, makers, gone) ==
  \A i \in 1 .. Len(orders), j \in gone + 1 .. Len(makers) :
    ~Reached(side, makers[j].price, orders[i].price)

\* The limit maps are in their order.
LimitsSorted == \A s \in Sides : Sorted(Opposite(s), limits[s])

\* The committed books do not cross; InsertLimitOrder is the exception.
BooksApart == phase # "insert" => Apart("Buy", limits["Buy"], limits["Sell"], 0)

\* Nor do the books with the commit that the simulator has recorded.
RecordApart ==
  phase \in Matching \cup {"insert"} =>
    /\ Apart(Side, limits[Side], Makers, removed)
    /\ Apart(Side, insertedLimits, Makers, removed)

BookInv == LimitsSorted /\ BooksApart /\ RecordApart

-----------------------------------------------------------------------------
(* Prices *)

\* Orders have natural numbers as prices.
LEMMA PriceType ==
  ASSUME NEW orders \in Seq(Order)
  PROVE  \A i \in 1 .. Len(orders) : orders[i].price \in Int
<1>1. ASSUME NEW i \in 1 .. Len(orders) PROVE orders[i].price \in Int
  <2>1. orders[i] \in Order
    BY ElementOfSeq
  <2> QED BY <2>1 DEF Order
<1> QED BY <1>1

\* Whoever is the taker: bids and asks that do not reach each other.
LEMMA ApartSwap ==
  ASSUME NEW bids \in Seq(Order), NEW asks \in Seq(Order)
  PROVE  Apart("Buy", bids, asks, 0) <=> Apart("Sell", asks, bids, 0)
<1>1. ASSUME NEW i \in 1 .. Len(bids), NEW j \in 1 .. Len(asks)
      PROVE  ~Reached("Buy", asks[j].price, bids[i].price)
               <=> ~Reached("Sell", bids[i].price, asks[j].price)
  BY PriceType DEF Reached
<1> QED BY <1>1 DEF Apart

\* Orders and makers with prices that others have that are apart.
LEMMA ApartPrices ==
  ASSUME NEW side, NEW orders, NEW makers, NEW gone, Apart(side, orders, makers, gone),
         NEW someOrders, NEW someMakers, NEW someGone,
         \A i \in 1 .. Len(someOrders) :
           \E k \in 1 .. Len(orders) : someOrders[i].price = orders[k].price,
         \A j \in someGone + 1 .. Len(someMakers) :
           \E k \in gone + 1 .. Len(makers) : someMakers[j].price = makers[k].price
  PROVE  Apart(side, someOrders, someMakers, someGone)
<1>1. ASSUME NEW i \in 1 .. Len(someOrders), NEW j \in someGone + 1 .. Len(someMakers)
      PROVE  ~Reached(side, someMakers[j].price, someOrders[i].price)
  <2>1. PICK k \in 1 .. Len(orders) : someOrders[i].price = orders[k].price
    OBVIOUS
  <2>2. PICK l \in gone + 1 .. Len(makers) : someMakers[j].price = makers[l].price
    OBVIOUS
  <2> QED BY <2>1, <2>2 DEF Apart
<1> QED BY <1>1 DEF Apart

\* More makers removed leave less to be apart from.
LEMMA ApartMoreGone ==
  ASSUME NEW side, NEW orders, NEW makers, Len(makers) \in Nat,
         NEW gone \in Nat, NEW more \in Nat, gone <= more, Apart(side, orders, makers, gone)
  PROVE  Apart(side, orders, makers, more)
BY DEF Apart

-----------------------------------------------------------------------------
(* The committed books and the side of a message *)

\* The books of a market are sequences of orders.
LEMMA LimitsType ==
  ASSUME IInv
  PROVE  limits \in [Sides -> Seq(Order)] /\ \A s \in Sides : limits[s] \in Seq(Order)
BY DEF IInv, TypeOK, MarketTypeOK

\* A taker's side has one of the two books, the makers have the other one.
LEMMA BooksOfSide ==
  ASSUME IInv, NEW s \in Sides
  PROVE  Apart("Buy", limits["Buy"], limits["Sell"], 0)
           <=> Apart(s, limits[s], limits[Opposite(s)], 0)
<1>1. limits["Buy"] \in Seq(Order) /\ limits["Sell"] \in Seq(Order)
  BY LimitsType DEF Sides
<1>2. CASE s = "Buy"
  BY <1>2 DEF Opposite
<1>3. CASE s = "Sell"
  BY <1>1, <1>3, ApartSwap DEF Opposite
<1> QED BY <1>2, <1>3 DEF Sides

-----------------------------------------------------------------------------
(* Steps *)

\* A step that leaves the limit books alone and is not in the middle of an order
\* message when it ends.
LEMMA BooksKept ==
  ASSUME BookInv, UNCHANGED limits, phase # "insert", phase' \notin Matching \cup {"insert"}
  PROVE  BookInv'
BY DEF BookInv, LimitsSorted, BooksApart, RecordApart

\* A step of the matching that inserts nothing: makers are removed from the
\* record, never put back.
LEMMA MatchingStep ==
  ASSUME IInv, IInv', BookInv, UNCHANGED <<limits, message, insertedLimits>>,
         phase \in Matching, phase' \in Matching \cup {"insert"}, removed <= removed'
  PROVE  BookInv'
<1>1. /\ Makers \in Seq(Order) /\ removed \in Nat /\ removed' \in Nat
  BY SideType DEF OrderPhases, IInv, TypeOK, SimulatorTypeOK
<1>2. /\ Apart(Side, limits[Side], Makers, removed')
      /\ Apart(Side, insertedLimits, Makers, removed')
  <2>1. /\ Apart(Side, limits[Side], Makers, removed)
        /\ Apart(Side, insertedLimits, Makers, removed)
    BY DEF BookInv, RecordApart
  <2>2. Len(Makers) \in Nat
    BY <1>1, LenProperties
  <2> QED BY <1>1, <2>1, <2>2, ApartMoreGone
<1>3. RecordApart'
  BY <1>2 DEF RecordApart, Side, Makers
<1>4. BooksApart
  BY DEF BookInv
<1> QED BY <1>3, <1>4 DEF BookInv, LimitsSorted, BooksApart, Matching

\* A new message finds the committed books apart, whatever its side.
LEMMA AcceptOrderApart ==
  ASSUME IInv, BookInv, NEW m \in Orders, AcceptOrder(m)
  PROVE  BookInv'
<1>1. phase = "idle" /\ message' = m /\ limits' = limits /\ phase' \in {"stop", "consume"}
  BY DEF AcceptOrder, Receivable, marketVars, bookVars
<1>2. m.side \in Sides
  BY OrdersAssumption DEF OrderMessage
<1>3. removed' = 0 /\ insertedLimits' = <<>>
  BY <1>1 DEF AcceptOrder, IInv, ClearedWhenIdle, simVars
<1>4. Apart(m.side, limits[m.side], limits[Opposite(m.side)], 0)
  BY <1>1, <1>2, BooksOfSide DEF BookInv, BooksApart
<1>5. Apart(m.side, <<>>, limits[Opposite(m.side)], 0)
  BY DEF Apart
<1>6. RecordApart'
  BY <1>1, <1>3, <1>4, <1>5 DEF RecordApart, Side, Makers
<1> QED BY <1>1, <1>6 DEF BookInv, LimitsSorted, BooksApart

\* What is left of a limit order is inserted only when the next maker is not
\* good enough for it; the makers behind that one are no better.
LEMMA RestLimitOrderApart ==
  ASSUME IInv, BookInv, RestLimitOrder
  PROVE  BookInv'
<1>1. /\ phase = "consume" /\ phase' = "kick" /\ phase \in Matching /\ phase \in OrderPhases
      /\ ~HasMaker /\ taker.kind = "limit"
      /\ UNCHANGED <<limits, message, removed>>
  BY DEF RestLimitOrder, Matching, OrderPhases, marketVars, bookVars
<1>2. /\ Side \in Sides /\ Makers \in Seq(Order) /\ removed \in Nat /\ taker \in Taker
      /\ insertedLimits \in Seq(Order)
  BY <1>1, SideType DEF IInv, TypeOK, SimulatorTypeOK, CallTypeOK
<1> DEFINE rest == [id |-> taker.id, user |-> taker.user, price |-> taker.price,
                    actual |-> 0, left |-> taker.left]
<1>3. insertedLimits' = Append(insertedLimits, rest) /\ rest.price = taker.price
  BY DEF RestLimitOrder
<1>4. rest \in Order /\ taker.price \in Int
  <2>1. taker.left > 0
    BY <1>1 DEF IInv, SimulatorInBounds
  <2> QED BY <1>2, <2>1 DEF Taker, Order
<1> HIDE DEF rest
<1>5. ASSUME NEW j \in removed + 1 .. Len(Makers)
      PROVE  ~Reached(Side, Makers[j].price, taker.price)
  <2>1. removed + 1 \in 1 .. Len(Makers) /\ j \in 1 .. Len(Makers)
    BY <1>2
  <2>2. ~Reached(Side, Makers[removed + 1].price, taker.price)
    BY <1>1, <1>2, <2>1 DEF HasMaker, Consumable
  <2>3. Sorted(Side, Makers)
    BY <1>2 DEF BookInv, LimitsSorted, Makers, Opposite, Sides
  <2>4. Makers[removed + 1].price \in Int /\ Makers[j].price \in Int
    BY <1>2, <2>1, PriceType
  <2>5. CASE j = removed + 1
    BY <2>2, <2>5
  <2>6. CASE j # removed + 1
    <3>1. removed + 1 < j
      BY <1>2, <2>6
    <3>2. Reached(Side, Makers[removed + 1].price, Makers[j].price)
      BY <2>1, <2>3, <3>1 DEF Sorted
    <3> QED BY <1>4, <2>2, <2>4, <3>2, ReachedIsOrder
  <2> QED BY <2>5, <2>6
<1>6. Apart(Side, insertedLimits', Makers, removed)
  <2>1. /\ Len(insertedLimits') = Len(insertedLimits) + 1
        /\ \A i \in 1 .. Len(insertedLimits) : insertedLimits'[i] = insertedLimits[i]
        /\ insertedLimits'[Len(insertedLimits) + 1] = rest
    BY <1>2, <1>3, <1>4, AppendProperties
  <2>2. Apart(Side, insertedLimits, Makers, removed)
    BY <1>1 DEF BookInv, RecordApart
  <2>3. ASSUME NEW i \in 1 .. Len(insertedLimits'), NEW j \in removed + 1 .. Len(Makers)
        PROVE  ~Reached(Side, Makers[j].price, insertedLimits'[i].price)
    <3>1. CASE i = Len(insertedLimits) + 1
      BY <1>3, <1>5, <2>1, <3>1
    <3>2. CASE i # Len(insertedLimits) + 1
      <4>1. i \in 1 .. Len(insertedLimits)
        BY <1>2, <2>1, <3>2
      <4>2. insertedLimits'[i] = insertedLimits[i]
        BY <2>1, <4>1
      <4> QED BY <2>2, <4>1, <4>2 DEF Apart
    <3> QED BY <3>1, <3>2
  <2> QED BY <2>3 DEF Apart
<1>7. RecordApart'
  BY <1>1, <1>6 DEF BookInv, RecordApart, Side, Makers
<1> QED BY <1>1, <1>7 DEF BookInv, LimitsSorted, BooksApart

\* An order that is inserted was apart from the makers that stay.
LEMMA InsertLimitOrderApart ==
  ASSUME IInv, BookInv, InsertLimitOrder
  PROVE  BookInv'
<1>1. /\ phase = "insert" /\ phase \in OrderPhases /\ phase' = phase /\ message' = message
      /\ removed' = removed /\ insertedLimits # <<>> /\ insertedLimits' = Tail(insertedLimits)
  BY DEF InsertLimitOrder, OrderPhases, callVars
<1>2. /\ Side \in Sides /\ Opposite(Side) \in Sides /\ Opposite(Side) # Side
      /\ limits[Side] \in Seq(Order) /\ insertedLimits \in Seq(Order)
  BY <1>1, SideType DEF IInv, TypeOK, SimulatorTypeOK, Opposite, Sides
<1> DEFINE o == Head(insertedLimits)
           filed == PushBack(Opposite(Side), limits[Side], o)
<1>3. limits' = [limits EXCEPT ![Side] = filed]
  BY DEF InsertLimitOrder
<1>4. /\ o = insertedLimits[1] /\ o \in Order
      /\ Len(insertedLimits) \in Nat \ {0} /\ Len(Tail(insertedLimits)) = Len(insertedLimits) - 1
      /\ \A i \in 1 .. Len(insertedLimits) - 1 :
           Tail(insertedLimits)[i] = insertedLimits[i + 1]
  BY <1>1, <1>2, HeadTailProperties, LenProperties, EmptySeq
<1> HIDE DEF o
<1>5. filed \in Seq(Order) /\ Len(filed) = Len(limits[Side]) + 1
  BY <1>2, <1>4, PushBackProperties
<1>6. \A i \in 1 .. Len(filed) :
        filed[i] = o \/ \E j \in 1 .. Len(limits[Side]) : filed[i] = limits[Side][j]
  BY <1>2, <1>4, <1>5, PushBackElements
<1>7. Sorted(Opposite(Side), filed)
  <2>1. Sorted(Opposite(Side), limits[Side])
    BY <1>2 DEF BookInv, LimitsSorted
  <2>2. \A x \in Order : x.price \in Int
    BY DEF Order
  <2> QED BY <1>2, <1>4, <2>1, <2>2, PushBackSorted
<1> HIDE DEF filed
<1>8. Makers' = Makers /\ limits'[Side'] = filed /\ Side' = Side
  <2>1. Side' = Side
    BY <1>1 DEF Side
  <2>2. limits'[Opposite(Side)] = limits[Opposite(Side)] /\ limits'[Side] = filed
    BY <1>2, <1>3, LimitsType
  <2> QED BY <2>1, <2>2 DEF Makers
<1>9. LimitsSorted'
  <2>1. ASSUME NEW s \in Sides PROVE Sorted(Opposite(s), limits'[s])
    <3>1. CASE s = Side
      BY <1>2, <1>3, <1>7, <3>1, LimitsType
    <3>2. CASE s # Side
      <4>1. limits'[s] = limits[s]
        BY <1>3, <3>2, LimitsType
      <4> QED BY <4>1 DEF BookInv, LimitsSorted
    <3> QED BY <3>1, <3>2
  <2> QED BY <2>1 DEF LimitsSorted
<1>10. /\ Apart(Side, limits[Side], Makers, removed)
       /\ Apart(Side, insertedLimits, Makers, removed)
  BY <1>1 DEF BookInv, RecordApart
<1>11. Apart(Side, filed, Makers, removed)
  <2>1. ASSUME NEW i \in 1 .. Len(filed), NEW j \in removed + 1 .. Len(Makers)
        PROVE  ~Reached(Side, Makers[j].price, filed[i].price)
    <3>1. CASE filed[i] = o
      <4>1. 1 \in 1 .. Len(insertedLimits)
        BY <1>4
      <4> QED BY <1>4, <1>10, <3>1, <4>1 DEF Apart
    <3>2. CASE \E k \in 1 .. Len(limits[Side]) : filed[i] = limits[Side][k]
      BY <1>10, <3>2 DEF Apart
    <3> QED BY <1>6, <3>1, <3>2
  <2> QED BY <2>1 DEF Apart
<1>12. Apart(Side, Tail(insertedLimits), Makers, removed)
  <2>1. ASSUME NEW i \in 1 .. Len(insertedLimits) - 1, NEW j \in removed + 1 .. Len(Makers)
        PROVE  ~Reached(Side, Makers[j].price, Tail(insertedLimits)[i].price)
    <3>1. i + 1 \in 1 .. Len(insertedLimits)
      BY <1>4
    <3>2. ~Reached(Side, Makers[j].price, insertedLimits[i + 1].price)
      BY <1>10, <3>1 DEF Apart
    <3> QED BY <1>4, <3>2
  <2> QED BY <1>4, <2>1 DEF Apart
<1>13. RecordApart'
  BY <1>1, <1>8, <1>11, <1>12 DEF RecordApart
<1> QED BY <1>1, <1>9, <1>13 DEF BookInv, BooksApart

\* The makers that the commit leaves are those behind the removed ones: in the
\* same order, at their old prices.
LEMMA UpdatedMakersPrices ==
  ASSUME IInv, phase = "insert"
  PROVE  /\ removed \in 0 .. Len(Makers)
         /\ Len(UpdatedMakers) = Len(Makers) - removed
         /\ \A i \in 1 .. Len(Makers) - removed :
              UpdatedMakers[i].price = Makers[removed + i].price
<1>0. /\ Makers \in Seq(Order) /\ removed \in Nat /\ removed <= Len(Makers)
      /\ lastFill > 0 => removed < Len(Makers)
  BY SideType DEF IInv, TypeOK, SimulatorTypeOK, SimulatorInBounds, OrderPhases
<1>1. removed \in 0 .. Len(Makers)
  BY <1>0, LenProperties
<1> DEFINE rest == DropFirst(Makers, removed)
<1>2. /\ rest \in Seq(Order) /\ Len(rest) = Len(Makers) - removed
      /\ \A i \in 1 .. Len(Makers) - removed : rest[i] = Makers[removed + i]
  BY <1>0, <1>1, DropFirstProperties
<1>3. UpdatedMakers =
        IF lastFill > 0 THEN [rest EXCEPT ![1] = [rest[1] EXCEPT !.left = @ - lastFill]] ELSE rest
  BY DEF UpdatedMakers
<1> HIDE DEF rest
<1>4. CASE lastFill > 0
  <2> DEFINE first == [rest[1] EXCEPT !.left = @ - lastFill]
  <2>1. 1 \in 1 .. Len(rest) /\ rest[1] \in Order
    BY <1>0, <1>2, <1>4, ElementOfSeq
  <2>2. first.price = rest[1].price
    BY <2>1 DEF Order
  <2>3. UpdatedMakers \in Seq(Order)
    BY UpdatedMakersType
  <2>4. UpdatedMakers = [rest EXCEPT ![1] = first]
    BY <1>3, <1>4
  <2> HIDE DEF first
  <2>5. Len(UpdatedMakers) = Len(rest) /\ UpdatedMakers[1].price = rest[1].price
    BY <1>2, <2>1, <2>2, <2>3, <2>4
  <2>6. \A i \in 1 .. Len(rest) : i # 1 => UpdatedMakers[i] = rest[i]
    BY <1>2, <2>4
  <2> QED BY <1>1, <1>2, <2>5, <2>6
<1>5. CASE ~(lastFill > 0)
  BY <1>1, <1>2, <1>3, <1>5
<1> QED BY <1>4, <1>5

\* When the removed makers have left, the books are apart again.
LEMMA UpdateBooksApart ==
  ASSUME IInv, IInv', BookInv, UpdateBooks
  PROVE  BookInv'
<1>1. phase = "insert" /\ phase \in OrderPhases /\ phase' = "settle"
  BY DEF UpdateBooks, OrderPhases
<1>2. /\ Side \in Sides /\ Opposite(Side) \in Sides /\ Opposite(Side) # Side
      /\ Makers \in Seq(Order)
  BY <1>1, SideType DEF Opposite, Sides
<1>3. limits' = [limits EXCEPT ![Opposite(Side)] = UpdatedMakers]
  BY DEF UpdateBooks
<1>4. /\ removed \in 0 .. Len(Makers) /\ Len(UpdatedMakers) = Len(Makers) - removed
      /\ \A i \in 1 .. Len(Makers) - removed :
           UpdatedMakers[i].price = Makers[removed + i].price
  BY <1>1, UpdatedMakersPrices
<1>5. limits'[Opposite(Side)] = UpdatedMakers /\ limits'[Side] = limits[Side]
  BY <1>2, <1>3, LimitsType
<1>6. Sorted(Side, UpdatedMakers)
  <2>1. Sorted(Side, Makers)
    BY <1>2 DEF BookInv, LimitsSorted, Makers, Opposite, Sides
  <2>2. ASSUME NEW i \in 1 .. Len(Makers) - removed, NEW j \in 1 .. Len(Makers) - removed, i < j
        PROVE  Reached(Side, UpdatedMakers[i].price, UpdatedMakers[j].price)
    <3>1. /\ removed + i \in 1 .. Len(Makers) /\ removed + j \in 1 .. Len(Makers)
          /\ removed + i < removed + j
      BY <1>4, <2>2
    <3> QED BY <1>4, <2>1, <3>1 DEF Sorted
  <2> QED BY <1>4, <2>2 DEF Sorted
<1>7. LimitsSorted'
  <2>1. Opposite(Opposite(Side)) = Side
    BY <1>2 DEF Opposite, Sides
  <2>2. Sorted(Opposite(Side), limits[Side])
    BY <1>2 DEF BookInv, LimitsSorted
  <2>3. \A s \in Sides : s = Side \/ s = Opposite(Side)
    BY <1>2 DEF Opposite, Sides
  <2> QED BY <1>5, <1>6, <2>1, <2>2, <2>3 DEF LimitsSorted
<1>8. Apart(Side, limits'[Side], limits'[Opposite(Side)], 0)
  <2>1. Apart(Side, limits[Side], Makers, removed)
    BY <1>1 DEF BookInv, RecordApart
  <2>2. ASSUME NEW j \in 0 + 1 .. Len(UpdatedMakers)
        PROVE  \E k \in removed + 1 .. Len(Makers) : UpdatedMakers[j].price = Makers[k].price
    <3>1. removed + j \in removed + 1 .. Len(Makers) /\ j \in 1 .. Len(Makers) - removed
      BY <1>4
    <3> QED BY <1>4, <3>1
  <2>3. Apart(Side, limits[Side], UpdatedMakers, 0)
    BY <2>1, <2>2, ApartPrices
  <2> QED BY <1>5, <2>3
<1>9. BooksApart'
  <2>1. limits' \in [Sides -> Seq(Order)]
    BY DEF IInv, TypeOK, MarketTypeOK
  <2>2. limits'["Buy"] \in Seq(Order) /\ limits'["Sell"] \in Seq(Order)
    BY <2>1 DEF Sides
  <2>3. Apart("Buy", limits'["Buy"], limits'["Sell"], 0)
    <3>1. CASE Side = "Buy"
      BY <1>8, <3>1 DEF Opposite
    <3>2. CASE Side = "Sell"
      BY <1>8, <2>2, <3>2, ApartSwap DEF Opposite
    <3> QED BY <1>2, <3>1, <3>2 DEF Sides
  <2> QED BY <2>3 DEF BooksApart
<1>10. RecordApart'
  BY <1>1 DEF RecordApart, Matching
<1> QED BY <1>7, <1>9, <1>10 DEF BookInv

\* Taking an order out of a limit book brings the books no closer.
LEMMA RemoveFromBookApart ==
  ASSUME IInv, BookInv, phase # "insert", phase' \notin Matching \cup {"insert"},
         NEW kind \in {"limit", "stop"}, NEW side \in Sides,
         NEW i \in 1 .. Len(Book(kind, side)), RemoveFromBook(kind, side, i)
  PROVE  BookInv'
<1>1. CASE kind = "stop"
  BY <1>1, BooksKept DEF RemoveFromBook
<1>2. CASE kind = "limit"
  <2> DEFINE rest == Without(limits[side], i)
  <2>1. limits[side] \in Seq(Order) /\ i \in 1 .. Len(limits[side])
    BY <1>2, LimitsType DEF Book
  <2>2. limits' = [limits EXCEPT ![side] = rest]
    BY <1>2 DEF RemoveFromBook
  <2>3. Sorted(Opposite(side), rest)
    BY <2>1, WithoutSorted DEF BookInv, LimitsSorted
  <2>4. \A j \in 1 .. Len(rest) : \E k \in 1 .. Len(limits[side]) :
          rest[j].price = limits[side][k].price
    <3>1. /\ Len(rest) = Len(limits[side]) - 1
          /\ \A j \in 1 .. Len(limits[side]) - 1 :
               rest[j] = IF j < i THEN limits[side][j] ELSE limits[side][j + 1]
      BY <2>1, WithoutProperties
    <3> HIDE DEF rest
    <3>2. ASSUME NEW j \in 1 .. Len(rest)
          PROVE  \E k \in 1 .. Len(limits[side]) : rest[j].price = limits[side][k].price
      <4>1. j \in 1 .. Len(limits[side]) /\ j + 1 \in 1 .. Len(limits[side])
        BY <2>1, <3>1
      <4> QED BY <3>1, <4>1
    <3> QED BY <3>2
  <2> HIDE DEF rest
  <2>5. \A s \in Sides : limits'[s] = IF s = side THEN rest ELSE limits[s]
    BY <2>2, LimitsType
  <2>6. LimitsSorted'
    BY <2>3, <2>5 DEF BookInv, LimitsSorted
  <2>7. \A s \in Sides : \A j \in 1 .. Len(limits'[s]) : \E k \in 1 .. Len(limits[s]) :
          limits'[s][j].price = limits[s][k].price
    BY <2>4, <2>5
  <2>8. Apart("Buy", limits'["Buy"], limits'["Sell"], 0)
    <3>1. Apart("Buy", limits["Buy"], limits["Sell"], 0)
      BY DEF BookInv, BooksApart
    <3>2. ASSUME NEW j \in 1 .. Len(limits'["Buy"]), NEW k \in 1 .. Len(limits'["Sell"])
          PROVE  ~Reached("Buy", limits'["Sell"][k].price, limits'["Buy"][j].price)
      <4>1. PICK m \in 1 .. Len(limits["Buy"]) :
              limits'["Buy"][j].price = limits["Buy"][m].price
        BY <2>7 DEF Sides
      <4>2. PICK n \in 1 .. Len(limits["Sell"]) :
              limits'["Sell"][k].price = limits["Sell"][n].price
        BY <2>7 DEF Sides
      <4>3. ~Reached("Buy", limits["Sell"][n].price, limits["Buy"][m].price)
        BY <3>1 DEF Apart
      <4> QED BY <4>1, <4>2, <4>3
    <3> QED BY <3>2 DEF Apart
  <2> QED BY <2>6, <2>8 DEF BookInv, BooksApart, RecordApart
<1> QED BY <1>1, <1>2

\* Empty books are apart.
LEMMA ClearEveryonesApart ==
  ASSUME IInv, BookInv, ClearEveryonesOpenOrders
  PROVE  BookInv'
<1>1. phase' = "idle" /\ limits' = [s \in Sides |-> <<>>]
  BY DEF ClearEveryonesOpenOrders
<1>2. limits'["Buy"] = <<>> /\ limits'["Sell"] = <<>> /\ \A s \in Sides : limits'[s] = <<>>
  BY <1>1 DEF Sides
<1> QED BY <1>1, <1>2 DEF BookInv, LimitsSorted, Sorted, BooksApart, Apart, RecordApart, Matching

-----------------------------------------------------------------------------
(* The invariant *)

\* Every step of a handler keeps the books as they have to be.
LEMMA ProcessingApart ==
  ASSUME IInv, IInv', BookInv, Processing
  PROVE  BookInv'
<1> USE DEF marketVars, bookVars, simVars, callVars
<1>1. CASE \/ ConsumeOwn \/ MarketOrderUnfilled \/ LimitOrderRefused \/ StopLimitRefused
           \/ SettleTrade \/ AnswerOrder \/ CancelledAll \/ \E e \in toCancel : CancelStale(e)
  <2>1. /\ limits' = limits /\ phase # "insert"
        /\ phase' \notin Matching \cup {"insert"}
    BY <1>1 DEF ConsumeOwn, HasMaker, MarketOrderUnfilled, LimitOrderRefused, StopLimitRefused,
                SettleTrade, AnswerOrder, CancelledAll, CancelStale, Throw, Return, Matching
  <2> QED BY <2>1, BooksKept
<1>2. CASE \/ ConsumePart \/ ConsumeWhole \/ PlaceStopLimit \/ KickOffStopOrders
           \/ NoTradeNoKick \/ ProcessStopOrder \/ PostProcess
  <2>1. /\ limits' = limits /\ message' = message /\ insertedLimits' = insertedLimits
        /\ phase \in Matching /\ phase' \in Matching \cup {"insert"}
    BY <1>2 DEF ConsumePart, ConsumeWhole, HasMaker, PlaceStopLimit, KickOffStopOrders,
                NoTradeNoKick, ProcessStopOrder, PostProcess, Matching
  <2>2. removed' = removed \/ removed' = removed + 1
    BY <1>2 DEF ConsumePart, ConsumeWhole, PlaceStopLimit, KickOffStopOrders,
                NoTradeNoKick, ProcessStopOrder, PostProcess
  <2>3. removed <= removed'
    BY <2>2 DEF IInv, TypeOK, SimulatorTypeOK
  <2> QED BY <2>1, <2>3, MatchingStep
<1>3. CASE RestLimitOrder
  BY <1>3, RestLimitOrderApart
<1>4. CASE InsertLimitOrder
  BY <1>4, InsertLimitOrderApart
<1>5. CASE UpdateBooks
  BY <1>5, UpdateBooksApart
<1>6. ASSUME NEW e \in toCancel, CancelNext(e) PROVE BookInv'
  <2>1. phase = "cancel" /\ phase' = "cancel"
    BY <1>6 DEF CancelNext
  <2>2. e.kind \in {"limit", "stop"} /\ e.side \in Sides
    BY DEF IInv, TypeOK, CallTypeOK, CacheEntry
  <2>3. PICK i \in 1 .. Len(Book(e.kind, e.side)) : RemoveFromBook(e.kind, e.side, i)
    BY <1>6 DEF CancelNext
  <2> QED BY <2>1, <2>2, <2>3, RemoveFromBookApart DEF Matching
<1> QED BY <1>1, <1>2, <1>3, <1>4, <1>5, <1>6 DEF Processing

\* So does every message that arrives.
LEMMA ReceiveApart ==
  ASSUME IInv, IInv', BookInv, Receive
  PROVE  BookInv'
<1> USE DEF marketVars, bookVars, callVars
<1>1. ASSUME NEW m \in Orders, AcceptOrder(m) PROVE BookInv'
  BY <1>1, AcceptOrderApart
<1>2. ASSUME NEW kind \in {"limit", "stop"}, NEW side \in Sides,
             NEW i \in 1 .. Len(Book(kind, side)), CancelOrder(kind, side, i)
      PROVE  BookInv'
  <2>1. RemoveFromBook(kind, side, i) /\ phase = "idle" /\ phase' = "idle"
    BY <1>2 DEF CancelOrder
  <2> QED BY <2>1, RemoveFromBookApart DEF Matching
<1>3. CASE ClearEveryonesOpenOrders
  BY <1>3, ClearEveryonesApart
<1>4. CASE \/ \E m \in Orders : RejectOrder(m)
           \/ CancelUnknownOrder
           \/ \E user \in Users : ClearOpenOrders(user)
           \/ SetFeePercentage \/ SetMaxNumLimitOpenOrders \/ SetMaxNumStopLimitOpenOrders
  <2>1. limits' = limits /\ phase = "idle" /\ phase' \in {"idle", "cancel"}
    BY <1>4 DEF RejectOrder, Receivable, CancelUnknownOrder, ClearOpenOrders, SetConfig,
                SetFeePercentage, SetMaxNumLimitOpenOrders, SetMaxNumStopLimitOpenOrders
  <2> QED BY <2>1, BooksKept DEF Matching
<1> QED BY <1>1, <1>2, <1>3, <1>4 DEF Receive

\* Every step keeps the books apart.
LEMMA BookStep ==
  ASSUME IInv, IInv', BookInv, [Next]_vars
  PROVE  BookInv'
<1>1. CASE UNCHANGED vars
  BY <1>1 DEF vars, marketVars, bookVars, simVars, callVars, BookInv, LimitsSorted,
              BooksApart, RecordApart, Side, Makers
<1> QED BY <1>1, ProcessingApart, ReceiveApart DEF Next

\* The books are sorted and apart, in the record as well as committed.
THEOREM BookInvariance == Spec => []BookInv
<1>1. Init => BookInv
  <2> SUFFICES ASSUME Init PROVE BookInv
    OBVIOUS
  <2>1. limits["Buy"] = <<>> /\ limits["Sell"] = <<>> /\ \A s \in Sides : limits[s] = <<>>
    BY DEF Init, Sides
  <2>2. phase = "idle"
    BY DEF Init
  <2> QED BY <2>1, <2>2 DEF BookInv, LimitsSorted, Sorted, BooksApart, Apart, RecordApart,
                            Matching
<1>2. IInv /\ IInv' /\ BookInv /\ [Next]_vars => BookInv'
  BY BookStep
<1> QED BY <1>1, <1>2, Invariance, PTL DEF Spec

\* Between messages the best bid is below the best ask, however many stop orders
\* the messages have set off and whichever orders were cancelled.
THEOREM NeverCrossed == Spec => []BookNotCrossed
<1>1. IInv /\ BookInv => BookNotCrossed
  <2> SUFFICES ASSUME IInv, BookInv, phase = "idle",
                      NEW i \in DOMAIN limits["Buy"], NEW j \in DOMAIN limits["Sell"]
               PROVE  limits["Buy"][i].price < limits["Sell"][j].price
    BY DEF BookNotCrossed
  <2>1. limits["Buy"] \in Seq(Order) /\ limits["Sell"] \in Seq(Order)
    BY LimitsType DEF Sides
  <2>2. i \in 1 .. Len(limits["Buy"]) /\ j \in 1 .. Len(limits["Sell"])
    BY <2>1, LenProperties
  <2>3. limits["Buy"][i].price \in Int /\ limits["Sell"][j].price \in Int
    BY <2>1, <2>2, PriceType
  <2>4. ~Reached("Buy", limits["Sell"][j].price, limits["Buy"][i].price)
    BY <2>2 DEF BookInv, BooksApart, Apart
  <2> QED BY <2>3, <2>4 DEF Reached
<1> QED BY Invariance, BookInvariance, <1>1, PTL

-----------------------------------------------------------------------------
(* Stop orders *)

\* The stop-limit maps are in their order.
StopsSorted == \A s \in Sides : Sorted(s, stops[s])

\* A message trades at prices that only get worse for its side, from one call to
\* the next: the last price of a call is the furthest that any trade has gone.
TradesOrdered ==
  phase \in Matching =>
    \A t \in 1 .. Len(trades) :
      /\ \A j \in removed + 1 .. Len(Makers) : Reached(Side, trades[t].price, Makers[j].price)
      /\ lastTradePrice # NoTrade => Reached(Side, trades[t].price, lastTradePrice)

\* A call that has not traded has nothing to trigger, nor has one that has called
\* KickOffStopOrders.
NoneMissed ==
  phase \in Matching /\ (lastTradePrice = NoTrade \/ phase \in {"stop", "next"}) =>
    \A t \in 1 .. Len(trades), i \in triggered + 1 .. Len(stops[Side]) :
      ~Reached(Side, stops[Side][i].price, trades[t].price)

NoTrades == phase \in {"idle", "cancel"} => trades = <<>>

TriggerInv == StopsSorted /\ TradesOrdered /\ NoneMissed /\ NoTrades

\* Trades have natural numbers as prices.
LEMMA TradePriceType ==
  ASSUME NEW deals \in Seq(Trade)
  PROVE  \A t \in 1 .. Len(deals) : deals[t].price \in Int
<1>1. ASSUME NEW t \in 1 .. Len(deals) PROVE deals[t].price \in Int
  <2>1. deals[t] \in Trade
    BY ElementOfSeq
  <2> QED BY <2>1 DEF Trade
<1> QED BY <1>1

\* A step within a message that trades nothing and triggers nothing.
LEMMA TriggersKept ==
  ASSUME TriggerInv, phase \in Matching, phase' \in Matching,
         UNCHANGED <<stops, limits, message, trades, removed, triggered>>,
         lastTradePrice' \in {lastTradePrice, NoTrade},
         lastTradePrice' = NoTrade \/ phase' \in {"stop", "next"} =>
           lastTradePrice = NoTrade \/ phase \in {"stop", "next"}
  PROVE  TriggerInv'
BY DEF TriggerInv, StopsSorted, TradesOrdered, NoneMissed, NoTrades, Matching, Side, Makers

\* A step that ends outside of the matching.
LEMMA TriggersLeft ==
  ASSUME TriggerInv, phase' \notin Matching, StopsSorted',
         phase' \in {"idle", "cancel"} => trades' = <<>>
  PROVE  TriggerInv'
BY DEF TriggerInv, TradesOrdered, NoneMissed, NoTrades

\* The trade with a maker is the furthest so far.
LEMMA ConsumeTriggers ==
  ASSUME IInv, BookInv, TriggerInv, HasMaker, NEW n \in Nat, UNCHANGED <<limits, stops, message>>,
         trades' = Append(trades, TradeWith(Maker, n)), lastTradePrice' = Maker.price,
         removed' \in {removed, removed + 1}, phase' \in {"consume", "kick"}
  PROVE  TriggerInv'
<1>1. phase = "consume" /\ phase \in Matching /\ phase \in OrderPhases
  BY DEF HasMaker, Matching, OrderPhases
<1>2. /\ Side \in Sides /\ Makers \in Seq(Order) /\ removed + 1 \in 1 .. Len(Makers)
      /\ removed \in Nat /\ trades \in Seq(Trade) /\ Len(Makers) \in Nat
  BY <1>1, SideType, MakerType, LenProperties DEF IInv, TypeOK, SimulatorTypeOK
<1>3. Side' = Side /\ Makers' = Makers
  BY DEF Side, Makers
<1>4. Maker.price \in Nat /\ Maker.price # NoTrade
  <2>1. Maker \in Order
    BY MakerType
  <2> QED BY <2>1 DEF Order, NoTrade
<1>5. Sorted(Side, Makers)
  BY <1>2 DEF BookInv, LimitsSorted, Makers, Opposite, Sides
<1>6. ASSUME NEW j \in removed + 1 .. Len(Makers)
      PROVE  Reached(Side, Maker.price, Makers[j].price)
  <2>1. j \in 1 .. Len(Makers)
    BY <1>2
  <2>2. CASE j = removed + 1
    BY <1>4, <2>2, ReachedIsOrder DEF Maker
  <2>3. CASE j # removed + 1
    <3>1. removed + 1 < j
      BY <1>2, <2>3
    <3> QED BY <1>2, <1>5, <2>1, <3>1 DEF Sorted, Maker
  <2> QED BY <2>2, <2>3
<1> DEFINE deal == TradeWith(Maker, n)
<1>7. deal \in Trade /\ deal.price = Maker.price
  BY TradeType DEF TradeWith
<1> HIDE DEF deal
<1>8. /\ Len(trades') = Len(trades) + 1 /\ Len(trades) \in Nat
      /\ trades'[Len(trades) + 1] = deal
      /\ \A t \in 1 .. Len(trades) : trades'[t] = trades[t]
  <2>1. trades' = Append(trades, deal)
    BY DEF deal
  <2> QED BY <1>2, <1>7, <2>1, AppendProperties, LenProperties
<1>9. ASSUME NEW t \in 1 .. Len(trades')
      PROVE  /\ \A j \in removed' + 1 .. Len(Makers) :
                  Reached(Side, trades'[t].price, Makers[j].price)
             /\ Reached(Side, trades'[t].price, Maker.price)
  <2>1. removed + 1 \in removed + 1 .. Len(Makers)
    BY <1>2
  <2>2. ASSUME NEW j \in removed' + 1 .. Len(Makers)
        PROVE  j \in removed + 1 .. Len(Makers)
    <3>1. CASE removed' = removed
      BY <3>1
    <3>2. CASE removed' = removed + 1
      <4>1. j \in removed + 2 .. Len(Makers)
        BY <1>2, <3>2
      <4> QED BY <1>2, <4>1
    <3> QED BY <3>1, <3>2
  <2>3. CASE t = Len(trades) + 1
    BY <1>4, <1>6, <1>7, <1>8, <2>2, <2>3, ReachedIsOrder
  <2>4. CASE t # Len(trades) + 1
    <3>1. t \in 1 .. Len(trades) /\ trades'[t] = trades[t]
      BY <1>8, <2>4
    <3>2. \A j \in removed + 1 .. Len(Makers) : Reached(Side, trades[t].price, Makers[j].price)
      BY <1>1, <3>1 DEF TriggerInv, TradesOrdered
    <3> QED BY <2>1, <2>2, <3>1, <3>2 DEF Maker
  <2> QED BY <2>3, <2>4
<1>10. TradesOrdered'
  BY <1>3, <1>9 DEF TradesOrdered
<1>11. NoneMissed' /\ NoTrades'
  BY <1>4 DEF NoneMissed, NoTrades
<1> QED BY <1>10, <1>11 DEF TriggerInv, StopsSorted

\* The first stop order that is not triggered is not reached by the last trade;
\* those behind it are not, and no trade of the message has gone further.
LEMMA KickOffStopOrdersTriggers ==
  ASSUME IInv, TriggerInv, KickOffStopOrders
  PROVE  TriggerInv'
<1> DEFINE k == ReachedEnd(Side, stops[Side], triggered, lastTradePrice)
<1>1. /\ phase = "kick" /\ phase \in Matching /\ phase \in OrderPhases /\ phase' = "next"
      /\ triggered' = k /\ lastTradePrice # NoTrade
      /\ UNCHANGED <<stops, limits, message, trades, removed, lastTradePrice>>
  BY DEF KickOffStopOrders, Matching, OrderPhases, marketVars, bookVars
<1>2. /\ Side \in Sides /\ stops[Side] \in Seq(Order) /\ Len(stops[Side]) \in Nat
      /\ triggered \in Nat /\ triggered <= Len(stops[Side])
      /\ trades \in Seq(Trade) /\ lastTradePrice \in Int
  <2>1. lastTradePrice \in Int
    BY DEF IInv, TypeOK, CallTypeOK, NoTrade
  <2> QED BY <1>1, <2>1, SideType, LenProperties
          DEF IInv, TypeOK, SimulatorTypeOK, SimulatorInBounds
<1>3. /\ k \in triggered .. Len(stops[Side])
      /\ IsReachedEnd(Side, stops[Side], triggered, lastTradePrice, k)
  BY <1>2, ReachedEndExists
<1> HIDE DEF k
<1>4. Side' = Side /\ Makers' = Makers
  BY <1>1 DEF Side, Makers
<1>5. ASSUME NEW i \in k + 1 .. Len(stops[Side])
      PROVE  ~Reached(Side, stops[Side][i].price, lastTradePrice)
  <2>1. k + 1 \in 1 .. Len(stops[Side]) /\ i \in 1 .. Len(stops[Side]) /\ k < Len(stops[Side])
    BY <1>2, <1>3
  <2>2. ~Reached(Side, stops[Side][k + 1].price, lastTradePrice)
    BY <1>3, <2>1 DEF IsReachedEnd
  <2>3. stops[Side][k + 1].price \in Int /\ stops[Side][i].price \in Int
    BY <1>2, <2>1, PriceType
  <2>4. CASE i = k + 1
    BY <2>2, <2>4
  <2>5. CASE i # k + 1
    <3>1. k + 1 < i
      BY <1>2, <1>3, <2>5
    <3>2. Reached(Side, stops[Side][k + 1].price, stops[Side][i].price)
      BY <1>2, <2>1, <3>1 DEF TriggerInv, StopsSorted, Sorted
    <3> QED BY <1>2, <2>2, <2>3, <3>2, ReachedIsOrder
  <2> QED BY <2>4, <2>5
<1>6. ASSUME NEW t \in 1 .. Len(trades), NEW i \in k + 1 .. Len(stops[Side])
      PROVE  ~Reached(Side, stops[Side][i].price, trades[t].price)
  <2>1. Reached(Side, trades[t].price, lastTradePrice)
    BY <1>1 DEF TriggerInv, TradesOrdered
  <2>2. i \in 1 .. Len(stops[Side])
    BY <1>2, <1>3
  <2>3. stops[Side][i].price \in Int /\ trades[t].price \in Int
    BY <1>2, <2>2, PriceType, TradePriceType
  <2> QED BY <1>2, <1>5, <2>1, <2>3, ReachedIsOrder
<1>7. NoneMissed'
  BY <1>1, <1>4, <1>6 DEF NoneMissed
<1>8. TradesOrdered' /\ StopsSorted' /\ NoTrades'
  BY <1>1, <1>4 DEF TriggerInv, TradesOrdered, StopsSorted, NoTrades
<1> QED BY <1>7, <1>8 DEF TriggerInv

\* A new message has not traded.
LEMMA AcceptOrderTriggers ==
  ASSUME TriggerInv, NEW m \in Orders, AcceptOrder(m)
  PROVE  TriggerInv'
<1>1. /\ phase = "idle" /\ phase' \in {"stop", "consume"} /\ trades' = trades /\ stops' = stops
  BY DEF AcceptOrder, Receivable, marketVars, bookVars, simVars
<1>2. trades' = <<>>
  BY <1>1 DEF TriggerInv, NoTrades
<1>3. TradesOrdered' /\ NoneMissed'
  BY <1>2 DEF TradesOrdered, NoneMissed
<1> QED BY <1>1, <1>3 DEF TriggerInv, StopsSorted, NoTrades

\* The commit leaves the stop orders sorted.
LEMMA CommitTriggers ==
  ASSUME IInv, TriggerInv, PostProcess \/ UpdateBooks
  PROVE  TriggerInv'
<1>1. /\ phase \in OrderPhases /\ phase' \in {"insert", "settle"}
  BY DEF PostProcess, UpdateBooks, OrderPhases, Matching
<1>2. Side \in Sides /\ stops[Side] \in Seq(Order) /\ stops \in [Sides -> Seq(Order)]
      /\ Sorted(Side, stops[Side])
  BY <1>1, SideType DEF IInv, TypeOK, MarketTypeOK, TriggerInv, StopsSorted
<1>3. CASE PostProcess
  <2>1. triggered \in 0 .. Len(stops[Side])
    BY <1>2, <1>3, LenProperties
       DEF PostProcess, IInv, TypeOK, SimulatorTypeOK, SimulatorInBounds, Matching
  <2>2. Sorted(Side, DropFirst(stops[Side], triggered))
    BY <1>2, <2>1, DropFirstSorted
  <2>3. stops' = [stops EXCEPT ![Side] = DropFirst(stops[Side], triggered)]
    BY <1>3 DEF PostProcess
  <2>4. StopsSorted'
    BY <1>2, <2>2, <2>3 DEF TriggerInv, StopsSorted
  <2> QED BY <1>1, <2>4, TriggersLeft DEF Matching
<1>4. CASE UpdateBooks
  <2>1. stops' = (IF insertedStop = <<>> THEN stops
                  ELSE [stops EXCEPT ![Side] = PushBack(Side, stops[Side], insertedStop[1])])
    BY <1>4 DEF UpdateBooks
  <2>2. CASE insertedStop = <<>>
    BY <1>1, <2>1, <2>2, TriggersLeft DEF TriggerInv, StopsSorted, Matching
  <2>3. CASE insertedStop # <<>>
    <3>1. insertedStop[1] \in Order
      <4>1. insertedStop \in Seq(Order)
        BY DEF IInv, TypeOK, SimulatorTypeOK
      <4>2. Len(insertedStop) \in Nat \ {0}
        BY <2>3, <4>1, EmptySeq
      <4>3. 1 \in 1 .. Len(insertedStop)
        BY <4>2
      <4> QED BY <4>1, <4>3, ElementOfSeq
    <3>2. \A x \in Order : x.price \in Int
      BY DEF Order
    <3>3. Sorted(Side, PushBack(Side, stops[Side], insertedStop[1]))
      BY <1>2, <3>1, <3>2, PushBackSorted
    <3>4. StopsSorted'
      BY <1>2, <2>1, <2>3, <3>3 DEF TriggerInv, StopsSorted
    <3> QED BY <1>1, <3>4, TriggersLeft DEF Matching
  <2> QED BY <2>2, <2>3
<1> QED BY <1>3, <1>4

\* So does the removal of an order.
LEMMA RemoveFromBookTriggers ==
  ASSUME IInv, TriggerInv, phase \in {"idle", "cancel"}, phase' \in {"idle", "cancel"},
         trades' = trades,
         NEW kind \in {"limit", "stop"}, NEW side \in Sides,
         NEW i \in 1 .. Len(Book(kind, side)), RemoveFromBook(kind, side, i)
  PROVE  TriggerInv'
<1>1. trades' = <<>> /\ phase' \notin Matching
  BY DEF TriggerInv, NoTrades, Matching
<1>2. StopsSorted'
  <2>1. CASE kind = "limit"
    BY <2>1 DEF RemoveFromBook, TriggerInv, StopsSorted
  <2>2. CASE kind = "stop"
    <3>1. stops[side] \in Seq(Order) /\ i \in 1 .. Len(stops[side])
          /\ stops \in [Sides -> Seq(Order)]
      BY <2>2 DEF Book, IInv, TypeOK, MarketTypeOK
    <3>2. Sorted(side, Without(stops[side], i))
      BY <3>1, WithoutSorted DEF TriggerInv, StopsSorted
    <3>3. stops' = [stops EXCEPT ![side] = Without(stops[side], i)]
      BY <2>2 DEF RemoveFromBook
    <3> QED BY <3>1, <3>2, <3>3 DEF TriggerInv, StopsSorted
  <2> QED BY <2>1, <2>2
<1> QED BY <1>1, <1>2, TriggersLeft

\* Every step keeps it.
LEMMA TriggerStep ==
  ASSUME IInv, BookInv, TriggerInv, [Next]_vars
  PROVE  TriggerInv'
<1>1. CASE ConsumePart \/ ConsumeWhole
  <2>1. HasMaker
    BY <1>1 DEF ConsumePart, ConsumeWhole
  <2>2. taker.left \in Nat /\ MakerLeft \in Nat
    BY <2>1, MakerType DEF HasMaker, IInv, TypeOK, CallTypeOK, OrderPhases, Matching, Taker
  <2> QED BY <1>1, <2>1, <2>2, ConsumeTriggers
          DEF ConsumePart, ConsumeWhole, marketVars, bookVars
<1>2. CASE KickOffStopOrders
  BY <1>2, KickOffStopOrdersTriggers
<1>3. CASE RestLimitOrder \/ PlaceStopLimit \/ NoTradeNoKick \/ ProcessStopOrder
  <2>1. phase \in Matching /\ phase' \in Matching
    BY <1>3 DEF RestLimitOrder, PlaceStopLimit, NoTradeNoKick, ProcessStopOrder, Matching
  <2>2. /\ UNCHANGED <<stops, limits, message, trades, removed, triggered>>
        /\ lastTradePrice' \in {lastTradePrice, NoTrade}
    BY <1>3 DEF RestLimitOrder, PlaceStopLimit, NoTradeNoKick, ProcessStopOrder,
                marketVars, bookVars, simVars, callVars
  <2>3. lastTradePrice' = NoTrade \/ phase' \in {"stop", "next"} =>
          lastTradePrice = NoTrade \/ phase \in {"stop", "next"}
    BY <1>3 DEF RestLimitOrder, PlaceStopLimit, NoTradeNoKick, ProcessStopOrder, callVars
  <2> QED BY <2>1, <2>2, <2>3, TriggersKept
<1>4. CASE PostProcess \/ UpdateBooks
  BY <1>4, CommitTriggers
<1>5. CASE ConsumeOwn \/ MarketOrderUnfilled \/ LimitOrderRefused \/ StopLimitRefused \/ AnswerOrder
  <2>1. stops' = stops /\ phase' = "idle" /\ trades' = <<>>
    BY <1>5 DEF ConsumeOwn, MarketOrderUnfilled, LimitOrderRefused, StopLimitRefused,
                AnswerOrder, Throw, Return, Clear, marketVars, bookVars
  <2> QED BY <2>1, TriggersLeft DEF TriggerInv, StopsSorted, Matching
<1>6. CASE InsertLimitOrder \/ SettleTrade
  <2>1. stops' = stops /\ phase' \in {"insert", "settle"}
    BY <1>6 DEF InsertLimitOrder, SettleTrade, bookVars
  <2> QED BY <2>1, TriggersLeft DEF TriggerInv, StopsSorted, Matching
<1>7. ASSUME NEW m \in Orders, AcceptOrder(m) PROVE TriggerInv'
  BY <1>7, AcceptOrderTriggers
<1>8. ASSUME NEW kind \in {"limit", "stop"}, NEW side \in Sides,
             NEW i \in 1 .. Len(Book(kind, side)), CancelOrder(kind, side, i)
      PROVE  TriggerInv'
  <2>1. RemoveFromBook(kind, side, i) /\ phase = "idle" /\ phase' = "idle" /\ trades' = trades
    BY <1>8 DEF CancelOrder, simVars
  <2> QED BY <2>1, RemoveFromBookTriggers
<1>9. ASSUME NEW e \in toCancel, CancelNext(e) PROVE TriggerInv'
  <2>1. phase = "cancel" /\ phase' = "cancel" /\ trades' = trades
    BY <1>9 DEF CancelNext, simVars
  <2>2. e.kind \in {"limit", "stop"} /\ e.side \in Sides
    BY DEF IInv, TypeOK, CallTypeOK, CacheEntry
  <2>3. PICK i \in 1 .. Len(Book(e.kind, e.side)) : RemoveFromBook(e.kind, e.side, i)
    BY <1>9 DEF CancelNext
  <2> QED BY <2>1, <2>2, <2>3, RemoveFromBookTriggers
<1>10. CASE ClearEveryonesOpenOrders
  <2>1. stops' = [s \in Sides |-> <<>>] /\ phase' = "idle" /\ trades' = <<>>
    BY <1>10 DEF ClearEveryonesOpenOrders, simVars, TriggerInv, NoTrades
  <2>2. StopsSorted'
    BY <2>1 DEF StopsSorted, Sorted
  <2> QED BY <2>1, <2>2, TriggersLeft DEF Matching
<1>11. CASE \/ \E m \in Orders : RejectOrder(m)
            \/ CancelUnknownOrder
            \/ \E user \in Users : ClearOpenOrders(user)
            \/ SetFeePercentage \/ SetMaxNumLimitOpenOrders \/ SetMaxNumStopLimitOpenOrders
            \/ CancelledAll \/ \E e \in toCancel : CancelStale(e)
  <2>1. /\ stops' = stops /\ phase \in {"idle", "cancel"} /\ phase' \in {"idle", "cancel"}
        /\ trades' = trades
    BY <1>11 DEF RejectOrder, Receivable, CancelUnknownOrder, ClearOpenOrders, CancelledAll,
                 CancelStale, SetFeePercentage, SetMaxNumLimitOpenOrders,
                 SetMaxNumStopLimitOpenOrders, SetConfig, marketVars, bookVars, simVars
  <2> QED BY <2>1, TriggersLeft DEF TriggerInv, StopsSorted, NoTrades, Matching
<1>12. CASE UNCHANGED vars
  BY <1>12 DEF vars, marketVars, bookVars, simVars, callVars, TriggerInv, StopsSorted,
               TradesOrdered, NoneMissed, NoTrades, Side, Makers
<1> QED BY <1>1, <1>2, <1>3, <1>4, <1>5, <1>6, <1>7, <1>8, <1>9, <1>10, <1>11, <1>12
        DEF Next, Processing, Receive

\* The trades of a message and the stop orders they reach, at every program point.
THEOREM TriggerInvariance == Spec => []TriggerInv
<1>1. Init => TriggerInv
  <2> SUFFICES ASSUME Init PROVE TriggerInv
    OBVIOUS
  <2>1. phase = "idle" /\ trades = <<>> /\ \A s \in Sides : stops[s] = <<>>
    BY DEF Init
  <2> QED BY <2>1 DEF TriggerInv, StopsSorted, Sorted, TradesOrdered, NoneMissed, NoTrades,
                      Matching
<1>2. IInv /\ BookInv /\ TriggerInv /\ [Next]_vars => TriggerInv'
  BY TriggerStep
<1> QED BY <1>1, <1>2, Invariance, BookInvariance, PTL DEF Spec

\* No stop order that a message has reached with any of its trades, those of the
\* orders it triggered included, is left behind when the message is committed.
THEOREM EveryReachedStopTriggered == Spec => []NoMissedTrigger
<1>1. TriggerInv => NoMissedTrigger
  BY DEF TriggerInv, NoneMissed, NoMissedTrigger, Matching
<1> QED BY TriggerInvariance, <1>1, PTL

-----------------------------------------------------------------------------
(* Where the orders are *)

\* How often an id is on the two sides of a book.
BothHeld(x, books) == Held(x, books["Buy"]) + Held(x, books["Sell"])

\* The stop orders that are not triggered.
Standing == IF phase \in Matching THEN [stops EXCEPT ![Side] = DropFirst(@, triggered)] ELSE stops

\* How often an id is in what the simulator has recorded and works on.
RecordedStop(x) == IF phase \in Recording THEN Held(x, insertedStop) ELSE 0
TakerHeld(x)    == IF phase \in {"consume", "stop"} THEN Single(taker.id, x) ELSE 0
Recorded(x)     == Held(x, insertedLimits) + Held(x, Waiting) + RecordedStop(x) + TakerHeld(x)

\* How often it is in the committed books, and among the live orders.
Committed(x) == BothHeld(x, limits) + BothHeld(x, stops)
Places(x)    == BothHeld(x, limits) + BothHeld(x, Standing) + Recorded(x)

\* The first id that no order has: a message takes its id when it is committed.
NextId == IF phase \in Matching THEN currentOrderId + 1 ELSE currentOrderId

\* An id that has been given is in one place, one that has not in none.  So it is
\* in the committed books alone, to which an exception returns the triggered
\* stop orders that the simulator has counted elsewhere.
Once(id) == IF id THEN 1 ELSE 0
IdInv == \A x \in Nat : Places(x) <= Once(x < NextId) /\ Committed(x) <= Once(x < currentOrderId)

\* The types of the books and of the record.
LEMMA PlaceTypes ==
  ASSUME IInv
  PROVE  /\ limits \in [Sides -> Seq(Order)] /\ stops \in [Sides -> Seq(Order)]
         /\ Standing \in [Sides -> Seq(Order)]
         /\ insertedLimits \in Seq(Order) /\ insertedStop \in Seq(Order) /\ Waiting \in Seq(Order)
         /\ currentOrderId \in Nat /\ NextId \in Nat
<1>1. /\ limits \in [Sides -> Seq(Order)] /\ stops \in [Sides -> Seq(Order)]
      /\ insertedLimits \in Seq(Order) /\ insertedStop \in Seq(Order) /\ currentOrderId \in Nat
  BY DEF IInv, TypeOK, MarketTypeOK, SimulatorTypeOK
<1>2. Standing \in [Sides -> Seq(Order)]
  <2>1. CASE phase \in Matching
    <3>1. triggered \in 0 .. Len(stops[Side]) /\ Side \in Sides /\ stops[Side] \in Seq(Order)
      BY <2>1, RecordTypes DEF Recording
    <3>2. DropFirst(stops[Side], triggered) \in Seq(Order)
      BY <3>1, DropFirstProperties
    <3>3. Standing = [stops EXCEPT ![Side] = DropFirst(stops[Side], triggered)]
      BY <2>1 DEF Standing
    <3> QED BY <1>1, <3>1, <3>2, <3>3
  <2>2. CASE phase \notin Matching
    BY <1>1, <2>2 DEF Standing
  <2> QED BY <2>1, <2>2
<1> QED BY <1>1, <1>2, WaitingType DEF NextId

\* The two sides of a book, and a change of one of them.
LEMMA BothHeldType ==
  ASSUME NEW books \in [Sides -> Seq(Order)], NEW x
  PROVE  /\ BothHeld(x, books) \in Nat
         /\ \A s \in Sides : Held(x, books[s]) \in Nat /\ Held(x, books[s]) <= BothHeld(x, books)
<1>1. \A s \in Sides : books[s] \in Seq(Order)
  OBVIOUS
<1>2. \A s \in Sides : Held(x, books[s]) \in Nat
  BY <1>1, HeldType
<1> QED BY <1>2 DEF BothHeld, Sides

LEMMA BothHeldChanged ==
  ASSUME NEW books \in [Sides -> Seq(Order)], NEW s \in Sides, NEW book \in Seq(Order), NEW x
  PROVE  BothHeld(x, [books EXCEPT ![s] = book])
           = BothHeld(x, books) - Held(x, books[s]) + Held(x, book)
<1>1. /\ Held(x, books["Buy"]) \in Nat /\ Held(x, books["Sell"]) \in Nat
      /\ Held(x, book) \in Nat
  BY BothHeldType, HeldType DEF Sides
<1>2. CASE s = "Buy"
  BY <1>1, <1>2 DEF BothHeld, Sides
<1>3. CASE s = "Sell"
  BY <1>1, <1>3 DEF BothHeld, Sides
<1> QED BY <1>2, <1>3 DEF Sides

\* Every count is a natural number.
LEMMA PlacesType ==
  ASSUME IInv, NEW x
  PROVE  /\ BothHeld(x, limits) \in Nat /\ BothHeld(x, stops) \in Nat
         /\ BothHeld(x, Standing) \in Nat /\ Held(x, insertedLimits) \in Nat
         /\ Held(x, Waiting) \in Nat /\ RecordedStop(x) \in Nat /\ TakerHeld(x) \in Nat
         /\ Recorded(x) \in Nat /\ Places(x) \in Nat /\ Committed(x) \in Nat
<1>1. /\ BothHeld(x, limits) \in Nat /\ BothHeld(x, stops) \in Nat
      /\ BothHeld(x, Standing) \in Nat
  BY PlaceTypes, BothHeldType
<1>2. /\ Held(x, insertedLimits) \in Nat /\ Held(x, insertedStop) \in Nat
      /\ Held(x, Waiting) \in Nat
  BY PlaceTypes, HeldType
<1>3. RecordedStop(x) \in Nat /\ TakerHeld(x) \in Nat
  BY <1>2 DEF RecordedStop, TakerHeld, Single
<1> QED BY <1>1, <1>2, <1>3 DEF Recorded, Places, Committed

\* Outside of the matching the committed books are part of the live orders.
LEMMA CommittedBelowPlaces ==
  ASSUME IInv, phase \notin Matching, NEW x
  PROVE  Committed(x) <= Places(x) /\ NextId = currentOrderId
BY PlacesType DEF Committed, Places, Standing, NextId

\* The same of the next state.
LEMMA PlacesNext ==
  ASSUME NEW x
  PROVE  /\ IInv' => Places(x)' \in Nat /\ Committed(x)' \in Nat
         /\ IInv' /\ phase' \notin Matching =>
              Committed(x)' <= Places(x)' /\ NextId' = currentOrderId'
<1>1. IInv => Places(x) \in Nat /\ Committed(x) \in Nat
  BY PlacesType
<1>2. IInv /\ phase \notin Matching => Committed(x) <= Places(x) /\ NextId = currentOrderId
  BY CommittedBelowPlaces
<1>3. (IInv => Places(x) \in Nat /\ Committed(x) \in Nat)'
  BY <1>1, PTL
<1>4. (IInv /\ phase \notin Matching => Committed(x) <= Places(x) /\ NextId = currentOrderId)'
  BY <1>2, PTL
<1>5. Matching' = Matching
  BY DEF Matching
<1> QED BY <1>3, <1>4, <1>5

-----------------------------------------------------------------------------
(* Steps that move orders *)

\* A step within a message that leaves the committed books alone and puts no id
\* in more places.
LEMMA PlacesWithin ==
  ASSUME IInv, IInv', IdInv, phase \in Matching, phase' \in Matching,
         UNCHANGED <<limits, stops, currentOrderId>>,
         \A x \in Nat : Places(x)' <= Places(x)
  PROVE  IdInv'
<1>1. ASSUME NEW x \in Nat
      PROVE  Places(x)' <= Once(x < NextId') /\ Committed(x)' <= Once(x < currentOrderId')
  <2>1. Places(x) <= Once(x < NextId) /\ Committed(x) <= Once(x < currentOrderId)
    BY DEF IdInv
  <2>2. NextId' = NextId /\ Committed(x)' = Committed(x)
    BY DEF NextId, Committed
  <2>3. Places(x)' \in Nat
    BY PlacesNext
  <2>4. Places(x) \in Nat /\ Once(x < NextId) \in Nat
    BY PlacesType DEF Once
  <2> QED BY <2>1, <2>2, <2>3, <2>4
<1> QED BY <1>1 DEF IdInv

\* A step that ends outside of the matching and puts no id in more places than it
\* had before, or than in the committed books.
LEMMA PlacesOutside ==
  ASSUME IInv, IInv', IdInv, phase' \notin Matching, NextId' = NextId \/ phase' = "idle",
         currentOrderId' = currentOrderId \/ phase' = "insert",
         \A x \in Nat : \/ Places(x)' <= Places(x) /\ NextId' = NextId
                        \/ Places(x)' <= Committed(x) /\ currentOrderId' = currentOrderId
  PROVE  IdInv'
<1>1. ASSUME NEW x \in Nat
      PROVE  Places(x)' <= Once(x < NextId') /\ Committed(x)' <= Once(x < currentOrderId')
  <2>1. Places(x) <= Once(x < NextId) /\ Committed(x) <= Once(x < currentOrderId)
    BY DEF IdInv
  <2>2. Committed(x)' <= Places(x)' /\ NextId' = currentOrderId'
    BY PlacesNext
  <2>3. Places(x)' \in Nat /\ Committed(x)' \in Nat
    BY PlacesNext
  <2>4. /\ Places(x) \in Nat /\ Committed(x) \in Nat
        /\ Once(x < NextId) \in Nat /\ Once(x < currentOrderId) \in Nat
    BY PlacesType DEF Once
  <2>5. Places(x)' <= Once(x < NextId')
    <3>1. CASE Places(x)' <= Places(x) /\ NextId' = NextId
      BY <2>1, <2>3, <2>4, <3>1
    <3>2. CASE Places(x)' <= Committed(x) /\ currentOrderId' = currentOrderId
      BY <2>1, <2>2, <2>3, <2>4, <3>2
    <3> QED BY <3>1, <3>2
  <2>6. Once(x < NextId') \in Nat
    BY DEF Once
  <2> QED BY <2>2, <2>3, <2>5, <2>6
<1> QED BY <1>1 DEF IdInv

\* An exception gives the triggered stop orders back and forgets the rest.
LEMMA ThrowPlaces ==
  ASSUME IInv, IInv', IdInv, NEW e, Throw(e)
  PROVE  IdInv'
<1>1. /\ phase' = "idle" /\ insertedLimits' = <<>> /\ pending' = <<>>
      /\ UNCHANGED <<limits, stops, currentOrderId>>
  BY DEF Throw, Clear, Return, marketVars, bookVars, idVars
<1>2. phase' \notin Matching /\ phase' \notin Recording /\ phase' \notin {"consume", "stop"}
  BY <1>1 DEF Matching, Recording
<1>3. ASSUME NEW x \in Nat PROVE Places(x)' <= Committed(x)
  <2>1. Standing' = stops
    BY <1>1, <1>2 DEF Standing, Matching
  <2>2. RecordedStop(x)' = 0 /\ TakerHeld(x)' = 0
    BY <1>2 DEF RecordedStop, TakerHeld, Recording, Matching
  <2>3. Held(x, <<>>) = 0
    BY HeldSingle
  <2>4. Waiting' = <<>>
    BY <1>1 DEF Waiting
  <2>5. Recorded(x)' = Held(x, insertedLimits') + Held(x, Waiting') + RecordedStop(x)' + TakerHeld(x)'
    BY DEF Recorded
  <2>6. Recorded(x)' = 0
    BY <1>1, <2>2, <2>3, <2>4, <2>5
  <2>7. Places(x)' = BothHeld(x, limits) + BothHeld(x, stops) + 0
    BY <1>1, <2>1, <2>6 DEF Places
  <2> QED BY <2>7, PlacesType DEF Committed
<1> QED BY <1>1, <1>2, <1>3, PlacesOutside

\* A trade puts no order anywhere; the taker is done with, or goes on.
LEMMA ConsumePlaces ==
  ASSUME IInv, IInv', IdInv, ConsumePart \/ ConsumeWhole
  PROVE  IdInv'
<1>1. /\ phase = "consume" /\ phase' \in {"kick", "consume"} /\ taker'.id = taker.id
      /\ UNCHANGED <<limits, stops, currentOrderId, message, triggered, insertedLimits,
                     insertedStop, pending>>
  <2>1. taker \in Taker
    BY DEF ConsumePart, ConsumeWhole, HasMaker, IInv, TypeOK, CallTypeOK, OrderPhases, Matching
  <2> QED BY <2>1 DEF ConsumePart, ConsumeWhole, HasMaker, marketVars, bookVars, idVars, Taker
<1>2. phase \in Matching /\ phase' \in Matching
  BY <1>1 DEF Matching
<1>3. ASSUME NEW x \in Nat PROVE Places(x)' <= Places(x)
  <2>1. Standing' = Standing /\ Waiting' = Waiting /\ RecordedStop(x)' = RecordedStop(x)
    BY <1>1, <1>2 DEF Standing, Side, Waiting, RecordedStop, Recording, Matching
  <2>2. TakerHeld(x)' = TakerHeld(x) \/ TakerHeld(x)' = 0
    BY <1>1 DEF TakerHeld, Single
  <2>3. Places(x)' = BothHeld(x, limits) + BothHeld(x, Standing)
          + (Held(x, insertedLimits) + Held(x, Waiting) + RecordedStop(x) + TakerHeld(x)')
    BY <1>1, <2>1 DEF Places, Recorded
  <2> QED BY <2>2, <2>3, PlacesType DEF Places, Recorded
<1> QED BY <1>1, <1>2, <1>3, PlacesWithin

\* The rest of a limit order goes from the taker to the orders to be inserted.
LEMMA RestLimitOrderPlaces ==
  ASSUME IInv, IInv', IdInv, RestLimitOrder
  PROVE  IdInv'
<1> DEFINE rest == [id |-> taker.id, user |-> taker.user, price |-> taker.price,
                    actual |-> 0, left |-> taker.left]
<1>1. /\ phase = "consume" /\ phase' = "kick" /\ insertedLimits' = Append(insertedLimits, rest)
      /\ UNCHANGED <<limits, stops, currentOrderId, message, triggered, insertedStop, pending>>
  BY DEF RestLimitOrder, marketVars, bookVars, idVars
<1>2. phase \in Matching /\ phase' \in Matching
  BY <1>1 DEF Matching
<1>3. rest \in Order /\ rest.id = taker.id
  <2>1. taker \in Taker /\ taker.left > 0
    BY <1>1 DEF IInv, TypeOK, CallTypeOK, SimulatorInBounds, OrderPhases, Matching
  <2> QED BY <2>1 DEF Taker, Order
<1> HIDE DEF rest
<1>4. ASSUME NEW x \in Nat PROVE Places(x)' <= Places(x)
  <2>1. Standing' = Standing /\ Waiting' = Waiting /\ RecordedStop(x)' = RecordedStop(x)
    BY <1>1, <1>2 DEF Standing, Side, Waiting, RecordedStop, Recording, Matching
  <2>2. TakerHeld(x)' = 0 /\ TakerHeld(x) = Single(rest.id, x)
    BY <1>1, <1>3 DEF TakerHeld
  <2>3. Held(x, insertedLimits') = Held(x, insertedLimits) + Single(rest.id, x)
    BY <1>1, <1>3, PlaceTypes, HeldAppend
  <2>4. Places(x)' = BothHeld(x, limits) + BothHeld(x, Standing)
          + (Held(x, insertedLimits') + Held(x, Waiting) + RecordedStop(x) + TakerHeld(x)')
    BY <1>1, <2>1 DEF Places, Recorded
  <2> QED BY <2>2, <2>3, <2>4, PlacesType DEF Places, Recorded
<1> QED BY <1>1, <1>2, <1>4, PlacesWithin

\* A stop-limit order goes from the taker to the order to be placed.
LEMMA PlaceStopLimitPlaces ==
  ASSUME IInv, IInv', IdInv, PlaceStopLimit
  PROVE  IdInv'
<1> DEFINE placed == [id |-> taker.id, user |-> taker.user, price |-> taker.price,
                      actual |-> taker.actual, left |-> taker.left]
<1>1. /\ phase = "stop" /\ phase' = "next" /\ insertedStop' = <<placed>>
      /\ UNCHANGED <<limits, stops, currentOrderId, message, triggered, insertedLimits, pending>>
  BY DEF PlaceStopLimit, marketVars, bookVars, idVars
<1>2. phase \in Matching /\ phase' \in Matching /\ phase' \in Recording
  BY <1>1 DEF Matching, Recording
<1>3. placed.id = taker.id
  OBVIOUS
<1> HIDE DEF placed
<1>4. ASSUME NEW x \in Nat PROVE Places(x)' <= Places(x)
  <2>1. Standing' = Standing /\ Waiting' = Waiting
    BY <1>1, <1>2 DEF Standing, Side, Waiting, Matching
  <2>2. TakerHeld(x)' = 0 /\ TakerHeld(x) = Single(placed.id, x)
    BY <1>1, <1>3 DEF TakerHeld
  <2>3. RecordedStop(x)' = Single(placed.id, x)
    <3>1. Held(x, <<placed>>) = Single(placed.id, x)
      BY HeldSingle
    <3> QED BY <1>1, <1>2, <3>1 DEF RecordedStop, Recording, Matching
  <2>4. Places(x)' = BothHeld(x, limits) + BothHeld(x, Standing)
          + (Held(x, insertedLimits) + Held(x, Waiting) + RecordedStop(x)' + TakerHeld(x)')
    BY <1>1, <2>1 DEF Places, Recorded
  <2> QED BY <2>2, <2>3, <2>4, PlacesType DEF Places, Recorded
<1> QED BY <1>1, <1>2, <1>4, PlacesWithin

\* The triggered stop orders go from their book to the orders that wait.
LEMMA KickOffStopOrdersPlaces ==
  ASSUME IInv, IInv', IdInv, KickOffStopOrders
  PROVE  IdInv'
<1> DEFINE k == ReachedEnd(Side, stops[Side], triggered, lastTradePrice)
           fresh == SubSeq(stops[Side], triggered + 1, k)
           from == DropFirst(stops[Side], triggered)
           rest == DropFirst(stops[Side], k)
<1>1. /\ phase = "kick" /\ phase' = "next" /\ triggered' = k
      /\ UNCHANGED <<limits, stops, currentOrderId, message, insertedLimits, insertedStop>>
  BY DEF KickOffStopOrders, marketVars, bookVars, idVars
<1>2. phase \in Matching /\ phase' \in Matching /\ phase \in Recording
  BY <1>1 DEF Matching, Recording
<1>3. /\ Side \in Sides /\ stops[Side] \in Seq(Order) /\ Len(stops[Side]) \in Nat
      /\ triggered \in 0 .. Len(stops[Side]) /\ stops \in [Sides -> Seq(Order)]
  BY <1>2, RecordTypes, LenProperties, PlaceTypes
<1>4. k \in triggered .. Len(stops[Side])
  BY <1>3, ReachedEndExists
<1>5. Waiting' = fresh \o Waiting
  BY WaitingTriggered
<1> HIDE DEF k
<1>6. k \in 0 .. Len(stops[Side])
  BY <1>3, <1>4
<1>7. from \in Seq(Order) /\ rest \in Seq(Order) /\ fresh \in Seq(Order)
  <2>1. \A i \in triggered + 1 .. k : stops[Side][i] \in Order
    BY <1>3, <1>4, ElementOfSeq
  <2> QED BY <1>3, <1>4, <1>6, <2>1, DropFirstProperties, SubSeqProperties
<1>8. Standing = [stops EXCEPT ![Side] = from] /\ Standing' = [stops EXCEPT ![Side] = rest]
  BY <1>1, <1>2 DEF Standing, Side, Matching
<1>9. ASSUME NEW x \in Nat PROVE Places(x)' <= Places(x)
  <2>1. Held(x, from) = Held(x, fresh) + Held(x, rest)
    BY <1>3, <1>4, HeldDropMore
  <2>2. Held(x, Waiting') = Held(x, fresh) + Held(x, Waiting)
    BY <1>5, <1>7, PlaceTypes, HeldConcat
  <2>3. Held(x, fresh) \in Nat /\ Held(x, rest) \in Nat
    BY <1>7, HeldType
  <2>4. RecordedStop(x)' = RecordedStop(x) /\ TakerHeld(x)' = 0 /\ TakerHeld(x) = 0
    BY <1>1 DEF RecordedStop, Recording, Matching, TakerHeld
  <2> HIDE DEF fresh, from, rest
  <2>5. /\ BothHeld(x, Standing) = BothHeld(x, stops) - Held(x, stops[Side]) + Held(x, from)
        /\ BothHeld(x, Standing') = BothHeld(x, stops) - Held(x, stops[Side]) + Held(x, rest)
    BY <1>3, <1>7, <1>8, BothHeldChanged
  <2>6. Held(x, stops[Side]) \in Nat /\ BothHeld(x, stops) \in Nat
    BY <1>3, BothHeldType
  <2>7. BothHeld(x, Standing') + Held(x, Waiting') = BothHeld(x, Standing) + Held(x, Waiting)
    BY <2>1, <2>2, <2>3, <2>5, <2>6, PlacesType
  <2>8. Places(x)' = BothHeld(x, limits) + BothHeld(x, Standing')
          + (Held(x, insertedLimits) + Held(x, Waiting') + RecordedStop(x) + 0)
    BY <1>1, <2>4 DEF Places, Recorded
  <2>9. BothHeld(x, Standing') \in Int /\ Held(x, Waiting') \in Int
    BY <2>1, <2>2, <2>3, <2>5, <2>6, PlacesType
  <2> QED BY <2>4, <2>7, <2>8, <2>9, PlacesType DEF Places, Recorded
<1> QED BY <1>1, <1>2, <1>9, PlacesWithin

\* A call that has not traded moves nothing.
LEMMA NoTradeNoKickPlaces ==
  ASSUME IInv, IInv', IdInv, NoTradeNoKick
  PROVE  IdInv'
<1>1. /\ phase = "kick" /\ phase' = "next"
      /\ UNCHANGED <<limits, stops, currentOrderId, message, triggered, insertedLimits,
                     insertedStop, pending>>
  BY DEF NoTradeNoKick, marketVars, bookVars, idVars, callVars, simVars
<1>2. phase \in Matching /\ phase' \in Matching
  BY <1>1 DEF Matching
<1>3. ASSUME NEW x \in Nat PROVE Places(x)' <= Places(x)
  <2>1. Places(x)' = Places(x)
    BY <1>1, <1>2 DEF Places, Recorded, Standing, Side, Waiting, RecordedStop, TakerHeld,
                      Recording, Matching
  <2> QED BY <2>1, PlacesType
<1> QED BY <1>1, <1>2, <1>3, PlacesWithin

\* A triggered stop order becomes the taker.
LEMMA ProcessStopOrderPlaces ==
  ASSUME IInv, IInv', IdInv, ProcessStopOrder
  PROVE  IdInv'
<1> DEFINE o == Head(pending).order
<1>1. /\ phase = "next" /\ phase' = "consume" /\ taker'.id = o.id
      /\ UNCHANGED <<limits, stops, currentOrderId, message, triggered, insertedLimits,
                     insertedStop>>
  BY DEF ProcessStopOrder, marketVars, bookVars, idVars, simVars
<1>2. phase \in Matching /\ phase' \in Matching
  BY <1>1 DEF Matching
<1>3. Waiting \in Seq(Order) /\ Waiting # <<>> /\ Head(Waiting) = o /\ Waiting' = Tail(Waiting)
  BY WaitingProcessed
<1> HIDE DEF o
<1>4. ASSUME NEW x \in Nat PROVE Places(x)' <= Places(x)
  <2>1. Standing' = Standing /\ RecordedStop(x)' = RecordedStop(x)
    BY <1>1, <1>2 DEF Standing, Side, RecordedStop, Recording, Matching
  <2>2. TakerHeld(x)' = Single(o.id, x) /\ TakerHeld(x) = 0 /\ Single(o.id, x) \in Nat
    BY <1>1 DEF TakerHeld, Single
  <2>3. Held(x, Waiting) = Single(o.id, x) + Held(x, Waiting') /\ Held(x, Waiting') \in Nat
    <3>1. /\ Held(x, Waiting) = Single(Head(Waiting).id, x) + Held(x, Tail(Waiting))
          /\ Tail(Waiting) \in Seq(Order)
      BY <1>3, HeldTail
    <3> QED BY <1>3, <3>1, HeldType
  <2>4. Places(x)' = BothHeld(x, limits) + BothHeld(x, Standing)
          + (Held(x, insertedLimits) + Held(x, Waiting') + RecordedStop(x) + TakerHeld(x)')
    BY <1>1, <2>1 DEF Places, Recorded
  <2> QED BY <2>2, <2>3, <2>4, PlacesType DEF Places, Recorded
<1> QED BY <1>1, <1>2, <1>4, PlacesWithin

\* The triggered stop orders leave their book, the id of the message is taken.
LEMMA PostProcessPlaces ==
  ASSUME IInv, IInv', IdInv, PostProcess
  PROVE  IdInv'
<1>1. /\ phase = "next" /\ phase' = "insert" /\ currentOrderId' = currentOrderId + 1
      /\ stops' = [stops EXCEPT ![Side] = DropFirst(@, triggered)]
      /\ UNCHANGED <<limits, message, triggered, insertedLimits, insertedStop, pending>>
  BY DEF PostProcess, simVars, callVars
<1>2. phase \in Matching /\ phase' \notin Matching /\ phase' \in Recording
  BY <1>1 DEF Matching, Recording
<1>3. NextId' = NextId
  BY <1>1, <1>2 DEF NextId, Matching
<1>4. ASSUME NEW x \in Nat PROVE Places(x)' <= Places(x)
  <2>1. Standing' = Standing
    BY <1>1, <1>2 DEF Standing, Matching
  <2>2. /\ RecordedStop(x)' = RecordedStop(x) /\ TakerHeld(x)' = 0 /\ TakerHeld(x) = 0
        /\ Waiting' = Waiting
    BY <1>1, <1>2 DEF RecordedStop, TakerHeld, Recording, Matching, Waiting
  <2>3. Places(x)' = Places(x)
    BY <1>1, <2>1, <2>2 DEF Places, Recorded
  <2> QED BY <2>3, PlacesType
<1> QED BY <1>1, <1>2, <1>3, <1>4, PlacesOutside

\* An order goes from those to be inserted to its book.
LEMMA InsertLimitOrderPlaces ==
  ASSUME IInv, IInv', IdInv, InsertLimitOrder
  PROVE  IdInv'
<1> DEFINE o == Head(insertedLimits)
           filed == PushBack(Opposite(Side), limits[Side], o)
<1>1. /\ phase = "insert" /\ phase' = "insert" /\ insertedLimits # <<>>
      /\ insertedLimits' = Tail(insertedLimits) /\ limits' = [limits EXCEPT ![Side] = filed]
      /\ UNCHANGED <<stops, currentOrderId, message, insertedStop, pending>>
  BY DEF InsertLimitOrder, idVars, callVars
<1>2. phase \notin Matching /\ phase' \notin Matching /\ phase \in Recording /\ phase' \in Recording
  BY <1>1 DEF Matching, Recording
<1>3. /\ Side \in Sides /\ limits[Side] \in Seq(Order) /\ limits \in [Sides -> Seq(Order)]
      /\ insertedLimits \in Seq(Order)
  BY <1>2, RecordTypes, PlaceTypes
<1>4. o \in Order /\ Tail(insertedLimits) \in Seq(Order)
  BY <1>1, <1>3, HeadTailProperties
<1> HIDE DEF o
<1>5. filed \in Seq(Order)
  BY <1>3, <1>4, PushBackProperties
<1>6. ASSUME NEW x \in Nat PROVE Places(x)' <= Places(x)
  <2>1. Standing' = Standing /\ RecordedStop(x)' = RecordedStop(x) /\ Waiting' = Waiting
    BY <1>1, <1>2 DEF Standing, RecordedStop, Waiting, Recording, Matching
  <2>2. TakerHeld(x)' = 0 /\ TakerHeld(x) = 0
    BY <1>1 DEF TakerHeld
  <2>3. Held(x, insertedLimits) = Single(o.id, x) + Held(x, Tail(insertedLimits))
    BY <1>1, <1>3, HeldTail DEF o
  <2>4. Held(x, filed) = Held(x, limits[Side]) + Single(o.id, x)
    BY <1>3, <1>4, HeldPushBack
  <2> HIDE DEF filed
  <2>5. BothHeld(x, limits') = BothHeld(x, limits) - Held(x, limits[Side]) + Held(x, filed)
    BY <1>1, <1>3, <1>5, BothHeldChanged
  <2>6. Held(x, limits[Side]) \in Nat /\ Single(o.id, x) \in Nat
        /\ Held(x, Tail(insertedLimits)) \in Nat
    BY <1>3, <1>4, HeldType DEF Single
  <2>7. Places(x)' = BothHeld(x, limits') + BothHeld(x, Standing)
          + (Held(x, Tail(insertedLimits)) + Held(x, Waiting) + RecordedStop(x) + 0)
    BY <1>1, <2>1, <2>2 DEF Places, Recorded
  <2> QED BY <2>2, <2>3, <2>4, <2>5, <2>6, <2>7, PlacesType DEF Places, Recorded
<1>7. NextId' = NextId
  BY <1>1, <1>2 DEF NextId
<1> QED BY <1>1, <1>2, <1>6, <1>7, PlacesOutside

\* The makers that stay keep their ids.
LEMMA UpdatedMakersHeld ==
  ASSUME IInv, phase = "insert", NEW x
  PROVE  Held(x, UpdatedMakers) <= Held(x, Makers) /\ Held(x, UpdatedMakers) \in Nat
<1>1. /\ Makers \in Seq(Order) /\ removed \in 0 .. Len(Makers) /\ lastFill \in Nat
      /\ lastFill > 0 => removed < Len(Makers)
  BY RecordTypes DEF Recording
<1> DEFINE rest == DropFirst(Makers, removed)
<1>2. /\ rest \in Seq(Order) /\ Len(rest) = Len(Makers) - removed /\ Len(Makers) \in Nat
      /\ UpdatedMakers \in Seq(Order)
  BY <1>1, DropFirstProperties, LenProperties, UpdatedMakersType
<1>3. UpdatedMakers =
        IF lastFill > 0 THEN [rest EXCEPT ![1] = [rest[1] EXCEPT !.left = @ - lastFill]] ELSE rest
  BY DEF UpdatedMakers
<1>4. /\ Held(x, Makers) = Held(x, SubSeq(Makers, 1, removed)) + Held(x, rest)
      /\ Held(x, SubSeq(Makers, 1, removed)) \in Nat /\ Held(x, rest) \in Nat
  BY <1>1, HeldSplit
<1> HIDE DEF rest
<1>5. Held(x, UpdatedMakers) = Held(x, rest)
  <2>1. CASE lastFill > 0
    <3> DEFINE first == [rest[1] EXCEPT !.left = @ - lastFill]
    <3>1. 1 \in 1 .. Len(rest) /\ rest[1] \in Order
      BY <1>1, <1>2, <2>1, ElementOfSeq
    <3>2. first.id = rest[1].id
      BY <3>1 DEF Order
    <3>3. UpdatedMakers = [rest EXCEPT ![1] = first]
      BY <1>3, <2>1
    <3> HIDE DEF first
    <3>4. Len(UpdatedMakers) = Len(rest) /\ UpdatedMakers[1] = first
          /\ \A i \in 1 .. Len(rest) : i # 1 => UpdatedMakers[i] = rest[i]
      BY <1>2, <3>1, <3>3
    <3>5. \A i \in 1 .. Len(rest) : UpdatedMakers[i].id = rest[i].id
      BY <3>2, <3>4
    <3> QED BY <1>2, <3>4, <3>5, HeldSameIds
  <2>2. CASE ~(lastFill > 0)
    BY <1>3, <2>2
  <2> QED BY <2>1, <2>2
<1> QED BY <1>4, <1>5

\* Makers leave; a stop order goes from the record to its book.
LEMMA UpdateBooksPlaces ==
  ASSUME IInv, IInv', IdInv, UpdateBooks
  PROVE  IdInv'
<1>1. /\ phase = "insert" /\ phase' = "settle" /\ insertedLimits' = insertedLimits
      /\ limits' = [limits EXCEPT ![Opposite(Side)] = UpdatedMakers]
      /\ stops' = IF insertedStop = <<>> THEN stops
                  ELSE [stops EXCEPT ![Side] = PushBack(Side, @, insertedStop[1])]
      /\ UNCHANGED <<currentOrderId, message, pending>>
  BY DEF UpdateBooks, idVars, simVars, callVars
<1>2. phase \notin Matching /\ phase' \notin Recording /\ phase' \notin Matching /\ phase \in Recording
  BY <1>1 DEF Matching, Recording
<1>3. /\ Side \in Sides /\ Opposite(Side) \in Sides /\ stops[Side] \in Seq(Order)
      /\ limits \in [Sides -> Seq(Order)] /\ stops \in [Sides -> Seq(Order)]
      /\ insertedStop \in Seq(Order)
  BY <1>2, RecordTypes, PlaceTypes DEF Opposite, Sides
<1>4. ASSUME NEW x \in Nat PROVE Places(x)' <= Places(x)
  <2>1. Standing = stops /\ Standing' = stops' /\ Waiting' = Waiting
    BY <1>1, <1>2 DEF Standing, Waiting, Recording
  <2>2. RecordedStop(x)' = 0 /\ RecordedStop(x) = Held(x, insertedStop) /\ TakerHeld(x)' = 0
    BY <1>1, <1>2 DEF RecordedStop, TakerHeld
  <2>3. BothHeld(x, limits') <= BothHeld(x, limits) /\ BothHeld(x, limits') \in Int
    <3>1. UpdatedMakers \in Seq(Order)
      BY <1>1, UpdatedMakersType
    <3>2. BothHeld(x, limits') = BothHeld(x, limits) - Held(x, Makers) + Held(x, UpdatedMakers)
      <4> DEFINE other   == Opposite(Side)
                 updated == UpdatedMakers
      <4>1. limits' = [limits EXCEPT ![other] = updated] /\ Makers = limits[other]
        BY <1>1 DEF Makers
      <4>2. limits \in [Sides -> Seq(Order)] /\ other \in Sides /\ updated \in Seq(Order)
        BY <1>3, <3>1
      <4> HIDE DEF other, updated
      <4>3. \A s \in Sides : limits'[s] = IF s = other THEN updated ELSE limits[s]
        BY ONLY <4>1, <4>2
      <4>4. Held(x, limits["Buy"]) \in Nat /\ Held(x, limits["Sell"]) \in Nat
            /\ Held(x, updated) \in Nat
        BY <4>2, HeldType DEF Sides
      <4>5. CASE other = "Buy"
        <5>1. limits'["Buy"] = updated /\ limits'["Sell"] = limits["Sell"]
              /\ Makers = limits["Buy"]
          BY <4>1, <4>3, <4>5 DEF Sides
        <5>2. BothHeld(x, limits') = Held(x, updated) + Held(x, limits["Sell"])
          BY <5>1 DEF BothHeld
        <5>3. BothHeld(x, limits) = Held(x, Makers) + Held(x, limits["Sell"])
          BY <5>1 DEF BothHeld
        <5> QED BY ONLY <4>4, <5>1, <5>2, <5>3 DEF updated
      <4>6. CASE other = "Sell"
        <5>1. limits'["Sell"] = updated /\ limits'["Buy"] = limits["Buy"]
              /\ Makers = limits["Sell"]
          BY <4>1, <4>3, <4>6 DEF Sides
        <5>2. BothHeld(x, limits') = Held(x, limits["Buy"]) + Held(x, updated)
          BY <5>1 DEF BothHeld
        <5>3. BothHeld(x, limits) = Held(x, limits["Buy"]) + Held(x, Makers)
          BY <5>1 DEF BothHeld
        <5> QED BY ONLY <4>4, <5>1, <5>2, <5>3 DEF updated
      <4> QED BY <4>2, <4>5, <4>6 DEF Sides, updated
    <3>3. Held(x, UpdatedMakers) <= Held(x, Makers) /\ Held(x, UpdatedMakers) \in Nat
      BY <1>1, UpdatedMakersHeld
    <3>4. Held(x, Makers) \in Nat
      BY <1>3, BothHeldType DEF Makers
    <3> QED BY <3>2, <3>3, <3>4, PlacesType
  <2>4. BothHeld(x, stops') <= BothHeld(x, stops) + Held(x, insertedStop)
        /\ BothHeld(x, stops') \in Int
    <3>1. CASE insertedStop = <<>>
      <4>1. Held(x, insertedStop) = 0
        BY <3>1, HeldSingle
      <4> QED BY <1>1, <3>1, <4>1, PlacesType
    <3>2. CASE insertedStop # <<>>
      <4> DEFINE o == insertedStop[1]
                 filed == PushBack(Side, stops[Side], o)
      <4>1. Head(insertedStop) = o
        BY <1>3, <3>2
      <4>2. /\ Held(x, insertedStop) = Single(o.id, x) + Held(x, Tail(insertedStop))
            /\ o \in Order /\ Tail(insertedStop) \in Seq(Order)
        <5> HIDE DEF o
        <5> QED BY <1>3, <3>2, <4>1, HeldTail
      <4> HIDE DEF o
      <4>3. Held(x, filed) = Held(x, stops[Side]) + Single(o.id, x) /\ filed \in Seq(Order)
        BY <1>3, <4>2, HeldPushBack, PushBackProperties
      <4>4. stops' = [stops EXCEPT ![Side] = filed]
        BY <1>1, <3>2 DEF o
      <4> HIDE DEF filed
      <4>5. BothHeld(x, stops') = BothHeld(x, stops) - Held(x, stops[Side]) + Held(x, filed)
        BY <1>3, <4>3, <4>4, BothHeldChanged
      <4>6. Held(x, stops[Side]) \in Nat /\ Held(x, Tail(insertedStop)) \in Nat
            /\ Single(o.id, x) \in Nat
        BY <1>3, <4>2, HeldType DEF Single
      <4>7. BothHeld(x, stops') = BothHeld(x, stops) + Single(o.id, x)
        BY <4>3, <4>5, <4>6, PlacesType
      <4>8. Single(o.id, x) <= Held(x, insertedStop) /\ Held(x, insertedStop) \in Int
        BY <4>2, <4>6
      <4>9. BothHeld(x, stops) \in Int
        BY PlacesType
      <4> QED BY <4>6, <4>7, <4>8, <4>9
    <3> QED BY <3>1, <3>2
  <2>5. Places(x)' = BothHeld(x, limits') + BothHeld(x, stops')
          + (Held(x, insertedLimits) + Held(x, Waiting) + 0 + 0)
    BY <1>1, <2>1, <2>2 DEF Places, Recorded
  <2>6. Places(x) = BothHeld(x, limits) + BothHeld(x, stops)
          + (Held(x, insertedLimits) + Held(x, Waiting) + Held(x, insertedStop) + TakerHeld(x))
    BY <2>1, <2>2 DEF Places, Recorded
  <2>7. Held(x, insertedStop) \in Nat
    BY <1>3, HeldType
  <2> QED BY <2>3, <2>4, <2>5, <2>6, <2>7, PlacesType
<1>5. NextId' = NextId
  BY <1>1, <1>2 DEF NextId
<1> QED BY <1>1, <1>2, <1>4, <1>5, PlacesOutside

\* The reply to an order.
LEMMA AnswerOrderPlaces ==
  ASSUME IInv, IInv', IdInv, AnswerOrder
  PROVE  IdInv'
<1>1. /\ phase = "settle" /\ phase' = "idle" /\ insertedLimits' = <<>> /\ pending' = <<>>
      /\ UNCHANGED <<limits, stops, currentOrderId>>
  BY DEF AnswerOrder, Clear, Return, marketVars, bookVars, idVars
<1>2. phase \notin Matching /\ phase' \notin Matching /\ phase' \notin Recording
  BY <1>1 DEF Matching, Recording
<1>3. ASSUME NEW x \in Nat PROVE Places(x)' <= Places(x)
  <2>1. Standing = stops /\ Standing' = stops /\ Waiting' = <<>>
    BY <1>1, <1>2 DEF Standing, Waiting
  <2>2. RecordedStop(x)' = 0 /\ TakerHeld(x)' = 0 /\ Held(x, <<>>) = 0
    BY <1>1, <1>2, HeldSingle DEF RecordedStop, TakerHeld
  <2>3. Places(x)' = BothHeld(x, limits) + BothHeld(x, stops) + (0 + 0 + 0 + 0)
    BY <1>1, <2>1, <2>2 DEF Places, Recorded
  <2> QED BY <2>1, <2>3, PlacesType DEF Places
<1>4. NextId' = NextId
  BY <1>1, <1>2 DEF NextId
<1> QED BY <1>1, <1>2, <1>3, <1>4, PlacesOutside

\* A new order has an id of its own.
LEMMA AcceptOrderPlaces ==
  ASSUME IInv, IInv', QuantityInv, IdInv, NEW m \in Orders, AcceptOrder(m)
  PROVE  IdInv'
<1>1. /\ phase = "idle" /\ phase' \in {"consume", "stop"} /\ taker'.id = currentOrderId
      /\ UNCHANGED <<limits, stops, currentOrderId, triggered, insertedLimits, insertedStop,
                     pending>>
  BY DEF AcceptOrder, Receivable, marketVars, bookVars, idVars, simVars
<1>2. /\ phase \notin Matching /\ phase \notin Recording
      /\ phase' \in Matching /\ phase' \in Recording
  BY <1>1 DEF Matching, Recording
<1>3. /\ message' = m /\ m.side \in Sides /\ triggered = 0
      /\ stops \in [Sides -> Seq(Order)] /\ stops[m.side] \in Seq(Order)
      /\ currentOrderId \in Nat
  <2>1. m.side \in Sides
    BY OrdersAssumption DEF OrderMessage
  <2> QED BY <1>1, <2>1, PlaceTypes DEF AcceptOrder, IInv, ClearedWhenIdle
<1>4. insertedStop = <<>>
  BY <1>1 DEF QuantityInv, TakersDone
<1>5. ASSUME NEW x \in Nat
      PROVE  Places(x)' <= Once(x < NextId') /\ Committed(x)' <= Once(x < currentOrderId')
  <2> DEFINE from == DropFirst(stops[m.side], 0)
  <2>1. Standing' = [stops EXCEPT ![m.side] = from] /\ Standing = stops /\ Waiting' = Waiting
    BY <1>1, <1>2, <1>3 DEF Standing, Side, Waiting, Matching
  <2>2. from \in Seq(Order) /\ Held(x, from) <= Held(x, stops[m.side]) /\ Held(x, from) \in Nat
    <3>1. 0 \in 0 .. Len(stops[m.side])
      BY <1>3, LenProperties
    <3>2. /\ Held(x, stops[m.side]) = Held(x, SubSeq(stops[m.side], 1, 0)) + Held(x, from)
          /\ Held(x, SubSeq(stops[m.side], 1, 0)) \in Nat /\ Held(x, from) \in Nat
      BY <1>3, <3>1, HeldSplit
    <3>3. from \in Seq(Order)
      BY <1>3, <3>1, DropFirstProperties
    <3> HIDE DEF from
    <3> QED BY <3>2, <3>3
  <2> HIDE DEF from
  <2>3. BothHeld(x, Standing') <= BothHeld(x, Standing) /\ BothHeld(x, Standing') \in Int
    <3>1. BothHeld(x, Standing') = BothHeld(x, stops) - Held(x, stops[m.side]) + Held(x, from)
      BY <1>3, <2>1, <2>2, BothHeldChanged
    <3>2. Held(x, stops[m.side]) \in Nat
      BY <1>3, HeldType
    <3> QED BY <2>1, <2>2, <3>1, <3>2, PlacesType
  <2>4. /\ RecordedStop(x)' = 0 /\ RecordedStop(x) = 0 /\ TakerHeld(x) = 0
        /\ TakerHeld(x)' = Single(currentOrderId, x)
    BY <1>1, <1>2, <1>4, HeldSingle DEF RecordedStop, TakerHeld, Recording, Matching
  <2>5. Places(x)' = BothHeld(x, limits) + BothHeld(x, Standing')
          + (Held(x, insertedLimits) + Held(x, Waiting) + 0 + Single(currentOrderId, x))
    BY <1>1, <2>1, <2>4 DEF Places, Recorded
  <2>6. Places(x) = BothHeld(x, limits) + BothHeld(x, Standing)
          + (Held(x, insertedLimits) + Held(x, Waiting) + 0 + 0)
    BY <2>4 DEF Places, Recorded
  <2>7. Places(x) <= Once(x < currentOrderId) /\ Committed(x) <= Once(x < currentOrderId)
    BY <1>2 DEF IdInv, NextId
  <2>8. NextId' = currentOrderId + 1 /\ Committed(x)' = Committed(x)
    BY <1>1, <1>2 DEF NextId, Committed, Matching
  <2>9. Places(x)' <= Places(x) + Single(currentOrderId, x) /\ Places(x)' \in Int
    BY <2>3, <2>5, <2>6, PlacesType DEF Single
  <2>10. Once(x < currentOrderId) + Single(currentOrderId, x) <= Once(x < currentOrderId + 1)
    BY <1>3 DEF Once, Single
  <2>11. /\ Once(x < currentOrderId) \in Int /\ Once(x < currentOrderId + 1) \in Int
         /\ Single(currentOrderId, x) \in Int /\ Places(x) \in Int
    BY PlacesType DEF Once, Single
  <2>12. Places(x)' <= Once(x < currentOrderId + 1)
    BY <2>7, <2>9, <2>10, <2>11
  <2> QED BY <1>1, <2>7, <2>8, <2>12
<1> QED BY <1>5 DEF IdInv

\* An order that is cancelled is nowhere.
LEMMA RemoveFromBookPlaces ==
  ASSUME IInv, IInv', IdInv, phase \in {"idle", "cancel"}, phase' \in {"idle", "cancel"},
         UNCHANGED <<currentOrderId, insertedLimits, pending>>,
         NEW kind \in {"limit", "stop"}, NEW side \in Sides,
         NEW i \in 1 .. Len(Book(kind, side)), RemoveFromBook(kind, side, i)
  PROVE  IdInv'
<1>1. /\ phase \notin Matching /\ phase' \notin Matching /\ phase' \notin Recording
      /\ phase' \notin {"consume", "stop"}
  BY DEF Matching, Recording
<1>2. limits \in [Sides -> Seq(Order)] /\ stops \in [Sides -> Seq(Order)]
  BY PlaceTypes
<1> DEFINE book == Book(kind, side)
           rest == Without(book, i)
<1>3. book \in Seq(Order) /\ i \in 1 .. Len(book)
  BY <1>2 DEF Book
<1>4. rest \in Seq(Order)
  <2> HIDE DEF book
  <2> QED BY <1>3, WithoutProperties
<1>5. ASSUME NEW x \in Nat PROVE Places(x)' <= Places(x)
  <2>1. Held(x, rest) <= Held(x, book) /\ Held(x, rest) \in Nat /\ Held(x, book) \in Nat
    <3> HIDE DEF book
    <3>1. Held(x, rest) + Single(book[i].id, x) = Held(x, book)
      BY <1>3, HeldWithout
    <3>2. Held(x, rest) \in Nat /\ Held(x, book) \in Nat /\ Single(book[i].id, x) \in Nat
      BY <1>3, <1>4, HeldType DEF Single
    <3> HIDE DEF rest
    <3> QED BY <3>1, <3>2
  <2>2. /\ BothHeld(x, limits') + BothHeld(x, stops') <= BothHeld(x, limits) + BothHeld(x, stops)
        /\ BothHeld(x, limits') \in Int /\ BothHeld(x, stops') \in Int
    <3>1. CASE kind = "limit"
      <4>1. limits' = [limits EXCEPT ![side] = rest] /\ stops' = stops /\ book = limits[side]
        BY <3>1 DEF RemoveFromBook, Book
      <4> HIDE DEF book, rest
      <4>2. BothHeld(x, limits') = BothHeld(x, limits) - Held(x, book) + Held(x, rest)
        BY <1>2, <1>4, <4>1, BothHeldChanged
      <4> QED BY <2>1, <4>1, <4>2, PlacesType
    <3>2. CASE kind = "stop"
      <4>1. stops' = [stops EXCEPT ![side] = rest] /\ limits' = limits /\ book = stops[side]
        BY <3>2 DEF RemoveFromBook, Book
      <4> HIDE DEF book, rest
      <4>2. BothHeld(x, stops') = BothHeld(x, stops) - Held(x, book) + Held(x, rest)
        BY <1>2, <1>4, <4>1, BothHeldChanged
      <4> QED BY <2>1, <4>1, <4>2, PlacesType
    <3> QED BY <3>1, <3>2
  <2>3. Standing = stops /\ Standing' = stops' /\ Waiting' = Waiting
    BY <1>1 DEF Standing, Waiting, Matching
  <2>4. RecordedStop(x)' = 0 /\ TakerHeld(x)' = 0
    BY <1>1 DEF RecordedStop, TakerHeld, Recording, Matching
  <2>5. Places(x)' = BothHeld(x, limits') + BothHeld(x, stops')
          + (Held(x, insertedLimits) + Held(x, Waiting) + 0 + 0)
    BY <2>3, <2>4 DEF Places, Recorded
  <2>6. Places(x) = BothHeld(x, limits) + BothHeld(x, stops)
          + (Held(x, insertedLimits) + Held(x, Waiting) + RecordedStop(x) + TakerHeld(x))
    BY <2>3 DEF Places, Recorded
  <2>7. /\ RecordedStop(x) \in Nat /\ TakerHeld(x) \in Nat
        /\ Held(x, insertedLimits) \in Nat /\ Held(x, Waiting) \in Nat
        /\ BothHeld(x, limits) \in Nat /\ BothHeld(x, stops) \in Nat
        /\ BothHeld(x, limits') \in Int /\ BothHeld(x, stops') \in Int
    BY <2>2, PlacesType
  <2> DEFINE l == BothHeld(x, limits)  st == BothHeld(x, stops)
             ln == BothHeld(x, limits')  sn == BothHeld(x, stops')
             il == Held(x, insertedLimits)  wa == Held(x, Waiting)
             rs == RecordedStop(x)  th == TakerHeld(x)
  <2>8. /\ l \in Nat /\ st \in Nat /\ ln \in Int /\ sn \in Int
        /\ il \in Nat /\ wa \in Nat /\ rs \in Nat /\ th \in Nat
        /\ Places(x)' = ln + sn + (il + wa + 0 + 0)
        /\ Places(x) = l + st + (il + wa + rs + th)
        /\ ln + sn <= l + st
    BY <2>2, <2>5, <2>6, <2>7
  <2> HIDE DEF l, st, ln, sn, il, wa, rs, th
  <2> QED BY ONLY <2>8
<1>6. NextId' = NextId
  BY <1>1 DEF NextId, Matching
<1> QED BY <1>1, <1>5, <1>6, PlacesOutside

\* All orders are cancelled.
LEMMA ClearEveryonesPlaces ==
  ASSUME IInv, IInv', IdInv, ClearEveryonesOpenOrders
  PROVE  IdInv'
<1>1. /\ phase = "idle" /\ phase' = "idle"
      /\ limits' = [s \in Sides |-> <<>>] /\ stops' = [s \in Sides |-> <<>>]
      /\ UNCHANGED <<currentOrderId, insertedLimits, pending>>
  BY DEF ClearEveryonesOpenOrders, idVars, simVars, callVars
<1>2. phase \notin Matching /\ phase' \notin Matching /\ phase' \notin Recording
  BY <1>1 DEF Matching, Recording
<1>3. ASSUME NEW x \in Nat PROVE Places(x)' <= Places(x)
  <2>1. BothHeld(x, limits') = 0 /\ BothHeld(x, stops') = 0
    <3>1. Held(x, <<>>) = 0
      BY HeldSingle
    <3>2. /\ limits'["Buy"] = <<>> /\ limits'["Sell"] = <<>>
          /\ stops'["Buy"] = <<>> /\ stops'["Sell"] = <<>>
      BY <1>1 DEF Sides
    <3> QED BY <3>1, <3>2 DEF BothHeld
  <2>2. Standing' = stops' /\ Waiting' = Waiting /\ RecordedStop(x)' = 0 /\ TakerHeld(x)' = 0
    BY <1>1, <1>2 DEF Standing, Waiting, RecordedStop, TakerHeld
  <2>3. Places(x)' = 0 + 0 + (Held(x, insertedLimits) + Held(x, Waiting) + 0 + 0)
    BY <1>1, <2>1, <2>2 DEF Places, Recorded
  <2> QED BY <2>3, PlacesType DEF Places, Recorded
<1>4. NextId' = NextId
  BY <1>1, <1>2 DEF NextId
<1> QED BY <1>1, <1>2, <1>3, <1>4, PlacesOutside

\* The other messages, and the settlement, leave every order where it is.
LEMMA PlacesKept ==
  ASSUME IInv, IInv', IdInv, phase \in {"idle", "cancel", "settle"},
         phase' \in {"idle", "cancel", "settle"},
         UNCHANGED <<limits, stops, currentOrderId, insertedLimits, pending>>
  PROVE  IdInv'
<1>1. /\ phase \notin Matching /\ phase' \notin Matching /\ phase' \notin Recording
      /\ phase' \notin {"consume", "stop"}
  BY DEF Matching, Recording
<1>2. ASSUME NEW x \in Nat PROVE Places(x)' <= Places(x)
  <2>1. Standing' = stops /\ Standing = stops /\ Waiting' = Waiting
        /\ RecordedStop(x)' = 0 /\ TakerHeld(x)' = 0
    BY <1>1 DEF Standing, Waiting, RecordedStop, TakerHeld, Recording, Matching
  <2>2. Places(x)' = BothHeld(x, limits) + BothHeld(x, stops)
          + (Held(x, insertedLimits) + Held(x, Waiting) + 0 + 0)
    BY <2>1 DEF Places, Recorded
  <2> QED BY <2>1, <2>2, PlacesType DEF Places, Recorded
<1>3. NextId' = NextId
  BY <1>1 DEF NextId, Matching
<1> QED BY <1>1, <1>2, <1>3, PlacesOutside

\* Every step keeps the ids apart.
LEMMA IdStep ==
  ASSUME IInv, IInv', QuantityInv, IdInv, [Next]_vars
  PROVE  IdInv'
<1>1. CASE ConsumeOwn \/ MarketOrderUnfilled \/ LimitOrderRefused \/ StopLimitRefused
  BY <1>1, ThrowPlaces DEF ConsumeOwn, MarketOrderUnfilled, LimitOrderRefused, StopLimitRefused
<1>2. CASE ConsumePart \/ ConsumeWhole
  BY <1>2, ConsumePlaces
<1>3. CASE RestLimitOrder
  BY <1>3, RestLimitOrderPlaces
<1>4. CASE PlaceStopLimit
  BY <1>4, PlaceStopLimitPlaces
<1>5. CASE KickOffStopOrders
  BY <1>5, KickOffStopOrdersPlaces
<1>6. CASE NoTradeNoKick
  BY <1>6, NoTradeNoKickPlaces
<1>7. CASE ProcessStopOrder
  BY <1>7, ProcessStopOrderPlaces
<1>8. CASE PostProcess
  BY <1>8, PostProcessPlaces
<1>9. CASE InsertLimitOrder
  BY <1>9, InsertLimitOrderPlaces
<1>10. CASE UpdateBooks
  BY <1>10, UpdateBooksPlaces
<1>11. CASE AnswerOrder
  BY <1>11, AnswerOrderPlaces
<1>12. ASSUME NEW m \in Orders, AcceptOrder(m) PROVE IdInv'
  BY <1>12, AcceptOrderPlaces
<1>13. ASSUME NEW kind \in {"limit", "stop"}, NEW side \in Sides,
              NEW i \in 1 .. Len(Book(kind, side)), CancelOrder(kind, side, i)
       PROVE  IdInv'
  <2>1. /\ RemoveFromBook(kind, side, i) /\ phase = "idle" /\ phase' = "idle"
        /\ UNCHANGED <<currentOrderId, insertedLimits, pending>>
    BY <1>13 DEF CancelOrder, idVars, simVars, callVars
  <2> QED BY <2>1, RemoveFromBookPlaces
<1>14. ASSUME NEW e \in toCancel, CancelNext(e) PROVE IdInv'
  <2>1. /\ phase = "cancel" /\ phase' = "cancel"
        /\ UNCHANGED <<currentOrderId, insertedLimits, pending>>
    BY <1>14 DEF CancelNext, idVars, simVars, callVars
  <2>2. e.kind \in {"limit", "stop"} /\ e.side \in Sides
    BY DEF IInv, TypeOK, CallTypeOK, CacheEntry
  <2>3. PICK i \in 1 .. Len(Book(e.kind, e.side)) : RemoveFromBook(e.kind, e.side, i)
    BY <1>14 DEF CancelNext
  <2> QED BY <2>1, <2>2, <2>3, RemoveFromBookPlaces
<1>15. CASE ClearEveryonesOpenOrders
  BY <1>15, ClearEveryonesPlaces
<1>16. CASE \/ SettleTrade
            \/ \E m \in Orders : RejectOrder(m)
            \/ CancelUnknownOrder
            \/ \E user \in Users : ClearOpenOrders(user)
            \/ SetFeePercentage \/ SetMaxNumLimitOpenOrders \/ SetMaxNumStopLimitOpenOrders
            \/ CancelledAll \/ \E e \in toCancel : CancelStale(e)
  <2>1. /\ phase \in {"idle", "cancel", "settle"} /\ phase' \in {"idle", "cancel", "settle"}
        /\ UNCHANGED <<limits, stops, currentOrderId, insertedLimits, pending>>
    BY <1>16 DEF SettleTrade, RejectOrder, Receivable, CancelUnknownOrder, ClearOpenOrders,
                 CancelledAll, CancelStale, SetFeePercentage, SetMaxNumLimitOpenOrders,
                 SetMaxNumStopLimitOpenOrders, SetConfig, marketVars, bookVars, idVars, simVars,
                 callVars
  <2> QED BY <2>1, PlacesKept
<1>17. CASE UNCHANGED vars
  BY <1>17 DEF vars, marketVars, bookVars, idVars, simVars, callVars, IdInv, Places, Committed,
               NextId, Standing, Side, Recorded, RecordedStop, TakerHeld, Waiting
<1> QED BY <1>1, <1>2, <1>3, <1>4, <1>5, <1>6, <1>7, <1>8, <1>9, <1>10, <1>11, <1>12, <1>13,
           <1>14, <1>15, <1>16, <1>17 DEF Next, Processing, Receive

\* Every id that has been given is in one place at most, at every program point.
THEOREM IdInvariance == Spec => []IdInv
<1>1. Init => IdInv
  <2> SUFFICES ASSUME Init PROVE IdInv
    OBVIOUS
  <2>1. /\ phase = "idle" /\ phase \notin Matching /\ phase \notin Recording
        /\ insertedLimits = <<>> /\ Waiting = <<>>
        /\ \A s \in Sides : limits[s] = <<>> /\ stops[s] = <<>>
    BY DEF Init, Matching, Recording, Waiting
  <2>2. ASSUME NEW x \in Nat PROVE Places(x) = 0 /\ Committed(x) = 0
    <3>1. Held(x, <<>>) = 0
      BY HeldSingle
    <3> QED BY <2>1, <3>1 DEF Places, Committed, Standing, BothHeld, Recorded, RecordedStop,
                              TakerHeld, Sides
  <2> QED BY <2>2 DEF IdInv, Once
<1>2. IInv /\ IInv' /\ QuantityInv /\ IdInv /\ [Next]_vars => IdInv'
  BY IdStep
<1> QED BY <1>1, <1>2, Invariance, QuantityInvariance, PTL DEF Spec

\* The live ids one by one are the ids of the places.
LEMMA LiveIdsTimes ==
  ASSUME IInv, NEW x
  PROVE  LiveIds \in Seq(Nat) /\ Times(x, LiveIds) = Places(x)
<1> DEFINE lb == Ids(limits["Buy"])
           ls == Ids(limits["Sell"])
           sb == Ids(Standing["Buy"])
           ss == Ids(Standing["Sell"])
           il == Ids(insertedLimits)
           is == IF phase \in Matching \cup {"insert"} THEN Ids(insertedStop) ELSE <<>>
           wa == [i \in DOMAIN pending |-> pending[i].order.id]
           ta == IF phase \in {"consume", "stop"} THEN <<taker.id>> ELSE <<>>
<1>1. LiveIds = lb \o ls \o sb \o ss \o il \o is \o wa \o ta
  <2>1. \A s \in Sides : Standing[s] = IF phase \in Matching /\ s = Side
                                         THEN DropFirst(stops[s], triggered) ELSE stops[s]
    BY PlaceTypes DEF Standing
  <2> QED BY <2>1 DEF LiveIds, Sides
<1>2. ASSUME NEW orders \in Seq(Order) PROVE Ids(orders) \in Seq(Nat)
  <2>1. DOMAIN orders = 1 .. Len(orders) /\ Len(orders) \in Nat
    BY LenProperties
  <2>2. ASSUME NEW i \in 1 .. Len(orders) PROVE orders[i].id \in Nat
    <3>1. orders[i] \in Order
      BY ElementOfSeq
    <3> QED BY <3>1 DEF Order
  <2> QED BY <2>1, <2>2 DEF Ids
<1>3. wa = Ids(Waiting)
  <2>1. DOMAIN pending = 1 .. Len(pending) /\ DOMAIN Waiting = 1 .. Len(pending)
    BY WaitingType, LenProperties DEF Waiting
  <2> QED BY <2>1 DEF Ids, Waiting
<1>4. /\ lb \in Seq(Nat) /\ ls \in Seq(Nat) /\ sb \in Seq(Nat) /\ ss \in Seq(Nat)
      /\ il \in Seq(Nat) /\ is \in Seq(Nat) /\ wa \in Seq(Nat)
  <2>1. /\ limits["Buy"] \in Seq(Order) /\ limits["Sell"] \in Seq(Order)
        /\ Standing["Buy"] \in Seq(Order) /\ Standing["Sell"] \in Seq(Order)
    BY PlaceTypes DEF Sides
  <2>2. <<>> \in Seq(Nat)
    OBVIOUS
  <2> QED BY <1>2, <1>3, <2>1, <2>2, PlaceTypes
<1>5. ta \in Seq(Nat) /\ Times(x, ta) = TakerHeld(x)
  <2>1. CASE phase \in {"consume", "stop"}
    <3>1. taker.id \in Nat
      BY <2>1 DEF IInv, TypeOK, CallTypeOK, OrderPhases, Matching, Taker
    <3> QED BY <2>1, <3>1, TimesSingle DEF TakerHeld, Single
  <2>2. CASE phase \notin {"consume", "stop"}
    <3>1. ta = <<>> /\ TakerHeld(x) = 0
      BY <2>2 DEF TakerHeld
    <3> HIDE DEF ta
    <3>2. Times(x, <<>>) = 0
      BY ONLY TimesSingle
    <3>3. <<>> \in Seq(Nat)
      OBVIOUS
    <3> QED BY <3>1, <3>2, <3>3
  <2> QED BY <2>1, <2>2
<1>6. /\ Times(x, lb) = Held(x, limits["Buy"]) /\ Times(x, ls) = Held(x, limits["Sell"])
      /\ Times(x, sb) = Held(x, Standing["Buy"]) /\ Times(x, ss) = Held(x, Standing["Sell"])
      /\ Times(x, il) = Held(x, insertedLimits) /\ Times(x, wa) = Held(x, Waiting)
  BY <1>3 DEF Held
<1>7. Times(x, is) = RecordedStop(x)
  BY TimesSingle DEF RecordedStop, Recording, Held
<1> HIDE DEF lb, ls, sb, ss, il, is, wa, ta
<1> DEFINE c1 == lb \o ls
           c2 == c1 \o sb
           c3 == c2 \o ss
           c4 == c3 \o il
           c5 == c4 \o is
           c6 == c5 \o wa
<1>8. ASSUME NEW s \in Seq(Nat), NEW t \in Seq(Nat)
      PROVE  s \o t \in Seq(Nat) /\ Times(x, s \o t) = Times(x, s) + Times(x, t)
  BY ConcatProperties, TimesConcat
<1>9. c1 \in Seq(Nat) /\ Times(x, c1) = Times(x, lb) + Times(x, ls)
  BY <1>4, <1>8
<1> HIDE DEF c1
<1>10. c2 \in Seq(Nat) /\ Times(x, c2) = Times(x, c1) + Times(x, sb)
  BY <1>4, <1>8, <1>9
<1> HIDE DEF c2
<1>11. c3 \in Seq(Nat) /\ Times(x, c3) = Times(x, c2) + Times(x, ss)
  BY <1>4, <1>8, <1>10
<1> HIDE DEF c3
<1>12. c4 \in Seq(Nat) /\ Times(x, c4) = Times(x, c3) + Times(x, il)
  BY <1>4, <1>8, <1>11
<1> HIDE DEF c4
<1>13. c5 \in Seq(Nat) /\ Times(x, c5) = Times(x, c4) + Times(x, is)
  BY <1>4, <1>8, <1>12
<1> HIDE DEF c5
<1>14. c6 \in Seq(Nat) /\ Times(x, c6) = Times(x, c5) + Times(x, wa)
  BY <1>4, <1>8, <1>13
<1> HIDE DEF c6
<1>15. c6 \o ta \in Seq(Nat) /\ Times(x, c6 \o ta) = Times(x, c6) + Times(x, ta)
  BY <1>5, <1>8, <1>14
<1>16. LiveIds = c6 \o ta
  BY <1>1 DEF c1, c2, c3, c4, c5, c6
<1>17. Times(x, LiveIds) =
         ((((((Times(x, lb) + Times(x, ls)) + Times(x, sb)) + Times(x, ss)) + Times(x, il))
            + Times(x, is)) + Times(x, wa)) + Times(x, ta)
  BY <1>9, <1>10, <1>11, <1>12, <1>13, <1>14, <1>15, <1>16
<1>18. /\ Times(x, lb) \in Nat /\ Times(x, ls) \in Nat /\ Times(x, sb) \in Nat
       /\ Times(x, ss) \in Nat /\ Times(x, il) \in Nat /\ Times(x, is) \in Nat
       /\ Times(x, wa) \in Nat /\ Times(x, ta) \in Nat
  BY <1>4, <1>5, TimesType
<1>19. Places(x) = (Times(x, lb) + Times(x, ls)) + (Times(x, sb) + Times(x, ss))
                     + (Times(x, il) + Times(x, wa) + Times(x, is) + Times(x, ta))
  BY <1>5, <1>6, <1>7 DEF Places, BothHeld, Recorded
<1>20. Places(x) = Times(x, LiveIds)
  BY ONLY <1>17, <1>18, <1>19
<1> QED BY <1>15, <1>16, <1>20

\* An order is in one place at a time: a stop order is triggered once, and no id
\* is given twice, whatever an exception takes back.
THEOREM EveryOrderInOnePlace == Spec => []OrderInOnePlace
<1>1. IInv /\ IdInv => OrderInOnePlace
  <2> SUFFICES ASSUME IInv, IdInv PROVE OrderInOnePlace
    OBVIOUS
  <2>1. LiveIds \in Seq(Nat) /\ \A x \in Nat : Times(x, LiveIds) <= 1
    <3>1. ASSUME NEW x \in Nat PROVE LiveIds \in Seq(Nat) /\ Times(x, LiveIds) <= 1
      <4>1. LiveIds \in Seq(Nat) /\ Times(x, LiveIds) = Places(x)
        BY LiveIdsTimes
      <4>2. Places(x) <= Once(x < NextId) /\ Places(x) \in Nat
        BY PlacesType DEF IdInv
      <4> QED BY <4>1, <4>2 DEF Once
    <3>2. 0 \in Nat
      OBVIOUS
    <3> QED BY <3>1, <3>2
  <2> QED BY <2>1, OnceInjective DEF OrderInOnePlace
<1> QED BY <1>1, Invariance, IdInvariance, PTL

-----------------------------------------------------------------------------
(* The user order cache *)

\* The entries of some orders of one kind on one side.
Entries(kind, side, orders) == {Entry(kind, side, orders[i]) : i \in 1 .. Len(orders)}

\* No two of the orders have the same id.
Distinct(orders) == \A i, j \in 1 .. Len(orders) : orders[i].id = orders[j].id => i = j

\* Every order is cached; while the orders of a user are cancelled it is one of
\* those still to be visited, unless it is another user's.  A cached stop order
\* is in its book, but for those of that user that have been visited.  An entry
\* whose order is gone ends the visits: it can only be a limit order, and these
\* are visited first, while every stop order is still there.
StopsCached ==
  phase # "cancel" => \A s \in Sides : Cached("stop", s) \subseteq InBook("stop", s)
ToVisit ==
  phase = "cancel" =>
    /\ toCancel \subseteq EntriesOf(message)
    /\ \A kind \in {"limit", "stop"}, s \in Sides : \A e \in InBook(kind, s) :
         e.user = message => e \in toCancel
Visited ==
  phase = "cancel" =>
    \A s \in Sides : \A e \in Cached("stop", s) :
      e.user # message \/ e \in toCancel \/ (\E f \in toCancel : f.kind = "limit")
        => e \in InBook("stop", s)
Covered == \A kind \in {"limit", "stop"}, s \in Sides : InBook(kind, s) \subseteq userOrders
UsersKnown == \A e \in userOrders : e.user \in knownUsers

CacheInv == Covered /\ StopsCached /\ ToVisit /\ Visited /\ UsersKnown

\* What an entry says of its order.
LEMMA EntryFields ==
  ASSUME NEW kind, NEW side, NEW o
  PROVE  /\ Entry(kind, side, o).kind = kind /\ Entry(kind, side, o).side = side
         /\ Entry(kind, side, o).user = o.user /\ Entry(kind, side, o).id = o.id
         /\ Entry(kind, side, o).price = o.price
BY DEF Entry

\* The entries of a book into which an order is filed.
LEMMA EntriesPushBack ==
  ASSUME NEW orders \in Seq(Order), NEW o \in Order, NEW walker, NEW kind, NEW side
  PROVE  Entries(kind, side, PushBack(walker, orders, o))
           = Entries(kind, side, orders) \cup {Entry(kind, side, o)}
<1> DEFINE filed == PushBack(walker, orders, o)
<1>1. Len(filed) = Len(orders) + 1 /\ Len(orders) \in Nat
  BY PushBackProperties, LenProperties
<1>2. PICK k \in 0 .. Len(orders) : FiledBehind(walker, orders, o, filed, k)
  BY PushBackProperties
<1>3. \A i \in 1 .. Len(filed) :
        filed[i] = IF i <= k THEN orders[i] ELSE IF i = k + 1 THEN o ELSE orders[i - 1]
  BY <1>1, <1>2 DEF FiledBehind
<1> HIDE DEF filed
<1>4. ASSUME NEW i \in 1 .. Len(filed)
      PROVE  Entry(kind, side, filed[i]) \in Entries(kind, side, orders) \cup {Entry(kind, side, o)}
  <2>1. i <= k => i \in 1 .. Len(orders)
    BY <1>1
  <2>2. i > k + 1 => i - 1 \in 1 .. Len(orders)
    BY <1>1
  <2>3. i <= k \/ i = k + 1 \/ i > k + 1
    BY <1>1
  <2> QED BY <1>3, <2>1, <2>2, <2>3 DEF Entries
<1>5. ASSUME NEW i \in 1 .. Len(orders)
      PROVE  \E j \in 1 .. Len(filed) : filed[j] = orders[i]
  <2>1. CASE i <= k
    <3>1. i \in 1 .. Len(filed) /\ filed[i] = orders[i]
      BY <1>1, <1>3, <2>1
    <3> QED BY <3>1
  <2>2. CASE i > k
    <3>1. i + 1 \in 1 .. Len(filed) /\ filed[i + 1] = orders[i]
      BY <1>1, <1>3, <2>2
    <3> QED BY <3>1
  <2> QED BY <2>1, <2>2
<1>6. k + 1 \in 1 .. Len(filed) /\ filed[k + 1] = o
  BY <1>1, <1>3
<1>7. Entries(kind, side, filed) \subseteq Entries(kind, side, orders) \cup {Entry(kind, side, o)}
  BY <1>4 DEF Entries
<1>8. Entries(kind, side, orders) \subseteq Entries(kind, side, filed)
  BY <1>5 DEF Entries
<1>9. Entry(kind, side, o) \in Entries(kind, side, filed)
  BY <1>6 DEF Entries
<1> QED BY <1>7, <1>8, <1>9 DEF filed

\* The entries of a book whose first orders leave.
LEMMA EntriesDropFirst ==
  ASSUME NEW orders \in Seq(Order), Distinct(orders), NEW n \in 0 .. Len(orders),
         NEW kind, NEW side
  PROVE  Entries(kind, side, DropFirst(orders, n))
           = Entries(kind, side, orders) \ {Entry(kind, side, orders[i]) : i \in 1 .. n}
<1> DEFINE rest == DropFirst(orders, n)
<1>1. /\ Len(rest) = Len(orders) - n /\ Len(orders) \in Nat
      /\ \A i \in 1 .. Len(orders) - n : rest[i] = orders[n + i]
  BY DropFirstProperties, LenProperties
<1> HIDE DEF rest
<1>2. ASSUME NEW i \in 1 .. Len(rest)
      PROVE  /\ n + i \in 1 .. Len(orders) /\ rest[i] = orders[n + i]
             /\ \A j \in 1 .. n : Entry(kind, side, orders[j]) # Entry(kind, side, rest[i])
  <2>1. n + i \in 1 .. Len(orders) /\ rest[i] = orders[n + i]
    BY <1>1
  <2>2. ASSUME NEW j \in 1 .. n PROVE orders[j].id # orders[n + i].id
    <3>1. j \in 1 .. Len(orders) /\ j # n + i
      BY <1>1
    <3> QED BY <2>1, <3>1 DEF Distinct
  <2> QED BY <2>1, <2>2, EntryFields
<1>3. ASSUME NEW i \in 1 .. Len(orders), i \notin 1 .. n
      PROVE  \E j \in 1 .. Len(rest) : rest[j] = orders[i]
  <2>1. i - n \in 1 .. Len(rest) /\ rest[i - n] = orders[i]
    BY <1>1, <1>3
  <2> QED BY <2>1
<1>4. Entries(kind, side, rest) \subseteq
        Entries(kind, side, orders) \ {Entry(kind, side, orders[i]) : i \in 1 .. n}
  BY <1>2 DEF Entries
<1>5. Entries(kind, side, orders) \ {Entry(kind, side, orders[i]) : i \in 1 .. n}
        \subseteq Entries(kind, side, rest)
  BY <1>3 DEF Entries
<1> QED BY <1>4, <1>5 DEF rest

\* The entries of a book from which one order is taken.
LEMMA EntriesWithout ==
  ASSUME NEW orders \in Seq(Order), Distinct(orders), NEW i \in 1 .. Len(orders),
         NEW kind, NEW side
  PROVE  Entries(kind, side, Without(orders, i))
           = Entries(kind, side, orders) \ {Entry(kind, side, orders[i])}
<1> DEFINE rest == Without(orders, i)
<1>1. /\ Len(rest) = Len(orders) - 1 /\ Len(orders) \in Nat
      /\ \A j \in 1 .. Len(orders) - 1 : rest[j] = IF j < i THEN orders[j] ELSE orders[j + 1]
  BY WithoutProperties, LenProperties
<1> HIDE DEF rest
<1>2. ASSUME NEW j \in 1 .. Len(rest)
      PROVE  \E k \in 1 .. Len(orders) : k # i /\ rest[j] = orders[k]
  <2>1. CASE j < i
    <3>1. j \in 1 .. Len(orders) /\ j # i /\ rest[j] = orders[j]
      BY <1>1, <2>1
    <3> QED BY <3>1
  <2>2. CASE j >= i
    <3>1. j + 1 \in 1 .. Len(orders) /\ j + 1 # i /\ rest[j] = orders[j + 1]
      BY <1>1, <2>2
    <3> QED BY <3>1
  <2> QED BY <2>1, <2>2
<1>3. ASSUME NEW k \in 1 .. Len(orders), k # i
      PROVE  \E j \in 1 .. Len(rest) : rest[j] = orders[k]
  <2>1. CASE k < i
    <3>1. k \in 1 .. Len(rest) /\ rest[k] = orders[k]
      BY <1>1, <2>1
    <3> QED BY <3>1
  <2>2. CASE k > i
    <3>1. k - 1 \in 1 .. Len(rest) /\ rest[k - 1] = orders[k]
      BY <1>1, <2>2
    <3> QED BY <3>1
  <2> QED BY <1>3, <2>1, <2>2
<1>4. ASSUME NEW k \in 1 .. Len(orders), k # i
      PROVE  Entry(kind, side, orders[k]) # Entry(kind, side, orders[i])
  <2>1. orders[k].id # orders[i].id
    BY <1>4 DEF Distinct
  <2> QED BY <2>1, EntryFields
<1>5. Entries(kind, side, rest) \subseteq
        Entries(kind, side, orders) \ {Entry(kind, side, orders[i])}
  BY <1>2, <1>4 DEF Entries
<1>6. Entries(kind, side, orders) \ {Entry(kind, side, orders[i])}
        \subseteq Entries(kind, side, rest)
  BY <1>3 DEF Entries
<1> QED BY <1>5, <1>6 DEF rest

\* An order of a book has its id there at least once, at two positions twice.
LEMMA HeldAtLeast ==
  ASSUME NEW orders \in Seq(Order), NEW i \in 1 .. Len(orders)
  PROVE  Held(orders[i].id, orders) >= 1
<1>1. /\ Ids(orders) \in Seq({o.id : o \in Order}) /\ Len(Ids(orders)) = Len(orders)
      /\ Ids(orders)[i] = orders[i].id
  BY IdsType
<1>2. i \in 1 .. Len(Ids(orders))
  BY <1>1
<1>3. Times(Ids(orders)[i], Ids(orders)) >= 1
  BY <1>1, <1>2, TimesAtLeast
<1> QED BY <1>1, <1>3 DEF Held

LEMMA HeldDistinct ==
  ASSUME NEW orders \in Seq(Order), \A x \in Nat : Held(x, orders) <= 1
  PROVE  Distinct(orders)
<1>1. /\ Ids(orders) \in Seq({o.id : o \in Order}) /\ Len(Ids(orders)) = Len(orders)
      /\ \A i \in 1 .. Len(orders) : Ids(orders)[i] = orders[i].id
  BY IdsType
<1>2. \A x \in {o.id : o \in Order} : Times(x, Ids(orders)) <= 1
  BY DEF Order, Held
<1>3. IsInjective(Ids(orders))
  BY <1>1, <1>2, OnceInjective
<1>4. DOMAIN Ids(orders) = 1 .. Len(orders)
  BY <1>1, LenProperties
<1> QED BY <1>1, <1>3, <1>4 DEF IsInjective, Distinct

\* The committed books hold every id once.
LEMMA BooksDistinct ==
  ASSUME IInv, IdInv
  PROVE  /\ \A s \in Sides : Distinct(limits[s]) /\ Distinct(stops[s])
         /\ \A s \in Sides : \A i \in 1 .. Len(limits[s]), j \in 1 .. Len(limits[Opposite(s)]) :
              limits[s][i].id # limits[Opposite(s)][j].id
<1>1. limits \in [Sides -> Seq(Order)] /\ stops \in [Sides -> Seq(Order)]
  BY PlaceTypes
<1>2. ASSUME NEW x \in Nat PROVE BothHeld(x, limits) + BothHeld(x, stops) <= 1
  <2>1. Committed(x) <= Once(x < currentOrderId)
    BY DEF IdInv
  <2>2. Once(x < currentOrderId) <= 1 /\ Once(x < currentOrderId) \in Nat
    BY DEF Once
  <2>3. Committed(x) \in Nat
    BY PlacesType
  <2> QED BY <2>1, <2>2, <2>3 DEF Committed
<1>3. ASSUME NEW x \in Nat
      PROVE  /\ BothHeld(x, limits) \in Nat /\ BothHeld(x, limits) <= 1
             /\ BothHeld(x, stops) \in Nat /\ BothHeld(x, stops) <= 1
  BY <1>2, PlacesType
<1>4. ASSUME NEW s \in Sides PROVE Distinct(limits[s]) /\ Distinct(stops[s])
  <2>1. limits[s] \in Seq(Order) /\ stops[s] \in Seq(Order)
    BY <1>1
  <2>2. ASSUME NEW x \in Nat PROVE Held(x, limits[s]) <= 1 /\ Held(x, stops[s]) <= 1
    <3>1. /\ Held(x, limits[s]) \in Nat /\ Held(x, limits[s]) <= BothHeld(x, limits)
          /\ Held(x, stops[s]) \in Nat /\ Held(x, stops[s]) <= BothHeld(x, stops)
      BY <1>1, BothHeldType
    <3> QED BY <1>3, <3>1
  <2> QED BY <2>1, <2>2, HeldDistinct
<1>5. ASSUME NEW s \in Sides, NEW i \in 1 .. Len(limits[s]),
             NEW j \in 1 .. Len(limits[Opposite(s)]),
             limits[s][i].id = limits[Opposite(s)][j].id
      PROVE  FALSE
  <2> DEFINE x == limits[s][i].id
  <2>1. limits[s] \in Seq(Order) /\ limits[Opposite(s)] \in Seq(Order)
    BY <1>1 DEF Opposite, Sides
  <2>2. x \in Nat
    <3>1. limits[s][i] \in Order
      BY <2>1, ElementOfSeq
    <3> QED BY <3>1 DEF Order
  <2>3. Held(x, limits[s]) >= 1 /\ Held(x, limits[Opposite(s)]) >= 1
    BY <1>5, <2>1, HeldAtLeast
  <2>4. Held(x, limits[s]) \in Nat /\ Held(x, limits[Opposite(s)]) \in Nat
    BY <2>1, HeldType
  <2>5. BothHeld(x, limits) = Held(x, limits[s]) + Held(x, limits[Opposite(s)])
    BY <2>4 DEF BothHeld, Opposite, Sides
  <2> HIDE DEF x
  <2> QED BY <1>3, <2>2, <2>3, <2>4, <2>5
<1> QED BY <1>4, <1>5

\* The entries of the four books, before and after a step.
LEMMA InBookNow ==
  IInv => \A s \in Sides : /\ InBook("limit", s) = Entries("limit", s, limits[s])
                           /\ InBook("stop", s) = Entries("stop", s, stops[s])
<1> SUFFICES ASSUME IInv, NEW s \in Sides
             PROVE  /\ InBook("limit", s) = Entries("limit", s, limits[s])
                    /\ InBook("stop", s) = Entries("stop", s, stops[s])
  OBVIOUS
<1>1. limits[s] \in Seq(Order) /\ stops[s] \in Seq(Order)
  BY PlaceTypes
<1>2. DOMAIN limits[s] = 1 .. Len(limits[s]) /\ DOMAIN stops[s] = 1 .. Len(stops[s])
  BY <1>1, LenProperties
<1> QED BY <1>2 DEF InBook, Book, Entries

LEMMA InBookNext ==
  IInv' => \A s \in Sides : /\ InBook("limit", s)' = Entries("limit", s, limits'[s])
                            /\ InBook("stop", s)' = Entries("stop", s, stops'[s])
<1>1. (IInv => \A s \in Sides : /\ InBook("limit", s) = Entries("limit", s, limits[s])
                                /\ InBook("stop", s) = Entries("stop", s, stops[s]))'
  BY InBookNow, PTL
<1> QED BY <1>1 DEF Entries, Entry, Sides

\* The entries of a book are of its kind and on its side.
LEMMA InBookFields ==
  ASSUME NEW kind, NEW s, NEW e \in InBook(kind, s)
  PROVE  e.kind = kind /\ e.side = s
BY EntryFields DEF InBook

\* Orders leave one book, and their entries the cache.
LEMMA EntriesTaken ==
  ASSUME CacheInv, phase # "cancel", phase' # "cancel",
         NEW kind \in {"limit", "stop"}, NEW side \in Sides, NEW gone,
         \A e \in gone : e.kind = kind /\ e.side = side,
         \A k \in {"limit", "stop"}, s \in Sides :
           InBook(k, s)' = IF k = kind /\ s = side THEN InBook(k, s) \ gone ELSE InBook(k, s),
         userOrders' = userOrders \ gone, knownUsers' = knownUsers
  PROVE  CacheInv'
<1>1. ASSUME NEW k \in {"limit", "stop"}, NEW s \in Sides, NEW e \in InBook(k, s)'
      PROVE  e \in userOrders'
  <2>1. e \in InBook(k, s) /\ (k = kind /\ s = side => e \notin gone)
    BY <1>1
  <2>2. e \in userOrders /\ e.kind = k /\ e.side = s
    BY <2>1, InBookFields DEF CacheInv, Covered
  <2> QED BY <2>1, <2>2
<1>2. ASSUME NEW s \in Sides, NEW e \in Cached("stop", s)' PROVE e \in InBook("stop", s)'
  <2>1. e \in userOrders /\ e \notin gone /\ e.kind = "stop" /\ e.side = s
    BY <1>2 DEF Cached
  <2>2. e \in InBook("stop", s)
    BY <2>1 DEF CacheInv, StopsCached, Cached
  <2> QED BY <2>1, <2>2
<1>3. UsersKnown'
  BY DEF CacheInv, UsersKnown
<1> QED BY <1>1, <1>2, <1>3 DEF CacheInv, Covered, StopsCached, ToVisit, Visited

\* An order comes to a book, and its entry to the cache.
LEMMA EntryAdded ==
  ASSUME CacheInv, phase # "cancel", phase' # "cancel",
         NEW kind \in {"limit", "stop"}, NEW side \in Sides, NEW new,
         new.kind = kind, new.side = side,
         \A k \in {"limit", "stop"}, s \in Sides :
           InBook(k, s)' = IF k = kind /\ s = side THEN InBook(k, s) \cup {new} ELSE InBook(k, s),
         userOrders' = userOrders \cup {new}, knownUsers' = knownUsers \cup {new.user}
  PROVE  CacheInv'
<1>1. ASSUME NEW k \in {"limit", "stop"}, NEW s \in Sides, NEW e \in InBook(k, s)'
      PROVE  e \in userOrders'
  BY <1>1 DEF CacheInv, Covered
<1>2. ASSUME NEW s \in Sides, NEW e \in Cached("stop", s)' PROVE e \in InBook("stop", s)'
  <2>1. e \in userOrders \cup {new} /\ e.kind = "stop" /\ e.side = s
    BY <1>2 DEF Cached
  <2>2. e \in userOrders => e \in InBook("stop", s)
    BY <2>1 DEF CacheInv, StopsCached, Cached
  <2> QED BY <2>1, <2>2
<1>3. UsersKnown'
  BY DEF CacheInv, UsersKnown
<1> QED BY <1>1, <1>2, <1>3 DEF CacheInv, Covered, StopsCached, ToVisit, Visited

\* Neither the books nor the cache change.
LEMMA CacheKept ==
  ASSUME CacheInv, UNCHANGED <<limits, stops, userOrders, knownUsers>>,
         phase # "cancel", phase' # "cancel"
  PROVE  CacheInv'
<1>1. \A k \in {"limit", "stop"}, s \in Sides :
        InBook(k, s)' = InBook(k, s) /\ Cached(k, s)' = Cached(k, s)
  BY DEF InBook, Book, Cached
<1> QED BY <1>1 DEF CacheInv, Covered, StopsCached, ToVisit, Visited, UsersKnown

-----------------------------------------------------------------------------
(* Steps that change books and cache *)

\* The triggered stop orders leave.
LEMMA PostProcessCached ==
  ASSUME IInv, IInv', IdInv, CacheInv, PostProcess
  PROVE  CacheInv'
<1>1. /\ phase = "next" /\ phase' = "insert"
      /\ stops' = [stops EXCEPT ![Side] = DropFirst(stops[Side], triggered)]
      /\ userOrders' = userOrders \ TriggeredEntries
      /\ UNCHANGED <<limits, knownUsers>>
  BY DEF PostProcess
<1>2. phase \in Recording /\ phase \in Matching
  BY <1>1 DEF Recording, Matching
<1>3. /\ Side \in Sides /\ stops[Side] \in Seq(Order) /\ triggered \in 0 .. Len(stops[Side])
      /\ stops \in [Sides -> Seq(Order)]
  BY <1>2, RecordTypes, PlaceTypes
<1>4. Entries("stop", Side, DropFirst(stops[Side], triggered))
        = Entries("stop", Side, stops[Side]) \ TriggeredEntries
  <2>1. Distinct(stops[Side])
    BY <1>3, BooksDistinct
  <2> QED BY <1>3, <2>1, EntriesDropFirst DEF TriggeredEntries
<1>5. \A s \in Sides : stops'[s] = IF s = Side THEN DropFirst(stops[Side], triggered) ELSE stops[s]
  BY <1>1, <1>3
<1>6. ASSUME NEW k \in {"limit", "stop"}, NEW s \in Sides
      PROVE  InBook(k, s)' = IF k = "stop" /\ s = Side THEN InBook(k, s) \ TriggeredEntries
                               ELSE InBook(k, s)
  BY <1>1, <1>4, <1>5, InBookNow, InBookNext
<1>7. \A e \in TriggeredEntries : e.kind = "stop" /\ e.side = Side
  BY EntryFields DEF TriggeredEntries
<1> HIDE DEF TriggeredEntries
<1> QED BY <1>1, <1>3, <1>6, <1>7, EntriesTaken

\* The remainder of a limit order comes to its book.
LEMMA InsertLimitOrderCached ==
  ASSUME IInv, IInv', CacheInv, InsertLimitOrder
  PROVE  CacheInv'
<1> DEFINE o == Head(insertedLimits)
           filed == PushBack(Opposite(Side), limits[Side], o)
           new == Entry("limit", Side, o)
<1>1. /\ phase = "insert" /\ phase' = "insert" /\ insertedLimits # <<>>
      /\ limits' = [limits EXCEPT ![Side] = filed]
      /\ userOrders' = userOrders \cup {new} /\ knownUsers' = knownUsers \cup {o.user}
      /\ UNCHANGED stops
  BY DEF InsertLimitOrder
<1>2. phase \in Recording
  BY <1>1 DEF Recording, Matching
<1>3. /\ Side \in Sides /\ limits \in [Sides -> Seq(Order)] /\ limits[Side] \in Seq(Order)
      /\ insertedLimits \in Seq(Order)
  BY <1>2, RecordTypes, PlaceTypes
<1>4. o \in Order
  BY <1>1, <1>3, HeadTailProperties
<1> HIDE DEF o
<1>5. Entries("limit", Side, filed) = Entries("limit", Side, limits[Side]) \cup {new}
  BY <1>3, <1>4, EntriesPushBack
<1>6. new.kind = "limit" /\ new.side = Side /\ new.user = o.user
  BY EntryFields
<1> HIDE DEF filed, new
<1>7. \A s \in Sides : limits'[s] = IF s = Side THEN filed ELSE limits[s]
  BY <1>1, <1>3
<1>8. ASSUME NEW k \in {"limit", "stop"}, NEW s \in Sides
      PROVE  InBook(k, s)' = IF k = "limit" /\ s = Side THEN InBook(k, s) \cup {new}
                               ELSE InBook(k, s)
  BY <1>1, <1>5, <1>7, InBookNow, InBookNext
<1> QED BY <1>1, <1>3, <1>6, <1>8, EntryAdded

\* One order leaves its book.
LEMMA EntryRemoved ==
  ASSUME IInv, IInv', IdInv, NEW kind \in {"limit", "stop"}, NEW side \in Sides,
         NEW i \in 1 .. Len(Book(kind, side)), RemoveFromBook(kind, side, i)
  PROVE  \A k \in {"limit", "stop"}, s \in Sides :
           InBook(k, s)' = IF k = kind /\ s = side
                             THEN InBook(k, s) \ {Entry(kind, side, Book(kind, side)[i])}
                             ELSE InBook(k, s)
<1> DEFINE book == Book(kind, side)
           rest == Without(book, i)
<1>1. limits \in [Sides -> Seq(Order)] /\ stops \in [Sides -> Seq(Order)]
  BY PlaceTypes
<1>2. book \in Seq(Order) /\ Distinct(book) /\ i \in 1 .. Len(book)
  BY <1>1, BooksDistinct DEF Book
<1>3. Entries(kind, side, rest) = Entries(kind, side, book) \ {Entry(kind, side, book[i])}
  <2> HIDE DEF book
  <2> QED BY <1>2, EntriesWithout
<1>4. CASE kind = "limit"
  <2>1. /\ limits' = [limits EXCEPT ![side] = rest] /\ stops' = stops /\ book = limits[side]
    BY <1>4 DEF RemoveFromBook, Book
  <2> HIDE DEF rest, book
  <2>2. \A s \in Sides : limits'[s] = IF s = side THEN rest ELSE limits[s]
    BY <1>1, <2>1
  <2>3. ASSUME NEW k \in {"limit", "stop"}, NEW s \in Sides
        PROVE  InBook(k, s)' = IF k = kind /\ s = side
                                 THEN InBook(k, s) \ {Entry(kind, side, book[i])}
                                 ELSE InBook(k, s)
    BY <1>3, <1>4, <2>1, <2>2, InBookNow, InBookNext
  <2> QED BY <2>3 DEF book
<1>5. CASE kind = "stop"
  <2>1. /\ stops' = [stops EXCEPT ![side] = rest] /\ limits' = limits /\ book = stops[side]
    BY <1>5 DEF RemoveFromBook, Book
  <2> HIDE DEF rest, book
  <2>2. \A s \in Sides : stops'[s] = IF s = side THEN rest ELSE stops[s]
    BY <1>1, <2>1
  <2>3. ASSUME NEW k \in {"limit", "stop"}, NEW s \in Sides
        PROVE  InBook(k, s)' = IF k = kind /\ s = side
                                 THEN InBook(k, s) \ {Entry(kind, side, book[i])}
                                 ELSE InBook(k, s)
    BY <1>3, <1>5, <2>1, <2>2, InBookNow, InBookNext
  <2> QED BY <2>3 DEF book
<1> QED BY <1>4, <1>5

\* The commit of the makers and of the placed stop order.  The entries that are
\* removed for the filled makers are filed on the taker's side: no order has them.
LEMMA UpdateBooksCached ==
  ASSUME IInv, IInv', QuantityInv, IdInv, CacheInv, UpdateBooks
  PROVE  CacheInv'
<1> DEFINE placed == {insertedStop[i] : i \in 1 .. Len(insertedStop)}
           new == {Entry("stop", Side, o) : o \in placed}
<1>1. /\ phase = "insert" /\ phase' = "settle"
      /\ limits' = [limits EXCEPT ![Opposite(Side)] = UpdatedMakers]
      /\ stops' = IF insertedStop = <<>> THEN stops
                  ELSE [stops EXCEPT ![Side] = PushBack(Side, @, insertedStop[1])]
      /\ userOrders' = (userOrders \cup new) \ MakerEntries
      /\ knownUsers' = knownUsers \cup {o.user : o \in placed}
  BY DEF UpdateBooks
<1>2. phase \in Recording
  BY <1>1 DEF Recording, Matching
<1>3. /\ Side \in Sides /\ Opposite(Side) \in Sides /\ Opposite(Side) # Side
      /\ limits \in [Sides -> Seq(Order)] /\ stops \in [Sides -> Seq(Order)]
      /\ Makers \in Seq(Order) /\ removed \in 0 .. Len(Makers) /\ insertedStop \in Seq(Order)
  BY <1>2, RecordTypes, PlaceTypes DEF Opposite, Sides
<1>4. \A e \in MakerEntries : e.kind = "limit" /\ e.side = Side
  BY EntryFields DEF MakerEntries
<1>5. \A e \in new : e.kind = "stop" /\ e.side = Side
  BY EntryFields
<1>6. \A s \in Sides : limits'[s] = IF s = Side THEN limits[s] ELSE UpdatedMakers
  BY <1>1, <1>3 DEF Opposite, Sides
<1>7. Entries("limit", Opposite(Side), UpdatedMakers) \subseteq InBook("limit", Opposite(Side))
  <2> DEFINE rest == DropFirst(Makers, removed)
  <2>1. /\ rest \in Seq(Order) /\ Len(rest) = Len(Makers) - removed /\ Len(Makers) \in Nat
        /\ \A i \in 1 .. Len(Makers) - removed : rest[i] = Makers[removed + i]
    BY <1>3, DropFirstProperties, LenProperties
  <2>2. UpdatedMakers = IF lastFill > 0 THEN [rest EXCEPT ![1].left = @ - lastFill] ELSE rest
    BY DEF UpdatedMakers
  <2> HIDE DEF rest
  <2>3. Len(UpdatedMakers) = Len(rest) /\ \A i \in 1 .. Len(rest) :
          /\ UpdatedMakers[i].user = rest[i].user /\ UpdatedMakers[i].price = rest[i].price
          /\ UpdatedMakers[i].id = rest[i].id
    <3>1. CASE lastFill > 0
      <4> DEFINE first == [rest[1] EXCEPT !.left = @ - lastFill]
      <4>1. \A i \in 1 .. Len(rest) : rest[i] \in Order
        BY <2>1, ElementOfSeq
      <4>2. UpdatedMakers = [rest EXCEPT ![1] = first]
        BY <2>2, <3>1
      <4>3. 1 \in 1 .. Len(rest) => /\ first.user = rest[1].user /\ first.price = rest[1].price
                                    /\ first.id = rest[1].id
        BY <4>1 DEF Order
      <4> HIDE DEF first
      <4>4. Len(UpdatedMakers) = Len(rest)
            /\ \A i \in 1 .. Len(rest) : UpdatedMakers[i] = IF i = 1 THEN first ELSE rest[i]
        BY <2>1, <4>2
      <4> QED BY <4>3, <4>4
    <3>2. CASE ~(lastFill > 0)
      BY <2>2, <3>2
    <3> QED BY <3>1, <3>2
  <2>4. ASSUME NEW i \in 1 .. Len(UpdatedMakers)
        PROVE  Entry("limit", Opposite(Side), UpdatedMakers[i])
                 \in Entries("limit", Opposite(Side), Makers)
    <3>1. removed + i \in 1 .. Len(Makers) /\ rest[i] = Makers[removed + i]
      BY <1>3, <2>1, <2>3
    <3>2. Entry("limit", Opposite(Side), UpdatedMakers[i])
            = Entry("limit", Opposite(Side), Makers[removed + i])
      BY <2>3, <3>1 DEF Entry
    <3> QED BY <3>1, <3>2 DEF Entries
  <2>5. InBook("limit", Opposite(Side)) = Entries("limit", Opposite(Side), Makers)
    BY <1>3, InBookNow DEF Makers
  <2> QED BY <2>4, <2>5 DEF Entries
<1>8. ASSUME NEW s \in Sides, NEW e \in InBook("limit", s)'
      PROVE  e \in InBook("limit", s) /\ e \notin MakerEntries
  <2>1. CASE s = Side
    <3>1. e \in Entries("limit", Side, limits[Side]) /\ e \in InBook("limit", s)
      BY <1>6, <1>8, <2>1, InBookNow, InBookNext
    <3>2. PICK i \in 1 .. Len(limits[Side]) : e = Entry("limit", Side, limits[Side][i])
      BY <3>1 DEF Entries
    <3>3. ASSUME NEW j \in 1 .. removed PROVE e # Entry("limit", Side, Makers[j])
      <4>1. j \in 1 .. Len(limits[Opposite(Side)])
        BY <1>3, LenProperties DEF Makers
      <4>2. limits[Side][i].id # Makers[j].id
        BY <1>3, <4>1, BooksDistinct DEF Makers
      <4> QED BY <3>2, <4>2, EntryFields
    <3> QED BY <3>1, <3>3 DEF MakerEntries
  <2>2. CASE s # Side
    <3>1. s = Opposite(Side)
      BY <1>3, <2>2 DEF Opposite, Sides
    <3>2. e \in InBook("limit", s)
      BY <1>6, <1>7, <1>8, <2>2, <3>1, InBookNext
    <3> QED BY <1>4, <2>2, <3>2, InBookFields
  <2> QED BY <2>1, <2>2
<1>9. ASSUME NEW s \in Sides
      PROVE  InBook("stop", s)' = IF s = Side THEN InBook("stop", s) \cup new
                                  ELSE InBook("stop", s)
  <2>1. CASE insertedStop = <<>>
    <3>1. new = {}
      BY <2>1
    <3>2. stops' = stops
      BY <1>1, <2>1
    <3> HIDE DEF placed, new
    <3> QED BY <3>1, <3>2, InBookNow, InBookNext
  <2>2. CASE insertedStop # <<>>
    <3> DEFINE o == insertedStop[1]
               filed == PushBack(Side, stops[Side], o)
    <3>1. Len(insertedStop) = 1
      <4>1. Len(insertedStop) <= 1 /\ Len(insertedStop) \in Nat /\ Len(insertedStop) # 0
        BY <1>3, <2>2, LenProperties, EmptySeq DEF QuantityInv, TakersDone
      <4> DEFINE n == Len(insertedStop)
      <4>2. n <= 1 /\ n \in Nat /\ n # 0
        BY <4>1
      <4> HIDE DEF n
      <4>3. n = 1
        BY ONLY <4>2
      <4> QED BY <4>3 DEF n
    <3>2. o \in Order
      <4>1. 1 \in 1 .. Len(insertedStop)
        BY <3>1
      <4> QED BY <1>3, <4>1, ElementOfSeq
    <3>3. placed = {o}
      BY <3>1
    <3>4. new = {Entry("stop", Side, o)}
      BY <3>3
    <3>5. stops' = [stops EXCEPT ![Side] = filed]
      BY <1>1, <2>2
    <3> HIDE DEF o, placed, new
    <3>6. Entries("stop", Side, filed) = Entries("stop", Side, stops[Side]) \cup new
      BY <1>3, <3>2, <3>4, EntriesPushBack
    <3> HIDE DEF filed
    <3>7. \A r \in Sides : stops'[r] = IF r = Side THEN filed ELSE stops[r]
      BY <1>3, <3>5
    <3> QED BY <3>6, <3>7, InBookNow, InBookNext
  <2> QED BY <2>1, <2>2
<1>10. \A e \in new : e.user \in {o.user : o \in placed}
  BY EntryFields
<1> HIDE DEF placed, new
<1>11. ASSUME NEW k \in {"limit", "stop"}, NEW s \in Sides, NEW e \in InBook(k, s)'
       PROVE  e \in userOrders'
  <2>1. CASE k = "limit"
    BY <1>1, <1>8, <1>11, <2>1 DEF CacheInv, Covered
  <2>2. CASE k = "stop"
    <3>1. e \in InBook("stop", s) \/ e \in new
      BY <1>9, <1>11, <2>2
    <3>2. e.kind = "stop" /\ e \in userOrders \cup new
      BY <1>5, <3>1, InBookFields DEF CacheInv, Covered
    <3> QED BY <1>1, <1>4, <3>2
  <2> QED BY <2>1, <2>2
<1>12. ASSUME NEW s \in Sides, NEW e \in Cached("stop", s)' PROVE e \in InBook("stop", s)'
  <2>1. e \in userOrders \cup new /\ e.kind = "stop" /\ e.side = s
    BY <1>1, <1>12 DEF Cached
  <2>2. e \in userOrders => e \in InBook("stop", s)
    BY <1>1, <2>1 DEF CacheInv, StopsCached, Cached
  <2> QED BY <1>5, <1>9, <2>1, <2>2
<1>13. UsersKnown'
  BY <1>1, <1>10 DEF CacheInv, UsersKnown
<1> QED BY <1>1, <1>11, <1>12, <1>13 DEF CacheInv, Covered, StopsCached, ToVisit, Visited

\* One order is cancelled.
LEMMA CancelOrderCached ==
  ASSUME IInv, IInv', IdInv, CacheInv, NEW kind \in {"limit", "stop"}, NEW side \in Sides,
         NEW i \in 1 .. Len(Book(kind, side)), CancelOrder(kind, side, i)
  PROVE  CacheInv'
<1> DEFINE gone == {Entry(kind, side, Book(kind, side)[i])}
<1>1. /\ phase = "idle" /\ phase' = "idle" /\ RemoveFromBook(kind, side, i)
      /\ userOrders' = userOrders \ gone /\ knownUsers' = knownUsers
  BY DEF CancelOrder
<1>2. \A k \in {"limit", "stop"}, s \in Sides :
        InBook(k, s)' = IF k = kind /\ s = side THEN InBook(k, s) \ gone ELSE InBook(k, s)
  BY <1>1, EntryRemoved
<1>3. \A e \in gone : e.kind = kind /\ e.side = side
  BY EntryFields
<1> HIDE DEF gone
<1> QED BY <1>1, <1>2, <1>3, EntriesTaken

\* The cancellation of a user's orders begins.
LEMMA ClearOpenOrdersCached ==
  ASSUME IInv, CacheInv, NEW user \in Users, ClearOpenOrders(user)
  PROVE  CacheInv'
<1>1. phase = "idle" /\ UNCHANGED <<limits, stops, userOrders, knownUsers>>
  BY DEF ClearOpenOrders, bookVars, cacheVars
<1>2. CASE user \in knownUsers
  <2>1. phase' = "cancel" /\ message' = user /\ toCancel' = EntriesOf(user)
    BY <1>2 DEF ClearOpenOrders
  <2>2. \A k \in {"limit", "stop"}, s \in Sides :
          InBook(k, s)' = InBook(k, s) /\ Cached(k, s)' = Cached(k, s)
    BY <1>1 DEF InBook, Book, Cached
  <2>3. Covered' /\ UsersKnown' /\ StopsCached'
    BY <1>1, <2>1, <2>2 DEF CacheInv, Covered, UsersKnown, StopsCached
  <2>4. ToVisit'
    BY <1>1, <2>1, <2>2 DEF CacheInv, Covered, ToVisit, EntriesOf
  <2>5. Visited'
    BY <1>1, <2>1, <2>2 DEF CacheInv, StopsCached, Visited
  <2> QED BY <2>3, <2>4, <2>5 DEF CacheInv
<1>3. CASE user \notin knownUsers
  <2>1. phase' = phase
    BY <1>3 DEF ClearOpenOrders
  <2> QED BY <1>1, <2>1, CacheKept
<1> QED BY <1>2, <1>3

\* An entry to be cancelled is of a kind and on a side.
LEMMA ToCancelType ==
  ASSUME IInv, NEW e \in toCancel
  PROVE  e \in CacheEntry /\ e.kind \in {"limit", "stop"} /\ e.side \in Sides
BY DEF IInv, TypeOK, CallTypeOK, CacheEntry

\* The order of the next entry of a user is cancelled.
LEMMA CancelNextCached ==
  ASSUME IInv, IInv', IdInv, CacheInv, NEW e \in toCancel, CancelNext(e)
  PROVE  CacheInv'
<1>1. /\ phase = "cancel" /\ phase' = "cancel" /\ FirstToCancel(e) /\ toCancel' = toCancel \ {e}
      /\ UNCHANGED <<userOrders, knownUsers, message>>
  BY DEF CancelNext, cacheVars, callVars
<1>2. e.kind \in {"limit", "stop"} /\ e.side \in Sides
  BY ToCancelType
<1> DEFINE book == Book(e.kind, e.side)
<1>3. PICK i \in 1 .. Len(book) : Position(e, i) /\ RemoveFromBook(e.kind, e.side, i)
  BY DEF CancelNext
<1> DEFINE gone == Entry(e.kind, e.side, book[i])
<1>4. \A k \in {"limit", "stop"}, s \in Sides :
        InBook(k, s)' = IF k = e.kind /\ s = e.side THEN InBook(k, s) \ {gone} ELSE InBook(k, s)
  BY <1>2, <1>3, EntryRemoved
<1>5. ASSUME e \in InBook(e.kind, e.side) PROVE e = gone
  <2>1. book \in Seq(Order) /\ Distinct(book)
    BY <1>2, PlaceTypes, BooksDistinct DEF Book
  <2>2. PICK j \in DOMAIN book : e = Entry(e.kind, e.side, book[j])
    BY <1>5 DEF InBook
  <2>3. j \in 1 .. Len(book) /\ book[j].id = e.id /\ book[i].id = e.id
    BY <1>3, <2>1, <2>2, LenProperties, EntryFields DEF Position
  <2>4. j = i
    BY <1>3, <2>1, <2>3 DEF Distinct
  <2> QED BY <2>2, <2>4
<1> HIDE DEF gone, book
<1>6. Covered' /\ UsersKnown' /\ StopsCached'
  BY <1>1, <1>4 DEF CacheInv, Covered, UsersKnown, StopsCached
<1>7. ToVisit'
  <2>1. toCancel' \subseteq EntriesOf(message)'
    BY <1>1 DEF CacheInv, ToVisit, EntriesOf
  <2>2. ASSUME NEW k \in {"limit", "stop"}, NEW s \in Sides, NEW f \in InBook(k, s)',
               f.user = message'
        PROVE  f \in toCancel'
    <3>1. f \in InBook(k, s) /\ f.kind = k /\ f.side = s
      BY <1>4, <2>2, InBookFields
    <3>2. f \in toCancel
      BY <1>1, <2>2, <3>1 DEF CacheInv, ToVisit
    <3>3. f # e
      BY <1>4, <1>5, <2>2, <3>1
    <3> QED BY <1>1, <3>2, <3>3
  <2> QED BY <2>1, <2>2 DEF ToVisit
<1>8. Visited'
  <2>1. ASSUME NEW s \in Sides, NEW f \in Cached("stop", s)',
               f.user # message \/ f \in toCancel' \/ (\E g \in toCancel' : g.kind = "limit")
        PROVE  f \in InBook("stop", s)'
    <3>1. f \in Cached("stop", s) /\ f.kind = "stop" /\ f.side = s
      BY <1>1, <2>1 DEF Cached
    <3>2. f \in InBook("stop", s)
      BY <1>1, <2>1, <3>1 DEF CacheInv, Visited
    <3>3. CASE e.kind = "limit"
      BY <1>4, <3>2, <3>3
    <3>4. CASE e.kind = "stop"
      <4>1. \A g \in toCancel : g.kind # "limit"
        <5>1. ASSUME NEW g \in toCancel, g.kind = "limit" PROVE FALSE
          <6>1. Stage(e) > Stage(g)
            BY <3>4, <5>1 DEF Stage
          <6>2. Precedes(e, g) /\ Stage(e) \in Int /\ Stage(g) \in Int
            BY <1>1 DEF FirstToCancel, Stage
          <6> QED BY <6>1, <6>2 DEF Precedes
        <5> QED BY <5>1
      <4>2. f.user # message \/ f \in toCancel \ {e}
        BY <1>1, <2>1, <4>1
      <4>3. e.user = message /\ e \in userOrders
        BY <1>1 DEF CacheInv, ToVisit, EntriesOf
      <4>4. e \in InBook("stop", e.side)
        BY <1>1, <1>2, <3>4, <4>3 DEF CacheInv, Visited, Cached
      <4>5. f # gone
        BY <1>5, <3>4, <4>2, <4>3, <4>4
      <4> QED BY <1>4, <3>2, <4>5
    <3> QED BY <1>2, <3>3, <3>4
  <2> QED BY <1>1, <2>1 DEF Visited
<1> QED BY <1>6, <1>7, <1>8 DEF CacheInv

\* An entry whose order is gone is one of a limit order.
LEMMA CancelStaleCached ==
  ASSUME IInv, CacheInv, NEW e \in toCancel, CancelStale(e)
  PROVE  CacheInv'
<1>1. /\ phase = "cancel" /\ phase' = "idle" /\ UNCHANGED <<limits, stops, userOrders, knownUsers>>
      /\ \A i \in 1 .. Len(Book(e.kind, e.side)) : ~Position(e, i)
  BY DEF CancelStale, marketVars, bookVars, cacheVars
<1>2. e.kind \in {"limit", "stop"} /\ e.side \in Sides
  BY ToCancelType
<1>3. e \notin InBook(e.kind, e.side)
  <2>1. ASSUME e \in InBook(e.kind, e.side) PROVE FALSE
    <3> DEFINE book == Book(e.kind, e.side)
    <3>1. book \in Seq(Order)
      BY <1>2, PlaceTypes DEF Book
    <3>2. PICK i \in DOMAIN book : e = Entry(e.kind, e.side, book[i])
      BY <2>1 DEF InBook
    <3>3. i \in 1 .. Len(book) /\ book[i].id = e.id /\ book[i].price = e.price
      BY <3>1, <3>2, LenProperties, EntryFields
    <3> QED BY <1>1, <3>3 DEF Position
  <2> QED BY <2>1
<1>4. e.kind = "limit"
  <2>1. ASSUME e.kind = "stop" PROVE FALSE
    <3>1. e \in Cached("stop", e.side)
      BY <1>1, <2>1 DEF CacheInv, ToVisit, EntriesOf, Cached
    <3>2. e \in InBook("stop", e.side)
      BY <1>1, <1>2, <3>1 DEF CacheInv, Visited
    <3> QED BY <1>3, <2>1, <3>2
  <2> QED BY <1>2, <2>1
<1>5. \A k \in {"limit", "stop"}, s \in Sides :
        InBook(k, s)' = InBook(k, s) /\ Cached(k, s)' = Cached(k, s)
  BY <1>1 DEF InBook, Book, Cached
<1>6. StopsCached'
  BY <1>1, <1>4, <1>5 DEF CacheInv, Visited, StopsCached
<1> QED BY <1>1, <1>5, <1>6 DEF CacheInv, Covered, ToVisit, Visited, UsersKnown

\* The orders of a user have all been cancelled, and the cache forgets them.
LEMMA CancelledAllCached ==
  ASSUME IInv, CacheInv, CancelledAll
  PROVE  CacheInv'
<1>1. /\ phase = "cancel" /\ phase' = "idle" /\ toCancel = {}
      /\ userOrders' = userOrders \ EntriesOf(message)
      /\ UNCHANGED <<limits, stops, knownUsers>>
  BY DEF CancelledAll, bookVars
<1>2. \A k \in {"limit", "stop"}, s \in Sides : InBook(k, s)' = InBook(k, s)
  BY <1>1 DEF InBook, Book
<1>3. \A k \in {"limit", "stop"}, s \in Sides : \A e \in InBook(k, s) : e.user # message
  BY <1>1 DEF CacheInv, ToVisit
<1>4. Covered'
  BY <1>1, <1>2, <1>3 DEF CacheInv, Covered, EntriesOf
<1>5. ASSUME NEW s \in Sides, NEW e \in Cached("stop", s)' PROVE e \in InBook("stop", s)'
  <2>1. e \in Cached("stop", s) /\ e.user # message
    BY <1>1, <1>5 DEF Cached, EntriesOf
  <2> QED BY <1>1, <1>2, <2>1 DEF CacheInv, Visited
<1> QED BY <1>1, <1>4, <1>5 DEF CacheInv, StopsCached, ToVisit, Visited, UsersKnown

\* All orders of all users are cancelled.
LEMMA ClearEveryonesCached ==
  ASSUME IInv, IInv', ClearEveryonesOpenOrders
  PROVE  CacheInv'
<1>1. /\ phase' = "idle" /\ userOrders' = {}
      /\ limits' = [s \in Sides |-> <<>>] /\ stops' = [s \in Sides |-> <<>>]
  BY DEF ClearEveryonesOpenOrders
<1>2. \A k \in {"limit", "stop"}, s \in Sides : Entries(k, s, <<>>) = {}
  BY DEF Entries
<1>3. \A k \in {"limit", "stop"}, s \in Sides : InBook(k, s)' = {}
  BY <1>1, <1>2, InBookNext
<1> QED BY <1>1, <1>3 DEF CacheInv, Covered, StopsCached, ToVisit, Visited, UsersKnown, Cached

\* Every step keeps the cache of the books.
LEMMA CacheStep ==
  ASSUME IInv, IInv', QuantityInv, IdInv, CacheInv, [Next]_vars
  PROVE  CacheInv'
<1>1. CASE \/ ConsumeOwn \/ MarketOrderUnfilled \/ LimitOrderRefused \/ StopLimitRefused
           \/ AnswerOrder
  <2>1. /\ UNCHANGED <<limits, stops, userOrders, knownUsers>>
        /\ phase # "cancel" /\ phase' # "cancel"
    BY <1>1 DEF ConsumeOwn, HasMaker, MarketOrderUnfilled, LimitOrderRefused, StopLimitRefused,
                AnswerOrder, Throw, Return, marketVars, bookVars, cacheVars
  <2> QED BY <2>1, CacheKept
<1>2. CASE \/ ConsumePart \/ ConsumeWhole \/ RestLimitOrder \/ PlaceStopLimit
           \/ KickOffStopOrders \/ NoTradeNoKick \/ ProcessStopOrder
  <2>1. /\ UNCHANGED <<limits, stops, userOrders, knownUsers>>
        /\ phase # "cancel" /\ phase' # "cancel"
    BY <1>2 DEF ConsumePart, ConsumeWhole, HasMaker, RestLimitOrder, PlaceStopLimit,
                KickOffStopOrders, NoTradeNoKick, ProcessStopOrder, marketVars, bookVars, cacheVars
  <2> QED BY <2>1, CacheKept
<1>3. CASE \/ SettleTrade
           \/ \E m \in Orders : RejectOrder(m) \/ AcceptOrder(m)
           \/ CancelUnknownOrder
           \/ SetFeePercentage \/ SetMaxNumLimitOpenOrders \/ SetMaxNumStopLimitOpenOrders
  <2>1. /\ UNCHANGED <<limits, stops, userOrders, knownUsers>>
        /\ phase # "cancel" /\ phase' # "cancel"
    BY <1>3 DEF SettleTrade, RejectOrder, AcceptOrder, Receivable, CancelUnknownOrder,
                SetFeePercentage, SetMaxNumLimitOpenOrders, SetMaxNumStopLimitOpenOrders,
                SetConfig, marketVars, bookVars, cacheVars
  <2> QED BY <2>1, CacheKept
<1>4. CASE PostProcess
  BY <1>4, PostProcessCached
<1>5. CASE InsertLimitOrder
  BY <1>5, InsertLimitOrderCached
<1>6. CASE UpdateBooks
  BY <1>6, UpdateBooksCached
<1>7. ASSUME NEW kind \in {"limit", "stop"}, NEW side \in Sides,
             NEW i \in 1 .. Len(Book(kind, side)), CancelOrder(kind, side, i)
      PROVE  CacheInv'
  BY <1>7, CancelOrderCached
<1>8. ASSUME NEW user \in Users, ClearOpenOrders(user) PROVE CacheInv'
  BY <1>8, ClearOpenOrdersCached
<1>9. ASSUME NEW e \in toCancel, CancelNext(e) PROVE CacheInv'
  BY <1>9, CancelNextCached
<1>10. ASSUME NEW e \in toCancel, CancelStale(e) PROVE CacheInv'
  BY <1>10, CancelStaleCached
<1>11. CASE CancelledAll
  BY <1>11, CancelledAllCached
<1>12. CASE ClearEveryonesOpenOrders
  BY <1>12, ClearEveryonesCached
<1>13. CASE UNCHANGED vars
  <2>1. UNCHANGED <<limits, stops, userOrders, knownUsers, phase, message, toCancel>>
    BY <1>13 DEF vars, marketVars, bookVars, cacheVars, callVars
  <2>2. \A k \in {"limit", "stop"}, s \in Sides :
          InBook(k, s)' = InBook(k, s) /\ Cached(k, s)' = Cached(k, s)
    BY <2>1 DEF InBook, Book, Cached
  <2> QED BY <2>1, <2>2 DEF CacheInv, Covered, StopsCached, ToVisit, Visited, UsersKnown,
                            EntriesOf
<1> QED BY <1>1, <1>2, <1>3, <1>4, <1>5, <1>6, <1>7, <1>8, <1>9, <1>10, <1>11, <1>12, <1>13
        DEF Next, Processing, Receive

\* The cache and the books, at every program point.
THEOREM CacheInvariance == Spec => []CacheInv
<1>1. Init => CacheInv
  <2> SUFFICES ASSUME Init PROVE CacheInv
    OBVIOUS
  <2>1. phase = "idle" /\ userOrders = {} /\ \A s \in Sides : limits[s] = <<>> /\ stops[s] = <<>>
    BY DEF Init
  <2>2. ASSUME NEW k \in {"limit", "stop"}, NEW s \in Sides PROVE InBook(k, s) = {}
    <3>1. Book(k, s) = <<>>
      BY <2>1 DEF Book
    <3>2. DOMAIN Book(k, s) = {}
      BY <3>1
    <3> QED BY <3>2 DEF InBook
  <2>3. \A s \in Sides : Cached("stop", s) = {}
    BY <2>1 DEF Cached
  <2> QED BY <2>1, <2>2, <2>3 DEF CacheInv, Covered, StopsCached, ToVisit, Visited, UsersKnown
<1>2. IInv /\ IInv' /\ QuantityInv /\ IdInv /\ CacheInv /\ [Next]_vars => CacheInv'
  BY CacheStep
<1> QED BY <1>1, <1>2, Invariance, QuantityInvariance, IdInvariance, PTL DEF Spec

\* Between messages every resting order is found through the cache of its owner,
\* and the cache has no stop order that does not rest: through partial fills,
\* chains of triggered orders, cancellations and those that end half way.
THEOREM EveryOrderCached == Spec => []CacheCoversBooks
<1>1. CacheInv => CacheCoversBooks
  <2> SUFFICES ASSUME CacheInv, phase = "idle" PROVE
        /\ \A kind \in {"limit", "stop"}, side \in Sides :
             /\ InBook(kind, side) \subseteq Cached(kind, side)
             /\ kind = "stop" => Cached(kind, side) \subseteq InBook(kind, side)
        /\ {e.user : e \in userOrders} \subseteq knownUsers
    BY DEF CacheCoversBooks
  <2>1. \A kind \in {"limit", "stop"}, side \in Sides :
          InBook(kind, side) \subseteq Cached(kind, side)
    BY InBookFields DEF CacheInv, Covered, Cached
  <2> QED BY <2>1 DEF CacheInv, StopsCached, UsersKnown
<1> QED BY <1>1, CacheInvariance, PTL

-----------------------------------------------------------------------------
(* Filing several orders *)

\* The first n + 1 values of the function Filed defines.
IsFiled(side, book, orders, n, g) ==
  g = [i \in 0 .. n |-> IF i = 0 THEN book ELSE PushBack(side, g[i - 1], orders[i])]

\* There is such a function for every length.
LEMMA IsFiledExists ==
  ASSUME NEW side, NEW book, NEW orders, NEW n \in Nat
  PROVE  \E g : IsFiled(side, book, orders, n, g)
<1> DEFINE T == {k \in Nat : \E g : IsFiled(side, book, orders, k, g)}
<1>1. 0 \in T
  <2> DEFINE g == [i \in 0 .. 0 |-> book]
  <2>1. IsFiled(side, book, orders, 0, g)
    BY DEF IsFiled
  <2> HIDE DEF g
  <2> QED BY <2>1
<1>2. ASSUME NEW k \in T PROVE k + 1 \in T
  <2>1. PICK g : IsFiled(side, book, orders, k, g)
    OBVIOUS
  <2> DEFINE last == PushBack(side, g[k], orders[k + 1])
             h == [i \in 0 .. k + 1 |-> IF i = k + 1 THEN last ELSE g[i]]
  <2>2. \A i \in 0 .. k :
          g[i] = IF i = 0 THEN book ELSE PushBack(side, g[i - 1], orders[i])
    BY <2>1 DEF IsFiled
  <2>3. \A i \in 0 .. k + 1 : h[i] = IF i = k + 1 THEN last ELSE g[i]
    OBVIOUS
  <2>4. ASSUME NEW i \in 0 .. k + 1
        PROVE  h[i] = IF i = 0 THEN book ELSE PushBack(side, h[i - 1], orders[i])
    <3> HIDE DEF h
    <3>1. CASE i = k + 1
      <4>1. i # 0 /\ i - 1 = k /\ k \in 0 .. k + 1 /\ k # k + 1
        BY <3>1
      <4>2. h[i - 1] = g[k] /\ h[i] = last
        BY <2>3, <3>1, <4>1
      <4> QED BY <3>1, <4>1, <4>2
    <3>2. CASE i # k + 1
      <4>1. i \in 0 .. k /\ (i # 0 => i - 1 \in 0 .. k + 1 /\ i - 1 # k + 1)
        BY <3>2
      <4>2. h[i] = g[i] /\ (i # 0 => h[i - 1] = g[i - 1])
        BY <2>3, <3>2, <4>1
      <4> QED BY <2>2, <4>1, <4>2
    <3> QED BY <3>1, <3>2
  <2>5. IsFiled(side, book, orders, k + 1, h)
    BY <2>4 DEF IsFiled
  <2> HIDE DEF h
  <2> QED BY <2>5
<1>3. T = Nat
  <2> HIDE DEF T
  <2>1. T \in SUBSET Nat
    BY DEF T
  <2> QED BY <1>1, <1>2, <2>1, NatInduct
<1> QED BY <1>3

\* A longer one agrees with it.
LEMMA IsFiledUnique ==
  ASSUME NEW side, NEW book, NEW orders, NEW n \in Nat, NEW g, IsFiled(side, book, orders, n, g),
         NEW k \in Nat, NEW h, IsFiled(side, book, orders, k, h), n <= k
  PROVE  \A i \in 0 .. n : g[i] = h[i]
<1> DEFINE T == {i \in Nat : i <= n => g[i] = h[i]}
<1>1. 0 \in T
  BY DEF IsFiled
<1>2. ASSUME NEW i \in T PROVE i + 1 \in T
  <2>1. SUFFICES ASSUME i + 1 <= n PROVE g[i + 1] = h[i + 1]
    OBVIOUS
  <2>2. i + 1 \in 0 .. n /\ i + 1 \in 0 .. k /\ i + 1 # 0 /\ (i + 1) - 1 = i /\ i <= n
    BY <2>1
  <2>3. /\ g[i + 1] = PushBack(side, g[i], orders[i + 1])
        /\ h[i + 1] = PushBack(side, h[i], orders[i + 1])
    BY <2>2 DEF IsFiled
  <2> QED BY <2>2, <2>3
<1>3. T = Nat
  <2> HIDE DEF T
  <2>1. T \in SUBSET Nat
    BY DEF T
  <2> QED BY <1>1, <1>2, <2>1, NatInduct
<1> QED BY <1>3

\* So the recursive function of Filed exists, and satisfies its equation.
LEMMA FiledRecursion ==
  ASSUME NEW side, NEW book, NEW orders, NEW n \in Nat
  PROVE  Filed(side, book, orders, n)
           = IF n = 0 THEN book ELSE PushBack(side, Filed(side, book, orders, n - 1), orders[n])
<1> DEFINE part(k) == CHOOSE g : IsFiled(side, book, orders, k, g)
           all == [k \in Nat |-> part(k)[k]]
           next(f) == [i \in Nat |-> IF i = 0 THEN book
                                       ELSE PushBack(side, f[i - 1], orders[i])]
           filed == CHOOSE f : f = next(f)
<1>1. ASSUME NEW k \in Nat PROVE IsFiled(side, book, orders, k, part(k))
  BY IsFiledExists
<1> HIDE DEF part
<1>2. ASSUME NEW k \in Nat
      PROVE  all[k] = IF k = 0 THEN book ELSE PushBack(side, all[k - 1], orders[k])
  <2>1. part(k)[k] = IF k = 0 THEN book
                     ELSE PushBack(side, part(k)[k - 1], orders[k])
    <3>1. k \in 0 .. k
      OBVIOUS
    <3> QED BY <1>1, <3>1 DEF IsFiled
  <2>2. k # 0 => part(k - 1)[k - 1] = part(k)[k - 1]
    <3>1. SUFFICES ASSUME k # 0 PROVE part(k - 1)[k - 1] = part(k)[k - 1]
      OBVIOUS
    <3>2. k - 1 \in Nat /\ k - 1 <= k /\ k - 1 \in 0 .. k - 1
      BY <3>1
    <3> QED BY <1>1, <3>2, IsFiledUnique
  <2>3. k # 0 => k - 1 \in Nat
    OBVIOUS
  <2> QED BY <2>1, <2>2, <2>3
<1>3. all = next(all)
  BY <1>2
<1> HIDE DEF all
<1>4. filed = next(filed)
  <2> HIDE DEF next
  <2> QED BY <1>3
<1>5. \A k \in Nat : Filed(side, book, orders, k) = filed[k]
  BY DEF Filed
<1> HIDE DEF filed
<1>6. \A k \in Nat : filed[k] = IF k = 0 THEN book
                               ELSE PushBack(side, filed[k - 1], orders[k])
  BY <1>4
<1>7. n # 0 => n - 1 \in Nat
  OBVIOUS
<1> QED BY <1>5, <1>6, <1>7

\* Nothing is filed, or one order more.
LEMMA FiledNone ==
  ASSUME NEW side, NEW book, NEW orders
  PROVE  Filed(side, book, orders, 0) = book
BY FiledRecursion

LEMMA FiledNext ==
  ASSUME NEW side, NEW book, NEW orders, NEW n \in Nat
  PROVE  Filed(side, book, orders, n + 1) = PushBack(side, Filed(side, book, orders, n), orders[n + 1])
<1>1. n + 1 \in Nat /\ n + 1 # 0 /\ (n + 1) - 1 = n
  OBVIOUS
<1> QED BY <1>1, FiledRecursion

\* Filing orders keeps the type of a book and its order.
LEMMA FiledType ==
  ASSUME NEW side, NEW book \in Seq(Order), NEW orders \in Seq(Order), NEW n \in 0 .. Len(orders)
  PROVE  /\ Filed(side, book, orders, n) \in Seq(Order)
         /\ Sorted(side, book) => Sorted(side, Filed(side, book, orders, n))
<1> DEFINE T == {k \in Nat : k <= Len(orders) =>
                   /\ Filed(side, book, orders, k) \in Seq(Order)
                   /\ Sorted(side, book)
                        => Sorted(side, Filed(side, book, orders, k))}
<1>0. \A m \in Nat : Filed(side, book, orders, m + 1)
                       = PushBack(side, Filed(side, book, orders, m), orders[m + 1])
  BY FiledNext
<1>1. 0 \in T
  BY FiledNone
<1>2. ASSUME NEW k \in T PROVE k + 1 \in T
  <2>1. SUFFICES ASSUME k + 1 <= Len(orders)
                 PROVE  /\ Filed(side, book, orders, k + 1) \in Seq(Order)
                        /\ Sorted(side, book)
                             => Sorted(side, Filed(side, book, orders, k + 1))
    OBVIOUS
  <2>2. k \in Nat /\ k + 1 \in 1 .. Len(orders) /\ k <= Len(orders)
    BY <2>1, LenProperties
  <2> DEFINE before == Filed(side, book, orders, k)
  <2>3. orders[k + 1] \in Order
    BY <2>2, ElementOfSeq
  <2>4. \A x \in Order : x.price \in Int
    BY DEF Order
  <2>5. Filed(side, book, orders, k + 1) = PushBack(side, before, orders[k + 1])
    BY <1>0, <2>2
  <2>6. before \in Seq(Order) /\ (Sorted(side, book) => Sorted(side, before))
    BY <2>2
  <2> HIDE DEF before
  <2>7. PushBack(side, before, orders[k + 1]) \in Seq(Order)
    BY <2>3, <2>6, PushBackProperties
  <2>8. Sorted(side, before) =>
          Sorted(side, PushBack(side, before, orders[k + 1]))
    BY <2>3, <2>4, <2>6, PushBackSorted
  <2> QED BY <2>5, <2>6, <2>7, <2>8
<1>3. T = Nat
  <2> HIDE DEF T
  <2>1. T \in SUBSET Nat
    BY DEF T
  <2> QED BY <1>1, <1>2, <2>1, NatInduct
<1> QED BY <1>3, LenProperties

\* Only the first n orders matter.
LEMMA FiledSame ==
  ASSUME NEW side, NEW book, NEW n \in Nat, NEW orders, NEW others,
         \A i \in 1 .. n : others[i] = orders[i]
  PROVE  Filed(side, book, others, n) = Filed(side, book, orders, n)
<1> DEFINE T == {k \in Nat : k <= n => Filed(side, book, others, k) = Filed(side, book, orders, k)}
<1>0. ASSUME NEW m \in Nat
      PROVE  /\ Filed(side, book, others, m + 1)
                  = PushBack(side, Filed(side, book, others, m), others[m + 1])
             /\ Filed(side, book, orders, m + 1)
                  = PushBack(side, Filed(side, book, orders, m), orders[m + 1])
  BY FiledNext
<1>1. 0 \in T
  BY FiledNone
<1>2. ASSUME NEW k \in T PROVE k + 1 \in T
  <2>1. SUFFICES ASSUME k + 1 <= n
                 PROVE  Filed(side, book, others, k + 1) = Filed(side, book, orders, k + 1)
    OBVIOUS
  <2>2. k + 1 \in 1 .. n /\ k <= n /\ k \in Nat
    BY <2>1
  <2>3. /\ Filed(side, book, others, k + 1)
             = PushBack(side, Filed(side, book, others, k), others[k + 1])
        /\ Filed(side, book, orders, k + 1)
             = PushBack(side, Filed(side, book, orders, k), orders[k + 1])
    BY <1>0, <2>2
  <2>4. Filed(side, book, others, k) = Filed(side, book, orders, k)
    BY <2>2
  <2> QED BY <2>2, <2>3, <2>4
<1>3. T = Nat
  <2> HIDE DEF T
  <2>1. T \in SUBSET Nat
    BY DEF T
  <2> QED BY <1>1, <1>2, <2>1, NatInduct
<1> QED BY <1>3

\* Filing the first order and then those behind it is filing them all.
LEMMA FiledFirst ==
  ASSUME NEW side, NEW book, NEW n \in Nat, NEW orders, NEW behind,
         \A i \in 1 .. n : behind[i] = orders[i + 1]
  PROVE  Filed(side, PushBack(side, book, orders[1]), behind, n)
           = Filed(side, book, orders, n + 1)
<1> DEFINE first == PushBack(side, book, orders[1])
           T == {k \in Nat : k <= n =>
                   Filed(side, first, behind, k) = Filed(side, book, orders, k + 1)}
<1>0. ASSUME NEW m \in Nat
      PROVE  /\ Filed(side, first, behind, m + 1)
                  = PushBack(side, Filed(side, first, behind, m), behind[m + 1])
             /\ Filed(side, book, orders, m + 1)
                  = PushBack(side, Filed(side, book, orders, m), orders[m + 1])
  BY FiledNext
<1>1. 0 \in T
  <2>1. 0 + 1 = 1
    OBVIOUS
  <2>2. Filed(side, book, orders, 0 + 1)
          = PushBack(side, Filed(side, book, orders, 0), orders[0 + 1])
    BY FiledNext
  <2>3. Filed(side, book, orders, 0) = book /\ Filed(side, first, behind, 0) = first
    BY FiledNone
  <2> QED BY <2>1, <2>2, <2>3
<1> HIDE DEF first
<1>2. ASSUME NEW k \in T PROVE k + 1 \in T
  <2>1. SUFFICES ASSUME k + 1 <= n
                 PROVE  Filed(side, first, behind, k + 1) = Filed(side, book, orders, (k + 1) + 1)
    OBVIOUS
  <2>2. k + 1 \in 1 .. n /\ k <= n /\ k \in Nat /\ k + 1 \in Nat
    BY <2>1
  <2>3. /\ Filed(side, first, behind, k + 1)
             = PushBack(side, Filed(side, first, behind, k), behind[k + 1])
        /\ Filed(side, book, orders, (k + 1) + 1)
             = PushBack(side, Filed(side, book, orders, k + 1), orders[(k + 1) + 1])
    BY <1>0, <2>2
  <2>4. /\ Filed(side, first, behind, k) = Filed(side, book, orders, k + 1)
        /\ behind[k + 1] = orders[(k + 1) + 1]
    BY <2>2
  <2> QED BY <2>3, <2>4
<1>3. T = Nat
  <2> HIDE DEF T
  <2>1. T \in SUBSET Nat
    BY DEF T
  <2> QED BY <1>1, <1>2, <2>1, NatInduct
<1> QED BY <1>3 DEF first

\* An order that is filed is the last one of its price, and taking it out gives
\* the book back.
LEMMA PushBackAdds ==
  ASSUME NEW side, NEW book \in Seq(Order), NEW o \in Order
  PROVE  \E i \in 1 .. Len(PushBack(side, book, o)) :
           /\ PushBack(side, book, o)[i] = o
           /\ book = Without(PushBack(side, book, o), i)
           /\ i < Len(PushBack(side, book, o)) =>
                PushBack(side, book, o)[i + 1].price # PushBack(side, book, o)[i].price
<1> DEFINE own == PushBack(side, book, o)
<1>1. own \in Seq(Order) /\ Len(own) = Len(book) + 1 /\ Len(book) \in Nat
  BY PushBackProperties, LenProperties
<1>2. PICK k \in 0 .. Len(book) : FiledBehind(side, book, o, own, k)
  BY PushBackProperties
<1> HIDE DEF own
<1>3. k + 1 \in 1 .. Len(own) /\ own[k + 1] = o
  BY <1>1, <1>2 DEF FiledBehind
<1>4. book = Without(own, k + 1)
  <2>0. Len(own) - 1 = Len(book)
    BY <1>1
  <2>1. /\ Without(own, k + 1) \in Seq(Order) /\ Len(Without(own, k + 1)) = Len(book)
        /\ \A j \in 1 .. Len(book) :
             Without(own, k + 1)[j] = IF j < k + 1 THEN own[j] ELSE own[j + 1]
    BY <1>1, <1>3, <2>0, WithoutProperties, Zenon
  <2>2. ASSUME NEW j \in 1 .. Len(book) PROVE Without(own, k + 1)[j] = book[j]
    <3>1. CASE j < k + 1
      <4>1. j \in 1 .. k
        BY <3>1
      <4> QED BY <1>2, <2>1, <3>1, <4>1 DEF FiledBehind
    <3>2. CASE ~(j < k + 1)
      <4>1. j + 1 \in k + 2 .. Len(book) + 1 /\ (j + 1) - 1 = j
        BY <1>1, <3>2
      <4>2. own[j + 1] = book[j]
        BY <1>2, <4>1 DEF FiledBehind
      <4> QED BY <2>1, <3>2, <4>2
    <3> QED BY <3>1, <3>2
  <2> QED BY <2>1, <2>2, SeqEqual
<1>5. ASSUME k + 1 < Len(own) PROVE own[(k + 1) + 1].price # own[k + 1].price
  <2>1. k < Len(book) /\ (k + 1) + 1 \in k + 2 .. Len(book) + 1 /\ ((k + 1) + 1) - 1 = k + 1
        /\ k + 1 \in 1 .. Len(book)
    BY <1>1, <1>5
  <2>2. own[(k + 1) + 1] = book[k + 1]
    BY <1>2, <2>1 DEF FiledBehind
  <2>3. ~Reached(side, book[k + 1].price, o.price)
    BY <1>2, <2>1 DEF FiledBehind, IsReachedEnd
  <2>4. o.price \in Int
    BY DEF Order
  <2> QED BY <1>3, <2>2, <2>3, <2>4, ReachedIsOrder
<1> QED BY <1>3, <1>4, <1>5 DEF own

-----------------------------------------------------------------------------
(* The makers that are left *)

\* The makers, when some are gone and some is filled of the next one.
Taken(makers, gone, fill) ==
  LET rest == DropFirst(makers, gone)
  IN  IF fill > 0 THEN [rest EXCEPT ![1] = [rest[1] EXCEPT !.left = @ - fill]] ELSE rest

LEMMA TakenProperties ==
  ASSUME NEW makers \in Seq(Order), NEW gone \in 0 .. Len(makers), NEW fill \in Nat,
         fill > 0 => gone < Len(makers) /\ fill < makers[gone + 1].left
  PROVE  /\ Taken(makers, gone, fill) \in Seq(Order)
         /\ Len(Taken(makers, gone, fill)) = Len(makers) - gone
         /\ \A i \in 2 .. Len(makers) - gone : Taken(makers, gone, fill)[i] = makers[gone + i]
         /\ gone < Len(makers) =>
              /\ Taken(makers, gone, fill)[1].price = makers[gone + 1].price
              /\ Taken(makers, gone, fill)[1] =
                   IF fill > 0 THEN [makers[gone + 1] EXCEPT !.left = @ - fill]
                   ELSE makers[gone + 1]
<1> DEFINE rest == DropFirst(makers, gone)
           first == [rest[1] EXCEPT !.left = @ - fill]
<1>1. /\ rest \in Seq(Order) /\ Len(rest) = Len(makers) - gone /\ Len(makers) \in Nat
      /\ \A i \in 1 .. Len(makers) - gone : rest[i] = makers[gone + i]
  BY DropFirstProperties, LenProperties
<1>2. Taken(makers, gone, fill) = IF fill > 0 THEN [rest EXCEPT ![1] = first] ELSE rest
  BY DEF Taken
<1> HIDE DEF rest
<1>3. gone < Len(makers) => 1 \in 1 .. Len(rest) /\ rest[1] = makers[gone + 1] /\ rest[1] \in Order
  BY <1>1, ElementOfSeq
<1>4. CASE fill > 0
  <2>0. /\ rest[1] \in Order /\ rest[1].left \in Nat
        /\ rest[1].left - fill \in Nat \ {0}
    <3>1. gone < Len(makers) /\ fill < makers[gone + 1].left
      BY <1>4
    <3>2. rest[1] \in Order /\ fill < rest[1].left
      BY <1>3, <3>1
    <3>3. rest[1].left \in Nat
      BY <3>2 DEF Order
    <3> QED BY <3>2, <3>3
  <2>1. first \in Order /\ first.price = rest[1].price
    BY <2>0 DEF Order
  <2>2. first = [makers[gone + 1] EXCEPT !.left = @ - fill]
    BY <1>3, <1>4
  <2> HIDE DEF first
  <2>3. /\ [rest EXCEPT ![1] = first] \in Seq(Order) /\ Len([rest EXCEPT ![1] = first]) = Len(rest)
        /\ [rest EXCEPT ![1] = first][1] = first
        /\ \A i \in 1 .. Len(rest) : i # 1 => [rest EXCEPT ![1] = first][i] = rest[i]
    BY <1>1, <1>3, <1>4, <2>1
  <2> QED BY <1>1, <1>2, <1>3, <1>4, <2>1, <2>2, <2>3
<1>5. CASE ~(fill > 0)
  BY <1>1, <1>2, <1>3, <1>5
<1> QED BY <1>4, <1>5

\* One trade more takes from the first of the makers that are left.
LessFirst(makers, q) == [makers EXCEPT ![1].left = @ - q]

LEMMA TakenMore ==
  ASSUME NEW makers \in Seq(Order), NEW gone \in 0 .. Len(makers), NEW fill \in Nat,
         gone < Len(makers), NEW q \in Nat \ {0}, fill + q < makers[gone + 1].left
  PROVE  /\ Taken(makers, gone, fill) # <<>>
         /\ q \in 1 .. Head(Taken(makers, gone, fill)).left - 1
         /\ Taken(makers, gone, fill + q) = LessFirst(Taken(makers, gone, fill), q)
<1> DEFINE old == Taken(makers, gone, fill)
           new == Taken(makers, gone, fill + q)
           m == makers[gone + 1]
<1>1. m \in Order /\ Len(makers) \in Nat
  BY LenProperties, ElementOfSeq
<1>2. /\ m.left \in Nat /\ fill + q < m.left /\ fill < m.left
      /\ fill + q \in Nat /\ fill + q > 0
  BY <1>1 DEF Order
<1>3. /\ old \in Seq(Order) /\ Len(old) = Len(makers) - gone
      /\ \A i \in 2 .. Len(makers) - gone : old[i] = makers[gone + i]
      /\ old[1] = IF fill > 0 THEN [m EXCEPT !.left = @ - fill] ELSE m
  BY <1>2, TakenProperties
<1>4. /\ new \in Seq(Order) /\ Len(new) = Len(makers) - gone
      /\ \A i \in 2 .. Len(makers) - gone : new[i] = makers[gone + i]
      /\ new[1] = [m EXCEPT !.left = @ - (fill + q)]
  BY <1>2, TakenProperties
<1> HIDE DEF old, new, m
<1>5. old[1].left = m.left - fill /\ new[1] = [old[1] EXCEPT !.left = @ - q]
  <2>1. m.left - (fill + q) = (m.left - fill) - q
    BY <1>2
  <2>2. new[1] = [m EXCEPT !.left = (m.left - fill) - q]
    BY <1>4, <2>1
  <2>3. CASE fill > 0
    <3>1. old[1] = [m EXCEPT !.left = m.left - fill]
      BY <1>3, <2>3
    <3>2. old[1].left = m.left - fill
      BY <1>1, <3>1 DEF Order
    <3>3. [old[1] EXCEPT !.left = @ - q] = [old[1] EXCEPT !.left = (m.left - fill) - q]
      BY <3>2
    <3>4. [old[1] EXCEPT !.left = (m.left - fill) - q] = [m EXCEPT !.left = (m.left - fill) - q]
      BY <1>1, <3>1 DEF Order
    <3> QED BY <2>2, <3>2, <3>3, <3>4
  <2>4. CASE ~(fill > 0)
    <3>1. old[1] = m /\ m.left - fill = m.left
      BY <1>2, <1>3, <2>4
    <3> QED BY <2>2, <3>1
  <2> QED BY <2>3, <2>4
<1>6. 1 \in 1 .. Len(old) /\ old # <<>> /\ Head(old) = old[1]
  BY <1>1, <1>3, EmptySeq
<1> DEFINE first == [old[1] EXCEPT !.left = @ - q]
           changed == [old EXCEPT ![1] = first]
<1>7. first \in Order
  <2>1. first = new[1] /\ 1 \in 1 .. Len(new)
    <3>1. Len(new) = Len(old)
      BY <1>3, <1>4
    <3> QED BY <1>5, <1>6, <3>1
  <2>2. new[1] \in Order
    BY <1>4, <2>1, ElementOfSeq
  <2> QED BY <2>1, <2>2
<1> HIDE DEF first
<1>8. /\ changed \in Seq(Order) /\ Len(changed) = Len(old) /\ changed[1] = first
      /\ \A i \in 1 .. Len(old) : i # 1 => changed[i] = old[i]
  BY <1>3, <1>6, <1>7
<1> HIDE DEF changed
<1>9. ASSUME NEW i \in 1 .. Len(old) PROVE changed[i] = new[i]
  <2>1. CASE i = 1
    BY <1>5, <1>8, <2>1 DEF first
  <2>2. CASE i # 1
    <3>1. i \in 2 .. Len(makers) - gone
      BY <1>1, <1>3, <2>2
    <3> QED BY <1>3, <1>4, <1>8, <2>2, <3>1
  <2> QED BY <2>1, <2>2
<1>10. changed = new
  BY <1>3, <1>4, <1>8, <1>9, SeqEqual
<1>11. changed = LessFirst(old, q)
  BY DEF changed, first, LessFirst
<1>12. q \in 1 .. Head(old).left - 1
  <2>1. Head(old).left = m.left - fill /\ q < m.left - fill /\ m.left - fill \in Int
    BY <1>2, <1>5, <1>6
  <2> QED BY <2>1
<1> QED BY <1>6, <1>10, <1>11, <1>12 DEF old, new

\* Or all of it.
LEMMA TakenNext ==
  ASSUME NEW makers \in Seq(Order), NEW gone \in 0 .. Len(makers), NEW fill \in Nat,
         gone < Len(makers), fill < makers[gone + 1].left
  PROVE  /\ Taken(makers, gone, fill) # <<>>
         /\ Taken(makers, gone + 1, 0) = Tail(Taken(makers, gone, fill))
<1> DEFINE old == Taken(makers, gone, fill)
           new == Taken(makers, gone + 1, 0)
<1>1. Len(makers) \in Nat /\ gone + 1 \in 0 .. Len(makers) /\ ~(0 > 0)
  BY LenProperties
<1>2. /\ old \in Seq(Order) /\ Len(old) = Len(makers) - gone
      /\ \A i \in 2 .. Len(makers) - gone : old[i] = makers[gone + i]
  BY TakenProperties
<1>3. new = DropFirst(makers, gone + 1)
  BY <1>1 DEF Taken
<1>4. /\ new \in Seq(Order) /\ Len(new) = Len(makers) - (gone + 1)
      /\ \A i \in 1 .. Len(makers) - (gone + 1) : new[i] = makers[(gone + 1) + i]
  BY <1>1, <1>3, DropFirstProperties
<1> HIDE DEF old, new
<1>5. old # <<>> /\ Len(old) > 0
  BY <1>1, <1>2, EmptySeq
<1>6. /\ Tail(old) \in Seq(Order) /\ Len(Tail(old)) = Len(old) - 1
      /\ \A i \in 1 .. Len(old) - 1 : Tail(old)[i] = old[i + 1]
  BY <1>2, <1>5, HeadTailProperties
<1>7. ASSUME NEW i \in 1 .. Len(new) PROVE new[i] = Tail(old)[i]
  <2>1. i \in 1 .. Len(makers) - (gone + 1) /\ i \in 1 .. Len(old) - 1
        /\ i + 1 \in 2 .. Len(makers) - gone /\ gone + (i + 1) = (gone + 1) + i
    BY <1>1, <1>2, <1>4
  <2> QED BY <1>2, <1>4, <1>6, <2>1
<1>8. Len(new) = Len(Tail(old))
  BY <1>1, <1>2, <1>4, <1>6
<1>9. new = Tail(old)
  BY <1>4, <1>6, <1>7, <1>8, SeqEqual
<1> QED BY <1>5, <1>9 DEF old, new

-----------------------------------------------------------------------------
(* The live book and the steps of the abstract one *)

\* A live book: the orders of the side at work, and the makers.
Live(side, own, makers) == [s \in Sides |-> IF s = side THEN own ELSE makers]
Own == Filed(Opposite(Side), limits[Side], insertedLimits, Len(insertedLimits))
Left == Taken(Makers, removed, lastFill)

LEMMA LiveRecord ==
  /\ phase \in Recording => LiveBook = Live(Side, Own, Left)
  /\ phase \notin Recording => LiveBook = limits
  /\ UpdatedMakers = Left
BY DEF LiveBook, Recording, Live, Own, Left, Taken, UpdatedMakers

LEMMA LiveProperties ==
  ASSUME NEW side \in Sides, NEW own, NEW makers, NEW b
  PROVE  /\ Live(side, own, makers)[side] = own
         /\ Live(side, own, makers)[Opposite(side)] = makers
         /\ [Live(side, own, makers) EXCEPT ![side] = b] = Live(side, b, makers)
         /\ [Live(side, own, makers) EXCEPT ![Opposite(side)] = b] = Live(side, own, b)
<1>1. Opposite(side) \in Sides /\ Opposite(side) # side
  BY DEF Opposite, Sides
<1>2. \A s \in Sides : s = side \/ s = Opposite(side)
  BY DEF Opposite, Sides
<1> QED BY <1>1, <1>2 DEF Live

\* The operators of the abstract book are those of the market.
LEMMA AbstractOperators ==
  /\ Abstract!Sides = Sides
  /\ \A s : Abstract!Opposite(s) = Opposite(s)
  /\ \A s, p, q : Abstract!Reached(s, p, q) <=> Reached(s, p, q)
  /\ \A s, b : Abstract!Sorted(s, b) <=> Sorted(s, b)
  /\ \A b, i : Abstract!Without(b, i) = Without(b, i)
BY DEF Abstract!Sides, Abstract!Opposite, Abstract!Reached, Abstract!Sorted, Abstract!Without,
       Sides, Opposite, Reached, Sorted, Without

\* A trade takes from the first maker that is left.
LEMMA MatchStep ==
  ASSUME NEW side \in Sides, NEW own, NEW makers, NEW left,
         TakingSide = side, TakingSide' = side, SavedBook' = SavedBook,
         LiveBook = Live(side, own, makers), LiveBook' = Live(side, own, left),
         makers # <<>>,
         \/ left = Tail(makers)
         \/ \E q \in 1 .. Head(makers).left - 1 : left = [makers EXCEPT ![1].left = @ - q]
  PROVE  Abstract!Match
<1> DEFINE maker == Opposite(side)
<1>1. LiveBook[maker] = makers /\ LiveBook' = [LiveBook EXCEPT ![maker] = left] /\ side # "none"
  BY LiveProperties DEF Sides
<1> HIDE DEF maker
<1>2. Abstract!Opposite(TakingSide) = maker
  BY AbstractOperators DEF maker
<1>3. CASE left = Tail(makers)
  <2>1. LiveBook' = [LiveBook EXCEPT ![maker] = Tail(@)]
    BY <1>1, <1>3
  <2> QED BY <1>1, <1>2, <2>1 DEF Abstract!Match
<1>4. ASSUME NEW q \in 1 .. Head(makers).left - 1, left = [makers EXCEPT ![1].left = @ - q]
      PROVE  Abstract!Match
  <2>1. LiveBook' = [LiveBook EXCEPT ![maker][1].left = @ - q]
    BY <1>1, <1>4
  <2> QED BY <1>1, <1>2, <2>1 DEF Abstract!Match
<1> QED BY <1>3, <1>4

\* An order comes to rest.
LEMMA RestStep ==
  ASSUME NEW side \in Sides, NEW own \in Seq(Order), NEW o \in Order, NEW makers,
         TakingSide = side, TakingSide' = side, SavedBook' = SavedBook,
         LiveBook = Live(side, own, makers),
         LiveBook' = Live(side, PushBack(Opposite(side), own, o), makers),
         Sorted(Opposite(side), own),
         makers # <<>> => ~Reached(side, makers[1].price, o.price)
  PROVE  Abstract!Rest
<1> DEFINE grown == PushBack(Opposite(side), own, o)
<1>1. PICK i \in 1 .. Len(grown) :
        /\ grown[i] = o /\ own = Without(grown, i)
        /\ i < Len(grown) => grown[i + 1].price # grown[i].price
  BY PushBackAdds
<1>2. Sorted(Opposite(side), grown)
  <2>1. \A x \in Order : x.price \in Int
    BY DEF Order
  <2> QED BY <2>1, PushBackSorted
<1>3. LiveBook' = Live(side, grown, makers)
  OBVIOUS
<1> HIDE DEF grown
<1>4. /\ LiveBook[side] = own /\ LiveBook[Opposite(side)] = makers /\ LiveBook'[side] = grown
      /\ LiveBook' = [LiveBook EXCEPT ![side] = grown] /\ side # "none"
  BY <1>3, LiveProperties DEF Sides
<1> QED BY <1>1, <1>2, <1>4, AbstractOperators DEF Abstract!Rest

-----------------------------------------------------------------------------
(* Refinement *)

\* The same after a step.
LEMMA LiveNext ==
  /\ phase' \in Recording => LiveBook' = Live(Side', Own', Left')
  /\ phase' \notin Recording => LiveBook' = limits'
  /\ UpdatedMakers' = Left'
<1>1. (/\ phase \in Recording => LiveBook = Live(Side, Own, Left)
       /\ phase \notin Recording => LiveBook = limits
       /\ UpdatedMakers = Left)'
  BY LiveRecord, PTL
<1>2. (Recording = Matching \cup {"insert"})' /\ Recording = Matching \cup {"insert"}
  BY DEF Recording
<1> QED BY <1>1 DEF Live, Recording, Matching

\* While a message is matched the books that were there when it came are the
\* committed ones.
LEMMA WhileMatching ==
  ASSUME IInv, phase \in Matching, phase' \in Matching, UNCHANGED <<limits, message>>
  PROVE  /\ Side \in Sides /\ TakingSide = Side /\ TakingSide' = Side /\ SavedBook' = SavedBook
         /\ LiveBook = Live(Side, Own, Left) /\ LiveBook' = Live(Side, Own', Left')
         /\ insertedLimits' = insertedLimits => Own' = Own
         /\ Left' = Taken(Makers, removed', lastFill')
<1>1. phase \in Recording /\ phase' \in Recording /\ Side' = Side /\ Makers' = Makers
  BY DEF Recording, Side, Makers
<1>2. phase # "insert" /\ phase' # "insert"
  BY DEF Matching
<1>3. Side \in Sides
  BY <1>1, RecordTypes
<1>4. TakingSide = Side /\ TakingSide' = Side /\ SavedBook' = SavedBook
  BY <1>1, <1>2 DEF TakingSide, SavedBook, Matching
<1>5. LiveBook = Live(Side, Own, Left) /\ LiveBook' = Live(Side, Own', Left')
  BY <1>1, LiveRecord, LiveNext
<1>6. insertedLimits' = insertedLimits => Own' = Own
  BY <1>1 DEF Own
<1>7. Left' = Taken(Makers, removed', lastFill')
  BY <1>1 DEF Left
<1> QED BY <1>3, <1>4, <1>5, <1>6, <1>7

\* A trade is a trade with the best maker.
LEMMA ConsumeMatches ==
  ASSUME IInv, ConsumePart \/ ConsumeWhole
  PROVE  Abstract!Match
<1>1. /\ phase \in Matching /\ phase' \in Matching /\ HasMaker /\ phase = "consume"
      /\ UNCHANGED <<limits, message, insertedLimits>>
  BY DEF ConsumePart, ConsumeWhole, HasMaker, Matching, marketVars, bookVars
<1>2. /\ Side \in Sides /\ TakingSide = Side /\ TakingSide' = Side /\ SavedBook' = SavedBook
      /\ LiveBook = Live(Side, Own, Left) /\ LiveBook' = Live(Side, Own, Left')
      /\ Left' = Taken(Makers, removed', lastFill')
  BY <1>1, WhileMatching
<1>3. /\ Makers \in Seq(Order) /\ removed \in 0 .. Len(Makers) /\ lastFill \in Nat
      /\ taker.left \in Nat /\ Len(Makers) \in Nat /\ taker.left > 0
  BY <1>1, RecordTypes, LenProperties DEF Recording, IInv, SimulatorInBounds
<1>4. removed < Len(Makers) /\ lastFill < Makers[removed + 1].left /\ Maker.left \in Nat
  <2>1. removed < Len(Makers) /\ Maker \in Order /\ MakerLeft \in Nat \ {0}
    BY <1>1, MakerType DEF HasMaker
  <2>2. Maker.left \in Nat
    BY <2>1 DEF Order
  <2> QED BY <1>3, <2>1, <2>2 DEF MakerLeft, Maker
<1>5. CASE ConsumePart
  <2>1. /\ removed' = removed /\ lastFill' = lastFill + taker.left
        /\ lastFill + taker.left < Makers[removed + 1].left
    BY <1>3, <1>4, <1>5 DEF ConsumePart, MakerLeft, Maker
  <2>2. taker.left \in Nat \ {0}
    BY <1>3
  <2> DEFINE q == taker.left
  <2>3. q \in Nat \ {0} /\ lastFill + q < Makers[removed + 1].left
    BY <2>1, <2>2
  <2>4. Left' = Taken(Makers, removed, lastFill + q) /\ Left = Taken(Makers, removed, lastFill)
    BY <1>2, <2>1 DEF Left
  <2> HIDE DEF q
  <2>5. /\ Taken(Makers, removed, lastFill) # <<>>
        /\ q \in 1 .. Head(Taken(Makers, removed, lastFill)).left - 1
        /\ Taken(Makers, removed, lastFill + q)
             = LessFirst(Taken(Makers, removed, lastFill), q)
    BY <1>3, <1>4, <2>3, TakenMore
  <2>6. Left # <<>> /\ q \in 1 .. Head(Left).left - 1 /\ Left' = [Left EXCEPT ![1].left = @ - q]
    BY <2>4, <2>5 DEF LessFirst
  <2> QED BY <1>2, <2>6, MatchStep
<1>6. CASE ConsumeWhole
  <2>1. removed' = removed + 1 /\ lastFill' = 0
    BY <1>6 DEF ConsumeWhole
  <2>2. Left # <<>> /\ Left' = Tail(Left)
    BY <1>2, <1>3, <1>4, <2>1, TakenNext DEF Left
  <2> QED BY <1>2, <2>2, MatchStep
<1> QED BY <1>5, <1>6

\* What is left of a limit order comes to rest where it crosses nothing.
LEMMA RestLimitOrderRests ==
  ASSUME IInv, BookInv, RestLimitOrder
  PROVE  Abstract!Rest
<1>1. /\ phase = "consume" /\ phase \in Matching /\ phase' \in Matching
      /\ ~HasMaker /\ taker.kind = "limit"
      /\ UNCHANGED <<limits, message, removed, lastFill>>
  BY DEF RestLimitOrder, Matching, marketVars, bookVars
<1>2. /\ Side \in Sides /\ TakingSide = Side /\ TakingSide' = Side /\ SavedBook' = SavedBook
      /\ LiveBook = Live(Side, Own, Left) /\ LiveBook' = Live(Side, Own', Left)
  <2>1. Left' = Left
    BY <1>1, WhileMatching DEF Left
  <2> QED BY <1>1, <2>1, WhileMatching
<1>3. /\ Makers \in Seq(Order) /\ removed \in 0 .. Len(Makers) /\ lastFill \in Nat
      /\ insertedLimits \in Seq(Order) /\ Len(insertedLimits) \in Nat /\ Len(Makers) \in Nat
      /\ lastFill > 0 => removed < Len(Makers) /\ lastFill < Makers[removed + 1].left
      /\ taker \in Taker /\ taker.left > 0
  BY <1>1, RecordTypes, LenProperties DEF Recording, IInv, SimulatorInBounds, Maker
<1>4. Opposite(Side) \in Sides /\ limits[Side] \in Seq(Order) /\ Sorted(Opposite(Side), limits[Side])
  BY <1>2, LimitsType DEF BookInv, LimitsSorted, Opposite, Sides
<1> DEFINE rest == [id |-> taker.id, user |-> taker.user, price |-> taker.price,
                    actual |-> 0, left |-> taker.left]
           n == Len(insertedLimits)
<1>5. insertedLimits' = Append(insertedLimits, rest) /\ rest.price = taker.price
  BY DEF RestLimitOrder
<1>6. rest \in Order
  BY <1>3 DEF Taker, Order
<1> HIDE DEF rest
<1>7. /\ Len(insertedLimits') = n + 1 /\ insertedLimits'[n + 1] = rest
      /\ \A i \in 1 .. n : insertedLimits'[i] = insertedLimits[i]
  BY <1>3, <1>5, <1>6, AppendProperties
<1>8. Own \in Seq(Order) /\ Sorted(Opposite(Side), Own)
  BY <1>3, <1>4, FiledType DEF Own
<1>9. Own' = PushBack(Opposite(Side), Own, rest)
  <2>1. Own' = Filed(Opposite(Side), limits[Side], insertedLimits', n + 1)
    BY <1>1, <1>7 DEF Own, Side
  <2>2. Filed(Opposite(Side), limits[Side], insertedLimits', n + 1)
          = PushBack(Opposite(Side), Filed(Opposite(Side), limits[Side], insertedLimits', n),
                     insertedLimits'[n + 1])
    BY <1>3, FiledNext
  <2>3. Filed(Opposite(Side), limits[Side], insertedLimits', n) = Own
    BY <1>3, <1>7, FiledSame DEF Own
  <2> QED BY <1>7, <2>1, <2>2, <2>3
<1>10. ASSUME Left # <<>> PROVE ~Reached(Side, Left[1].price, rest.price)
  <2>1. Left \in Seq(Order) /\ Len(Left) = Len(Makers) - removed
    BY <1>3, TakenProperties DEF Left
  <2>2. removed < Len(Makers)
    BY <1>3, <1>10, <2>1, EmptySeq
  <2>3. Left[1].price = Makers[removed + 1].price
    BY <1>3, <2>2, TakenProperties DEF Left
  <2> QED BY <1>1, <1>5, <2>2, <2>3 DEF HasMaker, Consumable
<1> QED BY <1>2, <1>6, <1>8, <1>9, <1>10, RestStep

\* A new message finds the record empty: the live book is the committed one.
LEMMA AcceptOrderBegins ==
  ASSUME IInv, NEW m \in Orders, AcceptOrder(m)
  PROVE  Abstract!Begin
<1>1. /\ phase = "idle" /\ phase' \in {"stop", "consume"} /\ message' = m
      /\ UNCHANGED <<limits, removed, lastFill, insertedLimits>>
  BY DEF AcceptOrder, Receivable, marketVars, bookVars, simVars
<1>2. removed = 0 /\ lastFill = 0 /\ insertedLimits = <<>>
  BY <1>1 DEF IInv, ClearedWhenIdle
<1>3. m.side \in Sides /\ Side' = m.side
  BY <1>1, OrdersAssumption DEF OrderMessage, Side
<1>4. /\ Opposite(m.side) \in Sides /\ Opposite(m.side) # m.side
      /\ \A s \in Sides : s = m.side \/ s = Opposite(m.side)
      /\ limits \in [Sides -> Seq(Order)]
  BY <1>3, LimitsType DEF Opposite, Sides
<1>5. LiveBook = limits /\ SavedBook = limits /\ TakingSide = "none"
  BY <1>1 DEF LiveBook, SavedBook, TakingSide, Matching
<1>6. TakingSide' = m.side /\ SavedBook' = limits
  BY <1>1, <1>3 DEF TakingSide, SavedBook, Matching
<1>7. LiveBook' = limits
  <2>1. LiveBook' = Live(m.side, Own', Left')
    BY <1>1, <1>3, LiveNext DEF Recording, Matching
  <2>2. Own' = limits[m.side]
    <3>1. Own' = Filed(Opposite(m.side), limits[m.side], <<>>, Len(<<>>))
      BY <1>1, <1>2, <1>3 DEF Own
    <3>2. Len(<<>>) = 0
      OBVIOUS
    <3> QED BY <3>1, <3>2, FiledNone
  <2>3. Left' = limits[Opposite(m.side)]
    <3>1. Left' = Taken(limits[Opposite(m.side)], 0, 0)
      BY <1>1, <1>2, <1>3 DEF Left, Makers, Side
    <3>2. limits[Opposite(m.side)] \in Seq(Order)
      BY <1>4
    <3>3. DropFirst(limits[Opposite(m.side)], 0) = limits[Opposite(m.side)]
      BY <3>2 DEF DropFirst
    <3> QED BY <3>1, <3>3 DEF Taken
  <2> QED BY <1>4, <2>1, <2>2, <2>3 DEF Live
<1> QED BY <1>3, <1>5, <1>6, <1>7, AbstractOperators DEF Abstract!Begin

\* Steps of the matching that neither trade nor come to rest.
LEMMA MatchingStutters ==
  ASSUME IInv, PlaceStopLimit \/ KickOffStopOrders \/ NoTradeNoKick \/ ProcessStopOrder
  PROVE  UNCHANGED <<LiveBook, SavedBook, TakingSide>>
<1>1. /\ phase \in Matching /\ phase' \in Matching
      /\ UNCHANGED <<limits, message, removed, lastFill, insertedLimits>>
  BY DEF PlaceStopLimit, KickOffStopOrders, NoTradeNoKick, ProcessStopOrder, Matching,
         marketVars, bookVars, simVars, callVars
<1>2. Left' = Left
  BY <1>1, WhileMatching DEF Left
<1> QED BY <1>1, <1>2, WhileMatching

\* A message that fails leaves the book it found.
LEMMA ThrowRollsBack ==
  ASSUME IInv, phase \in Matching, phase' = "idle", UNCHANGED limits
  PROVE  Abstract!Rollback
<1>1. TakingSide # "none"
  <2>1. Side \in Sides
    BY RecordTypes DEF Recording
  <2> QED BY <2>1 DEF TakingSide, Sides
<1>2. SavedBook = limits /\ SavedBook' = limits /\ LiveBook' = limits /\ TakingSide' = "none"
  BY DEF SavedBook, LiveBook, TakingSide, Matching
<1> QED BY <1>1, <1>2 DEF Abstract!Rollback

\* PostProcess decides that the record is carried out.
LEMMA PostProcessCommits ==
  ASSUME IInv, PostProcess
  PROVE  Abstract!Commit
<1>1. /\ phase = "next" /\ phase' = "insert"
      /\ UNCHANGED <<limits, message, removed, lastFill, insertedLimits>>
  BY DEF PostProcess, simVars, callVars
<1>2. phase \in Recording /\ phase' \in Recording /\ Side' = Side /\ Makers' = Makers
  BY <1>1 DEF Recording, Matching, Side, Makers
<1>3. Own' = Own /\ Left' = Left
  BY <1>1, <1>2 DEF Own, Left
<1>4. LiveBook' = LiveBook /\ SavedBook' = LiveBook'
  BY <1>1, <1>2, <1>3, LiveRecord, LiveNext DEF SavedBook
<1>5. TakingSide # "none" /\ TakingSide' = "none"
  <2>1. Side \in Sides
    BY <1>2, RecordTypes
  <2> QED BY <1>1, <2>1 DEF TakingSide, Matching, Sides
<1> QED BY <1>4, <1>5 DEF Abstract!Commit

\* Carrying it out, one order after the other, does not change the live book.
LEMMA InsertLimitOrderStutters ==
  ASSUME IInv, InsertLimitOrder
  PROVE  UNCHANGED <<LiveBook, SavedBook, TakingSide>>
<1>1. /\ phase = "insert" /\ phase' = "insert" /\ phase \in Recording
      /\ insertedLimits # <<>> /\ insertedLimits' = Tail(insertedLimits)
      /\ UNCHANGED <<message, removed, lastFill>>
  BY DEF InsertLimitOrder, callVars, Recording
<1>2. /\ Side \in Sides /\ Opposite(Side) \in Sides /\ Opposite(Side) # Side /\ Side' = Side
      /\ insertedLimits \in Seq(Order) /\ limits \in [Sides -> Seq(Order)]
  BY <1>1, RecordTypes, LimitsType DEF Opposite, Sides, Side
<1> DEFINE o == insertedLimits[1]
           filed == PushBack(Opposite(Side), limits[Side], o)
           n == Len(insertedLimits) - 1
<1>3. limits' = [limits EXCEPT ![Side] = filed]
  <2>1. Head(insertedLimits) = o
    BY <1>1, <1>2, HeadTailProperties
  <2> QED BY <2>1 DEF InsertLimitOrder
<1> HIDE DEF filed
<1>4. limits'[Side] = filed /\ Makers' = Makers
  BY <1>2, <1>3 DEF Makers
<1>5. /\ n \in Nat /\ Len(insertedLimits') = n /\ Len(insertedLimits) = n + 1
      /\ \A i \in 1 .. n : insertedLimits'[i] = insertedLimits[i + 1]
  BY <1>1, <1>2, HeadTailProperties, LenProperties, EmptySeq
<1>6. Own' = Own
  <2> HIDE DEF n
  <2>1. Own' = Filed(Opposite(Side), filed, insertedLimits', n)
    BY <1>2, <1>4, <1>5 DEF Own
  <2>2. Own = Filed(Opposite(Side), limits[Side], insertedLimits, n + 1)
    BY <1>5 DEF Own
  <2>3. Filed(Opposite(Side), PushBack(Opposite(Side), limits[Side], insertedLimits[1]),
              insertedLimits', n)
          = Filed(Opposite(Side), limits[Side], insertedLimits, n + 1)
    BY <1>5, FiledFirst
  <2> QED BY <2>1, <2>2, <2>3 DEF filed
<1>7. Left' = Left
  BY <1>1, <1>4 DEF Left
<1>8. LiveBook' = LiveBook
  BY <1>1, <1>2, <1>6, <1>7, LiveRecord, LiveNext DEF Recording
<1> QED BY <1>1, <1>8 DEF SavedBook, TakingSide, Matching

\* Nor do the makers that leave then.
LEMMA UpdateBooksStutters ==
  ASSUME IInv, UpdateBooks
  PROVE  UNCHANGED <<LiveBook, SavedBook, TakingSide>>
<1>1. /\ phase = "insert" /\ phase' = "settle" /\ phase \in Recording /\ phase' \notin Recording
      /\ insertedLimits = <<>> /\ limits' = [limits EXCEPT ![Opposite(Side)] = Left]
  BY LiveRecord DEF UpdateBooks, Recording, Matching
<1>2. Side \in Sides /\ limits \in [Sides -> Seq(Order)]
  BY <1>1, RecordTypes, LimitsType
<1>3. Own = limits[Side]
  <2>1. Len(<<>>) = 0
    OBVIOUS
  <2> QED BY <1>1, <2>1, FiledNone DEF Own
<1>4. limits = Live(Side, limits[Side], limits[Opposite(Side)])
  BY <1>2 DEF Live, Opposite, Sides
<1>5. limits' = Live(Side, limits[Side], Left)
  BY <1>1, <1>2, <1>4, LiveProperties
<1>6. LiveBook' = LiveBook
  BY <1>1, <1>3, <1>5, LiveRecord, LiveNext
<1> QED BY <1>1, <1>6 DEF SavedBook, TakingSide, Matching, LiveBook

\* Between messages the live book is the committed one.
LEMMA OutsideMessages ==
  ASSUME phase \notin Recording, phase' \notin Recording
  PROVE  /\ LiveBook = limits /\ SavedBook = limits /\ TakingSide = "none"
         /\ LiveBook' = limits' /\ SavedBook' = limits' /\ TakingSide' = "none"
BY DEF LiveBook, SavedBook, TakingSide, Recording, Matching

\* Orders are cancelled between messages.
LEMMA RemoveFromBookCancels ==
  ASSUME NEW kind \in {"limit", "stop"}, NEW side \in Sides,
         NEW i \in 1 .. Len(Book(kind, side)), RemoveFromBook(kind, side, i),
         phase \notin Recording, phase' \notin Recording
  PROVE  Abstract!Cancel \/ UNCHANGED <<LiveBook, SavedBook, TakingSide>>
<1>1. /\ LiveBook = limits /\ SavedBook = limits /\ TakingSide = "none"
      /\ LiveBook' = limits' /\ SavedBook' = limits' /\ TakingSide' = "none"
  BY OutsideMessages
<1>2. CASE kind = "limit"
  <2>1. limits' = [limits EXCEPT ![side] = Without(@, i)] /\ i \in 1 .. Len(limits[side])
    BY <1>2 DEF RemoveFromBook, Book
  <2> QED BY <1>1, <2>1, AbstractOperators DEF Abstract!Cancel
<1>3. CASE kind # "limit"
  BY <1>1, <1>3 DEF RemoveFromBook
<1> QED BY <1>2, <1>3

\* Every step of the market is a step of the abstract book, or none.
LEMMA RefinementStep ==
  ASSUME IInv, BookInv, [Next]_vars
  PROVE  [Abstract!Next]_<<LiveBook, SavedBook, TakingSide>>
<1> USE DEF marketVars, bookVars, simVars, callVars
<1>1. CASE UNCHANGED vars
  <2>1. /\ UNCHANGED <<limits, message, phase, removed, lastFill, insertedLimits>>
    BY <1>1 DEF vars
  <2> QED BY <2>1 DEF LiveBook, SavedBook, TakingSide, Side, UpdatedMakers, Makers
<1>2. CASE ConsumePart \/ ConsumeWhole
  BY <1>2, ConsumeMatches DEF Abstract!Next
<1>3. CASE RestLimitOrder
  BY <1>3, RestLimitOrderRests DEF Abstract!Next
<1>4. CASE PlaceStopLimit \/ KickOffStopOrders \/ NoTradeNoKick \/ ProcessStopOrder
  BY <1>4, MatchingStutters
<1>5. CASE ConsumeOwn \/ MarketOrderUnfilled \/ LimitOrderRefused \/ StopLimitRefused
  <2>1. phase \in Matching /\ phase' = "idle" /\ UNCHANGED limits
    BY <1>5 DEF ConsumeOwn, HasMaker, MarketOrderUnfilled, LimitOrderRefused, StopLimitRefused,
                Throw, Return, Matching
  <2> QED BY <2>1, ThrowRollsBack DEF Abstract!Next
<1>6. CASE PostProcess
  BY <1>6, PostProcessCommits DEF Abstract!Next
<1>7. CASE InsertLimitOrder
  BY <1>7, InsertLimitOrderStutters
<1>8. CASE UpdateBooks
  BY <1>8, UpdateBooksStutters
<1>9. ASSUME NEW m \in Orders, AcceptOrder(m) PROVE Abstract!Begin
  BY <1>9, AcceptOrderBegins
<1>10. CASE \/ SettleTrade \/ AnswerOrder \/ CancelledAll \/ \E e \in toCancel : CancelStale(e)
            \/ \E m \in Orders : RejectOrder(m)
            \/ CancelUnknownOrder
            \/ \E user \in Users : ClearOpenOrders(user)
            \/ SetFeePercentage \/ SetMaxNumLimitOpenOrders \/ SetMaxNumStopLimitOpenOrders
  <2>1. phase \notin Recording /\ phase' \notin Recording /\ UNCHANGED limits
    BY <1>10 DEF SettleTrade, AnswerOrder, CancelledAll, CancelStale, Return, Recording, Matching,
                 RejectOrder, Receivable, CancelUnknownOrder, ClearOpenOrders, SetConfig,
                 SetFeePercentage, SetMaxNumLimitOpenOrders, SetMaxNumStopLimitOpenOrders
  <2> QED BY <2>1, OutsideMessages
<1>11. ASSUME NEW e \in toCancel, CancelNext(e)
       PROVE  Abstract!Cancel \/ UNCHANGED <<LiveBook, SavedBook, TakingSide>>
  <2>1. phase \notin Recording /\ phase' \notin Recording
    BY <1>11 DEF CancelNext, Recording, Matching
  <2>2. e.kind \in {"limit", "stop"} /\ e.side \in Sides
    BY DEF IInv, TypeOK, CallTypeOK, CacheEntry
  <2>3. PICK i \in 1 .. Len(Book(e.kind, e.side)) : RemoveFromBook(e.kind, e.side, i)
    BY <1>11 DEF CancelNext
  <2> QED BY <2>1, <2>2, <2>3, RemoveFromBookCancels
<1>12. ASSUME NEW kind \in {"limit", "stop"}, NEW side \in Sides,
              NEW i \in 1 .. Len(Book(kind, side)), CancelOrder(kind, side, i)
       PROVE  Abstract!Cancel \/ UNCHANGED <<LiveBook, SavedBook, TakingSide>>
  <2>1. RemoveFromBook(kind, side, i) /\ phase \notin Recording /\ phase' \notin Recording
    BY <1>12 DEF CancelOrder, Recording, Matching
  <2> QED BY <2>1, RemoveFromBookCancels
<1>13. CASE ClearEveryonesOpenOrders
  <2>1. /\ phase \notin Recording /\ phase' \notin Recording
        /\ limits' = [s \in Sides |-> <<>>]
    BY <1>13 DEF ClearEveryonesOpenOrders, Recording, Matching
  <2>2. Abstract!Cancel
    BY <2>1, OutsideMessages, AbstractOperators DEF Abstract!Cancel
  <2> QED BY <2>2 DEF Abstract!Next
<1>14. Abstract!Begin \/ Abstract!Cancel => Abstract!Next
  BY DEF Abstract!Next
<1>15. CASE Processing
  BY <1>2, <1>3, <1>4, <1>5, <1>6, <1>7, <1>8, <1>10, <1>11, <1>14, <1>15 DEF Processing
<1>16. CASE Receive
  BY <1>9, <1>10, <1>12, <1>13, <1>14, <1>16 DEF Receive
<1> QED BY <1>1, <1>15, <1>16 DEF Next

\* The stages a message goes through, put together, are a matching engine: every
\* trade is with the best order of the other side, an order comes to rest behind
\* those of its price, and a message is done completely or not at all.
THEOREM MarketIsMatchingBook == Spec => RefinesMatchingBook
<1>1. Init => Abstract!Init
  <2> SUFFICES ASSUME Init PROVE Abstract!Init
    OBVIOUS
  <2>1. LiveBook = limits /\ SavedBook = limits /\ TakingSide = "none"
    BY DEF Init, LiveBook, SavedBook, TakingSide, Matching
  <2> QED BY <2>1, AbstractOperators DEF Init, Abstract!Init
<1>2. IInv /\ BookInv /\ [Next]_vars => [Abstract!Next]_<<LiveBook, SavedBook, TakingSide>>
  BY RefinementStep
<1> QED BY <1>1, <1>2, Invariance, BookInvariance, PTL
        DEF Spec, RefinesMatchingBook, Abstract!Spec, Abstract!bookVars

-----------------------------------------------------------------------------
(* Whose orders are cancelled *)

\* Whom an order or an entry of the cache belongs to.
Owner(o) == <<o.id, o.user>>
OwnersIn(orders) == {Owner(orders[i]) : i \in 1 .. Len(orders)}

CachedOwners == {Owner(e) : e \in userOrders}
TakerOwner   == IF phase \in {"consume", "stop"} THEN {Owner(taker)} ELSE {}
Owners ==
  CachedOwners \cup OwnersIn(insertedLimits) \cup OwnersIn(insertedStop) \cup OwnersIn(Waiting)
    \cup TakerOwner

\* An entry may outlive its order, but its id is never given to another user: so
\* an order that is found by the id of an entry is the user's own.
OneOwner == \A p, q \in Owners : p[1] = q[1] => p[2] = q[2]
OwnersGiven ==
  /\ \A p \in CachedOwners : p[1] \in 0 .. currentOrderId - 1
  /\ \A p \in Owners : p[1] \in 0 .. NextId - 1
Unanswered == phase = "cancel" => reply # "ok"

OwnerInv == OneOwner /\ OwnersGiven /\ Unanswered

\* The owners of orders that were put together, and of those left of some.
LEMMA OwnersOfAppend ==
  ASSUME NEW orders \in Seq(Order), NEW o \in Order
  PROVE  OwnersIn(Append(orders, o)) \subseteq OwnersIn(orders) \cup {Owner(o)}
<1> DEFINE all == Append(orders, o)
<1>1. /\ Len(all) = Len(orders) + 1 /\ Len(orders) \in Nat
      /\ \A i \in 1 .. Len(orders) : all[i] = orders[i]
      /\ all[Len(orders) + 1] = o
  BY AppendProperties, LenProperties
<1> HIDE DEF all
<1>2. ASSUME NEW i \in 1 .. Len(all) PROVE Owner(all[i]) \in OwnersIn(orders) \cup {Owner(o)}
  <2>1. i \in 1 .. Len(orders) \/ i = Len(orders) + 1
    BY <1>1
  <2> QED BY <1>1, <2>1 DEF OwnersIn
<1>3. OwnersIn(all) \subseteq OwnersIn(orders) \cup {Owner(o)}
  BY <1>2 DEF OwnersIn
<1> QED BY <1>3 DEF all

LEMMA OwnersOfConcat ==
  ASSUME NEW first \in Seq(Order), NEW second \in Seq(Order)
  PROVE  OwnersIn(first \o second) \subseteq OwnersIn(first) \cup OwnersIn(second)
<1> DEFINE all == first \o second
<1>1. /\ Len(all) = Len(first) + Len(second) /\ Len(first) \in Nat /\ Len(second) \in Nat
      /\ \A i \in 1 .. Len(first) + Len(second) :
           all[i] = IF i <= Len(first) THEN first[i] ELSE second[i - Len(first)]
  BY ConcatProperties, LenProperties
<1> HIDE DEF all
<1>2. ASSUME NEW i \in 1 .. Len(all) PROVE Owner(all[i]) \in OwnersIn(first) \cup OwnersIn(second)
  <2>1. CASE i <= Len(first)
    <3>1. i \in 1 .. Len(first) /\ all[i] = first[i]
      BY <1>1, <2>1
    <3> QED BY <3>1 DEF OwnersIn
  <2>2. CASE i > Len(first)
    <3>1. i - Len(first) \in 1 .. Len(second) /\ all[i] = second[i - Len(first)]
      BY <1>1, <2>2
    <3> QED BY <3>1 DEF OwnersIn
  <2> QED BY <1>1, <2>1, <2>2
<1>3. OwnersIn(all) \subseteq OwnersIn(first) \cup OwnersIn(second)
  BY <1>2 DEF OwnersIn
<1> QED BY <1>3 DEF all

LEMMA OwnersOfTail ==
  ASSUME NEW orders \in Seq(Order), orders # <<>>
  PROVE  OwnersIn(Tail(orders)) \subseteq OwnersIn(orders) /\ Owner(Head(orders)) \in OwnersIn(orders)
<1> DEFINE rest == Tail(orders)
<1>1. /\ Len(rest) = Len(orders) - 1 /\ Len(orders) \in Nat
      /\ \A i \in 1 .. Len(rest) : rest[i] = orders[i + 1]
  BY HeadTailProperties, LenProperties
<1> HIDE DEF rest
<1>2. ASSUME NEW i \in 1 .. Len(rest) PROVE Owner(rest[i]) \in OwnersIn(orders)
  <2>1. i + 1 \in 1 .. Len(orders) /\ rest[i] = orders[i + 1]
    BY <1>1
  <2> QED BY <2>1 DEF OwnersIn
<1>3. 1 \in 1 .. Len(orders) /\ Head(orders) = orders[1]
  BY EmptySeq, LenProperties
<1>4. OwnersIn(rest) \subseteq OwnersIn(orders)
  BY <1>2 DEF OwnersIn
<1> QED BY <1>3, <1>4 DEF OwnersIn, rest

\* The orders of a book belong to those the cache says they do.
LEMMA OwnersInBooks ==
  ASSUME IInv, CacheInv, NEW kind \in {"limit", "stop"}, NEW side \in Sides
  PROVE  OwnersIn(Book(kind, side)) \subseteq CachedOwners
<1> DEFINE book == Book(kind, side)
<1>1. book \in Seq(Order)
  BY PlaceTypes DEF Book
<1>2. ASSUME NEW i \in 1 .. Len(book) PROVE Owner(book[i]) \in CachedOwners
  <2>1. Entry(kind, side, book[i]) \in userOrders
    <3>1. Entry(kind, side, book[i]) \in InBook(kind, side)
      BY <1>1, <1>2, LenProperties DEF InBook
    <3> QED BY <3>1 DEF CacheInv, Covered
  <2>2. Owner(Entry(kind, side, book[i])) = Owner(book[i])
    BY EntryFields DEF Owner
  <2> QED BY <2>1, <2>2 DEF CachedOwners
<1> QED BY <1>2 DEF OwnersIn

\* Who owns what goes on as before, but for what is forgotten.
LEMMA OwnersKept ==
  ASSUME IInv, IInv', OwnerInv, Owners' \subseteq Owners, Unanswered',
         currentOrderId' >= currentOrderId,
         CachedOwners' \subseteq CachedOwners \/ NextId <= currentOrderId',
         NextId' >= NextId \/ (Owners' \subseteq CachedOwners /\ NextId' >= currentOrderId)
  PROVE  OwnerInv'
<1>1. /\ currentOrderId \in Nat /\ currentOrderId' \in Nat /\ NextId \in Nat
  BY PlaceTypes DEF IInv, TypeOK, MarketTypeOK
<1>2. NextId' \in Nat
  <2>1. NextId' = currentOrderId' + 1 \/ NextId' = currentOrderId'
    BY DEF NextId, Matching
  <2> QED BY <1>1, <2>1
<1>3. OneOwner'
  BY DEF OwnerInv, OneOwner
<1>4. CachedOwners' \subseteq Owners'
  BY DEF Owners
<1>5. ASSUME NEW p \in CachedOwners' PROVE p[1] \in 0 .. currentOrderId' - 1
  <2>1. p \in CachedOwners => p[1] \in 0 .. currentOrderId - 1
    BY DEF OwnerInv, OwnersGiven
  <2>2. p[1] \in 0 .. NextId - 1
    BY <1>4, <1>5 DEF OwnerInv, OwnersGiven
  <2> QED BY <1>1, <1>5, <2>1, <2>2
<1>6. ASSUME NEW p \in Owners' PROVE p[1] \in 0 .. NextId' - 1
  <2>1. p \in CachedOwners => p[1] \in 0 .. currentOrderId - 1
    BY DEF OwnerInv, OwnersGiven
  <2>2. p[1] \in 0 .. NextId - 1
    BY <1>6 DEF OwnerInv, OwnersGiven
  <2> QED BY <1>1, <1>2, <1>6, <2>1, <2>2
<1> QED BY <1>3, <1>5, <1>6 DEF OwnerInv, OwnersGiven

\* An exception forgets the record, and the answer has none.
LEMMA ThrowOwners ==
  ASSUME IInv, IInv', OwnerInv, phase # "cancel", phase' = "idle",
         UNCHANGED <<userOrders, currentOrderId>>, phase \in Matching \/ phase = "settle",
         insertedLimits' = <<>>, insertedStop' = <<>>, pending' = <<>>
  PROVE  OwnerInv'
<1>1. OwnersIn(<<>>) = {}
  BY DEF OwnersIn
<1>2. Waiting' = <<>>
  BY DEF Waiting
<1>3. CachedOwners' = CachedOwners /\ TakerOwner' = {}
  BY DEF CachedOwners, TakerOwner
<1>4. Owners' = CachedOwners
  BY <1>1, <1>2, <1>3 DEF Owners, OwnersIn
<1>5. NextId' = currentOrderId
  BY DEF NextId, Matching
<1>6. currentOrderId \in Nat
  BY PlaceTypes
<1>7. Unanswered'
  BY DEF Unanswered
<1> QED BY <1>3, <1>4, <1>5, <1>6, <1>7, OwnersKept DEF Owners

\* A step within the matching of an order: the cache and the ids stay.
LEMMA MatchingOwners ==
  ASSUME IInv, IInv', OwnerInv, phase \in Matching, phase' \in Matching,
         UNCHANGED <<userOrders, currentOrderId>>,
         OwnersIn(insertedLimits') \subseteq Owners, OwnersIn(insertedStop') \subseteq Owners,
         OwnersIn(Waiting') \subseteq Owners, TakerOwner' \subseteq Owners
  PROVE  OwnerInv'
<1>1. CachedOwners' = CachedOwners /\ CachedOwners \subseteq Owners
  BY DEF CachedOwners, Owners
<1>2. Owners' \subseteq Owners
  BY <1>1 DEF Owners, OwnersIn, Owner
<1>3. NextId' = NextId /\ NextId \in Nat /\ currentOrderId \in Nat
  BY PlaceTypes DEF NextId
<1>4. Unanswered'
  BY DEF Unanswered, Matching
<1> QED BY <1>1, <1>2, <1>3, <1>4, OwnersKept

\* Trades, the remainder that rests, a stop order that is placed, triggered or
\* processed: orders move, and stay whose they are.
LEMMA MatchingStepOwners ==
  ASSUME IInv, IInv', CacheInv, OwnerInv,
         \/ ConsumePart \/ ConsumeWhole \/ RestLimitOrder \/ PlaceStopLimit
         \/ KickOffStopOrders \/ NoTradeNoKick \/ ProcessStopOrder
  PROVE  OwnerInv'
<1>1. phase \in Matching /\ phase \in Recording /\ phase' \in Matching
      /\ UNCHANGED <<userOrders, currentOrderId>>
  BY DEF ConsumePart, ConsumeWhole, HasMaker, RestLimitOrder, PlaceStopLimit, KickOffStopOrders,
         NoTradeNoKick, ProcessStopOrder, Matching, Recording, marketVars, cacheVars, idVars
<1>2. /\ OwnersIn(insertedLimits) \subseteq Owners /\ OwnersIn(insertedStop) \subseteq Owners
      /\ OwnersIn(Waiting) \subseteq Owners /\ TakerOwner \subseteq Owners
      /\ CachedOwners \subseteq Owners
  BY DEF Owners
<1>3. Waiting \in Seq(Order) /\ insertedLimits \in Seq(Order)
  BY PlaceTypes
<1>4. CASE ConsumePart \/ ConsumeWhole
  <2>1. /\ phase = "consume" /\ taker'.id = taker.id /\ taker'.user = taker.user
        /\ UNCHANGED <<insertedLimits, insertedStop, pending>>
    <3>1. taker \in Taker
      BY <1>1, RecordTypes
    <3> QED BY <1>4, <3>1 DEF ConsumePart, ConsumeWhole, HasMaker, Taker
  <2>2. TakerOwner' \subseteq TakerOwner /\ Waiting' = Waiting
    BY <2>1 DEF TakerOwner, Owner, Waiting
  <2> QED BY <1>1, <1>2, <2>1, <2>2, MatchingOwners
<1>5. CASE RestLimitOrder
  <2> DEFINE o == [id |-> taker.id, user |-> taker.user, price |-> taker.price,
                   actual |-> 0, left |-> taker.left]
  <2>1. /\ phase = "consume" /\ phase' = "kick" /\ insertedLimits' = Append(insertedLimits, o)
        /\ UNCHANGED <<insertedStop, pending>>
    BY <1>5 DEF RestLimitOrder
  <2>2. o \in Order
    <3>1. taker \in Taker /\ taker.left \in Nat \ {0}
      BY <2>1, <1>1, RecordTypes DEF IInv, SimulatorInBounds, TypeOK, CallTypeOK, OrderPhases, Matching
    <3> QED BY <3>1 DEF Taker, Order
  <2>3. Owner(o) \in TakerOwner
    BY <2>1 DEF TakerOwner, Owner
  <2> HIDE DEF o
  <2>4. OwnersIn(insertedLimits') \subseteq Owners
    BY <1>2, <1>3, <2>1, <2>2, <2>3, OwnersOfAppend
  <2>5. TakerOwner' = {} /\ Waiting' = Waiting
    BY <2>1 DEF TakerOwner, Waiting
  <2> QED BY <1>1, <1>2, <2>1, <2>4, <2>5, MatchingOwners
<1>6. CASE PlaceStopLimit
  <2> DEFINE o == [id |-> taker.id, user |-> taker.user, price |-> taker.price,
                   actual |-> taker.actual, left |-> taker.left]
  <2>1. /\ phase = "stop" /\ phase' = "next" /\ insertedStop' = <<o>>
        /\ UNCHANGED <<insertedLimits, pending>>
    BY <1>6 DEF PlaceStopLimit
  <2>2. Owner(o) \in TakerOwner
    BY <2>1 DEF TakerOwner, Owner
  <2> HIDE DEF o
  <2>3. OwnersIn(insertedStop') \subseteq Owners
    <3>1. OwnersIn(<<o>>) \subseteq {Owner(o)}
      BY DEF OwnersIn
    <3> QED BY <1>2, <2>1, <2>2, <3>1
  <2>4. TakerOwner' = {} /\ Waiting' = Waiting
    BY <2>1 DEF TakerOwner, Waiting
  <2> QED BY <1>1, <1>2, <2>1, <2>3, <2>4, MatchingOwners
<1>7. CASE KickOffStopOrders
  <2> DEFINE k == ReachedEnd(Side, stops[Side], triggered, lastTradePrice)
             fresh == SubSeq(stops[Side], triggered + 1, k)
  <2>1. /\ phase' = "next" /\ UNCHANGED <<insertedLimits, insertedStop>>
    BY <1>7 DEF KickOffStopOrders
  <2>2. Waiting' = fresh \o Waiting
    BY <1>7, WaitingTriggered
  <2>3. /\ Side \in Sides /\ stops[Side] \in Seq(Order) /\ Len(stops[Side]) \in Nat
        /\ triggered \in 0 .. Len(stops[Side])
    BY <1>1, RecordTypes, LenProperties
  <2>4. k \in triggered .. Len(stops[Side])
    BY <2>3, ReachedEndExists
  <2> HIDE DEF k
  <2>5. \A i \in triggered + 1 .. k : stops[Side][i] \in Order
    BY <2>3, <2>4, ElementOfSeq
  <2>6. /\ fresh \in Seq(Order) /\ Len(fresh) = k - triggered
        /\ \A i \in 1 .. k - triggered : fresh[i] = stops[Side][triggered + i]
    BY <2>3, <2>4, <2>5, SubSeqProperties
  <2> HIDE DEF fresh
  <2>7. OwnersIn(fresh) \subseteq CachedOwners
    <3>1. OwnersIn(stops[Side]) \subseteq CachedOwners
      BY <2>3, OwnersInBooks DEF Book
    <3>2. ASSUME NEW i \in 1 .. Len(fresh) PROVE Owner(fresh[i]) \in OwnersIn(stops[Side])
      <4>1. triggered + i \in 1 .. Len(stops[Side]) /\ fresh[i] = stops[Side][triggered + i]
        BY <2>3, <2>4, <2>6
      <4> QED BY <4>1 DEF OwnersIn
    <3>3. OwnersIn(fresh) \subseteq OwnersIn(stops[Side])
      BY <3>2 DEF OwnersIn
    <3> QED BY <3>1, <3>3
  <2>8. OwnersIn(Waiting') \subseteq Owners
    BY <1>2, <1>3, <2>2, <2>6, <2>7, OwnersOfConcat
  <2>9. TakerOwner' = {}
    BY <2>1 DEF TakerOwner
  <2> QED BY <1>1, <1>2, <2>1, <2>8, <2>9, MatchingOwners
<1>8. CASE NoTradeNoKick
  <2>1. /\ phase = "kick" /\ phase' = "next"
        /\ UNCHANGED <<insertedLimits, insertedStop, pending>>
    BY <1>8 DEF NoTradeNoKick, simVars, callVars
  <2>2. TakerOwner' = {} /\ Waiting' = Waiting
    BY <2>1 DEF TakerOwner, Waiting
  <2> QED BY <1>1, <1>2, <2>1, <2>2, MatchingOwners
<1>9. CASE ProcessStopOrder
  <2> DEFINE o == Head(pending).order
  <2>1. /\ phase' = "consume" /\ taker'.id = o.id /\ taker'.user = o.user
        /\ UNCHANGED <<insertedLimits, insertedStop>>
    BY <1>9 DEF ProcessStopOrder, simVars
  <2>2. Waiting # <<>> /\ Head(Waiting) = o /\ Waiting' = Tail(Waiting)
    BY <1>9, WaitingProcessed
  <2> HIDE DEF o
  <2>3. OwnersIn(Waiting') \subseteq Owners /\ Owner(o) \in Owners
    BY <1>2, <1>3, <2>2, OwnersOfTail
  <2>4. TakerOwner' = {Owner(o)}
    BY <2>1 DEF TakerOwner, Owner
  <2> QED BY <1>1, <1>2, <2>1, <2>3, <2>4, MatchingOwners
<1> QED BY <1>4, <1>5, <1>6, <1>7, <1>8, <1>9

\* The commit: the cache forgets the triggered stop orders, the remainders and
\* the placed stop order go from the record to the cache.
LEMMA CommitOwners ==
  ASSUME IInv, IInv', OwnerInv, PostProcess \/ InsertLimitOrder \/ UpdateBooks
  PROVE  OwnerInv'
<1>1. currentOrderId \in Nat
  BY PlaceTypes
<1>2. CASE PostProcess
  <2>1. /\ phase = "next" /\ phase' = "insert" /\ userOrders' \subseteq userOrders
        /\ currentOrderId' = currentOrderId + 1
        /\ UNCHANGED <<insertedLimits, insertedStop, pending>>
    BY <1>2 DEF PostProcess, simVars, callVars
  <2>2. CachedOwners' \subseteq CachedOwners /\ Waiting' = Waiting /\ TakerOwner' = {}
    BY <2>1 DEF CachedOwners, Owner, Waiting, TakerOwner
  <2>3. Owners' \subseteq Owners
    BY <2>1, <2>2 DEF Owners, OwnersIn, Owner
  <2>4. NextId = currentOrderId + 1 /\ NextId' = currentOrderId + 1
    BY <2>1 DEF NextId, Matching
  <2>5. Unanswered'
    BY <2>1 DEF Unanswered
  <2> QED BY <1>1, <2>1, <2>2, <2>3, <2>4, <2>5, OwnersKept
<1>3. CASE InsertLimitOrder
  <2> DEFINE o == Head(insertedLimits)
  <2>1. /\ phase = "insert" /\ phase' = "insert" /\ insertedLimits # <<>>
        /\ userOrders' = userOrders \cup {Entry("limit", Side, o)}
        /\ insertedLimits' = Tail(insertedLimits)
        /\ UNCHANGED <<currentOrderId, insertedStop, pending>>
    BY <1>3 DEF InsertLimitOrder, idVars, callVars
  <2>2. OwnersIn(insertedLimits') \subseteq OwnersIn(insertedLimits)
        /\ Owner(o) \in OwnersIn(insertedLimits)
    BY <2>1, PlaceTypes, OwnersOfTail
  <2> HIDE DEF o
  <2>3. Owner(Entry("limit", Side, o)) = Owner(o)
    BY EntryFields DEF Owner
  <2>4. CachedOwners' = CachedOwners \cup {Owner(o)}
    BY <2>1, <2>3 DEF CachedOwners
  <2>5. Waiting' = Waiting /\ TakerOwner' = {}
    BY <2>1 DEF Waiting, TakerOwner
  <2>6. Owners' \subseteq Owners
    BY <2>1, <2>2, <2>4, <2>5 DEF Owners
  <2>7. NextId = currentOrderId /\ NextId' = currentOrderId
    BY <2>1 DEF NextId, Matching
  <2>8. Unanswered'
    BY <2>1 DEF Unanswered
  <2> QED BY <1>1, <2>1, <2>6, <2>7, <2>8, OwnersKept
<1>4. CASE UpdateBooks
  <2> DEFINE placed == {insertedStop[i] : i \in 1 .. Len(insertedStop)}
             new == {Entry("stop", Side, o) : o \in placed}
  <2>1. /\ phase = "insert" /\ phase' = "settle"
        /\ userOrders' = (userOrders \cup new) \ MakerEntries
        /\ UNCHANGED <<currentOrderId, insertedLimits, insertedStop, pending>>
    BY <1>4 DEF UpdateBooks, idVars, simVars, callVars
  <2>2. ASSUME NEW e \in new PROVE Owner(e) \in OwnersIn(insertedStop)
    <3>1. PICK i \in 1 .. Len(insertedStop) : e = Entry("stop", Side, insertedStop[i])
      BY <2>2
    <3>2. Owner(e) = Owner(insertedStop[i])
      BY <3>1, EntryFields DEF Owner
    <3> QED BY <3>2 DEF OwnersIn
  <2> HIDE DEF placed, new
  <2>3. CachedOwners' \subseteq CachedOwners \cup OwnersIn(insertedStop)
    <3>1. ASSUME NEW e \in userOrders' PROVE Owner(e) \in CachedOwners \cup OwnersIn(insertedStop)
      BY <2>1, <2>2 DEF CachedOwners
    <3> QED BY <3>1 DEF CachedOwners, Owner
  <2>4. Waiting' = Waiting /\ TakerOwner' = {}
    BY <2>1 DEF Waiting, TakerOwner
  <2>5. OwnersIn(insertedLimits)' = OwnersIn(insertedLimits)
        /\ OwnersIn(insertedStop)' = OwnersIn(insertedStop)
        /\ OwnersIn(Waiting)' = OwnersIn(Waiting)
    BY <2>1, <2>4 DEF OwnersIn, Owner
  <2>6. Owners' \subseteq Owners
    BY <2>3, <2>4, <2>5 DEF Owners
  <2>7. NextId = currentOrderId /\ NextId' = currentOrderId
    BY <2>1 DEF NextId, Matching
  <2>8. Unanswered'
    BY <2>1 DEF Unanswered
  <2> QED BY <1>1, <2>1, <2>6, <2>7, <2>8, OwnersKept
<1> QED BY <1>2, <1>3, <1>4

\* The other messages add nothing to the cache or to the record.
LEMMA OutsideOwners ==
  ASSUME IInv, IInv', OwnerInv, phase \in {"idle", "cancel", "settle"},
         phase' \in {"idle", "cancel", "settle"}, phase' = "cancel" => reply' # "ok",
         userOrders' \subseteq userOrders,
         UNCHANGED <<currentOrderId, insertedLimits, insertedStop, pending>>
  PROVE  OwnerInv'
<1>1. CachedOwners' \subseteq CachedOwners
  BY DEF CachedOwners, Owner
<1>2. Waiting' = Waiting /\ TakerOwner' = {}
  BY DEF Waiting, TakerOwner
<1>3. Owners' \subseteq Owners
  BY <1>1, <1>2 DEF Owners, OwnersIn, Owner
<1>4. NextId = currentOrderId /\ NextId' = currentOrderId /\ currentOrderId \in Nat
  BY PlaceTypes DEF NextId, Matching
<1>5. Unanswered'
  BY DEF Unanswered
<1> QED BY <1>1, <1>3, <1>4, <1>5, OwnersKept

\* A message brings the one id that nothing has yet.
LEMMA AcceptOrderOwners ==
  ASSUME IInv, IInv', QuantityInv, OwnerInv, NEW m \in Orders, AcceptOrder(m)
  PROVE  OwnerInv'
<1>1. /\ phase = "idle" /\ phase' \in {"consume", "stop"}
      /\ taker'.id = currentOrderId /\ taker'.user = m.user
      /\ UNCHANGED <<userOrders, currentOrderId, insertedLimits, insertedStop, pending>>
  BY DEF AcceptOrder, Receivable, marketVars, cacheVars, idVars, simVars
<1>2. insertedLimits = <<>> /\ insertedStop = <<>> /\ pending = <<>>
  BY <1>1 DEF IInv, ClearedWhenIdle, QuantityInv, TakersDone
<1>3. Waiting' = <<>> /\ CachedOwners' = CachedOwners
      /\ TakerOwner' = {<<currentOrderId, m.user>>}
  BY <1>1, <1>2 DEF Waiting, CachedOwners, TakerOwner, Owner
<1>4. OwnersIn(insertedLimits') = {} /\ OwnersIn(insertedStop') = {} /\ OwnersIn(Waiting') = {}
  BY <1>1, <1>2, <1>3 DEF OwnersIn
<1>5. Owners' = CachedOwners \cup {<<currentOrderId, m.user>>}
  BY <1>3, <1>4 DEF Owners, OwnersIn, Owner
<1>6. NextId' = currentOrderId + 1 /\ currentOrderId \in Nat
  BY <1>1, PlaceTypes DEF NextId, Matching
<1>7. \A p \in CachedOwners : p \in Owners /\ p[1] \in 0 .. currentOrderId - 1
  BY DEF OwnerInv, OwnersGiven, Owners
<1>8. OneOwner'
  <2>1. ASSUME NEW p \in Owners', NEW q \in Owners', p[1] = q[1] PROVE p[2] = q[2]
    <3>1. CASE p \in CachedOwners /\ q \in CachedOwners
      BY <1>7, <2>1, <3>1 DEF OwnerInv, OneOwner
    <3>2. CASE p \notin CachedOwners \/ q \notin CachedOwners
      <4>1. p[1] = currentOrderId /\ q[1] = currentOrderId
        BY <1>5, <2>1, <3>2
      <4>2. p \notin CachedOwners /\ q \notin CachedOwners
        BY <1>6, <1>7, <4>1
      <4> QED BY <1>5, <2>1, <4>2
    <3> QED BY <3>1, <3>2
  <2> QED BY <2>1 DEF OneOwner
<1>9. OwnersGiven'
  <2>1. \A p \in CachedOwners' : p[1] \in 0 .. currentOrderId' - 1
    BY <1>1, <1>3, <1>7
  <2>2. ASSUME NEW p \in Owners' PROVE p[1] \in 0 .. NextId' - 1
    <3>1. CASE p \in CachedOwners
      BY <1>6, <1>7, <3>1
    <3>2. CASE p \notin CachedOwners
      <4>1. p[1] = currentOrderId
        BY <1>5, <2>2, <3>2
      <4> QED BY <1>6, <4>1
    <3> QED BY <3>1, <3>2
  <2> QED BY <2>1, <2>2 DEF OwnersGiven
<1>10. Unanswered'
  BY <1>1 DEF Unanswered
<1> QED BY <1>8, <1>9, <1>10 DEF OwnerInv

\* Every step keeps the owners of the ids.
LEMMA OwnerStep ==
  ASSUME IInv, IInv', QuantityInv, CacheInv, OwnerInv, [Next]_vars
  PROVE  OwnerInv'
<1>1. CASE \/ ConsumeOwn \/ MarketOrderUnfilled \/ LimitOrderRefused \/ StopLimitRefused
           \/ AnswerOrder
  <2>1. /\ phase \in Matching \cup {"settle"} /\ phase' = "idle"
        /\ UNCHANGED <<userOrders, currentOrderId>>
        /\ insertedLimits' = <<>> /\ insertedStop' = <<>> /\ pending' = <<>>
    BY <1>1 DEF ConsumeOwn, HasMaker, MarketOrderUnfilled, LimitOrderRefused, StopLimitRefused,
                AnswerOrder, Throw, Clear, Return, marketVars, cacheVars, idVars, Matching
  <2>2. phase # "cancel"
    BY <2>1 DEF Matching
  <2> QED BY <2>1, <2>2, ThrowOwners
<1>2. CASE \/ ConsumePart \/ ConsumeWhole \/ RestLimitOrder \/ PlaceStopLimit
           \/ KickOffStopOrders \/ NoTradeNoKick \/ ProcessStopOrder
  BY <1>2, MatchingStepOwners
<1>3. CASE PostProcess \/ InsertLimitOrder \/ UpdateBooks
  BY <1>3, CommitOwners
<1>4. ASSUME NEW m \in Orders, AcceptOrder(m) PROVE OwnerInv'
  BY <1>4, AcceptOrderOwners
<1>5. CASE \/ SettleTrade
           \/ \E m \in Orders : RejectOrder(m)
           \/ CancelUnknownOrder
           \/ ClearEveryonesOpenOrders
           \/ SetFeePercentage \/ SetMaxNumLimitOpenOrders \/ SetMaxNumStopLimitOpenOrders
           \/ CancelledAll \/ \E e \in toCancel : CancelStale(e)
  <2>1. /\ phase \in {"idle", "cancel", "settle"} /\ phase' \in {"idle", "cancel", "settle"}
        /\ phase' # "cancel" /\ userOrders' \subseteq userOrders
        /\ UNCHANGED <<currentOrderId, insertedLimits, insertedStop, pending>>
    BY <1>5 DEF SettleTrade, RejectOrder, Receivable, CancelUnknownOrder, ClearEveryonesOpenOrders,
                CancelledAll, CancelStale, SetFeePercentage, SetMaxNumLimitOpenOrders,
                SetMaxNumStopLimitOpenOrders, SetConfig, marketVars, cacheVars, idVars, simVars,
                callVars
  <2> QED BY <2>1, OutsideOwners
<1>6. ASSUME NEW kind \in {"limit", "stop"}, NEW side \in Sides,
             NEW i \in 1 .. Len(Book(kind, side)), CancelOrder(kind, side, i)
      PROVE  OwnerInv'
  <2>1. /\ phase = "idle" /\ phase' = "idle" /\ userOrders' \subseteq userOrders
        /\ UNCHANGED <<currentOrderId, insertedLimits, insertedStop, pending>>
    BY <1>6 DEF CancelOrder, idVars, simVars, callVars
  <2> QED BY <2>1, OutsideOwners
<1>7. ASSUME NEW user \in Users, ClearOpenOrders(user) PROVE OwnerInv'
  <2>1. /\ phase = "idle" /\ phase' \in {"idle", "cancel"} /\ reply' # "ok"
        /\ UNCHANGED <<userOrders, currentOrderId, insertedLimits, insertedStop, pending>>
    BY <1>7 DEF ClearOpenOrders, cacheVars, idVars, simVars
  <2> QED BY <2>1, OutsideOwners
<1>8. ASSUME NEW e \in toCancel, CancelNext(e) PROVE OwnerInv'
  <2>1. /\ phase = "cancel" /\ phase' = "cancel" /\ reply' = reply
        /\ UNCHANGED <<userOrders, currentOrderId, insertedLimits, insertedStop, pending>>
    BY <1>8 DEF CancelNext, cacheVars, idVars, simVars, callVars
  <2>2. reply' # "ok"
    BY <2>1 DEF OwnerInv, Unanswered
  <2> QED BY <2>1, <2>2, OutsideOwners
<1>9. CASE UNCHANGED vars
  BY <1>9 DEF vars, marketVars, cacheVars, idVars, simVars, callVars, OwnerInv, OneOwner,
              OwnersGiven, Unanswered, Owners, CachedOwners, OwnersIn, Owner, Waiting, TakerOwner,
              NextId
<1> QED BY <1>1, <1>2, <1>3, <1>4, <1>5, <1>6, <1>7, <1>8, <1>9 DEF Next, Processing, Receive

\* No id belongs to two users, at any program point.
THEOREM OwnerInvariance == Spec => []OwnerInv
<1>1. Init => OwnerInv
  <2> SUFFICES ASSUME Init PROVE OwnerInv
    OBVIOUS
  <2>1. /\ phase = "idle" /\ userOrders = {} /\ insertedLimits = <<>> /\ insertedStop = <<>>
        /\ pending = <<>>
    BY DEF Init
  <2>2. Waiting = <<>> /\ CachedOwners = {} /\ TakerOwner = {}
    BY <2>1 DEF Waiting, CachedOwners, TakerOwner
  <2>3. OwnersIn(<<>>) = {}
    BY DEF OwnersIn
  <2>4. Owners = {}
    BY <2>1, <2>2, <2>3 DEF Owners
  <2> QED BY <2>1, <2>2, <2>4 DEF OwnerInv, OneOwner, OwnersGiven, Unanswered
<1>2. IInv /\ IInv' /\ QuantityInv /\ CacheInv /\ OwnerInv /\ [Next]_vars => OwnerInv'
  BY OwnerStep
<1> QED BY <1>1, <1>2, Invariance, QuantityInvariance, CacheInvariance, PTL DEF Spec

\* Between messages no handler runs; while the orders of a user are cancelled
\* nothing else happens.
LEMMA CancelStepsOnly ==
  ASSUME phase \in {"idle", "cancel"}, Processing
  PROVE  /\ phase = "cancel"
         /\ \/ \E e \in toCancel : CancelNext(e) \/ CancelStale(e)
            \/ CancelledAll
<1>1. ~(\/ ConsumeOwn \/ ConsumePart \/ ConsumeWhole \/ MarketOrderUnfilled
        \/ LimitOrderRefused \/ RestLimitOrder \/ StopLimitRefused \/ PlaceStopLimit
        \/ KickOffStopOrders \/ NoTradeNoKick \/ ProcessStopOrder
        \/ PostProcess \/ InsertLimitOrder \/ UpdateBooks \/ SettleTrade \/ AnswerOrder)
  BY DEF ConsumeOwn, ConsumePart, ConsumeWhole, HasMaker, MarketOrderUnfilled,
         LimitOrderRefused, RestLimitOrder, StopLimitRefused, PlaceStopLimit,
         KickOffStopOrders, NoTradeNoKick, ProcessStopOrder, PostProcess, InsertLimitOrder,
         UpdateBooks, SettleTrade, AnswerOrder
<1>2. \/ \E e \in toCancel : CancelNext(e) \/ CancelStale(e)
      \/ CancelledAll
  BY <1>1 DEF Processing
<1> QED BY <1>2 DEF CancelNext, CancelStale, CancelledAll

\* While the orders of a user are cancelled one by one no order of another user
\* is touched, although CancelHelper compares prices and ids only; when the
\* message is answered with "ok" the user has no order left in the market.
LEMMA CancelStepsClear ==
  ASSUME IInv, IInv', CacheInv, OwnerInv, [Next]_vars, phase = "cancel",
         NEW kind \in {"limit", "stop"}, NEW side \in Sides
  PROVE  /\ \A u \in Users \ {message} : OrdersOf(u, kind, side)' = OrdersOf(u, kind, side)
         /\ reply' = "ok" => OrdersOf(message, kind, side) = <<>>
<1> DEFINE book == Book(kind, side)
<1>0. book \in Seq(Order)
  BY PlaceTypes DEF Book
<1>1. ASSUME UNCHANGED <<limits, stops>>
      PROVE  \A u \in Users \ {message} : OrdersOf(u, kind, side)' = OrdersOf(u, kind, side)
  BY <1>1 DEF OrdersOf, Book
<1>2. ASSUME NEW e \in toCancel, CancelNext(e)
      PROVE  /\ \A u \in Users \ {message} : OrdersOf(u, kind, side)' = OrdersOf(u, kind, side)
             /\ reply' # "ok"
  <2>1. reply' = reply /\ reply # "ok"
    BY <1>2 DEF CancelNext, OwnerInv, Unanswered
  <2>2. e.kind \in {"limit", "stop"} /\ e.side \in Sides
    BY ToCancelType
  <2> DEFINE found == Book(e.kind, e.side)
  <2>3. PICK i \in 1 .. Len(found) : Position(e, i) /\ RemoveFromBook(e.kind, e.side, i)
    BY <1>2 DEF CancelNext
  <2>4. found \in Seq(Order)
    BY <2>2, PlaceTypes DEF Book
  <2>5. found[i].user = message
    <3>1. e \in userOrders /\ e.user = message
      BY DEF CacheInv, ToVisit, EntriesOf
    <3>2. OwnersIn(found) \subseteq CachedOwners
      BY <2>2, OwnersInBooks
    <3>3. Owner(found[i]) \in Owners /\ Owner(e) \in Owners
      BY <2>3, <3>1, <3>2 DEF OwnersIn, CachedOwners, Owners
    <3>4. found[i].id = e.id
      BY <2>3 DEF Position
    <3>5. Owner(found[i])[1] = Owner(e)[1]
      BY <3>4 DEF Owner
    <3>6. Owner(found[i])[2] = Owner(e)[2]
      BY <3>3, <3>5 DEF OwnerInv, OneOwner
    <3> QED BY <3>1, <3>6 DEF Owner
  <2>6. Book(kind, side)' = IF kind = e.kind /\ side = e.side THEN Without(found, i) ELSE book
    <3>1. limits \in [Sides -> Seq(Order)] /\ stops \in [Sides -> Seq(Order)]
      BY PlaceTypes
    <3>2. CASE e.kind = "limit"
      <4>1. limits' = [limits EXCEPT ![e.side] = Without(found, i)] /\ stops' = stops
            /\ found = limits[e.side]
        BY <2>3, <3>2 DEF RemoveFromBook, Book
      <4> HIDE DEF found
      <4> QED BY <2>2, <3>1, <3>2, <4>1 DEF Book
    <3>3. CASE e.kind = "stop"
      <4>1. stops' = [stops EXCEPT ![e.side] = Without(found, i)] /\ limits' = limits
            /\ found = stops[e.side]
        BY <2>3, <3>3 DEF RemoveFromBook, Book
      <4> HIDE DEF found
      <4> QED BY <2>2, <3>1, <3>3, <4>1 DEF Book
    <3> QED BY <2>2, <3>2, <3>3
  <2>7. ASSUME NEW u \in Users \ {message}
        PROVE  OwnedBy(u, Without(found, i)) = OwnedBy(u, found)
    <3>1. found[i].user # u
      BY <2>5
    <3> HIDE DEF found
    <3> QED BY <2>3, <2>4, <3>1, OwnedByWithout
  <2>8. ASSUME NEW u \in Users \ {message}
        PROVE  OwnedBy(u, Book(kind, side)') = OwnedBy(u, book)
    <3>1. CASE kind = e.kind /\ side = e.side
      BY <2>6, <2>7, <3>1
    <3>2. CASE ~(kind = e.kind /\ side = e.side)
      BY <2>6, <3>2
    <3> QED BY <3>1, <3>2
  <2>9. \A u : OrdersOf(u, kind, side)' = OwnedBy(u, Book(kind, side)')
    BY DEF OrdersOf, OwnedBy, OwnedUpTo
  <2> QED BY <2>1, <2>8, <2>9 DEF OrdersOf
<1>3. ASSUME NEW e \in toCancel, CancelStale(e)
      PROVE  UNCHANGED <<limits, stops>> /\ reply' # "ok"
  BY <1>3 DEF CancelStale, marketVars, bookVars
<1>4. ASSUME CancelledAll
      PROVE  UNCHANGED <<limits, stops>> /\ OrdersOf(message, kind, side) = <<>>
  <2>1. toCancel = {} /\ UNCHANGED <<limits, stops>>
    BY <1>4 DEF CancelledAll, bookVars
  <2>2. ASSUME NEW i \in 1 .. Len(book) PROVE book[i].user # message
    <3>1. Entry(kind, side, book[i]) \in InBook(kind, side)
      BY <1>0, <2>2, LenProperties DEF InBook
    <3>2. Entry(kind, side, book[i]).user # message
      BY <2>1, <3>1 DEF CacheInv, ToVisit
    <3> QED BY <3>2, EntryFields
  <2> HIDE DEF book
  <2>3. OwnedBy(message, book) = <<>>
    BY <1>0, <2>2, OwnedByNone
  <2> QED BY <2>1, <2>3 DEF OrdersOf, book
<1>5. CASE UNCHANGED vars
  <2>1. UNCHANGED <<limits, stops>> /\ reply' = reply
    BY <1>5 DEF vars, marketVars, bookVars
  <2>2. reply' # "ok"
    BY <2>1 DEF OwnerInv, Unanswered
  <2> QED BY <1>1, <2>1, <2>2
<1>6. CASE Next
  <2>1. \/ \E e \in toCancel : CancelNext(e) \/ CancelStale(e)
        \/ CancelledAll
    <3>1. ~Receive
      BY DEF Receive, RejectOrder, AcceptOrder, Receivable, CancelOrder, CancelUnknownOrder,
             ClearOpenOrders, ClearEveryonesOpenOrders, SetFeePercentage,
             SetMaxNumLimitOpenOrders, SetMaxNumStopLimitOpenOrders, SetConfig
    <3>2. Processing
      BY <1>6, <3>1 DEF Next
    <3> QED BY <3>2, CancelStepsOnly
  <2> HIDE DEF book
  <2> QED BY <1>1, <1>2, <1>3, <1>4, <2>1
<1> QED BY <1>5, <1>6

\* ClearOpenOrders cancels the orders of its user and no others: at every step
\* that is taken, and when it ends.
THEOREM OwnOrdersCleared == Spec => ClearsExactlyOwnOrders
<1> DEFINE A ==
      phase = "cancel" =>
        \A kind \in {"limit", "stop"}, side \in Sides :
          /\ \A u \in Users \ {message} : OrdersOf(u, kind, side)' = OrdersOf(u, kind, side)
          /\ reply' = "ok" => OrdersOf(message, kind, side) = <<>>
<1>1. IInv /\ IInv' /\ CacheInv /\ OwnerInv /\ [Next]_vars => A
  BY CancelStepsClear
<1>2. ClearsExactlyOwnOrders <=> [][A]_vars
  BY DEF ClearsExactlyOwnOrders
<1> HIDE DEF A
<1> QED BY <1>1, <1>2, Invariance, CacheInvariance, OwnerInvariance, PTL DEF Spec

=============================================================================
