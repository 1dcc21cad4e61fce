------------------------ MODULE MarketQuantityProofs ------------------------
(***************************************************************************)
(* For every set of users, of orders and of settings, of the quantities of *)
(* a market: no quantity is lost or made up between a message, the record  *)
(* of the simulator and the books; the coin in order is the coin offered   *)
(* for sale, and is there to be delivered; coin is not created; a market   *)
(* buy order costs its user no more than what was available.               *)
(***************************************************************************)
EXTENDS MarketProofs

\* The phases in which the simulator's record is still to be committed.
Recording == Matching \cup {"insert"}

\* What the commit takes from the makers is what they traded.
MakersPay == phase \in Recording => \A u \in Users : TakenFrom(u) = QuantityOf(u, MakerParts)

\* A taker that is done with has nothing left, a message places one stop order
\* at most, and the record is empty between messages.
TakersDone ==
  /\ phase \in {"kick", "next"} => taker.left = 0
  /\ Len(insertedStop) <= 1 /\ (phase = "stop" => insertedStop = <<>>)
  /\ phase \in {"idle", "cancel"} => trades = <<>> /\ insertedStop = <<>> /\ pending = <<>>

QuantityInv == MakersPay /\ TakersAccounted /\ TakersDone

\* What is still to be inserted for a user and to be settled of the user's sales,
\* less what the message will hold: the coin that moves while it is committed.
Moving(u) ==
  CASE phase = "insert" /\ Side = "Sell" ->
         QuantityOf(u, insertedLimits) + QuantityOf(u, insertedStop) + QuantityOf(u, Sold)
           - Share(u, Demand)
    [] phase = "settle" -> QuantityOf(u, Sold)
    [] OTHER -> 0

\* What is in order beyond that, for other markets of the coin.
HeldFor(others) ==
  \A u \in Users : coin[u].inOrder = OpenSells(u) + Moving(u) + others[u]

EscrowInv ==
  /\ phase # "cancel"
  /\ \A u \in Users : coin[u].inOrder = OpenSells(u) + Moving(u)

\* No fee is more than the amount it is taken from.
FeesBelow(deals) == \A i \in 1 .. Len(deals) : deals[i].buyFee <= deals[i].amount

\* What a message sells is available until it is held.
SolvencyInv ==
  /\ \A u \in Users : coin[u].total >= coin[u].inOrder
  /\ phase \in Recording /\ Side = "Sell" => Available(coin[message.user]) >= message.amount
  /\ FeesBelow(trades)

-----------------------------------------------------------------------------
(* Parts *)

Part == [user : Users, left : Nat]

\* Orders and parts of trades have natural numbers left, to whoever they belong.
LEMMA LeftType == (\A o \in Order : o.left \in Nat) /\ (\A p \in Part : p.left \in Nat)
BY DEF Order, Part

\* A sequence with nothing in it.
LEMMA QuantityNone ==
  ASSUME NEW user, NEW parts, Len(parts) = 0
  PROVE  QuantityOf(user, parts) = 0
<1> DEFINE shares == [i \in 1 .. Len(parts) |-> Share(user, parts[i])]
<1>1. QuantityOf(user, parts) = SumTo(shares, Len(parts))
  <2>1. Len(parts) \in Nat
    OBVIOUS
  <2> QED BY ONLY <2>1, QuantityIsSum
<1> HIDE DEF shares
<1> QED BY <1>1, SumToRecursion

\* A sequence of one element.
LEMMA OnlyElement ==
  ASSUME NEW S, NEW seq \in Seq(S), Len(seq) <= 1, seq # <<>>
  PROVE  seq[1] \in S /\ seq = <<seq[1]>>
<1>1. Len(seq) \in Nat \ {0}
  BY EmptySeq
<1>2. Len(seq) = 1 /\ 1 \in 1 .. Len(seq)
  BY <1>1
<1>3. seq[1] \in S
  BY <1>2, ElementOfSeq
<1>4. <<seq[1]>> \in Seq(S) /\ Len(<<seq[1]>>) = 1 /\ <<seq[1]>>[1] = seq[1]
  BY <1>3
<1> QED BY <1>2, <1>3, <1>4, SeqEqual

\* One order more at the end of a prefix.
LEMMA QuantityPrefixNext ==
  ASSUME NEW user, NEW book \in Seq(Order), NEW n \in Nat, n < Len(book)
  PROVE  QuantityOf(user, SubSeq(book, 1, n + 1))
           = QuantityOf(user, SubSeq(book, 1, n)) + Share(user, book[n + 1])
<1>1. n \in 0 .. Len(book) /\ n + 1 \in 0 .. Len(book) /\ n + 1 \in 1 .. Len(book)
  BY LenProperties
<1>2. SubSeq(book, 1, n) \in Seq(Order) /\ book[n + 1] \in Order
  BY <1>1, PrefixProperties, ElementOfSeq
<1>3. SubSeq(book, 1, n + 1) = Append(SubSeq(book, 1, n), book[n + 1])
  BY <1>1, SubSeqRecursiveSecond
<1> QED BY <1>2, <1>3, LeftType, QuantityAppend

\* The orders between two positions.
LEMMA QuantityPrefixMore ==
  ASSUME NEW user, NEW book \in Seq(Order), NEW n \in Nat, NEW k \in n .. Len(book)
  PROVE  /\ SubSeq(book, n + 1, k) \in Seq(Order)
         /\ QuantityOf(user, SubSeq(book, 1, k))
              = QuantityOf(user, SubSeq(book, 1, n)) + QuantityOf(user, SubSeq(book, n + 1, k))
<1>1. k \in 0 .. Len(book) /\ n \in 0 .. Len(book)
  BY LenProperties
<1>2. SubSeq(book, 1, n) \in Seq(Order) /\ SubSeq(book, n + 1, k) \in Seq(Order)
  BY <1>1, PrefixProperties, SubSeqProperties
<1>3. SubSeq(book, 1, k) = SubSeq(book, 1, n) \o SubSeq(book, n + 1, k)
  BY <1>1, ConcatAdjacentSubSeq
<1> QED BY <1>2, <1>3, LeftType, QuantityConcat

Parties == {"buyer", "seller"}

\* Both parties of a trade are users.
LEMMA PartyType ==
  ASSUME NEW t \in Trade, NEW party \in Parties
  PROVE  /\ t[party] \in Users /\ t.amount \in Nat
         /\ [user |-> t[party], left |-> t.amount] \in Part
BY DEF Trade, Parties, Part

\* The parts of trades.
LEMMA PartsType ==
  ASSUME NEW deals \in Seq(Trade), NEW party \in Parties
  PROVE  /\ PartsOf(party, deals) \in Seq(Part) /\ Len(deals) \in Nat
         /\ Len(PartsOf(party, deals)) = Len(deals)
         /\ \A i \in 1 .. Len(deals) :
              PartsOf(party, deals)[i] = [user |-> deals[i][party], left |-> deals[i].amount]
<1>1. Len(deals) \in Nat
  BY LenProperties
<1>2. ASSUME NEW i \in 1 .. Len(deals)
      PROVE  [user |-> deals[i][party], left |-> deals[i].amount] \in Part
  <2>1. deals[i] \in Trade
    BY ElementOfSeq
  <2> QED BY <2>1, PartyType
<1> QED BY <1>1, <1>2 DEF PartsOf

\* One trade more adds its party's part.
LEMMA TradeAppended ==
  ASSUME NEW deals \in Seq(Trade), NEW party \in Parties, NEW t \in Trade, NEW u
  PROVE  QuantityOf(u, PartsOf(party, Append(deals, t)))
           = QuantityOf(u, PartsOf(party, deals)) + (IF t[party] = u THEN t.amount ELSE 0)
<1> DEFINE before == PartsOf(party, deals)
           part == [user |-> t[party], left |-> t.amount]
           more == Append(deals, t)
           after == PartsOf(party, more)
           appended == Append(before, part)
<1>1. /\ before \in Seq(Part) /\ Len(deals) \in Nat /\ Len(before) = Len(deals)
      /\ \A i \in 1 .. Len(deals) :
           before[i] = [user |-> deals[i][party], left |-> deals[i].amount]
  BY PartsType
<1>2. /\ more \in Seq(Trade) /\ Len(more) = Len(deals) + 1 /\ more[Len(deals) + 1] = t
      /\ \A i \in 1 .. Len(deals) : more[i] = deals[i]
  BY AppendProperties
<1>3. part \in Part
  BY PartyType
<1> HIDE DEF before, more
<1>4. /\ after \in Seq(Part) /\ Len(after) = Len(deals) + 1
      /\ \A i \in 1 .. Len(deals) + 1 :
           after[i] = [user |-> more[i][party], left |-> more[i].amount]
  BY <1>2, PartsType
<1>5. /\ appended \in Seq(Part) /\ Len(appended) = Len(deals) + 1
      /\ appended[Len(deals) + 1] = part
      /\ \A i \in 1 .. Len(deals) : appended[i] = before[i]
  BY <1>1, <1>3, AppendProperties
<1>6. QuantityOf(u, appended) = QuantityOf(u, before) + Share(u, part)
  BY <1>1, <1>3, LeftType, QuantityAppend
<1> HIDE DEF after, appended
<1>7. ASSUME NEW i \in 1 .. Len(deals) + 1 PROVE after[i] = appended[i]
  <2>1. CASE i = Len(deals) + 1
    BY <1>2, <1>4, <1>5, <2>1
  <2>2. CASE i # Len(deals) + 1
    <3>1. i \in 1 .. Len(deals)
      BY <1>1, <2>2
    <3> QED BY <1>1, <1>2, <1>4, <1>5, <3>1
  <2> QED BY <2>1, <2>2
<1>8. after = appended
  BY <1>4, <1>5, <1>7, SeqEqual
<1>9. Share(u, part) = IF t[party] = u THEN t.amount ELSE 0
  BY DEF Share
<1> QED BY <1>6, <1>8, <1>9 DEF before, after, more

\* Without the first trade: the parts but for the first one.
LEMMA TradeSettled ==
  ASSUME NEW deals \in Seq(Trade), NEW party \in Parties, deals # <<>>, NEW u
  PROVE  /\ Head(deals) \in Trade /\ Tail(deals) \in Seq(Trade)
         /\ QuantityOf(u, PartsOf(party, deals))
              = QuantityOf(u, PartsOf(party, Tail(deals)))
                  + (IF Head(deals)[party] = u THEN Head(deals).amount ELSE 0)
<1> DEFINE all == PartsOf(party, deals)
           rest == PartsOf(party, Tail(deals))
<1>1. /\ Head(deals) \in Trade /\ Head(deals) = deals[1]
      /\ Tail(deals) \in Seq(Trade) /\ Len(Tail(deals)) = Len(deals) - 1
      /\ \A i \in 1 .. Len(Tail(deals)) : Tail(deals)[i] = deals[i + 1]
  BY HeadTailProperties
<1>2. /\ all \in Seq(Part) /\ Len(deals) \in Nat /\ Len(all) = Len(deals)
      /\ \A i \in 1 .. Len(deals) :
           all[i] = [user |-> deals[i][party], left |-> deals[i].amount]
  BY PartsType
<1>3. /\ rest \in Seq(Part) /\ Len(rest) = Len(Tail(deals))
      /\ \A i \in 1 .. Len(Tail(deals)) :
           rest[i] = [user |-> Tail(deals)[i][party], left |-> Tail(deals)[i].amount]
  BY <1>1, PartsType
<1> HIDE DEF all, rest
<1>4. Len(deals) > 0 /\ all # <<>>
  BY <1>2, EmptySeq
<1>5. /\ Head(all) = all[1] /\ Tail(all) \in Seq(Part) /\ Len(Tail(all)) = Len(all) - 1
      /\ \A i \in 1 .. Len(Tail(all)) : Tail(all)[i] = all[i + 1]
  BY <1>2, <1>4, HeadTailProperties
<1>6. ASSUME NEW i \in 1 .. Len(rest) PROVE Tail(all)[i] = rest[i]
  <2>1. i \in 1 .. Len(deals) - 1 /\ i + 1 \in 1 .. Len(deals)
    BY <1>1, <1>2, <1>3
  <2>2. Tail(all)[i] = all[i + 1] /\ Tail(deals)[i] = deals[i + 1]
    BY <1>1, <1>2, <1>5, <2>1
  <2>3. all[i + 1] = [user |-> deals[i + 1][party], left |-> deals[i + 1].amount]
    BY <1>2, <2>1
  <2> QED BY <1>3, <2>2, <2>3
<1>7. Tail(all) = rest
  <2>1. Len(Tail(all)) = Len(rest)
    BY <1>1, <1>2, <1>3, <1>5
  <2> QED BY <1>3, <1>5, <1>6, <2>1, SeqEqual
<1>8. QuantityOf(u, all) = Share(u, Head(all)) + QuantityOf(u, Tail(all))
  BY <1>2, <1>4, LeftType, QuantityTail
<1>9. Share(u, Head(all)) = IF Head(deals)[party] = u THEN Head(deals).amount ELSE 0
  <2>1. 1 \in 1 .. Len(deals)
    BY <1>2, <1>4
  <2>2. Head(all) = [user |-> Head(deals)[party], left |-> Head(deals).amount]
    BY <1>1, <1>2, <1>5, <2>1
  <2> QED BY <2>2 DEF Share
<1>10. QuantityOf(u, rest) \in Nat /\ Head(deals).amount \in Nat
  BY <1>1, <1>3, LeftType, QuantityType, PartyType
<1> HIDE DEF all, rest
<1>11. QuantityOf(u, all) = QuantityOf(u, rest)
                             + (IF Head(deals)[party] = u THEN Head(deals).amount ELSE 0)
  <2> DEFINE share == IF Head(deals)[party] = u THEN Head(deals).amount ELSE 0
  <2>1. share \in Nat
    BY <1>10
  <2>2. QuantityOf(u, all) = share + QuantityOf(u, rest)
    BY <1>7, <1>8, <1>9
  <2> HIDE DEF share
  <2>3. QuantityOf(u, all) = QuantityOf(u, rest) + share
    BY <1>10, <2>1, <2>2
  <2> QED BY <2>3 DEF share
<1> QED BY <1>1, <1>11 DEF all, rest

-----------------------------------------------------------------------------
(* The record of a message *)

\* The types of what the simulator records, and of the message.
LEMMA RecordTypes ==
  ASSUME IInv, phase \in Recording
  PROVE  /\ Side \in Sides /\ Makers \in Seq(Order) /\ stops[Side] \in Seq(Order)
         /\ removed \in 0 .. Len(Makers) /\ lastFill \in Nat /\ triggered \in Nat
         /\ lastFill > 0 => removed < Len(Makers)
         /\ phase \in Matching => triggered \in 0 .. Len(stops[Side])
         /\ insertedLimits \in Seq(Order) /\ insertedStop \in Seq(Order)
         /\ trades \in Seq(Trade) /\ pending \in Seq(Triggered)
         /\ taker \in Taker /\ taker.left \in Nat /\ message.amount \in Nat
         /\ message.user \in Users
<1>1. phase \in OrderPhases
  BY DEF Recording, OrderPhases
<1>2. /\ Side \in Sides /\ Makers \in Seq(Order) /\ stops[Side] \in Seq(Order)
      /\ message.amount \in Nat /\ message.user \in Users
  BY <1>1, SideType
<1>3. Len(Makers) \in Nat /\ Len(stops[Side]) \in Nat
  BY <1>2, LenProperties
<1>4. /\ removed \in Nat /\ lastFill \in Nat /\ triggered \in Nat
      /\ insertedLimits \in Seq(Order) /\ insertedStop \in Seq(Order) /\ trades \in Seq(Trade)
  BY DEF IInv, TypeOK, SimulatorTypeOK
<1>5. taker \in Taker /\ pending \in Seq(Triggered)
  BY <1>1 DEF IInv, TypeOK, CallTypeOK
<1>6. /\ removed <= Len(Makers) /\ (lastFill > 0 => removed < Len(Makers))
      /\ phase \in Matching => triggered <= Len(stops[Side])
  BY DEF IInv, SimulatorInBounds, Recording
<1> QED BY <1>2, <1>3, <1>4, <1>5, <1>6 DEF Taker

\* A share is a natural number, and none of something used up.
LEMMA ShareType ==
  ASSUME NEW u, NEW p, p.left \in Nat
  PROVE  Share(u, p) \in Nat /\ (p.left = 0 => Share(u, p) = 0)
BY DEF Share

\* The triggered stop orders are orders.
LEMMA WaitingType ==
  ASSUME IInv
  PROVE  /\ pending \in Seq(Triggered) /\ Len(pending) \in Nat
         /\ Waiting \in Seq(Order) /\ Len(Waiting) = Len(pending)
         /\ \A i \in 1 .. Len(pending) : Waiting[i] = pending[i].order
<1>1. pending \in Seq(Triggered) /\ Len(pending) \in Nat
  BY LenProperties DEF IInv, TypeOK, CallTypeOK
<1>2. ASSUME NEW i \in 1 .. Len(pending) PROVE pending[i].order \in Order
  <2>1. pending[i] \in Triggered
    BY <1>1, ElementOfSeq
  <2> QED BY <2>1 DEF Triggered
<1> QED BY <1>1, <1>2 DEF Waiting

\* The stop orders that KickOffStopOrders triggers wait before the others.
LEMMA WaitingTriggered ==
  ASSUME IInv, KickOffStopOrders
  PROVE  LET k == ReachedEnd(Side, stops[Side], triggered, lastTradePrice)
         IN  Waiting' = SubSeq(stops[Side], triggered + 1, k) \o Waiting
<1> DEFINE k == ReachedEnd(Side, stops[Side], triggered, lastTradePrice)
           fresh == SubSeq(stops[Side], triggered + 1, k)
<1>1. /\ phase = "kick" /\ phase \in Recording /\ phase \in Matching
      /\ pending' = TriggeredUpTo(k) \o pending
  BY DEF KickOffStopOrders, Matching, Recording
<1>2. stops[Side] \in Seq(Order) /\ triggered \in Nat /\ triggered <= Len(stops[Side])
      /\ Len(stops[Side]) \in Nat
  BY <1>1, RecordTypes, LenProperties DEF Matching
<1>3. k \in triggered .. Len(stops[Side])
  BY <1>2, ReachedEndExists
<1> HIDE DEF k
<1>4. TriggeredUpTo(k) \in Seq(Triggered) /\ pending \in Seq(Triggered)
  BY <1>1, <1>3, RecordTypes, TriggeredUpToType
<1>5. fresh \in Seq(Order) /\ Len(fresh) = k - triggered
      /\ \A j \in 1 .. k - triggered : fresh[j] = stops[Side][triggered + j]
  <2>1. triggered + 1 \in 1 .. Len(stops[Side]) + 1 /\ k \in triggered .. Len(stops[Side])
    BY <1>2, <1>3
  <2> QED BY <1>2, <1>3, <2>1, SubSeqProperties
<1> HIDE DEF fresh
<1>6. Waiting' = fresh \o Waiting
  <2> DEFINE w == TriggeredUpTo(k)
  <2>1. Len(w) = k - triggered /\ \A j \in 1 .. k - triggered : w[j].order = stops[Side][triggered + j]
    BY <1>2, <1>3 DEF TriggeredUpTo
  <2>2. /\ pending' = w \o pending /\ Len(pending) \in Nat
        /\ w \in Seq(Triggered) /\ pending \in Seq(Triggered)
    BY <1>1, <1>4, LenProperties
  <2> HIDE DEF w
  <2>3. /\ Len(pending') = Len(w) + Len(pending)
        /\ \A i \in 1 .. Len(w) : pending'[i] = w[i]
        /\ \A i \in 1 .. Len(pending) : pending'[Len(w) + i] = pending[i]
    BY <2>2, ConcatProperties
  <2>4. /\ Waiting \in Seq(Order) /\ Len(Waiting) = Len(pending)
        /\ \A i \in 1 .. Len(pending) : Waiting[i] = pending[i].order
    BY WaitingType
  <2> DEFINE both == fresh \o Waiting
  <2>5. /\ both \in Seq(Order) /\ Len(both) = Len(w) + Len(pending)
        /\ \A i \in 1 .. Len(w) : both[i] = w[i].order
        /\ \A i \in 1 .. Len(pending) : both[Len(w) + i] = pending[i].order
    <3>1. Len(fresh) = Len(w) /\ Len(w) \in Nat /\ Len(pending) \in Nat
      BY <1>2, <1>3, <1>5, <2>1, <2>2
    <3>2. /\ both \in Seq(Order) /\ Len(both) = Len(fresh) + Len(Waiting)
          /\ \A i \in 1 .. Len(fresh) + Len(Waiting) :
               both[i] = IF i <= Len(fresh) THEN fresh[i] ELSE Waiting[i - Len(fresh)]
      BY <1>5, <2>4, ConcatProperties
    <3>3. \A i \in 1 .. Len(w) : fresh[i] = w[i].order
      BY <1>5, <2>1
    <3> HIDE DEF both
    <3>4. ASSUME NEW i \in 1 .. Len(w) PROVE both[i] = w[i].order
      <4>1. i \in 1 .. Len(fresh) + Len(Waiting) /\ i <= Len(fresh)
        BY <2>4, <3>1
      <4> QED BY <3>2, <3>3, <4>1
    <3>5. ASSUME NEW i \in 1 .. Len(pending) PROVE both[Len(w) + i] = pending[i].order
      <4>1. /\ Len(w) + i \in 1 .. Len(fresh) + Len(Waiting) /\ ~(Len(w) + i <= Len(fresh))
            /\ Len(w) + i - Len(fresh) = i
        BY <2>4, <3>1
      <4>2. both[Len(w) + i] = Waiting[i]
        BY <3>2, <4>1
      <4> QED BY <2>4, <4>2
    <3> QED BY <2>4, <3>1, <3>2, <3>4, <3>5
  <2>6. /\ Len(Waiting') = Len(w) + Len(pending)
        /\ \A i \in 1 .. Len(w) + Len(pending) : Waiting'[i] = pending'[i].order
    BY <2>3 DEF Waiting
  <2>7. Len(w) \in Nat
    BY <1>2, <1>3, <2>1
  <2>8. ASSUME NEW i \in 1 .. Len(w) + Len(pending) PROVE Waiting'[i] = both[i]
    <3> HIDE DEF both
    <3>1. CASE i <= Len(w)
      <4>1. i \in 1 .. Len(w)
        BY <2>7, <3>1
      <4> QED BY <2>3, <2>5, <2>6, <4>1
    <3>2. CASE i > Len(w)
      <4>1. i - Len(w) \in 1 .. Len(pending) /\ i = Len(w) + (i - Len(w))
        BY <2>2, <2>7, <3>2
      <4>2. pending'[i] = pending[i - Len(w)] /\ both[i] = pending[i - Len(w)].order
        BY <2>3, <2>5, <4>1
      <4> QED BY <2>6, <4>2
    <3> QED BY <2>2, <2>7, <3>1, <3>2
  <2>9. Waiting' = [i \in 1 .. Len(w) + Len(pending) |-> Waiting'[i]]
    BY <2>6 DEF Waiting
  <2>10. both = [i \in 1 .. Len(w) + Len(pending) |-> both[i]]
    BY <2>5, LenProperties
  <2> QED BY <2>8, <2>9, <2>10
<1> QED BY <1>6 DEF k, fresh

\* The first of them is processed, the others go on waiting.
LEMMA WaitingProcessed ==
  ASSUME IInv, ProcessStopOrder
  PROVE  /\ Waiting \in Seq(Order) /\ Waiting # <<>>
         /\ Head(Waiting) = Head(pending).order /\ Waiting' = Tail(Waiting)
<1> DEFINE o == Head(pending).order
<1>0. pending # <<>> /\ pending' = Tail(pending)
  BY DEF ProcessStopOrder
<1> HIDE DEF o
<1>1. /\ pending \in Seq(Triggered) /\ Len(pending) \in Nat \ {0}
      /\ Waiting \in Seq(Order) /\ Len(Waiting) = Len(pending)
      /\ \A i \in 1 .. Len(pending) : Waiting[i] = pending[i].order
  <2>1. Len(pending) \in Nat \ {0}
    BY <1>0, WaitingType, EmptySeq
  <2> QED BY <2>1, WaitingType
<1>2. Waiting # <<>>
  BY <1>1
<1>3. Head(Waiting) = o
  BY <1>1, <1>2 DEF o
<1>4. /\ Len(pending') = Len(pending) - 1
      /\ \A i \in 1 .. Len(pending) - 1 : pending'[i] = pending[i + 1]
  BY <1>0, <1>1, HeadTailProperties
<1>5. /\ Tail(Waiting) \in Seq(Order) /\ Len(Tail(Waiting)) = Len(pending) - 1
      /\ \A i \in 1 .. Len(pending) - 1 : Tail(Waiting)[i] = Waiting[i + 1]
  BY <1>1, <1>2, HeadTailProperties
<1>6. Waiting' = [i \in 1 .. Len(pending) - 1 |-> pending'[i].order]
  BY <1>4 DEF Waiting
<1>7. Tail(Waiting) = [i \in 1 .. Len(pending) - 1 |-> Tail(Waiting)[i]]
  BY <1>5, LenProperties
<1>8. ASSUME NEW i \in 1 .. Len(pending) - 1 PROVE pending'[i].order = Tail(Waiting)[i]
  <2>1. i + 1 \in 1 .. Len(pending)
    BY <1>1
  <2> QED BY <1>1, <1>4, <1>5, <2>1
<1> QED BY <1>1, <1>2, <1>3, <1>6, <1>7, <1>8

\* Every quantity of the record is a natural number.
LEMMA RecordQuantities ==
  ASSUME IInv, phase \in Recording, NEW u
  PROVE  /\ QuantityOf(u, insertedLimits) \in Nat /\ QuantityOf(u, insertedStop) \in Nat
         /\ QuantityOf(u, TakerParts) \in Nat /\ QuantityOf(u, MakerParts) \in Nat
         /\ QuantityOf(u, SubSeq(Makers, 1, removed)) \in Nat
         /\ phase \in Matching => QuantityOf(u, SubSeq(stops[Side], 1, triggered)) \in Nat
         /\ Waiting \in Seq(Order) /\ QuantityOf(u, Waiting) \in Nat
         /\ Share(u, Demand) \in Nat /\ Share(u, taker) \in Nat
<1>1. QuantityOf(u, insertedLimits) \in Nat /\ QuantityOf(u, insertedStop) \in Nat
  BY RecordTypes, LeftType, QuantityType
<1>2. QuantityOf(u, TakerParts) \in Nat /\ QuantityOf(u, MakerParts) \in Nat
  <2>1. TakerParts \in Seq(Part) /\ MakerParts \in Seq(Part)
    BY RecordTypes, PartsType DEF TakerParts, MakerParts, Parties
  <2> QED BY <2>1, LeftType, QuantityType
<1>3. QuantityOf(u, SubSeq(Makers, 1, removed)) \in Nat
  <2>1. SubSeq(Makers, 1, removed) \in Seq(Order)
    BY RecordTypes, PrefixProperties
  <2> QED BY <2>1, LeftType, QuantityType
<1>4. phase \in Matching => QuantityOf(u, SubSeq(stops[Side], 1, triggered)) \in Nat
  <2>1. phase \in Matching => SubSeq(stops[Side], 1, triggered) \in Seq(Order)
    BY RecordTypes, PrefixProperties
  <2> QED BY <2>1, LeftType, QuantityType
<1>5. Waiting \in Seq(Order)
  BY WaitingType
<1>6. QuantityOf(u, Waiting) \in Nat
  BY <1>5, LeftType, QuantityType
<1>7. Share(u, Demand) \in Nat /\ Share(u, taker) \in Nat
  BY RecordTypes, ShareType DEF Demand
<1> QED BY <1>1, <1>2, <1>3, <1>4, <1>5, <1>6, <1>7

\* The trade that Consume records is one of the maker's user and the taker's.
LEMMA ConsumeParts ==
  ASSUME IInv, HasMaker, NEW n \in Nat, trades' = Append(trades, TradeWith(Maker, n)),
         message' = message, NEW u
  PROVE  /\ QuantityOf(u, MakerParts')
              = QuantityOf(u, MakerParts) + (IF Maker.user = u THEN n ELSE 0)
         /\ QuantityOf(u, TakerParts')
              = QuantityOf(u, TakerParts) + (IF taker.user = u THEN n ELSE 0)
<1> DEFINE t == TradeWith(Maker, n)
           maker == IF Side = "Buy" THEN "seller" ELSE "buyer"
           own == IF Side = "Buy" THEN "buyer" ELSE "seller"
<1>1. t \in Trade /\ trades \in Seq(Trade) /\ maker \in Parties /\ own \in Parties
  BY TradeType DEF Parties, IInv, TypeOK, SimulatorTypeOK
<1>2. t[maker] = Maker.user /\ t[own] = taker.user /\ t.amount = n
  BY DEF TradeWith
<1>3. /\ MakerParts' = PartsOf(maker, Append(trades, t)) /\ MakerParts = PartsOf(maker, trades)
      /\ TakerParts' = PartsOf(own, Append(trades, t)) /\ TakerParts = PartsOf(own, trades)
  BY DEF MakerParts, TakerParts, Side
<1> HIDE DEF t, maker, own
<1> QED BY <1>1, <1>2, <1>3, TradeAppended

-----------------------------------------------------------------------------
(* Steps *)

\* The record of the makers and the trades with them stay as they are.
LEMMA MakersKept ==
  ASSUME MakersPay, phase \in Recording, UNCHANGED <<message, trades, removed, lastFill>>,
         Makers' = Makers
  PROVE  MakersPay'
BY DEF MakersPay, TakenFrom, Maker, MakerParts, Side

\* A step that ends outside of the matching and the insertions.
LEMMA RecordLeft ==
  ASSUME phase' \notin Recording, Len(insertedStop') <= 1,
         phase' \in {"idle", "cancel"} =>
           trades' = <<>> /\ insertedStop' = <<>> /\ pending' = <<>>
  PROVE  QuantityInv'
BY DEF QuantityInv, MakersPay, TakersAccounted, TakersDone, Recording, Matching

\* Eating into a maker.
LEMMA ConsumePartQuantities ==
  ASSUME IInv, QuantityInv, ConsumePart
  PROVE  QuantityInv'
<1>1. /\ HasMaker /\ phase = "consume" /\ phase \in Matching /\ phase \in Recording
      /\ phase' = "kick" /\ lastFill' = lastFill + taker.left
      /\ taker' = [taker EXCEPT !.left = 0]
      /\ trades' = Append(trades, TradeWith(Maker, taker.left))
      /\ UNCHANGED <<message, removed, limits, stops, triggered, pending, insertedLimits,
                     insertedStop>>
  BY DEF ConsumePart, HasMaker, Matching, Recording, marketVars, bookVars
<1>2. taker \in Taker /\ taker.left \in Nat /\ taker.left > 0 /\ lastFill \in Nat
  BY <1>1, RecordTypes DEF IInv, SimulatorInBounds
<1>3. Side' = Side /\ Makers' = Makers /\ Maker' = Maker
  BY <1>1 DEF Side, Makers, Maker
<1>4. ASSUME NEW u \in Users PROVE (TakenFrom(u) = QuantityOf(u, MakerParts))'
  <2>1. TakenFrom(u) = QuantityOf(u, MakerParts)
    BY <1>1 DEF QuantityInv, MakersPay
  <2>2. QuantityOf(u, MakerParts')
          = QuantityOf(u, MakerParts) + (IF Maker.user = u THEN taker.left ELSE 0)
    BY <1>1, <1>2, ConsumeParts
  <2>3. QuantityOf(u, SubSeq(Makers, 1, removed)) \in Nat
    BY <1>1, RecordQuantities
  <2>4. TakenFrom(u)' = QuantityOf(u, SubSeq(Makers, 1, removed))
                          + (IF Maker.user = u THEN lastFill + taker.left ELSE 0)
    BY <1>1, <1>2, <1>3 DEF TakenFrom
  <2> QED BY <1>2, <2>1, <2>2, <2>3, <2>4 DEF TakenFrom
<1>5. ASSUME NEW u \in Users PROVE (BroughtIn(u) = AccountedFor(u))'
  <2>1. QuantityOf(u, TakerParts') = QuantityOf(u, TakerParts) + Share(u, taker)
    BY <1>1, <1>2, ConsumeParts DEF Share
  <2>2. Share(u, taker') = 0
    <3>1. taker'.left = 0
      BY <1>1, <1>2 DEF Taker
    <3> QED BY <3>1, ShareType
  <2>3. BroughtIn(u)' = BroughtIn(u) /\ Waiting' = Waiting
    BY <1>1, <1>3 DEF BroughtIn, Demand, Waiting
  <2>4. AccountedFor(u)' = QuantityOf(u, TakerParts') + QuantityOf(u, insertedLimits)
          + QuantityOf(u, insertedStop) + Share(u, taker') + QuantityOf(u, Waiting)
    BY <1>1, <2>3 DEF AccountedFor
  <2>5. AccountedFor(u)' = AccountedFor(u)
    BY <1>1, <2>1, <2>2, <2>4, RecordQuantities DEF AccountedFor
  <2>6. BroughtIn(u) = AccountedFor(u)
    BY <1>1 DEF QuantityInv, TakersAccounted
  <2> QED BY <2>3, <2>5, <2>6
<1>6. TakersDone'
  BY <1>1, <1>2 DEF QuantityInv, TakersDone, Taker
<1> QED BY <1>4, <1>5, <1>6 DEF QuantityInv, MakersPay, TakersAccounted

\* Using a maker up: it joins the removed ones, and what an earlier trade had
\* taken from it was in lastFill.
LEMMA ConsumeWholeQuantities ==
  ASSUME IInv, QuantityInv, ConsumeWhole
  PROVE  QuantityInv'
<1>1. /\ HasMaker /\ phase = "consume" /\ phase \in Matching /\ phase \in Recording
      /\ phase' = (IF MakerLeft = taker.left THEN "kick" ELSE "consume")
      /\ removed' = removed + 1 /\ lastFill' = 0
      /\ taker' = [taker EXCEPT !.left = @ - MakerLeft]
      /\ trades' = Append(trades, TradeWith(Maker, MakerLeft))
      /\ MakerLeft <= taker.left
      /\ UNCHANGED <<message, limits, stops, triggered, pending, insertedLimits, insertedStop>>
  BY DEF ConsumeWhole, HasMaker, Matching, Recording, marketVars, bookVars
<1>2. /\ taker \in Taker /\ taker.left \in Nat /\ lastFill \in Nat
      /\ Makers \in Seq(Order) /\ removed \in Nat /\ removed < Len(Makers)
      /\ Maker \in Order /\ MakerLeft \in Nat /\ Maker.left \in Nat
  BY <1>1, RecordTypes, MakerType DEF HasMaker, Order
<1>3. Side' = Side /\ Makers' = Makers
  BY <1>1 DEF Side, Makers
<1>4. ASSUME NEW u \in Users PROVE (TakenFrom(u) = QuantityOf(u, MakerParts))'
  <2>1. TakenFrom(u) = QuantityOf(u, MakerParts)
    BY <1>1 DEF QuantityInv, MakersPay
  <2>2. QuantityOf(u, MakerParts')
          = QuantityOf(u, MakerParts) + (IF Maker.user = u THEN MakerLeft ELSE 0)
    BY <1>1, <1>2, ConsumeParts
  <2>3. QuantityOf(u, SubSeq(Makers, 1, removed)) \in Nat
    BY <1>1, RecordQuantities
  <2>4. QuantityOf(u, SubSeq(Makers, 1, removed + 1))
          = QuantityOf(u, SubSeq(Makers, 1, removed))
              + (IF Maker.user = u THEN Maker.left ELSE 0)
    BY <1>2, QuantityPrefixNext DEF Maker, Share
  <2>5. TakenFrom(u)' = QuantityOf(u, SubSeq(Makers, 1, removed + 1)) + 0
    BY <1>1, <1>3 DEF TakenFrom
  <2> QED BY <1>2, <2>1, <2>2, <2>3, <2>4, <2>5 DEF TakenFrom, MakerLeft
<1>5. ASSUME NEW u \in Users PROVE (BroughtIn(u) = AccountedFor(u))'
  <2> DEFINE bought == IF taker.user = u THEN MakerLeft ELSE 0
  <2>1. QuantityOf(u, TakerParts') = QuantityOf(u, TakerParts) + bought
    BY <1>1, <1>2, ConsumeParts
  <2>2. Share(u, taker') = Share(u, taker) - bought
    <3>1. taker'.left = taker.left - MakerLeft /\ taker'.user = taker.user
      BY <1>1, <1>2 DEF Taker
    <3> QED BY <1>2, <3>1 DEF Share
  <2>3. BroughtIn(u)' = BroughtIn(u) /\ Waiting' = Waiting
    BY <1>1, <1>3 DEF BroughtIn, Demand, Waiting
  <2>4. AccountedFor(u)' = QuantityOf(u, TakerParts') + QuantityOf(u, insertedLimits)
          + QuantityOf(u, insertedStop) + Share(u, taker') + QuantityOf(u, Waiting)
    BY <1>1, <2>3 DEF AccountedFor
  <2>5. AccountedFor(u)' = AccountedFor(u)
    <3>1. bought \in Nat
      BY <1>2
    <3> HIDE DEF bought
    <3> QED BY <1>1, <2>1, <2>2, <2>4, <3>1, RecordQuantities DEF AccountedFor
  <2>6. BroughtIn(u) = AccountedFor(u)
    BY <1>1 DEF QuantityInv, TakersAccounted
  <2> QED BY <2>3, <2>5, <2>6
<1>6. TakersDone'
  <2>1. phase' = "kick" => taker'.left = 0
    BY <1>1, <1>2 DEF Taker
  <2> QED BY <1>1, <2>1 DEF QuantityInv, TakersDone
<1> QED BY <1>4, <1>5, <1>6 DEF QuantityInv, MakersPay, TakersAccounted

\* The taker's remainder moves to the orders to be inserted.
LEMMA RestLimitOrderQuantities ==
  ASSUME IInv, QuantityInv, RestLimitOrder
  PROVE  QuantityInv'
<1> DEFINE rest == [id |-> taker.id, user |-> taker.user, price |-> taker.price,
                    actual |-> 0, left |-> taker.left]
<1>1. /\ phase = "consume" /\ phase \in Matching /\ phase \in Recording /\ phase' = "kick"
      /\ taker' = [taker EXCEPT !.left = 0]
      /\ insertedLimits' = Append(insertedLimits, rest)
      /\ UNCHANGED <<message, limits, stops, triggered, pending, removed, lastFill, trades,
                     insertedStop>>
  BY DEF RestLimitOrder, Matching, Recording, marketVars, bookVars
<1>2. taker \in Taker /\ taker.left \in Nat /\ taker.left > 0 /\ insertedLimits \in Seq(Order)
  BY <1>1, RecordTypes DEF IInv, SimulatorInBounds
<1>3. Side' = Side /\ Makers' = Makers
  BY <1>1 DEF Side, Makers
<1>4. MakersPay'
  BY <1>1, <1>3, MakersKept DEF QuantityInv
<1>5. ASSUME NEW u \in Users PROVE (BroughtIn(u) = AccountedFor(u))'
  <2>1. QuantityOf(u, insertedLimits') = QuantityOf(u, insertedLimits) + Share(u, taker)
    <3>1. rest \in Order /\ Share(u, rest) = Share(u, taker)
      BY <1>2 DEF Taker, Order, Share
    <3> HIDE DEF rest
    <3> QED BY <1>1, <1>2, <3>1, LeftType, QuantityAppend
  <2>2. Share(u, taker') = 0
    <3>1. taker'.left = 0
      BY <1>1, <1>2 DEF Taker
    <3> QED BY <3>1, ShareType
  <2>3. BroughtIn(u)' = BroughtIn(u) /\ Waiting' = Waiting /\ TakerParts' = TakerParts
    BY <1>1, <1>3 DEF BroughtIn, Demand, Waiting, TakerParts
  <2>4. AccountedFor(u)' = QuantityOf(u, TakerParts) + QuantityOf(u, insertedLimits')
          + QuantityOf(u, insertedStop) + Share(u, taker') + QuantityOf(u, Waiting)
    BY <1>1, <2>3 DEF AccountedFor
  <2>5. AccountedFor(u)' = AccountedFor(u)
    BY <1>1, <2>1, <2>2, <2>4, RecordQuantities DEF AccountedFor
  <2>6. BroughtIn(u) = AccountedFor(u)
    BY <1>1 DEF QuantityInv, TakersAccounted
  <2> QED BY <2>3, <2>5, <2>6
<1>6. TakersDone'
  BY <1>1, <1>2 DEF QuantityInv, TakersDone, Taker
<1> QED BY <1>4, <1>5, <1>6 DEF QuantityInv, TakersAccounted

\* A stop-limit order moves to the one to be inserted.
LEMMA PlaceStopLimitQuantities ==
  ASSUME IInv, QuantityInv, PlaceStopLimit
  PROVE  QuantityInv'
<1> DEFINE order == [id |-> taker.id, user |-> taker.user, price |-> taker.price,
                     actual |-> taker.actual, left |-> taker.left]
<1>1. /\ phase = "stop" /\ phase \in Matching /\ phase \in Recording /\ phase' = "next"
      /\ taker' = [taker EXCEPT !.left = 0] /\ insertedStop' = <<order>>
      /\ UNCHANGED <<message, limits, stops, triggered, pending, removed, lastFill, trades,
                     insertedLimits>>
  BY DEF PlaceStopLimit, Matching, Recording, marketVars, bookVars
<1>2. taker \in Taker /\ taker.left \in Nat /\ taker.left > 0 /\ insertedStop = <<>>
  BY <1>1, RecordTypes DEF IInv, SimulatorInBounds, QuantityInv, TakersDone
<1>3. Side' = Side /\ Makers' = Makers
  BY <1>1 DEF Side, Makers
<1>4. MakersPay'
  BY <1>1, <1>3, MakersKept DEF QuantityInv
<1>5. ASSUME NEW u \in Users PROVE (BroughtIn(u) = AccountedFor(u))'
  <2>1. QuantityOf(u, insertedStop') = Share(u, taker) /\ QuantityOf(u, insertedStop) = 0
    <3>1. order \in Order /\ Share(u, order) = Share(u, taker)
      BY <1>2 DEF Taker, Order, Share
    <3> HIDE DEF order
    <3> QED BY <1>1, <1>2, <3>1, LeftType, QuantitySingle, QuantityEmpty
  <2>2. Share(u, taker') = 0
    <3>1. taker'.left = 0
      BY <1>1, <1>2 DEF Taker
    <3> QED BY <3>1, ShareType
  <2>3. BroughtIn(u)' = BroughtIn(u) /\ Waiting' = Waiting /\ TakerParts' = TakerParts
    BY <1>1, <1>3 DEF BroughtIn, Demand, Waiting, TakerParts
  <2>4. AccountedFor(u)' = QuantityOf(u, TakerParts) + QuantityOf(u, insertedLimits)
          + QuantityOf(u, insertedStop') + Share(u, taker') + QuantityOf(u, Waiting)
    BY <1>1, <2>3 DEF AccountedFor
  <2>5. AccountedFor(u)' = AccountedFor(u)
    BY <1>1, <2>1, <2>2, <2>4, RecordQuantities DEF AccountedFor
  <2>6. BroughtIn(u) = AccountedFor(u)
    BY <1>1 DEF QuantityInv, TakersAccounted
  <2> QED BY <2>3, <2>5, <2>6
<1>6. TakersDone'
  <2>1. Len(insertedStop') = 1
    BY <1>1
  <2> QED BY <1>1, <1>2, <2>1 DEF QuantityInv, TakersDone, Taker
<1> QED BY <1>4, <1>5, <1>6 DEF QuantityInv, TakersAccounted

\* An accepted order finds an empty record.
LEMMA AcceptOrderQuantities ==
  ASSUME IInv, QuantityInv, NEW m \in Orders, AcceptOrder(m)
  PROVE  QuantityInv'
<1>1. /\ phase = "idle" /\ phase' \in {"stop", "consume"} /\ message' = m
      /\ taker'.user = m.user /\ taker'.left = m.amount
      /\ UNCHANGED <<limits, stops, removed, lastFill, triggered, insertedLimits, insertedStop,
                     trades, pending>>
  BY DEF AcceptOrder, Receivable, marketVars, bookVars, simVars
<1>2. m.side \in Sides /\ m.amount \in Nat
  BY OrdersAssumption DEF OrderMessage
<1>3. /\ removed' = 0 /\ lastFill' = 0 /\ triggered' = 0 /\ insertedLimits' = <<>>
      /\ insertedStop' = <<>> /\ trades' = <<>> /\ pending' = <<>>
  BY <1>1 DEF IInv, ClearedWhenIdle, QuantityInv, TakersDone
<1>4. Makers' \in Seq(Order) /\ stops'[Side'] \in Seq(Order)
  <2>1. limits \in [Sides -> Seq(Order)] /\ stops \in [Sides -> Seq(Order)]
    BY DEF IInv, TypeOK, MarketTypeOK
  <2> QED BY <1>1, <1>2, <2>1 DEF Makers, Side, Opposite, Sides
<1>5. ASSUME NEW u, NEW book \in Seq(Order) PROVE QuantityOf(u, SubSeq(book, 1, 0)) = 0
  <2>1. 0 \in 0 .. Len(book)
    BY LenProperties
  <2>2. Len(SubSeq(book, 1, 0)) = 0
    BY <2>1, PrefixProperties
  <2> QED BY <2>2, QuantityNone
<1>6. ASSUME NEW u, NEW party PROVE QuantityOf(u, PartsOf(party, <<>>)) = 0
  <2>1. Len(PartsOf(party, <<>>)) = 0
    BY DEF PartsOf
  <2> QED BY <2>1, QuantityNone
<1>7. ASSUME NEW u \in Users PROVE (TakenFrom(u) = QuantityOf(u, MakerParts))'
  <2>1. TakenFrom(u)' = QuantityOf(u, SubSeq(Makers', 1, 0)) + 0
    BY <1>3 DEF TakenFrom
  <2>2. QuantityOf(u, MakerParts') = 0
    BY <1>3, <1>6 DEF MakerParts
  <2> QED BY <1>4, <1>5, <2>1, <2>2
<1>8. ASSUME NEW u \in Users PROVE (BroughtIn(u) = AccountedFor(u))'
  <2>1. BroughtIn(u)' = Share(u, Demand') + QuantityOf(u, SubSeq(stops'[Side'], 1, 0))
    BY <1>3 DEF BroughtIn
  <2>2. QuantityOf(u, TakerParts') = 0
    BY <1>3, <1>6 DEF TakerParts
  <2>3. QuantityOf(u, Waiting') = 0
    <3>1. Len(Waiting') = 0
      BY <1>3 DEF Waiting
    <3> QED BY <3>1, QuantityNone
  <2>4. Share(u, Demand') = Share(u, taker') /\ Share(u, taker') \in Nat
    BY <1>1, <1>2 DEF Demand, Share
  <2>5. AccountedFor(u)' = 0 + QuantityOf(u, <<>>) + QuantityOf(u, <<>>) + Share(u, taker') + 0
    BY <1>3, <2>2, <2>3 DEF AccountedFor
  <2> QED BY <1>4, <1>5, <2>1, <2>4, <2>5, QuantityEmpty
<1>9. TakersDone'
  BY <1>1, <1>3 DEF TakersDone
<1> QED BY <1>7, <1>8, <1>9 DEF QuantityInv, MakersPay, TakersAccounted

\* The triggered stop orders bring in what the calls for them are to process.
LEMMA KickOffStopOrdersQuantities ==
  ASSUME IInv, QuantityInv, KickOffStopOrders
  PROVE  QuantityInv'
<1> DEFINE k == ReachedEnd(Side, stops[Side], triggered, lastTradePrice)
           fresh == SubSeq(stops[Side], triggered + 1, k)
<1>1. /\ phase = "kick" /\ phase \in Matching /\ phase \in Recording /\ phase' = "next"
      /\ triggered' = k /\ pending' = TriggeredUpTo(k) \o pending
      /\ UNCHANGED <<message, limits, stops, taker, removed, lastFill, trades, insertedLimits,
                     insertedStop>>
  BY DEF KickOffStopOrders, Matching, Recording, marketVars, bookVars
<1>2. stops[Side] \in Seq(Order) /\ triggered \in Nat /\ triggered <= Len(stops[Side])
      /\ Len(stops[Side]) \in Nat
  BY <1>1, RecordTypes, LenProperties
<1>3. k \in triggered .. Len(stops[Side])
  BY <1>2, ReachedEndExists
<1> HIDE DEF k
<1>4. TriggeredUpTo(k) \in Seq(Triggered) /\ pending \in Seq(Triggered)
  BY <1>1, <1>3, RecordTypes, TriggeredUpToType
<1>5. Side' = Side /\ Makers' = Makers
  BY <1>1 DEF Side, Makers
<1>6. MakersPay'
  BY <1>1, <1>5, MakersKept DEF QuantityInv
<1>7. fresh \in Seq(Order) /\ Len(fresh) = k - triggered
      /\ \A j \in 1 .. k - triggered : fresh[j] = stops[Side][triggered + j]
  <2>1. triggered + 1 \in 1 .. Len(stops[Side]) + 1 /\ k \in triggered .. Len(stops[Side])
    BY <1>2, <1>3
  <2> QED BY <1>2, <1>3, <2>1, SubSeqProperties
<1> HIDE DEF fresh
<1>8. Waiting' = fresh \o Waiting
  BY WaitingTriggered DEF fresh, k
<1>9. ASSUME NEW u \in Users PROVE (BroughtIn(u) = AccountedFor(u))'
  <2>1. QuantityOf(u, SubSeq(stops[Side], 1, k))
          = QuantityOf(u, SubSeq(stops[Side], 1, triggered)) + QuantityOf(u, fresh)
    BY <1>2, <1>3, QuantityPrefixMore DEF fresh
  <2>2. QuantityOf(u, Waiting') = QuantityOf(u, fresh) + QuantityOf(u, Waiting)
    <3>1. Waiting \in Seq(Order)
      BY <1>1, RecordQuantities
    <3> QED BY <1>7, <1>8, <3>1, LeftType, QuantityConcat
  <2>3. Demand' = Demand /\ TakerParts' = TakerParts
    BY <1>1, <1>5 DEF Demand, TakerParts
  <2>4. BroughtIn(u)' = BroughtIn(u) + QuantityOf(u, fresh)
    <3>1. BroughtIn(u)' = Share(u, Demand) + QuantityOf(u, SubSeq(stops[Side], 1, k))
      BY <1>1, <1>5, <2>3 DEF BroughtIn
    <3>2. QuantityOf(u, fresh) \in Nat
      BY <1>7, LeftType, QuantityType
    <3> QED BY <1>1, <2>1, <3>1, <3>2, RecordQuantities DEF BroughtIn
  <2>5. AccountedFor(u)' = AccountedFor(u) + QuantityOf(u, fresh)
    <3>1. AccountedFor(u)' = QuantityOf(u, TakerParts) + QuantityOf(u, insertedLimits)
            + QuantityOf(u, insertedStop) + Share(u, taker) + QuantityOf(u, Waiting')
      BY <1>1, <2>3 DEF AccountedFor
    <3>2. QuantityOf(u, fresh) \in Nat
      BY <1>7, LeftType, QuantityType
    <3> QED BY <1>1, <2>2, <3>1, <3>2, RecordQuantities DEF AccountedFor
  <2>6. BroughtIn(u) = AccountedFor(u)
    BY <1>1 DEF QuantityInv, TakersAccounted
  <2> QED BY <2>4, <2>5, <2>6
<1>10. TakersDone'
  BY <1>1 DEF QuantityInv, TakersDone
<1> QED BY <1>6, <1>9, <1>10 DEF QuantityInv, TakersAccounted

\* A call that has not traded brings in nothing.
LEMMA NoTradeNoKickQuantities ==
  ASSUME IInv, QuantityInv, NoTradeNoKick
  PROVE  QuantityInv'
<1>1. /\ phase = "kick" /\ phase \in Matching /\ phase \in Recording /\ phase' = "next"
      /\ UNCHANGED <<message, limits, stops, taker, removed, lastFill, trades, insertedLimits,
                     insertedStop, triggered, pending>>
  BY DEF NoTradeNoKick, Matching, Recording, marketVars, bookVars, callVars, simVars
<1>2. Side' = Side /\ Makers' = Makers
  BY <1>1 DEF Side, Makers
<1>3. MakersPay'
  BY <1>1, <1>2, MakersKept DEF QuantityInv
<1>4. TakersAccounted'
  <2>1. Demand' = Demand /\ TakerParts' = TakerParts /\ Waiting' = Waiting
    BY <1>1, <1>2 DEF Demand, TakerParts, Waiting
  <2> QED BY <1>1, <1>2, <2>1 DEF QuantityInv, TakersAccounted, BroughtIn, AccountedFor
<1> QED BY <1>1, <1>3, <1>4 DEF QuantityInv, TakersDone

\* A triggered stop order becomes the taker.
LEMMA ProcessStopOrderQuantities ==
  ASSUME IInv, QuantityInv, ProcessStopOrder
  PROVE  QuantityInv'
<1> DEFINE o == Head(pending).order
<1>1. /\ phase = "next" /\ phase \in Matching /\ phase \in Recording /\ phase' = "consume"
      /\ pending # <<>> /\ pending' = Tail(pending)
      /\ taker'.user = o.user /\ taker'.left = o.left
      /\ UNCHANGED <<message, limits, stops, removed, lastFill, trades, insertedLimits,
                     insertedStop, triggered>>
  BY DEF ProcessStopOrder, Matching, Recording, marketVars, bookVars, simVars
<1> HIDE DEF o
<1>2. Side' = Side /\ Makers' = Makers
  BY <1>1 DEF Side, Makers
<1>3. MakersPay'
  BY <1>1, <1>2, MakersKept DEF QuantityInv
<1>4. /\ Waiting \in Seq(Order) /\ Waiting # <<>>
      /\ Head(Waiting) = o /\ Waiting' = Tail(Waiting)
  BY <1>1, WaitingProcessed DEF o
<1>5. ASSUME NEW u \in Users PROVE (BroughtIn(u) = AccountedFor(u))'
  <2>1. /\ QuantityOf(u, Waiting) = Share(u, o) + QuantityOf(u, Waiting')
        /\ QuantityOf(u, Waiting') \in Nat
    <3>1. /\ QuantityOf(u, Waiting) = Share(u, Head(Waiting)) + QuantityOf(u, Tail(Waiting))
          /\ Tail(Waiting) \in Seq(Order)
      BY <1>4, LeftType, QuantityTail
    <3> QED BY <1>4, <3>1, LeftType, QuantityType
  <2>2. Share(u, taker) = 0 /\ Share(u, taker') = Share(u, o) /\ Share(u, o) \in Nat
    <3>1. taker.left = 0
      BY <1>1 DEF QuantityInv, TakersDone
    <3>2. o \in Order
      BY <1>4, HeadTailProperties
    <3>3. o.left \in Nat
      BY <3>2, LeftType
    <3> QED BY <1>1, <3>1, <3>3 DEF Share
  <2>3. Demand' = Demand /\ TakerParts' = TakerParts /\ BroughtIn(u)' = BroughtIn(u)
    BY <1>1, <1>2 DEF Demand, TakerParts, BroughtIn
  <2>4. AccountedFor(u)' = QuantityOf(u, TakerParts) + QuantityOf(u, insertedLimits)
          + QuantityOf(u, insertedStop) + Share(u, taker') + QuantityOf(u, Waiting')
    BY <1>1, <2>3 DEF AccountedFor
  <2>5. AccountedFor(u)' = AccountedFor(u)
    BY <1>1, <2>1, <2>2, <2>4, RecordQuantities DEF AccountedFor
  <2>6. BroughtIn(u) = AccountedFor(u)
    BY <1>1 DEF QuantityInv, TakersAccounted
  <2> QED BY <2>3, <2>5, <2>6
<1>6. TakersDone'
  BY <1>1 DEF QuantityInv, TakersDone
<1> QED BY <1>3, <1>5, <1>6 DEF QuantityInv, TakersAccounted

\* The stop orders leave their book, the makers and the record stay.
LEMMA PostProcessQuantities ==
  ASSUME IInv, QuantityInv, PostProcess
  PROVE  QuantityInv'
<1>1. /\ phase = "next" /\ phase \in Recording /\ phase' = "insert"
      /\ UNCHANGED <<message, limits, removed, lastFill, trades, insertedStop>>
  BY DEF PostProcess, Matching, Recording, simVars, callVars
<1>2. Makers' = Makers
  BY <1>1 DEF Side, Makers
<1>3. MakersPay'
  BY <1>1, <1>2, MakersKept DEF QuantityInv
<1> QED BY <1>1, <1>3 DEF QuantityInv, TakersAccounted, TakersDone, Matching

\* An order is inserted on the side of the taker: the makers stay.
LEMMA InsertLimitOrderQuantities ==
  ASSUME IInv, QuantityInv, InsertLimitOrder
  PROVE  QuantityInv'
<1>1. /\ phase = "insert" /\ phase \in Recording /\ phase \in OrderPhases /\ phase' = "insert"
      /\ UNCHANGED <<message, removed, lastFill, trades, insertedStop>>
  BY DEF InsertLimitOrder, Recording, OrderPhases, callVars
<1>2. Makers' = Makers
  <2>1. Side \in Sides /\ Side' = Side
    BY <1>1, SideType DEF Side
  <2>2. limits \in [Sides -> Seq(Order)]
    BY DEF IInv, TypeOK, MarketTypeOK
  <2>3. limits'[Opposite(Side)] = limits[Opposite(Side)]
    BY <2>1, <2>2 DEF InsertLimitOrder, Opposite, Sides
  <2> QED BY <2>1, <2>3 DEF Makers
<1>3. MakersPay'
  BY <1>1, <1>2, MakersKept DEF QuantityInv
<1> QED BY <1>1, <1>3 DEF QuantityInv, TakersAccounted, TakersDone, Matching

\* The commit of the makers, the settlement and the reply.
LEMMA CommitQuantities ==
  ASSUME QuantityInv, UpdateBooks \/ SettleTrade \/ AnswerOrder
  PROVE  QuantityInv'
<1>1. Len(insertedStop) <= 1
  BY DEF QuantityInv, TakersDone
<1>2. CASE UpdateBooks \/ SettleTrade
  BY <1>1, <1>2, RecordLeft DEF UpdateBooks, SettleTrade, Recording, Matching, simVars
<1>3. CASE AnswerOrder
  BY <1>3, RecordLeft DEF AnswerOrder, Clear, Return, Recording, Matching
<1> QED BY <1>2, <1>3

\* An exception empties the record.
LEMMA ThrowQuantities ==
  ASSUME NEW e, Throw(e)
  PROVE  QuantityInv'
BY RecordLeft DEF Throw, Clear, Return, Recording, Matching

\* So do the orders that throw.
LEMMA RefusalQuantities ==
  ASSUME ConsumeOwn \/ MarketOrderUnfilled \/ LimitOrderRefused \/ StopLimitRefused
  PROVE  QuantityInv'
BY ThrowQuantities DEF ConsumeOwn, MarketOrderUnfilled, LimitOrderRefused, StopLimitRefused

\* The other messages find the record empty and leave it so.
LEMMA IdleQuantities ==
  ASSUME QuantityInv, phase \in {"idle", "cancel"}, phase' \in {"idle", "cancel"},
         UNCHANGED <<simVars, pending>>
  PROVE  QuantityInv'
<1>1. trades' = <<>> /\ insertedStop' = <<>> /\ pending' = <<>>
  BY DEF QuantityInv, TakersDone, simVars
<1> QED BY <1>1, RecordLeft DEF Recording, Matching

\* The messages that are not accepted orders.
LEMMA OtherMessagesQuantities ==
  ASSUME QuantityInv,
         \/ \E m \in Orders : RejectOrder(m)
         \/ \E kind \in {"limit", "stop"}, side \in Sides :
              \E i \in 1 .. Len(Book(kind, side)) : CancelOrder(kind, side, i)
         \/ CancelUnknownOrder
         \/ \E user \in Users : ClearOpenOrders(user)
         \/ ClearEveryonesOpenOrders
         \/ SetFeePercentage \/ SetMaxNumLimitOpenOrders \/ SetMaxNumStopLimitOpenOrders
         \/ CancelledAll \/ \E e \in toCancel : CancelNext(e) \/ CancelStale(e)
  PROVE  QuantityInv'
<1>1. /\ phase \in {"idle", "cancel"} /\ phase' \in {"idle", "cancel"}
      /\ UNCHANGED <<simVars, pending>>
  BY DEF RejectOrder, Receivable, CancelOrder, CancelUnknownOrder, ClearOpenOrders,
         ClearEveryonesOpenOrders, SetFeePercentage, SetMaxNumLimitOpenOrders,
         SetMaxNumStopLimitOpenOrders, SetConfig, CancelledAll, CancelNext, CancelStale, callVars
<1> QED BY <1>1, IdleQuantities

\* A new market satisfies the invariant, and every step keeps it.
LEMMA QuantityInitial == Init => QuantityInv
<1> SUFFICES ASSUME Init PROVE QuantityInv
  OBVIOUS
<1>1. phase = "idle" /\ trades = <<>> /\ insertedStop = <<>> /\ pending = <<>>
  BY DEF Init
<1> QED BY <1>1 DEF QuantityInv, MakersPay, TakersAccounted, TakersDone, Recording, Matching

LEMMA QuantityStep ==
  ASSUME IInv, QuantityInv, [Next]_vars
  PROVE  QuantityInv'
<1>1. CASE ConsumeOwn \/ MarketOrderUnfilled \/ LimitOrderRefused \/ StopLimitRefused
  BY <1>1, RefusalQuantities
<1>2. CASE ConsumePart
  BY <1>2, ConsumePartQuantities
<1>3. CASE ConsumeWhole
  BY <1>3, ConsumeWholeQuantities
<1>4. CASE RestLimitOrder
  BY <1>4, RestLimitOrderQuantities
<1>5. CASE PlaceStopLimit
  BY <1>5, PlaceStopLimitQuantities
<1>6. CASE KickOffStopOrders
  BY <1>6, KickOffStopOrdersQuantities
<1>7. CASE NoTradeNoKick
  BY <1>7, NoTradeNoKickQuantities
<1>8. CASE ProcessStopOrder
  BY <1>8, ProcessStopOrderQuantities
<1>9. CASE PostProcess
  BY <1>9, PostProcessQuantities
<1>10. CASE InsertLimitOrder
  BY <1>10, InsertLimitOrderQuantities
<1>11. CASE UpdateBooks \/ SettleTrade \/ AnswerOrder
  BY <1>11, CommitQuantities
<1>12. CASE \E m \in Orders : AcceptOrder(m)
  BY <1>12, AcceptOrderQuantities
<1>13. CASE \/ \E m \in Orders : RejectOrder(m)
            \/ \E kind \in {"limit", "stop"}, side \in Sides :
                 \E i \in 1 .. Len(Book(kind, side)) : CancelOrder(kind, side, i)
            \/ CancelUnknownOrder
            \/ \E user \in Users : ClearOpenOrders(user)
            \/ ClearEveryonesOpenOrders
            \/ SetFeePercentage \/ SetMaxNumLimitOpenOrders \/ SetMaxNumStopLimitOpenOrders
            \/ CancelledAll \/ \E e \in toCancel : CancelNext(e) \/ CancelStale(e)
  BY <1>13, OtherMessagesQuantities
<1>14. CASE UNCHANGED vars
  BY <1>14 DEF vars, marketVars, bookVars, simVars, callVars, QuantityInv, MakersPay,
               TakersAccounted, TakersDone, TakenFrom, Maker, Makers, MakerParts, TakerParts,
               BroughtIn, AccountedFor, Demand, Waiting, Side
<1> QED BY <1>1, <1>2, <1>3, <1>4, <1>5, <1>6, <1>7, <1>8, <1>9, <1>10, <1>11, <1>12, <1>13,
           <1>14 DEF Next, Processing, Receive

-----------------------------------------------------------------------------
(* The theorems on quantities *)

\* The invariant holds of every market, whatever its users send.
THEOREM QuantityInvariance == Spec => []QuantityInv
<1>1. IInv /\ QuantityInv /\ [Next]_vars => QuantityInv'
  BY QuantityStep
<1> QED BY QuantityInitial, Invariance, <1>1, PTL DEF Spec

\* What CommitChanges takes from the orders of a maker, whole levels, single
\* orders and lastFill, is what the trades say the maker has traded.
THEOREM MakersPayWhatTheyTraded == Spec => []MakersPayTrades
<1>1. QuantityInv => MakersPayTrades
  BY DEF QuantityInv, MakersPay, MakersPayTrades, Recording
<1> QED BY QuantityInvariance, <1>1, PTL

\* However many stop orders a message sets off, every user's quantity has traded,
\* rests, waits to be processed or is being matched.
THEOREM TakersAreAccountedFor == Spec => []TakersAccounted
<1>1. QuantityInv => TakersAccounted
  BY DEF QuantityInv
<1> QED BY QuantityInvariance, <1>1, PTL

-----------------------------------------------------------------------------
(* Wallets and books *)

\* What a trade does to the wallet of coin.
LEMMA CoinSettled ==
  ASSUME NEW wallet \in [Users -> Address], NEW t \in Trade, NEW u \in Users
  PROVE  LET after == Debit(Credit(wallet, t.buyer, t.amount - t.buyFee), t.seller, t.amount)
         IN  /\ after[u].inOrder = wallet[u].inOrder - (IF t.seller = u THEN t.amount ELSE 0)
             /\ after[u].total = wallet[u].total
                                   + (IF t.buyer = u THEN t.amount - t.buyFee ELSE 0)
                                   - (IF t.seller = u THEN t.amount ELSE 0)
<1> DEFINE mid == Credit(wallet, t.buyer, t.amount - t.buyFee)
           after == Debit(mid, t.seller, t.amount)
           given == IF t.buyer = u THEN t.amount - t.buyFee ELSE 0
           taken == IF t.seller = u THEN t.amount ELSE 0
<1>1. /\ t.buyer \in Users /\ t.seller \in Users /\ t.amount \in Int
      /\ t.amount - t.buyFee \in Int
  BY DEF Trade
<1>2. /\ mid \in [Users -> Address] /\ mid[u].inOrder = wallet[u].inOrder
      /\ mid[u].total = wallet[u].total + given
  <2>1. mid \in [Users -> Address]
    BY <1>1, CreditDebitType
  <2> QED BY <1>1, <2>1 DEF Credit, Address
<1> HIDE DEF mid
<1>3. after[u].inOrder = mid[u].inOrder - taken /\ after[u].total = mid[u].total - taken
  BY <1>1, <1>2 DEF Debit, Address
<1>4. wallet[u].total \in Int /\ given \in Int /\ taken \in Int
  BY <1>1 DEF Address
<1> HIDE DEF after, given, taken
<1>5. /\ after[u].inOrder = wallet[u].inOrder - taken
      /\ after[u].total = wallet[u].total + given - taken
  BY ONLY <1>2, <1>3, <1>4
<1> QED BY ONLY <1>5 DEF mid, after, given, taken

\* Holding an amount for a user.
LEMMA HoldProperties ==
  ASSUME NEW wallet \in [Users -> Address], NEW user \in Users, NEW n \in Int, NEW u \in Users
  PROVE  /\ Hold(wallet, user, n)[u].total = wallet[u].total
         /\ Hold(wallet, user, n)[u].inOrder
              = wallet[u].inOrder + (IF user = u THEN n ELSE 0)
BY DEF Hold, Address

\* The orders offered for sale add up to natural numbers.
LEMMA SellsType ==
  ASSUME IInv, NEW u
  PROVE  /\ limits["Sell"] \in Seq(Order) /\ stops["Sell"] \in Seq(Order)
         /\ QuantityOf(u, limits["Sell"]) \in Nat /\ QuantityOf(u, stops["Sell"]) \in Nat
<1>1. limits["Sell"] \in Seq(Order) /\ stops["Sell"] \in Seq(Order)
  BY DEF IInv, TypeOK, MarketTypeOK, Sides
<1> QED BY <1>1, LeftType, QuantityType

\* The same of the sales to be settled.
LEMMA SoldType ==
  ASSUME IInv, NEW u
  PROVE  QuantityOf(u, Sold) \in Nat
<1>1. trades \in Seq(Trade)
  BY DEF IInv, TypeOK, SimulatorTypeOK
<1>2. Sold \in Seq(Part)
  BY <1>1, PartsType DEF Sold, Parties
<1> QED BY <1>2, LeftType, QuantityType

\* All the escrow is made of are integers.
LEMMA EscrowTypes ==
  ASSUME NEW u \in Users
  PROVE  IInv => coin[u].inOrder \in Int /\ OpenSells(u) \in Int /\ Moving(u) \in Int
<1> SUFFICES ASSUME IInv
             PROVE  coin[u].inOrder \in Int /\ OpenSells(u) \in Int /\ Moving(u) \in Int
  OBVIOUS
<1>1. coin[u].inOrder \in Int
  BY DEF IInv, TypeOK, MarketTypeOK, Address
<1>2. OpenSells(u) \in Int
  BY SellsType DEF OpenSells
<1>3. Moving(u) \in Int
  <2>1. CASE phase = "insert" /\ Side = "Sell"
    <3>1. phase \in Recording
      BY <2>1 DEF Recording
    <3>2. /\ QuantityOf(u, insertedLimits) \in Nat /\ QuantityOf(u, insertedStop) \in Nat
          /\ Share(u, Demand) \in Nat /\ QuantityOf(u, Sold) \in Nat
      BY <3>1, RecordQuantities, SoldType
    <3> QED BY <2>1, <3>2 DEF Moving
  <2>2. CASE ~(phase = "insert" /\ Side = "Sell")
    BY <2>2, SoldType DEF Moving
  <2> QED BY <2>1, <2>2
<1> QED BY <1>1, <1>2, <1>3

\* The makers lose what is taken from them.
LEMMA UpdatedMakersQuantity ==
  ASSUME IInv, phase = "insert", NEW u
  PROVE  QuantityOf(u, UpdatedMakers) = QuantityOf(u, Makers) - TakenFrom(u)
<1>1. phase \in Recording
  BY DEF Recording
<1>2. /\ Makers \in Seq(Order) /\ removed \in 0 .. Len(Makers) /\ lastFill \in Nat
      /\ lastFill > 0 => removed < Len(Makers) /\ lastFill < Maker.left
  BY <1>1, RecordTypes DEF IInv, SimulatorInBounds
<1> DEFINE rest == DropFirst(Makers, removed)
           first == SubSeq(Makers, 1, removed)
<1>3. /\ rest \in Seq(Order) /\ Len(rest) = Len(Makers) - removed /\ Len(Makers) \in Nat
      /\ \A i \in 1 .. Len(Makers) - removed : rest[i] = Makers[removed + i]
  BY <1>2, DropFirstProperties, LenProperties
<1>4. QuantityOf(u, Makers) = QuantityOf(u, first) + QuantityOf(u, rest)
  BY <1>2, LeftType, QuantitySplit
<1>5. QuantityOf(u, first) \in Nat /\ QuantityOf(u, rest) \in Nat
  BY <1>1, <1>3, RecordQuantities, LeftType, QuantityType
<1>6. TakenFrom(u) = QuantityOf(u, first) + (IF lastFill > 0 /\ Maker.user = u THEN lastFill ELSE 0)
  BY DEF TakenFrom
<1>7. UpdatedMakers = IF lastFill > 0 THEN [rest EXCEPT ![1].left = @ - lastFill] ELSE rest
  BY DEF UpdatedMakers
<1> HIDE DEF rest, first
<1>8. CASE lastFill > 0
  <2> DEFINE eaten == [Maker EXCEPT !.left = @ - lastFill]
  <2>1. 1 \in 1 .. Len(rest) /\ rest[1] = Maker /\ rest # <<>>
    <3>1. removed < Len(Makers) /\ 1 \in 1 .. Len(Makers) - removed
      BY <1>2, <1>3, <1>8
    <3>2. rest[1] = Maker /\ Len(rest) > 0
      BY <1>3, <3>1 DEF Maker
    <3> QED BY <1>3, <3>1, <3>2
  <2>2. Maker \in Order
    BY <1>3, <2>1, ElementOfSeq
  <2>3. eaten \in Order /\ eaten.user = Maker.user /\ eaten.left = Maker.left - lastFill
        /\ Maker.left \in Nat
    <3>1. Maker.left \in Nat
      BY <2>2 DEF Order
    <3>2. Maker.left - lastFill \in Nat \ {0}
      BY <1>2, <1>8, <3>1
    <3> QED BY <2>2, <3>1, <3>2 DEF Order
  <2>4. UpdatedMakers = [rest EXCEPT ![1] = eaten]
    BY <1>7, <1>8, <2>1
  <2> HIDE DEF eaten
  <2>5. QuantityOf(u, UpdatedMakers) = QuantityOf(u, rest) - Share(u, Maker) + Share(u, eaten)
    BY <1>3, <2>1, <2>3, <2>4, LeftType, QuantityFirstChanged
  <2>6. Share(u, eaten) = Share(u, Maker) - (IF Maker.user = u THEN lastFill ELSE 0)
        /\ Share(u, Maker) \in Nat
    BY <1>2, <2>3 DEF Share
  <2> QED BY <1>2, <1>4, <1>5, <1>6, <1>8, <2>5, <2>6
<1>9. CASE ~(lastFill > 0)
  BY <1>4, <1>5, <1>6, <1>7, <1>9
<1> QED BY <1>8, <1>9

-----------------------------------------------------------------------------
(* The escrow of coin *)

\* Nothing moves outside of the commit.
LEMMA EscrowKept ==
  ASSUME NEW others \in [Users -> Int], HeldFor(others), UNCHANGED <<limits, stops, coin>>,
         phase \notin {"insert", "settle"}, phase' \notin {"insert", "settle"}
  PROVE  HeldFor(others)'
<1>1. ASSUME NEW u \in Users PROVE (coin[u].inOrder = OpenSells(u) + Moving(u) + others[u])'
  <2>1. Moving(u) = 0 /\ Moving(u)' = 0
    BY DEF Moving
  <2>2. OpenSells(u)' = OpenSells(u)
    BY DEF OpenSells
  <2> QED BY <2>1, <2>2 DEF HeldFor
<1> QED BY <1>1 DEF HeldFor

\* The triggered stop orders leave their book: they are what rests, was sold and
\* was not the message's own.
LEMMA PostProcessEscrow ==
  ASSUME NEW others \in [Users -> Int], HeldFor(others), IInv, QuantityInv, PostProcess
  PROVE  HeldFor(others)'
<1>1. /\ phase = "next" /\ phase \in Matching /\ phase \in Recording /\ phase' = "insert"
      /\ pending = <<>> /\ stops' = [stops EXCEPT ![Side] = DropFirst(@, triggered)]
      /\ UNCHANGED <<message, limits, coin, trades, insertedLimits, insertedStop>>
  BY DEF PostProcess, Matching, Recording, simVars, callVars, walletVars
<1>2. /\ Side \in Sides /\ stops[Side] \in Seq(Order) /\ triggered \in 0 .. Len(stops[Side])
      /\ stops \in [Sides -> Seq(Order)]
  <2>1. Len(stops[Side]) \in Nat
    BY <1>1, RecordTypes, LenProperties
  <2> QED BY <1>1, <2>1, RecordTypes DEF IInv, TypeOK, MarketTypeOK, SimulatorInBounds
<1>3. Side' = Side /\ Demand' = Demand /\ Sold' = Sold
  BY <1>1 DEF Side, Demand, Sold
<1>4. ASSUME NEW u \in Users PROVE (coin[u].inOrder = OpenSells(u) + Moving(u) + others[u])'
  <2>1. coin[u].inOrder
          = QuantityOf(u, limits["Sell"]) + QuantityOf(u, stops["Sell"]) + 0 + others[u]
    BY <1>1 DEF HeldFor, Moving, OpenSells
  <2>2. CASE Side = "Buy"
    <3>1. stops'["Sell"] = stops["Sell"]
      BY <1>1, <1>2, <2>2 DEF Sides
    <3>2. Moving(u)' = 0
      BY <1>1, <1>3, <2>2 DEF Moving
    <3> QED BY <1>1, <2>1, <3>1, <3>2 DEF OpenSells
  <2>3. CASE Side = "Sell"
    <3>1. stops'["Sell"] = DropFirst(stops["Sell"], triggered)
      BY <1>1, <1>2, <2>3
    <3>2. QuantityOf(u, stops["Sell"])
            = QuantityOf(u, SubSeq(stops["Sell"], 1, triggered)) + QuantityOf(u, stops'["Sell"])
      BY <1>2, <2>3, <3>1, LeftType, QuantitySplit
    <3>3. QuantityOf(u, stops'["Sell"]) \in Nat
      BY <1>2, <2>3, <3>1, DropFirstProperties, LeftType, QuantityType
    <3>4. Moving(u)' = QuantityOf(u, insertedLimits) + QuantityOf(u, insertedStop)
                         + QuantityOf(u, Sold) - Share(u, Demand)
      BY <1>1, <1>3, <2>3 DEF Moving
    <3>5. TakerParts = Sold
      BY <2>3 DEF TakerParts, Sold
    <3>6. QuantityOf(u, Waiting) = 0 /\ Share(u, taker) = 0
      <4>1. taker.left = 0
        BY <1>1 DEF QuantityInv, TakersDone
      <4>2. Len(Waiting) = 0
        BY <1>1 DEF Waiting
      <4> QED BY <4>1, <4>2, QuantityNone DEF Share
    <3>7. Share(u, Demand) + QuantityOf(u, SubSeq(stops["Sell"], 1, triggered))
            = QuantityOf(u, Sold) + QuantityOf(u, insertedLimits) + QuantityOf(u, insertedStop)
                + 0 + 0
      <4>1. BroughtIn(u) = AccountedFor(u)
        BY <1>1 DEF QuantityInv, TakersAccounted
      <4> QED BY <2>3, <3>5, <3>6, <4>1 DEF BroughtIn, AccountedFor
    <3>8. /\ QuantityOf(u, insertedLimits) \in Nat /\ QuantityOf(u, insertedStop) \in Nat
          /\ QuantityOf(u, Sold) \in Nat /\ Share(u, Demand) \in Nat
          /\ QuantityOf(u, SubSeq(stops["Sell"], 1, triggered)) \in Nat
      BY <1>1, <2>3, <3>5, RecordQuantities
    <3>9. QuantityOf(u, limits["Sell"]) \in Nat
      BY SellsType
    <3>10. OpenSells(u)' = QuantityOf(u, limits["Sell"]) + QuantityOf(u, stops'["Sell"])
      BY <1>1 DEF OpenSells
    <3>11. coin[u].inOrder = OpenSells(u)' + Moving(u)' + others[u]
      BY <2>1, <3>2, <3>3, <3>4, <3>7, <3>8, <3>9, <3>10
    <3> QED BY <1>1, <3>11
  <2> QED BY <1>2, <2>2, <2>3 DEF Sides
<1> QED BY <1>1, <1>4 DEF HeldFor

\* An order that comes to rest moves from the record to its book.
LEMMA InsertLimitOrderEscrow ==
  ASSUME NEW others \in [Users -> Int], HeldFor(others), IInv, InsertLimitOrder
  PROVE  HeldFor(others)'
<1> DEFINE o == Head(insertedLimits)
<1>1. /\ phase = "insert" /\ phase \in Recording /\ phase' = "insert"
      /\ insertedLimits # <<>> /\ insertedLimits' = Tail(insertedLimits)
      /\ limits' = [limits EXCEPT ![Side] = PushBack(Opposite(Side), @, o)]
      /\ UNCHANGED <<message, stops, coin, trades, insertedStop>>
  BY DEF InsertLimitOrder, Recording, callVars, walletVars
<1>2. /\ Side \in Sides /\ limits \in [Sides -> Seq(Order)] /\ insertedLimits \in Seq(Order)
      /\ o \in Order /\ insertedLimits' \in Seq(Order)
  BY <1>1, RecordTypes, HeadTailProperties DEF IInv, TypeOK, MarketTypeOK
<1> HIDE DEF o
<1>3. Side' = Side /\ Demand' = Demand /\ Sold' = Sold
  BY <1>1 DEF Side, Demand, Sold
<1>4. ASSUME NEW u \in Users PROVE (coin[u].inOrder = OpenSells(u) + Moving(u) + others[u])'
  <2>1. coin[u].inOrder = OpenSells(u) + Moving(u) + others[u]
    BY DEF HeldFor
  <2>2. CASE Side = "Buy"
    <3>1. limits'["Sell"] = limits["Sell"]
      BY <1>1, <1>2, <2>2 DEF Sides
    <3>2. Moving(u)' = 0 /\ Moving(u) = 0
      BY <1>1, <1>3, <2>2 DEF Moving
    <3> QED BY <1>1, <2>1, <3>1, <3>2 DEF OpenSells
  <2>3. CASE Side = "Sell"
    <3>1. limits'["Sell"] = PushBack(Opposite(Side), limits["Sell"], o)
      BY <1>1, <1>2, <2>3
    <3>2. QuantityOf(u, limits'["Sell"]) = QuantityOf(u, limits["Sell"]) + Share(u, o)
      BY <1>2, <2>3, <3>1, LeftType, QuantityPushBack
    <3>3. QuantityOf(u, insertedLimits) = Share(u, o) + QuantityOf(u, insertedLimits')
      BY <1>1, <1>2, LeftType, QuantityTail DEF o
    <3>4. Moving(u) = QuantityOf(u, insertedLimits) + QuantityOf(u, insertedStop)
                        + QuantityOf(u, Sold) - Share(u, Demand)
      BY <1>1, <2>3 DEF Moving
    <3>5. Moving(u)' = QuantityOf(u, insertedLimits') + QuantityOf(u, insertedStop)
                         + QuantityOf(u, Sold) - Share(u, Demand)
      BY <1>1, <1>3, <2>3 DEF Moving
    <3>6. /\ QuantityOf(u, insertedStop) \in Nat /\ Share(u, Demand) \in Nat
          /\ QuantityOf(u, Sold) \in Nat
          /\ QuantityOf(u, limits["Sell"]) \in Nat /\ QuantityOf(u, stops["Sell"]) \in Nat
      BY <1>1, RecordQuantities, SoldType, SellsType
    <3>7. QuantityOf(u, insertedLimits') \in Nat /\ Share(u, o) \in Nat
      <4>1. o.left \in Nat
        BY <1>2, LeftType
      <4> QED BY <1>2, <4>1, LeftType, QuantityType, ShareType
    <3>8. OpenSells(u) = QuantityOf(u, limits["Sell"]) + QuantityOf(u, stops["Sell"])
      BY DEF OpenSells
    <3>9. OpenSells(u)' = QuantityOf(u, limits'["Sell"]) + QuantityOf(u, stops["Sell"])
      BY <1>1 DEF OpenSells
    <3> QED BY <1>1, <2>1, <3>2, <3>3, <3>4, <3>5, <3>6, <3>7, <3>8, <3>9
  <2> QED BY <1>2, <2>2, <2>3 DEF Sides
<1> QED BY <1>1, <1>4 DEF HeldFor

\* The makers lose what they sold, or the stop order is filed and the message's
\* amount is held.
LEMMA UpdateBooksEscrow ==
  ASSUME NEW others \in [Users -> Int], HeldFor(others), IInv, QuantityInv, UpdateBooks
  PROVE  HeldFor(others)'
<1>1. /\ phase = "insert" /\ phase \in Recording /\ phase' = "settle" /\ insertedLimits = <<>>
      /\ limits' = [limits EXCEPT ![Opposite(Side)] = UpdatedMakers]
      /\ stops' = (IF insertedStop = <<>> THEN stops
                   ELSE [stops EXCEPT ![Side] = PushBack(Side, @, insertedStop[1])])
      /\ coin' = (IF Side = "Sell" THEN Hold(coin, message.user, message.amount) ELSE coin)
      /\ UNCHANGED <<message, trades>>
  BY DEF UpdateBooks, Recording, callVars, simVars
<1>2. /\ Side \in Sides /\ limits \in [Sides -> Seq(Order)] /\ stops \in [Sides -> Seq(Order)]
      /\ insertedStop \in Seq(Order) /\ Len(insertedStop) <= 1
      /\ coin \in [Users -> Address] /\ message.user \in Users /\ message.amount \in Int
  BY <1>1, RecordTypes DEF IInv, TypeOK, MarketTypeOK, QuantityInv, TakersDone
<1>3. Side' = Side /\ Sold' = Sold
  BY <1>1 DEF Side, Sold
<1>4. ASSUME NEW u \in Users PROVE (coin[u].inOrder = OpenSells(u) + Moving(u) + others[u])'
  <2>1. coin[u].inOrder = OpenSells(u) + Moving(u) + others[u]
    BY DEF HeldFor
  <2>2. Moving(u)' = QuantityOf(u, Sold)
    BY <1>1, <1>3 DEF Moving
  <2>3. CASE Side = "Buy"
    <3>1. limits'["Sell"] = UpdatedMakers /\ stops'["Sell"] = stops["Sell"]
          /\ Makers = limits["Sell"]
      BY <1>1, <1>2, <2>3 DEF Sides, Opposite, Makers
    <3>2. QuantityOf(u, UpdatedMakers) = QuantityOf(u, limits["Sell"]) - TakenFrom(u)
      BY <1>1, <3>1, UpdatedMakersQuantity
    <3>3. TakenFrom(u) = QuantityOf(u, Sold)
      BY <1>1, <2>3 DEF QuantityInv, MakersPay, MakerParts, Sold
    <3>4. Moving(u) = 0
      BY <1>1, <2>3 DEF Moving
    <3>5. OpenSells(u)' = QuantityOf(u, limits["Sell"]) - QuantityOf(u, Sold)
                            + QuantityOf(u, stops["Sell"])
      BY <3>1, <3>2, <3>3 DEF OpenSells
    <3>6. /\ QuantityOf(u, Sold) \in Nat
          /\ QuantityOf(u, limits["Sell"]) \in Nat /\ QuantityOf(u, stops["Sell"]) \in Nat
      BY SoldType, SellsType
    <3>7. coin' = coin
      BY <1>1, <2>3
    <3> QED BY <2>1, <2>2, <3>4, <3>5, <3>6, <3>7 DEF OpenSells
  <2>4. CASE Side = "Sell"
    <3>1. limits'["Sell"] = limits["Sell"]
      BY <1>1, <1>2, <2>4 DEF Sides, Opposite
    <3>2. QuantityOf(u, stops'["Sell"]) = QuantityOf(u, stops["Sell"]) + QuantityOf(u, insertedStop)
      <4>1. CASE insertedStop = <<>>
        <5>1. QuantityOf(u, stops["Sell"]) \in Nat
          BY SellsType
        <5> QED BY <1>1, <4>1, <5>1, QuantityEmpty
      <4>2. CASE insertedStop # <<>>
        <5>1. insertedStop[1] \in Order /\ insertedStop = <<insertedStop[1]>>
          BY <1>2, <4>2, OnlyElement
        <5>2. stops'["Sell"] = PushBack(Side, stops["Sell"], insertedStop[1])
          BY <1>1, <1>2, <2>4, <4>2
        <5>3. stops["Sell"] \in Seq(Order)
          BY SellsType
        <5>4. QuantityOf(u, stops'["Sell"])
                = QuantityOf(u, stops["Sell"]) + Share(u, insertedStop[1])
          BY <5>1, <5>2, <5>3, LeftType, QuantityPushBack
        <5>5. QuantityOf(u, insertedStop) = Share(u, insertedStop[1])
          BY <5>1, LeftType, QuantitySingle
        <5> QED BY <5>4, <5>5
      <4> QED BY <4>1, <4>2
    <3>3. Moving(u) = QuantityOf(u, insertedLimits) + QuantityOf(u, insertedStop)
                        + QuantityOf(u, Sold) - Share(u, Demand)
      BY <1>1, <2>4 DEF Moving
    <3>4. QuantityOf(u, insertedLimits) = 0
      BY <1>1, QuantityEmpty
    <3>5. coin'[u].inOrder = coin[u].inOrder + Share(u, Demand)
      <4>1. coin'[u].inOrder
              = coin[u].inOrder + (IF message.user = u THEN message.amount ELSE 0)
        BY <1>1, <1>2, <2>4, HoldProperties
      <4>2. Share(u, Demand) = IF message.user = u THEN message.amount ELSE 0
        BY DEF Share, Demand
      <4> QED BY <4>1, <4>2
    <3>6. /\ QuantityOf(u, insertedStop) \in Nat /\ Share(u, Demand) \in Nat
          /\ QuantityOf(u, Sold) \in Nat
          /\ QuantityOf(u, limits["Sell"]) \in Nat /\ QuantityOf(u, stops["Sell"]) \in Nat
      BY <1>1, RecordQuantities, SoldType, SellsType
    <3>7. OpenSells(u)' = QuantityOf(u, limits["Sell"]) + QuantityOf(u, stops["Sell"])
                            + QuantityOf(u, insertedStop)
      BY <3>1, <3>2, <3>6 DEF OpenSells
    <3>8. OpenSells(u) = QuantityOf(u, limits["Sell"]) + QuantityOf(u, stops["Sell"])
      BY DEF OpenSells
    <3> QED BY <2>1, <2>2, <3>3, <3>4, <3>5, <3>6, <3>7, <3>8
  <2> QED BY <1>2, <2>3, <2>4 DEF Sides
<1> QED BY <1>1, <1>4 DEF HeldFor

\* A seller's coin is not in order any more once it is delivered.
LEMMA SettleTradeEscrow ==
  ASSUME NEW others \in [Users -> Int], HeldFor(others), IInv, SettleTrade
  PROVE  HeldFor(others)'
<1> DEFINE t == Head(trades)
<1>1. /\ phase = "settle" /\ phase' = "settle" /\ trades # <<>> /\ trades' = Tail(trades)
      /\ coin' = Debit(Credit(coin, t.buyer, t.amount - t.buyFee), t.seller, t.amount)
      /\ UNCHANGED <<limits, stops>>
  BY DEF SettleTrade, bookVars
<1>2. /\ t \in Trade /\ trades \in Seq(Trade) /\ trades' \in Seq(Trade)
      /\ coin \in [Users -> Address]
  BY <1>1, HeadTailProperties DEF IInv, TypeOK, SimulatorTypeOK, MarketTypeOK
<1>3. ASSUME NEW u \in Users PROVE (coin[u].inOrder = OpenSells(u) + Moving(u) + others[u])'
  <2> DEFINE sold == IF t.seller = u THEN t.amount ELSE 0
  <2>1. coin[u].inOrder = OpenSells(u) + QuantityOf(u, Sold) + others[u]
    BY <1>1 DEF HeldFor, Moving
  <2>2. coin'[u].inOrder = coin[u].inOrder - sold
    <3> HIDE DEF t
    <3> QED BY <1>1, <1>2, CoinSettled
  <2>3. QuantityOf(u, Sold) = QuantityOf(u, Sold') + sold
    BY <1>1, <1>2, TradeSettled DEF Sold, Parties
  <2>4. OpenSells(u)' = OpenSells(u) /\ Moving(u)' = QuantityOf(u, Sold')
    BY <1>1 DEF OpenSells, Moving
  <2>5. sold \in Nat /\ OpenSells(u) \in Nat
    <3> HIDE DEF t
    <3> QED BY <1>2, SellsType DEF OpenSells, Trade
  <2>6. QuantityOf(u, Sold') \in Nat
    <3>1. Sold' \in Seq(Part)
      BY <1>2, PartsType DEF Sold, Parties
    <3> QED BY <3>1, LeftType, QuantityType
  <2> HIDE DEF sold
  <2> QED BY <2>1, <2>2, <2>3, <2>4, <2>5, <2>6
<1> QED BY <1>1, <1>3 DEF HeldFor

\* The reply finds every trade settled.
LEMMA AnswerOrderEscrow ==
  ASSUME NEW others \in [Users -> Int], HeldFor(others), IInv, AnswerOrder
  PROVE  HeldFor(others)'
<1>1. /\ phase = "settle" /\ phase' = "idle" /\ trades = <<>> /\ UNCHANGED <<limits, stops, coin>>
  BY DEF AnswerOrder, Return, marketVars, bookVars, walletVars
<1>2. ASSUME NEW u \in Users PROVE (coin[u].inOrder = OpenSells(u) + Moving(u) + others[u])'
  <2>1. Moving(u) = QuantityOf(u, Sold) /\ Moving(u)' = 0
    BY <1>1 DEF Moving
  <2>2. Len(Sold) = 0
    BY <1>1 DEF Sold, PartsOf
  <2>3. QuantityOf(u, Sold) = 0
    BY <2>2, QuantityNone
  <2>4. OpenSells(u)' = OpenSells(u)
    BY <1>1 DEF OpenSells
  <2> QED BY <1>1, <2>1, <2>3, <2>4 DEF HeldFor
<1> QED BY <1>1, <1>2 DEF HeldFor

\* A cancelled sell order frees what was left of it.
LEMMA CancelOrderEscrow ==
  ASSUME NEW others \in [Users -> Int], HeldFor(others), IInv,
         NEW kind \in {"limit", "stop"}, NEW side \in Sides, NEW i \in 1 .. Len(Book(kind, side)), CancelOrder(kind, side, i)
  PROVE  HeldFor(others)'
<1> DEFINE o == Book(kind, side)[i]
<1>1. /\ phase = "idle" /\ phase' = "idle" /\ RemoveFromBook(kind, side, i)
      /\ coin' = (IF side = "Sell" THEN Hold(coin, o.user, -o.left) ELSE coin)
  BY DEF CancelOrder
<1>2. /\ limits \in [Sides -> Seq(Order)] /\ stops \in [Sides -> Seq(Order)]
      /\ coin \in [Users -> Address]
  BY DEF IInv, TypeOK, MarketTypeOK
<1>3. o \in Order /\ Book(kind, side) \in Seq(Order)
  <2>1. Book(kind, side) \in Seq(Order)
    BY <1>2 DEF Book
  <2> QED BY <2>1, ElementOfSeq
<1> HIDE DEF o
<1>4. o.user \in Users /\ o.left \in Nat
  BY <1>3 DEF Order
<1>5. ASSUME NEW u \in Users PROVE (coin[u].inOrder = OpenSells(u) + Moving(u) + others[u])'
  <2>1. coin[u].inOrder = OpenSells(u) + others[u] /\ Moving(u)' = 0
    <3>1. Moving(u) = 0 /\ Moving(u)' = 0
      BY <1>1 DEF Moving
    <3>2. OpenSells(u) \in Nat
      BY SellsType DEF OpenSells
    <3> QED BY <3>1, <3>2 DEF HeldFor
  <2>2. QuantityOf(u, limits["Sell"]) \in Nat /\ QuantityOf(u, stops["Sell"]) \in Nat
    BY SellsType
  <2>3. CASE side = "Buy"
    <3>1. limits'["Sell"] = limits["Sell"] /\ stops'["Sell"] = stops["Sell"]
      BY <1>1, <1>2, <2>3 DEF RemoveFromBook, Sides
    <3> QED BY <1>1, <2>1, <2>2, <2>3, <3>1 DEF OpenSells
  <2>4. CASE side = "Sell"
    <3>1. QuantityOf(u, Book(kind, side))
            = QuantityOf(u, Without(Book(kind, side), i)) + Share(u, o)
      BY <1>3, LeftType, QuantityWithout DEF o
    <3>2. QuantityOf(u, Without(Book(kind, side), i)) \in Nat /\ Share(u, o) \in Nat
      BY <1>3, <1>4, WithoutProperties, LeftType, QuantityType, ShareType
    <3>3. coin'[u].inOrder = coin[u].inOrder - Share(u, o)
      <4>1. coin' = Hold(coin, o.user, -o.left) /\ -o.left \in Int
        BY <1>1, <1>4, <2>4
      <4>2. coin'[u].inOrder = coin[u].inOrder + (IF o.user = u THEN -o.left ELSE 0)
        BY <1>2, <1>4, <4>1, HoldProperties
      <4>3. coin[u].inOrder \in Int
        BY <1>2 DEF Address
      <4> QED BY <1>4, <4>2, <4>3 DEF Share
    <3>4. CASE kind = "limit"
      <4>1. /\ limits'["Sell"] = Without(Book(kind, side), i) /\ stops'["Sell"] = stops["Sell"]
            /\ limits["Sell"] = Book(kind, side)
        BY <1>1, <1>2, <2>4, <3>4 DEF RemoveFromBook, Book, Sides
      <4> QED BY <2>1, <2>2, <3>1, <3>2, <3>3, <4>1 DEF OpenSells
    <3>5. CASE kind = "stop"
      <4>1. /\ stops'["Sell"] = Without(Book(kind, side), i) /\ limits'["Sell"] = limits["Sell"]
            /\ stops["Sell"] = Book(kind, side)
        BY <1>1, <1>2, <2>4, <3>5 DEF RemoveFromBook, Book, Sides
      <4> QED BY <2>1, <2>2, <3>1, <3>2, <3>3, <4>1 DEF OpenSells
    <3> QED BY <3>4, <3>5
  <2> QED BY <2>3, <2>4 DEF Sides
<1> QED BY <1>1, <1>5 DEF HeldFor

\* Nothing is offered and nothing in order.
LEMMA ClearEveryonesEscrow ==
  ASSUME IInv, ClearEveryonesOpenOrders
  PROVE  EscrowInv'
<1>1. /\ phase' = "idle" /\ coin' = Release(coin, Users)
      /\ limits' = [s \in Sides |-> <<>>] /\ stops' = [s \in Sides |-> <<>>]
      /\ coin \in [Users -> Address]
  BY DEF ClearEveryonesOpenOrders, IInv, TypeOK, MarketTypeOK
<1>2. ASSUME NEW u \in Users PROVE (coin[u].inOrder = OpenSells(u) + Moving(u))'
  <2>1. coin'[u].inOrder = 0
    BY <1>1 DEF Release, Address
  <2>2. OpenSells(u)' = 0 + 0
    BY <1>1, QuantityEmpty DEF OpenSells, Sides
  <2>3. Moving(u)' = 0
    BY <1>1 DEF Moving
  <2> QED BY <2>1, <2>2, <2>3
<1> QED BY <1>1, <1>2 DEF EscrowInv

\* The rest of the steps leave the books and the wallet of coin alone.
LEMMA OtherEscrow ==
  ASSUME NEW others \in [Users -> Int], HeldFor(others), IInv, QuantityInv,
         \/ ConsumeOwn \/ ConsumePart \/ ConsumeWhole \/ MarketOrderUnfilled
         \/ LimitOrderRefused \/ RestLimitOrder \/ StopLimitRefused \/ PlaceStopLimit
         \/ KickOffStopOrders \/ NoTradeNoKick \/ ProcessStopOrder
         \/ \E m \in Orders : RejectOrder(m) \/ AcceptOrder(m)
         \/ CancelUnknownOrder
         \/ SetFeePercentage \/ SetMaxNumLimitOpenOrders \/ SetMaxNumStopLimitOpenOrders
  PROVE  HeldFor(others)'
<1>1. /\ phase \notin {"insert", "settle"} /\ phase' \notin {"insert", "settle", "cancel"}
      /\ UNCHANGED <<limits, stops, coin>>
  BY DEF ConsumeOwn, ConsumePart, ConsumeWhole, HasMaker, MarketOrderUnfilled,
         LimitOrderRefused, RestLimitOrder, StopLimitRefused, PlaceStopLimit,
         KickOffStopOrders, NoTradeNoKick, ProcessStopOrder, Throw, Return, RejectOrder,
         AcceptOrder, Receivable, CancelUnknownOrder, SetFeePercentage,
         SetMaxNumLimitOpenOrders, SetMaxNumStopLimitOpenOrders, SetConfig,
         marketVars, bookVars, walletVars
<1> QED BY <1>1, EscrowKept

\* What is held for other markets stays so, if no request releases the whole wallet.
LEMMA HeldForStep ==
  ASSUME NEW others \in [Users -> Int], HeldFor(others), IInv, QuantityInv, [Next]_vars,
         phase # "cancel", "ClearOpenOrders" \notin Requests, ~ClearEveryonesOpenOrders
  PROVE  HeldFor(others)'
<1>1. CASE PostProcess
  BY <1>1, PostProcessEscrow
<1>2. CASE InsertLimitOrder
  BY <1>2, InsertLimitOrderEscrow
<1>3. CASE UpdateBooks
  BY <1>3, UpdateBooksEscrow
<1>4. CASE SettleTrade
  BY <1>4, SettleTradeEscrow
<1>5. CASE AnswerOrder
  BY <1>5, AnswerOrderEscrow
<1>6. CASE \E kind \in {"limit", "stop"}, side \in Sides :
             \E i \in 1 .. Len(Book(kind, side)) : CancelOrder(kind, side, i)
  BY <1>6, CancelOrderEscrow
<1>7. CASE \/ ConsumeOwn \/ ConsumePart \/ ConsumeWhole \/ MarketOrderUnfilled
           \/ LimitOrderRefused \/ RestLimitOrder \/ StopLimitRefused \/ PlaceStopLimit
           \/ KickOffStopOrders \/ NoTradeNoKick \/ ProcessStopOrder
           \/ \E m \in Orders : RejectOrder(m) \/ AcceptOrder(m)
           \/ CancelUnknownOrder
           \/ SetFeePercentage \/ SetMaxNumLimitOpenOrders \/ SetMaxNumStopLimitOpenOrders
  BY <1>7, OtherEscrow
<1>8. CASE CancelledAll \/ (\E e \in toCancel : CancelNext(e) \/ CancelStale(e))
           \/ \E user \in Users : ClearOpenOrders(user)
  BY <1>8 DEF CancelledAll, CancelNext, CancelStale, ClearOpenOrders
<1>9. CASE UNCHANGED vars
  BY <1>9 DEF vars, marketVars, bookVars, walletVars, simVars, callVars, HeldFor,
              OpenSells, Moving, Sold, Demand, Side
<1> QED BY <1>1, <1>2, <1>3, <1>4, <1>5, <1>6, <1>7, <1>8, <1>9 DEF Next, Processing, Receive

\* Only ClearOpenOrders starts to cancel what is in a cache.
LEMMA NoneCancelled ==
  ASSUME "ClearOpenOrders" \notin Requests, phase # "cancel", [Next]_vars
  PROVE  phase' # "cancel"
<1>1. CASE \/ ConsumeOwn \/ ConsumePart \/ ConsumeWhole \/ MarketOrderUnfilled
           \/ LimitOrderRefused \/ RestLimitOrder \/ StopLimitRefused \/ PlaceStopLimit
  BY <1>1 DEF ConsumeOwn, ConsumePart, ConsumeWhole, MarketOrderUnfilled, LimitOrderRefused,
              RestLimitOrder, StopLimitRefused, PlaceStopLimit, Throw, Return
<1>2. CASE \/ KickOffStopOrders \/ NoTradeNoKick \/ ProcessStopOrder \/ PostProcess
           \/ InsertLimitOrder \/ UpdateBooks \/ SettleTrade \/ AnswerOrder
  BY <1>2 DEF KickOffStopOrders, NoTradeNoKick, ProcessStopOrder, PostProcess, InsertLimitOrder,
              UpdateBooks, SettleTrade, AnswerOrder, Return
<1>3. CASE Receive
  BY <1>3 DEF Receive, RejectOrder, AcceptOrder, Receivable, CancelOrder, CancelUnknownOrder,
              ClearOpenOrders, ClearEveryonesOpenOrders, SetFeePercentage,
              SetMaxNumLimitOpenOrders, SetMaxNumStopLimitOpenOrders, SetConfig, Return
<1>4. CASE CancelledAll \/ (\E e \in toCancel : CancelNext(e) \/ CancelStale(e))
  BY <1>4 DEF CancelledAll, CancelNext, CancelStale
<1>5. CASE UNCHANGED vars
  BY <1>5 DEF vars, callVars
<1> QED BY <1>1, <1>2, <1>3, <1>4, <1>5 DEF Next, Processing

\* With no user clearing their own orders, every step keeps the escrow.
LEMMA EscrowStep ==
  ASSUME "ClearOpenOrders" \notin Requests, IInv, QuantityInv, EscrowInv, [Next]_vars
  PROVE  EscrowInv'
<1>1. CASE ClearEveryonesOpenOrders
  BY <1>1, ClearEveryonesEscrow
<1>2. CASE ~ClearEveryonesOpenOrders
  <2> DEFINE none == [u \in Users |-> 0]
  <2>1. IInv' /\ phase # "cancel" /\ phase' # "cancel"
    BY NoneCancelled, ProcessingInvariant, ReceiveInvariant, StutterInvariant DEF EscrowInv, Next
  <2>2. ASSUME NEW u \in Users
        PROVE  /\ coin[u].inOrder \in Int
               /\ coin'[u].inOrder \in Int /\ OpenSells(u)' \in Int /\ Moving(u)' \in Int
    <3>1. (IInv => coin[u].inOrder \in Int /\ OpenSells(u) \in Int /\ Moving(u) \in Int)'
      BY EscrowTypes, PTL
    <3> QED BY <2>1, <3>1, EscrowTypes
  <2>3. none \in [Users -> Int] /\ \A u \in Users : none[u] = 0
    OBVIOUS
  <2> HIDE DEF none
  <2>4. HeldFor(none)
    BY <2>2, <2>3 DEF EscrowInv, HeldFor
  <2>5. HeldFor(none)'
    BY <1>2, <2>1, <2>3, <2>4, HeldForStep
  <2>6. \A u \in Users : coin'[u].inOrder = OpenSells(u)' + Moving(u)'
    BY <2>2, <2>3, <2>5 DEF HeldFor
  <2> QED BY <2>1, <2>6 DEF EscrowInv
<1> QED BY <1>1, <1>2

-----------------------------------------------------------------------------
(* The solvency of the sellers *)

\* A fee in percent is no more than the amount it is taken from.
LEMMA DivSmaller ==
  ASSUME NEW n \in Nat, NEW d \in Nat \ {0}
  PROVE  n \div d <= n
BY SMT

\* So is the fee of a trade that is recorded.
LEMMA FeesRecorded ==
  ASSUME IInv, HasMaker, NEW n \in Nat, FeesBelow(trades)
  PROVE  FeesBelow(Append(trades, TradeWith(Maker, n)))
<1> DEFINE t == TradeWith(Maker, n)
<1>1. t.buyFee <= t.amount
  <2>1. config.feeDivision \in Nat \ {0}
    BY ConfigAssumption DEF IInv, TypeOK, MarketTypeOK
  <2>2. n \div config.feeDivision <= n
    BY <2>1, DivSmaller
  <2> QED BY <2>2 DEF TradeWith
<1>2. t \in Trade /\ trades \in Seq(Trade)
  BY TradeType DEF IInv, TypeOK, SimulatorTypeOK
<1> HIDE DEF t
<1> DEFINE more == Append(trades, t)
<1>3. /\ Len(more) = Len(trades) + 1 /\ Len(trades) \in Nat /\ more[Len(trades) + 1] = t
      /\ \A i \in 1 .. Len(trades) : more[i] = trades[i]
  BY <1>2, AppendProperties, LenProperties
<1> HIDE DEF more
<1>4. ASSUME NEW i \in 1 .. Len(more) PROVE more[i].buyFee <= more[i].amount
  <2>1. CASE i = Len(trades) + 1
    BY <1>1, <1>3, <2>1
  <2>2. CASE i # Len(trades) + 1
    <3>1. i \in 1 .. Len(trades)
      BY <1>3, <2>2
    <3> QED BY <1>3, <3>1 DEF FeesBelow
  <2> QED BY <2>1, <2>2
<1> QED BY <1>4 DEF FeesBelow, more, t

\* A step that leaves the wallet of coin and the message alone.
LEMMA SolventKept ==
  ASSUME SolvencyInv, coin' = coin, FeesBelow(trades'),
         phase' \in Recording => phase \in Recording /\ message' = message
  PROVE  SolvencyInv'
BY DEF SolvencyInv, Side, FeesBelow

\* A sell order is accepted when its user has the coin that is not in order.
LEMMA AcceptOrderSolvency ==
  ASSUME IInv, QuantityInv, SolvencyInv, NEW m \in Orders, AcceptOrder(m)
  PROVE  SolvencyInv'
<1>1. ValidationError(m) = "none" /\ message' = m /\ coin' = coin /\ trades' = trades
  BY DEF AcceptOrder, marketVars, walletVars, simVars
<1>2. m.side = "Sell" => Available(coin[m.user]) >= m.amount
  <2>1. SUFFICES ASSUME m.side = "Sell" PROVE Available(coin[m.user]) >= m.amount
    OBVIOUS
  <2>2. FundsError(m) = "none"
    BY <1>1 DEF ValidationError
  <2>3. FundsError(m) = IF Available(coin[m.user]) < m.amount THEN "InsufficientFunds" ELSE "none"
    BY <2>1 DEF FundsError
  <2>4. ~(Available(coin[m.user]) < m.amount)
    BY <2>2, <2>3
  <2>5. Available(coin[m.user]) \in Int /\ m.amount \in Int
    <3>1. m.user \in Users /\ m.amount \in Nat
      BY OrdersAssumption DEF OrderMessage
    <3>2. coin[m.user] \in Address
      BY <3>1 DEF IInv, TypeOK, MarketTypeOK
    <3> QED BY <3>1, <3>2 DEF Available, Address
  <2> QED BY <2>4, <2>5
<1> QED BY <1>1, <1>2 DEF SolvencyInv, Side, Available

\* The commit holds what was available.
LEMMA UpdateBooksSolvency ==
  ASSUME IInv, SolvencyInv, UpdateBooks
  PROVE  SolvencyInv'
<1>1. /\ phase = "insert" /\ phase \in Recording /\ phase' = "settle" /\ trades' = trades
      /\ coin' = (IF Side = "Sell" THEN Hold(coin, message.user, message.amount) ELSE coin)
  BY DEF UpdateBooks, Recording, simVars
<1>2. phase' \notin Recording
  BY <1>1 DEF Recording, Matching
<1>3. coin \in [Users -> Address] /\ message.user \in Users /\ message.amount \in Nat
  BY <1>1, RecordTypes DEF IInv, TypeOK, MarketTypeOK
<1>4. ASSUME NEW u \in Users PROVE coin'[u].total >= coin'[u].inOrder
  <2>1. coin[u].total >= coin[u].inOrder /\ coin[u].total \in Int /\ coin[u].inOrder \in Int
    BY <1>3 DEF SolvencyInv, Address
  <2>2. CASE Side = "Sell" /\ message.user = u
    <3>1. coin[u].total - coin[u].inOrder >= message.amount
      BY <1>1, <2>2 DEF SolvencyInv, Available
    <3>2. coin'[u].total = coin[u].total /\ coin'[u].inOrder = coin[u].inOrder + message.amount
      BY <1>1, <1>3, <2>2, HoldProperties
    <3> QED BY <1>3, <2>1, <3>1, <3>2
  <2>3. CASE ~(Side = "Sell" /\ message.user = u)
    <3>1. coin'[u] = coin[u]
      BY <1>1, <1>3, <2>3 DEF Hold, Address
    <3> QED BY <2>1, <3>1
  <2> QED BY <2>2, <2>3
<1> QED BY <1>1, <1>2, <1>4 DEF SolvencyInv

\* A seller delivers what was in order, a buyer is given something.
LEMMA SettleTradeSolvency ==
  ASSUME IInv, SolvencyInv, SettleTrade
  PROVE  SolvencyInv'
<1> DEFINE t == Head(trades)
<1>1. /\ phase = "settle" /\ phase' = "settle" /\ trades # <<>> /\ trades' = Tail(trades)
      /\ coin' = Debit(Credit(coin, t.buyer, t.amount - t.buyFee), t.seller, t.amount)
  BY DEF SettleTrade
<1>2. /\ t \in Trade /\ trades \in Seq(Trade) /\ coin \in [Users -> Address]
      /\ Len(trades') = Len(trades) - 1 /\ Len(trades) \in Nat \ {0}
      /\ \A i \in 1 .. Len(trades') : trades'[i] = trades[i + 1]
  <2>1. trades \in Seq(Trade)
    BY DEF IInv, TypeOK, SimulatorTypeOK
  <2>2. Len(trades) \in Nat \ {0}
    BY <1>1, <2>1, EmptySeq
  <2> QED BY <1>1, <2>1, <2>2, HeadTailProperties DEF IInv, TypeOK, MarketTypeOK
<1>3. t.buyFee <= t.amount /\ t.buyFee \in Nat /\ t.amount \in Nat
  <2>1. t = trades[1] /\ 1 \in 1 .. Len(trades)
    BY <1>1, <1>2
  <2>2. t.buyFee <= t.amount
    BY <2>1 DEF SolvencyInv, FeesBelow
  <2> QED BY <1>2, <2>2 DEF Trade
<1>4. FeesBelow(trades')
  BY <1>2 DEF FeesBelow, SolvencyInv
<1> HIDE DEF t
<1>5. ASSUME NEW u \in Users PROVE coin'[u].total >= coin'[u].inOrder
  <2> DEFINE given == IF t.buyer = u THEN t.amount - t.buyFee ELSE 0
             taken == IF t.seller = u THEN t.amount ELSE 0
  <2>1. coin'[u].inOrder = coin[u].inOrder - taken
        /\ coin'[u].total = coin[u].total + given - taken
    BY <1>1, <1>2, CoinSettled
  <2>2. given \in Nat /\ taken \in Nat
    BY <1>3
  <2>3. coin[u].total >= coin[u].inOrder /\ coin[u].total \in Int /\ coin[u].inOrder \in Int
    BY <1>2 DEF SolvencyInv, Address
  <2> HIDE DEF given, taken
  <2> QED BY <2>1, <2>2, <2>3
<1> QED BY <1>1, <1>4, <1>5 DEF SolvencyInv, FeesBelow, Recording, Matching

\* Cancelling gives back what is in order.
LEMMA CancelOrderSolvency ==
  ASSUME IInv, SolvencyInv, NEW kind \in {"limit", "stop"}, NEW side \in Sides,
         NEW i \in 1 .. Len(Book(kind, side)), CancelOrder(kind, side, i)
  PROVE  SolvencyInv'
<1> DEFINE o == Book(kind, side)[i]
<1>1. /\ phase' = "idle" /\ trades' = trades
      /\ coin' = (IF side = "Sell" THEN Hold(coin, o.user, -o.left) ELSE coin)
  BY DEF CancelOrder, simVars
<1>2. o \in Order /\ coin \in [Users -> Address]
  <2>1. Book(kind, side) \in Seq(Order)
    BY DEF Book, IInv, TypeOK, MarketTypeOK
  <2> QED BY <2>1, ElementOfSeq DEF IInv, TypeOK, MarketTypeOK
<1> HIDE DEF o
<1>3. o.user \in Users /\ o.left \in Nat
  BY <1>2 DEF Order
<1>4. ASSUME NEW u \in Users PROVE coin'[u].total >= coin'[u].inOrder
  <2>1. coin[u].total >= coin[u].inOrder /\ coin[u].total \in Int /\ coin[u].inOrder \in Int
    BY <1>2 DEF SolvencyInv, Address
  <2>2. CASE side = "Sell"
    <3> DEFINE freed == IF o.user = u THEN -o.left ELSE 0
    <3>1. -o.left \in Int
      BY <1>3
    <3>2. coin'[u].total = coin[u].total /\ coin'[u].inOrder = coin[u].inOrder + freed
      BY <1>1, <1>2, <1>3, <2>2, <3>1, HoldProperties
    <3>3. freed \in Int /\ freed <= 0
      BY <1>3
    <3> HIDE DEF freed
    <3> QED BY <2>1, <3>2, <3>3
  <2>3. CASE side # "Sell"
    BY <1>1, <2>1, <2>3
  <2> QED BY <2>2, <2>3
<1> QED BY <1>1, <1>4 DEF SolvencyInv, Recording, Matching

\* When everything is released, the coin that was offered is still there.
LEMMA ClearEveryonesSolvency ==
  ASSUME IInv, EscrowInv, SolvencyInv, ClearEveryonesOpenOrders
  PROVE  SolvencyInv'
<1>1. phase = "idle" /\ phase' = "idle" /\ trades' = trades /\ coin' = Release(coin, Users)
  BY DEF ClearEveryonesOpenOrders, simVars
<1>2. coin \in [Users -> Address]
  BY DEF IInv, TypeOK, MarketTypeOK
<1>3. ASSUME NEW u \in Users PROVE coin'[u].total >= coin'[u].inOrder
  <2>1. coin[u].inOrder = OpenSells(u) + 0 /\ OpenSells(u) \in Nat
    <3>1. Moving(u) = 0
      BY <1>1 DEF Moving
    <3> QED BY <3>1, SellsType DEF EscrowInv, OpenSells
  <2>2. coin[u].total >= coin[u].inOrder /\ coin[u].total \in Int
    BY <1>2 DEF SolvencyInv, Address
  <2>3. coin'[u].inOrder = 0 /\ coin'[u].total = coin[u].total
    BY <1>1, <1>2 DEF Release, Address
  <2> QED BY <2>1, <2>2, <2>3
<1> QED BY <1>1, <1>3 DEF SolvencyInv, Recording, Matching

\* The trades that are recorded pay fees they can bear.
LEMMA ConsumeSolvency ==
  ASSUME IInv, SolvencyInv, ConsumePart \/ ConsumeWhole
  PROVE  SolvencyInv'
<1>1. /\ HasMaker /\ phase \in Recording /\ message' = message /\ coin' = coin
  BY DEF ConsumePart, ConsumeWhole, HasMaker, Recording, Matching, marketVars, walletVars
<1>2. taker.left \in Nat /\ MakerLeft \in Nat /\ FeesBelow(trades)
  BY <1>1, RecordTypes, MakerType DEF SolvencyInv, FeesBelow
<1>3. FeesBelow(trades')
  BY <1>1, <1>2, FeesRecorded DEF ConsumePart, ConsumeWhole
<1> QED BY <1>1, <1>3, SolventKept

\* The rest of the steps leave the wallet alone and record no trade.
LEMMA OtherSolvency ==
  ASSUME SolvencyInv,
         \/ ConsumeOwn \/ MarketOrderUnfilled \/ LimitOrderRefused \/ RestLimitOrder
         \/ StopLimitRefused \/ PlaceStopLimit \/ KickOffStopOrders \/ NoTradeNoKick
         \/ ProcessStopOrder \/ PostProcess \/ InsertLimitOrder \/ AnswerOrder
         \/ \E m \in Orders : RejectOrder(m)
         \/ CancelUnknownOrder
         \/ SetFeePercentage \/ SetMaxNumLimitOpenOrders \/ SetMaxNumStopLimitOpenOrders
  PROVE  SolvencyInv'
<1>1. coin' = coin /\ (trades' = trades \/ trades' = <<>>)
  BY DEF ConsumeOwn, MarketOrderUnfilled, LimitOrderRefused, RestLimitOrder,
         StopLimitRefused, PlaceStopLimit, KickOffStopOrders, NoTradeNoKick, ProcessStopOrder,
         PostProcess, InsertLimitOrder, AnswerOrder, Throw, Return, Clear, RejectOrder,
         CancelUnknownOrder, SetFeePercentage, SetMaxNumLimitOpenOrders,
         SetMaxNumStopLimitOpenOrders, SetConfig, marketVars, walletVars, simVars
<1>2. phase' \in Recording => phase \in Recording /\ message' = message
  BY DEF ConsumeOwn, MarketOrderUnfilled, LimitOrderRefused, RestLimitOrder,
         StopLimitRefused, PlaceStopLimit, KickOffStopOrders, NoTradeNoKick, ProcessStopOrder,
         PostProcess, InsertLimitOrder, AnswerOrder, Throw, Return, RejectOrder, Receivable,
         CancelUnknownOrder, SetFeePercentage, SetMaxNumLimitOpenOrders,
         SetMaxNumStopLimitOpenOrders, SetConfig, callVars, Recording, Matching
<1>3. FeesBelow(trades')
  BY <1>1 DEF SolvencyInv, FeesBelow
<1> QED BY <1>1, <1>2, <1>3, SolventKept

\* With no user clearing their own orders, every step keeps the users solvent.
LEMMA SolvencyStep ==
  ASSUME "ClearOpenOrders" \notin Requests, IInv, QuantityInv, EscrowInv, SolvencyInv,
         [Next]_vars
  PROVE  SolvencyInv'
<1>1. CASE ConsumePart \/ ConsumeWhole
  BY <1>1, ConsumeSolvency
<1>2. CASE \E m \in Orders : AcceptOrder(m)
  BY <1>2, AcceptOrderSolvency
<1>3. CASE UpdateBooks
  BY <1>3, UpdateBooksSolvency
<1>4. CASE SettleTrade
  BY <1>4, SettleTradeSolvency
<1>5. CASE \E kind \in {"limit", "stop"}, side \in Sides :
             \E i \in 1 .. Len(Book(kind, side)) : CancelOrder(kind, side, i)
  BY <1>5, CancelOrderSolvency
<1>6. CASE ClearEveryonesOpenOrders
  BY <1>6, ClearEveryonesSolvency
<1>7. CASE \/ ConsumeOwn \/ MarketOrderUnfilled \/ LimitOrderRefused \/ RestLimitOrder
           \/ StopLimitRefused \/ PlaceStopLimit \/ KickOffStopOrders \/ NoTradeNoKick
           \/ ProcessStopOrder \/ PostProcess \/ InsertLimitOrder \/ AnswerOrder
           \/ \E m \in Orders : RejectOrder(m)
           \/ CancelUnknownOrder
           \/ SetFeePercentage \/ SetMaxNumLimitOpenOrders \/ SetMaxNumStopLimitOpenOrders
  BY <1>7, OtherSolvency
<1>8. CASE CancelledAll \/ (\E e \in toCancel : CancelNext(e) \/ CancelStale(e))
           \/ \E user \in Users : ClearOpenOrders(user)
  BY <1>8 DEF CancelledAll, CancelNext, CancelStale, ClearOpenOrders, EscrowInv
<1>9. CASE UNCHANGED vars
  BY <1>9 DEF vars, marketVars, walletVars, simVars, callVars, SolvencyInv, Side
<1> QED BY <1>1, <1>2, <1>3, <1>4, <1>5, <1>6, <1>7, <1>8, <1>9 DEF Next, Processing, Receive

\* A new market satisfies both.
LEMMA EscrowInitial == Init => EscrowInv /\ SolvencyInv
<1> SUFFICES ASSUME Init PROVE EscrowInv /\ SolvencyInv
  OBVIOUS
<1>1. /\ phase = "idle" /\ limits = [s \in Sides |-> <<>>] /\ stops = [s \in Sides |-> <<>>]
      /\ coin = [u \in Users |-> [total |-> InitialCoin[u], inOrder |-> 0]] /\ trades = <<>>
  BY DEF Init
<1>2. ASSUME NEW u \in Users
      PROVE  coin[u].inOrder = OpenSells(u) + Moving(u) /\ coin[u].total >= coin[u].inOrder
  <2>1. coin[u].inOrder = 0 /\ coin[u].total = InitialCoin[u] /\ InitialCoin[u] \in Nat
    BY <1>1, BalanceAssumption
  <2>2. OpenSells(u) = 0 + 0
    BY <1>1, QuantityEmpty DEF OpenSells, Sides
  <2>3. Moving(u) = 0
    BY <1>1 DEF Moving
  <2> QED BY <2>1, <2>2, <2>3
<1>3. FeesBelow(trades)
  BY <1>1 DEF FeesBelow
<1> QED BY <1>1, <1>2, <1>3 DEF EscrowInv, SolvencyInv, Recording, Matching

\* As long as no user clears all of their orders at once, both hold of every market.
THEOREM EscrowInvariance ==
  ASSUME "ClearOpenOrders" \notin Requests
  PROVE  Spec => [](EscrowInv /\ SolvencyInv)
<1>1. IInv /\ QuantityInv /\ EscrowInv /\ SolvencyInv /\ [Next]_vars
        => (EscrowInv /\ SolvencyInv)'
  BY EscrowStep, SolvencyStep
<1> QED BY EscrowInitial, Invariance, QuantityInvariance, <1>1, PTL DEF Spec

\* Then the coin a user has in order between messages is the coin of the user's
\* open sell orders, whatever the messages were.
THEOREM CoinInEscrow ==
  ASSUME "ClearOpenOrders" \notin Requests
  PROVE  Spec => []CoinEscrow
<1>1. IInv /\ EscrowInv => CoinEscrow
  <2> SUFFICES ASSUME IInv, EscrowInv, phase = "idle", NEW u \in Users
               PROVE  coin[u].inOrder = OpenSells(u)
    BY DEF CoinEscrow
  <2>1. Moving(u) = 0
    BY DEF Moving
  <2>2. OpenSells(u) \in Nat
    BY SellsType DEF OpenSells
  <2> QED BY <2>1, <2>2 DEF EscrowInv
<1> QED BY Invariance, EscrowInvariance, <1>1, PTL

\* And no user owes coin: what a sell order sells can be delivered.
THEOREM SellersSolvent ==
  ASSUME "ClearOpenOrders" \notin Requests
  PROVE  Spec => []CoinSolvent
<1>1. SolvencyInv => CoinSolvent
  BY DEF SolvencyInv, CoinSolvent
<1> QED BY EscrowInvariance, <1>1, PTL

-----------------------------------------------------------------------------
(* The coin of all users *)

TotalsOf(wallet) == [u \in Users |-> wallet[u].total]

\* Crediting and debiting one user changes the sum by the amount.
LEMMA TotalOfOneChanged ==
  ASSUME NEW wallet \in [Users -> Address], NEW user \in Users, NEW n \in Int
  PROVE  /\ TotalIn(wallet) \in Int
         /\ TotalIn(Credit(wallet, user, n)) = TotalIn(wallet) + n
         /\ TotalIn(Debit(wallet, user, n)) = TotalIn(wallet) - n
<1> DEFINE before == TotalsOf(wallet)
           credited == TotalsOf(Credit(wallet, user, n))
           debited == TotalsOf(Debit(wallet, user, n))
<1>1. /\ Credit(wallet, user, n) \in [Users -> Address]
      /\ Debit(wallet, user, n) \in [Users -> Address]
  BY CreditDebitType
<1>2. /\ before \in [Users -> Int] /\ credited \in [Users -> Int] /\ debited \in [Users -> Int]
  BY <1>1 DEF TotalsOf, Address
<1>3. credited[user] = before[user] + n /\ \A u \in Users : u # user => credited[u] = before[u]
  BY DEF TotalsOf, Credit, Address
<1>4. debited[user] = before[user] - n /\ \A u \in Users : u # user => debited[u] = before[u]
  BY DEF TotalsOf, Debit, Address
<1>5. /\ TotalIn(wallet) = TotalOver(Users, before)
      /\ TotalIn(Credit(wallet, user, n)) = TotalOver(Users, credited)
      /\ TotalIn(Debit(wallet, user, n)) = TotalOver(Users, debited)
  BY DEF TotalIn, TotalsOf
<1> HIDE DEF before, credited, debited
<1>6. TotalOver(Users, before) \in Int /\ before[user] \in Int
  BY <1>2, UsersAssumption, TotalOverType
<1>7. TotalOver(Users, credited) = TotalOver(Users, before) + credited[user] - before[user]
  BY <1>2, <1>3, UsersAssumption, TotalOverChanged
<1>8. TotalOver(Users, debited) = TotalOver(Users, before) + debited[user] - before[user]
  BY <1>2, <1>4, UsersAssumption, TotalOverChanged
<1> QED BY <1>3, <1>4, <1>5, <1>6, <1>7, <1>8

\* A trade moves coin between its users; the fee is what is lost.
LEMMA SettleTradeTotal ==
  ASSUME IInv, SettleTrade
  PROVE  TotalIn(coin') = TotalIn(coin) - Head(trades).buyFee /\ Head(trades).buyFee \in Nat
<1> DEFINE t == Head(trades)
           mid == Credit(coin, t.buyer, t.amount - t.buyFee)
<1>1. trades # <<>> /\ coin' = Debit(mid, t.seller, t.amount)
  BY DEF SettleTrade
<1>2. t \in Trade /\ coin \in [Users -> Address]
  BY <1>1, HeadTailProperties DEF IInv, TypeOK, SimulatorTypeOK, MarketTypeOK
<1> HIDE DEF t
<1>3. /\ t.buyer \in Users /\ t.seller \in Users /\ t.amount \in Int /\ t.buyFee \in Nat
      /\ t.amount - t.buyFee \in Int
  BY <1>2 DEF Trade
<1>4. mid \in [Users -> Address] /\ TotalIn(coin) \in Int
      /\ TotalIn(mid) = TotalIn(coin) + (t.amount - t.buyFee)
  BY <1>2, <1>3, CreditDebitType, TotalOfOneChanged
<1> HIDE DEF mid
<1>5. TotalIn(coin') = TotalIn(mid) - t.amount
  BY <1>1, <1>3, <1>4, TotalOfOneChanged
<1> QED BY <1>3, <1>4, <1>5 DEF t

\* Holding and releasing move no coin.
LEMMA TotalKept ==
  ASSUME NEW before, NEW after, \A u \in Users : after[u].total = before[u].total
  PROVE  TotalIn(after) = TotalIn(before)
<1>1. [u \in Users |-> after[u].total] = [u \in Users |-> before[u].total]
  OBVIOUS
<1> QED BY <1>1 DEF TotalIn

\* Nor does any other step.
LEMMA OtherTotals ==
  ASSUME IInv, [Next]_vars, ~SettleTrade
  PROVE  TotalIn(coin') = TotalIn(coin)
<1>1. coin \in [Users -> Address]
  BY DEF IInv, TypeOK, MarketTypeOK
<1>2. CASE UpdateBooks
  <2>1. message.user \in Users /\ message.amount \in Int
    BY <1>2, RecordTypes DEF UpdateBooks, Recording
  <2>2. coin' = Hold(coin, message.user, message.amount) \/ coin' = coin
    BY <1>2 DEF UpdateBooks
  <2>3. \A u \in Users : coin'[u].total = coin[u].total
    BY <1>1, <2>1, <2>2, HoldProperties
  <2> QED BY <2>3, TotalKept
<1>3. ASSUME NEW kind \in {"limit", "stop"}, NEW side \in Sides,
             NEW i \in 1 .. Len(Book(kind, side)), CancelOrder(kind, side, i)
      PROVE  TotalIn(coin') = TotalIn(coin)
  <2> DEFINE o == Book(kind, side)[i]
  <2>1. o.user \in Users /\ -o.left \in Int
    <3>1. Book(kind, side) \in Seq(Order)
      BY DEF Book, IInv, TypeOK, MarketTypeOK
    <3>2. o \in Order
      BY <3>1, ElementOfSeq
    <3> QED BY <3>2 DEF Order
  <2>2. coin' = Hold(coin, o.user, -o.left) \/ coin' = coin
    BY <1>3 DEF CancelOrder
  <2> HIDE DEF o
  <2>3. \A u \in Users : coin'[u].total = coin[u].total
    BY <1>1, <2>1, <2>2, HoldProperties
  <2> QED BY <2>3, TotalKept
<1>4. CASE ClearEveryonesOpenOrders \/ \E user \in Users : ClearOpenOrders(user)
  <2>1. \A u \in Users : coin'[u].total = coin[u].total
    BY <1>1, <1>4 DEF ClearEveryonesOpenOrders, ClearOpenOrders, Release, Address
  <2> QED BY <2>1, TotalKept
<1>5. CASE \/ ConsumeOwn \/ ConsumePart \/ ConsumeWhole \/ MarketOrderUnfilled
           \/ LimitOrderRefused \/ RestLimitOrder \/ StopLimitRefused \/ PlaceStopLimit
           \/ KickOffStopOrders \/ NoTradeNoKick \/ ProcessStopOrder
           \/ PostProcess \/ InsertLimitOrder \/ AnswerOrder
           \/ \E e \in toCancel : CancelNext(e) \/ CancelStale(e)
           \/ CancelledAll
           \/ \E m \in Orders : RejectOrder(m) \/ AcceptOrder(m)
           \/ CancelUnknownOrder
           \/ SetFeePercentage \/ SetMaxNumLimitOpenOrders \/ SetMaxNumStopLimitOpenOrders
  <2>1. coin' = coin
    BY <1>5 DEF ConsumeOwn, ConsumePart, ConsumeWhole, MarketOrderUnfilled, LimitOrderRefused,
         RestLimitOrder, StopLimitRefused, PlaceStopLimit, KickOffStopOrders, NoTradeNoKick,
         ProcessStopOrder, PostProcess, InsertLimitOrder, AnswerOrder, Throw, CancelNext,
         CancelStale, CancelledAll, RejectOrder, AcceptOrder, CancelUnknownOrder,
         SetFeePercentage, SetMaxNumLimitOpenOrders, SetMaxNumStopLimitOpenOrders, SetConfig,
         marketVars, walletVars
  <2> QED BY <2>1
<1>6. CASE UNCHANGED vars
  BY <1>6 DEF vars, marketVars, walletVars
<1> QED BY <1>2, <1>3, <1>4, <1>5, <1>6 DEF Next, Processing, Receive

\* Whatever the messages were, the users together never own more coin than was
\* deposited: trades and cancellations make none.
THEOREM NoCoinFromNothing == Spec => []CoinNeverCreated
<1>1. Deposited(InitialCoin) \in Int
  BY BalanceAssumption, UsersAssumption, TotalOverType DEF Deposited
<1>2. Init => CoinNeverCreated
  <2> SUFFICES ASSUME Init PROVE TotalIn(coin) = Deposited(InitialCoin)
    BY <1>1 DEF CoinNeverCreated
  <2>1. [u \in Users |-> coin[u].total] = InitialCoin
    BY BalanceAssumption DEF Init
  <2> QED BY <2>1 DEF TotalIn, Deposited
<1>3. IInv /\ CoinNeverCreated /\ [Next]_vars => CoinNeverCreated'
  <2> SUFFICES ASSUME IInv, CoinNeverCreated, [Next]_vars PROVE CoinNeverCreated'
    OBVIOUS
  <2>1. TotalIn(coin) \in Int
    <3>1. [u \in Users |-> coin[u].total] \in [Users -> Int]
      BY DEF IInv, TypeOK, MarketTypeOK, Address
    <3> QED BY <3>1, UsersAssumption, TotalOverType DEF TotalIn
  <2>2. TotalIn(coin') <= TotalIn(coin)
    BY <2>1, SettleTradeTotal, OtherTotals
  <2>3. TotalIn(coin') \in Int
    BY <2>1, SettleTradeTotal, OtherTotals
  <2> QED BY <1>1, <2>1, <2>2, <2>3 DEF CoinNeverCreated
<1> QED BY Invariance, <1>2, <1>3, PTL DEF Spec

-----------------------------------------------------------------------------
(* The walk of a market buy order *)

Walk == [ended : BOOLEAN, error : {"none", "TradeSameUser", "InsufficientFunds"},
         left : Int, balance : Int]
WalkStart(m, funds) == [ended |-> FALSE, error |-> "none", left |-> m.amount, balance |-> funds]

\* The first n + 1 values of the function MarketBuyWalk defines.
IsWalk(m, funds, asks, n, g) ==
  g = [i \in 0 .. n |-> IF i = 0 THEN WalkStart(m, funds) ELSE MarketBuyStep(m, g[i - 1], asks[i])]

\* There is such a function for every length.
LEMMA IsWalkExists ==
  ASSUME NEW m, NEW funds, NEW asks, NEW n \in Nat
  PROVE  \E g : IsWalk(m, funds, asks, n, g)
<1> DEFINE T == {k \in Nat : \E g : IsWalk(m, funds, asks, k, g)}
<1>1. 0 \in T
  <2> DEFINE g == [i \in 0 .. 0 |-> WalkStart(m, funds)]
  <2>1. IsWalk(m, funds, asks, 0, g)
    BY DEF IsWalk
  <2> HIDE DEF g
  <2> QED BY <2>1
<1>2. ASSUME NEW k \in T PROVE k + 1 \in T
  <2>1. PICK g : IsWalk(m, funds, asks, k, g)
    OBVIOUS
  <2> DEFINE last == MarketBuyStep(m, g[k], asks[k + 1])
             h == [i \in 0 .. k + 1 |-> IF i = k + 1 THEN last ELSE g[i]]
  <2>2. \A i \in 0 .. k :
          g[i] = IF i = 0 THEN WalkStart(m, funds) ELSE MarketBuyStep(m, g[i - 1], asks[i])
    BY <2>1 DEF IsWalk
  <2>3. \A i \in 0 .. k + 1 : h[i] = IF i = k + 1 THEN last ELSE g[i]
    OBVIOUS
  <2>4. ASSUME NEW i \in 0 .. k + 1
        PROVE  h[i] = IF i = 0 THEN WalkStart(m, funds) ELSE MarketBuyStep(m, h[i - 1], asks[i])
    <3> HIDE DEF h
    <3>1. CASE i = k + 1
      <4>1. i # 0 /\ i - 1 = k /\ k \in 0 .. k + 1 /\ k # k + 1
        BY <3>1
      <4>2. h[i - 1] = g[k] /\ h[i] = last
        BY <2>3, <3>1, <4>1
      <4> QED BY <3>1, <4>1, <4>2
    <3>2. CASE i # k + 1
      <4>1. i \in 0 .. k /\ (i # 0 => i - 1 \in 0 .. k + 1 /\ i - 1 # k + 1)
        BY <3>2
      <4>2. h[i] = g[i] /\ (i # 0 => h[i - 1] = g[i - 1])
        BY <2>3, <3>2, <4>1
      <4> QED BY <2>2, <4>1, <4>2
    <3> QED BY <3>1, <3>2
  <2>5. IsWalk(m, funds, asks, k + 1, h)
    BY <2>4 DEF IsWalk
  <2> HIDE DEF h
  <2> QED BY <2>5
<1>3. T = Nat
  <2> HIDE DEF T
  <2>1. T \in SUBSET Nat
    BY DEF T
  <2> QED BY <1>1, <1>2, <2>1, NatInduct
<1> QED BY <1>3

\* A longer one agrees with it.
LEMMA IsWalkUnique ==
  ASSUME NEW m, NEW funds, NEW asks, NEW n \in Nat, NEW g, IsWalk(m, funds, asks, n, g),
         NEW k \in Nat, NEW h, IsWalk(m, funds, asks, k, h), n <= k
  PROVE  \A i \in 0 .. n : g[i] = h[i]
<1> DEFINE T == {i \in Nat : i <= n => g[i] = h[i]}
<1>1. 0 \in T
  BY DEF IsWalk
<1>2. ASSUME NEW i \in T PROVE i + 1 \in T
  <2>1. SUFFICES ASSUME i + 1 <= n PROVE g[i + 1] = h[i + 1]
    OBVIOUS
  <2>2. i + 1 \in 0 .. n /\ i + 1 \in 0 .. k /\ i + 1 # 0 /\ (i + 1) - 1 = i /\ i <= n
    BY <2>1
  <2>3. /\ g[i + 1] = MarketBuyStep(m, g[i], asks[i + 1])
        /\ h[i + 1] = MarketBuyStep(m, h[i], asks[i + 1])
    BY <2>2 DEF IsWalk
  <2> QED BY <2>2, <2>3
<1>3. T = Nat
  <2> HIDE DEF T
  <2>1. T \in SUBSET Nat
    BY DEF T
  <2> QED BY <1>1, <1>2, <2>1, NatInduct
<1> QED BY <1>3

\* So the recursive function of MarketBuyWalk exists, and satisfies its equation.
LEMMA WalkRecursion ==
  ASSUME NEW m, NEW funds, NEW asks
  PROVE  /\ MarketBuyWalk(m, funds, asks, 0) = WalkStart(m, funds)
         /\ \A n \in Nat : MarketBuyWalk(m, funds, asks, n + 1)
                             = MarketBuyStep(m, MarketBuyWalk(m, funds, asks, n), asks[n + 1])
<1> DEFINE part(n) == CHOOSE g : IsWalk(m, funds, asks, n, g)
           all == [n \in Nat |-> part(n)[n]]
           next(f) == [i \in Nat |-> IF i = 0 THEN WalkStart(m, funds)
                                       ELSE MarketBuyStep(m, f[i - 1], asks[i])]
           walk == CHOOSE f : f = next(f)
<1>1. ASSUME NEW n \in Nat PROVE IsWalk(m, funds, asks, n, part(n))
  BY IsWalkExists
<1> HIDE DEF part
<1>2. ASSUME NEW n \in Nat
      PROVE  all[n] = IF n = 0 THEN WalkStart(m, funds) ELSE MarketBuyStep(m, all[n - 1], asks[n])
  <2>1. part(n)[n] = IF n = 0 THEN WalkStart(m, funds)
                     ELSE MarketBuyStep(m, part(n)[n - 1], asks[n])
    <3>1. n \in 0 .. n
      OBVIOUS
    <3> QED BY <1>1, <3>1 DEF IsWalk
  <2>2. n # 0 => part(n - 1)[n - 1] = part(n)[n - 1]
    <3>1. SUFFICES ASSUME n # 0 PROVE part(n - 1)[n - 1] = part(n)[n - 1]
      OBVIOUS
    <3>2. n - 1 \in Nat /\ n - 1 <= n /\ n - 1 \in 0 .. n - 1
      BY <3>1
    <3> QED BY <1>1, <3>2, IsWalkUnique
  <2>3. n # 0 => n - 1 \in Nat
    OBVIOUS
  <2> QED BY <2>1, <2>2, <2>3
<1>3. all = next(all)
  BY <1>2
<1> HIDE DEF all
<1>4. walk = next(walk)
  <2> HIDE DEF next
  <2> QED BY <1>3
<1>5. \A n \in Nat : MarketBuyWalk(m, funds, asks, n) = walk[n]
  BY DEF MarketBuyWalk, WalkStart
<1> HIDE DEF walk
<1>6. \A n \in Nat : walk[n] = IF n = 0 THEN WalkStart(m, funds)
                               ELSE MarketBuyStep(m, walk[n - 1], asks[n])
  BY <1>4
<1>7. \A n \in Nat : n + 1 \in Nat /\ n + 1 # 0 /\ (n + 1) - 1 = n
  OBVIOUS
<1> QED BY <1>5, <1>6, <1>7

\* The walk keeps its type.
LEMMA WalkType ==
  ASSUME NEW m, m.amount \in Int, NEW funds \in Int, NEW asks \in Seq(Order),
         NEW n \in 0 .. Len(asks)
  PROVE  MarketBuyWalk(m, funds, asks, n) \in Walk
<1> DEFINE w(k) == MarketBuyWalk(m, funds, asks, k)
           T == {k \in Nat : k <= Len(asks) => w(k) \in Walk}
<1>1. 0 \in T
  <2>1. WalkStart(m, funds) \in Walk
    BY DEF WalkStart, Walk
  <2> QED BY <2>1, WalkRecursion
<1>2. ASSUME NEW k \in T PROVE k + 1 \in T
  <2>1. SUFFICES ASSUME k + 1 <= Len(asks) PROVE w(k + 1) \in Walk
    OBVIOUS
  <2>2. k <= Len(asks) /\ k + 1 \in 1 .. Len(asks) /\ k \in Nat
    BY <2>1, LenProperties
  <2>3. asks[k + 1] \in Order
    BY <2>2, ElementOfSeq
  <2>4. /\ w(k + 1) = MarketBuyStep(m, w(k), asks[k + 1]) /\ w(k) \in Walk
    BY <2>2, WalkRecursion
  <2>5. ASSUME NEW walk \in Walk, NEW ask \in Order PROVE MarketBuyStep(m, walk, ask) \in Walk
    <3>1. ask.price * ask.left \in Int /\ ask.left \in Int
      BY <2>5 DEF Order
    <3> DEFINE next == MarketBuyStep(m, walk, ask)
    <3>2. \/ next = walk
          \/ \E e \in {"TradeSameUser", "InsufficientFunds"} :
               next = [walk EXCEPT !.ended = TRUE, !.error = e]
          \/ next = [walk EXCEPT !.ended = TRUE]
          \/ next = [walk EXCEPT !.balance = @ - ask.price * ask.left, !.left = @ - ask.left]
      BY DEF MarketBuyStep
    <3> HIDE DEF next
    <3>3. /\ [walk EXCEPT !.ended = TRUE] \in Walk
          /\ \A e \in {"TradeSameUser", "InsufficientFunds"} :
               [walk EXCEPT !.ended = TRUE, !.error = e] \in Walk
      BY DEF Walk
    <3>4. [walk EXCEPT !.balance = @ - ask.price * ask.left, !.left = @ - ask.left] \in Walk
      <4> DEFINE cost == ask.price * ask.left
      <4>1. walk.balance - cost \in Int /\ walk.left - ask.left \in Int
        <5>1. cost \in Int
          BY <3>1
        <5> HIDE DEF cost
        <5> QED BY <3>1, <5>1 DEF Walk
      <4> HIDE DEF cost
      <4>2. [walk EXCEPT !.balance = @ - cost, !.left = @ - ask.left] \in Walk
        BY <4>1 DEF Walk
      <4> QED BY <4>2 DEF cost
    <3>5. next \in Walk
      BY <3>2, <3>3, <3>4
    <3> QED BY <3>5 DEF next
  <2> HIDE DEF w
  <2> QED BY <2>3, <2>4, <2>5
<1>3. T = Nat
  <2> HIDE DEF T
  <2>1. T \in SUBSET Nat
    BY DEF T
  <2> QED BY <1>1, <1>2, <2>1, NatInduct
<1>4. n \in T /\ n <= Len(asks)
  <2> HIDE DEF T
  <2> QED BY <1>3, LenProperties
<1> QED BY <1>4

\* Once it has ended, it changes no more.
LEMMA WalkEnded ==
  ASSUME NEW m, NEW funds, NEW asks, NEW n \in Nat, MarketBuyWalk(m, funds, asks, n).ended,
         NEW k \in Nat, n <= k
  PROVE  MarketBuyWalk(m, funds, asks, k) = MarketBuyWalk(m, funds, asks, n)
<1> DEFINE w(j) == MarketBuyWalk(m, funds, asks, j)
           T == {j \in Nat : w(n + j) = w(n)}
<1>1. 0 \in T
  OBVIOUS
<1>2. ASSUME NEW j \in T PROVE j + 1 \in T
  <2>1. n + j \in Nat /\ n + (j + 1) = (n + j) + 1 /\ w(n + j) = w(n)
    OBVIOUS
  <2>2. w((n + j) + 1) = MarketBuyStep(m, w(n + j), asks[(n + j) + 1])
    BY <2>1, WalkRecursion
  <2>3. w((n + j) + 1) = w(n + j)
    <3> HIDE DEF w
    <3>1. w(n + j).ended
      BY <2>1 DEF w
    <3> QED BY <2>2, <3>1 DEF MarketBuyStep
  <2> HIDE DEF w
  <2> QED BY <2>1, <2>3
<1>3. T = Nat
  <2> HIDE DEF T
  <2>1. T \in SUBSET Nat
    BY DEF T
  <2> QED BY <1>1, <1>2, <2>1, NatInduct
<1>4. k - n \in T
  <2>1. k - n \in Nat
    OBVIOUS
  <2> HIDE DEF T
  <2> QED BY <1>3, <2>1
<1>5. n + (k - n) = k
  OBVIOUS
<1> QED BY <1>4, <1>5

\* What a walk that finds no error says of an order it comes to: its user is
\* another one, what is wanted of it can be paid with what the orders before it
\* leave, and if all of it is wanted the walk goes on.
LEMMA WalkAffords ==
  ASSUME NEW m, m.amount \in Int, NEW funds \in Int, NEW asks \in Seq(Order),
         MarketBuyWalk(m, funds, asks, Len(asks)).error = "none",
         NEW n \in Nat, n < Len(asks), ~MarketBuyWalk(m, funds, asks, n).ended
  PROVE  LET w == MarketBuyWalk(m, funds, asks, n)
             next == MarketBuyWalk(m, funds, asks, n + 1)
             ask == asks[n + 1]
         IN  /\ w.left \in Int /\ w.balance \in Int
             /\ ask.left > w.left => ScaleDown(w.left * ask.price) <= w.balance
             /\ ask.left <= w.left =>
                  /\ ScaleDown(ask.left * ask.price) <= w.balance
                  /\ next.left = w.left - ask.left
                  /\ next.balance = w.balance - ask.price * ask.left /\ ~next.ended
<1> DEFINE w == MarketBuyWalk(m, funds, asks, n)
           next == MarketBuyWalk(m, funds, asks, n + 1)
           ask == asks[n + 1]
           want == IF ask.left > w.left THEN w.left ELSE ask.left
<1>1. /\ n \in 0 .. Len(asks) /\ n + 1 \in 0 .. Len(asks) /\ n + 1 \in 1 .. Len(asks)
      /\ n + 1 <= Len(asks) /\ Len(asks) \in Nat /\ n + 1 \in Nat
  BY LenProperties
<1>2. ask \in Order /\ w \in Walk /\ next \in Walk
  BY <1>1, ElementOfSeq, WalkType
<1>3. next = MarketBuyStep(m, w, ask)
  BY WalkRecursion
<1>4. next.ended => next.error = "none"
  <2>1. next.ended => MarketBuyWalk(m, funds, asks, Len(asks)) = next
    BY <1>1, WalkEnded
  <2> HIDE DEF next
  <2> QED BY <2>1
<1>5. ~w.ended
  OBVIOUS
<1> HIDE DEF w, next, ask
<1>6. w.left \in Int /\ w.balance \in Int /\ ask.left \in Int
  BY <1>2 DEF Walk, Order
<1>7. ask.user # m.user
  <2>1. ASSUME ask.user = m.user PROVE FALSE
    <3>1. next = [w EXCEPT !.ended = TRUE, !.error = "TradeSameUser"]
      BY <1>3, <1>5, <2>1 DEF MarketBuyStep
    <3> QED BY <1>2, <1>4, <3>1 DEF Walk
  <2> QED BY <2>1
<1>8. ~(ScaleDown(want * ask.price) > w.balance)
  <2>1. ASSUME ScaleDown(want * ask.price) > w.balance PROVE FALSE
    <3>1. next = [w EXCEPT !.ended = TRUE, !.error = "InsufficientFunds"]
      BY <1>3, <1>5, <1>7, <2>1 DEF MarketBuyStep
    <3> QED BY <1>2, <1>4, <3>1 DEF Walk
  <2> QED BY <2>1
<1>9. ASSUME ~(ask.left > w.left)
      PROVE  /\ next.left = w.left - ask.left
             /\ next.balance = w.balance - ask.price * ask.left /\ ~next.ended
  <2>1. next = [w EXCEPT !.balance = @ - ask.price * ask.left, !.left = @ - ask.left]
    BY <1>3, <1>5, <1>7, <1>8, <1>9 DEF MarketBuyStep
  <2> QED BY <1>2, <1>5, <2>1 DEF Walk
<1>10. ScaleDown(want * ask.price) \in Int
  <2>1. want * ask.price \in Int
    <3>1. want \in Int /\ ask.price \in Int
      BY <1>2, <1>6 DEF Order
    <3> HIDE DEF want
    <3> QED BY <3>1
  <2> HIDE DEF want
  <2> QED BY <2>1, ScaleAssumption DEF ScaleDown
<1>11. ScaleDown(want * ask.price) <= w.balance
  BY <1>6, <1>8, <1>10
<1>12. /\ ask.left > w.left => want = w.left
       /\ ask.left <= w.left => want = ask.left /\ ~(ask.left > w.left)
  BY <1>6
<1> HIDE DEF want
<1> QED BY <1>6, <1>9, <1>11, <1>12 DEF w, next, ask

-----------------------------------------------------------------------------
(* What a market buy order costs *)

Costs(deals) == [i \in 1 .. Len(deals) |-> ScaleDown(deals[i].amount * deals[i].price)]
Cost(deals)  == Total(Costs(deals))

\* What the user of the message may spend, and the walk that was made with it.
Funds     == Available(base[message.user])
Walked(n) == MarketBuyWalk(message, Funds, limits["Sell"], n)

\* Consume repeats the walk that ValidationError has made: after each maker that
\* was used up they agree on what is left to buy, and the walk has put by what
\* the trades have cost.
MarketBuyInv ==
  phase \in {"consume", "kick"} /\ taker.kind = "market" /\ Side = "Buy" =>
    /\ taker.user = message.user
    /\ phase = "kick" => Cost(trades) <= Funds
    /\ phase = "consume" =>
         /\ lastFill = 0 /\ Walked(Len(limits["Sell"])).error = "none"
         /\ ~Walked(removed).ended /\ Walked(removed).left = taker.left
         /\ Cost(trades) + Walked(removed).balance <= Funds

\* What one trade more costs.
LEMMA CostAppend ==
  ASSUME NEW deals \in Seq(Trade), NEW t \in Trade
  PROVE  /\ Cost(deals) \in Int /\ Cost(<<>>) = 0
         /\ ScaleDown(t.amount * t.price) \in Int
         /\ Cost(Append(deals, t)) = Cost(deals) + ScaleDown(t.amount * t.price)
<1> DEFINE n == Len(deals)
           v == ScaleDown(t.amount * t.price)
           more == Append(deals, t)
           last == [i \in 1 .. 1 |-> v]
<1>1. ASSUME NEW d \in Seq(Trade)
      PROVE  /\ Len(d) \in Nat /\ Costs(d) \in [1 .. Len(d) -> Int]
             /\ Cost(d) = SumTo(Costs(d), Len(d))
  <2>1. Len(d) \in Nat
    BY LenProperties
  <2>2. ASSUME NEW i \in 1 .. Len(d) PROVE ScaleDown(d[i].amount * d[i].price) \in Int
    <3>1. d[i] \in Trade
      BY ElementOfSeq
    <3> DEFINE product == d[i].amount * d[i].price
    <3>2. d[i].amount \in Nat /\ d[i].price \in Nat
      BY <3>1 DEF Trade
    <3>3. product \in Nat
      BY <3>2
    <3> HIDE DEF product
    <3>4. ScaleDown(product) \in Int
      BY <3>3, ScaleDownType
    <3> QED BY <3>4 DEF product
  <2>3. Len(Costs(d)) = Len(d)
    BY <2>1 DEF Costs
  <2>4. Costs(d) \in [1 .. Len(d) -> Int]
    BY <2>2 DEF Costs
  <2> QED BY <2>1, <2>3, <2>4 DEF Cost, Total
<1>2. v \in Int
  <2>1. t.amount * t.price \in Nat
    BY DEF Trade
  <2> QED BY <2>1, ScaleDownType
<1>3. more \in Seq(Trade) /\ Len(more) = n + 1 /\ n \in Nat
      /\ more[n + 1] = t /\ \A i \in 1 .. n : more[i] = deals[i]
  BY AppendProperties, LenProperties
<1>4. Cost(deals) \in Int
  BY <1>1, SumToType
<1>5. Cost(<<>>) = 0
  <2>1. <<>> \in Seq(Trade) /\ Len(<<>>) = 0
    OBVIOUS
  <2>2. Cost(<<>>) = SumTo(Costs(<<>>), 0)
    BY <1>1, <2>1
  <2> QED BY <2>2, SumToRecursion
<1>6. SumTo(last, 1) = v
  <2> HIDE DEF v
  <2>1. SumTo(last, 0) = 0 /\ SumTo(last, 0 + 1) = SumTo(last, 0) + last[0 + 1]
    BY SumToRecursion
  <2> QED BY <1>2, <2>1
<1>7. /\ \A i \in 1 .. n : Costs(more)[i] = Costs(deals)[i]
      /\ \A i \in 1 .. 1 : Costs(more)[n + i] = last[i]
  BY <1>3 DEF Costs
<1>8. last \in [1 .. 1 -> Int]
  BY <1>2
<1>9. /\ Costs(more) \in [1 .. n + 1 -> Int] /\ Costs(deals) \in [1 .. n -> Int]
      /\ Cost(more) = SumTo(Costs(more), n + 1) /\ Cost(deals) = SumTo(Costs(deals), n)
  BY <1>1, <1>3
<1> HIDE DEF last, more, v, n
<1>10. SumTo(Costs(more), n + 1) = SumTo(Costs(deals), n) + SumTo(last, 1)
  BY <1>3, <1>7, <1>8, <1>9, SumToConcat
<1> QED BY <1>2, <1>4, <1>5, <1>6, <1>9, <1>10 DEF v, more

\* A market buy order is accepted when its walk finds no error.
LEMMA AcceptOrderAffords ==
  ASSUME IInv, QuantityInv, NEW m \in Orders, AcceptOrder(m)
  PROVE  MarketBuyInv'
<1>1. /\ phase = "idle" /\ ValidationError(m) = "none" /\ message' = m
      /\ taker'.kind = m.kind /\ taker'.user = m.user /\ taker'.left = m.amount
      /\ phase' = (IF m.kind = "stop" THEN "stop" ELSE "consume")
      /\ UNCHANGED <<limits, base, lastFill, removed, trades>>
  BY DEF AcceptOrder, Receivable, marketVars, bookVars, walletVars, simVars
<1>2. removed = 0 /\ lastFill = 0 /\ trades = <<>>
  BY <1>1 DEF IInv, ClearedWhenIdle, QuantityInv, TakersDone
<1> SUFFICES ASSUME phase' = "consume", m.kind = "market", m.side = "Buy"
             PROVE  /\ Walked(Len(limits["Sell"]))'.error = "none"
                    /\ ~Walked(removed)'.ended /\ Walked(removed)'.left = m.amount
                    /\ Cost(trades)' + Walked(removed)'.balance <= Funds'
  BY <1>1, <1>2 DEF MarketBuyInv, Side
<1>3. Funds' = Available(base[m.user]) /\ Funds' \in Int
  <2>1. base[m.user] \in Address
    BY OrdersAssumption DEF IInv, TypeOK, MarketTypeOK, OrderMessage
  <2> QED BY <1>1, <2>1 DEF Funds, Available, Address
<1>4. Walked(removed)' = WalkStart(m, Funds')
  <2>1. Walked(removed)' = MarketBuyWalk(m, Funds', limits["Sell"], 0)
    BY <1>1, <1>2 DEF Walked
  <2> QED BY <2>1, WalkRecursion
<1>5. Walked(Len(limits["Sell"]))'.error = "none"
  <2>1. SimulateMarketBuyOrder(m, Available(base[m.user])) = "none"
    BY <1>1 DEF ValidationError, FundsError
  <2> QED BY <1>1, <1>3, <2>1 DEF Walked, SimulateMarketBuyOrder
<1>6. Cost(trades)' = 0
  <2>1. Cost(<<>>) = 0
    <3>1. Costs(<<>>) = <<>> /\ Len(<<>>) = 0
      BY DEF Costs
    <3> QED BY <3>1, SumToRecursion DEF Cost, Total
  <2> QED BY <1>1, <1>2, <2>1
<1> QED BY <1>3, <1>4, <1>5, <1>6 DEF WalkStart

\* A trade costs what the walk has found to be affordable.
LEMMA ConsumeAffords ==
  ASSUME IInv, MarketBuyInv, ConsumePart \/ ConsumeWhole
  PROVE  MarketBuyInv'
<1>1. /\ HasMaker /\ phase = "consume" /\ phase \in Recording /\ phase' \in {"consume", "kick"}
      /\ UNCHANGED <<message, limits, base>>
  BY DEF ConsumePart, ConsumeWhole, HasMaker, Recording, Matching, marketVars, bookVars, walletVars
<1>2. taker \in Taker /\ taker.left \in Nat /\ message.user \in Users /\ message.amount \in Nat
      /\ lastFill \in Nat /\ trades \in Seq(Trade)
  BY <1>1, RecordTypes
<1>3. taker'.kind = taker.kind /\ taker'.user = taker.user
  BY <1>2 DEF ConsumePart, ConsumeWhole, Taker
<1>4. Side' = Side /\ Funds' = Funds
  BY <1>1 DEF Side, Funds
<1> SUFFICES ASSUME taker.kind = "market", Side = "Buy"
             PROVE  /\ taker.user = message.user
                    /\ phase' = "kick" => Cost(trades)' <= Funds
                    /\ phase' = "consume" =>
                         /\ lastFill' = 0 /\ Walked(Len(limits["Sell"])).error = "none"
                         /\ ~Walked(removed)'.ended /\ Walked(removed)'.left = taker'.left
                         /\ Cost(trades)' + Walked(removed)'.balance <= Funds
  BY <1>1, <1>3, <1>4 DEF MarketBuyInv, Walked
<1>5. /\ taker.user = message.user /\ lastFill = 0 /\ Walked(Len(limits["Sell"])).error = "none"
      /\ ~Walked(removed).ended /\ Walked(removed).left = taker.left
      /\ Cost(trades) + Walked(removed).balance <= Funds
  BY <1>1 DEF MarketBuyInv
<1> DEFINE asks == limits["Sell"]
           w == Walked(removed)
           next == Walked(removed + 1)
           ask == asks[removed + 1]
<1>6. /\ Makers = asks /\ asks \in Seq(Order) /\ removed \in Nat /\ removed < Len(asks)
      /\ Maker = ask /\ ask \in Order /\ MakerLeft = ask.left
  <2>1. Makers = asks
    BY DEF Makers, Opposite
  <2>2. removed \in Nat /\ removed < Len(Makers)
    BY <1>1, RecordTypes DEF HasMaker
  <2>3. Maker = ask
    BY <2>1 DEF Maker
  <2>4. Makers \in Seq(Order) /\ Maker \in Order
    BY <1>1, MakerType
  <2>5. MakerLeft = ask.left
    BY <1>5, <2>3, <2>4 DEF MakerLeft, Order
  <2> QED BY <2>1, <2>2, <2>3, <2>4, <2>5
<1>7. Funds \in Int
  <2>1. base[message.user] \in Address
    BY <1>2 DEF IInv, TypeOK, MarketTypeOK
  <2> QED BY <2>1 DEF Funds, Available, Address
<1>8. /\ w.left \in Int /\ w.balance \in Int
      /\ ask.left > w.left => ScaleDown(w.left * ask.price) <= w.balance
      /\ ask.left <= w.left =>
           /\ ScaleDown(ask.left * ask.price) <= w.balance
           /\ next.left = w.left - ask.left
           /\ next.balance = w.balance - ask.price * ask.left /\ ~next.ended
  <2>1. message.amount \in Int
    BY <1>2
  <2>2. MarketBuyWalk(message, Funds, asks, Len(asks)).error = "none"
        /\ ~MarketBuyWalk(message, Funds, asks, removed).ended
    BY <1>5 DEF Walked
  <2> HIDE DEF asks
  <2> QED BY <1>6, <1>7, <2>1, <2>2, WalkAffords DEF Walked, asks
<1>9. ASSUME NEW amount \in Nat
      PROVE  /\ Cost(trades) \in Int /\ ScaleDown(amount * ask.price) \in Int
             /\ Cost(Append(trades, TradeWith(Maker, amount)))
                  = Cost(trades) + ScaleDown(amount * ask.price)
  <2>1. TradeWith(Maker, amount) \in Trade
    BY <1>1, TradeType
  <2>2. TradeWith(Maker, amount).amount = amount /\ TradeWith(Maker, amount).price = ask.price
    BY <1>6 DEF TradeWith
  <2> QED BY <1>2, <2>1, <2>2, CostAppend
<1>10. CASE ConsumePart
  <2>1. phase' = "kick" /\ trades' = Append(trades, TradeWith(Maker, taker.left))
        /\ MakerLeft > taker.left
    BY <1>10 DEF ConsumePart
  <2>2. Cost(trades)' = Cost(trades) + ScaleDown(taker.left * ask.price)
    BY <1>2, <1>9, <2>1
  <2>3. ScaleDown(taker.left * ask.price) <= w.balance /\ w.balance \in Int
    BY <1>5, <1>6, <1>8, <2>1
  <2>4. Cost(trades) \in Int /\ ScaleDown(taker.left * ask.price) \in Int
    BY <1>2, <1>9
  <2>5. Cost(trades) + w.balance <= Funds
    BY <1>5
  <2> HIDE DEF w, ask
  <2>6. Cost(trades)' <= Funds
    BY <1>7, <2>2, <2>3, <2>4, <2>5
  <2> QED BY <1>5, <2>1, <2>6
<1>11. CASE ConsumeWhole
  <2>1. /\ removed' = removed + 1 /\ lastFill' = 0 /\ MakerLeft <= taker.left
        /\ taker' = [taker EXCEPT !.left = @ - MakerLeft]
        /\ trades' = Append(trades, TradeWith(Maker, MakerLeft))
    BY <1>11 DEF ConsumeWhole
  <2>2. ask.left \in Nat /\ ask.price \in Nat
    BY <1>6 DEF Order
  <2>3. Cost(trades)' = Cost(trades) + ScaleDown(ask.left * ask.price)
    BY <1>6, <1>9, <2>1, <2>2
  <2>4. /\ ScaleDown(ask.left * ask.price) <= w.balance
        /\ next.left = w.left - ask.left
        /\ next.balance = w.balance - ask.price * ask.left /\ ~next.ended
    BY <1>5, <1>6, <1>8, <2>1
  <2>5. ScaleDown(ask.left * ask.price) <= ask.price * ask.left /\ ask.price * ask.left \in Int
    <3>1. ask.left * ask.price \in Nat /\ ask.left * ask.price = ask.price * ask.left
      <4> HIDE DEF ask
      <4> QED BY <2>2
    <3> QED BY <3>1, ScaleAssumption, DivSmaller DEF ScaleDown
  <2>6. Cost(trades) \in Int /\ ScaleDown(ask.left * ask.price) \in Int
    BY <1>9, <2>2
  <2>7. Cost(trades) + w.balance <= Funds /\ w.balance \in Int
    BY <1>5, <1>8
  <2>8. taker'.left = taker.left - ask.left
    BY <1>2, <1>6, <2>1 DEF Taker
  <2>9. Walked(removed)' = next
    BY <1>1, <1>4, <2>1 DEF Walked
  <2>10. w.left = taker.left
    BY <1>5
  <2> HIDE DEF w, next
  <2> DEFINE product == ask.price * ask.left
             price == ScaleDown(ask.left * ask.price)
  <2>11. /\ price <= w.balance /\ next.balance = w.balance - product /\ price <= product
         /\ product \in Int /\ price \in Int /\ Cost(trades)' = Cost(trades) + price
    BY <2>3, <2>4, <2>5, <2>6
  <2> HIDE DEF product, price
  <2>12. Cost(trades)' <= Funds /\ Cost(trades)' + next.balance <= Funds
    BY <1>7, <2>6, <2>7, <2>11
  <2> QED BY <1>5, <2>1, <2>4, <2>8, <2>9, <2>10, <2>12
<1> QED BY <1>10, <1>11

\* The other steps do not lead to the consumption of a market buy order.
LEMMA OtherAffords ==
  ASSUME IInv, MarketBuyInv, [Next]_vars, ~ConsumePart, ~ConsumeWhole,
         \A m \in Orders : ~AcceptOrder(m)
  PROVE  MarketBuyInv'
<1>1. CASE UNCHANGED vars
  BY <1>1 DEF vars, marketVars, bookVars, walletVars, simVars, callVars, MarketBuyInv, Walked,
              Funds, Side
<1>2. CASE RestLimitOrder \/ ProcessStopOrder
  <2>1. taker'.kind = "limit"
    BY <1>2 DEF RestLimitOrder, ProcessStopOrder, HasMaker, IInv, TypeOK, CallTypeOK, OrderPhases,
                Matching, Taker
  <2> QED BY <2>1 DEF MarketBuyInv
<1>3. CASE phase' \notin {"consume", "kick"}
  BY <1>3 DEF MarketBuyInv
<1>4. CASE ~RestLimitOrder /\ ~ProcessStopOrder /\ ~UNCHANGED vars
  <2>1. phase' \notin {"consume", "kick"}
    BY <1>4 DEF Next, Processing, Receive, ConsumeOwn, MarketOrderUnfilled, LimitOrderRefused,
                StopLimitRefused, PlaceStopLimit, KickOffStopOrders, NoTradeNoKick, PostProcess,
                InsertLimitOrder, UpdateBooks, SettleTrade, AnswerOrder, CancelNext, CancelStale,
                CancelledAll, RejectOrder, Receivable, CancelOrder, CancelUnknownOrder,
                ClearOpenOrders, ClearEveryonesOpenOrders, SetFeePercentage,
                SetMaxNumLimitOpenOrders, SetMaxNumStopLimitOpenOrders, SetConfig, Throw, Return
  <2> QED BY <2>1 DEF MarketBuyInv
<1> QED BY <1>1, <1>2, <1>4

\* The walk of a market buy order and its trades agree at every program point.
THEOREM MarketBuyInvariance == Spec => []MarketBuyInv
<1>1. Init => MarketBuyInv
  BY DEF Init, MarketBuyInv
<1>2. IInv /\ QuantityInv /\ MarketBuyInv /\ [Next]_vars => MarketBuyInv'
  BY AcceptOrderAffords, ConsumeAffords, OtherAffords
<1> QED BY <1>1, <1>2, Invariance, QuantityInvariance, PTL DEF Spec

\* What a market buy order costs its user was available when it was accepted: the
\* walk of SimulateMarketBuyOrder, which subtracts products that are not scaled
\* down, puts by at least what Consume will spend.
THEOREM MarketBuysAreAffordable == Spec => []MarketBuyAffordable
<1>1. MarketBuyInv => MarketBuyAffordable
  BY DEF MarketBuyInv, MarketBuyAffordable, Cost, Costs, Funds
<1> QED BY <1>1, MarketBuyInvariance, PTL

=============================================================================
