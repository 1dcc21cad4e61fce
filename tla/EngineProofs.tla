---------------------------- MODULE EngineProofs ----------------------------
(***************************************************************************)
(* The engine, for any coins and markets, created in any order.            *)
(*                                                                         *)
(* The vectors of ids stay sorted, so that lower_bound finds what was      *)
(* asked for.  Every market has the invariants of module Market, in the    *)
(* window and out of it (EngineInv), so that each of them matches as       *)
(* module MatchingBook says, CancelAllOrders reaches all orders of its     *)
(* user and none of anybody else, and the wallets the markets share hold   *)
(* what is offered in all of them (HeldInv).                               *)
(***************************************************************************)
EXTENDS EngineProperties, MarketBookProofs, WellFoundedInduction

\* The inductive invariant.
SortedIds(ids) == ids \in Seq(Nat) /\ StrictlySorted(ids)

IndexInv ==
  /\ SortedIds(walletIds)
  /\ DOMAIN marketsMap \subseteq Nat
  /\ \A id \in DOMAIN marketsMap : SortedIds(marketsMap[id])

-----------------------------------------------------------------------------
(* std::lower_bound *)

\* There is a first position that is not smaller, or there is only the end.
LEMMA LowerBoundExists ==
  ASSUME NEW ids \in Seq(Nat), NEW x \in Nat
  PROVE  \E i \in 1 .. Len(ids) + 1 : IsLowerBound(ids, x, i)
  <1> DEFINE NotSmaller == {i \in 1 .. Len(ids) + 1 : i <= Len(ids) => ids[i] >= x}
  <1>1. Len(ids) \in Nat /\ \A i \in 1 .. Len(ids) : ids[i] \in Nat OBVIOUS
  <1>2. NotSmaller \subseteq Nat /\ NotSmaller # {}
    <2>1. Len(ids) + 1 \in NotSmaller BY <1>1
    <2>2. QED BY <2>1, <1>1
  <1>3. PICK i \in NotSmaller : \A j \in NotSmaller : <<j, i>> \notin OpToRel(<, Nat)
    <2> HIDE DEF NotSmaller
    <2>1. QED BY <1>2, WFMin, NatLessThanWellFounded
  <1>4. \A j \in NotSmaller : ~(j < i)
    <2> SUFFICES ASSUME NEW j \in NotSmaller, j < i PROVE FALSE OBVIOUS
    <2>1. i \in Nat /\ j \in Nat BY <1>2
    <2>2. <<j, i>> \in OpToRel(<, Nat) BY <2>1 DEF OpToRel
    <2>3. QED BY <2>2, <1>3
  <1>5. i \in 1 .. Len(ids) + 1 /\ (i <= Len(ids) => ids[i] >= x) OBVIOUS
  <1>6. ASSUME NEW j \in 1 .. i - 1 PROVE ids[j] < x
    <2>1. j \in 1 .. Len(ids) /\ j < i BY <1>1, <1>5
    <2>2. j \notin NotSmaller BY <2>1, <1>4
    <2>3. ~(ids[j] >= x) BY <2>1, <2>2, <1>1
    <2>4. QED BY <2>1, <2>3, <1>1
  <1>7. QED BY <1>5, <1>6 DEF IsLowerBound

LEMMA LowerBoundIsOne ==
  ASSUME NEW ids \in Seq(Nat), NEW x \in Nat
  PROVE  LowerBound(ids, x) \in 1 .. Len(ids) + 1 /\ IsLowerBound(ids, x, LowerBound(ids, x))
  BY LowerBoundExists DEF LowerBound

\* In a sorted vector it is the position of an id that is there.
LEMMA LowerBoundFinds ==
  ASSUME NEW ids, SortedIds(ids), NEW i \in 1 .. Len(ids)
  PROVE  LowerBound(ids, ids[i]) = i
  <1> DEFINE k == LowerBound(ids, ids[i])
  <1>1. /\ ids \in Seq(Nat) /\ Len(ids) \in Nat
        /\ \A j \in 1 .. Len(ids) : ids[j] \in Nat
    BY DEF SortedIds
  <1>2. k \in 1 .. Len(ids) + 1 /\ IsLowerBound(ids, ids[i], k) BY <1>1, LowerBoundIsOne
  <1> HIDE DEF k
  <1>3. ~(i < k)
    <2>1. i < k => i \in 1 .. k - 1 BY <1>1, <1>2
    <2>2. QED BY <2>1, <1>1, <1>2 DEF IsLowerBound
  <1>4. ~(k < i)
    <2> SUFFICES ASSUME k < i PROVE FALSE OBVIOUS
    <2>1. k \in 1 .. Len(ids) BY <1>1, <1>2
    <2>2. ids[k] < ids[i] BY <2>1 DEF SortedIds, StrictlySorted
    <2>3. ids[k] >= ids[i] BY <2>1, <1>2 DEF IsLowerBound
    <2>4. QED BY <2>1, <2>2, <2>3, <1>1
  <1>5. QED BY <1>1, <1>2, <1>3, <1>4 DEF k

-----------------------------------------------------------------------------
(* Insertion *)

LEMMA InsertAtElements ==
  ASSUME NEW ids \in Seq(Nat), NEW x \in Nat, NEW k \in 1 .. Len(ids) + 1
  PROVE  /\ InsertAt(ids, k, x) \in Seq(Nat)
         /\ Len(InsertAt(ids, k, x)) = Len(ids) + 1
         /\ \A j \in 1 .. k - 1 : InsertAt(ids, k, x)[j] = ids[j]
         /\ InsertAt(ids, k, x)[k] = x
         /\ \A j \in k + 1 .. Len(ids) + 1 : InsertAt(ids, k, x)[j] = ids[j - 1]
  <1> DEFINE n == Len(ids)
             front == SubSeq(ids, 1, k - 1)
             back == SubSeq(ids, k, n)
  <1>1. n \in Nat /\ \A j \in 1 .. n : ids[j] \in Nat OBVIOUS
  <1>2. /\ front \in Seq(Nat) /\ Len(front) = k - 1
        /\ \A j \in 1 .. k - 1 : front[j] = ids[j]
    BY <1>1, SubSeqProperties
  <1>3. /\ back \in Seq(Nat) /\ Len(back) = n - k + 1
        /\ \A j \in 1 .. n - k + 1 : back[j] = ids[k + j - 1]
    BY <1>1, SubSeqProperties
  <1>4. InsertAt(ids, k, x) = (front \o <<x>>) \o back BY DEF InsertAt
  <1> HIDE DEF front, back, n
  <1>5. /\ front \o <<x>> \in Seq(Nat) /\ Len(front \o <<x>>) = k
        /\ \A j \in 1 .. k - 1 : (front \o <<x>>)[j] = front[j]
        /\ (front \o <<x>>)[k] = x
    <2>1. /\ <<x>> \in Seq(Nat) /\ Len(<<x>>) = 1 /\ <<x>>[1] = x
          /\ k \in Nat \ {0} /\ Len(front) + 1 = k
      BY <1>1, <1>2 DEF n
    <2>2. /\ front \o <<x>> \in Seq(Nat) /\ Len(front \o <<x>>) = k
          /\ \A j \in 1 .. k : (front \o <<x>>)[j] =
               IF j <= Len(front) THEN front[j] ELSE <<x>>[j - Len(front)]
      BY <2>1, <1>2, ConcatProperties
    <2>3. \A j \in 1 .. k - 1 : j \in 1 .. k /\ j <= Len(front) BY <2>1, <1>2
    <2>4. k \in 1 .. k /\ ~(k <= Len(front)) /\ k - Len(front) = 1 BY <2>1, <1>2
    <2>5. QED BY <2>1, <2>2, <2>3, <2>4
  <1> DEFINE upper == front \o <<x>>
  <1> HIDE DEF upper
  <1>6. /\ upper \o back \in Seq(Nat) /\ Len(upper \o back) = n + 1
        /\ \A j \in 1 .. k : (upper \o back)[j] = upper[j]
        /\ \A j \in k + 1 .. n + 1 : (upper \o back)[j] = back[j - k]
    <2>1. upper \in Seq(Nat) /\ Len(upper) = k /\ k \in Nat BY <1>5 DEF upper, n
    <2>2. n - k + 1 \in Nat /\ k + (n - k + 1) = n + 1 BY <1>1 DEF n
    <2>3. /\ upper \o back \in Seq(Nat) /\ Len(upper \o back) = n + 1
          /\ \A j \in 1 .. n + 1 : (upper \o back)[j] =
               IF j <= k THEN upper[j] ELSE back[j - k]
      <3>1. /\ upper \o back \in Seq(Nat) /\ Len(upper \o back) = Len(upper) + Len(back)
            /\ \A j \in 1 .. Len(upper) + Len(back) : (upper \o back)[j] =
                 IF j <= Len(upper) THEN upper[j] ELSE back[j - Len(upper)]
        <4>1. upper \in Seq(Nat) /\ back \in Seq(Nat) BY <2>1, <1>3
        <4>2. QED BY <4>1, ConcatProperties
      <3>2. Len(upper) = k /\ Len(upper) + Len(back) = n + 1 BY <2>1, <2>2, <1>3
      <3>3. QED BY <3>1, <3>2
    <2>4. k <= n + 1 BY <1>1 DEF n
    <2>5. \A j \in 1 .. k : j \in 1 .. n + 1 /\ j <= k BY <2>1, <2>4, <1>1
    <2>6. \A j \in k + 1 .. n + 1 : j \in 1 .. n + 1 /\ ~(j <= k) BY <2>1, <1>1
    <2>7. QED BY <2>3, <2>5, <2>6
  <1>7. \A j \in k + 1 .. n + 1 : back[j - k] = ids[j - 1]
    <2> SUFFICES ASSUME NEW j \in k + 1 .. n + 1 PROVE back[j - k] = ids[j - 1] OBVIOUS
    <2>1. j - k \in 1 .. n - k + 1 /\ k + (j - k) - 1 = j - 1 BY <1>1
    <2>2. QED BY <2>1, <1>3
  <1>8. \A j \in 1 .. k - 1 : upper[j] = ids[j] BY <1>2, <1>5 DEF upper
  <1>9. upper[k] = x BY <1>5 DEF upper
  <1>10. InsertAt(ids, k, x) = upper \o back BY <1>4 DEF upper
  <1>11. \A j \in 1 .. k - 1 : j \in 1 .. k BY <1>1
  <1>12. k \in 1 .. k OBVIOUS
  <1>13. QED BY <1>6, <1>7, <1>8, <1>9, <1>10, <1>11, <1>12 DEF n

LEMMA InsertKeepsSorted ==
  ASSUME NEW ids, SortedIds(ids), NEW x \in Nat, ~Holds(ids, x)
  PROVE  SortedIds(InsertSorted(ids, x))
  <1> DEFINE k == LowerBound(ids, x)
             n == Len(ids)
             t == InsertSorted(ids, x)
  <1>1. ids \in Seq(Nat) /\ n \in Nat /\ \A j \in 1 .. n : ids[j] \in Nat BY DEF SortedIds
  <1>2. k \in 1 .. n + 1 /\ IsLowerBound(ids, x, k) BY <1>1, LowerBoundIsOne
  <1>3. k <= n => ids[k] # x BY <1>2 DEF Holds
  <1>4. t = InsertAt(ids, k, x) BY DEF InsertSorted
  <1> HIDE DEF k, t
  <1>5. /\ t \in Seq(Nat) /\ Len(t) = n + 1 /\ t[k] = x
        /\ \A j \in 1 .. k - 1 : t[j] = ids[j]
        /\ \A j \in k + 1 .. n + 1 : t[j] = ids[j - 1]
    <2>1. k \in 1 .. Len(ids) + 1 BY <1>2
    <2>2. /\ InsertAt(ids, k, x) \in Seq(Nat)
          /\ Len(InsertAt(ids, k, x)) = Len(ids) + 1
          /\ \A j \in 1 .. k - 1 : InsertAt(ids, k, x)[j] = ids[j]
          /\ InsertAt(ids, k, x)[k] = x
          /\ \A j \in k + 1 .. Len(ids) + 1 : InsertAt(ids, k, x)[j] = ids[j - 1]
      BY <2>1, <1>1, InsertAtElements
    <2>3. QED BY <2>2, <1>4
  <1>6. \A g, h \in 1 .. n : g < h => ids[g] < ids[h] BY DEF SortedIds, StrictlySorted
  <1>7. \A j \in 1 .. k - 1 : ids[j] < x BY <1>2 DEF IsLowerBound
  <1>8. ASSUME NEW j \in k .. n PROVE ids[j] > x
    <2>1. k \in 1 .. n /\ j \in 1 .. n BY <1>1, <1>2
    <2>2. ids[k] > x BY <2>1, <1>1, <1>2, <1>3 DEF IsLowerBound
    <2>3. k < j => ids[k] < ids[j] BY <2>1, <1>6
    <2>4. QED BY <2>1, <2>2, <2>3, <1>1
  <1> HIDE DEF n
  <1>9. ASSUME NEW i \in 1 .. n + 1, NEW j \in 1 .. n + 1, i < j PROVE t[i] < t[j]
    <2>1. CASE j < k
      <3>1. i \in 1 .. k - 1 /\ j \in 1 .. k - 1 /\ i \in 1 .. n /\ j \in 1 .. n
        BY <2>1, <1>1, <1>2, <1>9
      <3>2. ids[i] < ids[j] BY <3>1, <1>6, <1>9
      <3>3. QED BY <3>1, <3>2, <1>5
    <2>2. CASE j = k
      <3>1. i \in 1 .. k - 1 BY <2>2, <1>1, <1>2, <1>9
      <3>2. QED BY <3>1, <2>2, <1>5, <1>7
    <2>3. CASE j > k /\ i < k
      <3>1. i \in 1 .. k - 1 /\ i \in 1 .. n /\ j \in k + 1 .. n + 1 /\ j - 1 \in k .. n
            /\ j - 1 \in 1 .. n
        BY <2>3, <1>1, <1>2
      <3>2. ids[i] < x /\ ids[j - 1] > x BY <3>1, <1>7, <1>8
      <3>3. t[i] = ids[i] /\ t[j] = ids[j - 1] BY <3>1, <1>5
      <3>4. ids[i] \in Nat /\ ids[j - 1] \in Nat BY <3>1, <1>1
      <3>5. QED BY <3>2, <3>3, <3>4
    <2>4. CASE j > k /\ i = k
      <3>1. j \in k + 1 .. n + 1 /\ j - 1 \in k .. n /\ j - 1 \in 1 .. n BY <2>4, <1>1, <1>2
      <3>2. ids[j - 1] > x /\ t[j] = ids[j - 1] /\ t[i] = x BY <3>1, <2>4, <1>5, <1>8
      <3>3. ids[j - 1] \in Nat BY <3>1, <1>1
      <3>4. QED BY <3>2, <3>3
    <2>5. CASE j > k /\ i > k
      <3>1. /\ i \in k + 1 .. n + 1 /\ j \in k + 1 .. n + 1
            /\ i - 1 \in 1 .. n /\ j - 1 \in 1 .. n /\ i - 1 < j - 1
        BY <2>5, <1>1, <1>2, <1>9
      <3>2. ids[i - 1] < ids[j - 1] BY <3>1, <1>6
      <3>3. t[i] = ids[i - 1] /\ t[j] = ids[j - 1] BY <3>1, <1>5
      <3>4. QED BY <3>2, <3>3
    <2>6. QED BY <2>1, <2>2, <2>3, <2>4, <2>5, <1>2
  <1>10. QED BY <1>5, <1>9 DEF t, SortedIds, StrictlySorted

-----------------------------------------------------------------------------
(* The invariant *)

LEMMA PairsAreIds ==
  /\ \A p \in CoinPairs \cup {FirstPair} : p.coin \in Nat /\ p.base \in Nat
  /\ FirstPair.coin # FirstPair.base
  /\ \A id \in CoinIds : id \in Int
  BY PairsAssumption DEF AllPairs, CoinPair

LEMMA OneIdSorted ==
  ASSUME NEW x \in Nat
  PROVE  SortedIds(<<x>>)
  BY DEF SortedIds, StrictlySorted

LEMMA IndexInvInit == EngineInit => IndexInv
  <1> SUFFICES ASSUME EngineInit PROVE IndexInv OBVIOUS
  <1> DEFINE c == FirstPair.coin
             b == FirstPair.base
  <1>1. c \in Nat /\ b \in Nat /\ c # b BY PairsAreIds
  <1>2. SortedIds(<<b>>) BY <1>1, OneIdSorted
  <1>3. ~Holds(<<b>>, c)
    <2>1. LowerBound(<<b>>, c) \in 1 .. Len(<<b>>) + 1
      <3>1. <<b>> \in Seq(Nat) BY <1>1
      <3>2. QED BY <3>1, <1>1, LowerBoundIsOne
    <2>2. \A i \in 1 .. 1 : <<b>>[i] # c BY <1>1
    <2>3. Len(<<b>>) = 1 OBVIOUS
    <2> DEFINE k == LowerBound(<<b>>, c)
    <2> HIDE DEF k
    <2>4. k \in 1 .. 2 BY <2>1, <2>3 DEF k
    <2>5. k <= 1 => k \in 1 .. 1 BY <2>4
    <2>6. ~(k <= 1 /\ <<b>>[k] = c) BY <2>2, <2>5
    <2>7. QED BY <2>3, <2>6 DEF Holds, k
  <1>4. SortedIds(walletIds) BY <1>1, <1>2, <1>3, InsertKeepsSorted DEF EngineInit
  <1>5. marketsMap = [id \in {b} |-> <<c>>] BY DEF EngineInit
  <1>6. QED BY <1>1, <1>4, <1>5, OneIdSorted DEF IndexInv

LEMMA NewCoinKeepsIndex ==
  ASSUME IndexInv, NEW id \in CoinIds, NewCoin(id)
  PROVE  IndexInv'
  <1>1. id \in Nat BY PairsAreIds DEF NewCoin
  <1>2. SortedIds(walletIds') BY <1>1, InsertKeepsSorted DEF NewCoin, IndexInv
  <1>3. marketsMap' = marketsMap BY DEF NewCoin
  <1>4. QED BY <1>2, <1>3 DEF IndexInv, SortedIds, StrictlySorted

LEMMA MarketsSorted ==
  ASSUME IndexInv, NEW id \in Nat
  PROVE  SortedIds(Markets(id))
  <1>1. SortedIds(<<>>) BY DEF SortedIds, StrictlySorted
  <1>2. QED BY <1>1 DEF Markets, IndexInv

LEMMA NewMarketKeepsIndex ==
  ASSUME IndexInv, NEW p \in CoinPairs, NEW settings, NewMarket(p, settings)
  PROVE  IndexInv'
  <1>1. p.coin \in Nat /\ p.base \in Nat BY PairsAreIds
  <1>2. SortedIds(InsertSorted(Markets(p.base), p.coin))
    BY <1>1, MarketsSorted, InsertKeepsSorted DEF NewMarket
  <1>3. /\ walletIds' = walletIds
        /\ marketsMap' = [id \in DOMAIN marketsMap \cup {p.base} |->
                            IF id = p.base THEN InsertSorted(Markets(id), p.coin)
                                           ELSE marketsMap[id]]
    BY DEF NewMarket
  <1>4. \A id \in DOMAIN marketsMap' : SortedIds(marketsMap'[id])
    BY <1>2, <1>3 DEF IndexInv
  <1>5. DOMAIN marketsMap' \subseteq Nat BY <1>1, <1>3 DEF IndexInv
  <1>6. QED BY <1>3, <1>4, <1>5 DEF IndexInv, SortedIds, StrictlySorted

\* Every other action leaves the vectors of ids alone.
LEMMA OthersKeepIndex ==
  ASSUME EngineNext,
         \A id \in CoinIds : ~NewCoin(id),
         \A p \in CoinPairs, settings \in MarketConfig : ~NewMarket(p, settings)
  PROVE  UNCHANGED indexVars
  <1>1. HandlerStep => UNCHANGED indexVars BY DEF HandlerStep, OnMarket
  <1>2. MarketMessage => UNCHANGED indexVars BY DEF MarketMessage, OnMarket
  <1>3. ASSUME NEW p, Focus(p) PROVE UNCHANGED indexVars BY <1>3 DEF Focus
  <1>4. ASSUME NEW id, SweepBase(id) PROVE UNCHANGED indexVars BY <1>4 DEF SweepBase, SweepStep
  <1>5. SweepMarket \/ SweepUnknown \/ SweepDone => UNCHANGED indexVars
    BY DEF SweepMarket, SweepUnknown, SweepDone, SweepStep
  <1>6. ASSUME NEW id, RejectNewCoin(id) PROVE UNCHANGED indexVars
    BY <1>6 DEF RejectNewCoin, engineVars
  <1>7. ASSUME NEW p, RejectNewMarket(p) PROVE UNCHANGED indexVars
    BY <1>7 DEF RejectNewMarket, engineVars
  <1>8. ASSUME NEW t, ReceiveTransfer(t) PROVE UNCHANGED indexVars BY <1>8 DEF ReceiveTransfer
  <1>9. ASSUME NEW f, NEW v, SetAllConfigs(f, v) PROVE UNCHANGED indexVars
    BY <1>9 DEF SetAllConfigs
  <1>10. ClearAllEveryonesOpenOrders => UNCHANGED indexVars
    BY DEF ClearAllEveryonesOpenOrders
  <1>11. ASSUME NEW u, CancelAllOrders(u) PROVE UNCHANGED indexVars BY <1>11 DEF CancelAllOrders
  <1>12. QED
    BY <1>1, <1>2, <1>3, <1>4, <1>5, <1>6, <1>7, <1>8, <1>9, <1>10, <1>11
    DEF EngineNext, EngineProcessing, EngineReceive

LEMMA IndexInvNext == IndexInv /\ [EngineNext]_allVars => IndexInv'
  <1> SUFFICES ASSUME IndexInv, [EngineNext]_allVars PROVE IndexInv' OBVIOUS
  <1>1. ASSUME UNCHANGED indexVars PROVE IndexInv'
    BY <1>1 DEF IndexInv, indexVars, SortedIds, StrictlySorted
  <1>2. CASE \E id \in CoinIds : NewCoin(id) BY <1>2, NewCoinKeepsIndex
  <1>3. CASE \E p \in CoinPairs, settings \in MarketConfig : NewMarket(p, settings)
    BY <1>3, NewMarketKeepsIndex
  <1>4. CASE UNCHANGED allVars BY <1>1, <1>4 DEF allVars, engineVars
  <1>5. QED BY <1>1, <1>2, <1>3, <1>4, OthersKeepIndex

-----------------------------------------------------------------------------
(* Theorems *)

LEMMA SortedLookups == IndexInv => LookupsFindTheirOwn
  <1> SUFFICES ASSUME IndexInv PROVE LookupsFindTheirOwn OBVIOUS
  <1>1. \A i \in DOMAIN walletIds : GetWallet(walletIds[i]) = walletIds[i]
    BY LowerBoundFinds DEF IndexInv, SortedIds, GetWallet
  <1>2. ASSUME NEW p \in Existing PROVE GetMarket(p) = p
    <2>1. p \in CoinPair BY PairsAssumption DEF Existing
    <2>2. SortedIds(Markets(p.base)) BY <2>1, MarketsSorted DEF CoinPair
    <2>3. PICK i \in DOMAIN Markets(p.base) : Markets(p.base)[i] = p.coin BY DEF Existing
    <2>4. i \in 1 .. Len(Markets(p.base)) BY <2>2, <2>3 DEF SortedIds
    <2>5. LowerBound(Markets(p.base), p.coin) = i BY <2>2, <2>3, <2>4, LowerBoundFinds
    <2>6. GetMarket(p) = [coin |-> p.coin, base |-> p.base] BY <2>3, <2>5 DEF GetMarket
    <2>7. QED BY <2>1, <2>6 DEF CoinPair
  <1>3. QED BY <1>1, <1>2 DEF LookupsFindTheirOwn, IndexInv, SortedIds

\* However coins and markets come and go through messages, a coin or market that
\* exists is found under its own id, although neither GetWallet nor GetMarket
\* compares what lower_bound returns with what was asked for.
THEOREM EngineLookups == EngineSpec => []LookupsFindTheirOwn
  <1>1. EngineInit => IndexInv BY IndexInvInit
  <1>2. IndexInv /\ [EngineNext]_allVars => IndexInv' BY IndexInvNext
  <1>3. IndexInv => LookupsFindTheirOwn BY SortedLookups
  <1>4. QED BY <1>1, <1>2, <1>3, PTL DEF EngineSpec

-----------------------------------------------------------------------------
(* A market between messages *)

\* What is inductive of a market when no message is at work, stated of the record
\* in which the engine keeps it: module Market's invariants, without the record of
\* the simulator, which is empty then.
StoredOrders(m) ==
  /\ m.limits \in [Sides -> Seq(Order)] /\ m.stops \in [Sides -> Seq(Order)]
  /\ \A s \in Sides : Sorted(Opposite(s), m.limits[s])
  /\ Apart("Buy", m.limits["Buy"], m.limits["Sell"], 0)
  /\ \A x \in Nat : BothHeld(x, m.limits) + BothHeld(x, m.stops) <= Once(x < m.orderId)
StoredCache(m) ==
  /\ m.userOrders \subseteq CacheEntry /\ m.knownUsers \subseteq Users
  /\ \A s \in Sides :
       /\ Entries("limit", s, m.limits[s]) \subseteq m.userOrders
       /\ Entries("stop", s, m.stops[s]) = {e \in m.userOrders : e.kind = "stop" /\ e.side = s}
  /\ \A e \in m.userOrders : e.user \in m.knownUsers /\ e.id \in 0 .. m.orderId - 1
  /\ \A e, f \in m.userOrders : e.id = f.id => e.user = f.user
StoredSettings(m) ==
  /\ m.orderId \in Nat /\ m.tradeId \in Nat
  /\ m.config \in MarketConfig /\ m.ops \in Seq(Operation)
StoredFields(m) ==
  m = [limits |-> m.limits, stops |-> m.stops, userOrders |-> m.userOrders,
       knownUsers |-> m.knownUsers, orderId |-> m.orderId, tradeId |-> m.tradeId,
       config |-> m.config, ops |-> m.ops]
MarketOK(m) == StoredFields(m) /\ StoredOrders(m) /\ StoredCache(m) /\ StoredSettings(m)

\* All that is known of the market in the window.
WindowInv == IInv /\ QuantityInv /\ BookInv /\ IdInv /\ CacheInv /\ OwnerInv

\* No order message is at work; orders of a user may just be going to be cancelled.
Resting ==
  /\ removed = 0 /\ lastFill = 0 /\ triggered = 0
  /\ insertedLimits = <<>> /\ insertedStop = <<>> /\ trades = <<>> /\ pending = <<>>
  /\ lastTradePrice \in Nat \cup {NoTrade} /\ toCancel \subseteq CacheEntry
  /\ coin \in [Users -> Address] /\ base \in [Users -> Address]
  /\ reply \in Errors \cup {"ok", "none", "out_of_range"}
  /\ \/ phase = "idle"
     \/ phase = "cancel" /\ message \in Users /\ toCancel = EntriesOf(message) /\ reply = "none"

LEMMA WindowFields ==
  /\ Window.limits = limits /\ Window.stops = stops /\ Window.userOrders = userOrders
  /\ Window.knownUsers = knownUsers /\ Window.orderId = currentOrderId
  /\ Window.tradeId = currentTradeId /\ Window.config = config /\ Window.ops = ops
BY DEF Window

LEMMA WindowFieldsNext ==
  /\ Window'.limits = limits' /\ Window'.stops = stops' /\ Window'.userOrders = userOrders'
  /\ Window'.knownUsers = knownUsers' /\ Window'.orderId = currentOrderId'
  /\ Window'.tradeId = currentTradeId' /\ Window'.config = config' /\ Window'.ops = ops'
BY DEF Window

\* No order is where the simulator keeps those of a message.
LEMMA RestingPlaces ==
  ASSUME Resting, NEW x
  PROVE  Places(x) = BothHeld(x, limits) + BothHeld(x, stops) + 0
<1>1. phase \notin Matching /\ phase \notin Recording /\ phase \notin {"consume", "stop"}
  BY DEF Resting, Matching, Recording
<1>2. Waiting = <<>> /\ insertedLimits = <<>>
  BY DEF Waiting, Resting
<1>3. Held(x, <<>>) = 0
  BY HeldSingle
<1>4. Recorded(x) = 0
  BY <1>1, <1>2, <1>3 DEF Recorded, RecordedStop, TakerHeld
<1> QED BY <1>1, <1>4 DEF Places, Standing

LEMMA WindowResting ==
  ASSUME WindowInv, phase = "idle"
  PROVE  Resting
BY DEF WindowInv, IInv, TypeOK, MarketTypeOK, CallTypeOK, ReplyTypeOK, SimulatorTypeOK,
       ClearedWhenIdle, QuantityInv, TakersDone, Resting

\* Between messages the window can be stored.
LEMMA WindowStored ==
  ASSUME WindowInv, phase = "idle"
  PROVE  MarketOK(Window)
<1> DEFINE m == Window
<1>1. /\ m.limits = limits /\ m.stops = stops /\ m.userOrders = userOrders
      /\ m.knownUsers = knownUsers /\ m.orderId = currentOrderId
      /\ m.tradeId = currentTradeId /\ m.config = config /\ m.ops = ops
  BY WindowFields
<1> HIDE DEF m
<1>2. /\ limits \in [Sides -> Seq(Order)] /\ stops \in [Sides -> Seq(Order)]
      /\ userOrders \subseteq CacheEntry /\ knownUsers \subseteq Users
      /\ currentOrderId \in Nat /\ currentTradeId \in Nat /\ config \in MarketConfig
      /\ ops \in Seq(Operation)
  BY DEF WindowInv, IInv, TypeOK, MarketTypeOK, ReplyTypeOK, MarketConfig
<1>3. StoredOrders(m)
  <2>1. (\A s \in Sides : Sorted(Opposite(s), limits[s]))
        /\ Apart("Buy", limits["Buy"], limits["Sell"], 0)
    BY DEF WindowInv, BookInv, LimitsSorted, BooksApart
  <2>2. \A x \in Nat : BothHeld(x, limits) + BothHeld(x, stops) <= Once(x < currentOrderId)
    BY DEF WindowInv, IdInv, Committed
  <2> QED BY <1>1, <1>2, <2>1, <2>2 DEF StoredOrders
<1>4. StoredCache(m)
  <2>1. ASSUME NEW s \in Sides
        PROVE  /\ Entries("limit", s, limits[s]) \subseteq userOrders
               /\ Entries("stop", s, stops[s])
                    = {e \in userOrders : e.kind = "stop" /\ e.side = s}
    <3>1. /\ InBook("limit", s) = Entries("limit", s, limits[s])
          /\ InBook("stop", s) = Entries("stop", s, stops[s])
      BY InBookNow DEF WindowInv
    <3>2. InBook("limit", s) \subseteq userOrders /\ InBook("stop", s) \subseteq userOrders
          /\ Cached("stop", s) \subseteq InBook("stop", s)
      BY DEF WindowInv, CacheInv, Covered, StopsCached
    <3>3. \A e \in InBook("stop", s) : e.kind = "stop" /\ e.side = s
      BY InBookFields
    <3> QED BY <3>1, <3>2, <3>3 DEF Cached
  <2>2. \A e \in userOrders : e.user \in knownUsers
    BY DEF WindowInv, CacheInv, UsersKnown
  <2>3. ASSUME NEW e \in userOrders PROVE Owner(e) \in CachedOwners /\ Owner(e) \in Owners
    BY DEF CachedOwners, Owners
  <2>4. \A e \in userOrders : e.id \in 0 .. currentOrderId - 1
    BY <2>3 DEF WindowInv, OwnerInv, OwnersGiven, Owner
  <2>5. \A e, f \in userOrders : e.id = f.id => e.user = f.user
    BY <2>3 DEF WindowInv, OwnerInv, OneOwner, Owner
  <2> QED BY <1>1, <1>2, <2>1, <2>2, <2>4, <2>5 DEF StoredCache
<1>5. StoredSettings(m)
  BY <1>1, <1>2 DEF StoredSettings
<1>6. StoredFields(m)
  BY DEF StoredFields, m, Window
<1> QED BY <1>3, <1>4, <1>5, <1>6 DEF MarketOK, m

\* And what was stored can be in the window.
LEMMA StoredWindow ==
  MarketOK(Window) /\ Resting => WindowInv
<1> SUFFICES ASSUME MarketOK(Window), Resting PROVE WindowInv
  OBVIOUS
<1> DEFINE m == Window
<1>1. /\ m.limits = limits /\ m.stops = stops /\ m.userOrders = userOrders
      /\ m.knownUsers = knownUsers /\ m.orderId = currentOrderId
      /\ m.tradeId = currentTradeId /\ m.config = config /\ m.ops = ops
  BY WindowFields
<1>2. StoredOrders(m) /\ StoredCache(m) /\ StoredSettings(m)
  BY DEF MarketOK
<1> HIDE DEF m
<1>3. /\ limits \in [Sides -> Seq(Order)] /\ stops \in [Sides -> Seq(Order)]
      /\ userOrders \subseteq CacheEntry /\ knownUsers \subseteq Users
      /\ currentOrderId \in Nat /\ currentTradeId \in Nat /\ config \in MarketConfig
      /\ ops \in Seq(Operation)
  BY <1>1, <1>2 DEF StoredOrders, StoredCache, StoredSettings
<1>4. /\ phase \in {"idle", "cancel"} /\ phase \notin Matching /\ phase \notin OrderPhases
      /\ phase \notin Recording /\ phase \notin {"insert", "consume", "stop", "kick", "next"}
  BY DEF Resting, Matching, OrderPhases, Recording
<1>5. IInv
  <2>1. MarketTypeOK /\ ReplyTypeOK
    BY <1>3 DEF MarketTypeOK, ReplyTypeOK, MarketConfig, Resting
  <2>2. SimulatorTypeOK
    BY EmptySeq DEF SimulatorTypeOK, Resting
  <2>3. CallTypeOK
    BY <1>4, EmptySeq DEF CallTypeOK, Resting
  <2>4. SimulatorInBounds /\ WholeLevelsTriggered /\ ClearedWhenIdle
    BY <1>4 DEF SimulatorInBounds, WholeLevelsTriggered, ClearedWhenIdle, Resting
  <2> QED BY <2>1, <2>2, <2>3, <2>4 DEF IInv, TypeOK
<1>6. QuantityInv
  <2>1. Len(<<>>) <= 1
    OBVIOUS
  <2> QED BY <1>4, <2>1 DEF QuantityInv, MakersPay, TakersAccounted, TakersDone, Resting
<1>7. BookInv
  <2>1. (\A s \in Sides : Sorted(Opposite(s), limits[s]))
        /\ Apart("Buy", limits["Buy"], limits["Sell"], 0)
    BY <1>1, <1>2 DEF StoredOrders
  <2> QED BY <1>4, <2>1 DEF BookInv, LimitsSorted, BooksApart, RecordApart
<1>8. IdInv
  <2>1. NextId = currentOrderId
    BY <1>4 DEF NextId
  <2>2. ASSUME NEW x \in Nat
        PROVE  Places(x) <= Once(x < NextId) /\ Committed(x) <= Once(x < currentOrderId)
    <3>1. BothHeld(x, limits) + BothHeld(x, stops) <= Once(x < currentOrderId)
      BY <1>1, <1>2 DEF StoredOrders
    <3>2. BothHeld(x, limits) \in Nat /\ BothHeld(x, stops) \in Nat
      BY <1>3, BothHeldType
    <3>3. Places(x) = BothHeld(x, limits) + BothHeld(x, stops) + 0
      BY RestingPlaces
    <3> QED BY <2>1, <3>1, <3>2, <3>3 DEF Committed
  <2> QED BY <2>2 DEF IdInv
<1>9. CacheInv
  <2>1. ASSUME NEW s \in Sides
        PROVE  /\ InBook("limit", s) \subseteq userOrders /\ InBook("stop", s) \subseteq userOrders
               /\ Cached("stop", s) = InBook("stop", s)
    <3>1. /\ InBook("limit", s) = Entries("limit", s, limits[s])
          /\ InBook("stop", s) = Entries("stop", s, stops[s])
      BY <1>5, InBookNow
    <3>2. /\ Entries("limit", s, limits[s]) \subseteq userOrders
          /\ Entries("stop", s, stops[s])
               = {e \in userOrders : e.kind = "stop" /\ e.side = s}
      BY <1>1, <1>2 DEF StoredCache
    <3> QED BY <3>1, <3>2 DEF Cached
  <2>2. Covered
    BY <2>1 DEF Covered
  <2>3. StopsCached
    BY <2>1 DEF StopsCached
  <2>4. phase = "cancel" => toCancel = EntriesOf(message)
    BY DEF Resting
  <2>5. ToVisit
    <3>1. ASSUME phase = "cancel", NEW kind \in {"limit", "stop"}, NEW s \in Sides,
                 NEW e \in InBook(kind, s), e.user = message
          PROVE  e \in toCancel
      <4>1. e \in userOrders
        BY <3>1, <2>1
      <4> QED BY <3>1, <4>1, <2>4 DEF EntriesOf
    <3> QED BY <2>4, <3>1 DEF ToVisit
  <2>6. Visited
    BY <2>1 DEF Visited
  <2>7. UsersKnown
    BY <1>1, <1>2 DEF StoredCache, UsersKnown
  <2> QED BY <2>2, <2>3, <2>5, <2>6, <2>7 DEF CacheInv
<1>10. OwnerInv
  <2>1. Owners = CachedOwners /\ NextId = currentOrderId
    <3>1. insertedLimits = <<>> /\ insertedStop = <<>> /\ Waiting = <<>>
      BY DEF Resting, Waiting
    <3>2. OwnersIn(<<>>) = {}
      BY DEF OwnersIn
    <3> QED BY <1>4, <3>1, <3>2 DEF Owners, TakerOwner, NextId
  <2>2. /\ \A e \in userOrders : e.id \in 0 .. currentOrderId - 1
        /\ \A e, f \in userOrders : e.id = f.id => e.user = f.user
    BY <1>1, <1>2 DEF StoredCache
  <2>3. OneOwner
    BY <2>1, <2>2 DEF OneOwner, CachedOwners, Owner
  <2>4. OwnersGiven
    BY <2>1, <2>2 DEF OwnersGiven, CachedOwners, Owner
  <2>5. Unanswered
    BY DEF Unanswered, Resting
  <2> QED BY <2>3, <2>4, <2>5 DEF OwnerInv
<1> QED BY <1>5, <1>6, <1>7, <1>8, <1>9, <1>10 DEF WindowInv

LEMMA StoredWindowNext ==
  ASSUME MarketOK(Window)', Resting'
  PROVE  WindowInv'
<1>1. (MarketOK(Window) /\ Resting => WindowInv)'
  BY StoredWindow, PTL
<1> QED BY <1>1

-----------------------------------------------------------------------------
(* The engine's invariant *)

Coins == {walletIds[i] : i \in DOMAIN walletIds}

\* The window is on a market that exists, and on the wallets of its coins.
CurrentInv ==
  /\ current.market \in Existing
  /\ current.coin = current.market.coin /\ current.base = current.market.base

\* Every market that is not in the window is one between messages.
StoredInv ==
  /\ markets = [p \in AllPairs |-> markets[p]]
  /\ \A p \in Existing : p # current.market => MarketOK(markets[p])

\* The coins of every market have a wallet.
WalletsInv ==
  /\ wallets = [c \in AllCoins |-> wallets[c]]
  /\ Coins \subseteq AllCoins
  /\ \A p \in Existing : p.coin # p.base /\ p.coin \in Coins /\ p.base \in Coins
  /\ \A c \in Coins : WalletAt(c) \in [Users -> Address]

\* CancelAllOrders visits markets between messages, and cancels the orders of its user.
SweepState == [user : Users, bases : SUBSET Nat, base : Nat \cup {None}, queue : Seq(Nat)]
SweepInv ==
  sweep # None =>
    /\ sweep \in SweepState
    /\ phase \in {"idle", "cancel"}
    /\ phase = "cancel" => message = sweep.user

EngineInv == IndexInv /\ CurrentInv /\ WalletsInv /\ WindowInv /\ StoredInv /\ SweepInv

-----------------------------------------------------------------------------
(* Pairs, wallets and lookups *)

LEMMA PairFields ==
  ASSUME NEW p \in AllPairs
  PROVE  /\ p.coin \in Nat /\ p.base \in Nat /\ p = [coin |-> p.coin, base |-> p.base]
         /\ p.coin \in AllCoins /\ p.base \in AllCoins
<1>1. p \in CoinPair
  BY PairsAssumption
<1>2. {p.coin, p.base} \subseteq AllCoins
  BY DEF AllCoins
<1> QED BY <1>1, <1>2 DEF CoinPair

LEMMA ExistingPairs ==
  ASSUME NEW p \in Existing
  PROVE  /\ p \in AllPairs /\ p.base \in DOMAIN marketsMap
         /\ \E i \in DOMAIN marketsMap[p.base] : marketsMap[p.base][i] = p.coin
BY DEF Existing, Markets

LEMMA ExistingKept ==
  ASSUME UNCHANGED marketsMap
  PROVE  Existing' = Existing
BY DEF Existing, Markets

\* A wallet after a step that sets all of them, or none.
LEMMA WalletSet ==
  ASSUME NEW w, SetWallets(w), current' = current, NEW c \in AllCoins
  PROVE  WalletAt(c)' = w[c]
BY DEF SetWallets, WalletAt

LEMMA WalletKept ==
  ASSUME UNCHANGED <<coin, base, wallets, current>>, NEW c
  PROVE  WalletAt(c)' = WalletAt(c)
BY DEF WalletAt

LEMMA AllWalletsAt ==
  ASSUME NEW c \in AllCoins
  PROVE  AllWallets[c] = WalletAt(c)
BY DEF AllWallets

\* The window's wallets are those of its coins.
LEMMA WindowWallets ==
  ASSUME CurrentInv, WalletsInv
  PROVE  /\ current.coin \in Coins /\ current.base \in Coins /\ current.coin # current.base
         /\ WalletAt(current.coin) = coin /\ WalletAt(current.base) = base
BY DEF CurrentInv, WalletsInv, WalletAt

LEMMA LookupsRight ==
  ASSUME IndexInv
  PROVE  /\ \A c \in Coins : GetWallet(c) = c
         /\ \A p \in Existing : GetMarket(p) = p
BY SortedLookups DEF LookupsFindTheirOwn, Coins

\* A vector into which an id was inserted has that id, and those it had.
LEMMA InsertElements ==
  ASSUME NEW ids, SortedIds(ids), NEW x \in Nat
  PROVE  {InsertSorted(ids, x)[i] : i \in DOMAIN InsertSorted(ids, x)}
           = {ids[i] : i \in DOMAIN ids} \cup {x}
<1> DEFINE k == LowerBound(ids, x)
           n == Len(ids)
           t == InsertSorted(ids, x)
<1>1. ids \in Seq(Nat) /\ n \in Nat /\ DOMAIN ids = 1 .. n
  BY LenProperties DEF SortedIds
<1>2. k \in 1 .. n + 1
  BY <1>1, LowerBoundIsOne
<1>3. t = InsertAt(ids, k, x)
  BY DEF InsertSorted
<1> HIDE DEF k, t, n
<1>4. /\ t \in Seq(Nat) /\ Len(t) = n + 1 /\ t[k] = x
      /\ \A j \in 1 .. k - 1 : t[j] = ids[j]
      /\ \A j \in k + 1 .. n + 1 : t[j] = ids[j - 1]
  <2>1. k \in 1 .. Len(ids) + 1
    BY <1>2 DEF n
  <2>2. /\ InsertAt(ids, k, x) \in Seq(Nat)
        /\ Len(InsertAt(ids, k, x)) = Len(ids) + 1
        /\ \A j \in 1 .. k - 1 : InsertAt(ids, k, x)[j] = ids[j]
        /\ InsertAt(ids, k, x)[k] = x
        /\ \A j \in k + 1 .. Len(ids) + 1 : InsertAt(ids, k, x)[j] = ids[j - 1]
    BY <1>1, <2>1, InsertAtElements
  <2> QED BY <1>3, <2>2 DEF n
<1>5. DOMAIN t = 1 .. n + 1
  BY <1>4, LenProperties
<1>6. ASSUME NEW j \in 1 .. n + 1 PROVE t[j] \in {ids[i] : i \in 1 .. n} \cup {x}
  <2>1. CASE j \in 1 .. k - 1
    <3>1. j \in 1 .. n
      BY <1>1, <1>2, <2>1
    <3> QED BY <1>4, <2>1, <3>1
  <2>2. CASE j = k
    BY <1>4, <2>2
  <2>3. CASE j \in k + 1 .. n + 1
    <3>1. j - 1 \in 1 .. n
      BY <1>1, <1>2, <2>3
    <3> QED BY <1>4, <2>3, <3>1
  <2> QED BY <1>1, <1>2, <2>1, <2>2, <2>3
<1>7. ASSUME NEW i \in 1 .. n PROVE \E j \in 1 .. n + 1 : t[j] = ids[i]
  <2>1. CASE i \in 1 .. k - 1
    <3>1. i \in 1 .. n + 1
      BY <1>1
    <3> QED BY <1>4, <2>1, <3>1
  <2>2. CASE i \in k .. n
    <3>1. i + 1 \in k + 1 .. n + 1 /\ (i + 1) - 1 = i /\ i + 1 \in 1 .. n + 1
      BY <1>1, <1>2, <2>2
    <3>2. t[i + 1] = ids[i]
      BY <1>4, <3>1
    <3> QED BY <3>1, <3>2
  <2> QED BY <1>1, <1>2, <2>1, <2>2
<1>8. {t[i] : i \in 1 .. n + 1} = {ids[i] : i \in 1 .. n} \cup {x}
  <2>1. \A v \in {t[i] : i \in 1 .. n + 1} : v \in {ids[i] : i \in 1 .. n} \cup {x}
    BY <1>6
  <2>2. \A v \in {ids[i] : i \in 1 .. n} : v \in {t[i] : i \in 1 .. n + 1}
    BY <1>7
  <2>3. k \in 1 .. n + 1 /\ t[k] = x
    BY <1>2, <1>4
  <2>4. x \in {t[i] : i \in 1 .. n + 1}
    BY <2>3
  <2> QED BY <2>1, <2>2, <2>4
<1>9. {t[i] : i \in DOMAIN t} = {ids[i] : i \in DOMAIN ids} \cup {x}
  BY <1>1, <1>5, <1>8
<1> QED BY <1>9 DEF t

-----------------------------------------------------------------------------
(* The window through the engine's steps *)

\* Inside of a message the window is a market.
LEMMA WindowStep ==
  ASSUME WindowInv, [Next]_vars
  PROVE  WindowInv'
<1>1. IInv'
  BY ProcessingInvariant, ReceiveInvariant, StutterInvariant DEF WindowInv, Next
<1>2. QuantityInv' /\ BookInv'
  BY <1>1, QuantityStep, BookStep DEF WindowInv
<1>3. IdInv' /\ CacheInv' /\ OwnerInv'
  BY <1>1, IdStep, CacheStep, OwnerStep DEF WindowInv
<1> QED BY <1>1, <1>2, <1>3 DEF WindowInv

\* A message of the engine leaves the window as it is.
LEMMA SameWindow ==
  ASSUME WindowInv, phase = "idle", UNCHANGED Window
  PROVE  MarketOK(Window)'
<1> DEFINE m == Window
<1>1. MarketOK(m)
  BY WindowStored
<1>2. m' = m
  OBVIOUS
<1> HIDE DEF m
<1>3. MarketOK(m)'
  BY <1>1, <1>2
<1> QED BY <1>3 DEF m

LEMMA WindowAfter ==
  ASSUME WindowInv, phase = "idle", MarketOK(Window)',
         UNCHANGED <<simVars, lastTradePrice, pending>>,
         coin' \in [Users -> Address], base' \in [Users -> Address],
         reply' \in Errors \cup {"ok", "none", "out_of_range"},
         \/ phase' = "idle" /\ toCancel' = toCancel
         \/ /\ phase' = "cancel" /\ message' \in Users /\ reply' = "none"
            /\ toCancel' = EntriesOf(message)'
  PROVE  WindowInv'
<1>1. Resting
  BY WindowResting
<1>2. userOrders' \subseteq CacheEntry
  BY WindowFieldsNext DEF MarketOK, StoredCache
<1>3. EntriesOf(message)' \subseteq userOrders'
  BY DEF EntriesOf
<1>4. Resting'
  <2> DEFINE entries == EntriesOf(message)
  <2>1. (phase' = "cancel" => toCancel' = entries') /\ toCancel' \subseteq CacheEntry
    BY <1>1, <1>2, <1>3 DEF Resting
  <2>2. (Resting <=> /\ removed = 0 /\ lastFill = 0 /\ triggered = 0
                     /\ insertedLimits = <<>> /\ insertedStop = <<>> /\ trades = <<>>
                     /\ pending = <<>>
                     /\ lastTradePrice \in Nat \cup {NoTrade} /\ toCancel \subseteq CacheEntry
                     /\ coin \in [Users -> Address] /\ base \in [Users -> Address]
                     /\ reply \in Errors \cup {"ok", "none", "out_of_range"}
                     /\ \/ phase = "idle"
                        \/ /\ phase = "cancel" /\ message \in Users
                           /\ toCancel = entries /\ reply = "none")'
    BY DEF Resting
  <2> HIDE DEF entries
  <2> QED BY <1>1, <2>1, <2>2 DEF Resting, simVars
<1> QED BY <1>4, StoredWindowNext

-----------------------------------------------------------------------------
(* The start, and the messages of one market *)

\* A market without orders.
LEMMA EmptyMarket ==
  ASSUME NEW m, StoredFields(m), StoredSettings(m),
         m.limits = NoOrders, m.stops = NoOrders, m.userOrders = {}, m.knownUsers \subseteq Users
  PROVE  MarketOK(m)
<1>1. /\ NoOrders \in [Sides -> Seq(Order)] /\ NoOrders["Buy"] = <<>> /\ NoOrders["Sell"] = <<>>
      /\ \A s \in Sides : NoOrders[s] = <<>>
  BY EmptySeq DEF NoOrders, Sides
<1>2. StoredOrders(m)
  <2>1. (\A s \in Sides : Sorted(Opposite(s), m.limits[s]))
        /\ Apart("Buy", m.limits["Buy"], m.limits["Sell"], 0)
    BY <1>1 DEF Sorted, Apart
  <2>2. ASSUME NEW x \in Nat PROVE BothHeld(x, NoOrders) = 0
    <3>1. Held(x, <<>>) = 0
      BY HeldSingle
    <3> QED BY <1>1, <3>1 DEF BothHeld
  <2>3. \A x \in Nat : BothHeld(x, m.limits) + BothHeld(x, m.stops) <= Once(x < m.orderId)
    BY <2>2 DEF Once
  <2> QED BY <1>1, <2>1, <2>3 DEF StoredOrders
<1>3. StoredCache(m)
  <2>1. ASSUME NEW kind, NEW s PROVE Entries(kind, s, <<>>) = {}
    BY DEF Entries
  <2> QED BY <1>1, <2>1 DEF StoredCache
<1> QED BY <1>2, <1>3 DEF MarketOK

\* The first market is alone.
LEMMA FirstMarket ==
  ASSUME EngineInit
  PROVE  Existing = {FirstPair}
<1> DEFINE b == FirstPair.base
           c == FirstPair.coin
<1>1. marketsMap = [id \in {b} |-> <<c>>]
  BY DEF EngineInit
<1>2. FirstPair \in AllPairs /\ FirstPair = [coin |-> c, base |-> b]
  BY PairFields DEF AllPairs
<1>3. Markets(b) = <<c>> /\ \A id : id # b => Markets(id) = <<>>
  BY <1>1 DEF Markets
<1>4. DOMAIN <<c>> = {1} /\ DOMAIN <<>> = {} /\ <<c>>[1] = c
  OBVIOUS
<1> HIDE DEF b, c
<1>5. ASSUME NEW p \in Existing PROVE p = FirstPair
  <2>1. p \in AllPairs /\ \E i \in DOMAIN Markets(p.base) : Markets(p.base)[i] = p.coin
    BY DEF Existing
  <2>2. p.base = b
    BY <1>3, <1>4, <2>1
  <2>3. p.coin = c
    BY <1>3, <1>4, <2>1, <2>2
  <2>4. p = [coin |-> p.coin, base |-> p.base]
    BY <2>1, PairFields
  <2> QED BY <1>2, <2>2, <2>3, <2>4
<1>6. FirstPair \in Existing
  <2>1. \E i \in DOMAIN Markets(b) : Markets(b)[i] = c
    BY <1>3, <1>4
  <2> QED BY <1>2, <2>1 DEF Existing, b, c
<1> QED BY <1>5, <1>6

LEMMA EngineInvInit == EngineInit => EngineInv
<1> SUFFICES ASSUME EngineInit PROVE EngineInv
  OBVIOUS
<1> DEFINE b == FirstPair.base
           c == FirstPair.coin
<1>1. Init /\ IInv
  BY InitInvariant DEF EngineInit
<1>2. /\ current = [market |-> FirstPair, coin |-> c, base |-> b]
      /\ markets = [p \in AllPairs |-> None] /\ wallets = [k \in AllCoins |-> None]
      /\ walletIds = InsertSorted(<<b>>, c) /\ sweep = None
  BY DEF EngineInit
<1>3. /\ b \in Nat /\ c \in Nat /\ c # b
      /\ b \in AllCoins /\ c \in AllCoins
  BY PairsAreIds, PairFields DEF AllPairs
<1>4. Existing = {FirstPair}
  BY FirstMarket
<1>5. Coins = {b, c}
  <2>1. SortedIds(<<b>>)
    BY <1>3, OneIdSorted
  <2>2. Coins = {<<b>>[i] : i \in DOMAIN <<b>>} \cup {c}
    BY <1>2, <1>3, <2>1, InsertElements DEF Coins
  <2>3. {<<b>>[i] : i \in DOMAIN <<b>>} = {b}
    OBVIOUS
  <2> QED BY <2>2, <2>3
<1>6. IndexInv
  BY IndexInvInit
<1>7. CurrentInv
  BY <1>2, <1>4 DEF CurrentInv
<1>8. WalletsInv
  <2>1. coin \in [Users -> Address] /\ base \in [Users -> Address]
    BY <1>1 DEF IInv, TypeOK, MarketTypeOK
  <2>2. \A k \in Coins : WalletAt(k) \in [Users -> Address]
    BY <1>2, <1>5, <2>1 DEF WalletAt
  <2> QED BY <1>2, <1>3, <1>4, <1>5, <2>2 DEF WalletsInv
<1>9. StoredInv
  BY <1>2, <1>4 DEF StoredInv
<1>10. SweepInv
  BY <1>2 DEF SweepInv
<1>11. WindowInv
  <2> DEFINE m == Window
  <2>1. /\ m.limits = limits /\ m.stops = stops /\ m.userOrders = userOrders
        /\ m.knownUsers = knownUsers /\ m.orderId = currentOrderId
        /\ m.tradeId = currentTradeId /\ m.config = config /\ m.ops = ops
    BY WindowFields
  <2>2. StoredFields(m)
    BY DEF StoredFields, Window
  <2> HIDE DEF m
  <2>3. StoredSettings(m)
    BY <1>1, <2>1, EmptySeq DEF StoredSettings, Init, MarketConfig
  <2>4. m.limits = NoOrders /\ m.stops = NoOrders /\ m.userOrders = {} /\ m.knownUsers = {}
    BY <1>1, <2>1 DEF Init, NoOrders
  <2>5. MarketOK(m)
    BY <2>2, <2>3, <2>4, EmptyMarket
  <2>6. Resting
    BY <1>1 DEF Resting, Init, IInv, TypeOK, MarketTypeOK
  <2> QED BY <2>5, <2>6, StoredWindow DEF m
<1> QED BY <1>6, <1>7, <1>8, <1>9, <1>10, <1>11 DEF EngineInv

\* What a step in the window does to the rest.
LEMMA OnMarketKeeps ==
  ASSUME EngineInv, OnMarket, WindowInv'
  PROVE  CurrentInv' /\ WalletsInv' /\ StoredInv'
<1>1. UNCHANGED <<marketsMap, walletIds, markets, wallets, current>>
  BY DEF OnMarket, indexVars, storeVars
<1>2. Existing' = Existing /\ Coins' = Coins
  BY <1>1, ExistingKept DEF Coins
<1>3. CurrentInv'
  BY <1>1, <1>2 DEF EngineInv, CurrentInv
<1>4. StoredInv'
  <2>1. StoredInv
    BY DEF EngineInv
  <2> QED BY <1>1, <1>2, <2>1 DEF StoredInv
<1>5. WalletsInv'
  <2>1. coin' \in [Users -> Address] /\ base' \in [Users -> Address]
    BY DEF WindowInv, IInv, TypeOK, MarketTypeOK
  <2>2. ASSUME NEW k \in Coins PROVE WalletAt(k)' \in [Users -> Address]
    <3>1. WalletAt(k) \in [Users -> Address]
      BY DEF EngineInv, WalletsInv
    <3> QED BY <1>1, <2>1, <3>1 DEF WalletAt
  <2> QED BY <1>1, <1>2, <2>2 DEF EngineInv, WalletsInv
<1> QED BY <1>3, <1>4, <1>5

\* The handler of a message cancels orders, or it is none of CancelAllOrders'.
LEMMA HandlerKeeps ==
  ASSUME EngineInv, HandlerStep
  PROVE  EngineInv'
<1>1. Processing /\ OnMarket /\ sweep' \in {None, sweep}
  BY DEF HandlerStep
<1>2. WindowInv'
  BY <1>1, WindowStep DEF EngineInv, Next
<1>3. IndexInv'
  BY <1>1 DEF EngineInv, IndexInv, OnMarket, indexVars, SortedIds, StrictlySorted
<1>4. SweepInv'
  <2> SUFFICES ASSUME sweep' # None
               PROVE  /\ sweep' \in SweepState /\ phase' \in {"idle", "cancel"}
                      /\ phase' = "cancel" => message' = sweep'.user
    BY DEF SweepInv, SweepState
  <2>1. /\ sweep' = sweep /\ sweep \in SweepState /\ phase \in {"idle", "cancel"}
        /\ phase = "cancel" => message = sweep.user
    BY <1>1 DEF EngineInv, SweepInv
  <2>2. /\ phase = "cancel"
        /\ \/ \E e \in toCancel : CancelNext(e) \/ CancelStale(e)
           \/ CancelledAll
    BY <1>1, <2>1, CancelStepsOnly
  <2>3. (phase' = "cancel" /\ message' = message) \/ phase' = "idle"
    BY <2>2 DEF CancelNext, CancelStale, CancelledAll, callVars
  <2> QED BY <2>1, <2>2, <2>3
<1> QED BY <1>1, <1>2, <1>3, <1>4, OnMarketKeeps DEF EngineInv

LEMMA MarketMessageKeeps ==
  ASSUME EngineInv, MarketMessage
  PROVE  EngineInv'
<1>1. Receive /\ OnMarket /\ sweep = None /\ sweep' = None
  BY DEF MarketMessage, Receive
<1>2. WindowInv'
  BY <1>1, WindowStep DEF EngineInv, Next
<1>3. IndexInv'
  BY <1>1 DEF EngineInv, IndexInv, OnMarket, indexVars, SortedIds, StrictlySorted
<1>4. SweepInv'
  BY <1>1 DEF SweepInv
<1> QED BY <1>1, <1>2, <1>3, <1>4, OnMarketKeeps DEF EngineInv

-----------------------------------------------------------------------------
(* The window moves *)

\* The same market in another record.
LEMMA SameMarket ==
  ASSUME NEW m, MarketOK(m), NEW k, StoredFields(k),
         k.limits = m.limits, k.stops = m.stops, k.userOrders = m.userOrders,
         k.knownUsers = m.knownUsers, k.orderId = m.orderId, k.tradeId = m.tradeId,
         k.config \in MarketConfig, k.ops = m.ops
  PROVE  MarketOK(k)
BY DEF MarketOK, StoredOrders, StoredCache, StoredSettings

\* The lookups find the market and its wallets, and nothing of them is lost.
LEMMA FocusFinds ==
  ASSUME EngineInv, NEW p \in Existing, Focus(p)
  PROVE  /\ p # current.market /\ phase = "idle"
         /\ current' = [market |-> p, coin |-> p.coin, base |-> p.base]
         /\ markets' = [markets EXCEPT ![current.market] = Window, ![p] = None]
         /\ wallets' = [c \in AllCoins |-> IF c \in {p.coin, p.base} THEN None ELSE WalletAt(c)]
         /\ coin' = WalletAt(p.coin) /\ base' = WalletAt(p.base)
         /\ limits' = markets[p].limits /\ stops' = markets[p].stops
         /\ userOrders' = markets[p].userOrders /\ knownUsers' = markets[p].knownUsers
         /\ currentOrderId' = markets[p].orderId /\ currentTradeId' = markets[p].tradeId
         /\ config' = markets[p].config /\ ops' = markets[p].ops
         /\ UNCHANGED <<marketsMap, walletIds, reply, simVars, callVars, phase, toCancel, sweep,
                        adjusted>>
<1>1. GetMarket(p) = p
  BY LookupsRight DEF EngineInv
<1>2. p.coin \in Coins /\ p.base \in Coins
  BY DEF EngineInv, WalletsInv
<1>3. GetWallet(p.coin) = p.coin /\ GetWallet(p.base) = p.base
  BY <1>2, LookupsRight DEF EngineInv
<1> QED BY <1>1, <1>3 DEF Focus, indexVars

LEMMA FocusMoves ==
  ASSUME EngineInv, NEW p \in Existing, Focus(p)
  PROVE  /\ Window' = markets[p] /\ MarketOK(Window)'
         /\ \A q \in Existing : MarketAt(q)' = MarketAt(q)
         /\ \A c \in AllCoins : WalletAt(c)' = WalletAt(c)
<1> DEFINE here == current.market
           m == markets[p]
<1>1. /\ p # here /\ here \in Existing /\ here \in AllPairs /\ p \in AllPairs
      /\ current' = [market |-> p, coin |-> p.coin, base |-> p.base]
      /\ markets' = [markets EXCEPT ![here] = Window, ![p] = None]
      /\ wallets' = [c \in AllCoins |-> IF c \in {p.coin, p.base} THEN None ELSE WalletAt(c)]
      /\ coin' = WalletAt(p.coin) /\ base' = WalletAt(p.base)
  BY FocusFinds, ExistingPairs DEF EngineInv, CurrentInv
<1>2. MarketOK(m) /\ markets = [q \in AllPairs |-> markets[q]]
  BY <1>1 DEF EngineInv, StoredInv
<1>3. Window' = m
  <2>1. m = [limits |-> m.limits, stops |-> m.stops, userOrders |-> m.userOrders,
             knownUsers |-> m.knownUsers, orderId |-> m.orderId, tradeId |-> m.tradeId,
             config |-> m.config, ops |-> m.ops]
    BY <1>2 DEF MarketOK, StoredFields
  <2>2. Window' = [limits |-> m.limits, stops |-> m.stops, userOrders |-> m.userOrders,
                   knownUsers |-> m.knownUsers, orderId |-> m.orderId, tradeId |-> m.tradeId,
                   config |-> m.config, ops |-> m.ops]
    BY FocusFinds DEF Window
  <2> QED BY <2>1, <2>2
<1>4. MarketOK(Window)'
  <2> DEFINE w == Window
  <2>1. w' = m
    BY <1>3
  <2> HIDE DEF w, m
  <2>2. MarketOK(w)'
    BY <1>2, <2>1
  <2> QED BY <2>2 DEF w
<1>5. ASSUME NEW q \in Existing PROVE MarketAt(q)' = MarketAt(q)
  <2>1. q \in AllPairs
    BY ExistingPairs
  <2>2. CASE q = p
    BY <1>1, <1>3, <2>2 DEF MarketAt
  <2>3. CASE q = here
    <3>1. markets'[q] = Window
      BY <1>1, <1>2, <2>3
    <3> QED BY <1>1, <2>3, <3>1 DEF MarketAt
  <2>4. CASE q # p /\ q # here
    <3>1. markets'[q] = markets[q]
      BY <1>1, <1>2, <2>1, <2>4
    <3> QED BY <1>1, <2>4, <3>1 DEF MarketAt
  <2> QED BY <2>2, <2>3, <2>4
<1>6. ASSUME NEW c \in AllCoins PROVE WalletAt(c)' = WalletAt(c)
  <2>1. current'.coin = p.coin /\ current'.base = p.base
    BY <1>1
  <2>2. WalletAt(c)' = IF c = p.coin THEN coin' ELSE IF c = p.base THEN base' ELSE wallets'[c]
    BY <2>1 DEF WalletAt
  <2>3. c \notin {p.coin, p.base} => wallets'[c] = WalletAt(c)
    BY <1>1
  <2> QED BY <1>1, <2>2, <2>3
<1> QED BY <1>3, <1>4, <1>5, <1>6

LEMMA FocusKeeps ==
  ASSUME EngineInv, NEW p \in Existing, Focus(p)
  PROVE  EngineInv'
<1>1. /\ p # current.market /\ phase = "idle" /\ phase' = "idle"
      /\ current' = [market |-> p, coin |-> p.coin, base |-> p.base]
      /\ markets' = [markets EXCEPT ![current.market] = Window, ![p] = None]
      /\ wallets' = [c \in AllCoins |-> IF c \in {p.coin, p.base} THEN None ELSE WalletAt(c)]
      /\ coin' = WalletAt(p.coin) /\ base' = WalletAt(p.base)
      /\ UNCHANGED <<marketsMap, walletIds, reply, simVars, callVars, phase, toCancel, sweep>>
  BY FocusFinds
<1>2. /\ MarketOK(Window)'
      /\ \A c \in AllCoins : WalletAt(c)' = WalletAt(c)
  BY FocusMoves
<1>3. Existing' = Existing /\ Coins' = Coins
  BY <1>1, ExistingKept DEF Coins
<1>4. IndexInv'
  BY <1>1 DEF EngineInv, IndexInv, SortedIds, StrictlySorted
<1>5. CurrentInv'
  BY <1>1, <1>3 DEF CurrentInv
<1>6. WalletsInv'
  <2>1. wallets' = [c \in AllCoins |-> wallets'[c]]
    BY <1>1
  <2>2. ASSUME NEW c \in Coins PROVE WalletAt(c)' \in [Users -> Address]
    BY <1>2 DEF EngineInv, WalletsInv
  <2> QED BY <1>3, <2>1, <2>2 DEF EngineInv, WalletsInv
<1>7. StoredInv'
  <2>1. StoredInv /\ WindowInv
    BY DEF EngineInv
  <2>2. markets = [q \in AllPairs |-> markets[q]] /\ MarketOK(Window)
    BY <1>1, <2>1, WindowStored DEF StoredInv
  <2>3. markets' = [q \in AllPairs |-> markets'[q]]
    BY <1>1, <2>2
  <2>4. ASSUME NEW q \in Existing, q # p PROVE MarketOK(markets'[q])
    <3>1. q \in AllPairs
      BY ExistingPairs
    <3>2. CASE q = current.market
      <4>1. markets'[q] = Window
        BY <1>1, <2>2, <2>4, <3>1, <3>2
      <4> QED BY <2>2, <4>1
    <3>3. CASE q # current.market
      <4>1. markets'[q] = markets[q]
        BY <1>1, <2>2, <2>4, <3>1, <3>3
      <4> QED BY <2>1, <3>3, <4>1 DEF StoredInv
    <3> QED BY <3>2, <3>3
  <2>5. current'.market = p
    BY <1>1
  <2>6. ASSUME NEW q \in Existing, q # current'.market PROVE MarketOK(markets[q])'
    <3> DEFINE stored == markets'[q]
    <3>1. MarketOK(stored)
      BY <2>4, <2>5, <2>6
    <3> HIDE DEF stored
    <3> QED BY <3>1 DEF stored
  <2> QED BY <1>3, <2>3, <2>6 DEF StoredInv
<1>8. WindowInv'
  <2>1. /\ coin' \in [Users -> Address] /\ base' \in [Users -> Address]
    BY <1>1 DEF EngineInv, WalletsInv
  <2>2. WindowInv /\ Resting
    BY <1>1, WindowResting DEF EngineInv
  <2>3. reply \in Errors \cup {"ok", "none", "out_of_range"}
    BY <2>2 DEF Resting
  <2> QED BY <1>1, <1>2, <2>1, <2>2, <2>3, WindowAfter DEF callVars
<1>9. SweepInv'
  BY <1>1 DEF EngineInv, SweepInv, SweepState, callVars
<1> QED BY <1>4, <1>5, <1>6, <1>7, <1>8, <1>9 DEF EngineInv

-----------------------------------------------------------------------------
(* The engine's messages *)

Replies == Errors \cup {"ok", "none", "out_of_range"}

\* Wallets that are all set anew.
LEMMA SetWalletsKeeps ==
  ASSUME EngineInv, NEW w, SetWallets(w), UNCHANGED <<current, marketsMap, walletIds>>,
         \A c \in Coins : w[c] \in [Users -> Address]
  PROVE  /\ WalletsInv' /\ CurrentInv'
         /\ coin' \in [Users -> Address] /\ base' \in [Users -> Address]
<1>1. Existing' = Existing /\ Coins' = Coins
  BY ExistingKept DEF Coins
<1>2. WalletsInv /\ CurrentInv /\ current.coin \in Coins /\ current.base \in Coins
  BY WindowWallets DEF EngineInv
<1>3. coin' \in [Users -> Address] /\ base' \in [Users -> Address]
  BY <1>2 DEF SetWallets
<1>4. wallets' = [c \in AllCoins |-> wallets'[c]]
  BY DEF SetWallets
<1>5. ASSUME NEW c \in Coins PROVE WalletAt(c)' \in [Users -> Address]
  <2>1. c \in AllCoins
    BY <1>2 DEF WalletsInv
  <2>2. WalletAt(c)' = w[c]
    BY <2>1, WalletSet
  <2> QED BY <2>2
<1>6. WalletsInv'
  BY <1>1, <1>2, <1>4, <1>5 DEF WalletsInv
<1>7. CurrentInv'
  BY <1>1, <1>2 DEF CurrentInv
<1> QED BY <1>3, <1>6, <1>7

\* Wallets that stay as they are.
LEMMA WalletsKept ==
  ASSUME EngineInv, UNCHANGED <<walletVars, wallets, current, marketsMap, walletIds>>
  PROVE  /\ WalletsInv' /\ CurrentInv'
         /\ coin' \in [Users -> Address] /\ base' \in [Users -> Address]
<1>1. Existing' = Existing /\ Coins' = Coins
  BY ExistingKept DEF Coins
<1>2. \A c \in Coins : WalletAt(c)' = WalletAt(c)
  BY WalletKept DEF walletVars
<1>3. WalletsInv'
  BY <1>1, <1>2 DEF EngineInv, WalletsInv
<1>4. CurrentInv'
  BY <1>1 DEF EngineInv, CurrentInv
<1> QED BY <1>3, <1>4 DEF EngineInv, WindowInv, IInv, TypeOK, MarketTypeOK, walletVars

\* Markets that stay as they are.
LEMMA MarketsKept ==
  ASSUME EngineInv, UNCHANGED <<current, marketsMap, walletIds, markets>>
  PROVE  StoredInv' /\ IndexInv'
<1>1. Existing' = Existing
  BY ExistingKept
<1>2. StoredInv'
  <2>1. StoredInv
    BY DEF EngineInv
  <2> QED BY <1>1, <2>1 DEF StoredInv
<1>3. IndexInv'
  BY DEF EngineInv, IndexInv, SortedIds, StrictlySorted
<1> QED BY <1>2, <1>3

\* The window through a message of the engine that sets wallets only.
LEMMA MessageWindow ==
  ASSUME EngineInv, NEW answer \in Replies, EngineMessage(answer),
         coin' \in [Users -> Address], base' \in [Users -> Address]
  PROVE  WindowInv'
<1>1. /\ phase = "idle" /\ phase' = "idle" /\ toCancel' = toCancel /\ reply' \in Replies
      /\ UNCHANGED <<simVars, lastTradePrice, pending>> /\ WindowInv
  BY DEF EngineMessage, EngineIdle, EngineInv, callVars
<1>2. UNCHANGED Window
  BY DEF EngineMessage, Window, bookVars, cacheVars, idVars
<1> QED BY <1>1, <1>2, SameWindow, WindowAfter DEF Replies

LEMMA RejectionKeeps ==
  ASSUME EngineInv, NEW id, RejectNewCoin(id) \/ RejectNewMarket(id)
  PROVE  EngineInv'
<1>1. PICK answer \in Replies : EngineMessage(answer)
  BY DEF RejectNewCoin, RejectNewMarket, Replies, Errors
<1>2. /\ UNCHANGED <<walletVars, wallets, current, marketsMap, walletIds, markets>>
      /\ sweep' = None
  BY <1>1 DEF RejectNewCoin, RejectNewMarket, engineVars, indexVars, storeVars,
              EngineMessage, EngineIdle
<1>3. WindowInv'
  BY <1>1, <1>2, WalletsKept, MessageWindow
<1> QED BY <1>2, <1>3, WalletsKept, MarketsKept DEF EngineInv, SweepInv

LEMMA NewCoinKeeps ==
  ASSUME EngineInv, NEW id \in CoinIds, NewCoin(id)
  PROVE  EngineInv'
<1>1. /\ EngineMessage("ok") /\ sweep' = None /\ id > 0
      /\ walletIds' = InsertSorted(walletIds, id)
      /\ wallets' = [wallets EXCEPT ![id] = NoAddresses]
      /\ UNCHANGED <<coin, base, marketsMap, markets, current>>
  BY DEF NewCoin, EngineMessage, EngineIdle, walletVars
<1>2. id \in Nat /\ id \in AllCoins
  BY <1>1, PairsAssumption DEF AllCoins
<1>3. IndexInv'
  BY NewCoinKeepsIndex DEF EngineInv
<1>4. Existing' = Existing
  BY <1>1, ExistingKept
<1>5. Coins' = Coins \cup {id}
  <2>1. SortedIds(walletIds)
    BY DEF EngineInv, IndexInv
  <2>2. {InsertSorted(walletIds, id)[i] : i \in DOMAIN InsertSorted(walletIds, id)}
          = {walletIds[i] : i \in DOMAIN walletIds} \cup {id}
    BY <1>2, <2>1, InsertElements
  <2> QED BY <1>1, <2>2 DEF Coins
<1>6. coin \in [Users -> Address] /\ base \in [Users -> Address]
  BY DEF EngineInv, WindowInv, IInv, TypeOK, MarketTypeOK
<1>7. WalletsInv'
  <2>1. WalletsInv /\ wallets = [c \in AllCoins |-> wallets[c]]
    BY DEF EngineInv, WalletsInv
  <2>2. wallets' = [c \in AllCoins |-> wallets'[c]]
    BY <1>1, <2>1
  <2>3. \A c \in AllCoins : wallets'[c] = IF c = id THEN NoAddresses ELSE wallets[c]
    BY <1>1, <2>1
  <2>4. NoAddresses \in [Users -> Address]
    BY DEF NoAddresses, Address
  <2>5. ASSUME NEW c \in Coins \cup {id} PROVE WalletAt(c)' \in [Users -> Address]
    <3>1. c \in AllCoins
      BY <1>2, <2>1 DEF WalletsInv
    <3>2. CASE c = id
      BY <1>1, <1>6, <2>3, <2>4, <3>1, <3>2 DEF WalletAt
    <3>3. CASE c # id
      <4>1. WalletAt(c) \in [Users -> Address]
        BY <2>1, <2>5, <3>3 DEF WalletsInv
      <4> QED BY <1>1, <2>3, <3>1, <3>3, <4>1 DEF WalletAt
    <3> QED BY <3>2, <3>3
  <2> QED BY <1>2, <1>4, <1>5, <2>1, <2>2, <2>5 DEF WalletsInv
<1>8. CurrentInv' /\ StoredInv'
  <2>1. StoredInv /\ CurrentInv
    BY DEF EngineInv
  <2> QED BY <1>1, <1>4, <2>1 DEF StoredInv, CurrentInv
<1>9. WindowInv'
  BY <1>1, <1>6, MessageWindow DEF Replies
<1> QED BY <1>1, <1>3, <1>7, <1>8, <1>9 DEF EngineInv, SweepInv

\* A new market is not one of those there are: the lookup would have found it.
LEMMA NewMarketIsNew ==
  ASSUME EngineInv, NEW p \in CoinPairs, NEW settings, NewMarket(p, settings)
  PROVE  p \notin Existing
<1> SUFFICES ASSUME p \in Existing PROVE FALSE
  OBVIOUS
<1> DEFINE ids == Markets(p.base)
<1>1. PICK i \in DOMAIN ids : ids[i] = p.coin
  BY DEF Existing
<1>2. p.base \in Nat
  BY PairFields DEF AllPairs
<1>3. SortedIds(ids)
  BY <1>2, MarketsSorted DEF EngineInv
<1>4. ~Holds(ids, p.coin)
  BY DEF NewMarket
<1> HIDE DEF ids
<1>5. LowerBound(ids, ids[i]) = i
  BY <1>1, <1>3, LowerBoundFinds
<1>6. Holds(ids, p.coin)
  BY <1>1, <1>3, <1>5 DEF Holds, SortedIds
<1> QED BY <1>4, <1>6

\* A new market is added to those there are.
LEMMA NewMarketExists ==
  ASSUME EngineInv, NEW p \in CoinPairs, NEW settings, NewMarket(p, settings)
  PROVE  Existing' = Existing \cup {p}
<1>1. p \in AllPairs
  BY DEF AllPairs
<1>2. p.coin \in Nat /\ p.base \in Nat /\ p = [coin |-> p.coin, base |-> p.base]
  BY <1>1, PairFields
<1>3. \A id : Markets(id)' = IF id = p.base THEN InsertSorted(Markets(id), p.coin) ELSE Markets(id)
  BY DEF NewMarket, Markets
<1>4. SortedIds(Markets(p.base))
  BY <1>2, MarketsSorted DEF EngineInv
<1> DEFINE old == Markets(p.base)
           new == InsertSorted(old, p.coin)
<1>5. {new[i] : i \in DOMAIN new} = {old[i] : i \in DOMAIN old} \cup {p.coin}
  BY <1>2, <1>4, InsertElements
<1> HIDE DEF old, new
<1>6. \A x : (\E i \in DOMAIN new : new[i] = x) <=> (\E i \in DOMAIN old : old[i] = x) \/ x = p.coin
  <2>1. \A x : (\E i \in DOMAIN new : new[i] = x) <=> x \in {new[i] : i \in DOMAIN new}
    OBVIOUS
  <2>2. \A x : (\E i \in DOMAIN old : old[i] = x) <=> x \in {old[i] : i \in DOMAIN old}
    OBVIOUS
  <2> QED BY <1>5, <2>1, <2>2
<1>7. ASSUME NEW q \in AllPairs
      PROVE  (\E i \in DOMAIN Markets(q.base)' : Markets(q.base)'[i] = q.coin)
               <=> (\E i \in DOMAIN Markets(q.base) : Markets(q.base)[i] = q.coin) \/ q = p
  <2>1. q = [coin |-> q.coin, base |-> q.base]
    BY PairFields
  <2>2. CASE q.base = p.base
    <3>1. Markets(q.base)' = new /\ Markets(q.base) = old
      BY <1>3, <2>2 DEF new, old
    <3>2. q = p <=> q.coin = p.coin
      BY <1>2, <2>1, <2>2
    <3> QED BY <1>6, <3>1, <3>2
  <2>3. CASE q.base # p.base
    <3>1. Markets(q.base)' = Markets(q.base) /\ q # p
      BY <1>3, <2>3
    <3> QED BY <3>1
  <2> QED BY <2>2, <2>3
<1>8. \A q \in AllPairs : q \in Existing' <=> q \in Existing \/ q = p
  BY <1>7 DEF Existing
<1>9. Existing' \subseteq AllPairs /\ Existing \subseteq AllPairs
  BY DEF Existing
<1> QED BY <1>1, <1>8, <1>9

LEMMA NewMarketKeeps ==
  ASSUME EngineInv, NEW p \in CoinPairs, NEW settings \in MarketConfig, NewMarket(p, settings)
  PROVE  EngineInv'
<1>1. /\ EngineMessage("ok") /\ sweep' = None /\ p.coin # p.base
      /\ Holds(walletIds, p.coin) /\ Holds(walletIds, p.base)
      /\ markets' = [markets EXCEPT ![p] = NewMarketState(settings)]
      /\ UNCHANGED <<coin, base, walletIds, wallets, current>>
  BY DEF NewMarket, EngineMessage, EngineIdle, walletVars
<1>2. Existing' = Existing \cup {p} /\ Coins' = Coins
  BY <1>1, NewMarketExists DEF Coins
<1>3. IndexInv'
  BY NewMarketKeepsIndex DEF EngineInv
<1>4. coin \in [Users -> Address] /\ base \in [Users -> Address]
  BY DEF EngineInv, WindowInv, IInv, TypeOK, MarketTypeOK
<1>5. \A x \in Nat : Holds(walletIds, x) => x \in Coins
  <2>1. walletIds \in Seq(Nat)
    BY DEF EngineInv, IndexInv, SortedIds
  <2>2. ASSUME NEW x \in Nat, Holds(walletIds, x) PROVE x \in Coins
    <3>1. LowerBound(walletIds, x) \in 1 .. Len(walletIds) + 1 /\ Len(walletIds) \in Nat
      BY <2>1, LowerBoundIsOne
    <3>2. LowerBound(walletIds, x) \in DOMAIN walletIds
      BY <2>1, <2>2, <3>1, LenProperties DEF Holds
    <3> QED BY <2>2, <3>2 DEF Holds, Coins
  <2> QED BY <2>2
<1>6. p \in AllPairs /\ p.coin \in Nat /\ p.base \in Nat
  BY PairFields DEF AllPairs
<1>7. WalletsInv'
  <2>1. WalletsInv
    BY DEF EngineInv
  <2>2. \A c \in Coins : WalletAt(c)' = WalletAt(c)
    BY <1>1, WalletKept
  <2>3. p.coin \in Coins /\ p.base \in Coins
    BY <1>1, <1>5, <1>6
  <2> QED BY <1>1, <1>2, <2>1, <2>2, <2>3 DEF WalletsInv
<1>8. StoredInv'
  <2>1. StoredInv
    BY DEF EngineInv
  <2>2. markets = [q \in AllPairs |-> markets[q]]
    BY <2>1 DEF StoredInv
  <2>3. markets' = [q \in AllPairs |-> markets'[q]]
    BY <1>1, <2>2
  <2>4. MarketOK(NewMarketState(settings))
    <3> DEFINE m == NewMarketState(settings)
    <3>1. /\ m.limits = NoOrders /\ m.stops = NoOrders /\ m.userOrders = {} /\ m.knownUsers = {}
          /\ m.orderId = 1 /\ m.tradeId = 1 /\ m.config = settings /\ m.ops = <<>>
      BY DEF NewMarketState
    <3>2. StoredFields(m)
      BY DEF NewMarketState, StoredFields
    <3> HIDE DEF m
    <3>3. StoredSettings(m)
      BY <3>1, EmptySeq DEF StoredSettings
    <3>4. MarketOK(m)
      BY <3>1, <3>2, <3>3, EmptyMarket
    <3> QED BY <3>4 DEF m
  <2>5. ASSUME NEW q \in Existing \cup {p}, q # current.market PROVE MarketOK(markets'[q])
    <3>1. q \in AllPairs
      BY <1>6, ExistingPairs
    <3>2. CASE q = p
      <4>1. markets'[q] = NewMarketState(settings)
        BY <1>1, <2>2, <3>1, <3>2
      <4> QED BY <2>4, <4>1
    <3>3. CASE q # p
      <4>1. markets'[q] = markets[q]
        BY <1>1, <2>2, <3>1, <3>3
      <4> QED BY <2>1, <2>5, <3>3, <4>1 DEF StoredInv
    <3> QED BY <3>2, <3>3
  <2>6. ASSUME NEW q \in Existing \cup {p}, q # current'.market PROVE MarketOK(markets[q])'
    <3> DEFINE stored == markets'[q]
    <3>1. MarketOK(stored)
      BY <1>1, <2>5, <2>6
    <3> HIDE DEF stored
    <3> QED BY <3>1 DEF stored
  <2> QED BY <1>2, <2>3, <2>6 DEF StoredInv
<1>9. CurrentInv'
  BY <1>1, <1>2 DEF EngineInv, CurrentInv
<1>10. WindowInv'
  BY <1>1, <1>4, MessageWindow DEF Replies
<1> QED BY <1>1, <1>3, <1>7, <1>8, <1>9, <1>10 DEF EngineInv, SweepInv

LEMMA TransferType ==
  ASSUME NEW t \in Transfer, NEW a \in Address
  PROVE  Transferred(a, t) \in Address
BY DEF Transferred, Transfer, Address

LEMMA ReceiveTransferKeeps ==
  ASSUME EngineInv, NEW t \in Transfers, ReceiveTransfer(t)
  PROVE  EngineInv'
<1> DEFINE c == GetWallet(t.coin)
           w == [AllWallets EXCEPT ![c][t.user] = Transferred(@, t)]
<1>1. /\ EngineMessage("ok") /\ sweep' = None /\ SetWallets(w)
      /\ UNCHANGED <<marketsMap, walletIds, markets, current>>
  BY DEF ReceiveTransfer, EngineMessage, EngineIdle, indexVars
<1>2. t \in Transfer /\ t.user \in Users
  BY EngineRequestsAssumption DEF Transfer
<1> HIDE DEF c
<1>3. ASSUME NEW k \in Coins PROVE w[k] \in [Users -> Address]
  <2>1. k \in AllCoins /\ WalletAt(k) \in [Users -> Address]
    BY DEF EngineInv, WalletsInv
  <2>2. AllWallets[k] = WalletAt(k) /\ AllWallets = [i \in AllCoins |-> WalletAt(i)]
    BY <2>1 DEF AllWallets
  <2>3. CASE k = c
    <3>1. w[k] = [WalletAt(k) EXCEPT ![t.user] = Transferred(WalletAt(k)[t.user], t)]
      BY <2>1, <2>2, <2>3
    <3>2. Transferred(WalletAt(k)[t.user], t) \in Address
      BY <1>2, <2>1, TransferType
    <3> HIDE DEF w
    <3> QED BY <2>1, <3>1, <3>2
  <2>4. CASE k # c
    <3>1. w[k] = WalletAt(k)
      BY <2>1, <2>2, <2>4
    <3> QED BY <2>1, <3>1
  <2> QED BY <2>3, <2>4
<1> HIDE DEF w
<1>4. WalletsInv' /\ CurrentInv' /\ WindowInv'
  BY <1>1, <1>3, SetWalletsKeeps, MessageWindow DEF Replies
<1> QED BY <1>1, <1>4, MarketsKept DEF EngineInv, SweepInv

LEMMA CancelAllOrdersKeeps ==
  ASSUME EngineInv, NEW user \in Users, CancelAllOrders(user)
  PROVE  EngineInv'
<1>1. /\ EngineMessage("none")
      /\ sweep' = [user |-> user, bases |-> DOMAIN marketsMap, base |-> None, queue |-> <<>>]
      /\ UNCHANGED <<walletVars, marketsMap, walletIds, markets, wallets, current>>
  BY DEF CancelAllOrders, indexVars, storeVars
<1>2. phase' = "idle"
  BY <1>1 DEF EngineMessage, EngineIdle
<1>3. SweepInv'
  <2>1. sweep' \in SweepState
    BY <1>1, EmptySeq DEF SweepState, EngineInv, IndexInv
  <2> QED BY <1>2, <2>1 DEF SweepInv, SweepState
<1>4. WalletsInv' /\ CurrentInv' /\ WindowInv'
  BY <1>1, WalletsKept, MessageWindow DEF Replies
<1> QED BY <1>1, <1>3, <1>4, MarketsKept DEF EngineInv

-----------------------------------------------------------------------------
(* The messages to all markets *)

\* The settings of a market after one of them was set.
LEMMA ConfigSet ==
  ASSUME NEW settings \in MarketConfig, NEW field, NEW value,
         \/ field = "feeDivision" /\ value \in FeeDivisions
         \/ field = "limitCap" /\ value \in LimitCaps
         \/ field = "stopCap" /\ value \in StopCaps
  PROVE  [settings EXCEPT ![field] = value] \in MarketConfig
BY DEF MarketConfig

LEMMA ConfigChanged ==
  ASSUME NEW m, MarketOK(m), NEW field, NEW value,
         \/ field = "feeDivision" /\ value \in FeeDivisions
         \/ field = "limitCap" /\ value \in LimitCaps
         \/ field = "stopCap" /\ value \in StopCaps
  PROVE  /\ MarketOK([m EXCEPT !.config[field] = value])
         /\ [m EXCEPT !.config[field] = value].limits = m.limits
<1> DEFINE k == [m EXCEPT !.config[field] = value]
<1>1. m = [limits |-> m.limits, stops |-> m.stops, userOrders |-> m.userOrders,
           knownUsers |-> m.knownUsers, orderId |-> m.orderId, tradeId |-> m.tradeId,
           config |-> m.config, ops |-> m.ops]
  BY DEF MarketOK, StoredFields
<1>2. k = [limits |-> m.limits, stops |-> m.stops, userOrders |-> m.userOrders,
           knownUsers |-> m.knownUsers, orderId |-> m.orderId, tradeId |-> m.tradeId,
           config |-> [m.config EXCEPT ![field] = value], ops |-> m.ops]
  BY <1>1
<1> HIDE DEF k
<1>3. StoredFields(k)
  BY <1>2 DEF StoredFields
<1>4. k.config \in MarketConfig
  BY <1>2, ConfigSet DEF MarketOK, StoredSettings
<1>5. /\ k.limits = m.limits /\ k.stops = m.stops /\ k.userOrders = m.userOrders
      /\ k.knownUsers = m.knownUsers /\ k.orderId = m.orderId /\ k.tradeId = m.tradeId
      /\ k.ops = m.ops
  BY <1>2
<1>6. MarketOK(k)
  BY <1>3, <1>4, <1>5, SameMarket
<1> QED BY <1>5, <1>6 DEF k

\* A market after its orders were cleared.
Cleared(m) ==
  [m EXCEPT !.limits = NoOrders, !.stops = NoOrders, !.userOrders = {}, !.knownUsers = {}]

LEMMA OrdersCleared ==
  ASSUME NEW m, MarketOK(m)
  PROVE  /\ MarketOK(Cleared(m))
         /\ Cleared(m).limits = NoOrders /\ Cleared(m).stops = NoOrders
<1> DEFINE k == Cleared(m)
           fields == {"limits", "stops", "userOrders", "knownUsers", "orderId", "tradeId",
                      "config", "ops"}
<1>1. m = [f \in fields |-> m[f]]
  BY DEF MarketOK, StoredFields
<1>2. k = [f \in fields |->
             IF f \in {"limits", "stops"} THEN NoOrders
             ELSE IF f \in {"userOrders", "knownUsers"} THEN {} ELSE m[f]]
  BY <1>1 DEF Cleared
<1> HIDE DEF k
<1>3. k = [limits |-> NoOrders, stops |-> NoOrders, userOrders |-> {}, knownUsers |-> {},
           orderId |-> m.orderId, tradeId |-> m.tradeId, config |-> m.config, ops |-> m.ops]
  BY <1>2
<1>4. StoredFields(k)
  BY <1>3 DEF StoredFields
<1>5. StoredSettings(k)
  BY <1>3 DEF MarketOK, StoredSettings
<1>6. k.limits = NoOrders /\ k.stops = NoOrders /\ k.userOrders = {} /\ k.knownUsers = {}
  BY <1>3
<1>7. MarketOK(k)
  BY <1>4, <1>5, <1>6, EmptyMarket
<1> QED BY <1>6, <1>7 DEF k

LEMMA SetAllConfigsKeeps ==
  ASSUME EngineInv, NEW field, NEW value, SetAllConfigs(field, value),
         \/ field = "feeDivision" /\ value \in FeeDivisions
         \/ field = "limitCap" /\ value \in LimitCaps
         \/ field = "stopCap" /\ value \in StopCaps
  PROVE  EngineInv'
<1>1. /\ phase = "idle" /\ phase' = "idle" /\ sweep' = None /\ reply' = "ok"
      /\ config' = [config EXCEPT ![field] = value]
      /\ UNCHANGED <<bookVars, cacheVars, idVars, walletVars, ops, simVars, callVars, toCancel,
                     marketsMap, walletIds, wallets, current>>
  BY DEF SetAllConfigs, EngineIdle, indexVars
<1>2. markets' = [p \in AllPairs |-> IF p \in Existing \ {current.market}
                                     THEN [markets[p] EXCEPT !.config[field] = value]
                                     ELSE markets[p]]
  BY DEF SetAllConfigs
<1>3. Existing' = Existing
  BY <1>1, ExistingKept
<1>4. WalletsInv' /\ CurrentInv' /\ coin' \in [Users -> Address] /\ base' \in [Users -> Address]
  BY <1>1, WalletsKept
<1>5. IndexInv'
  BY <1>1 DEF EngineInv, IndexInv, SortedIds, StrictlySorted
<1>6. StoredInv'
  <2>1. ASSUME NEW p \in Existing, p # current.market PROVE MarketOK(markets'[p])
    <3>1. MarketOK(markets[p])
      BY <2>1 DEF EngineInv, StoredInv
    <3>2. markets'[p] = [markets[p] EXCEPT !.config[field] = value]
      BY <1>2, <2>1, ExistingPairs
    <3> QED BY <3>1, <3>2, ConfigChanged
  <2>2. markets' = [p \in AllPairs |-> markets'[p]]
    BY <1>2
  <2>3. ASSUME NEW p \in Existing, p # current'.market PROVE MarketOK(markets[p])'
    <3> DEFINE stored == markets'[p]
    <3>1. MarketOK(stored)
      BY <1>1, <2>1, <2>3
    <3> HIDE DEF stored
    <3> QED BY <3>1 DEF stored
  <2> QED BY <1>3, <2>2, <2>3 DEF StoredInv
<1>7. WindowInv'
  <2> DEFINE m == Window
  <2>1. /\ m.limits = limits /\ m.stops = stops /\ m.userOrders = userOrders
        /\ m.knownUsers = knownUsers /\ m.orderId = currentOrderId
        /\ m.tradeId = currentTradeId /\ m.config = config /\ m.ops = ops
    BY WindowFields
  <2>2. /\ m'.limits = limits' /\ m'.stops = stops' /\ m'.userOrders = userOrders'
        /\ m'.knownUsers = knownUsers' /\ m'.orderId = currentOrderId'
        /\ m'.tradeId = currentTradeId' /\ m'.config = config' /\ m'.ops = ops'
    BY WindowFieldsNext
  <2>3. MarketOK(m)
    BY <1>1, WindowStored DEF EngineInv
  <2>4. StoredFields(m')
    BY DEF StoredFields, Window
  <2> HIDE DEF m
  <2>5. m'.config \in MarketConfig
    <3>1. config \in MarketConfig
      BY <2>1, <2>3 DEF MarketOK, StoredSettings
    <3>2. config' \in MarketConfig
      BY <1>1, <3>1, ConfigSet
    <3> QED BY <2>2, <3>2
  <2>6. MarketOK(m)'
    BY <1>1, <2>1, <2>2, <2>3, <2>4, <2>5, SameMarket DEF bookVars, cacheVars, idVars
  <2>7. MarketOK(Window)'
    BY <2>6 DEF m
  <2> QED BY <1>1, <1>4, <2>7, WindowAfter DEF EngineInv, callVars
<1> QED BY <1>1, <1>4, <1>5, <1>6, <1>7 DEF EngineInv, SweepInv

LEMMA ClearAllKeeps ==
  ASSUME EngineInv, ClearAllEveryonesOpenOrders
  PROVE  EngineInv'
<1> DEFINE w == [c \in AllCoins |->
                   IF c \in CoinsInvolved THEN Release(WalletAt(c), Users) ELSE WalletAt(c)]
<1>1. /\ phase = "idle" /\ phase' = "idle" /\ sweep' = None /\ reply' = "ok"
      /\ limits' = NoOrders /\ stops' = NoOrders /\ userOrders' = {} /\ knownUsers' = {}
      /\ SetWallets(w)
      /\ UNCHANGED <<idVars, config, ops, simVars, callVars, toCancel, marketsMap, walletIds,
                     current>>
  BY DEF ClearAllEveryonesOpenOrders, EngineIdle, indexVars
<1>2. markets' = [p \in AllPairs |->
                   IF p \in Existing \ {current.market}
                     THEN [markets[p] EXCEPT !.limits = NoOrders, !.stops = NoOrders,
                                             !.userOrders = {}, !.knownUsers = {}]
                     ELSE markets[p]]
  BY DEF ClearAllEveryonesOpenOrders
<1>3. Existing' = Existing
  BY <1>1, ExistingKept
<1>4. WalletsInv' /\ CurrentInv' /\ coin' \in [Users -> Address] /\ base' \in [Users -> Address]
  <2>1. \A c \in Coins : c \in AllCoins /\ WalletAt(c) \in [Users -> Address]
    BY DEF EngineInv, WalletsInv
  <2>2. \A c \in Coins : w[c] \in [Users -> Address]
    BY <2>1, ReleaseType
  <2> HIDE DEF w
  <2> QED BY <1>1, <2>2, SetWalletsKeeps
<1>5. IndexInv'
  BY <1>1 DEF EngineInv, IndexInv, SortedIds, StrictlySorted
<1>6. StoredInv'
  <2>1. ASSUME NEW p \in Existing, p # current.market PROVE MarketOK(markets'[p])
    <3>1. MarketOK(markets[p])
      BY <2>1 DEF EngineInv, StoredInv
    <3>2. markets'[p] = Cleared(markets[p])
      BY <1>2, <2>1, ExistingPairs DEF Cleared
    <3> QED BY <3>1, <3>2, OrdersCleared
  <2>2. markets' = [p \in AllPairs |-> markets'[p]]
    BY <1>2
  <2>3. ASSUME NEW p \in Existing, p # current'.market PROVE MarketOK(markets[p])'
    <3> DEFINE stored == markets'[p]
    <3>1. MarketOK(stored)
      BY <1>1, <2>1, <2>3
    <3> HIDE DEF stored
    <3> QED BY <3>1 DEF stored
  <2> QED BY <1>3, <2>2, <2>3 DEF StoredInv
<1>7. WindowInv'
  <2> DEFINE m == Window
  <2>1. m.orderId = currentOrderId /\ m.tradeId = currentTradeId /\ m.config = config /\ m.ops = ops
    BY WindowFields
  <2>2. /\ m'.limits = limits' /\ m'.stops = stops' /\ m'.userOrders = userOrders'
        /\ m'.knownUsers = knownUsers' /\ m'.orderId = currentOrderId'
        /\ m'.tradeId = currentTradeId' /\ m'.config = config' /\ m'.ops = ops'
    BY WindowFieldsNext
  <2>3. MarketOK(m)
    BY <1>1, WindowStored DEF EngineInv
  <2>4. StoredFields(m')
    BY DEF StoredFields, Window
  <2> HIDE DEF m
  <2>5. StoredSettings(m')
    BY <1>1, <2>1, <2>2, <2>3 DEF MarketOK, StoredSettings, idVars
  <2>6. MarketOK(m)'
    <3>1. m'.limits = NoOrders /\ m'.stops = NoOrders /\ m'.userOrders = {} /\ m'.knownUsers = {}
      BY <1>1, <2>2
    <3> QED BY <2>4, <2>5, <3>1, EmptyMarket
  <2>7. MarketOK(Window)'
    BY <2>6 DEF m
  <2> QED BY <1>1, <1>4, <2>7, WindowAfter DEF EngineInv, callVars
<1> QED BY <1>1, <1>4, <1>5, <1>6, <1>7 DEF EngineInv, SweepInv

-----------------------------------------------------------------------------
(* The steps of CancelAllOrders *)

\* What a user has in order in one wallet is released.
LEMMA ReleaseUserWallets ==
  ASSUME EngineInv, NEW c, ReleaseUser(c), current' = current, NEW k \in AllCoins
  PROVE  WalletAt(k)' = IF k = c THEN Release(WalletAt(k), {sweep.user}) ELSE WalletAt(k)
<1> DEFINE w == [AllWallets EXCEPT ![c] = Release(@, {sweep.user})]
<1>1. SetWallets(w)
  BY DEF ReleaseUser
<1>2. w[k] = IF k = c THEN Release(AllWallets[k], {sweep.user}) ELSE AllWallets[k]
  BY DEF AllWallets
<1>3. AllWallets[k] = WalletAt(k)
  BY AllWalletsAt
<1> HIDE DEF w
<1>4. WalletAt(k)' = w[k]
  BY <1>1, WalletSet
<1> QED BY <1>2, <1>3, <1>4

LEMMA ReleaseUserKeeps ==
  ASSUME EngineInv, NEW c, ReleaseUser(c), UNCHANGED <<current, marketsMap, walletIds>>
  PROVE  /\ WalletsInv' /\ CurrentInv'
         /\ coin' \in [Users -> Address] /\ base' \in [Users -> Address]
<1> DEFINE w == [AllWallets EXCEPT ![c] = Release(@, {sweep.user})]
<1>1. SetWallets(w)
  BY DEF ReleaseUser
<1>2. ASSUME NEW k \in Coins PROVE w[k] \in [Users -> Address]
  <2>1. k \in AllCoins /\ WalletAt(k) \in [Users -> Address]
    BY DEF EngineInv, WalletsInv
  <2>2. w[k] = IF k = c THEN Release(AllWallets[k], {sweep.user}) ELSE AllWallets[k]
    BY <2>1 DEF AllWallets
  <2>3. AllWallets[k] = WalletAt(k)
    BY <2>1, AllWalletsAt
  <2> HIDE DEF w
  <2> QED BY <2>1, <2>2, <2>3, ReleaseType
<1> HIDE DEF w
<1> QED BY <1>1, <1>2, SetWalletsKeeps

\* The window through a step between the markets.
LEMMA SweepWindow ==
  ASSUME EngineInv, SweepStep, reply' \in Replies,
         coin' \in [Users -> Address], base' \in [Users -> Address],
         \/ phase' = "idle" /\ toCancel' = toCancel
         \/ /\ phase' = "cancel" /\ message' \in Users /\ reply' = "none"
            /\ toCancel' = EntriesOf(message')
  PROVE  WindowInv'
<1>1. /\ phase = "idle" /\ WindowInv
      /\ UNCHANGED <<simVars, lastTradePrice, pending>> /\ UNCHANGED userOrders
  BY DEF SweepStep, EngineInv, cacheVars
<1>2. UNCHANGED Window
  BY DEF SweepStep, Window, bookVars, cacheVars, idVars
<1>3. EntriesOf(message)' = EntriesOf(message')
  BY <1>1 DEF EntriesOf
<1>4. MarketOK(Window)'
  BY <1>1, <1>2, SameWindow
<1> QED BY <1>1, <1>3, <1>4, WindowAfter DEF Replies

LEMMA SweepBaseKeeps ==
  ASSUME EngineInv, NEW id \in DOMAIN marketsMap, SweepBase(id)
  PROVE  EngineInv'
<1>1. /\ SweepStep /\ phase = "idle" /\ phase' = "idle" /\ reply' = "none" /\ toCancel' = toCancel
      /\ sweep' = [sweep EXCEPT !.bases = @ \ {id}, !.base = id, !.queue = marketsMap[id]]
      /\ ReleaseUser(GetWallet(id)) /\ sweep # None
      /\ UNCHANGED <<marketsMap, walletIds, markets, current>>
  BY DEF SweepBase, SweepStep, indexVars
<1>2. SweepInv'
  <2>1. sweep \in SweepState
    BY <1>1 DEF EngineInv, SweepInv
  <2>2. id \in Nat /\ marketsMap[id] \in Seq(Nat)
    BY DEF EngineInv, IndexInv, SortedIds
  <2>3. sweep' \in SweepState
    BY <1>1, <2>1, <2>2 DEF SweepState
  <2> QED BY <1>1, <2>3 DEF SweepInv, SweepState
<1>3. WalletsInv' /\ CurrentInv' /\ WindowInv'
  BY <1>1, ReleaseUserKeeps, SweepWindow DEF Replies
<1> QED BY <1>1, <1>2, <1>3, MarketsKept DEF EngineInv

LEMMA SweepMarketKeeps ==
  ASSUME EngineInv, SweepMarket
  PROVE  EngineInv'
<1>1. /\ SweepStep /\ phase' = "cancel" /\ reply' = "none" /\ message' = sweep.user
      /\ toCancel' = EntriesOf(sweep.user) /\ sweep' = [sweep EXCEPT !.queue = Tail(@)]
      /\ ReleaseUser(current.coin) /\ sweep # None /\ sweep.queue # <<>>
      /\ UNCHANGED <<marketsMap, walletIds, markets, current>>
  BY DEF SweepMarket, SweepStep, indexVars
<1>2. sweep \in SweepState /\ sweep.user \in Users
  BY <1>1 DEF EngineInv, SweepInv, SweepState
<1>3. SweepInv'
  <2>1. Tail(sweep.queue) \in Seq(Nat)
    BY <1>1, <1>2, HeadTailProperties DEF SweepState
  <2>2. sweep' \in SweepState /\ sweep'.user = sweep.user
    BY <1>1, <1>2, <2>1 DEF SweepState
  <2> QED BY <1>1, <2>2 DEF SweepInv, SweepState
<1>4. toCancel' = EntriesOf(message')
  BY <1>1
<1>5. WalletsInv' /\ CurrentInv' /\ WindowInv'
  BY <1>1, <1>2, <1>4, ReleaseUserKeeps, SweepWindow DEF Replies
<1> QED BY <1>1, <1>3, <1>5, MarketsKept DEF EngineInv

LEMMA SweepUnknownKeeps ==
  ASSUME EngineInv, SweepUnknown
  PROVE  EngineInv'
<1>1. /\ SweepStep /\ phase' = "idle" /\ reply' = "out_of_range" /\ toCancel' = toCancel
      /\ sweep' = None /\ ReleaseUser(current.coin)
      /\ UNCHANGED <<marketsMap, walletIds, markets, current>>
  BY DEF SweepUnknown, SweepStep, indexVars
<1>2. WalletsInv' /\ CurrentInv' /\ WindowInv'
  BY <1>1, ReleaseUserKeeps, SweepWindow DEF Replies
<1> QED BY <1>1, <1>2, MarketsKept DEF EngineInv, SweepInv

LEMMA SweepDoneKeeps ==
  ASSUME EngineInv, SweepDone
  PROVE  EngineInv'
<1>1. /\ SweepStep /\ phase' = "idle" /\ reply' = "ok" /\ toCancel' = toCancel /\ sweep' = None
      /\ UNCHANGED <<walletVars, wallets, marketsMap, walletIds, markets, current>>
  BY DEF SweepDone, SweepStep, indexVars
<1>2. WalletsInv' /\ CurrentInv' /\ WindowInv'
  BY <1>1, WalletsKept, SweepWindow DEF Replies
<1> QED BY <1>1, <1>2, MarketsKept DEF EngineInv, SweepInv

-----------------------------------------------------------------------------
(* The invariant of the engine *)

LEMMA EngineStutter ==
  ASSUME EngineInv, UNCHANGED allVars
  PROVE  EngineInv'
<1>1. UNCHANGED vars /\ UNCHANGED engineVars
  BY DEF allVars
<1>2. UNCHANGED <<walletVars, wallets, current, marketsMap, walletIds, markets, sweep, phase,
                  message>>
  BY <1>1 DEF engineVars, indexVars, storeVars, vars, marketVars, callVars
<1>3. WindowInv'
  BY <1>1, WindowStep DEF EngineInv
<1>4. SweepInv'
  BY <1>2 DEF EngineInv, SweepInv, SweepState
<1> QED BY <1>2, <1>3, <1>4, WalletsKept, MarketsKept DEF EngineInv

LEMMA EngineInvNext == EngineInv /\ [EngineNext]_allVars => EngineInv'
<1> SUFFICES ASSUME EngineInv, [EngineNext]_allVars PROVE EngineInv'
  OBVIOUS
<1>1. CASE UNCHANGED allVars
  BY <1>1, EngineStutter
<1>2. CASE EngineProcessing
  <2>1. ASSUME NEW p \in Existing, Focus(p) PROVE EngineInv'
    BY <2>1, FocusKeeps
  <2>2. ASSUME NEW id \in DOMAIN marketsMap, SweepBase(id) PROVE EngineInv'
    BY <2>2, SweepBaseKeeps
  <2> QED BY <1>2, <2>1, <2>2, HandlerKeeps, SweepMarketKeeps, SweepUnknownKeeps, SweepDoneKeeps
          DEF EngineProcessing
<1>3. CASE EngineReceive
  <2>1. ASSUME NEW p \in Existing, Focus(p) PROVE EngineInv'
    BY <2>1, FocusKeeps
  <2>2. ASSUME NEW id \in CoinIds, RejectNewCoin(id) \/ NewCoin(id) PROVE EngineInv'
    BY <2>2, RejectionKeeps, NewCoinKeeps
  <2>3. ASSUME NEW p \in CoinPairs,
               RejectNewMarket(p) \/ \E settings \in MarketConfig : NewMarket(p, settings)
        PROVE  EngineInv'
    BY <2>3, RejectionKeeps, NewMarketKeeps
  <2>4. ASSUME NEW t \in Transfers, ReceiveTransfer(t) PROVE EngineInv'
    BY <2>4, ReceiveTransferKeeps
  <2>5. ASSUME \/ \E d \in FeeDivisions : SetAllConfigs("feeDivision", d)
               \/ \E c \in LimitCaps : SetAllConfigs("limitCap", c)
               \/ \E c \in StopCaps : SetAllConfigs("stopCap", c)
        PROVE  EngineInv'
    <3>1. ASSUME NEW d \in FeeDivisions, SetAllConfigs("feeDivision", d) PROVE EngineInv'
      BY <3>1, SetAllConfigsKeeps
    <3>2. ASSUME NEW c \in LimitCaps, SetAllConfigs("limitCap", c) PROVE EngineInv'
      BY <3>2, SetAllConfigsKeeps
    <3>3. ASSUME NEW c \in StopCaps, SetAllConfigs("stopCap", c) PROVE EngineInv'
      BY <3>3, SetAllConfigsKeeps
    <3> QED BY <2>5, <3>1, <3>2, <3>3
  <2>6. ASSUME NEW user \in Users, CancelAllOrders(user) PROVE EngineInv'
    BY <2>6, CancelAllOrdersKeeps
  <2> QED BY <1>3, <2>1, <2>2, <2>3, <2>4, <2>5, <2>6, MarketMessageKeeps, ClearAllKeeps
          DEF EngineReceive
<1> QED BY <1>1, <1>2, <1>3 DEF EngineNext

\* Whatever messages an engine receives, every market it has, in the window and out
\* of it, has the invariants that were proved of a single market; its wallets hold
\* balances of all users, and its lookups find what exists.
THEOREM EngineInvariance == EngineSpec => []EngineInv
BY EngineInvInit, EngineInvNext, PTL DEF EngineSpec

-----------------------------------------------------------------------------
(* CancelAllOrders *)

\* While CancelAllOrders is at work no other message is received.
LEMMA SweepingSteps ==
  ASSUME EngineInv, [EngineNext]_allVars, sweep # None
  PROVE  \/ UNCHANGED allVars
         \/ HandlerStep /\ phase = "cancel" /\ message = sweep.user /\ sweep.user \in Users
         \/ \E p \in Existing : Focus(p)
         \/ \E id \in DOMAIN marketsMap : SweepBase(id)
         \/ SweepMarket
         \/ SweepUnknown
         \/ SweepDone
<1>1. ~EngineIdle
  BY DEF EngineIdle
<1>2. EngineReceive => \E p \in Existing : Focus(p)
  BY <1>1 DEF EngineReceive, MarketMessage, RejectNewCoin, NewCoin, RejectNewMarket, NewMarket,
              ReceiveTransfer, EngineMessage, SetAllConfigs, ClearAllEveryonesOpenOrders,
              CancelAllOrders
<1>3. HandlerStep => phase = "cancel" /\ message = sweep.user /\ sweep.user \in Users
  <2>1. /\ phase \in {"idle", "cancel"} /\ (phase = "cancel" => message = sweep.user)
        /\ sweep.user \in Users
    BY DEF EngineInv, SweepInv, SweepState
  <2> QED BY <2>1, CancelStepsOnly DEF HandlerStep
<1> QED BY <1>2, <1>3 DEF EngineNext, EngineProcessing

\* The steps of its loops leave the books alone.
LEMMA SweepBooks ==
  ASSUME SweepStep, NEW p
  PROVE  MarketAt(p)' = MarketAt(p)
BY DEF SweepStep, MarketAt, Window, bookVars, cacheVars, idVars

\* The orders of a user are the same in the same books.
LEMMA SameOrders ==
  ASSUME NEW p, NEW u, MarketAt(p)'.limits = MarketAt(p).limits,
         MarketAt(p)'.stops = MarketAt(p).stops
  PROVE  OrdersIn(p, u)' = OrdersIn(p, u)
<1>1. OrdersIn(p, u)' = [s \in Sides |-> <<OwnedBy(u, MarketAt(p)'.limits[s]),
                                           OwnedBy(u, MarketAt(p)'.stops[s])>>]
  BY DEF OrdersIn
<1> QED BY <1>1 DEF OrdersIn

\* The orders in the window's market.
LEMMA WindowOrders ==
  ASSUME NEW p, p = current.market, NEW u
  PROVE  /\ OrdersIn(p, u)
              = [s \in Sides |-> <<OrdersOf(u, "limit", s), OrdersOf(u, "stop", s)>>]
         /\ current' = current =>
              OrdersIn(p, u)'
                = [s \in Sides |-> <<OrdersOf(u, "limit", s)', OrdersOf(u, "stop", s)'>>]
<1>1. OrdersIn(p, u) = [s \in Sides |-> <<OrdersOf(u, "limit", s), OrdersOf(u, "stop", s)>>]
  <2>1. \A s \in Sides : /\ OrdersOf(u, "limit", s) = OwnedBy(u, limits[s])
                         /\ OrdersOf(u, "stop", s) = OwnedBy(u, stops[s])
    BY DEF OrdersOf, Book
  <2>2. MarketAt(p).limits = limits /\ MarketAt(p).stops = stops
    BY WindowFields DEF MarketAt
  <2> QED BY <2>1, <2>2 DEF OrdersIn
<1>2. ASSUME current' = current
      PROVE  OrdersIn(p, u)'
               = [s \in Sides |-> <<OrdersOf(u, "limit", s)', OrdersOf(u, "stop", s)'>>]
  <2>1. \A s \in Sides : /\ OrdersOf(u, "limit", s)' = OwnedBy(u, limits'[s])
                         /\ OrdersOf(u, "stop", s)' = OwnedBy(u, stops'[s])
    BY DEF OrdersOf, Book
  <2>2. MarketAt(p)'.limits = limits' /\ MarketAt(p)'.stops = stops'
    BY <1>2, WindowFieldsNext DEF MarketAt
  <2>3. OrdersIn(p, u)' = [s \in Sides |-> <<OwnedBy(u, MarketAt(p)'.limits[s]),
                                            OwnedBy(u, MarketAt(p)'.stops[s])>>]
    BY DEF OrdersIn
  <2> QED BY <2>1, <2>2, <2>3
<1> QED BY <1>1, <1>2

\* Nobody else's orders and balances change.
LEMMA SweepSpares ==
  ASSUME EngineInv, EngineInv', [EngineNext]_allVars, sweep # None, NEW u \in Users \ {sweep.user}
  PROVE  /\ \A p \in Existing : OrdersIn(p, u)' = OrdersIn(p, u)
         /\ \A c \in AllCoins : WalletAt(c)'[u] = WalletAt(c)[u]
<1>1. CASE UNCHANGED allVars
  <2>1. UNCHANGED <<limits, stops, userOrders, knownUsers, currentOrderId, currentTradeId, config,
                    ops, coin, base, wallets, markets, current>>
    BY <1>1 DEF allVars, engineVars, storeVars, vars, marketVars, bookVars, cacheVars, idVars,
                walletVars
  <2>2. \A p : MarketAt(p)' = MarketAt(p)
    BY <2>1 DEF MarketAt, Window
  <2>3. \A c : WalletAt(c)' = WalletAt(c)
    BY <2>1 DEF WalletAt
  <2> QED BY <2>2, <2>3, SameOrders
<1>2. CASE HandlerStep /\ phase = "cancel" /\ message = sweep.user
  <2>1. /\ Processing /\ UNCHANGED <<markets, wallets, current>> /\ u \in Users \ {message}
    BY <1>2 DEF HandlerStep, OnMarket, storeVars
  <2>2. \A kind \in {"limit", "stop"}, s \in Sides : OrdersOf(u, kind, s)' = OrdersOf(u, kind, s)
    BY <1>2, <2>1, CancelStepsClear DEF EngineInv, WindowInv, Next
  <2>3. UNCHANGED <<coin, base>>
    BY <1>2, <2>1, CancelStepsOnly DEF CancelNext, CancelStale, CancelledAll, marketVars, walletVars
  <2>4. ASSUME NEW p \in Existing PROVE OrdersIn(p, u)' = OrdersIn(p, u)
    <3>1. CASE p = current.market
      <4>1. OrdersIn(p, u) = [s \in Sides |-> <<OrdersOf(u, "limit", s), OrdersOf(u, "stop", s)>>]
        BY <3>1, WindowOrders
      <4>2. OrdersIn(p, u)'
              = [s \in Sides |-> <<OrdersOf(u, "limit", s)', OrdersOf(u, "stop", s)'>>]
        BY <2>1, <3>1, WindowOrders
      <4> QED BY <2>2, <4>1, <4>2
    <3>2. CASE p # current.market
      <4>1. MarketAt(p)' = MarketAt(p)
        BY <2>1, <3>2 DEF MarketAt
      <4> QED BY <4>1, SameOrders
    <3> QED BY <3>1, <3>2
  <2>5. \A c : WalletAt(c)' = WalletAt(c)
    BY <2>1, <2>3 DEF WalletAt
  <2> QED BY <2>4, <2>5
<1>3. ASSUME NEW p \in Existing, Focus(p)
      PROVE  /\ \A q \in Existing : OrdersIn(q, u)' = OrdersIn(q, u)
             /\ \A c \in AllCoins : WalletAt(c)'[u] = WalletAt(c)[u]
  BY <1>3, FocusMoves, SameOrders
<1>4. ASSUME NEW c, SweepStep, ReleaseUser(c)
      PROVE  /\ \A q \in Existing : OrdersIn(q, u)' = OrdersIn(q, u)
             /\ \A k \in AllCoins : WalletAt(k)'[u] = WalletAt(k)[u]
  <2>1. current' = current
    BY <1>4 DEF SweepStep
  <2>2. ASSUME NEW k \in AllCoins PROVE WalletAt(k)'[u] = WalletAt(k)[u]
    <3>1. WalletAt(k)' = IF k = c THEN Release(WalletAt(k), {sweep.user}) ELSE WalletAt(k)
      BY <1>4, <2>1, ReleaseUserWallets
    <3>2. Release(WalletAt(k), {sweep.user})[u] = WalletAt(k)[u]
      BY DEF Release
    <3> QED BY <3>1, <3>2
  <2> QED BY <1>4, <2>2, SweepBooks, SameOrders
<1>5. CASE SweepDone
  <2>1. SweepStep /\ UNCHANGED <<coin, base, wallets, current>>
    BY <1>5 DEF SweepDone, SweepStep, walletVars
  <2> QED BY <2>1, SweepBooks, SameOrders, WalletKept
<1>6. ASSUME NEW id \in DOMAIN marketsMap, SweepBase(id)
      PROVE  SweepStep /\ ReleaseUser(GetWallet(id))
  BY <1>6 DEF SweepBase
<1>7. SweepMarket \/ SweepUnknown => SweepStep /\ ReleaseUser(current.coin)
  BY DEF SweepMarket, SweepUnknown
<1> QED BY <1>1, <1>2, <1>3, <1>4, <1>5, <1>6, <1>7, SweepingSteps

\* While CancelAllOrders goes through the markets, and when it fails half way, the
\* orders and the balances of everybody else stay what they are, in all of them.
THEOREM OthersSpared == EngineSpec => CancelAllSparesOthers
<1> DEFINE A ==
      sweep # None =>
        \A u \in Users \ {sweep.user} :
          /\ \A p \in Existing : OrdersIn(p, u)' = OrdersIn(p, u)
          /\ \A c \in AllCoins : AllWallets[c] # None => AllWallets'[c][u] = AllWallets[c][u]
<1>1. EngineInv /\ EngineInv' /\ [EngineNext]_allVars => A
  <2> SUFFICES ASSUME EngineInv, EngineInv', [EngineNext]_allVars, sweep # None,
                      NEW u \in Users \ {sweep.user}
               PROVE  /\ \A p \in Existing : OrdersIn(p, u)' = OrdersIn(p, u)
                      /\ \A c \in AllCoins : AllWallets'[c][u] = AllWallets[c][u]
    OBVIOUS
  <2>1. \A c \in AllCoins : AllWallets'[c] = WalletAt(c)' /\ AllWallets[c] = WalletAt(c)
    BY DEF AllWallets
  <2> QED BY <2>1, SweepSpares
<1>2. CancelAllSparesOthers <=> [][A]_allVars
  BY DEF CancelAllSparesOthers
<1> HIDE DEF A
<1> QED BY <1>1, <1>2, EngineInvariance, PTL DEF EngineSpec

-----------------------------------------------------------------------------
(* What CancelAllOrders has done *)

\* The markets that have been visited, or are just being visited.
Done(p) ==
  /\ p.base \notin sweep.bases
  /\ p.base = sweep.base => \A i \in DOMAIN sweep.queue : sweep.queue[i] # p.coin
BeingCancelled(p) == phase = "cancel" /\ p = current.market

SweepDoneInv ==
  sweep # None =>
    \A p \in Existing :
      /\ p.base \notin sweep.bases => WalletAt(p.base)[sweep.user].inOrder = 0
      /\ Done(p) => WalletAt(p.coin)[sweep.user].inOrder = 0
      /\ Done(p) => OrdersIn(p, sweep.user) = NoneOpen \/ BeingCancelled(p)

\* Only CancelAllOrders begins the loops.
LEMMA SweepBegins ==
  ASSUME [EngineNext]_allVars, sweep = None
  PROVE  sweep' = None \/ \E user \in Users : CancelAllOrders(user)
<1>1. CASE UNCHANGED allVars
  BY <1>1 DEF allVars, engineVars
<1>2. CASE EngineProcessing
  BY <1>2 DEF EngineProcessing, HandlerStep, Focus, SweepBase, SweepMarket, SweepUnknown, SweepDone,
              SweepStep
<1>3. CASE EngineReceive
  <2>1. MarketMessage => sweep' = None
    BY DEF MarketMessage
  <2>2. ASSUME NEW p, Focus(p) PROVE sweep' = None
    BY <2>2 DEF Focus
  <2>3. ASSUME NEW id, RejectNewCoin(id) \/ NewCoin(id) \/ RejectNewMarket(id) PROVE sweep' = None
    BY <2>3 DEF RejectNewCoin, NewCoin, RejectNewMarket, engineVars
  <2>4. ASSUME NEW p, NEW settings, NewMarket(p, settings) PROVE sweep' = None
    BY <2>4 DEF NewMarket
  <2>5. ASSUME NEW t, ReceiveTransfer(t) PROVE sweep' = None
    BY <2>5 DEF ReceiveTransfer
  <2>6. ASSUME NEW field, NEW value, SetAllConfigs(field, value) PROVE sweep' = None
    BY <2>6 DEF SetAllConfigs
  <2>7. ClearAllEveryonesOpenOrders => sweep' = None
    BY DEF ClearAllEveryonesOpenOrders
  <2> QED BY <1>3, <2>1, <2>2, <2>3, <2>4, <2>5, <2>6, <2>7 DEF EngineReceive
<1> QED BY <1>1, <1>2, <1>3 DEF EngineNext

\* What the claim says of one market.
DoneWith(p) ==
  /\ p.base \notin sweep.bases => WalletAt(p.base)[sweep.user].inOrder = 0
  /\ Done(p) => WalletAt(p.coin)[sweep.user].inOrder = 0
  /\ Done(p) => OrdersIn(p, sweep.user) = NoneOpen \/ BeingCancelled(p)

LEMMA SweepDoneFor ==
  SweepDoneInv <=> (sweep # None => \A p \in Existing : DoneWith(p))
BY DEF SweepDoneInv, DoneWith

LEMMA SweepDoneForNext ==
  SweepDoneInv' <=> (sweep' # None => \A p \in Existing' : DoneWith(p)')
<1>1. (SweepDoneInv <=> (sweep # None => \A p \in Existing : DoneWith(p)))'
  BY SweepDoneFor, PTL
<1> QED BY <1>1

\* A wallet that is released, and one of which nothing was in order, stays so.
LEMMA ReleasedWallets ==
  ASSUME EngineInv, sweep # None, NEW c, ReleaseUser(c), current' = current
  PROVE  /\ c \in Coins => WalletAt(c)'[sweep.user].inOrder = 0
         /\ \A k \in Coins : WalletAt(k)[sweep.user].inOrder = 0
              => WalletAt(k)'[sweep.user].inOrder = 0
<1>1. sweep.user \in Users
  BY DEF EngineInv, SweepInv, SweepState
<1>2. ASSUME NEW k \in Coins
      PROVE  /\ k = c => WalletAt(k)'[sweep.user].inOrder = 0
             /\ k # c => WalletAt(k)' = WalletAt(k)
  <2>1. k \in AllCoins /\ WalletAt(k) \in [Users -> Address]
    BY DEF EngineInv, WalletsInv
  <2>2. WalletAt(k)' = IF k = c THEN Release(WalletAt(k), {sweep.user}) ELSE WalletAt(k)
    BY <2>1, ReleaseUserWallets
  <2>3. Release(WalletAt(k), {sweep.user})[sweep.user].inOrder = 0
    BY <1>1, <2>1 DEF Release, Address
  <2> QED BY <2>2, <2>3
<1> QED BY <1>2

\* The wallets and markets of the pairs.
LEMMA PairCoins ==
  ASSUME EngineInv, NEW p \in Existing
  PROVE  /\ p.coin \in Coins /\ p.base \in Coins /\ p.coin \in AllCoins /\ p.base \in AllCoins
         /\ GetWallet(p.coin) = p.coin /\ GetWallet(p.base) = p.base
         /\ p \in AllPairs
BY ExistingPairs, LookupsRight DEF EngineInv, WalletsInv

LEMMA SweepHandlerDone ==
  ASSUME EngineInv, EngineInv', SweepDoneInv, sweep # None, sweep' # None,
         HandlerStep, phase = "cancel", message = sweep.user
  PROVE  SweepDoneInv'
<1>1. /\ Processing /\ UNCHANGED <<markets, wallets, current, marketsMap>>
      /\ sweep' = sweep /\ reply' # "InvalidIdPrice"
  BY DEF HandlerStep, OnMarket, storeVars, indexVars
<1>2. \/ phase' = "cancel"
      \/ CancelledAll /\ phase' = "idle" /\ reply' = "ok"
  BY <1>1, CancelStepsOnly DEF CancelNext, CancelStale, CancelledAll
<1>3. UNCHANGED <<coin, base>>
  BY <1>1, CancelStepsOnly DEF CancelNext, CancelStale, CancelledAll, marketVars, walletVars
<1>4. \A c : WalletAt(c)' = WalletAt(c)
  BY <1>1, <1>3 DEF WalletAt
<1>5. Existing' = Existing
  BY <1>1, ExistingKept
<1>6. ASSUME NEW p \in Existing PROVE DoneWith(p)'
  <2>1. DoneWith(p)
    BY <1>6, SweepDoneFor
  <2>2. Done(p)' <=> Done(p)
    BY <1>1 DEF Done
  <2>3. CASE p = current.market
    <3>1. BeingCancelled(p)' \/ OrdersIn(p, sweep.user)' = NoneOpen
      <4>1. CASE phase' = "cancel"
        BY <1>1, <2>3, <4>1 DEF BeingCancelled
      <4>2. CASE CancelledAll /\ phase' = "idle" /\ reply' = "ok"
        <5>1. \A kind \in {"limit", "stop"}, s \in Sides : OrdersOf(sweep.user, kind, s) = <<>>
          BY <1>1, <4>2, CancelStepsClear DEF EngineInv, WindowInv, Next
        <5>2. UNCHANGED <<limits, stops>>
          BY <4>2 DEF CancelledAll, bookVars
        <5>3. OrdersIn(p, sweep.user) = NoneOpen
          <6>1. OrdersIn(p, sweep.user)
                  = [s \in Sides |-> <<OrdersOf(sweep.user, "limit", s), OrdersOf(sweep.user, "stop", s)>>]
            BY <2>3, WindowOrders
          <6> QED BY <5>1, <6>1 DEF NoneOpen
        <5>4. MarketAt(p)'.limits = MarketAt(p).limits /\ MarketAt(p)'.stops = MarketAt(p).stops
          BY <1>1, <2>3, <5>2, WindowFields, WindowFieldsNext DEF MarketAt
        <5>5. \A u : OrdersIn(p, u)' = OrdersIn(p, u)
          BY <5>4, SameOrders
        <5> QED BY <1>1, <5>3, <5>5
      <4> QED BY <1>2, <4>1, <4>2
    <3> QED BY <1>1, <1>4, <2>1, <2>2, <3>1 DEF DoneWith, NoneOpen
  <2>4. CASE p # current.market
    <3>1. MarketAt(p)' = MarketAt(p)
      BY <1>1, <2>4 DEF MarketAt
    <3>2. \A u : OrdersIn(p, u)' = OrdersIn(p, u)
      BY <3>1, SameOrders
    <3>3. ~BeingCancelled(p)
      BY <2>4 DEF BeingCancelled
    <3> QED BY <1>1, <1>4, <2>1, <2>2, <3>2, <3>3 DEF DoneWith, NoneOpen
  <2> QED BY <2>3, <2>4
<1> QED BY <1>5, <1>6, SweepDoneForNext

LEMMA SweepFocusDone ==
  ASSUME EngineInv, SweepDoneInv, sweep # None, NEW p \in Existing, Focus(p)
  PROVE  SweepDoneInv'
<1>1. phase = "idle" /\ phase' = "idle" /\ UNCHANGED <<marketsMap, sweep>>
  BY FocusFinds
<1>2. Existing' = Existing
  BY <1>1, ExistingKept
<1>3. ASSUME NEW q \in Existing PROVE DoneWith(q)'
  <2>1. DoneWith(q) /\ ~BeingCancelled(q)
    BY <1>1, SweepDoneFor DEF BeingCancelled
  <2>2. Done(q)' <=> Done(q)
    BY <1>1 DEF Done
  <2>3. MarketAt(q)' = MarketAt(q) /\ WalletAt(q.coin)' = WalletAt(q.coin)
        /\ WalletAt(q.base)' = WalletAt(q.base)
    BY FocusMoves, PairCoins
  <2>4. \A u : OrdersIn(q, u)' = OrdersIn(q, u)
    BY <2>3, SameOrders
  <2> QED BY <1>1, <2>1, <2>2, <2>3, <2>4 DEF DoneWith, NoneOpen
<1> QED BY <1>2, <1>3, SweepDoneForNext

LEMMA SweepBaseDone ==
  ASSUME EngineInv, SweepDoneInv, NEW id \in DOMAIN marketsMap, SweepBase(id)
  PROVE  SweepDoneInv'
<1>1. /\ SweepStep /\ phase = "idle" /\ phase' = "idle" /\ sweep # None /\ sweep.queue = <<>>
      /\ id \in sweep.bases
      /\ sweep' = [sweep EXCEPT !.bases = @ \ {id}, !.base = id, !.queue = marketsMap[id]]
      /\ ReleaseUser(GetWallet(id)) /\ UNCHANGED <<marketsMap, current>>
  BY DEF SweepBase, SweepStep, indexVars
<1>2. sweep \in SweepState
  BY <1>1 DEF EngineInv, SweepInv
<1>3. /\ sweep'.user = sweep.user /\ sweep'.bases = sweep.bases \ {id} /\ sweep'.base = id
      /\ sweep'.queue = marketsMap[id]
  BY <1>1, <1>2 DEF SweepState
<1>4. Existing' = Existing
  BY <1>1, ExistingKept
<1>5. ASSUME NEW p \in Existing PROVE DoneWith(p)'
  <2>1. DoneWith(p) /\ ~BeingCancelled(p)
    BY <1>1, SweepDoneFor DEF BeingCancelled
  <2>2. p.coin \in Coins /\ p.base \in Coins /\ GetWallet(p.base) = p.base
    BY PairCoins
  <2>3. p.base \notin sweep'.bases => WalletAt(p.base)'[sweep.user].inOrder = 0
    <3>1. CASE p.base = id
      BY <1>1, <2>2, <3>1, ReleasedWallets
    <3>2. CASE p.base # id
      BY <1>1, <1>3, <2>1, <2>2, <3>2, ReleasedWallets DEF DoneWith
    <3> QED BY <3>1, <3>2
  <2>4. Done(p)' => Done(p)
    <3> SUFFICES ASSUME Done(p)' PROVE Done(p)
      OBVIOUS
    <3>1. p.base # id
      <4>1. \E i \in DOMAIN marketsMap[p.base] : marketsMap[p.base][i] = p.coin
        BY ExistingPairs
      <4> QED BY <1>3, <4>1 DEF Done
    <3>2. DOMAIN sweep.queue = {}
      BY <1>1
    <3> QED BY <1>3, <3>1, <3>2 DEF Done
  <2>5. Done(p)' => WalletAt(p.coin)'[sweep.user].inOrder = 0
    BY <1>1, <2>1, <2>2, <2>4, ReleasedWallets DEF DoneWith
  <2>6. \A u : OrdersIn(p, u)' = OrdersIn(p, u)
    BY <1>1, SweepBooks, SameOrders
  <2> QED BY <1>3, <2>1, <2>3, <2>4, <2>5, <2>6 DEF DoneWith, NoneOpen
<1> QED BY <1>4, <1>5, SweepDoneForNext

LEMMA SweepMarketDone ==
  ASSUME EngineInv, SweepDoneInv, SweepMarket
  PROVE  SweepDoneInv'
<1>1. /\ SweepStep /\ phase = "idle" /\ phase' = "cancel" /\ sweep # None /\ sweep.queue # <<>>
      /\ current.market = [coin |-> Head(sweep.queue), base |-> sweep.base]
      /\ sweep' = [sweep EXCEPT !.queue = Tail(@)]
      /\ ReleaseUser(current.coin) /\ UNCHANGED <<marketsMap, current>>
  BY DEF SweepMarket, SweepStep, indexVars, NextOfSweep
<1>2. sweep \in SweepState
  BY <1>1 DEF EngineInv, SweepInv
<1>3. /\ sweep'.user = sweep.user /\ sweep'.bases = sweep.bases /\ sweep'.base = sweep.base
      /\ sweep'.queue = Tail(sweep.queue)
  BY <1>1, <1>2 DEF SweepState
<1>4. Existing' = Existing
  BY <1>1, ExistingKept
<1>5. current.market \in Existing /\ current.coin = current.market.coin
  BY DEF EngineInv, CurrentInv
<1>6. ASSUME NEW x, x # Head(sweep.queue),
             \A i \in DOMAIN Tail(sweep.queue) : Tail(sweep.queue)[i] # x
      PROVE  \A i \in DOMAIN sweep.queue : sweep.queue[i] # x
  <2> DEFINE q == sweep.queue
             t == Tail(q)
  <2>1. q \in Seq(Nat) /\ q # <<>>
    BY <1>1, <1>2 DEF SweepState
  <2>2. /\ t \in Seq(Nat) /\ Len(t) = Len(q) - 1 /\ \A i \in 1 .. Len(t) : t[i] = q[i + 1]
        /\ Head(q) = q[1] /\ Len(q) \in Nat /\ DOMAIN q = 1 .. Len(q)
    BY <2>1, HeadTailProperties, LenProperties
  <2>3. DOMAIN t = 1 .. Len(t)
    BY <2>2, LenProperties
  <2> HIDE DEF t, q
  <2>4. ASSUME NEW i \in DOMAIN q PROVE q[i] # x
    <3>1. CASE i = 1
      BY <1>6, <2>2, <3>1 DEF q
    <3>2. CASE i # 1
      <4>1. i - 1 \in 1 .. Len(t) /\ (i - 1) + 1 = i
        BY <2>2, <3>2
      <4>2. t[i - 1] = q[i] /\ t[i - 1] # x
        BY <1>6, <2>2, <2>3, <4>1 DEF t, q
      <4> QED BY <4>2
    <3> QED BY <3>1, <3>2
  <2> QED BY <2>4 DEF q
<1>7. ASSUME NEW p \in Existing PROVE DoneWith(p)'
  <2>1. DoneWith(p) /\ ~BeingCancelled(p)
    BY <1>1, SweepDoneFor DEF BeingCancelled
  <2>2. /\ p.coin \in Coins /\ p.base \in Coins
        /\ current.market \in Existing /\ current.coin \in Coins
    BY <1>5, PairCoins
  <2>3. p.base \notin sweep'.bases => WalletAt(p.base)'[sweep.user].inOrder = 0
    BY <1>1, <1>3, <2>1, <2>2, ReleasedWallets DEF DoneWith
  <2>4. Done(p)' => Done(p) \/ p = current.market
    <3> SUFFICES ASSUME Done(p)', ~Done(p) PROVE p = current.market
      OBVIOUS
    <3>1. /\ p.base \notin sweep.bases
          /\ p.base = sweep.base => \A i \in DOMAIN Tail(sweep.queue) : Tail(sweep.queue)[i] # p.coin
      BY <1>3 DEF Done
    <3>2. p.base = sweep.base /\ p.coin = Head(sweep.queue)
      BY <1>6, <3>1 DEF Done
    <3>3. p = [coin |-> p.coin, base |-> p.base]
      BY PairFields, PairCoins
    <3> QED BY <1>1, <3>2, <3>3
  <2>5. Done(p)' => WalletAt(p.coin)'[sweep.user].inOrder = 0
    BY <1>1, <1>5, <2>1, <2>2, <2>4, ReleasedWallets DEF DoneWith
  <2>6. \A u : OrdersIn(p, u)' = OrdersIn(p, u)
    BY <1>1, SweepBooks, SameOrders
  <2>7. p = current.market => BeingCancelled(p)'
    BY <1>1 DEF BeingCancelled
  <2> QED BY <1>3, <2>1, <2>3, <2>4, <2>5, <2>6, <2>7 DEF DoneWith, NoneOpen
<1> QED BY <1>4, <1>7, SweepDoneForNext

LEMMA SweepDoneStep ==
  ASSUME EngineInv, EngineInv', SweepDoneInv, [EngineNext]_allVars
  PROVE  SweepDoneInv'
<1> SUFFICES ASSUME sweep' # None PROVE SweepDoneInv'
  BY DEF SweepDoneInv
<1>1. CASE sweep = None
  <2>1. PICK user \in Users : CancelAllOrders(user)
    BY <1>1, SweepBegins
  <2>2. /\ sweep' = [user |-> user, bases |-> DOMAIN marketsMap, base |-> None, queue |-> <<>>]
        /\ marketsMap' = marketsMap
    BY <2>1 DEF CancelAllOrders, indexVars
  <2>3. sweep'.bases = DOMAIN marketsMap /\ Existing' = Existing
    BY <2>2, ExistingKept
  <2>4. \A p \in Existing : p.base \in DOMAIN marketsMap
    BY ExistingPairs
  <2> QED BY <2>3, <2>4, SweepDoneForNext DEF DoneWith, Done
<1>2. CASE sweep # None
  <2>1. CASE UNCHANGED allVars
    <3>1. UNCHANGED <<limits, stops, userOrders, knownUsers, currentOrderId, currentTradeId, config,
                      ops, coin, base, wallets, markets, current, marketsMap, sweep, phase>>
      BY <2>1 DEF allVars, engineVars, storeVars, indexVars, vars, marketVars, bookVars, cacheVars,
                  idVars, walletVars
    <3>2. Existing' = Existing
      BY <3>1, ExistingKept
    <3>3. \A p : /\ MarketAt(p)' = MarketAt(p) /\ Done(p)' = Done(p)
                 /\ BeingCancelled(p)' = BeingCancelled(p)
      BY <3>1 DEF MarketAt, Window, Done, BeingCancelled
    <3>4. \A c : WalletAt(c)' = WalletAt(c)
      BY <3>1 DEF WalletAt
    <3>5. \A p, u : OrdersIn(p, u)' = OrdersIn(p, u)
      BY <3>3, SameOrders
    <3>6. ASSUME NEW p \in Existing PROVE DoneWith(p)'
      <4>1. DoneWith(p)
        BY <1>2, SweepDoneFor
      <4> QED BY <3>1, <3>3, <3>4, <3>5, <4>1 DEF DoneWith, NoneOpen
    <3> QED BY <3>2, <3>6, SweepDoneForNext
  <2>2. SweepUnknown \/ SweepDone => sweep' = None
    BY DEF SweepUnknown, SweepDone
  <2> QED BY <1>2, <2>1, <2>2, SweepingSteps, SweepHandlerDone, SweepFocusDone, SweepBaseDone,
             SweepMarketDone
<1> QED BY <1>1, <1>2

\* It ends well only when every market has been visited.
LEMMA SweepEnds ==
  ASSUME EngineInv, SweepDoneInv, [EngineNext]_allVars, sweep # None, sweep' = None, reply' = "ok"
  PROVE  \A p \in Existing :
           /\ OrdersIn(p, sweep.user) = NoneOpen
           /\ \A c \in {p.coin, p.base} : WalletAt(c)[sweep.user].inOrder = 0
<1>1. SweepDone
  <2>1. UNCHANGED allVars => sweep' = sweep
    BY DEF allVars, engineVars
  <2>2. HandlerStep => sweep' = sweep \/ reply' = "InvalidIdPrice"
    BY DEF HandlerStep
  <2>3. ASSUME NEW p, Focus(p) PROVE sweep' = sweep
    BY <2>3 DEF Focus
  <2>4. ASSUME NEW id, SweepBase(id) PROVE reply' # "ok"
    BY <2>4 DEF SweepBase
  <2>5. SweepMarket \/ SweepUnknown => reply' # "ok"
    BY DEF SweepMarket, SweepUnknown
  <2> QED BY <2>1, <2>2, <2>3, <2>4, <2>5, SweepingSteps
<1>2. phase = "idle" /\ sweep.queue = <<>> /\ sweep.bases = {}
  BY <1>1 DEF SweepDone, SweepStep
<1>3. ASSUME NEW p \in Existing
      PROVE  /\ OrdersIn(p, sweep.user) = NoneOpen
             /\ \A c \in {p.coin, p.base} : WalletAt(c)[sweep.user].inOrder = 0
  <2>1. DoneWith(p)
    BY SweepDoneFor
  <2>2. Done(p) /\ p.base \notin sweep.bases /\ ~BeingCancelled(p)
    BY <1>2 DEF Done, BeingCancelled
  <2> QED BY <2>1, <2>2 DEF DoneWith
<1> QED BY <1>3

\* When CancelAllOrders is answered with "ok" its user has no order left in any
\* market and nothing in order in any wallet of a market: no step after the release
\* of a wallet, or after the visit of a market, brings something back.
THEOREM NothingLeft == EngineSpec => CancelAllLeavesNothing
<1> DEFINE A ==
      sweep # None /\ sweep' = None /\ reply' = "ok" =>
        \A p \in Existing :
          /\ OrdersIn(p, sweep.user) = NoneOpen
          /\ \A c \in {p.coin, p.base} : WalletAt(c)[sweep.user].inOrder = 0
<1>1. EngineInit => SweepDoneInv
  BY DEF EngineInit, SweepDoneInv
<1>2. EngineInv /\ EngineInv' /\ SweepDoneInv /\ [EngineNext]_allVars => SweepDoneInv'
  BY SweepDoneStep
<1>3. EngineInv /\ SweepDoneInv /\ [EngineNext]_allVars => A
  BY SweepEnds
<1>4. CancelAllLeavesNothing <=> [][A]_allVars
  BY DEF CancelAllLeavesNothing
<1> HIDE DEF A
<1> QED BY <1>1, <1>2, <1>3, <1>4, EngineInvariance, PTL DEF EngineSpec

-----------------------------------------------------------------------------
(* Every market is a matching engine *)

\* The market in the window, as it is seen from outside.
LEMMA WindowBook ==
  ASSUME NEW p, p = current.market
  PROVE  BookOf(p) = LiveBook /\ SavedOf(p) = SavedBook /\ TakingOf(p) = TakingSide
BY DEF BookOf, SavedOf, TakingOf, SavedBook, TakingSide, InWindow

LEMMA WindowBookNext ==
  ASSUME NEW p, p = current'.market
  PROVE  BookOf(p)' = LiveBook' /\ SavedOf(p)' = SavedBook' /\ TakingOf(p)' = TakingSide'
BY DEF BookOf, SavedOf, TakingOf, SavedBook, TakingSide, InWindow

LEMMA OtherBook ==
  ASSUME NEW p, p # current.market
  PROVE  /\ BookOf(p) = IF p \in Existing THEN markets[p].limits ELSE NoOrders
         /\ SavedOf(p) = BookOf(p) /\ TakingOf(p) = "none"
BY DEF BookOf, SavedOf, TakingOf, InWindow

LEMMA OtherBookNext ==
  ASSUME NEW p, p # current'.market
  PROVE  /\ BookOf(p)' = IF p \in Existing' THEN markets'[p].limits ELSE NoOrders
         /\ SavedOf(p)' = BookOf(p)' /\ TakingOf(p)' = "none"
BY DEF BookOf, SavedOf, TakingOf, InWindow

\* Between messages the books are the committed ones.
LEMMA BookBetween ==
  CurrentInv /\ phase \in {"idle", "cancel"} =>
    \A p : /\ BookOf(p) = IF p \in Existing THEN MarketAt(p).limits ELSE NoOrders
           /\ SavedOf(p) = BookOf(p) /\ TakingOf(p) = "none"
<1> SUFFICES ASSUME CurrentInv, phase \in {"idle", "cancel"}, NEW p
             PROVE  /\ BookOf(p) = IF p \in Existing THEN MarketAt(p).limits ELSE NoOrders
                    /\ SavedOf(p) = BookOf(p) /\ TakingOf(p) = "none"
  OBVIOUS
<1>1. CASE p = current.market
  <2>1. LiveBook = limits /\ SavedBook = limits /\ TakingSide = "none"
    BY DEF LiveBook, SavedBook, TakingSide, Matching
  <2>2. p \in Existing /\ MarketAt(p).limits = limits
    BY <1>1, WindowFields DEF CurrentInv, MarketAt
  <2> QED BY <1>1, <2>1, <2>2, WindowBook
<1>2. CASE p # current.market
  BY <1>2, OtherBook DEF MarketAt
<1> QED BY <1>1, <1>2

LEMMA BookBetweenNext ==
  CurrentInv' /\ phase' \in {"idle", "cancel"} =>
    \A p : /\ BookOf(p)' = IF p \in Existing' THEN MarketAt(p)'.limits ELSE NoOrders
           /\ SavedOf(p)' = BookOf(p)' /\ TakingOf(p)' = "none"
<1>1. (CurrentInv /\ phase \in {"idle", "cancel"} =>
         \A p : /\ BookOf(p) = IF p \in Existing THEN MarketAt(p).limits ELSE NoOrders
                /\ SavedOf(p) = BookOf(p) /\ TakingOf(p) = "none")'
  BY BookBetween, PTL
<1>2. NoOrders' = NoOrders
  BY DEF NoOrders
<1> QED BY <1>1, <1>2

\* What the two abstract books have in common.
LEMMA BookOperators ==
  ASSUME NEW p
  PROVE  /\ MarketBook(p)!Sides = Abstract!Sides
         /\ \A s : MarketBook(p)!Opposite(s) = Abstract!Opposite(s)
         /\ \A s, x, y : MarketBook(p)!Reached(s, x, y) <=> Abstract!Reached(s, x, y)
         /\ \A s, b : MarketBook(p)!Sorted(s, b) <=> Abstract!Sorted(s, b)
         /\ \A b, i : MarketBook(p)!Without(b, i) = Abstract!Without(b, i)
BY DEF MarketBook!Sides, MarketBook!Opposite, MarketBook!Reached, MarketBook!Sorted,
       MarketBook!Without, Abstract!Sides, Abstract!Opposite, Abstract!Reached, Abstract!Sorted,
       Abstract!Without

\* A step of the market in the window is a step of its book.
LEMMA WindowMatches ==
  ASSUME WindowInv, [Next]_vars, NEW p, p = current.market, p = current'.market
  PROVE  MarketBook(p)!Next \/ UNCHANGED <<BookOf(p), SavedOf(p), TakingOf(p)>>
<1>1. [Abstract!Next]_<<LiveBook, SavedBook, TakingSide>>
  BY RefinementStep DEF WindowInv
<1>2. /\ BookOf(p) = LiveBook /\ SavedOf(p) = SavedBook /\ TakingOf(p) = TakingSide
      /\ BookOf(p)' = LiveBook' /\ SavedOf(p)' = SavedBook' /\ TakingOf(p)' = TakingSide'
  BY WindowBook, WindowBookNext
<1>3. CASE UNCHANGED <<LiveBook, SavedBook, TakingSide>>
  BY <1>2, <1>3
<1>4. CASE Abstract!Begin
  BY <1>2, <1>4, BookOperators DEF Abstract!Begin, MarketBook!Begin, MarketBook!Next
<1>5. CASE Abstract!Match
  <2> DEFINE k == Abstract!Opposite(TakingSide)
             Taken1(b, c) ==
               \/ c = [b EXCEPT ![k] = Tail(@)]
               \/ \E q \in 1 .. Head(b[k]).left - 1 : c = [b EXCEPT ![k][1].left = @ - q]
  <2>1. /\ TakingSide # "none" /\ LiveBook[k] # <<>> /\ UNCHANGED <<SavedBook, TakingSide>>
        /\ Taken1(LiveBook, LiveBook')
    BY <1>5 DEF Abstract!Match
  <2>2. MarketBook(p)!Opposite(TakingOf(p)) = k
    BY <1>2, BookOperators
  <2> HIDE DEF k
  <2>3. Taken1(BookOf(p), BookOf(p)')
    <3> HIDE DEF Taken1
    <3> QED BY <1>2, <2>1
  <2>4. MarketBook(p)!Match
    BY <1>2, <2>1, <2>2, <2>3 DEF MarketBook!Match
  <2> QED BY <2>4 DEF MarketBook!Next
<1>6. CASE Abstract!Rest
  <2> DEFINE k == Abstract!Opposite(TakingSide)
             t == TakingSide
             Rested(b, c, i) ==
               /\ c = [b EXCEPT ![t] = c[t]]
               /\ b[t] = Abstract!Without(c[t], i)
               /\ Abstract!Sorted(k, c[t])
               /\ i < Len(c[t]) => c[t][i + 1].price # c[t][i].price
               /\ b[k] # <<>> => ~Abstract!Reached(t, b[k][1].price, c[t][i].price)
  <2>1. /\ TakingSide # "none" /\ UNCHANGED <<SavedBook, TakingSide>>
        /\ \E i \in 1 .. Len(LiveBook'[t]) : Rested(LiveBook, LiveBook', i)
    BY <1>6 DEF Abstract!Rest
  <2>2. MarketBook(p)!Opposite(TakingOf(p)) = k /\ TakingOf(p) = t
    BY <1>2, BookOperators
  <2> HIDE DEF k, t
  <2>3. \E i \in 1 .. Len(BookOf(p)'[t]) : Rested(BookOf(p), BookOf(p)', i)
    <3> HIDE DEF Rested
    <3> QED BY <1>2, <2>1
  <2>4. PICK i \in 1 .. Len(BookOf(p)'[t]) : Rested(BookOf(p), BookOf(p)', i)
    BY <2>3
  <2>5. /\ BookOf(p)' = [BookOf(p) EXCEPT ![t] = BookOf(p)'[t]]
        /\ BookOf(p)[t] = MarketBook(p)!Without(BookOf(p)'[t], i)
        /\ MarketBook(p)!Sorted(k, BookOf(p)'[t])
        /\ i < Len(BookOf(p)'[t]) => BookOf(p)'[t][i + 1].price # BookOf(p)'[t][i].price
        /\ BookOf(p)[k] # <<>> =>
             ~MarketBook(p)!Reached(t, BookOf(p)[k][1].price, BookOf(p)'[t][i].price)
    <3> DEFINE b == BookOf(p)
               c == BookOf(p)'
    <3>1. Rested(b, c, i)
      BY <2>4
    <3>2. /\ c = [b EXCEPT ![t] = c[t]]
          /\ b[t] = Abstract!Without(c[t], i)
          /\ Abstract!Sorted(k, c[t])
          /\ i < Len(c[t]) => c[t][i + 1].price # c[t][i].price
          /\ b[k] # <<>> => ~Abstract!Reached(t, b[k][1].price, c[t][i].price)
      <4> HIDE DEF b, c
      <4> QED BY <3>1
    <3> HIDE DEF b, c
    <3>3. /\ MarketBook(p)!Without(c[t], i) = Abstract!Without(c[t], i)
          /\ MarketBook(p)!Sorted(k, c[t]) <=> Abstract!Sorted(k, c[t])
          /\ MarketBook(p)!Reached(t, b[k][1].price, c[t][i].price)
               <=> Abstract!Reached(t, b[k][1].price, c[t][i].price)
      BY BookOperators
    <3>4. /\ c = [b EXCEPT ![t] = c[t]]
          /\ b[t] = MarketBook(p)!Without(c[t], i)
          /\ MarketBook(p)!Sorted(k, c[t])
          /\ i < Len(c[t]) => c[t][i + 1].price # c[t][i].price
          /\ b[k] # <<>> => ~MarketBook(p)!Reached(t, b[k][1].price, c[t][i].price)
      BY ONLY <3>2, <3>3
    <3> QED BY ONLY <3>4 DEF b, c
  <2>6. TakingOf(p) # "none" /\ UNCHANGED <<SavedOf(p), TakingOf(p)>>
    <3>1. TakingSide # "none" /\ SavedBook' = SavedBook /\ TakingSide' = TakingSide
      BY <1>6 DEF Abstract!Rest
    <3> QED BY ONLY <1>2, <3>1
  <2>7. i \in 1 .. Len(BookOf(p)'[TakingOf(p)])
    BY <2>2, <2>4
  <2>8. MarketBook(p)!Rest
    BY ONLY <2>2, <2>5, <2>6, <2>7 DEF MarketBook!Rest
  <2> QED BY <2>8 DEF MarketBook!Next
<1>7. CASE Abstract!Commit
  BY <1>2, <1>7 DEF Abstract!Commit, MarketBook!Commit, MarketBook!Next
<1>8. CASE Abstract!Rollback
  BY <1>2, <1>8 DEF Abstract!Rollback, MarketBook!Rollback, MarketBook!Next
<1>9. CASE Abstract!Cancel
  BY <1>2, <1>9, BookOperators DEF Abstract!Cancel, MarketBook!Cancel, MarketBook!Next
<1> QED BY <1>1, <1>3, <1>4, <1>5, <1>6, <1>7, <1>8, <1>9 DEF Abstract!Next

\* The orders of the first market, and of those that do not exist.
LEMMA BooksInit ==
  EngineInit => \A p \in AllPairs : MarketBook(p)!Init
<1> SUFFICES ASSUME EngineInit, NEW p \in AllPairs PROVE MarketBook(p)!Init
  OBVIOUS
<1>1. limits = [s \in Sides |-> <<>>] /\ phase = "idle" /\ current.market = FirstPair
  BY DEF EngineInit, Init
<1>2. CASE p = FirstPair
  BY <1>1, <1>2, WindowBook
     DEF MarketBook!Init, MarketBook!Sides, LiveBook, SavedBook, TakingSide, Matching, Sides
<1>3. CASE p # FirstPair
  <2>1. p \notin Existing
    <3> SUFFICES ASSUME p \in Existing PROVE FALSE
      OBVIOUS
    <3>1. marketsMap = [id \in {FirstPair.base} |-> <<FirstPair.coin>>]
      BY DEF EngineInit
    <3>2. p.base = FirstPair.base /\ p.coin = FirstPair.coin
      BY <3>1, ExistingPairs
    <3>3. FirstPair \in AllPairs
      BY DEF AllPairs
    <3> QED BY <1>3, <3>2, <3>3, PairFields
  <2> QED BY <1>1, <1>3, <2>1, OtherBook DEF MarketBook!Init, NoOrders, MarketBook!Sides, Sides
<1> QED BY <1>2, <1>3

\* Markets whose committed orders stay as they are.
EveryBookKept == \A p \in AllPairs : UNCHANGED <<BookOf(p), SavedOf(p), TakingOf(p)>>

\* Steps between messages that add markets without orders.
LEMMA BetweenKeeps ==
  ASSUME EngineInv, EngineInv', phase \in {"idle", "cancel"}, phase' \in {"idle", "cancel"},
         NEW new \in SUBSET AllPairs, Existing' = Existing \cup new,
         \A p \in Existing : MarketAt(p)'.limits = MarketAt(p).limits,
         \A p \in new \ Existing : MarketAt(p)'.limits = NoOrders
  PROVE  EveryBookKept
<1>1. CurrentInv /\ CurrentInv'
  BY DEF EngineInv
<1>2. ASSUME NEW p \in AllPairs PROVE UNCHANGED <<BookOf(p), SavedOf(p), TakingOf(p)>>
  <2>1. /\ BookOf(p) = IF p \in Existing THEN MarketAt(p).limits ELSE NoOrders
        /\ SavedOf(p) = BookOf(p) /\ TakingOf(p) = "none"
    BY <1>1, BookBetween
  <2>2. /\ BookOf(p)' = IF p \in Existing' THEN MarketAt(p)'.limits ELSE NoOrders
        /\ SavedOf(p)' = BookOf(p)' /\ TakingOf(p)' = "none"
    BY <1>1, BookBetweenNext
  <2>3. BookOf(p)' = BookOf(p)
    BY <2>1, <2>2
  <2> QED BY ONLY <2>1, <2>2, <2>3
<1> QED BY <1>2 DEF EveryBookKept

\* A step of a handler, or a message, on the market in the window.
LEMMA OnMarketMatches ==
  ASSUME EngineInv, [Next]_vars, OnMarket, NEW p \in AllPairs
  PROVE  MarketBook(p)!Next \/ UNCHANGED <<BookOf(p), SavedOf(p), TakingOf(p)>>
<1>1. UNCHANGED <<marketsMap, markets, current>>
  BY DEF OnMarket, indexVars, storeVars
<1>2. CASE p = current.market
  BY <1>1, <1>2, WindowMatches DEF EngineInv
<1>3. CASE p # current.market
  <2>1. p # current'.market /\ Existing' = Existing
    BY <1>1, <1>3, ExistingKept
  <2>2. /\ BookOf(p) = IF p \in Existing THEN markets[p].limits ELSE NoOrders
        /\ SavedOf(p) = BookOf(p) /\ TakingOf(p) = "none"
    BY <1>3, OtherBook
  <2>3. /\ BookOf(p)' = IF p \in Existing THEN markets[p].limits ELSE NoOrders
        /\ SavedOf(p)' = BookOf(p)' /\ TakingOf(p)' = "none"
    BY <1>1, <2>1, OtherBookNext
  <2> QED BY ONLY <2>2, <2>3
<1> QED BY <1>2, <1>3

\* The window's market of a message that is about no order.
LEMMA MarketsSame ==
  ASSUME UNCHANGED <<limits, markets, current>>, NEW p
  PROVE  MarketAt(p)'.limits = MarketAt(p).limits
<1>1. CASE p = current.market
  BY <1>1, WindowFields, WindowFieldsNext DEF MarketAt
<1>2. CASE p # current.market
  BY <1>2 DEF MarketAt
<1> QED BY <1>1, <1>2

\* A new market has no order, and the others keep theirs.
LEMMA NewMarketBooks ==
  ASSUME EngineInv, EngineInv', NEW p \in CoinPairs, NEW settings, NewMarket(p, settings)
  PROVE  EveryBookKept
<1>1. /\ phase = "idle" /\ phase' = "idle"
      /\ markets' = [markets EXCEPT ![p] = NewMarketState(settings)]
      /\ UNCHANGED <<limits, current>>
  BY DEF NewMarket, EngineMessage, EngineIdle, bookVars
<1>2. p \in AllPairs
  BY DEF AllPairs
<1>3. p \notin Existing
  BY NewMarketIsNew
<1>4. Existing' = Existing \cup {p}
  BY NewMarketExists
<1>5. p # current.market /\ current.market \in Existing
  BY <1>3 DEF EngineInv, CurrentInv
<1>6. markets = [q \in AllPairs |-> markets[q]]
  BY DEF EngineInv, StoredInv
<1>7. ASSUME NEW q \in Existing PROVE MarketAt(q)'.limits = MarketAt(q).limits
  <2>1. CASE q = current.market
    BY <1>1, <2>1, WindowFields, WindowFieldsNext DEF MarketAt
  <2>2. CASE q # current.market
    <3>1. markets'[q] = markets[q]
      BY <1>1, <1>3, <1>6, ExistingPairs
    <3> QED BY <1>1, <2>2, <3>1 DEF MarketAt
  <2> QED BY <2>1, <2>2
<1>8. MarketAt(p)'.limits = NoOrders
  <2>1. markets'[p] = NewMarketState(settings)
    BY <1>1, <1>2, <1>6
  <2>2. MarketAt(p)' = NewMarketState(settings)
    BY <1>1, <1>5, <2>1 DEF MarketAt
  <2> QED BY <2>2 DEF NewMarketState
<1>9. {p} \in SUBSET AllPairs
  BY <1>2
<1> QED BY <1>1, <1>4, <1>7, <1>8, <1>9, BetweenKeeps

\* Settings are no orders.
LEMMA ConfigBooks ==
  ASSUME EngineInv, EngineInv', NEW field, NEW value, SetAllConfigs(field, value),
         field \in {"feeDivision", "limitCap", "stopCap"}
  PROVE  EveryBookKept
<1>1. /\ phase = "idle" /\ phase' = "idle" /\ UNCHANGED <<limits, current, marketsMap>>
      /\ markets' = [p \in AllPairs |-> IF p \in Existing \ {current.market}
                                         THEN [markets[p] EXCEPT !.config[field] = value]
                                         ELSE markets[p]]
  BY DEF SetAllConfigs, EngineIdle, bookVars, indexVars
<1>2. ASSUME NEW q \in Existing PROVE MarketAt(q)'.limits = MarketAt(q).limits
  <2>1. CASE q = current.market
    BY <1>1, <2>1, WindowFields, WindowFieldsNext DEF MarketAt
  <2>2. CASE q # current.market
    <3> DEFINE m == markets[q]
    <3>1. markets'[q] = [m EXCEPT !.config[field] = value]
      BY <1>1, <2>2, ExistingPairs
    <3>2. MarketOK(m)
      BY <2>2 DEF EngineInv, StoredInv
    <3> HIDE DEF m
    <3>3. [m EXCEPT !.config[field] = value].limits = m.limits
      BY <3>2 DEF MarketOK, StoredFields
    <3>4. MarketAt(q)' = markets'[q] /\ MarketAt(q) = m
      BY <1>1, <2>2 DEF MarketAt, m
    <3> QED BY <3>1, <3>3, <3>4
  <2> QED BY <2>1, <2>2
<1>3. Existing' = Existing \cup {}
  BY <1>1, ExistingKept
<1>4. {} \in SUBSET AllPairs
  OBVIOUS
<1> QED BY <1>1, <1>2, <1>3, <1>4, BetweenKeeps

\* Every market is cleared at once: in each of them all orders are cancelled.
LEMMA ClearAllBooks ==
  ASSUME EngineInv, EngineInv', ClearAllEveryonesOpenOrders, NEW p \in AllPairs
  PROVE  MarketBook(p)!Next \/ UNCHANGED <<BookOf(p), SavedOf(p), TakingOf(p)>>
<1>1. /\ phase = "idle" /\ phase' = "idle" /\ UNCHANGED <<current, marketsMap>>
      /\ limits' = NoOrders
      /\ markets' = [q \in AllPairs |->
                   IF q \in Existing \ {current.market}
                     THEN [markets[q] EXCEPT !.limits = NoOrders, !.stops = NoOrders,
                                             !.userOrders = {}, !.knownUsers = {}]
                     ELSE markets[q]]
  BY DEF ClearAllEveryonesOpenOrders, EngineIdle, indexVars
<1>2. Existing' = Existing /\ CurrentInv /\ CurrentInv'
  BY <1>1, ExistingKept DEF EngineInv
<1>3. /\ BookOf(p) = IF p \in Existing THEN MarketAt(p).limits ELSE NoOrders
      /\ SavedOf(p) = BookOf(p) /\ TakingOf(p) = "none"
  BY <1>1, <1>2, BookBetween
<1>4. /\ BookOf(p)' = IF p \in Existing THEN MarketAt(p)'.limits ELSE NoOrders
      /\ SavedOf(p)' = BookOf(p)' /\ TakingOf(p)' = "none"
  BY <1>1, <1>2, BookBetweenNext
<1>5. CASE p \in Existing
  <2>1. MarketAt(p)'.limits = NoOrders
    <3>1. CASE p = current.market
      BY <1>1, <3>1, WindowFieldsNext DEF MarketAt
    <3>2. CASE p # current.market
      <4>1. markets'[p] = Cleared(markets[p])
        BY <1>1, <1>5, <3>2 DEF Cleared
      <4>2. Cleared(markets[p]).limits = NoOrders
        BY <1>5, <3>2, OrdersCleared DEF EngineInv, StoredInv
      <4> QED BY <1>1, <3>2, <4>1, <4>2 DEF MarketAt
    <3> QED BY <3>1, <3>2
  <2>2. BookOf(p)' = [s \in MarketBook(p)!Sides |-> <<>>]
    <3>1. BookOf(p)' = NoOrders
      BY <1>4, <1>5, <2>1
    <3> QED BY <3>1 DEF NoOrders, MarketBook!Sides, Sides
  <2>3. MarketBook(p)!Cancel
    BY ONLY <1>3, <1>4, <2>2 DEF MarketBook!Cancel
  <2> QED BY <2>3 DEF MarketBook!Next
<1>6. CASE p \notin Existing
  BY ONLY <1>3, <1>4, <1>6
<1> QED BY <1>5, <1>6

\* Every other step of the engine leaves the books as they are.
LEMMA QuietSteps ==
  ASSUME EngineInv, EngineInv', phase = "idle", phase' \in {"idle", "cancel"},
         UNCHANGED <<limits, markets, current, marketsMap>>
  PROVE  EveryBookKept
<1>1. \A p \in Existing : MarketAt(p)'.limits = MarketAt(p).limits
  BY MarketsSame
<1>2. Existing' = Existing \cup {} /\ {} \in SUBSET AllPairs
  BY ExistingKept
<1> QED BY <1>1, <1>2, BetweenKeeps

LEMMA FocusBooks ==
  ASSUME EngineInv, EngineInv', NEW p \in Existing, Focus(p)
  PROVE  EveryBookKept
<1>1. phase = "idle" /\ phase' = "idle" /\ UNCHANGED marketsMap
  BY FocusFinds
<1>2. \A q \in Existing : MarketAt(q)'.limits = MarketAt(q).limits
  BY FocusMoves
<1>3. Existing' = Existing \cup {} /\ {} \in SUBSET AllPairs
  BY <1>1, ExistingKept
<1> QED BY <1>1, <1>2, <1>3, BetweenKeeps

LEMMA EveryStepMatches ==
  ASSUME EngineInv, EngineInv', [EngineNext]_allVars, NEW p \in AllPairs
  PROVE  MarketBook(p)!Next \/ UNCHANGED <<BookOf(p), SavedOf(p), TakingOf(p)>>
<1> DEFINE Step == MarketBook(p)!Next \/ UNCHANGED <<BookOf(p), SavedOf(p), TakingOf(p)>>
<1> SUFFICES Step
  OBVIOUS
<1>1. EveryBookKept => Step
  BY DEF EveryBookKept
<1> HIDE DEF Step
<1>2. ASSUME [Next]_vars, OnMarket PROVE Step
  BY <1>2, OnMarketMatches DEF Step
<1>3. CASE UNCHANGED allVars
  <2>1. UNCHANGED vars /\ OnMarket
    BY <1>3 DEF allVars, engineVars, OnMarket
  <2> QED BY <1>2, <2>1
<1>4. CASE EngineProcessing
  <2>1. ASSUME NEW q \in Existing, Focus(q) PROVE Step
    BY <1>1, <2>1, FocusBooks
  <2>2. HandlerStep => Step
    BY <1>2 DEF HandlerStep, Next
  <2>3. ASSUME SweepStep, phase' \in {"idle", "cancel"} PROVE Step
    <3>1. phase = "idle" /\ UNCHANGED <<limits, markets, current, marketsMap>>
      BY <2>3 DEF SweepStep, bookVars, indexVars
    <3> QED BY <1>1, <2>3, <3>1, QuietSteps
  <2>4. ASSUME NEW id \in DOMAIN marketsMap, SweepBase(id) PROVE Step
    <3>1. SweepStep /\ phase' = phase /\ phase = "idle"
      BY <2>4 DEF SweepBase, SweepStep
    <3> QED BY <2>3, <3>1
  <2>5. CASE SweepMarket \/ SweepUnknown \/ SweepDone
    <3>1. SweepStep /\ phase' \in {"idle", "cancel"}
      BY <2>5 DEF SweepMarket, SweepUnknown, SweepDone, SweepStep
    <3> QED BY <2>3, <3>1
  <2> QED BY <1>4, <2>1, <2>2, <2>4, <2>5 DEF EngineProcessing
<1>5. CASE EngineReceive
  <2>1. MarketMessage => Step
    <3> SUFFICES ASSUME MarketMessage PROVE Step
      OBVIOUS
    <3>1. Next /\ OnMarket
      BY DEF MarketMessage, Next, Receive
    <3> QED BY <1>2, <3>1
  <2>2. ASSUME NEW q \in Existing, Focus(q) PROVE Step
    BY <1>1, <2>2, FocusBooks
  <2>3. ASSUME NEW answer, EngineMessage(answer), UNCHANGED <<markets, current, marketsMap>>
        PROVE  Step
    <3>1. phase = "idle" /\ phase' = "idle" /\ UNCHANGED limits
      BY <2>3 DEF EngineMessage, EngineIdle, bookVars
    <3> QED BY <1>1, <2>3, <3>1, QuietSteps
  <2>4. ASSUME NEW id \in CoinIds, RejectNewCoin(id) \/ NewCoin(id) PROVE Step
    BY <2>3, <2>4 DEF RejectNewCoin, NewCoin, engineVars, indexVars, storeVars
  <2>5. ASSUME NEW q \in CoinPairs,
               RejectNewMarket(q) \/ \E settings \in MarketConfig : NewMarket(q, settings)
        PROVE  Step
    <3>1. CASE RejectNewMarket(q)
      BY <2>3, <3>1 DEF RejectNewMarket, engineVars, indexVars, storeVars
    <3>2. ASSUME NEW settings \in MarketConfig, NewMarket(q, settings) PROVE Step
      BY <1>1, <3>2, NewMarketBooks
    <3> QED BY <2>5, <3>1, <3>2
  <2>6. ASSUME NEW t \in Transfers, ReceiveTransfer(t) PROVE Step
    BY <2>3, <2>6 DEF ReceiveTransfer, indexVars
  <2>7. ASSUME NEW user \in Users, CancelAllOrders(user) PROVE Step
    BY <2>3, <2>7 DEF CancelAllOrders, indexVars, storeVars
  <2>8. ASSUME NEW field \in {"feeDivision", "limitCap", "stopCap"}, NEW value,
               SetAllConfigs(field, value)
        PROVE  Step
    BY <1>1, <2>8, ConfigBooks
  <2>9. ClearAllEveryonesOpenOrders => Step
    BY ClearAllBooks DEF Step
  <2> QED BY <1>5, <2>1, <2>2, <2>4, <2>5, <2>6, <2>7, <2>8, <2>9 DEF EngineReceive
<1> QED BY <1>3, <1>4, <1>5 DEF EngineNext

\* Every market of the engine is a matching engine with price-time priority of its
\* own, whatever happens in the others, however the window moves between them and
\* in whatever order they are created.
THEOREM MarketsMatch == EngineSpec => EveryMarketMatches
<1> DEFINE A == \A p \in AllPairs :
                  MarketBook(p)!Next \/ UNCHANGED <<BookOf(p), MarketBook(p)!bookVars>>
           I == \A p \in AllPairs : MarketBook(p)!Init
<1>1. EngineInv /\ EngineInv' /\ [EngineNext]_allVars => A
  BY EveryStepMatches DEF MarketBook!bookVars
<1>2. EngineInit => I
  BY BooksInit
<1>3. EveryMarketMatches <=> I /\ [][A]_allVars
  BY DEF EveryMarketMatches
<1> HIDE DEF A, I
<1> QED BY <1>1, <1>2, <1>3, EngineInvariance, PTL DEF EngineSpec

-----------------------------------------------------------------------------
(* Coin that is offered in several markets *)

\* What a user offers of a coin in one market.
Offered(c, u, p) == IF p \in Existing /\ p.coin = c THEN SellsIn(p, u) ELSE 0

Traded == {p.coin : p \in Existing}
Bases == {p.base : p \in Existing}

\* The books of all markets are sequences of orders.
LEMMA MarketBooks ==
  ASSUME NEW p \in Existing
  PROVE  EngineInv =>
           MarketAt(p).limits \in [Sides -> Seq(Order)] /\ MarketAt(p).stops \in [Sides -> Seq(Order)]
<1> SUFFICES ASSUME EngineInv
             PROVE  /\ MarketAt(p).limits \in [Sides -> Seq(Order)]
                    /\ MarketAt(p).stops \in [Sides -> Seq(Order)]
  OBVIOUS
<1>1. CASE p = current.market
  <2>1. limits \in [Sides -> Seq(Order)] /\ stops \in [Sides -> Seq(Order)]
    BY DEF EngineInv, WindowInv, IInv, TypeOK, MarketTypeOK
  <2> QED BY <1>1, <2>1, WindowFields DEF MarketAt
<1>2. CASE p # current.market
  <2>1. MarketOK(markets[p])
    BY <1>2 DEF EngineInv, StoredInv
  <2> QED BY <1>2, <2>1 DEF MarketAt, MarketOK, StoredOrders
<1> QED BY <1>1, <1>2

\* What a user offers is what the user's orders offer.
LEMMA SellsOwned ==
  ASSUME NEW u
  PROVE  EngineInv =>
           \A p \in Existing :
             /\ SellsIn(p, u) \in Nat
             /\ SellsIn(p, u) = QuantityOf(u, OrdersIn(p, u)["Sell"][1])
                                  + QuantityOf(u, OrdersIn(p, u)["Sell"][2])
<1> SUFFICES ASSUME EngineInv, NEW p \in Existing
             PROVE  /\ SellsIn(p, u) \in Nat
                    /\ SellsIn(p, u) = QuantityOf(u, OrdersIn(p, u)["Sell"][1])
                                         + QuantityOf(u, OrdersIn(p, u)["Sell"][2])
  OBVIOUS
<1> DEFINE limit == MarketAt(p).limits["Sell"]
           stop == MarketAt(p).stops["Sell"]
<1>1. limit \in Seq(Order) /\ stop \in Seq(Order) /\ \A o \in Order : o.left \in Nat
  BY MarketBooks DEF Sides, Order
<1>2. /\ OrdersIn(p, u)["Sell"][1] = OwnedBy(u, limit)
      /\ OrdersIn(p, u)["Sell"][2] = OwnedBy(u, stop)
  BY DEF OrdersIn, Sides
<1>3. SellsIn(p, u) = QuantityOf(u, limit) + QuantityOf(u, stop)
  BY DEF SellsIn
<1> HIDE DEF limit, stop
<1>4. QuantityOf(u, limit) \in Nat /\ QuantityOf(u, stop) \in Nat
  BY <1>1, QuantityType
<1>5. /\ QuantityOf(u, limit) = QuantityOf(u, OwnedBy(u, limit))
      /\ QuantityOf(u, stop) = QuantityOf(u, OwnedBy(u, stop))
  BY <1>1, QuantityOwned
<1> QED BY <1>2, <1>3, <1>4, <1>5

LEMMA SellsOwnedNext ==
  ASSUME NEW u, EngineInv'
  PROVE  \A p \in Existing' :
           /\ SellsIn(p, u)' \in Nat
           /\ SellsIn(p, u)' = QuantityOf(u, OrdersIn(p, u)'["Sell"][1])
                                 + QuantityOf(u, OrdersIn(p, u)'["Sell"][2])
<1>1. (EngineInv =>
         \A p \in Existing :
           /\ SellsIn(p, u) \in Nat
           /\ SellsIn(p, u) = QuantityOf(u, OrdersIn(p, u)["Sell"][1])
                                + QuantityOf(u, OrdersIn(p, u)["Sell"][2]))'
  BY SellsOwned, PTL
<1> QED BY <1>1

\* What is offered is a number, and so is what is held for it.
LEMMA OfferedTypes ==
  ASSUME NEW c, NEW u
  PROVE  EngineInv =>
           /\ \A p \in AllPairs : Offered(c, u, p) \in Nat
           /\ [p \in AllPairs |-> Offered(c, u, p)] \in [AllPairs -> Int]
           /\ HeldInMarkets(c, u, Existing) = TotalOver(AllPairs, [p \in AllPairs |-> Offered(c, u, p)])
           /\ HeldInMarkets(c, u, Existing) \in Int
           /\ (\A p \in AllPairs : Offered(c, u, p) = 0) => HeldInMarkets(c, u, Existing) = 0
<1> DEFINE f == [p \in AllPairs |-> Offered(c, u, p)]
<1> SUFFICES ASSUME EngineInv
             PROVE  /\ \A p \in AllPairs : Offered(c, u, p) \in Nat
                    /\ f \in [AllPairs -> Int]
                    /\ HeldInMarkets(c, u, Existing) = TotalOver(AllPairs, f)
                    /\ HeldInMarkets(c, u, Existing) \in Int
                    /\ (\A p \in AllPairs : Offered(c, u, p) = 0)
                         => HeldInMarkets(c, u, Existing) = 0
  OBVIOUS
<1>1. \A p \in AllPairs : Offered(c, u, p) \in Nat
  BY SellsOwned DEF Offered
<1>2. HeldInMarkets(c, u, Existing) = TotalOver(AllPairs, f)
  BY DEF HeldInMarkets, Offered
<1>3. IsFiniteSet(AllPairs)
  BY PairsAssumption, FS_AddElement DEF AllPairs
<1>4. f \in [AllPairs -> Int]
  BY <1>1
<1>5. \A p \in AllPairs : f[p] = Offered(c, u, p)
  OBVIOUS
<1> HIDE DEF f
<1>6. TotalOver(AllPairs, f) \in Int /\ ((\A p \in AllPairs : f[p] = 0) => TotalOver(AllPairs, f) = 0)
  BY <1>3, <1>4, TotalOverType, TotalOverZero
<1> QED BY <1>1, <1>2, <1>4, <1>5, <1>6

LEMMA OfferedTypesNext ==
  ASSUME NEW c, NEW u, EngineInv'
  PROVE  /\ \A p \in AllPairs : Offered(c, u, p)' \in Nat
         /\ [p \in AllPairs |-> Offered(c, u, p)'] \in [AllPairs -> Int]
         /\ HeldInMarkets(c, u, Existing)' = TotalOver(AllPairs, [p \in AllPairs |-> Offered(c, u, p)'])
         /\ HeldInMarkets(c, u, Existing)' \in Int
         /\ (\A p \in AllPairs : Offered(c, u, p)' = 0) => HeldInMarkets(c, u, Existing)' = 0
<1>1. (EngineInv =>
         /\ \A p \in AllPairs : Offered(c, u, p) \in Nat
         /\ [p \in AllPairs |-> Offered(c, u, p)] \in [AllPairs -> Int]
         /\ HeldInMarkets(c, u, Existing) = TotalOver(AllPairs, [p \in AllPairs |-> Offered(c, u, p)])
         /\ HeldInMarkets(c, u, Existing) \in Int
         /\ (\A p \in AllPairs : Offered(c, u, p) = 0) => HeldInMarkets(c, u, Existing) = 0)'
  BY OfferedTypes, PTL
<1> QED BY <1>1

\* Where everyone's offers stay the same, so does what is held for them.
LEMMA HeldSame ==
  ASSUME EngineInv, EngineInv', NEW c, NEW u,
         \A p \in AllPairs : Offered(c, u, p)' = Offered(c, u, p)
  PROVE  HeldInMarkets(c, u, Existing)' = HeldInMarkets(c, u, Existing)
<1>1. [p \in AllPairs |-> Offered(c, u, p)'] = [p \in AllPairs |-> Offered(c, u, p)]
  OBVIOUS
<1> QED BY <1>1, OfferedTypes, OfferedTypesNext

\* Where one market's offers change, what is held changes by as much.
LEMMA HeldChanged ==
  ASSUME EngineInv, EngineInv', NEW c, NEW u, NEW q \in AllPairs,
         \A p \in AllPairs : p # q => Offered(c, u, p)' = Offered(c, u, p)
  PROVE  HeldInMarkets(c, u, Existing)'
           = HeldInMarkets(c, u, Existing) + Offered(c, u, q)' - Offered(c, u, q)
<1> DEFINE f == [p \in AllPairs |-> Offered(c, u, p)]
           g == [p \in AllPairs |-> Offered(c, u, p)']
<1>1. /\ f \in [AllPairs -> Int] /\ HeldInMarkets(c, u, Existing) = TotalOver(AllPairs, f)
      /\ g \in [AllPairs -> Int] /\ HeldInMarkets(c, u, Existing)' = TotalOver(AllPairs, g)
  BY OfferedTypes, OfferedTypesNext
<1>2. IsFiniteSet(AllPairs)
  BY PairsAssumption, FS_AddElement DEF AllPairs
<1>3. /\ f[q] = Offered(c, u, q) /\ g[q] = Offered(c, u, q)'
      /\ \A p \in AllPairs : p # q => g[p] = f[p]
  OBVIOUS
<1> HIDE DEF f, g
<1>4. TotalOver(AllPairs, g) = TotalOver(AllPairs, f) + g[q] - f[q]
  BY <1>1, <1>2, <1>3, TotalOverChanged
<1> QED BY <1>1, <1>3, <1>4

\* The same orders are the same offers.
LEMMA OfferedSame ==
  ASSUME EngineInv, EngineInv', NEW c, NEW u, Existing' = Existing,
         NEW p, p \in Existing => OrdersIn(p, u)' = OrdersIn(p, u)
  PROVE  Offered(c, u, p)' = Offered(c, u, p)
<1>1. CASE p \in Existing
  <2>1. SellsIn(p, u)' = SellsIn(p, u)
    BY <1>1, SellsOwned, SellsOwnedNext
  <2> QED BY <1>1, <2>1 DEF Offered
<1>2. CASE p \notin Existing
  BY <1>2 DEF Offered
<1> QED BY <1>1, <1>2

\* No orders offer nothing.
LEMMA OfferedNone ==
  ASSUME EngineInv, NEW c, NEW u, NEW p, p \in Existing => OrdersIn(p, u) = NoneOpen
  PROVE  Offered(c, u, p) = 0
<1>1. CASE p \in Existing
  <2>1. OrdersIn(p, u)["Sell"][1] = <<>> /\ OrdersIn(p, u)["Sell"][2] = <<>>
    BY <1>1 DEF NoneOpen, Sides
  <2>2. SellsIn(p, u) = 0
    BY <1>1, <2>1, SellsOwned, QuantityEmpty
  <2> QED BY <2>2 DEF Offered
<1>2. CASE p \notin Existing
  BY <1>2 DEF Offered
<1> QED BY <1>1, <1>2

\* Nobody holds a coin for markets that do not sell it.
LEMMA NotTraded ==
  ASSUME NEW c, NEW u
  PROVE  EngineInv /\ c \notin Traded => HeldInMarkets(c, u, Existing) = 0
<1> SUFFICES ASSUME EngineInv, c \notin Traded PROVE HeldInMarkets(c, u, Existing) = 0
  OBVIOUS
<1>1. \A p \in AllPairs : Offered(c, u, p) = 0
  BY DEF Offered, Traded
<1> QED BY <1>1, OfferedTypes

LEMMA NotTradedNext ==
  ASSUME NEW c, NEW u, EngineInv', c \notin Traded'
  PROVE  HeldInMarkets(c, u, Existing)' = 0
<1>1. (EngineInv /\ c \notin Traded => HeldInMarkets(c, u, Existing) = 0)'
  BY NotTraded, PTL
<1> QED BY <1>1

-----------------------------------------------------------------------------
(* What is in order, and what is held for it *)

\* What a user has in order of a coin is what is held in its markets, and what a
\* message at work is moving.
HeldRight(c, u) ==
  WalletAt(c)[u].inOrder
    = HeldInMarkets(c, u, Existing) + (IF c = current.coin THEN Moving(u) ELSE 0)

\* It is for every coin no market pays with: for one no market sells, too, whose
\* balances may be the ones of a market to come.  CancelAllOrders releases the
\* wallets of its user before it cancels the orders.
Spared(c, u) == sweep # None /\ u = sweep.user => c \notin Traded

HeldInv ==
  /\ phase = "cancel" => sweep # None /\ reply = "none"
  /\ \A c \in Coins \ Bases, u \in Users \ adjusted : Spared(c, u) => HeldRight(c, u)

\* Between messages nothing is moving.
LEMMA StillHeld ==
  ASSUME NEW c, NEW u, phase \in {"idle", "cancel"}
  PROVE  HeldRight(c, u) <=> WalletAt(c)[u].inOrder = HeldInMarkets(c, u, Existing) + 0
BY DEF HeldRight, Moving

LEMMA StillHeldNext ==
  ASSUME NEW c, NEW u, phase' \in {"idle", "cancel"}
  PROVE  HeldRight(c, u)' <=> WalletAt(c)'[u].inOrder = HeldInMarkets(c, u, Existing)' + 0
BY DEF HeldRight, Moving

\* A step of the engine that leaves a user's orders and what is in order alone.
LEMMA StaysHeld ==
  ASSUME EngineInv, EngineInv', phase \in {"idle", "cancel"}, phase' \in {"idle", "cancel"},
         NEW c, NEW u, Existing' = Existing,
         \A p \in Existing : OrdersIn(p, u)' = OrdersIn(p, u),
         WalletAt(c)'[u].inOrder = WalletAt(c)[u].inOrder, HeldRight(c, u)
  PROVE  HeldRight(c, u)'
<1>1. \A p \in AllPairs : Offered(c, u, p)' = Offered(c, u, p)
  BY OfferedSame
<1>2. HeldInMarkets(c, u, Existing)' = HeldInMarkets(c, u, Existing)
  BY <1>1, HeldSame
<1> QED BY <1>2, StillHeld, StillHeldNext

\* A step that leaves nothing in order of a coin nobody offers any more.
LEMMA NothingHeld ==
  ASSUME EngineInv', phase' \in {"idle", "cancel"}, NEW c, NEW u,
         \A p \in AllPairs : Offered(c, u, p)' = 0, WalletAt(c)'[u].inOrder = 0
  PROVE  HeldRight(c, u)'
<1>1. HeldInMarkets(c, u, Existing)' = 0
  BY OfferedTypesNext
<1> QED BY <1>1, StillHeldNext

\* A coin no market sells: nothing is in order before and after.
LEMMA NotTradedHeld ==
  ASSUME EngineInv, EngineInv', NEW c, NEW u, c \notin Traded, c \notin Traded',
         phase \in {"idle", "cancel"}, phase' \in {"idle", "cancel"},
         WalletAt(c)'[u].inOrder \in {WalletAt(c)[u].inOrder, 0}, HeldRight(c, u)
  PROVE  HeldRight(c, u)'
<1>1. HeldInMarkets(c, u, Existing) = 0 /\ HeldInMarkets(c, u, Existing)' = 0
  BY NotTraded, NotTradedNext
<1> QED BY <1>1, StillHeld, StillHeldNext

\* What the steps of a message in one market change in its coin wallet is what they
\* change in its books.
LEMMA WindowHeld ==
  ASSUME WindowInv, WindowInv', [Next]_vars, phase # "cancel",
         "ClearOpenOrders" \notin Requests, ~ClearEveryonesOpenOrders, NEW u \in Users
  PROVE  /\ coin'[u].inOrder - OpenSells(u)' - Moving(u)'
              = coin[u].inOrder - OpenSells(u) - Moving(u)
         /\ coin[u].inOrder \in Int /\ OpenSells(u) \in Int /\ Moving(u) \in Int
         /\ coin'[u].inOrder \in Int /\ OpenSells(u)' \in Int /\ Moving(u)' \in Int
<1>1. \A v \in Users : coin[v].inOrder \in Int /\ OpenSells(v) \in Int /\ Moving(v) \in Int
  BY EscrowTypes DEF WindowInv
<1>2. (IInv => coin[u].inOrder \in Int /\ OpenSells(u) \in Int /\ Moving(u) \in Int)'
  BY EscrowTypes, PTL
<1>3. coin'[u].inOrder \in Int /\ OpenSells(u)' \in Int /\ Moving(u)' \in Int
  BY <1>2 DEF WindowInv
<1>4. PICK others \in [Users -> Int] :
        \A v \in Users : others[v] = coin[v].inOrder - OpenSells(v) - Moving(v)
  <2> DEFINE rest == [v \in Users |-> coin[v].inOrder - OpenSells(v) - Moving(v)]
  <2>1. rest \in [Users -> Int]
    BY <1>1
  <2>2. \A v \in Users : rest[v] = coin[v].inOrder - OpenSells(v) - Moving(v)
    OBVIOUS
  <2> HIDE DEF rest
  <2> QED BY <2>1, <2>2
<1>5. HeldFor(others)
  BY <1>1, <1>4 DEF HeldFor
<1>6. HeldFor(others)'
  BY <1>5, HeldForStep DEF WindowInv
<1>7. coin'[u].inOrder = OpenSells(u)' + Moving(u)' + others[u]
  BY <1>6 DEF HeldFor
<1> QED BY <1>1, <1>3, <1>4, <1>7

-----------------------------------------------------------------------------
(* What is held through the steps of a message in one market *)

LEMMA MarketStepHeld ==
  ASSUME EngineInv, EngineInv', [Next]_vars, OnMarket, phase # "cancel",
         "ClearOpenOrders" \notin Requests, ~ClearEveryonesOpenOrders,
         NEW c \in Coins \ Bases, NEW u \in Users, HeldRight(c, u)
  PROVE  HeldRight(c, u)'
<1>0. PICK q : q = current.market
  OBVIOUS
<1>1. UNCHANGED <<marketsMap, markets, wallets, current>> /\ Existing' = Existing
  BY ExistingKept DEF OnMarket, indexVars, storeVars
<1>2. /\ q \in Existing /\ q \in AllPairs /\ current.coin = q.coin /\ current.base = q.base
      /\ current.coin # current.base /\ c # current.base
  BY <1>0, ExistingPairs, WindowWallets DEF EngineInv, CurrentInv, Bases
<1>3. WindowInv /\ WindowInv'
  BY DEF EngineInv
<1>4. \A p \in AllPairs : p # q => Offered(c, u, p)' = Offered(c, u, p)
  <2>1. ASSUME NEW p \in AllPairs, p # q PROVE Offered(c, u, p)' = Offered(c, u, p)
    <3>1. MarketAt(p)' = MarketAt(p)
      BY <1>0, <1>1, <2>1 DEF MarketAt
    <3>2. OrdersIn(p, u)' = OrdersIn(p, u)
      BY <3>1, SameOrders
    <3> QED BY <1>1, <3>2, OfferedSame
  <2> QED BY <2>1
<1>5. HeldInMarkets(c, u, Existing)'
        = HeldInMarkets(c, u, Existing) + Offered(c, u, q)' - Offered(c, u, q)
  BY <1>2, <1>4, HeldChanged
<1>6. /\ HeldInMarkets(c, u, Existing) \in Int /\ HeldInMarkets(c, u, Existing)' \in Int
      /\ Offered(c, u, q) \in Int /\ Offered(c, u, q)' \in Int
  BY <1>2, OfferedTypes, OfferedTypesNext
<1>7. CASE c = current.coin
  <2>1. WalletAt(c)[u].inOrder = coin[u].inOrder /\ WalletAt(c)'[u].inOrder = coin'[u].inOrder
    BY <1>1, <1>7 DEF WalletAt
  <2>2. SellsIn(q, u) = OpenSells(u) /\ SellsIn(q, u)' = OpenSells(u)'
    <3>1. MarketAt(q).limits = limits /\ MarketAt(q).stops = stops
      BY <1>0, WindowFields DEF MarketAt
    <3>2. MarketAt(q)'.limits = limits' /\ MarketAt(q)'.stops = stops'
      BY <1>0, <1>1, WindowFieldsNext DEF MarketAt
    <3>3. SellsIn(q, u) = OpenSells(u)
      BY <3>1 DEF SellsIn, OpenSells
    <3>4. SellsIn(q, u)' = QuantityOf(u, MarketAt(q)'.limits["Sell"])
                             + QuantityOf(u, MarketAt(q)'.stops["Sell"])
      BY DEF SellsIn
    <3> QED BY <3>2, <3>3, <3>4 DEF OpenSells
  <2>3. Offered(c, u, q) = OpenSells(u)
    BY <1>2, <1>7, <2>2 DEF Offered
  <2>4. Offered(c, u, q)' = OpenSells(u)'
    BY <1>1, <1>2, <1>7, <2>2 DEF Offered
  <2>5. WalletAt(c)[u].inOrder = HeldInMarkets(c, u, Existing) + Moving(u)
    BY <1>7 DEF HeldRight
  <2>6. /\ coin'[u].inOrder - OpenSells(u)' - Moving(u)'
             = coin[u].inOrder - OpenSells(u) - Moving(u)
        /\ coin[u].inOrder \in Int /\ OpenSells(u) \in Int /\ Moving(u) \in Int
        /\ coin'[u].inOrder \in Int /\ OpenSells(u)' \in Int /\ Moving(u)' \in Int
    BY <1>3, WindowHeld
  <2>7. WalletAt(c)'[u].inOrder = HeldInMarkets(c, u, Existing)' + Moving(u)'
    <3>1. PICK held \in Int, sells \in Int, moving \in Int, order \in Int :
            /\ held = HeldInMarkets(c, u, Existing) /\ sells = OpenSells(u)
            /\ moving = Moving(u) /\ order = coin[u].inOrder
      BY <1>6, <2>6
    <3>2. PICK heldNext \in Int, sellsNext \in Int, movingNext \in Int, orderNext \in Int :
            /\ heldNext = HeldInMarkets(c, u, Existing)' /\ sellsNext = OpenSells(u)'
            /\ movingNext = Moving(u)' /\ orderNext = coin'[u].inOrder
      BY <1>6, <2>6
    <3>3. heldNext = held + sellsNext - sells
      BY <1>5, <2>3, <2>4, <3>1, <3>2
    <3>4. /\ order = held + moving
          /\ orderNext - sellsNext - movingNext = order - sells - moving
      BY <2>1, <2>5, <2>6, <3>1, <3>2
    <3>5. orderNext = heldNext + movingNext
      BY ONLY <3>3, <3>4
    <3> QED BY <2>1, <3>2, <3>5
  <2> QED BY <1>1, <1>7, <2>7 DEF HeldRight
<1>8. CASE c # current.coin
  <2>1. WalletAt(c)' = WalletAt(c)
    BY <1>1, <1>2, <1>8 DEF WalletAt
  <2>2. Offered(c, u, q)' = 0 /\ Offered(c, u, q) = 0
    BY <1>1, <1>2, <1>8 DEF Offered
  <2>3. HeldInMarkets(c, u, Existing)' = HeldInMarkets(c, u, Existing)
    BY ONLY <1>5, <1>6, <2>2
  <2>4. WalletAt(c)[u].inOrder = HeldInMarkets(c, u, Existing) + 0
    BY <1>8 DEF HeldRight
  <2> QED BY <1>1, <1>8, <2>1, <2>3, <2>4 DEF HeldRight
<1> QED BY <1>7, <1>8

-----------------------------------------------------------------------------
(* What is held through the steps of CancelAllOrders *)

\* What they have in common.
LEMMA SweepSteps ==
  ASSUME EngineInv, EngineInv', HeldInv, [EngineNext]_allVars, sweep # None
  PROVE  /\ Existing' = Existing /\ Coins' = Coins
         /\ phase \in {"idle", "cancel"} /\ phase' \in {"idle", "cancel"}
         /\ phase' = "cancel" => sweep' # None /\ reply' = "none"
         /\ adjusted \subseteq adjusted'
         /\ sweep' # None => sweep'.user = sweep.user
         /\ sweep' = None => SweepDone \/ sweep.user \in adjusted'
         /\ \A c \in Coins :
              WalletAt(c)'[sweep.user].inOrder \in {WalletAt(c)[sweep.user].inOrder, 0}
<1>1. /\ sweep \in SweepState /\ phase \in {"idle", "cancel"} /\ sweep.user \in Users
      /\ phase = "cancel" => reply = "none"
  BY DEF EngineInv, SweepInv, SweepState, HeldInv
<1>2. UNCHANGED <<marketsMap, walletIds>> => Existing' = Existing /\ Coins' = Coins
  BY ExistingKept DEF Coins
<1>3. Coins \subseteq AllCoins
  BY DEF EngineInv, WalletsInv
<1>4. CASE UNCHANGED allVars
  <2>1. UNCHANGED <<marketsMap, walletIds, coin, base, wallets, current, sweep, adjusted, phase,
                    reply>>
    BY <1>4 DEF allVars, engineVars, storeVars, indexVars, vars, marketVars, walletVars
  <2>2. \A c : WalletAt(c)' = WalletAt(c)
    BY <2>1 DEF WalletAt
  <2> QED BY <1>1, <1>2, <2>1, <2>2
<1>5. CASE HandlerStep /\ phase = "cancel" /\ message = sweep.user
  <2>1. /\ Processing /\ UNCHANGED <<marketsMap, walletIds, wallets, current>>
        /\ sweep' = IF reply' = "InvalidIdPrice" THEN None ELSE sweep
        /\ adjusted' = IF reply' = "InvalidIdPrice" THEN adjusted \cup {sweep.user} ELSE adjusted
    BY <1>5 DEF HandlerStep, OnMarket, storeVars, indexVars
  <2>2. /\ phase' \in {"idle", "cancel"} /\ (phase' = "cancel" => reply' = reply)
        /\ UNCHANGED <<coin, base>>
    BY <1>1, <2>1, CancelStepsOnly
    DEF CancelNext, CancelStale, CancelledAll, marketVars, walletVars
  <2>3. \A c : WalletAt(c)' = WalletAt(c)
    BY <2>1, <2>2 DEF WalletAt
  <2> QED BY <1>1, <1>2, <1>5, <2>1, <2>2, <2>3
<1>6. ASSUME NEW p \in Existing, Focus(p)
      PROVE  /\ UNCHANGED <<marketsMap, walletIds, sweep, adjusted>> /\ phase' = "idle"
             /\ \A c \in Coins : WalletAt(c)' = WalletAt(c)
  BY <1>3, <1>6, FocusFinds, FocusMoves
<1>7. ASSUME NEW c, SweepStep, ReleaseUser(c)
      PROVE  /\ UNCHANGED <<marketsMap, walletIds>>
             /\ \A k \in Coins :
                  WalletAt(k)'[sweep.user].inOrder \in {WalletAt(k)[sweep.user].inOrder, 0}
  <2>1. UNCHANGED <<marketsMap, walletIds, current>>
    BY <1>7 DEF SweepStep, indexVars
  <2>2. ASSUME NEW k \in Coins
        PROVE  WalletAt(k)'[sweep.user].inOrder \in {WalletAt(k)[sweep.user].inOrder, 0}
    <3>1. WalletAt(k)' = IF k = c THEN Release(WalletAt(k), {sweep.user}) ELSE WalletAt(k)
      BY <1>3, <1>7, <2>1, ReleaseUserWallets
    <3>2. WalletAt(k) \in [Users -> Address]
      BY DEF EngineInv, WalletsInv
    <3>3. Release(WalletAt(k), {sweep.user})[sweep.user].inOrder = 0
      BY <1>1, <3>2 DEF Release, Address
    <3> QED BY <3>1, <3>3
  <2> QED BY <2>1, <2>2
<1>8. ASSUME NEW id \in DOMAIN marketsMap, SweepBase(id)
      PROVE  /\ SweepStep /\ ReleaseUser(GetWallet(id)) /\ phase' = "idle"
             /\ adjusted' = adjusted /\ sweep'.user = sweep.user /\ sweep' # None
  <2>1. /\ SweepStep /\ ReleaseUser(GetWallet(id)) /\ phase' = "idle" /\ adjusted' = adjusted
        /\ sweep' = [sweep EXCEPT !.bases = @ \ {id}, !.base = id, !.queue = marketsMap[id]]
    BY <1>8 DEF SweepBase, SweepStep
  <2>2. id \in Nat /\ marketsMap[id] \in Seq(Nat)
    BY <1>8 DEF EngineInv, IndexInv, SortedIds
  <2>3. sweep' \in SweepState /\ sweep'.user = sweep.user
    BY <1>1, <2>1, <2>2 DEF SweepState
  <2> QED BY <2>1, <2>3, NoneAssumption DEF SweepState
<1>9. CASE SweepMarket
  <2>1. /\ SweepStep /\ ReleaseUser(current.coin) /\ phase' = "cancel" /\ reply' = "none"
        /\ adjusted' = adjusted /\ sweep.queue # <<>> /\ sweep' = [sweep EXCEPT !.queue = Tail(@)]
    BY <1>9 DEF SweepMarket
  <2>2. Tail(sweep.queue) \in Seq(Nat)
    BY <1>1, <2>1, HeadTailProperties DEF SweepState
  <2>3. sweep' \in SweepState /\ sweep'.user = sweep.user
    BY <1>1, <2>1, <2>2 DEF SweepState
  <2>4. sweep' # None
    BY <2>3, NoneAssumption DEF SweepState
  <2> QED BY <1>1, <1>2, <1>7, <2>1, <2>3, <2>4
<1>10. CASE SweepUnknown
  <2>1. /\ SweepStep /\ ReleaseUser(current.coin) /\ phase' = "idle" /\ sweep' = None
        /\ adjusted' = adjusted \cup {sweep.user}
    BY <1>10 DEF SweepUnknown, SweepStep
  <2> QED BY <1>1, <1>2, <1>7, <2>1
<1>11. CASE SweepDone
  <2>1. /\ phase' = "idle" /\ sweep' = None /\ adjusted' = adjusted
        /\ UNCHANGED <<marketsMap, walletIds, coin, base, wallets, current>>
    BY <1>11 DEF SweepDone, SweepStep, indexVars, walletVars
  <2>2. \A c : WalletAt(c)' = WalletAt(c)
    BY <2>1, WalletKept
  <2> QED BY <1>1, <1>2, <1>11, <2>1, <2>2
<1>12. CASE \E p \in Existing : Focus(p)
  BY <1>1, <1>2, <1>6, <1>12
<1>13. CASE \E id \in DOMAIN marketsMap : SweepBase(id)
  BY <1>1, <1>2, <1>7, <1>8, <1>13
<1> QED BY <1>4, <1>5, <1>9, <1>10, <1>11, <1>12, <1>13, SweepingSteps

LEMMA SweepHeld ==
  ASSUME EngineInv, EngineInv', SweepDoneInv, HeldInv, [EngineNext]_allVars, sweep # None
  PROVE  HeldInv'
<1>1. /\ Existing' = Existing /\ Coins' = Coins
      /\ phase \in {"idle", "cancel"} /\ phase' \in {"idle", "cancel"}
      /\ phase' = "cancel" => sweep' # None /\ reply' = "none"
      /\ adjusted \subseteq adjusted'
      /\ sweep' # None => sweep'.user = sweep.user
      /\ sweep' = None => SweepDone \/ sweep.user \in adjusted'
      /\ \A c \in Coins :
           WalletAt(c)'[sweep.user].inOrder \in {WalletAt(c)[sweep.user].inOrder, 0}
  BY SweepSteps
<1>2. Traded' = Traded /\ Bases' = Bases /\ Coins \subseteq AllCoins
  BY <1>1 DEF Traded, Bases, EngineInv, WalletsInv
<1>3. ASSUME NEW c \in Coins \ Bases, NEW u \in Users \ adjusted', Spared(c, u)'
      PROVE  HeldRight(c, u)'
  <2>1. c \in Coins \ Bases /\ u \in Users \ adjusted
    BY <1>1, <1>3
  <2>2. CASE u # sweep.user
    <3>1. HeldRight(c, u)
      BY <2>1, <2>2 DEF HeldInv, Spared
    <3>2. /\ \A p \in Existing : OrdersIn(p, u)' = OrdersIn(p, u)
          /\ WalletAt(c)'[u] = WalletAt(c)[u]
      BY <1>2, <2>1, <2>2, SweepSpares
    <3>3. WalletAt(c)'[u].inOrder = WalletAt(c)[u].inOrder
      BY <3>2
    <3> QED BY <1>1, <3>1, <3>2, <3>3, StaysHeld
  <2>3. CASE u = sweep.user /\ c \notin Traded
    <3>1. HeldRight(c, u)
      BY <2>1, <2>3 DEF HeldInv, Spared
    <3>2. WalletAt(c)'[u].inOrder \in {WalletAt(c)[u].inOrder, 0}
      BY <1>1, <2>1, <2>3
    <3> QED BY <1>1, <1>2, <2>3, <3>1, <3>2, NotTradedHeld
  <2>4. CASE u = sweep.user /\ c \in Traded
    <3>1. SweepDone
      BY <1>1, <1>2, <1>3, <2>4 DEF Spared
    <3>2. /\ SweepStep /\ sweep' = None /\ reply' = "ok" /\ phase' = "idle"
          /\ UNCHANGED <<coin, base, wallets, current>>
      BY <3>1 DEF SweepDone, SweepStep, walletVars
    <3>3. \A p \in Existing :
            /\ OrdersIn(p, u) = NoneOpen
            /\ \A k \in {p.coin, p.base} : WalletAt(k)[u].inOrder = 0
      BY <2>4, <3>2, SweepEnds
    <3>4. WalletAt(c)'[u].inOrder = 0
      BY <2>4, <3>2, <3>3, WalletKept DEF Traded
    <3>5. ASSUME NEW p \in AllPairs PROVE Offered(c, u, p)' = 0
      <4>1. Offered(c, u, p) = 0
        BY <3>3, OfferedNone
      <4>2. OrdersIn(p, u)' = OrdersIn(p, u)
        BY <3>2, SweepBooks, SameOrders
      <4> QED BY <1>1, <4>1, <4>2, OfferedSame
    <3> QED BY <3>2, <3>4, <3>5, NothingHeld
  <2> QED BY <2>2, <2>3, <2>4
<1>4. \A c \in Coins' \ Bases', u \in Users \ adjusted' : Spared(c, u)' => HeldRight(c, u)'
  BY <1>1, <1>2, <1>3
<1> QED BY <1>1, <1>4 DEF HeldInv

-----------------------------------------------------------------------------
(* What is held through the other messages *)

LEMMA InMarketHeld ==
  ASSUME EngineInv, EngineInv', HeldInv, [Next]_vars, OnMarket,
         sweep = None, UNCHANGED <<sweep, adjusted>>,
         "ClearOpenOrders" \notin Requests, "ClearEveryonesOpenOrders" \notin Requests
  PROVE  HeldInv'
<1>1. /\ phase # "cancel" /\ ~ClearEveryonesOpenOrders
      /\ UNCHANGED <<marketsMap, walletIds>>
  BY DEF HeldInv, ClearEveryonesOpenOrders, OnMarket, indexVars
<1>2. phase' # "cancel"
  BY <1>1, NoneCancelled
<1>3. Coins' = Coins /\ Bases' = Bases
  BY <1>1, ExistingKept DEF Coins, Bases
<1>4. ASSUME NEW c \in Coins \ Bases, NEW u \in Users \ adjusted PROVE HeldRight(c, u)'
  <2>1. HeldRight(c, u)
    BY <1>4 DEF HeldInv, Spared
  <2> QED BY <1>1, <1>4, <2>1, MarketStepHeld
<1> QED BY <1>2, <1>3, <1>4 DEF HeldInv

\* A message that leaves orders and what is in order alone, except of users whose
\* balance it sets.
LEMMA QuietHeld ==
  ASSUME EngineInv, EngineInv', HeldInv, sweep = None, phase = "idle", phase' = "idle",
         UNCHANGED <<marketsMap, walletIds>>, adjusted \subseteq adjusted',
         \A p \in Existing : MarketAt(p)'.limits = MarketAt(p).limits
                             /\ MarketAt(p)'.stops = MarketAt(p).stops,
         \A c \in Coins, u \in Users \ adjusted' :
           WalletAt(c)'[u].inOrder = WalletAt(c)[u].inOrder
  PROVE  HeldInv'
<1>1. Existing' = Existing /\ Coins' = Coins
  BY ExistingKept DEF Coins
<1>2. Bases' = Bases
  BY <1>1 DEF Bases
<1>3. ASSUME NEW c \in Coins \ Bases, NEW u \in Users \ adjusted' PROVE HeldRight(c, u)'
  <2>1. HeldRight(c, u)
    BY <1>3 DEF HeldInv, Spared
  <2>2. \A p \in Existing : OrdersIn(p, u)' = OrdersIn(p, u)
    BY SameOrders
  <2>3. WalletAt(c)'[u].inOrder = WalletAt(c)[u].inOrder
    BY <1>3
  <2> QED BY <1>1, <2>1, <2>2, <2>3, StaysHeld
<1> QED BY <1>1, <1>2, <1>3 DEF HeldInv

\* A message of the engine that does not touch the books in and out of the window.
LEMMA MessageHeld ==
  ASSUME EngineInv, EngineInv', HeldInv, NEW answer, EngineMessage(answer),
         UNCHANGED <<marketsMap, walletIds, markets, current>>, adjusted \subseteq adjusted',
         \A c \in Coins, u \in Users \ adjusted' :
           WalletAt(c)'[u].inOrder = WalletAt(c)[u].inOrder
  PROVE  HeldInv'
<1>1. /\ phase = "idle" /\ phase' = "idle" /\ sweep = None
      /\ UNCHANGED <<limits, stops>>
  BY DEF EngineMessage, EngineIdle, bookVars
<1>2. ASSUME NEW p \in Existing
      PROVE  MarketAt(p)'.limits = MarketAt(p).limits /\ MarketAt(p)'.stops = MarketAt(p).stops
  <2>1. CASE p = current.market
    BY <1>1, <2>1, WindowFields, WindowFieldsNext DEF MarketAt
  <2>2. CASE p # current.market
    BY <2>2 DEF MarketAt
  <2> QED BY <2>1, <2>2
<1> QED BY <1>1, <1>2, QuietHeld

LEMMA TransferHeld ==
  ASSUME EngineInv, EngineInv', HeldInv, NEW t \in Transfers, ReceiveTransfer(t)
  PROVE  HeldInv'
<1> DEFINE c == GetWallet(t.coin)
           w == [AllWallets EXCEPT ![c][t.user] = Transferred(@, t)]
<1>1. /\ EngineMessage("ok") /\ SetWallets(w)
      /\ UNCHANGED <<marketsMap, walletIds, markets, current>>
      /\ adjusted' = IF t.type = "SetInOrder" THEN adjusted \cup {t.user} ELSE adjusted
  BY DEF ReceiveTransfer, indexVars
<1>2. t \in Transfer /\ t.user \in Users
  BY EngineRequestsAssumption DEF Transfer
<1> HIDE DEF c
<1>3. ASSUME NEW k \in Coins, NEW u \in Users \ adjusted'
      PROVE  w[k][u].inOrder = WalletAt(k)[u].inOrder
  <2>1. k \in AllCoins /\ WalletAt(k) \in [Users -> Address]
    BY DEF EngineInv, WalletsInv
  <2>2. AllWallets[k] = WalletAt(k) /\ AllWallets = [i \in AllCoins |-> WalletAt(i)]
    BY <2>1 DEF AllWallets
  <2>3. CASE k = c
    <3>1. w[k] = [WalletAt(k) EXCEPT ![t.user] = Transferred(WalletAt(k)[t.user], t)]
      BY <2>1, <2>2, <2>3
    <3> HIDE DEF w
    <3>2. CASE u = t.user
      <4>1. t.type \in {"Deposit", "Withdraw"}
        BY <1>1, <1>2, <1>3, <3>2 DEF Transfer
      <4>2. w[k][u] = Transferred(WalletAt(k)[u], t) /\ WalletAt(k)[u] \in Address
        BY <2>1, <3>1, <3>2
      <4> QED BY <4>1, <4>2 DEF Transferred, Address
    <3>3. CASE u # t.user
      BY <2>1, <3>1, <3>3
    <3> QED BY <3>2, <3>3
  <2>4. CASE k # c
    <3>1. w[k] = WalletAt(k)
      BY <2>1, <2>2, <2>4
    <3> QED BY <3>1
  <2> QED BY <2>3, <2>4
<1> HIDE DEF w
<1>4. ASSUME NEW k \in Coins, NEW u \in Users \ adjusted'
      PROVE  WalletAt(k)'[u].inOrder = WalletAt(k)[u].inOrder
  <2>1. k \in AllCoins
    BY DEF EngineInv, WalletsInv
  <2>2. WalletAt(k)' = w[k]
    BY <1>1, <2>1, WalletSet
  <2> QED BY <1>3, <2>2
<1>5. adjusted \subseteq adjusted'
  BY <1>1
<1> QED BY <1>1, <1>4, <1>5, MessageHeld

LEMMA ConfigHeld ==
  ASSUME EngineInv, EngineInv', HeldInv, NEW field, NEW value, SetAllConfigs(field, value)
  PROVE  HeldInv'
<1>1. /\ phase = "idle" /\ phase' = "idle" /\ sweep = None /\ adjusted' = adjusted
      /\ UNCHANGED <<limits, stops, coin, base, wallets, current, marketsMap, walletIds>>
      /\ markets' = [p \in AllPairs |-> IF p \in Existing \ {current.market}
                                         THEN [markets[p] EXCEPT !.config[field] = value]
                                         ELSE markets[p]]
  BY DEF SetAllConfigs, EngineIdle, bookVars, indexVars, walletVars
<1>2. ASSUME NEW q \in Existing
      PROVE  MarketAt(q)'.limits = MarketAt(q).limits /\ MarketAt(q)'.stops = MarketAt(q).stops
  <2>1. CASE q = current.market
    BY <1>1, <2>1, WindowFields, WindowFieldsNext DEF MarketAt
  <2>2. CASE q # current.market
    <3> DEFINE m == markets[q]
    <3>1. markets'[q] = [m EXCEPT !.config[field] = value]
      BY <1>1, <2>2, ExistingPairs
    <3>2. MarketOK(m)
      BY <2>2 DEF EngineInv, StoredInv
    <3> HIDE DEF m
    <3>3. /\ [m EXCEPT !.config[field] = value].limits = m.limits
          /\ [m EXCEPT !.config[field] = value].stops = m.stops
      BY <3>2 DEF MarketOK, StoredFields
    <3>4. MarketAt(q)' = markets'[q] /\ MarketAt(q) = m
      BY <1>1, <2>2 DEF MarketAt, m
    <3> QED BY <3>1, <3>3, <3>4
  <2> QED BY <2>1, <2>2
<1>3. \A c : WalletAt(c)' = WalletAt(c)
  BY <1>1, WalletKept
<1> QED BY <1>1, <1>2, <1>3, QuietHeld

\* The wallet of a new coin is empty, and no market sells the coin yet.
LEMMA NewCoinHeld ==
  ASSUME EngineInv, EngineInv', HeldInv, NEW id \in CoinIds, NewCoin(id)
  PROVE  HeldInv'
<1>1. /\ EngineMessage("ok") /\ id > 0 /\ ~Holds(walletIds, id)
      /\ walletIds' = InsertSorted(walletIds, id)
      /\ wallets' = [wallets EXCEPT ![id] = NoAddresses]
      /\ UNCHANGED <<coin, base, marketsMap, markets, current, adjusted>>
      /\ phase = "idle" /\ phase' = "idle" /\ sweep = None /\ UNCHANGED <<limits, stops>>
  BY DEF NewCoin, EngineMessage, EngineIdle, walletVars, bookVars
<1>2. id \in Nat /\ id \in AllCoins
  BY <1>1, PairsAssumption DEF AllCoins
<1>3. SortedIds(walletIds) /\ wallets = [c \in AllCoins |-> wallets[c]] /\ Coins \subseteq AllCoins
  BY DEF EngineInv, IndexInv, WalletsInv
<1>4. id \notin Coins
  <2> SUFFICES ASSUME id \in Coins PROVE FALSE
    OBVIOUS
  <2>1. PICK i \in DOMAIN walletIds : walletIds[i] = id
    BY DEF Coins
  <2>2. LowerBound(walletIds, walletIds[i]) = i
    BY <1>3, <2>1, LowerBoundFinds
  <2>3. Holds(walletIds, id)
    BY <1>3, <2>1, <2>2 DEF Holds, SortedIds
  <2> QED BY <1>1, <2>3
<1>5. Coins' = Coins \cup {id}
  <2>1. {InsertSorted(walletIds, id)[i] : i \in DOMAIN InsertSorted(walletIds, id)}
          = {walletIds[i] : i \in DOMAIN walletIds} \cup {id}
    BY <1>2, <1>3, InsertElements
  <2> QED BY <1>1, <2>1 DEF Coins
<1>6. Existing' = Existing /\ current.coin # id /\ current.base # id
  BY <1>1, <1>4, ExistingKept, WindowWallets DEF EngineInv
<1>7. Bases' = Bases /\ id \notin Traded'
  BY <1>4, <1>6 DEF Bases, Traded, EngineInv, WalletsInv
<1>8. ASSUME NEW c \in Coins', c \notin Bases', NEW u \in Users \ adjusted PROVE HeldRight(c, u)'
  <2>1. CASE c = id
    <3>1. WalletAt(c)' = NoAddresses
      BY <1>1, <1>2, <1>3, <1>6, <2>1 DEF WalletAt
    <3>2. WalletAt(c)'[u].inOrder = 0
      BY <3>1 DEF NoAddresses
    <3>3. HeldInMarkets(c, u, Existing)' = 0
      BY <1>7, <2>1, NotTradedNext
    <3> QED BY <1>1, <3>2, <3>3, StillHeldNext
  <2>2. CASE c # id
    <3>1. c \in Coins \ Bases /\ c \in AllCoins
      BY <1>3, <1>5, <1>7, <1>8, <2>2
    <3>2. HeldRight(c, u)
      BY <1>1, <1>8, <3>1 DEF HeldInv, Spared
    <3>3. WalletAt(c)' = WalletAt(c)
      BY <1>1, <1>3, <2>2, <3>1 DEF WalletAt
    <3>4. ASSUME NEW p \in Existing PROVE OrdersIn(p, u)' = OrdersIn(p, u)
      <4>1. MarketAt(p)'.limits = MarketAt(p).limits /\ MarketAt(p)'.stops = MarketAt(p).stops
        BY <1>1, WindowFields, WindowFieldsNext DEF MarketAt
      <4> QED BY <4>1, SameOrders
    <3>5. WalletAt(c)'[u].inOrder = WalletAt(c)[u].inOrder
      BY <3>3
    <3> QED BY <1>1, <1>6, <3>2, <3>4, <3>5, StaysHeld
  <2> QED BY <2>1, <2>2
<1> QED BY <1>1, <1>8 DEF HeldInv

\* A new market has no orders; a coin it pays with is one no claim is made of.
LEMMA NewMarketHeld ==
  ASSUME EngineInv, EngineInv', HeldInv, NEW p \in CoinPairs, NEW settings, NewMarket(p, settings)
  PROVE  HeldInv'
<1>1. /\ phase = "idle" /\ phase' = "idle" /\ sweep = None /\ adjusted' = adjusted
      /\ markets' = [markets EXCEPT ![p] = NewMarketState(settings)]
      /\ UNCHANGED <<limits, stops, coin, base, wallets, walletIds, current>>
      /\ ~Holds(Markets(p.base), p.coin)
  BY DEF NewMarket, EngineMessage, EngineIdle, bookVars, walletVars
<1>2. p \in AllPairs /\ p.base \in Nat
  BY PairFields DEF AllPairs
<1>3. p \notin Existing
  BY NewMarketIsNew
<1>4. Existing' = Existing \cup {p}
  BY NewMarketExists
<1>5. p # current.market /\ markets = [q \in AllPairs |-> markets[q]]
  BY <1>3 DEF EngineInv, CurrentInv, StoredInv
<1>6. Coins' = Coins /\ Bases \subseteq Bases'
  BY <1>1, <1>4 DEF Coins, Bases
<1>7. ASSUME NEW c, NEW u, NEW q \in AllPairs PROVE Offered(c, u, q)' = Offered(c, u, q)
  <2>1. CASE q \in Existing
    <3>1. MarketAt(q)' = MarketAt(q)
      <4>1. CASE q = current.market
        BY <1>1, <2>1, <4>1 DEF MarketAt, Window, NewMarket, EngineMessage, bookVars, cacheVars,
                                idVars
      <4>2. CASE q # current.market
        <5>1. markets'[q] = markets[q]
          BY <1>1, <1>3, <1>5, <2>1
        <5> QED BY <1>1, <4>2, <5>1 DEF MarketAt
      <4> QED BY <4>1, <4>2
    <3>2. OrdersIn(q, u)' = OrdersIn(q, u)
      BY <3>1, SameOrders
    <3>3. SellsIn(q, u)' = SellsIn(q, u)
      BY <1>4, <2>1, <3>2, SellsOwned, SellsOwnedNext
    <3> QED BY <1>4, <2>1, <3>3 DEF Offered
  <2>2. CASE q = p
    <3>1. MarketAt(p)' = NewMarketState(settings)
      BY <1>1, <1>2, <1>5 DEF MarketAt
    <3>2. MarketAt(p)'.limits["Sell"] = <<>> /\ MarketAt(p)'.stops["Sell"] = <<>>
      BY <3>1 DEF NewMarketState, NoOrders, Sides
    <3>3. SellsIn(p, u)' = QuantityOf(u, MarketAt(p)'.limits["Sell"])
                             + QuantityOf(u, MarketAt(p)'.stops["Sell"])
      BY DEF SellsIn
    <3>4. SellsIn(p, u)' = 0
      BY <3>2, <3>3, QuantityEmpty
    <3> QED BY <1>3, <2>2, <3>4 DEF Offered
  <2>3. CASE q \notin Existing /\ q # p
    BY <1>4, <2>3 DEF Offered
  <2> QED BY <2>1, <2>2, <2>3
<1>8. ASSUME NEW c \in Coins \ Bases, NEW u \in Users \ adjusted PROVE HeldRight(c, u)'
  <2>1. HeldRight(c, u)
    BY <1>1, <1>8 DEF HeldInv, Spared
  <2>2. HeldInMarkets(c, u, Existing)' = HeldInMarkets(c, u, Existing)
    BY <1>7, HeldSame
  <2>3. WalletAt(c)' = WalletAt(c)
    BY <1>1, WalletKept
  <2> QED BY <1>1, <2>1, <2>2, <2>3, StillHeld, StillHeldNext
<1> QED BY <1>1, <1>6, <1>8 DEF HeldInv

\* Every market is cleared, and the wallets of its coins are released.
LEMMA ClearAllHeld ==
  ASSUME EngineInv, EngineInv', HeldInv, ClearAllEveryonesOpenOrders
  PROVE  HeldInv'
<1> DEFINE w == [c \in AllCoins |->
                   IF c \in CoinsInvolved THEN Release(WalletAt(c), Users) ELSE WalletAt(c)]
<1>1. /\ phase = "idle" /\ phase' = "idle" /\ sweep = None /\ adjusted' = adjusted
      /\ UNCHANGED <<current, marketsMap, walletIds>> /\ SetWallets(w)
      /\ limits' = NoOrders /\ stops' = NoOrders
      /\ markets' = [q \in AllPairs |->
                   IF q \in Existing \ {current.market}
                     THEN [markets[q] EXCEPT !.limits = NoOrders, !.stops = NoOrders,
                                             !.userOrders = {}, !.knownUsers = {}]
                     ELSE markets[q]]
  BY DEF ClearAllEveryonesOpenOrders, EngineIdle, indexVars
<1>2. Existing' = Existing /\ Coins' = Coins /\ Coins \subseteq AllCoins
  BY <1>1, ExistingKept DEF Coins, EngineInv, WalletsInv
<1>3. Bases' = Bases
  BY <1>2 DEF Bases
<1>4. ASSUME NEW c, NEW u, NEW q \in AllPairs PROVE Offered(c, u, q)' = 0
  <2>1. CASE q \in Existing
    <3>1. MarketAt(q)'.limits = NoOrders /\ MarketAt(q)'.stops = NoOrders
      <4>1. CASE q = current.market
        BY <1>1, <4>1, WindowFieldsNext DEF MarketAt
      <4>2. CASE q # current.market
        <5>1. markets'[q] = Cleared(markets[q])
          BY <1>1, <2>1, <4>2 DEF Cleared
        <5>2. Cleared(markets[q]).limits = NoOrders /\ Cleared(markets[q]).stops = NoOrders
          BY <2>1, <4>2, OrdersCleared DEF EngineInv, StoredInv
        <5> QED BY <1>1, <4>2, <5>1, <5>2 DEF MarketAt
      <4> QED BY <4>1, <4>2
    <3>2. MarketAt(q)'.limits["Sell"] = <<>> /\ MarketAt(q)'.stops["Sell"] = <<>>
      BY <3>1 DEF NoOrders, Sides
    <3>3. SellsIn(q, u)' = QuantityOf(u, MarketAt(q)'.limits["Sell"])
                             + QuantityOf(u, MarketAt(q)'.stops["Sell"])
      BY DEF SellsIn
    <3>4. SellsIn(q, u)' = 0
      BY <3>2, <3>3, QuantityEmpty
    <3> QED BY <3>4 DEF Offered
  <2>2. CASE q \notin Existing
    BY <1>2, <2>2 DEF Offered
  <2> QED BY <2>1, <2>2
<1>5. ASSUME NEW c \in Coins \ Bases, NEW u \in Users \ adjusted PROVE HeldRight(c, u)'
  <2>1. c \in AllCoins /\ WalletAt(c) \in [Users -> Address]
    BY <1>2, <1>5 DEF EngineInv, WalletsInv
  <2>2. WalletAt(c)' = IF c \in CoinsInvolved THEN Release(WalletAt(c), Users) ELSE WalletAt(c)
    <3>1. w[c] = IF c \in CoinsInvolved THEN Release(WalletAt(c), Users) ELSE WalletAt(c)
      BY <2>1
    <3> HIDE DEF w
    <3> QED BY <1>1, <2>1, <3>1, WalletSet
  <2>3. CASE c \in CoinsInvolved
    <3>1. Release(WalletAt(c), Users)[u].inOrder = 0
      BY <2>1 DEF Release, Address
    <3> QED BY <1>1, <1>4, <2>2, <2>3, <3>1, NothingHeld
  <2>4. CASE c \notin CoinsInvolved
    <3>1. c \notin Traded /\ c \notin Traded'
      BY <1>2, <2>4 DEF Traded, CoinsInvolved
    <3>2. HeldRight(c, u)
      BY <1>1, <1>5 DEF HeldInv, Spared
    <3>3. WalletAt(c)'[u].inOrder = WalletAt(c)[u].inOrder
      BY <2>2, <2>4
    <3> QED BY <1>1, <3>1, <3>2, <3>3, NotTradedHeld
  <2> QED BY <2>3, <2>4
<1> QED BY <1>1, <1>2, <1>3, <1>5 DEF HeldInv

LEMMA HeldInvInit == EngineInit => HeldInv
<1> SUFFICES ASSUME EngineInit PROVE HeldInv
  OBVIOUS
<1>1. /\ phase = "idle" /\ Init /\ EngineInv /\ Existing = {FirstPair}
      /\ current.market = FirstPair
  BY FirstMarket, EngineInvInit DEF EngineInit, Init
<1>2. ASSUME NEW c \in Coins \ Bases, NEW u \in Users PROVE HeldRight(c, u)
  <2>1. c = FirstPair.coin
    <3>1. {<<FirstPair.base>>[i] : i \in DOMAIN <<FirstPair.base>>} = {FirstPair.base}
      OBVIOUS
    <3>2. SortedIds(<<FirstPair.base>>) /\ FirstPair.coin \in Nat
      BY PairsAreIds, PairFields, OneIdSorted DEF AllPairs
    <3>3. Coins = {FirstPair.base} \cup {FirstPair.coin}
      BY <3>1, <3>2, InsertElements DEF Coins, EngineInit
    <3> QED BY <1>1, <1>2, <3>3 DEF Bases
  <2>2. WalletAt(c)[u].inOrder = 0
    BY <1>1, <1>2, <2>1 DEF WalletAt, EngineInit, Init
  <2>3. ASSUME NEW p \in AllPairs PROVE Offered(c, u, p) = 0
    <3>1. CASE p = FirstPair
      <4>1. MarketAt(p).limits = limits /\ MarketAt(p).stops = stops
        BY <1>1, <3>1, WindowFields DEF MarketAt
      <4>2. limits["Sell"] = <<>> /\ stops["Sell"] = <<>>
        BY <1>1 DEF Init, Sides
      <4>3. SellsIn(p, u) = 0
        BY <4>1, <4>2, QuantityEmpty DEF SellsIn
      <4> QED BY <4>3 DEF Offered
    <3>2. CASE p # FirstPair
      BY <1>1, <3>2 DEF Offered
    <3> QED BY <3>1, <3>2
  <2>4. HeldInMarkets(c, u, Existing) = 0
    BY <1>1, <2>3, OfferedTypes
  <2> QED BY <1>1, <2>2, <2>4, StillHeld
<1> QED BY <1>1, <1>2 DEF HeldInv

LEMMA HeldInvStep ==
  ASSUME EngineInv, EngineInv', SweepDoneInv, HeldInv, [EngineNext]_allVars,
         "ClearOpenOrders" \notin Requests, "ClearEveryonesOpenOrders" \notin Requests
  PROVE  HeldInv'
<1>1. CASE sweep # None
  BY <1>1, SweepHeld
<1>2. CASE sweep = None
  <2>1. phase # "cancel"
    BY <1>2 DEF HeldInv
  <2>2. ASSUME [Next]_vars, OnMarket, UNCHANGED <<sweep, adjusted>> PROVE HeldInv'
    BY <1>2, <2>2, InMarketHeld
  <2>3. CASE UNCHANGED allVars
    <3>1. UNCHANGED vars /\ OnMarket /\ UNCHANGED <<sweep, adjusted>>
      BY <2>3 DEF allVars, engineVars, OnMarket
    <3> QED BY <2>2, <3>1
  <2>4. HandlerStep => HeldInv'
    <3> SUFFICES ASSUME HandlerStep PROVE HeldInv'
      OBVIOUS
    <3>1. Next /\ OnMarket /\ UNCHANGED <<sweep, adjusted>>
      BY <2>1 DEF HandlerStep, Next
    <3> QED BY <2>2, <3>1
  <2>5. MarketMessage => HeldInv'
    <3> SUFFICES ASSUME MarketMessage PROVE HeldInv'
      OBVIOUS
    <3>1. Next /\ OnMarket /\ UNCHANGED <<sweep, adjusted>>
      BY DEF MarketMessage, Next, Receive
    <3> QED BY <2>2, <3>1
  <2>6. ASSUME NEW p \in Existing, Focus(p) PROVE HeldInv'
    <3>1. phase = "idle" /\ phase' = "idle" /\ UNCHANGED <<marketsMap, walletIds, adjusted>>
      BY <2>6, FocusFinds
    <3>2. /\ \A q \in Existing : MarketAt(q)' = MarketAt(q)
          /\ \A c \in Coins : WalletAt(c)' = WalletAt(c)
      BY <2>6, FocusMoves DEF EngineInv, WalletsInv
    <3> QED BY <1>2, <3>1, <3>2, QuietHeld
  <2>7. ASSUME NEW answer, EngineMessage(answer),
               UNCHANGED <<marketsMap, walletIds, markets, walletVars, wallets, current, adjusted>>
        PROVE  HeldInv'
    <3>1. \A c : WalletAt(c)' = WalletAt(c)
      BY <2>7, WalletKept DEF walletVars
    <3> QED BY <2>7, <3>1, MessageHeld
  <2>8. ASSUME NEW id \in CoinIds, RejectNewCoin(id) \/ NewCoin(id) PROVE HeldInv'
    <3>1. CASE RejectNewCoin(id)
      BY <2>7, <3>1 DEF RejectNewCoin, engineVars, indexVars, storeVars
    <3> QED BY <2>8, <3>1, NewCoinHeld
  <2>9. ASSUME NEW p \in CoinPairs,
               RejectNewMarket(p) \/ \E settings \in MarketConfig : NewMarket(p, settings)
        PROVE  HeldInv'
    <3>1. CASE RejectNewMarket(p)
      BY <2>7, <3>1 DEF RejectNewMarket, engineVars, indexVars, storeVars
    <3>2. ASSUME NEW settings \in MarketConfig, NewMarket(p, settings) PROVE HeldInv'
      BY <3>2, NewMarketHeld
    <3> QED BY <2>9, <3>1, <3>2
  <2>10. ASSUME NEW t \in Transfers, ReceiveTransfer(t) PROVE HeldInv'
    BY <2>10, TransferHeld
  <2>11. ASSUME NEW field, NEW value, SetAllConfigs(field, value) PROVE HeldInv'
    BY <2>11, ConfigHeld
  <2>12. ASSUME NEW user \in Users, CancelAllOrders(user) PROVE HeldInv'
    BY <2>7, <2>12 DEF CancelAllOrders, indexVars, storeVars
  <2>13. EngineProcessing => HeldInv'
    <3>1. ~SweepStep
      BY <1>2 DEF SweepStep
    <3> QED BY <1>2, <2>4, <3>1 DEF EngineProcessing, SweepBase, SweepMarket, SweepUnknown, SweepDone
  <2>14. EngineReceive => HeldInv'
    BY <2>5, <2>6, <2>8, <2>9, <2>10, <2>11, <2>12, ClearAllHeld DEF EngineReceive
  <2> QED BY <2>3, <2>13, <2>14 DEF EngineNext
<1> QED BY <1>1, <1>2

\* Between messages no coin is promised twice: exactly what a user offers of a coin,
\* in all markets together, is in order in the wallet these markets share, as long
\* as no request clears the orders of one market only, which releases the whole
\* wallet.
THEOREM EscrowEverywhere ==
  ASSUME "ClearOpenOrders" \notin Requests, "ClearEveryonesOpenOrders" \notin Requests
  PROVE  EngineSpec => []EscrowAcrossMarkets
<1>1. EngineInit => HeldInv /\ SweepDoneInv
  BY HeldInvInit DEF EngineInit, SweepDoneInv
<1>2. EngineInv /\ EngineInv' /\ SweepDoneInv /\ HeldInv /\ [EngineNext]_allVars
        => HeldInv' /\ SweepDoneInv'
  BY HeldInvStep, SweepDoneStep
<1>3. EngineInv /\ HeldInv => EscrowAcrossMarkets
  <2> SUFFICES ASSUME EngineInv, HeldInv, EngineIdle,
                      NEW c \in SoldOnly, NEW u \in Users \ adjusted
               PROVE  WalletAt(c)[u].inOrder = HeldInMarkets(c, u, Existing)
    BY DEF EscrowAcrossMarkets
  <2>1. phase = "idle" /\ sweep = None
    BY DEF EngineIdle
  <2>2. c \in Coins \ Bases
    BY DEF SoldOnly, Bases, EngineInv, WalletsInv
  <2>3. HeldRight(c, u)
    BY <2>1, <2>2 DEF HeldInv, Spared
  <2>4. HeldInMarkets(c, u, Existing) \in Int
    BY OfferedTypes
  <2> QED BY <2>1, <2>3, <2>4, StillHeld
<1> QED BY <1>1, <1>2, <1>3, EngineInvariance, PTL DEF EngineSpec

=============================================================================
