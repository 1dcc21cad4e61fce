-------------------------- MODULE OrderBookProofs --------------------------
(***************************************************************************)
(* Lemmas about the operators of OrderBook: what the run of reached orders *)
(* is, that the operators yield books again, sorted if they were, and what *)
(* they do to the quantity each user has in a book and to the ids in it;   *)
(* and about the sums of module Sums, by induction over the naturals.      *)
(***************************************************************************)
EXTENDS OrderBook, Sums, FiniteSetTheorems, SequenceTheorems, TLAPS

\* A non-empty set of naturals has a least element.  (The library derives it from
\* induction over the naturals, with an operator as parameter; here it follows
\* from the finite sets 0 .. n, whose strict inclusion is well founded.)
LEMMA LeastNat ==
  ASSUME NEW T \in SUBSET Nat, T # {}
  PROVE  \E m \in T : \A y \in T : m <= y
<1> DEFINE Segments == {0 .. n : n \in T}
           R == StrictSubsetOrdering(Nat)
<1>1. Segments \subseteq FiniteSubsetsOf(Nat)
  <2>1. ASSUME NEW n \in T PROVE 0 .. n \in FiniteSubsetsOf(Nat)
    <3>1. IsFiniteSet(0 .. n) BY FS_Interval
    <3> QED BY <3>1 DEF FiniteSubsetsOf
  <2> QED BY <2>1
<1>2. Segments # {}
  OBVIOUS
<1>3. IsWellFoundedOn(R, FiniteSubsetsOf(Nat))
  BY FS_StrictSubsetOrderingWellFounded
<1>4. \E x \in Segments : \A y \in Segments : ~ (<<y, x>> \in R)
  <2> HIDE DEF Segments, R
  <2> QED BY <1>1, <1>2, <1>3, WFMin
<1>5. PICK m \in T : \A y \in T : ~ (<<0 .. y, 0 .. m>> \in R)
  BY <1>4
<1>6. ASSUME NEW y \in T, y < m PROVE FALSE
  <2>1. (0 .. y) \subseteq (0 .. m) /\ (0 .. y) # (0 .. m)
    <3>1. m \in 0 .. m /\ m \notin 0 .. y BY <1>6
    <3> QED BY <1>6, <3>1
  <2>2. (0 .. y) \in SUBSET Nat /\ (0 .. m) \in SUBSET Nat
    OBVIOUS
  <2>3. <<0 .. y, 0 .. m>> \in R
    BY <2>1, <2>2 DEF StrictSubsetOrdering
  <2> QED BY <2>3, <1>5
<1> QED BY <1>6

\* The run of reached orders that starts after `from' has an end: ReachedEnd is
\* within the book, all orders of the run are reached, and the next one is not.
LEMMA ReachedEndExists ==
  ASSUME NEW side, NEW book, NEW bound, Len(book) \in Nat,
         NEW from \in Nat, from <= Len(book)
  PROVE  /\ ReachedEnd(side, book, from, bound) \in from .. Len(book)
         /\ IsReachedEnd(side, book, from, bound, ReachedEnd(side, book, from, bound))
<1> DEFINE Stops == {k \in from .. Len(book) :
                       k < Len(book) => ~Reached(side, book[k+1].price, bound)}
<1>1. Len(book) \in Stops
  OBVIOUS
<1>2. Stops \subseteq Nat
  OBVIOUS
<1>3. PICK m \in Stops : \A y \in Stops : m <= y
  <2> HIDE DEF Stops
  <2> QED BY <1>1, <1>2, LeastNat
<1>4. ASSUME NEW i \in from+1 .. m PROVE Reached(side, book[i].price, bound)
  <2>1. i - 1 \in from .. Len(book) /\ i - 1 < m
    BY <1>2, <1>3
  <2>2. i - 1 \notin Stops
    <3>1. m \in Int /\ \A y \in Stops : m <= y
      BY <1>2, <1>3
    <3> HIDE DEF Stops
    <3> QED BY <2>1, <3>1
  <2>3. (i - 1) + 1 = i
    BY <2>1
  <2> QED BY <2>1, <2>2, <2>3
<1>5. IsReachedEnd(side, book, from, bound, m)
  BY <1>3, <1>4 DEF IsReachedEnd
<1>6. \E k \in from .. Len(book) : IsReachedEnd(side, book, from, bound, k)
  BY <1>3, <1>5
<1> QED BY <1>6, Zenon DEF ReachedEnd

\* A book without its first n orders is the rest of it.
LEMMA DropFirstProperties ==
  ASSUME NEW S, NEW book \in Seq(S), NEW n \in 0 .. Len(book)
  PROVE  /\ DropFirst(book, n) \in Seq(S)
         /\ Len(DropFirst(book, n)) = Len(book) - n
         /\ \A i \in 1 .. Len(book) - n : DropFirst(book, n)[i] = book[n + i]
BY SubSeqProperties DEF DropFirst

\* The first n orders of a book.
LEMMA PrefixProperties ==
  ASSUME NEW S, NEW book \in Seq(S), NEW n \in 0 .. Len(book)
  PROVE  /\ SubSeq(book, 1, n) \in Seq(S)
         /\ Len(SubSeq(book, 1, n)) = n
         /\ \A i \in 1 .. n : SubSeq(book, 1, n)[i] = book[i]
BY SubSeqProperties

\* Taking an order out of a book leaves a book with one order less; the orders
\* behind it move up by one.
LEMMA WithoutProperties ==
  ASSUME NEW S, NEW book \in Seq(S), NEW i \in 1 .. Len(book)
  PROVE  /\ Without(book, i) \in Seq(S)
         /\ Len(Without(book, i)) = Len(book) - 1
         /\ \A j \in 1 .. Len(book) - 1 :
              Without(book, i)[j] = IF j < i THEN book[j] ELSE book[j + 1]
<1> DEFINE before == SubSeq(book, 1, i - 1)
           behind == SubSeq(book, i + 1, Len(book))
<1>1. /\ before \in Seq(S) /\ Len(before) = i - 1
      /\ \A j \in 1 .. i - 1 : before[j] = book[j]
  BY PrefixProperties
<1>2. /\ behind \in Seq(S) /\ Len(behind) = Len(book) - i
      /\ \A j \in 1 .. Len(book) - i : behind[j] = book[i + j]
  BY DropFirstProperties DEF DropFirst
<1>3. Without(book, i) = before \o behind
  BY DEF Without
<1> HIDE DEF before, behind
<1>4. /\ before \o behind \in Seq(S) /\ Len(before \o behind) = Len(before) + Len(behind)
      /\ \A j \in 1 .. Len(before) + Len(behind) :
           (before \o behind)[j] = IF j <= Len(before) THEN before[j] ELSE behind[j - Len(before)]
  BY <1>1, <1>2, ConcatProperties
<1>5. Len(before \o behind) = Len(book) - 1
  BY <1>1, <1>2, <1>4
<1>6. ASSUME NEW j \in 1 .. Len(book) - 1
      PROVE  (before \o behind)[j] = IF j < i THEN book[j] ELSE book[j + 1]
  <2>1. CASE j < i
    BY <1>1, <1>2, <1>4, <2>1
  <2>2. CASE ~(j < i)
    <3>1. (before \o behind)[j] = behind[j - (i - 1)]
      BY <1>1, <1>2, <1>4, <2>2
    <3>2. j - (i - 1) \in 1 .. Len(book) - i /\ i + (j - (i - 1)) = j + 1
      BY <2>2
    <3>3. behind[j - (i - 1)] = book[j + 1]
      BY <1>2, <3>2
    <3> QED BY <2>2, <3>1, <3>3
  <2> QED BY <2>1, <2>2
<1> QED BY <1>3, <1>4, <1>5, <1>6

\* A book in which an order has been filed behind the first k: those prices come
\* no later than the order's, the next one does, and no order has changed places.
FiledBehind(side, book, o, filed, k) ==
  /\ IsReachedEnd(side, book, 0, o.price, k)
  /\ \A i \in 1 .. k : filed[i] = book[i]
  /\ filed[k + 1] = o
  /\ \A i \in k + 2 .. Len(book) + 1 : filed[i] = book[i - 1]

\* Filing an order yields a book with one order more, in which the others have
\* kept their order.
LEMMA PushBackProperties ==
  ASSUME NEW S, NEW side, NEW book \in Seq(S), NEW o \in S
  PROVE  /\ PushBack(side, book, o) \in Seq(S)
         /\ Len(PushBack(side, book, o)) = Len(book) + 1
         /\ \E k \in 0 .. Len(book) : FiledBehind(side, book, o, PushBack(side, book, o), k)
<1> DEFINE k == ReachedEnd(side, book, 0, o.price)
           before == SubSeq(book, 1, k)
           behind == SubSeq(book, k + 1, Len(book))
<1>1. k \in 0 .. Len(book) /\ IsReachedEnd(side, book, 0, o.price, k)
  BY ReachedEndExists
<1>2. PushBack(side, book, o) = (before \o <<o>>) \o behind
  BY DEF PushBack
<1> HIDE DEF k
<1>3. /\ before \in Seq(S) /\ Len(before) = k
      /\ \A i \in 1 .. k : before[i] = book[i]
  BY <1>1, PrefixProperties
<1>4. /\ behind \in Seq(S) /\ Len(behind) = Len(book) - k
      /\ \A i \in 1 .. Len(book) - k : behind[i] = book[k + i]
  BY <1>1, DropFirstProperties DEF DropFirst
<1> HIDE DEF before, behind
<1> DEFINE upto == before \o <<o>>
<1>5. /\ upto \in Seq(S) /\ Len(upto) = k + 1
      /\ \A i \in 1 .. k : upto[i] = book[i]
      /\ upto[k + 1] = o
  <2>1. /\ Append(before, o) \in Seq(S) /\ Len(Append(before, o)) = Len(before) + 1
        /\ \A i \in 1 .. Len(before) : Append(before, o)[i] = before[i]
        /\ Append(before, o)[Len(before) + 1] = o
    BY <1>3, AppendProperties
  <2>2. upto = Append(before, o)
    BY <1>3, AppendIsConcat
  <2> QED BY <1>1, <1>3, <2>1, <2>2
<1> HIDE DEF upto
<1>6. /\ upto \o behind \in Seq(S) /\ Len(upto \o behind) = Len(book) + 1
      /\ \A i \in 1 .. Len(book) + 1 :
           (upto \o behind)[i] = IF i <= k + 1 THEN upto[i] ELSE behind[i - (k + 1)]
  <2>1. /\ upto \o behind \in Seq(S) /\ Len(upto \o behind) = Len(upto) + Len(behind)
        /\ \A i \in 1 .. Len(upto) + Len(behind) :
             (upto \o behind)[i] = IF i <= Len(upto) THEN upto[i] ELSE behind[i - Len(upto)]
    BY <1>4, <1>5, ConcatProperties
  <2>2. Len(upto) + Len(behind) = Len(book) + 1
    BY <1>1, <1>4, <1>5
  <2> QED BY <1>5, <2>1, <2>2
<1>7. /\ \A i \in 1 .. k : (upto \o behind)[i] = book[i]
      /\ (upto \o behind)[k + 1] = o
  BY <1>1, <1>5, <1>6
<1>8. ASSUME NEW i \in k + 2 .. Len(book) + 1
      PROVE  (upto \o behind)[i] = book[i - 1]
  <2>1. i - (k + 1) \in 1 .. Len(book) - k /\ k + (i - (k + 1)) = i - 1
    BY <1>1
  <2>2. behind[i - (k + 1)] = book[i - 1]
    BY <1>4, <2>1
  <2>3. (upto \o behind)[i] = behind[i - (k + 1)]
    BY <1>1, <1>6
  <2> QED BY <2>2, <2>3
<1>9. PushBack(side, book, o) = upto \o behind
  BY <1>2 DEF upto
<1> HIDE DEF upto
<1>10. FiledBehind(side, book, o, PushBack(side, book, o), k)
  BY <1>1, <1>7, <1>8, <1>9 DEF FiledBehind
<1> QED BY <1>1, <1>6, <1>9, <1>10

-----------------------------------------------------------------------------
(* The order of the maps *)

\* Reached orders the prices: it is reflexive, total and transitive.
LEMMA ReachedIsOrder ==
  ASSUME NEW side, NEW p \in Int, NEW q \in Int, NEW r \in Int
  PROVE  /\ Reached(side, p, p)
         /\ Reached(side, p, q) \/ Reached(side, q, p)
         /\ Reached(side, p, q) /\ Reached(side, q, r) => Reached(side, p, r)
BY DEF Reached

\* A sorted book stays sorted when orders leave its front.
LEMMA DropFirstSorted ==
  ASSUME NEW S, NEW side, NEW book \in Seq(S), NEW n \in 0 .. Len(book),
         Sorted(side, book)
  PROVE  Sorted(side, DropFirst(book, n))
<1>1. /\ Len(DropFirst(book, n)) = Len(book) - n
      /\ \A i \in 1 .. Len(book) - n : DropFirst(book, n)[i] = book[n + i]
  BY DropFirstProperties
<1>2. ASSUME NEW i \in 1 .. Len(book) - n, NEW j \in 1 .. Len(book) - n, i < j
      PROVE  Reached(side, book[n + i].price, book[n + j].price)
  BY <1>2 DEF Sorted
<1> QED BY <1>1, <1>2 DEF Sorted

\* Or when one is taken out.
LEMMA WithoutSorted ==
  ASSUME NEW S, NEW side, NEW book \in Seq(S), NEW i \in 1 .. Len(book),
         Sorted(side, book)
  PROVE  Sorted(side, Without(book, i))
<1> DEFINE from(j) == IF j < i THEN j ELSE j + 1
<1>1. /\ Len(Without(book, i)) = Len(book) - 1
      /\ \A j \in 1 .. Len(book) - 1 : Without(book, i)[j] = book[from(j)]
  BY WithoutProperties
<1>2. ASSUME NEW j \in 1 .. Len(book) - 1, NEW k \in 1 .. Len(book) - 1, j < k
      PROVE  Reached(side, book[from(j)].price, book[from(k)].price)
  <2>1. from(j) \in 1 .. Len(book) /\ from(k) \in 1 .. Len(book) /\ from(j) < from(k)
    BY <1>2
  <2> HIDE DEF from
  <2> QED BY <2>1 DEF Sorted
<1> HIDE DEF from
<1> QED BY <1>1, <1>2 DEF Sorted

\* The orders of a book an order has been filed in are those it had and the order.
LEMMA PushBackElements ==
  ASSUME NEW S, NEW side, NEW book \in Seq(S), NEW o \in S,
         NEW i \in 1 .. Len(book) + 1
  PROVE  \/ PushBack(side, book, o)[i] = o
         \/ \E j \in 1 .. Len(book) : PushBack(side, book, o)[i] = book[j]
<1>1. PICK k \in 0 .. Len(book) : FiledBehind(side, book, o, PushBack(side, book, o), k)
  BY PushBackProperties
<1> USE DEF FiledBehind
<1>2. CASE i <= k
  BY <1>1, <1>2
<1>3. CASE i = k + 1
  BY <1>1, <1>3
<1>4. CASE i > k + 1
  <2>1. i \in k + 2 .. Len(book) + 1 /\ i - 1 \in 1 .. Len(book)
    BY <1>1, <1>4
  <2> QED BY <1>1, <2>1
<1> QED BY <1>1, <1>2, <1>3, <1>4

\* The map files an order behind the prices that come no later and before those
\* that come later: it stays sorted.
LEMMA PushBackSorted ==
  ASSUME NEW S, \A x \in S : x.price \in Int,
         NEW side, NEW book \in Seq(S), NEW o \in S, Sorted(side, book)
  PROVE  Sorted(side, PushBack(side, book, o))
<1> DEFINE filed == PushBack(side, book, o)
<1>0. Len(filed) = Len(book) + 1
  BY PushBackProperties
<1>1. PICK k \in 0 .. Len(book) : FiledBehind(side, book, o, filed, k)
  BY PushBackProperties
<1> USE DEF FiledBehind
<1> HIDE DEF filed
<1>3. \A i \in 1 .. Len(book) : book[i].price \in Int
  BY ElementOfSeq
<1>4. ASSUME NEW i \in 1 .. k PROVE Reached(side, book[i].price, o.price)
  BY <1>1 DEF IsReachedEnd
<1>5. ASSUME NEW i \in k + 1 .. Len(book) PROVE Reached(side, o.price, book[i].price)
  <2>1. k + 1 \in 1 .. Len(book) /\ i \in 1 .. Len(book) /\ k < Len(book)
    BY <1>1
  <2>2. Reached(side, o.price, book[k + 1].price)
    BY <1>1, <1>3, <2>1, ReachedIsOrder DEF IsReachedEnd
  <2>3. Reached(side, book[k + 1].price, book[i].price)
    <3>1. CASE i = k + 1
      BY <1>3, <2>1, <3>1, ReachedIsOrder
    <3>2. CASE i # k + 1
      <4>1. k + 1 < i
        BY <1>1, <3>2
      <4> QED BY <2>1, <4>1 DEF Sorted
    <3> QED BY <3>1, <3>2
  <2> QED BY <1>3, <2>1, <2>2, <2>3, ReachedIsOrder
<1>6. ASSUME NEW i \in 1 .. Len(book) + 1, NEW j \in 1 .. Len(book) + 1, i < j
      PROVE  Reached(side, filed[i].price, filed[j].price)
  <2>1. CASE j <= k
    <3>1. filed[i] = book[i] /\ filed[j] = book[j] /\ i \in 1 .. Len(book) /\ j \in 1 .. Len(book)
      BY <1>1, <1>6, <2>1
    <3> QED BY <1>6, <3>1 DEF Sorted
  <2>2. CASE j = k + 1
    <3>1. filed[i] = book[i] /\ filed[j] = o /\ i \in 1 .. k
      BY <1>1, <1>6, <2>2
    <3> QED BY <1>4, <3>1
  <2>3. CASE j > k + 1 /\ i = k + 1
    <3>1. filed[i] = o /\ filed[j] = book[j - 1] /\ j - 1 \in k + 1 .. Len(book)
      BY <1>1, <2>3
    <3> QED BY <1>5, <3>1
  <2>4. CASE j > k + 1 /\ i # k + 1
    <3> DEFINE h == IF i <= k THEN i ELSE i - 1
    <3>1. /\ filed[i] = book[h] /\ filed[j] = book[j - 1]
          /\ h \in 1 .. Len(book) /\ j - 1 \in 1 .. Len(book) /\ h < j - 1
      BY <1>1, <1>6, <2>4
    <3> HIDE DEF h
    <3> QED BY <3>1 DEF Sorted
  <2> QED BY <1>1, <2>1, <2>2, <2>3, <2>4
<1>7. Len(PushBack(side, book, o)) = Len(book) + 1
  BY <1>0 DEF filed
<1> QED BY <1>6, <1>7 DEF Sorted, filed

-----------------------------------------------------------------------------
(* Sums *)

\* A set of naturals with 0 and with every element's successor holds them all:
\* induction, in the form the provers can use.
LEMMA NatInduct ==
  ASSUME NEW T \in SUBSET Nat, 0 \in T, \A n \in T : n + 1 \in T
  PROVE  T = Nat
<1>1. SUFFICES ASSUME Nat \ T # {} PROVE FALSE
  OBVIOUS
<1>2. PICK m \in Nat \ T : \A y \in Nat \ T : m <= y
  BY <1>1, LeastNat
<1>3. m # 0 /\ m - 1 \in Nat /\ m - 1 < m
  BY <1>2
<1>4. m - 1 \in T
  BY <1>2, <1>3
<1>5. (m - 1) + 1 = m
  BY <1>2
<1> QED BY <1>2, <1>4, <1>5

\* The first n + 1 values of the function SumTo defines.
IsSum(numbers, n, g) == g = [i \in 0 .. n |-> IF i = 0 THEN 0 ELSE g[i - 1] + numbers[i]]

\* There is such a function for every length.
LEMMA IsSumExists ==
  ASSUME NEW numbers, NEW n \in Nat
  PROVE  \E g : IsSum(numbers, n, g)
<1> DEFINE T == {m \in Nat : \E g : IsSum(numbers, m, g)}
<1>1. 0 \in T
  <2> DEFINE g == [i \in 0 .. 0 |-> 0]
  <2>1. IsSum(numbers, 0, g)
    BY DEF IsSum
  <2> HIDE DEF g
  <2> QED BY <2>1
<1>2. ASSUME NEW m \in T PROVE m + 1 \in T
  <2>1. PICK g : IsSum(numbers, m, g)
    OBVIOUS
  <2> DEFINE h == [i \in 0 .. m + 1 |-> IF i = m + 1 THEN g[m] + numbers[m + 1] ELSE g[i]]
  <2>2. g = [i \in 0 .. m |-> IF i = 0 THEN 0 ELSE g[i - 1] + numbers[i]]
    BY <2>1 DEF IsSum
  <2>3. ASSUME NEW i \in 0 .. m + 1
        PROVE  h[i] = IF i = 0 THEN 0 ELSE h[i - 1] + numbers[i]
    <3>1. CASE i = 0
      BY <2>2, <3>1
    <3>2. CASE i = m + 1
      BY <3>2
    <3>3. CASE i # 0 /\ i # m + 1
      <4>1. i \in 0 .. m /\ i - 1 \in 0 .. m /\ i - 1 # m + 1 /\ i - 1 \in 0 .. m + 1
        BY <3>3
      <4>2. h[i] = g[i] /\ h[i - 1] = g[i - 1]
        BY <3>3, <4>1
      <4>3. g[i] = g[i - 1] + numbers[i]
        BY <2>2, <3>3, <4>1
      <4> QED BY <3>3, <4>2, <4>3
    <3> QED BY <3>1, <3>2, <3>3
  <2>4. h = [i \in 0 .. m + 1 |-> h[i]]
    OBVIOUS
  <2> HIDE DEF h
  <2>5. IsSum(numbers, m + 1, h)
    BY <2>3, <2>4 DEF IsSum
  <2> QED BY <2>5
<1>3. T = Nat
  <2> HIDE DEF T
  <2>1. T \in SUBSET Nat
    BY DEF T
  <2> QED BY <1>1, <1>2, <2>1, NatInduct
<1> QED BY <1>3

\* A longer one agrees with it.
LEMMA IsSumUnique ==
  ASSUME NEW numbers, NEW n \in Nat, NEW g, IsSum(numbers, n, g),
         NEW m \in Nat, NEW h, IsSum(numbers, m, h), n <= m
  PROVE  \A i \in 0 .. n : g[i] = h[i]
<1> DEFINE T == {i \in Nat : i <= n => g[i] = h[i]}
<1>1. 0 \in T
  BY DEF IsSum
<1>2. ASSUME NEW i \in T PROVE i + 1 \in T
  <2>1. SUFFICES ASSUME i + 1 <= n PROVE g[i + 1] = h[i + 1]
    OBVIOUS
  <2>2. i + 1 \in 0 .. n /\ i + 1 \in 0 .. m /\ i + 1 # 0 /\ (i + 1) - 1 = i /\ i <= n
    BY <2>1
  <2>3. g[i + 1] = g[i] + numbers[i + 1] /\ h[i + 1] = h[i] + numbers[i + 1]
    BY <2>2 DEF IsSum
  <2> QED BY <2>2, <2>3
<1>3. T = Nat
  <2> HIDE DEF T
  <2>1. T \in SUBSET Nat
    BY DEF T
  <2> QED BY <1>1, <1>2, <2>1, NatInduct
<1> QED BY <1>3

\* So the recursive function of SumTo exists, and satisfies its equation.
LEMMA SumToRecursion ==
  ASSUME NEW numbers
  PROVE  /\ SumTo(numbers, 0) = 0
         /\ \A n \in Nat : SumTo(numbers, n + 1) = SumTo(numbers, n) + numbers[n + 1]
<1> DEFINE part(n) == CHOOSE g : IsSum(numbers, n, g)
           all == [n \in Nat |-> part(n)[n]]
           next(f) == [i \in Nat |-> IF i = 0 THEN 0 ELSE f[i - 1] + numbers[i]]
           sum == CHOOSE f : f = next(f)
<1>1. ASSUME NEW n \in Nat PROVE IsSum(numbers, n, part(n))
  BY IsSumExists
<1> HIDE DEF part
<1>2. ASSUME NEW n \in Nat
      PROVE  all[n] = IF n = 0 THEN 0 ELSE all[n - 1] + numbers[n]
  <2>1. part(n)[n] = IF n = 0 THEN 0 ELSE part(n)[n - 1] + numbers[n]
    <3>1. n \in 0 .. n
      OBVIOUS
    <3> QED BY <1>1, <3>1 DEF IsSum
  <2>2. n # 0 => part(n - 1)[n - 1] = part(n)[n - 1]
    <3>1. SUFFICES ASSUME n # 0 PROVE part(n - 1)[n - 1] = part(n)[n - 1]
      OBVIOUS
    <3>2. n - 1 \in Nat /\ n - 1 <= n /\ n - 1 \in 0 .. n - 1
      BY <3>1
    <3> QED BY <1>1, <3>2, IsSumUnique
  <2>3. n # 0 => n - 1 \in Nat
    OBVIOUS
  <2> QED BY <2>1, <2>2, <2>3
<1>3. all = next(all)
  BY <1>2
<1> HIDE DEF all
<1>4. sum = next(sum)
  <2> HIDE DEF next
  <2> QED BY <1>3
<1>5. \A n \in Nat : SumTo(numbers, n) = sum[n]
  BY DEF SumTo
<1> HIDE DEF sum
<1>6. \A n \in Nat : sum[n] = IF n = 0 THEN 0 ELSE sum[n - 1] + numbers[n]
  BY <1>4
<1> QED BY <1>5, <1>6

\* Sums of integers are integers, and sums of naturals are not negative.
LEMMA SumToType ==
  ASSUME NEW numbers, NEW n \in Nat, \A i \in 1 .. n : numbers[i] \in Int
  PROVE  /\ SumTo(numbers, n) \in Int
         /\ (\A i \in 1 .. n : numbers[i] >= 0) => SumTo(numbers, n) >= 0
<1> DEFINE T == {m \in Nat : m <= n =>
                   /\ SumTo(numbers, m) \in Int
                   /\ (\A i \in 1 .. n : numbers[i] >= 0) => SumTo(numbers, m) >= 0}
<1>1. 0 \in T
  BY SumToRecursion
<1>2. ASSUME NEW m \in T PROVE m + 1 \in T
  <2>1. SumTo(numbers, m + 1) = SumTo(numbers, m) + numbers[m + 1]
    BY SumToRecursion
  <2>2. m + 1 <= n => m <= n /\ m + 1 \in 1 .. n
    OBVIOUS
  <2> QED BY <2>1, <2>2
<1>3. T = Nat
  <2> HIDE DEF T
  <2>1. T \in SUBSET Nat
    BY DEF T
  <2> QED BY <1>1, <1>2, <2>1, NatInduct
<1> QED BY <1>3

\* The sum of a sequence that starts with one and ends with another.
LEMMA SumToConcat ==
  ASSUME NEW n \in Nat, NEW first \in [1 .. n -> Int],
         NEW m \in Nat, NEW second \in [1 .. m -> Int],
         NEW both \in [1 .. n + m -> Int], \A i \in 1 .. n : both[i] = first[i],
         \A i \in 1 .. m : both[n + i] = second[i]
  PROVE  SumTo(both, n + m) = SumTo(first, n) + SumTo(second, m)
<1> DEFINE T == {k \in Nat : k <= n => SumTo(both, k) = SumTo(first, k)}
           V == {k \in Nat : k <= m => SumTo(both, n + k) = SumTo(first, n) + SumTo(second, k)}
<1>1. T = Nat
  <2>1. 0 \in T
    BY SumToRecursion
  <2>2. ASSUME NEW k \in T PROVE k + 1 \in T
    <3>1. SumTo(both, k + 1) = SumTo(both, k) + both[k + 1]
      BY SumToRecursion
    <3>2. SumTo(first, k + 1) = SumTo(first, k) + first[k + 1]
      BY SumToRecursion
    <3>3. k + 1 <= n => k <= n /\ k + 1 \in 1 .. n
      OBVIOUS
    <3> QED BY <3>1, <3>2, <3>3
  <2>3. T \in SUBSET Nat
    OBVIOUS
  <2> HIDE DEF T
  <2> QED BY <2>1, <2>2, <2>3, NatInduct
<1>2. V = Nat
  <2>1. SumTo(first, n) \in Int
    BY SumToType
  <2>2. 0 \in V
    <3>1. SumTo(both, n) = SumTo(first, n)
      <4>1. n \in T
        <5> HIDE DEF T
        <5> QED BY <1>1
      <4> QED BY <4>1
    <3>2. SumTo(second, 0) = 0
      BY SumToRecursion
    <3> QED BY <2>1, <3>1, <3>2
  <2>3. ASSUME NEW k \in V PROVE k + 1 \in V
    <3>1. SUFFICES ASSUME k + 1 <= m
                   PROVE  SumTo(both, n + (k + 1)) = SumTo(first, n) + SumTo(second, k + 1)
      OBVIOUS
    <3>2. k + 1 \in 1 .. m /\ k <= m /\ n + (k + 1) = (n + k) + 1 /\ n + k \in Nat
      BY <3>1
    <3>3. SumTo(both, (n + k) + 1) = SumTo(both, n + k) + both[(n + k) + 1]
      BY <3>2, SumToRecursion
    <3>4. SumTo(second, k + 1) = SumTo(second, k) + second[k + 1]
      BY SumToRecursion
    <3>5. both[n + (k + 1)] = second[k + 1] /\ second[k + 1] \in Int
      BY <3>2
    <3>6. SumTo(second, k) \in Int
      <4>1. \A i \in 1 .. k : second[i] \in Int
        BY <3>2
      <4> QED BY <4>1, SumToType
    <3> QED BY <2>1, <3>2, <3>3, <3>4, <3>5, <3>6
  <2>4. V \in SUBSET Nat
    OBVIOUS
  <2> HIDE DEF V
  <2> QED BY <2>2, <2>3, <2>4, NatInduct
<1>3. m \in V
  <2> HIDE DEF V
  <2> QED BY <1>2
<1> QED BY <1>3

\* Changing one number changes the sum by as much.
LEMMA SumToChanged ==
  ASSUME NEW n \in Nat, NEW before \in [1 .. n -> Int], NEW after \in [1 .. n -> Int],
         NEW k \in 1 .. n,
         \A i \in 1 .. n : i # k => after[i] = before[i]
  PROVE  SumTo(after, n) = SumTo(before, n) + after[k] - before[k]
<1> DEFINE T == {m \in Nat : m <= n =>
                   SumTo(after, m) = IF m < k THEN SumTo(before, m)
                                     ELSE SumTo(before, m) + after[k] - before[k]}
<1>1. 0 \in T
  BY SumToRecursion
<1>2. ASSUME NEW m \in T PROVE m + 1 \in T
  <2>1. SUFFICES ASSUME m + 1 <= n PROVE m + 1 \in T
    OBVIOUS
  <2>2. m + 1 \in 1 .. n /\ m <= n
    BY <2>1
  <2>3. /\ SumTo(after, m + 1) = SumTo(after, m) + after[m + 1]
        /\ SumTo(before, m + 1) = SumTo(before, m) + before[m + 1]
    BY SumToRecursion
  <2>4. SumTo(before, m) \in Int
    <3>1. \A i \in 1 .. m : before[i] \in Int
      BY <2>2
    <3> QED BY <3>1, SumToType
  <2>5. CASE m + 1 < k
    <3>1. m < k /\ after[m + 1] = before[m + 1]
      BY <2>2, <2>5
    <3> QED BY <2>2, <2>3, <2>5, <3>1
  <2>6. CASE m + 1 = k
    BY <2>2, <2>3, <2>4, <2>6
  <2>7. CASE m + 1 > k
    <3>1. ~(m < k) /\ after[m + 1] = before[m + 1]
      BY <2>2, <2>7
    <3> QED BY <2>2, <2>3, <2>4, <2>7, <3>1
  <2> QED BY <2>5, <2>6, <2>7
<1>3. T = Nat
  <2> HIDE DEF T
  <2>1. T \in SUBSET Nat
    BY DEF T
  <2> QED BY <1>1, <1>2, <2>1, NatInduct
<1> QED BY <1>3

-----------------------------------------------------------------------------
(* Quantities *)

\* What a user owns is the sum of the user's shares.
LEMMA QuantityIsSum ==
  ASSUME NEW user, NEW parts, Len(parts) \in Nat
  PROVE  QuantityOf(user, parts)
           = SumTo([i \in 1 .. Len(parts) |-> Share(user, parts[i])], Len(parts))
<1> DEFINE shares == [i \in 1 .. Len(parts) |-> Share(user, parts[i])]
<1>1. Len(shares) = Len(parts)
  OBVIOUS
<1> QED BY <1>1 DEF QuantityOf, Total

\* Quantities are natural numbers.
LEMMA QuantityType ==
  ASSUME NEW S, \A p \in S : p.left \in Nat, NEW parts \in Seq(S), NEW user
  PROVE  QuantityOf(user, parts) \in Nat
<1> DEFINE shares == [i \in 1 .. Len(parts) |-> Share(user, parts[i])]
<1>1. \A i \in 1 .. Len(parts) : shares[i] \in Nat
  BY ElementOfSeq DEF Share
<1>2. Len(parts) \in Nat
  BY LenProperties
<1> HIDE DEF shares
<1>3. SumTo(shares, Len(parts)) \in Int /\ SumTo(shares, Len(parts)) >= 0
  BY <1>1, <1>2, SumToType
<1> QED BY <1>2, <1>3, QuantityIsSum DEF shares

\* Nothing has no quantity.
LEMMA QuantityEmpty ==
  ASSUME NEW user
  PROVE  QuantityOf(user, <<>>) = 0
<1>1. Len(<<>>) = 0 /\ 0 \in Nat
  OBVIOUS
<1>2. QuantityOf(user, <<>>) = SumTo([i \in 1 .. 0 |-> Share(user, <<>>[i])], 0)
  BY ONLY <1>1, QuantityIsSum
<1> QED BY <1>2, SumToRecursion

\* The quantities of two sequences add up.
LEMMA QuantityConcat ==
  ASSUME NEW S, \A p \in S : p.left \in Nat, NEW user,
         NEW first \in Seq(S), NEW second \in Seq(S)
  PROVE  QuantityOf(user, first \o second)
           = QuantityOf(user, first) + QuantityOf(user, second)
<1> DEFINE both == first \o second
           shares(parts) == [i \in 1 .. Len(parts) |-> Share(user, parts[i])]
<1>1. /\ both \in Seq(S) /\ Len(both) = Len(first) + Len(second)
      /\ Len(first) \in Nat /\ Len(second) \in Nat
      /\ \A i \in 1 .. Len(both) :
           both[i] = IF i <= Len(first) THEN first[i] ELSE second[i - Len(first)]
  BY ConcatProperties, LenProperties
<1> HIDE DEF both
<1>2. \A i \in 1 .. Len(first) : shares(both)[i] = shares(first)[i]
  BY <1>1
<1>3. \A i \in 1 .. Len(second) : shares(both)[Len(first) + i] = shares(second)[i]
  <2>1. ASSUME NEW i \in 1 .. Len(second)
        PROVE  shares(both)[Len(first) + i] = shares(second)[i]
    <3>1. /\ Len(first) + i \in 1 .. Len(both) /\ ~(Len(first) + i <= Len(first))
          /\ (Len(first) + i) - Len(first) = i
      BY <1>1
    <3>2. both[Len(first) + i] = second[i]
      BY <1>1, <3>1
    <3> QED BY <3>1, <3>2
  <2> QED BY <2>1
<1>4. ASSUME NEW parts \in Seq(S)
      PROVE  /\ shares(parts) \in [1 .. Len(parts) -> Int]
             /\ QuantityOf(user, parts) = SumTo(shares(parts), Len(parts))
  <2>1. \A i \in 1 .. Len(parts) : Share(user, parts[i]) \in Int
    BY ElementOfSeq DEF Share
  <2>2. Len(parts) \in Nat
    BY LenProperties
  <2> QED BY <2>1, <2>2, QuantityIsSum
<1> HIDE DEF shares
<1>5. SumTo(shares(both), Len(first) + Len(second))
        = SumTo(shares(first), Len(first)) + SumTo(shares(second), Len(second))
  BY <1>1, <1>2, <1>3, <1>4, SumToConcat
<1> QED BY <1>1, <1>4, <1>5 DEF both

\* A single part is the share it gives.
LEMMA QuantitySingle ==
  ASSUME NEW S, \A p \in S : p.left \in Nat, NEW user, NEW p \in S
  PROVE  QuantityOf(user, <<p>>) = Share(user, p) /\ Share(user, p) \in Nat
<1> DEFINE shares == [i \in 1 .. 1 |-> Share(user, <<p>>[i])]
<1>1. QuantityOf(user, <<p>>) = SumTo(shares, 1)
  <2>1. Len(<<p>>) = 1 /\ 1 \in Nat
    OBVIOUS
  <2> QED BY ONLY <2>1, QuantityIsSum
<1>2. shares[1] = Share(user, p) /\ Share(user, p) \in Nat
  BY DEF Share
<1> HIDE DEF shares
<1>3. SumTo(shares, 0 + 1) = SumTo(shares, 0) + shares[0 + 1] /\ SumTo(shares, 0) = 0
  BY SumToRecursion
<1> QED BY <1>1, <1>2, <1>3

\* A part that is appended adds its share.
LEMMA QuantityAppend ==
  ASSUME NEW S, \A p \in S : p.left \in Nat, NEW user, NEW parts \in Seq(S), NEW p \in S
  PROVE  QuantityOf(user, Append(parts, p)) = QuantityOf(user, parts) + Share(user, p)
<1>1. Append(parts, p) = parts \o <<p>> /\ <<p>> \in Seq(S)
  BY AppendIsConcat
<1>2. QuantityOf(user, parts \o <<p>>) = QuantityOf(user, parts) + QuantityOf(user, <<p>>)
  BY <1>1, QuantityConcat
<1>3. QuantityOf(user, <<p>>) = Share(user, p)
  BY QuantitySingle
<1> QED BY <1>1, <1>2, <1>3

\* A book is its first orders and the rest.
LEMMA SplitAt ==
  ASSUME NEW S, NEW book \in Seq(S), NEW n \in 0 .. Len(book)
  PROVE  book = SubSeq(book, 1, n) \o DropFirst(book, n)
<1>1. /\ SubSeq(book, 1, n) \in Seq(S) /\ Len(SubSeq(book, 1, n)) = n
      /\ \A i \in 1 .. n : SubSeq(book, 1, n)[i] = book[i]
  BY PrefixProperties
<1>2. /\ DropFirst(book, n) \in Seq(S) /\ Len(DropFirst(book, n)) = Len(book) - n
      /\ \A i \in 1 .. Len(book) - n : DropFirst(book, n)[i] = book[n + i]
  BY DropFirstProperties
<1> DEFINE both == SubSeq(book, 1, n) \o DropFirst(book, n)
<1>3. /\ both \in Seq(S) /\ Len(both) = Len(book)
      /\ \A i \in 1 .. Len(book) :
           both[i] = IF i <= n THEN SubSeq(book, 1, n)[i] ELSE DropFirst(book, n)[i - n]
  BY <1>1, <1>2, ConcatProperties
<1> HIDE DEF both
<1>4. ASSUME NEW i \in 1 .. Len(book) PROVE both[i] = book[i]
  <2>1. CASE i <= n
    BY <1>1, <1>3, <2>1
  <2>2. CASE ~(i <= n)
    <3>1. i - n \in 1 .. Len(book) - n /\ n + (i - n) = i
      BY <2>2
    <3> QED BY <1>2, <1>3, <2>2, <3>1
  <2> QED BY <2>1, <2>2
<1>5. both = book
  BY <1>3, <1>4, SeqEqual
<1> QED BY <1>5 DEF both

\* And so is its quantity.
LEMMA QuantitySplit ==
  ASSUME NEW S, \A p \in S : p.left \in Nat, NEW user, NEW book \in Seq(S),
         NEW n \in 0 .. Len(book)
  PROVE  QuantityOf(user, book)
           = QuantityOf(user, SubSeq(book, 1, n)) + QuantityOf(user, DropFirst(book, n))
<1>1. SubSeq(book, 1, n) \in Seq(S) /\ DropFirst(book, n) \in Seq(S)
  BY PrefixProperties, DropFirstProperties
<1>2. book = SubSeq(book, 1, n) \o DropFirst(book, n)
  BY SplitAt
<1> QED BY <1>1, <1>2, QuantityConcat

\* Without the first of its parts.
LEMMA QuantityTail ==
  ASSUME NEW S, \A p \in S : p.left \in Nat, NEW user, NEW parts \in Seq(S), parts # <<>>
  PROVE  /\ QuantityOf(user, parts) = Share(user, Head(parts)) + QuantityOf(user, Tail(parts))
         /\ Head(parts) \in S /\ Tail(parts) \in Seq(S)
<1>1. /\ Head(parts) \in S /\ Tail(parts) \in Seq(S)
      /\ parts = <<Head(parts)>> \o Tail(parts)
  BY HeadTailProperties, ConcatSimplifications
<1>2. <<Head(parts)>> \in Seq(S)
  BY <1>1
<1>3. QuantityOf(user, <<Head(parts)>> \o Tail(parts))
        = QuantityOf(user, <<Head(parts)>>) + QuantityOf(user, Tail(parts))
  BY <1>1, <1>2, QuantityConcat
<1>4. QuantityOf(user, <<Head(parts)>>) = Share(user, Head(parts))
  BY <1>1, QuantitySingle
<1> QED BY <1>1, <1>3, <1>4

\* Filing an order adds its quantity, wherever in the book it goes.
LEMMA QuantityPushBack ==
  ASSUME NEW S, \A p \in S : p.left \in Nat, NEW user, NEW side, NEW book \in Seq(S), NEW o \in S
  PROVE  QuantityOf(user, PushBack(side, book, o)) = QuantityOf(user, book) + Share(user, o)
<1> DEFINE k == ReachedEnd(side, book, 0, o.price)
           before == SubSeq(book, 1, k)
           behind == DropFirst(book, k)
<1>1. k \in 0 .. Len(book)
  BY ReachedEndExists, LenProperties
<1>2. PushBack(side, book, o) = (before \o <<o>>) \o behind
  BY DEF PushBack, DropFirst
<1> HIDE DEF k
<1>3. before \in Seq(S) /\ behind \in Seq(S) /\ <<o>> \in Seq(S)
  BY <1>1, PrefixProperties, DropFirstProperties
<1>4. QuantityOf(user, book) = QuantityOf(user, before) + QuantityOf(user, behind)
  BY <1>1, QuantitySplit
<1> HIDE DEF before, behind
<1>5. before \o <<o>> \in Seq(S)
  BY <1>3, ConcatProperties
<1>6. QuantityOf(user, (before \o <<o>>) \o behind)
        = QuantityOf(user, before \o <<o>>) + QuantityOf(user, behind)
  BY <1>3, <1>5, QuantityConcat
<1>7. QuantityOf(user, before \o <<o>>) = QuantityOf(user, before) + QuantityOf(user, <<o>>)
  BY <1>3, QuantityConcat
<1>8. QuantityOf(user, <<o>>) = Share(user, o)
  BY QuantitySingle
<1>9. /\ QuantityOf(user, before) \in Nat /\ QuantityOf(user, behind) \in Nat
      /\ Share(user, o) \in Nat
  BY <1>3, QuantityType, QuantitySingle
<1> QED BY <1>2, <1>4, <1>6, <1>7, <1>8, <1>9

\* Taking an order out takes its quantity away.
LEMMA QuantityWithout ==
  ASSUME NEW S, \A p \in S : p.left \in Nat, NEW user, NEW book \in Seq(S),
         NEW i \in 1 .. Len(book)
  PROVE  QuantityOf(user, book) = QuantityOf(user, Without(book, i)) + Share(user, book[i])
<1> DEFINE before == SubSeq(book, 1, i - 1)
           from == DropFirst(book, i - 1)
           behind == DropFirst(book, i)
<1>1. i - 1 \in 0 .. Len(book) /\ i \in 0 .. Len(book) /\ book[i] \in S
  BY ElementOfSeq
<1>2. before \in Seq(S) /\ from \in Seq(S) /\ behind \in Seq(S)
  BY <1>1, PrefixProperties, DropFirstProperties
<1>3. QuantityOf(user, book) = QuantityOf(user, before) + QuantityOf(user, from)
  BY <1>1, QuantitySplit
<1>4. Without(book, i) = before \o behind
  BY DEF Without, DropFirst
<1>5. from # <<>> /\ Head(from) = book[i] /\ Tail(from) = behind
  <2>1. /\ Len(from) = Len(book) - (i - 1)
        /\ \A j \in 1 .. Len(book) - (i - 1) : from[j] = book[(i - 1) + j]
    BY <1>1, DropFirstProperties
  <2>2. /\ Len(behind) = Len(book) - i
        /\ \A j \in 1 .. Len(book) - i : behind[j] = book[i + j]
    BY <1>1, DropFirstProperties
  <2> HIDE DEF from, behind
  <2>3. from # <<>> /\ 1 \in 1 .. Len(book) - (i - 1) /\ (i - 1) + 1 = i
    BY <2>1
  <2>4. Head(from) = from[1] /\ Tail(from) \in Seq(S) /\ Len(Tail(from)) = Len(from) - 1
        /\ \A j \in 1 .. Len(Tail(from)) : Tail(from)[j] = from[j + 1]
    BY <1>2, <2>3, HeadTailProperties
  <2>8. Len(book) \in Nat /\ Len(Tail(from)) = Len(book) - i
    <3>1. Len(from) = Len(book) - (i - 1) /\ Len(Tail(from)) = Len(from) - 1
      BY <2>1, <2>4
    <3>2. Len(book) \in Nat /\ i \in Nat
      BY LenProperties
    <3> QED BY <3>1, <3>2
  <2>5. ASSUME NEW j \in 1 .. Len(Tail(from)) PROVE Tail(from)[j] = behind[j]
    <3>1. j + 1 \in 1 .. Len(book) - (i - 1) /\ (i - 1) + (j + 1) = i + j /\ j \in 1 .. Len(book) - i
      BY <2>8
    <3>2. Tail(from)[j] = from[j + 1]
      BY <2>4
    <3>3. from[j + 1] = book[(i - 1) + (j + 1)] /\ behind[j] = book[i + j]
      BY <2>1, <2>2, <3>1
    <3> QED BY <3>1, <3>2, <3>3
  <2>6. Len(Tail(from)) = Len(behind)
    BY <2>2, <2>8
  <2>7. Tail(from) = behind
    BY <1>2, <2>4, <2>5, <2>6, SeqEqual
  <2> QED BY <2>1, <2>3, <2>4, <2>7
<1> HIDE DEF before, from, behind
<1>6. QuantityOf(user, from) = Share(user, book[i]) + QuantityOf(user, behind)
  BY <1>2, <1>5, QuantityTail
<1>7. QuantityOf(user, before \o behind) = QuantityOf(user, before) + QuantityOf(user, behind)
  BY <1>2, QuantityConcat
<1>8. /\ QuantityOf(user, before) \in Nat /\ QuantityOf(user, behind) \in Nat
      /\ Share(user, book[i]) \in Nat
  BY <1>1, <1>2, QuantityType, QuantitySingle
<1> QED BY <1>3, <1>4, <1>6, <1>7, <1>8

\* Changing the first order changes its share only.
LEMMA QuantityFirstChanged ==
  ASSUME NEW S, \A p \in S : p.left \in Nat, NEW user, NEW parts \in Seq(S), parts # <<>>,
         NEW first \in S
  PROVE  QuantityOf(user, [parts EXCEPT ![1] = first])
           = QuantityOf(user, parts) - Share(user, parts[1]) + Share(user, first)
<1> DEFINE changed == [parts EXCEPT ![1] = first]
<1>1. 1 \in 1 .. Len(parts) /\ Len(parts) \in Nat
  BY EmptySeq, LenProperties
<1>2. /\ changed \in Seq(S) /\ Len(changed) = Len(parts) /\ changed[1] = first
      /\ \A i \in 1 .. Len(parts) : i # 1 => changed[i] = parts[i]
  BY <1>1, ExceptSeq
<1> HIDE DEF changed
<1>3. Head(parts) = parts[1] /\ Head(changed) = first /\ changed # <<>>
  BY <1>1, <1>2
<1>4. Tail(changed) = Tail(parts)
  <2>1. /\ Tail(parts) \in Seq(S) /\ Len(Tail(parts)) = Len(parts) - 1
        /\ \A i \in 1 .. Len(Tail(parts)) : Tail(parts)[i] = parts[i + 1]
    BY HeadTailProperties
  <2>2. /\ Tail(changed) \in Seq(S) /\ Len(Tail(changed)) = Len(changed) - 1
        /\ \A i \in 1 .. Len(Tail(changed)) : Tail(changed)[i] = changed[i + 1]
    BY <1>2, <1>3, HeadTailProperties
  <2>3. ASSUME NEW i \in 1 .. Len(Tail(parts)) PROVE Tail(changed)[i] = Tail(parts)[i]
    <3>1. i + 1 \in 1 .. Len(parts) /\ i + 1 # 1 /\ i \in 1 .. Len(Tail(changed))
      BY <1>1, <1>2, <2>1, <2>2
    <3> QED BY <1>2, <2>1, <2>2, <3>1
  <2>4. Len(Tail(changed)) = Len(Tail(parts))
    BY <1>2, <2>1, <2>2
  <2> QED BY <2>1, <2>2, <2>3, <2>4, SeqEqual
<1>5. QuantityOf(user, parts) = Share(user, parts[1]) + QuantityOf(user, Tail(parts))
  BY <1>3, QuantityTail
<1>6. QuantityOf(user, changed) = Share(user, first) + QuantityOf(user, Tail(parts))
  <2>1. QuantityOf(user, changed) = Share(user, Head(changed)) + QuantityOf(user, Tail(changed))
    BY <1>2, <1>3, QuantityTail
  <2> QED BY <1>3, <1>4, <2>1
<1>7. /\ Tail(parts) \in Seq(S) /\ QuantityOf(user, Tail(parts)) \in Nat
      /\ Share(user, parts[1]) \in Nat /\ Share(user, first) \in Nat
  <2>1. Tail(parts) \in Seq(S) /\ parts[1] \in S
    BY <1>1, HeadTailProperties, ElementOfSeq
  <2> QED BY <2>1, QuantityType, QuantitySingle
<1> QED BY <1>5, <1>6, <1>7 DEF changed

\* The order in which TotalOver visits a finite set has each element once.
LEMMA SetToSeqProperties ==
  ASSUME NEW S, IsFiniteSet(S)
  PROVE  /\ Cardinality(S) \in Nat
         /\ SetToSeq(S) \in [1 .. Cardinality(S) -> S]
         /\ \A x \in S : \E k \in 1 .. Cardinality(S) :
              /\ SetToSeq(S)[k] = x
              /\ \A i \in 1 .. Cardinality(S) : i # k => SetToSeq(S)[i] # x
<1> DEFINE n == Cardinality(S)
           order == SetToSeq(S)
<1>1. n \in Nat /\ ExistsBijection(1 .. n, S)
  BY FS_CardinalityType
<1>2. \E f \in [1 .. n -> S] : IsInjective(f)
  BY <1>1 DEF ExistsBijection, Bijection, Injection, IsInjective
<1>3. order \in [1 .. n -> S] /\ IsInjective(order)
  BY <1>2 DEF SetToSeq
<1>4. \A i, k \in 1 .. n : order[i] = order[k] => i = k
  BY <1>3 DEF IsInjective
<1> HIDE DEF n, order
<1>5. ASSUME NEW x \in S PROVE \E k \in 1 .. n : order[k] = x
  <2>1. SUFFICES ASSUME \A k \in 1 .. n : order[k] # x PROVE FALSE
    OBVIOUS
  <2>2. order \in [1 .. n -> S \ {x}]
    BY <1>3, <2>1
  <2>3. IsFiniteSet(S \ {x}) /\ Cardinality(S \ {x}) < n
    <3>1. IsFiniteSet(S \ {x}) /\ Cardinality(S \ {x}) = Cardinality(S) - 1
      BY FS_RemoveElement
    <3> QED BY <1>1, <3>1 DEF n
  <2>4. IsFiniteSet(1 .. n) /\ Cardinality(1 .. n) = n
    BY <1>1, FS_Interval
  <2>5. \E i, k \in 1 .. n : i # k /\ order[i] = order[k]
    BY <2>2, <2>3, <2>4, FS_PigeonHole
  <2> QED BY <1>4, <2>5
<1> QED BY <1>1, <1>3, <1>4, <1>5 DEF n, order

\* Changing the value of one element changes the total by as much.
LEMMA TotalOverChanged ==
  ASSUME NEW S, IsFiniteSet(S), NEW before \in [S -> Int], NEW after \in [S -> Int],
         NEW x \in S, \A y \in S : y # x => after[y] = before[y]
  PROVE  TotalOver(S, after) = TotalOver(S, before) + after[x] - before[x]
<1> DEFINE n == Cardinality(S)
           order == SetToSeq(S)
           values(f) == [i \in 1 .. n |-> f[order[i]]]
<1>1. n \in Nat /\ order \in [1 .. n -> S]
  BY SetToSeqProperties
<1>2. PICK k \in 1 .. n : order[k] = x /\ \A i \in 1 .. n : i # k => order[i] # x
  BY SetToSeqProperties
<1>3. TotalOver(S, before) = SumTo(values(before), n) /\ TotalOver(S, after) = SumTo(values(after), n)
  BY DEF TotalOver
<1> HIDE DEF n, order
<1> DEFINE f == values(before)
           g == values(after)
<1>4. /\ f \in [1 .. n -> Int] /\ g \in [1 .. n -> Int]
      /\ f[k] = before[x] /\ g[k] = after[x]
      /\ \A i \in 1 .. n : i # k => g[i] = f[i]
  BY <1>1, <1>2
<1>5. TotalOver(S, before) = SumTo(f, n) /\ TotalOver(S, after) = SumTo(g, n)
  BY <1>3
<1> HIDE DEF f, g, values
<1>6. SumTo(g, n) = SumTo(f, n) + g[k] - f[k]
  BY <1>1, <1>4, SumToChanged
<1> QED BY <1>4, <1>5, <1>6

\* Totals of integers are integers.
LEMMA TotalOverType ==
  ASSUME NEW S, IsFiniteSet(S), NEW f \in [S -> Int]
  PROVE  TotalOver(S, f) \in Int
<1> DEFINE n == Cardinality(S)
           order == SetToSeq(S)
           values == [i \in 1 .. n |-> f[order[i]]]
<1>1. n \in Nat /\ order \in [1 .. n -> S]
  BY SetToSeqProperties
<1>2. TotalOver(S, f) = SumTo(values, n)
  BY DEF TotalOver
<1> HIDE DEF n, order
<1>3. \A i \in 1 .. n : values[i] \in Int
  BY <1>1
<1> HIDE DEF values
<1> QED BY <1>1, <1>2, <1>3, SumToType

\* Nothing comes to nothing.
LEMMA TotalOverZero ==
  ASSUME NEW S, IsFiniteSet(S), NEW f \in [S -> Int], \A x \in S : f[x] = 0
  PROVE  TotalOver(S, f) = 0
<1> DEFINE n == Cardinality(S)
           order == SetToSeq(S)
           values == [i \in 1 .. n |-> f[order[i]]]
           T == {m \in Nat : m <= n => SumTo(values, m) = 0}
<1>1. n \in Nat /\ order \in [1 .. n -> S]
  BY SetToSeqProperties
<1>2. TotalOver(S, f) = SumTo(values, n)
  BY DEF TotalOver
<1> HIDE DEF n, order
<1>3. \A i \in 1 .. n : values[i] = 0
  BY <1>1
<1> HIDE DEF values
<1>4. 0 \in T
  BY SumToRecursion
<1>5. ASSUME NEW m \in T PROVE m + 1 \in T
  <2>1. SUFFICES ASSUME m + 1 <= n PROVE SumTo(values, m + 1) = 0
    OBVIOUS
  <2>2. m <= n /\ m + 1 \in 1 .. n
    BY <1>1, <2>1
  <2>3. SumTo(values, m) = 0 /\ values[m + 1] = 0
    BY <1>3, <2>2
  <2>4. SumTo(values, m + 1) = SumTo(values, m) + values[m + 1]
    BY SumToRecursion
  <2> QED BY <2>3, <2>4
<1>6. T = Nat
  <2> HIDE DEF T
  <2>1. T \in SUBSET Nat
    BY DEF T
  <2> QED BY <1>4, <1>5, <2>1, NatInduct
<1> QED BY <1>1, <1>2, <1>6

-----------------------------------------------------------------------------
(* Ids *)

\* How often an id is in a sequence of ids, and in a sequence of orders.
Token(id) == [user |-> id, left |-> 1]
Tokens(ids) == [i \in 1 .. Len(ids) |-> Token(ids[i])]
Times(id, ids) == QuantityOf(id, Tokens(ids))
Held(id, orders) == Times(id, Ids(orders))

\* The tokens of ids are parts with a natural number left.
LEMMA TokensType ==
  ASSUME NEW S, NEW ids \in Seq(S)
  PROVE  /\ Tokens(ids) \in Seq({Token(x) : x \in S}) /\ Len(Tokens(ids)) = Len(ids)
         /\ \A t \in {Token(x) : x \in S} : t.left \in Nat
<1>1. Len(ids) \in Nat /\ \A i \in 1 .. Len(ids) : ids[i] \in S
  BY ElementOfSeq, LenProperties
<1>2. \A i \in 1 .. Len(ids) : Token(ids[i]) \in {Token(x) : x \in S}
  BY <1>1
<1>3. \A t \in {Token(x) : x \in S} : t.left \in Nat
  BY DEF Token
<1> QED BY <1>1, <1>2, <1>3 DEF Tokens

\* An id is in a sequence of ids a natural number of times.
LEMMA TimesType ==
  ASSUME NEW S, NEW ids \in Seq(S), NEW x
  PROVE  Times(x, ids) \in Nat
<1>1. /\ Tokens(ids) \in Seq({Token(y) : y \in S})
      /\ \A t \in {Token(y) : y \in S} : t.left \in Nat
  BY TokensType
<1> QED BY <1>1, QuantityType DEF Times

\* Two sequences in a row have the ids of both.
LEMMA TimesConcat ==
  ASSUME NEW S, NEW first \in Seq(S), NEW second \in Seq(S), NEW x
  PROVE  Times(x, first \o second) = Times(x, first) + Times(x, second)
<1> DEFINE both == first \o second
<1>1. /\ both \in Seq(S) /\ Len(both) = Len(first) + Len(second)
      /\ Len(first) \in Nat /\ Len(second) \in Nat
      /\ \A i \in 1 .. Len(both) :
           both[i] = IF i <= Len(first) THEN first[i] ELSE second[i - Len(first)]
  BY ConcatProperties, LenProperties
<1> HIDE DEF both
<1>2. /\ Tokens(first) \in Seq({Token(y) : y \in S}) /\ Len(Tokens(first)) = Len(first)
      /\ Tokens(second) \in Seq({Token(y) : y \in S}) /\ Len(Tokens(second)) = Len(second)
      /\ Tokens(both) \in Seq({Token(y) : y \in S}) /\ Len(Tokens(both)) = Len(both)
      /\ \A t \in {Token(y) : y \in S} : t.left \in Nat
  BY <1>1, TokensType
<1> DEFINE tokens == Tokens(first) \o Tokens(second)
<1>3. /\ tokens \in Seq({Token(y) : y \in S}) /\ Len(tokens) = Len(both)
      /\ \A i \in 1 .. Len(both) : tokens[i] = IF i <= Len(first) THEN Tokens(first)[i]
                                               ELSE Tokens(second)[i - Len(first)]
  <2> DEFINE T == {Token(y) : y \in S}
             a == Tokens(first)
             b == Tokens(second)
  <2>1. a \in Seq(T) /\ b \in Seq(T) /\ Len(a) = Len(first) /\ Len(b) = Len(second)
    BY <1>2
  <2> HIDE DEF T, a, b
  <2>2. /\ a \o b \in Seq(T) /\ Len(a \o b) = Len(a) + Len(b)
        /\ \A i \in 1 .. Len(a) + Len(b) : (a \o b)[i] = IF i <= Len(a) THEN a[i] ELSE b[i - Len(a)]
    BY <2>1, ConcatProperties
  <2> QED BY <1>1, <2>1, <2>2 DEF T, a, b
<1> HIDE DEF tokens
<1>4. ASSUME NEW i \in 1 .. Len(both) PROVE Tokens(both)[i] = tokens[i]
  <2>1. CASE i <= Len(first)
    <3>1. i \in 1 .. Len(first)
      BY <1>1, <2>1
    <3> QED BY <1>1, <1>3, <2>1, <3>1 DEF Tokens
  <2>2. CASE ~(i <= Len(first))
    <3>1. i - Len(first) \in 1 .. Len(second)
      BY <1>1, <2>2
    <3> QED BY <1>1, <1>3, <2>2, <3>1 DEF Tokens
  <2> QED BY <2>1, <2>2
<1>5. Tokens(both) = tokens
  BY <1>2, <1>3, <1>4, SeqEqual
<1>6. QuantityOf(x, tokens) = QuantityOf(x, Tokens(first)) + QuantityOf(x, Tokens(second))
  BY <1>2, QuantityConcat DEF tokens
<1> QED BY <1>5, <1>6 DEF Times, both

\* No id is in nothing, and one is in a sequence of one id.
LEMMA TimesSingle ==
  ASSUME NEW id, NEW x
  PROVE  /\ Times(x, <<>>) = 0
         /\ Times(x, <<id>>) = (IF x = id THEN 1 ELSE 0)
<1>1. Tokens(<<>>) = <<>> /\ Tokens(<<id>>) = <<Token(id)>>
  BY DEF Tokens
<1>2. Token(id) \in {Token(id)} /\ \A t \in {Token(id)} : t.left \in Nat
  BY DEF Token
<1>3. QuantityOf(x, <<Token(id)>>) = Share(x, Token(id))
  BY <1>2, QuantitySingle
<1>4. Share(x, Token(id)) = (IF x = id THEN 1 ELSE 0)
  BY DEF Share, Token
<1>5. QuantityOf(x, <<>>) = 0
  BY QuantityEmpty
<1> QED BY <1>1, <1>3, <1>4, <1>5 DEF Times

\* An id at some position is there at least once.
LEMMA TimesAtLeast ==
  ASSUME NEW S, NEW ids \in Seq(S), NEW i \in 1 .. Len(ids)
  PROVE  Times(ids[i], ids) >= 1
<1> DEFINE before == SubSeq(ids, 1, i - 1)
           from == DropFirst(ids, i - 1)
<1>1. i - 1 \in 0 .. Len(ids) /\ ids = before \o from
  <2>1. i - 1 \in 0 .. Len(ids)
    BY LenProperties
  <2> QED BY <2>1, SplitAt
<1>2. before \in Seq(S) /\ from \in Seq(S) /\ Len(from) = Len(ids) - (i - 1)
      /\ \A j \in 1 .. Len(ids) - (i - 1) : from[j] = ids[(i - 1) + j]
  BY <1>1, PrefixProperties, DropFirstProperties
<1> HIDE DEF before, from
<1>3. from # <<>> /\ from[1] = ids[i]
  BY <1>2, LenProperties
<1>4. Tail(from) \in Seq(S) /\ from = <<ids[i]>> \o Tail(from) /\ ids[i] \in S
  <2>1. Head(from) = ids[i] /\ Tail(from) \in Seq(S) /\ from = <<Head(from)>> \o Tail(from)
    BY <1>2, <1>3, HeadTailProperties, ConcatSimplifications
  <2>2. ids[i] \in S
    BY ElementOfSeq
  <2> QED BY <2>1, <2>2
<1>5. <<ids[i]>> \in Seq(S)
  BY <1>4
<1>6. Times(ids[i], from) = Times(ids[i], <<ids[i]>>) + Times(ids[i], Tail(from))
  BY <1>4, <1>5, TimesConcat
<1>7. Times(ids[i], ids) = Times(ids[i], before) + Times(ids[i], from)
  BY <1>1, <1>2, TimesConcat
<1>8. Times(ids[i], <<ids[i]>>) = 1
  BY TimesSingle
<1>9. Times(ids[i], before) \in Nat /\ Times(ids[i], Tail(from)) \in Nat
  BY <1>2, <1>4, TimesType
<1> QED BY <1>6, <1>7, <1>8, <1>9

\* A sequence in which each id is at most once has different ids everywhere.
LEMMA OnceInjective ==
  ASSUME NEW S, NEW ids \in Seq(S), \A x \in S : Times(x, ids) <= 1
  PROVE  IsInjective(ids)
<1>1. ASSUME NEW i \in 1 .. Len(ids), NEW j \in 1 .. Len(ids), i < j, ids[i] = ids[j]
      PROVE  FALSE
  <2> DEFINE first == SubSeq(ids, 1, i)
             rest == DropFirst(ids, i)
  <2>1. i \in 0 .. Len(ids) /\ ids = first \o rest /\ Len(ids) \in Nat
    BY SplitAt, LenProperties
  <2>2. /\ first \in Seq(S) /\ Len(first) = i /\ \A k \in 1 .. i : first[k] = ids[k]
        /\ rest \in Seq(S) /\ Len(rest) = Len(ids) - i
        /\ \A k \in 1 .. Len(ids) - i : rest[k] = ids[i + k]
    BY <2>1, PrefixProperties, DropFirstProperties
  <2> HIDE DEF first, rest
  <2>3. /\ i \in 1 .. Len(first) /\ first[i] = ids[i]
        /\ j - i \in 1 .. Len(rest) /\ rest[j - i] = ids[i]
    <3>1. j - i \in 1 .. Len(ids) - i /\ i + (j - i) = j
      BY <1>1, <2>1
    <3>2. rest[j - i] = ids[i + (j - i)]
      BY <2>2, <3>1
    <3>3. i \in 1 .. i
      BY <2>1
    <3> QED BY <1>1, <2>2, <3>1, <3>2, <3>3
  <2>4. Times(ids[i], first) >= 1 /\ Times(ids[i], rest) >= 1
    BY <2>2, <2>3, TimesAtLeast
  <2>5. Times(ids[i], ids) = Times(ids[i], first) + Times(ids[i], rest)
    BY <2>1, <2>2, TimesConcat
  <2>6. Times(ids[i], first) \in Nat /\ Times(ids[i], rest) \in Nat
    BY <2>2, TimesType
  <2>7. Times(ids[i], ids) <= 1
    BY ElementOfSeq
  <2> QED BY <2>4, <2>5, <2>6, <2>7
<1>2. DOMAIN ids = 1 .. Len(ids) /\ Len(ids) \in Nat
  BY LenProperties
<1>3. \A i, j \in 1 .. Len(ids) : ids[i] = ids[j] => i = j
  BY <1>1, <1>2
<1> QED BY <1>2, <1>3 DEF IsInjective

\* The ids of orders, one for each.
LEMMA IdsType ==
  ASSUME NEW S, NEW orders \in Seq(S)
  PROVE  /\ Ids(orders) \in Seq({o.id : o \in S}) /\ Len(Ids(orders)) = Len(orders)
         /\ \A i \in 1 .. Len(orders) : Ids(orders)[i] = orders[i].id
<1>1. /\ DOMAIN orders = 1 .. Len(orders) /\ Len(orders) \in Nat
      /\ \A i \in 1 .. Len(orders) : orders[i] \in S
  BY ElementOfSeq, LenProperties
<1> QED BY <1>1 DEF Ids

\* Orders in a row have their ids in a row.
LEMMA IdsConcat ==
  ASSUME NEW S, NEW first \in Seq(S), NEW second \in Seq(S)
  PROVE  Ids(first \o second) = Ids(first) \o Ids(second)
<1> DEFINE both == first \o second
           a == Ids(first)
           b == Ids(second)
           X == {o.id : o \in S}
<1>1. /\ both \in Seq(S) /\ Len(both) = Len(first) + Len(second)
      /\ Len(first) \in Nat /\ Len(second) \in Nat
      /\ \A i \in 1 .. Len(both) :
           both[i] = IF i <= Len(first) THEN first[i] ELSE second[i - Len(first)]
  BY ConcatProperties, LenProperties
<1> HIDE DEF both
<1>2. /\ Ids(both) \in Seq(X) /\ Len(Ids(both)) = Len(both)
      /\ \A i \in 1 .. Len(both) : Ids(both)[i] = both[i].id
  BY <1>1, IdsType
<1>3. /\ a \in Seq(X) /\ Len(a) = Len(first) /\ \A i \in 1 .. Len(first) : a[i] = first[i].id
      /\ b \in Seq(X) /\ Len(b) = Len(second) /\ \A i \in 1 .. Len(second) : b[i] = second[i].id
  BY IdsType
<1> HIDE DEF a, b, X
<1>4. /\ a \o b \in Seq(X) /\ Len(a \o b) = Len(both)
      /\ \A i \in 1 .. Len(both) :
           (a \o b)[i] = IF i <= Len(first) THEN a[i] ELSE b[i - Len(first)]
  <2>1. /\ a \o b \in Seq(X) /\ Len(a \o b) = Len(a) + Len(b)
        /\ \A i \in 1 .. Len(a) + Len(b) : (a \o b)[i] = IF i <= Len(a) THEN a[i] ELSE b[i - Len(a)]
    <3>1. a \in Seq(X) /\ b \in Seq(X)
      BY <1>3
    <3> QED BY <3>1, ConcatProperties
  <2> QED BY <1>1, <1>3, <2>1
<1>5. ASSUME NEW i \in 1 .. Len(both) PROVE Ids(both)[i] = (a \o b)[i]
  <2>1. CASE i <= Len(first)
    <3>1. i \in 1 .. Len(first)
      BY <1>1, <2>1
    <3> QED BY <1>1, <1>2, <1>3, <1>4, <2>1, <3>1
  <2>2. CASE ~(i <= Len(first))
    <3>1. i - Len(first) \in 1 .. Len(second)
      BY <1>1, <2>2
    <3> QED BY <1>1, <1>2, <1>3, <1>4, <2>2, <3>1
  <2> QED BY <2>1, <2>2
<1>6. Ids(both) = a \o b
  BY <1>2, <1>4, <1>5, SeqEqual
<1> QED BY <1>6 DEF both, a, b

\* The ids in orders: how often, in a row, and of a single order.
LEMMA HeldType ==
  ASSUME NEW S, NEW orders \in Seq(S), NEW x
  PROVE  Held(x, orders) \in Nat
BY IdsType, TimesType DEF Held

LEMMA HeldConcat ==
  ASSUME NEW S, NEW first \in Seq(S), NEW second \in Seq(S), NEW x
  PROVE  Held(x, first \o second) = Held(x, first) + Held(x, second)
<1> DEFINE X == {o.id : o \in S}
<1>1. Ids(first) \in Seq(X) /\ Ids(second) \in Seq(X)
  BY IdsType
<1> HIDE DEF X
<1>2. Ids(first \o second) = Ids(first) \o Ids(second)
  BY IdsConcat
<1>3. Times(x, Ids(first) \o Ids(second)) = Times(x, Ids(first)) + Times(x, Ids(second))
  BY <1>1, TimesConcat
<1> QED BY <1>2, <1>3 DEF Held

\* A thing with an id, alone.
Single(id, x) == IF x = id THEN 1 ELSE 0

LEMMA HeldSingle ==
  ASSUME NEW o, NEW x
  PROVE  /\ Held(x, <<o>>) = Single(o.id, x) /\ Single(o.id, x) \in Nat
         /\ Held(x, <<>>) = 0
<1>1. Ids(<<o>>) = <<o.id>> /\ Ids(<<>>) = <<>>
  BY DEF Ids
<1> QED BY <1>1, TimesSingle DEF Held, Single

\* An order that is appended adds its id.
LEMMA HeldAppend ==
  ASSUME NEW S, NEW orders \in Seq(S), NEW o \in S, NEW x
  PROVE  Held(x, Append(orders, o)) = Held(x, orders) + Single(o.id, x)
<1>1. Append(orders, o) = orders \o <<o>> /\ <<o>> \in Seq(S)
  BY AppendIsConcat
<1>2. Held(x, orders \o <<o>>) = Held(x, orders) + Held(x, <<o>>)
  BY <1>1, HeldConcat
<1> QED BY <1>1, <1>2, HeldSingle

\* The first order, and those behind it.
LEMMA HeldTail ==
  ASSUME NEW S, NEW orders \in Seq(S), orders # <<>>, NEW x
  PROVE  /\ Held(x, orders) = Single(Head(orders).id, x) + Held(x, Tail(orders))
         /\ Head(orders) \in S /\ Tail(orders) \in Seq(S)
<1>1. /\ Head(orders) \in S /\ Tail(orders) \in Seq(S)
      /\ orders = <<Head(orders)>> \o Tail(orders)
  BY HeadTailProperties, ConcatSimplifications
<1>2. <<Head(orders)>> \in Seq(S)
  BY <1>1
<1>3. Held(x, <<Head(orders)>> \o Tail(orders)) = Held(x, <<Head(orders)>>) + Held(x, Tail(orders))
  BY <1>1, <1>2, HeldConcat
<1> QED BY <1>1, <1>3, HeldSingle

\* The first n orders, and those behind them.
LEMMA HeldSplit ==
  ASSUME NEW S, NEW book \in Seq(S), NEW n \in 0 .. Len(book), NEW x
  PROVE  /\ Held(x, book) = Held(x, SubSeq(book, 1, n)) + Held(x, DropFirst(book, n))
         /\ Held(x, SubSeq(book, 1, n)) \in Nat /\ Held(x, DropFirst(book, n)) \in Nat
<1>1. SubSeq(book, 1, n) \in Seq(S) /\ DropFirst(book, n) \in Seq(S)
  BY PrefixProperties, DropFirstProperties
<1>2. book = SubSeq(book, 1, n) \o DropFirst(book, n)
  BY SplitAt
<1>3. Held(x, SubSeq(book, 1, n) \o DropFirst(book, n))
        = Held(x, SubSeq(book, 1, n)) + Held(x, DropFirst(book, n))
  BY <1>1, HeldConcat
<1>4. Held(x, SubSeq(book, 1, n)) \in Nat /\ Held(x, DropFirst(book, n)) \in Nat
  BY <1>1, HeldType
<1> QED BY <1>2, <1>3, <1>4

\* Dropping more orders: those in between go.
LEMMA HeldDropMore ==
  ASSUME NEW S, NEW book \in Seq(S), NEW n \in 0 .. Len(book), NEW m \in n .. Len(book), NEW x
  PROVE  Held(x, DropFirst(book, n))
           = Held(x, SubSeq(book, n + 1, m)) + Held(x, DropFirst(book, m))
<1>1. /\ DropFirst(book, n) \in Seq(S) /\ Len(DropFirst(book, n)) = Len(book) - n
      /\ \A i \in 1 .. Len(book) - n : DropFirst(book, n)[i] = book[n + i]
  BY DropFirstProperties
<1>2. Len(book) \in Nat /\ n \in Nat /\ m \in Nat /\ n <= m /\ m <= Len(book)
  BY LenProperties
<1> DEFINE rest == DropFirst(book, n)
           part == SubSeq(book, n + 1, m)
           far == DropFirst(book, m)
           k == m - n
<1>3. k \in 0 .. Len(rest)
  BY <1>1, <1>2
<1>4. /\ SubSeq(rest, 1, k) \in Seq(S) /\ Len(SubSeq(rest, 1, k)) = k
      /\ \A i \in 1 .. k : SubSeq(rest, 1, k)[i] = rest[i]
      /\ DropFirst(rest, k) \in Seq(S) /\ Len(DropFirst(rest, k)) = Len(rest) - k
      /\ \A i \in 1 .. Len(rest) - k : DropFirst(rest, k)[i] = rest[k + i]
  BY <1>1, <1>3, PrefixProperties, DropFirstProperties
<1>5. part \in Seq(S) /\ Len(part) = k /\ \A i \in 1 .. k : part[i] = book[n + i]
  <2>1. n + 1 \in 1 .. Len(book) + 1 /\ m \in (n + 1) - 1 .. Len(book)
    BY <1>2
  <2> QED BY <1>2, <2>1, SubSeqProperties
<1>6. far \in Seq(S) /\ Len(far) = Len(book) - m /\ \A i \in 1 .. Len(book) - m : far[i] = book[m + i]
  <2>1. m \in 0 .. Len(book)
    BY <1>2
  <2> QED BY <2>1, DropFirstProperties
<1>7. Held(x, rest) = Held(x, SubSeq(rest, 1, k)) + Held(x, DropFirst(rest, k))
  BY <1>1, <1>3, HeldSplit
<1> HIDE DEF rest, part, far
<1>8. SubSeq(rest, 1, k) = part
  <2>1. ASSUME NEW i \in 1 .. k PROVE SubSeq(rest, 1, k)[i] = part[i]
    <3>1. i \in 1 .. Len(book) - n
      BY <1>2
    <3> QED BY <1>1, <1>4, <1>5, <3>1 DEF rest
  <2> HIDE DEF k
  <2> QED BY <1>4, <1>5, <2>1, SeqEqual
<1>9. DropFirst(rest, k) = far
  <2>1. Len(rest) - k = Len(book) - m
    BY <1>1, <1>2 DEF rest
  <2>2. ASSUME NEW i \in 1 .. Len(book) - m PROVE DropFirst(rest, k)[i] = far[i]
    <3>1. k + i \in 1 .. Len(book) - n /\ n + (k + i) = m + i
      BY <1>2
    <3>2. DropFirst(rest, k)[i] = rest[k + i]
      BY <1>4, <2>1
    <3>3. rest[k + i] = book[n + (k + i)]
      BY <1>1, <3>1 DEF rest
    <3> QED BY <1>6, <3>1, <3>2, <3>3
  <2> HIDE DEF k
  <2> QED BY <1>4, <1>6, <2>1, <2>2, SeqEqual
<1> QED BY <1>7, <1>8, <1>9 DEF rest, part, far

\* Filing an order adds its id, wherever in the book it goes.
LEMMA HeldPushBack ==
  ASSUME NEW S, NEW side, NEW book \in Seq(S), NEW o \in S, NEW x
  PROVE  Held(x, PushBack(side, book, o)) = Held(x, book) + Single(o.id, x)
<1> DEFINE k == ReachedEnd(side, book, 0, o.price)
           before == SubSeq(book, 1, k)
           behind == DropFirst(book, k)
<1>1. k \in 0 .. Len(book)
  BY ReachedEndExists, LenProperties
<1>2. PushBack(side, book, o) = (before \o <<o>>) \o behind
  BY DEF PushBack, DropFirst
<1> HIDE DEF k
<1>3. before \in Seq(S) /\ behind \in Seq(S) /\ <<o>> \in Seq(S)
  BY <1>1, PrefixProperties, DropFirstProperties
<1>4. /\ Held(x, book) = Held(x, before) + Held(x, behind)
      /\ Held(x, before) \in Nat /\ Held(x, behind) \in Nat
  BY <1>1, HeldSplit
<1> HIDE DEF before, behind
<1>5. before \o <<o>> \in Seq(S)
  BY <1>3, ConcatProperties
<1>6. /\ Held(x, (before \o <<o>>) \o behind) = Held(x, before \o <<o>>) + Held(x, behind)
      /\ Held(x, before \o <<o>>) = Held(x, before) + Held(x, <<o>>)
  BY <1>3, <1>5, HeldConcat
<1> QED BY <1>2, <1>4, <1>6, HeldSingle

\* Taking an order out of a book leaves no id more often in it.
LEMMA HeldWithout ==
  ASSUME NEW S, NEW book \in Seq(S), NEW i \in 1 .. Len(book), NEW x
  PROVE  Held(x, Without(book, i)) + Single(book[i].id, x) = Held(x, book)
<1> DEFINE before == SubSeq(book, 1, i - 1)
           part == SubSeq(book, (i - 1) + 1, i)
           behind == DropFirst(book, i)
<1>1. i - 1 \in 0 .. Len(book) /\ i \in (i - 1) .. Len(book) /\ i \in 0 .. Len(book)
      /\ book[i] \in S
  BY ElementOfSeq
<1>2. /\ Held(x, book) = Held(x, before) + Held(x, DropFirst(book, i - 1))
      /\ Held(x, before) \in Nat
  BY <1>1, HeldSplit
<1>3. Held(x, DropFirst(book, i - 1)) = Held(x, part) + Held(x, behind)
  BY <1>1, HeldDropMore
<1>4. before \in Seq(S) /\ behind \in Seq(S)
  BY <1>1, PrefixProperties, DropFirstProperties
<1>5. part = <<book[i]>>
  <2>1. (i - 1) + 1 = i /\ i \in 1 .. Len(book) + 1 /\ i \in i - 1 .. Len(book)
    BY <1>1
  <2>2. i \in Int /\ \A j \in i .. i : book[j] \in S
    BY <1>1
  <2>6. /\ SubSeq(book, i, i) \in Seq(S) /\ Len(SubSeq(book, i, i)) = i - i + 1
        /\ \A j \in 1 .. i - i + 1 : SubSeq(book, i, i)[j] = book[i + j - 1]
    BY <2>2, SubSeqProperties
  <2>7. part = SubSeq(book, i, i)
    BY <2>1
  <2> HIDE DEF part
  <2>8. i - i + 1 = 1 /\ i + 1 - 1 = i
    BY <2>2
  <2>3. part \in Seq(S) /\ Len(part) = 1 /\ part[1] = book[i]
    BY <2>6, <2>7, <2>8
  <2>4. <<book[i]>> \in Seq(S) /\ Len(<<book[i]>>) = 1 /\ <<book[i]>>[1] = book[i]
    BY <1>1
  <2>5. \A j \in 1 .. Len(part) : part[j] = <<book[i]>>[j]
    BY <2>3
  <2> QED BY <2>3, <2>4, <2>5, SeqEqual
<1>6. Without(book, i) = before \o behind
  BY DEF Without, DropFirst
<1>7. Held(x, before \o behind) = Held(x, before) + Held(x, behind)
  BY <1>4, HeldConcat
<1>8. Held(x, behind) \in Nat
  BY <1>4, HeldType
<1> HIDE DEF before, part, behind
<1> QED BY <1>2, <1>3, <1>5, <1>6, <1>7, <1>8, HeldSingle

\* Changing an order, but not its id.
LEMMA HeldSameIds ==
  ASSUME NEW S, NEW orders \in Seq(S), NEW changed \in Seq(S), Len(changed) = Len(orders),
         \A i \in 1 .. Len(orders) : changed[i].id = orders[i].id, NEW x
  PROVE  Held(x, changed) = Held(x, orders)
<1> DEFINE X == {o.id : o \in S}
<1>1. /\ Ids(orders) \in Seq(X) /\ Len(Ids(orders)) = Len(orders)
      /\ \A i \in 1 .. Len(orders) : Ids(orders)[i] = orders[i].id
      /\ Ids(changed) \in Seq(X) /\ Len(Ids(changed)) = Len(changed)
      /\ \A i \in 1 .. Len(changed) : Ids(changed)[i] = changed[i].id
  BY IdsType
<1> HIDE DEF X
<1>2. Ids(changed) = Ids(orders)
  BY <1>1, SeqEqual
<1> QED BY <1>2 DEF Held

-----------------------------------------------------------------------------
(* The orders of one user *)

\* What one order more adds to the orders of a user.
WithOwn(user, owned, o) == IF o.user = user THEN Append(owned, o) ELSE owned

\* The first n + 1 values of the function OwnedUpTo defines.
IsOwned(user, orders, n, g) ==
  g = [i \in 0 .. n |-> IF i = 0 THEN <<>> ELSE WithOwn(user, g[i - 1], orders[i])]

\* There is such a function for every length.
LEMMA IsOwnedExists ==
  ASSUME NEW user, NEW orders, NEW n \in Nat
  PROVE  \E g : IsOwned(user, orders, n, g)
<1> DEFINE T == {k \in Nat : \E g : IsOwned(user, orders, k, g)}
<1>1. 0 \in T
  <2> DEFINE g == [i \in 0 .. 0 |-> <<>>]
  <2>1. IsOwned(user, orders, 0, g)
    BY DEF IsOwned
  <2> HIDE DEF g
  <2> QED BY <2>1
<1>2. ASSUME NEW k \in T PROVE k + 1 \in T
  <2>1. PICK g : IsOwned(user, orders, k, g)
    OBVIOUS
  <2> DEFINE last == WithOwn(user, g[k], orders[k + 1])
             h == [i \in 0 .. k + 1 |-> IF i = k + 1 THEN last ELSE g[i]]
  <2>2. \A i \in 0 .. k : g[i] = IF i = 0 THEN <<>> ELSE WithOwn(user, g[i - 1], orders[i])
    BY <2>1 DEF IsOwned
  <2>3. \A i \in 0 .. k + 1 : h[i] = IF i = k + 1 THEN last ELSE g[i]
    OBVIOUS
  <2>4. ASSUME NEW i \in 0 .. k + 1
        PROVE  h[i] = IF i = 0 THEN <<>> ELSE WithOwn(user, h[i - 1], orders[i])
    <3> HIDE DEF h
    <3>1. CASE i = k + 1
      <4>1. i # 0 /\ i - 1 = k /\ k \in 0 .. k + 1 /\ k # k + 1
        BY <3>1
      <4>2. h[i - 1] = g[k] /\ h[i] = last
        BY <2>3, <3>1, <4>1
      <4> QED BY <3>1, <4>1, <4>2
    <3>2. CASE i # k + 1
      <4>1. i \in 0 .. k /\ (i # 0 => i - 1 \in 0 .. k + 1 /\ i - 1 # k + 1)
        BY <3>2
      <4>2. h[i] = g[i] /\ (i # 0 => h[i - 1] = g[i - 1])
        BY <2>3, <3>2, <4>1
      <4> QED BY <2>2, <4>1, <4>2
    <3> QED BY <3>1, <3>2
  <2>5. IsOwned(user, orders, k + 1, h)
    BY <2>4 DEF IsOwned
  <2> HIDE DEF h
  <2> QED BY <2>5
<1>3. T = Nat
  <2> HIDE DEF T
  <2>1. T \in SUBSET Nat
    BY DEF T
  <2> QED BY <1>1, <1>2, <2>1, NatInduct
<1> QED BY <1>3

\* A longer one agrees with it.
LEMMA IsOwnedUnique ==
  ASSUME NEW user, NEW orders, NEW n \in Nat, NEW g, IsOwned(user, orders, n, g),
         NEW k \in Nat, NEW h, IsOwned(user, orders, k, h), n <= k
  PROVE  \A i \in 0 .. n : g[i] = h[i]
<1> DEFINE T == {i \in Nat : i <= n => g[i] = h[i]}
<1>1. 0 \in T
  BY DEF IsOwned
<1>2. ASSUME NEW i \in T PROVE i + 1 \in T
  <2>1. SUFFICES ASSUME i + 1 <= n PROVE g[i + 1] = h[i + 1]
    OBVIOUS
  <2>2. i + 1 \in 0 .. n /\ i + 1 \in 0 .. k /\ i + 1 # 0 /\ (i + 1) - 1 = i /\ i <= n
    BY <2>1
  <2>3. /\ g[i + 1] = WithOwn(user, g[i], orders[i + 1])
        /\ h[i + 1] = WithOwn(user, h[i], orders[i + 1])
    BY <2>2 DEF IsOwned
  <2> QED BY <2>2, <2>3
<1>3. T = Nat
  <2> HIDE DEF T
  <2>1. T \in SUBSET Nat
    BY DEF T
  <2> QED BY <1>1, <1>2, <2>1, NatInduct
<1> QED BY <1>3

\* So the recursive function of OwnedUpTo exists, and satisfies its equation.
LEMMA OwnedRecursion ==
  ASSUME NEW user, NEW orders, NEW n \in Nat
  PROVE  OwnedUpTo(user, orders, n)
           = IF n = 0 THEN <<>> ELSE WithOwn(user, OwnedUpTo(user, orders, n - 1), orders[n])
<1> DEFINE part(k) == CHOOSE g : IsOwned(user, orders, k, g)
           all == [k \in Nat |-> part(k)[k]]
           next(f) == [i \in Nat |-> IF i = 0 THEN <<>>
                                       ELSE IF orders[i].user = user THEN Append(f[i - 1], orders[i])
                                       ELSE f[i - 1]]
           owned == CHOOSE f : f = next(f)
<1>1. ASSUME NEW k \in Nat PROVE IsOwned(user, orders, k, part(k))
  BY IsOwnedExists
<1> HIDE DEF part
<1>2. ASSUME NEW k \in Nat
      PROVE  all[k] = IF k = 0 THEN <<>> ELSE WithOwn(user, all[k - 1], orders[k])
  <2>1. part(k)[k] = IF k = 0 THEN <<>> ELSE WithOwn(user, part(k)[k - 1], orders[k])
    <3>1. k \in 0 .. k
      OBVIOUS
    <3> QED BY <1>1, <3>1 DEF IsOwned
  <2>2. k # 0 => part(k - 1)[k - 1] = part(k)[k - 1]
    <3>1. SUFFICES ASSUME k # 0 PROVE part(k - 1)[k - 1] = part(k)[k - 1]
      OBVIOUS
    <3>2. k - 1 \in Nat /\ k - 1 <= k /\ k - 1 \in 0 .. k - 1
      BY <3>1
    <3> QED BY <1>1, <3>2, IsOwnedUnique
  <2>3. k # 0 => k - 1 \in Nat
    OBVIOUS
  <2> QED BY <2>1, <2>2, <2>3
<1>3. all = next(all)
  BY <1>2 DEF WithOwn
<1> HIDE DEF all
<1>4. owned = next(owned)
  <2> HIDE DEF next
  <2> QED BY <1>3
<1>5. \A k \in Nat : OwnedUpTo(user, orders, k) = owned[k]
  BY DEF OwnedUpTo
<1> HIDE DEF owned
<1>6. \A k \in Nat : owned[k] = IF k = 0 THEN <<>> ELSE WithOwn(user, owned[k - 1], orders[k])
  BY <1>4 DEF WithOwn
<1>7. n # 0 => n - 1 \in Nat
  OBVIOUS
<1> QED BY <1>5, <1>6, <1>7

\* None of no orders, and of one order more.
LEMMA OwnedNone ==
  ASSUME NEW user, NEW orders
  PROVE  OwnedUpTo(user, orders, 0) = <<>>
BY OwnedRecursion

LEMMA OwnedNext ==
  ASSUME NEW user, NEW orders, NEW n \in Nat
  PROVE  OwnedUpTo(user, orders, n + 1)
           = WithOwn(user, OwnedUpTo(user, orders, n), orders[n + 1])
<1>1. n + 1 \in Nat /\ n + 1 # 0 /\ (n + 1) - 1 = n
  OBVIOUS
<1> QED BY <1>1, OwnedRecursion

\* A user has no orders among those of others.
LEMMA OwnedByNone ==
  ASSUME NEW user, NEW S, NEW orders \in Seq(S),
         \A i \in 1 .. Len(orders) : orders[i].user # user
  PROVE  OwnedBy(user, orders) = <<>>
<1> DEFINE T == {k \in Nat : k <= Len(orders) => OwnedUpTo(user, orders, k) = <<>>}
<1>0. ASSUME NEW m \in Nat
      PROVE  OwnedUpTo(user, orders, m + 1)
               = WithOwn(user, OwnedUpTo(user, orders, m), orders[m + 1])
  BY OwnedNext
<1>1. 0 \in T
  BY OwnedNone
<1>2. ASSUME NEW k \in T PROVE k + 1 \in T
  <2>1. SUFFICES ASSUME k + 1 <= Len(orders) PROVE OwnedUpTo(user, orders, k + 1) = <<>>
    OBVIOUS
  <2>2. k + 1 \in 1 .. Len(orders) /\ k <= Len(orders) /\ k \in Nat
    BY <2>1, LenProperties
  <2>3. OwnedUpTo(user, orders, k) = <<>>
    BY <2>2
  <2> QED BY <1>0, <2>2, <2>3 DEF WithOwn
<1>3. T = Nat
  <2> HIDE DEF T
  <2>1. T \in SUBSET Nat
    BY DEF T
  <2> QED BY <1>1, <1>2, <2>1, NatInduct
<1>4. Len(orders) \in Nat /\ Len(orders) <= Len(orders)
  BY LenProperties
<1> QED BY <1>3, <1>4 DEF OwnedBy

\* What a user has among orders is what all of the user's orders come to.
LEMMA QuantityOwned ==
  ASSUME NEW S, \A p \in S : p.left \in Nat, NEW user, NEW orders \in Seq(S)
  PROVE  QuantityOf(user, orders) = QuantityOf(user, OwnedBy(user, orders))
<1> DEFINE n == Len(orders)
           shares == [i \in 1 .. n |-> Share(user, orders[i])]
           owned(k) == OwnedUpTo(user, orders, k)
           T == {k \in Nat : k <= n =>
                   owned(k) \in Seq(S) /\ QuantityOf(user, owned(k)) = SumTo(shares, k)}
<1>1. /\ n \in Nat /\ QuantityOf(user, orders) = SumTo(shares, n)
      /\ \A i \in 1 .. n : orders[i] \in S /\ shares[i] = Share(user, orders[i])
  BY LenProperties, ElementOfSeq, QuantityIsSum
<1>2. /\ owned(0) = <<>>
      /\ \A m \in Nat : owned(m + 1) = WithOwn(user, owned(m), orders[m + 1])
  BY OwnedNone, OwnedNext
<1>3. /\ SumTo(shares, 0) = 0
      /\ \A m \in Nat : SumTo(shares, m + 1) = SumTo(shares, m) + shares[m + 1]
  BY SumToRecursion
<1>4. OwnedBy(user, orders) = owned(n)
  BY DEF OwnedBy
<1> HIDE DEF n, shares, owned
<1>5. 0 \in T
  BY <1>2, <1>3, QuantityEmpty, EmptySeq
<1>6. ASSUME NEW m \in T PROVE m + 1 \in T
  <2>1. SUFFICES ASSUME m + 1 <= n
                 PROVE  /\ owned(m + 1) \in Seq(S)
                        /\ QuantityOf(user, owned(m + 1)) = SumTo(shares, m + 1)
    OBVIOUS
  <2>2. m + 1 \in 1 .. n /\ m <= n /\ m \in Nat
    BY <1>1, <2>1
  <2>3. owned(m) \in Seq(S) /\ QuantityOf(user, owned(m)) = SumTo(shares, m)
    BY <2>2
  <2> DEFINE o == orders[m + 1]
  <2>4. o \in S /\ shares[m + 1] = Share(user, o)
    BY <1>1, <2>2
  <2>5. owned(m + 1) = IF o.user = user THEN Append(owned(m), o) ELSE owned(m)
    BY <1>2, <2>2 DEF WithOwn
  <2>6. SumTo(shares, m + 1) = SumTo(shares, m) + Share(user, o)
    BY <1>3, <2>2, <2>4
  <2> HIDE DEF o
  <2>7. CASE o.user = user
    <3>1. QuantityOf(user, Append(owned(m), o)) = QuantityOf(user, owned(m)) + Share(user, o)
      BY <2>3, <2>4, QuantityAppend
    <3>2. Append(owned(m), o) \in Seq(S)
      BY <2>3, <2>4, AppendProperties
    <3> QED BY <2>3, <2>5, <2>6, <2>7, <3>1, <3>2
  <2>8. CASE o.user # user
    <3>1. Share(user, o) = 0 /\ QuantityOf(user, owned(m)) \in Nat
      BY <2>3, <2>8, QuantityType DEF Share
    <3> QED BY <2>3, <2>5, <2>6, <2>8, <3>1
  <2> QED BY <2>7, <2>8
<1>7. T = Nat
  <2> HIDE DEF T
  <2>1. T \in SUBSET Nat
    BY DEF T
  <2> QED BY <1>5, <1>6, <2>1, NatInduct
<1> QED BY <1>1, <1>4, <1>7

\* An order that leaves does not change what the other users have.
LEMMA OwnedByWithout ==
  ASSUME NEW user, NEW S, NEW orders \in Seq(S), NEW i \in 1 .. Len(orders),
         orders[i].user # user
  PROVE  OwnedBy(user, Without(orders, i)) = OwnedBy(user, orders)
<1> DEFINE rest == Without(orders, i)
           position(k) == IF k < i THEN k ELSE k - 1
           T == {k \in Nat : k <= Len(orders) =>
                   OwnedUpTo(user, rest, position(k)) = OwnedUpTo(user, orders, k)}
<1>1. /\ Len(rest) = Len(orders) - 1 /\ Len(orders) \in Nat /\ i \in Nat /\ i >= 1
      /\ \A j \in 1 .. Len(orders) - 1 : rest[j] = IF j < i THEN orders[j] ELSE orders[j + 1]
  BY WithoutProperties, LenProperties
<1> HIDE DEF rest
<1>0. ASSUME NEW m \in Nat
      PROVE  /\ OwnedUpTo(user, orders, m + 1)
                  = WithOwn(user, OwnedUpTo(user, orders, m), orders[m + 1])
             /\ OwnedUpTo(user, rest, m + 1)
                  = WithOwn(user, OwnedUpTo(user, rest, m), rest[m + 1])
  BY OwnedNext
<1>2. 0 \in T
  <2>1. position(0) = 0
    BY <1>1
  <2> QED BY <2>1, OwnedNone
<1>3. ASSUME NEW k \in T PROVE k + 1 \in T
  <2>1. SUFFICES ASSUME k + 1 <= Len(orders)
                 PROVE  OwnedUpTo(user, rest, position(k + 1)) = OwnedUpTo(user, orders, k + 1)
    OBVIOUS
  <2>2. k + 1 \in 1 .. Len(orders) /\ k <= Len(orders) /\ k \in Nat
    BY <1>1, <2>1
  <2>3. OwnedUpTo(user, rest, position(k)) = OwnedUpTo(user, orders, k)
    BY <2>2
  <2>4. OwnedUpTo(user, orders, k + 1)
          = WithOwn(user, OwnedUpTo(user, orders, k), orders[k + 1])
    BY <1>0, <2>2
  <2>5. CASE k + 1 < i
    <3>1. position(k) = k /\ position(k + 1) = k + 1 /\ rest[k + 1] = orders[k + 1]
      BY <1>1, <2>2, <2>5
    <3>2. OwnedUpTo(user, rest, k + 1) = WithOwn(user, OwnedUpTo(user, rest, k), rest[k + 1])
      BY <1>0, <2>2
    <3> HIDE DEF position
    <3> QED BY <2>3, <2>4, <3>1, <3>2
  <2>6. CASE k + 1 = i
    <3>1. position(k) = k /\ position(k + 1) = k /\ orders[k + 1].user # user
      BY <1>1, <2>2, <2>6
    <3> HIDE DEF position
    <3> QED BY <2>3, <2>4, <3>1 DEF WithOwn
  <2>7. CASE k + 1 > i
    <3>1. /\ position(k) = k - 1 /\ position(k + 1) = k /\ k - 1 \in Nat /\ (k - 1) + 1 = k
          /\ rest[k] = orders[k + 1]
      BY <1>1, <2>2, <2>7
    <3>2. OwnedUpTo(user, rest, (k - 1) + 1)
            = WithOwn(user, OwnedUpTo(user, rest, k - 1), rest[(k - 1) + 1])
      BY <1>0, <3>1
    <3> HIDE DEF position
    <3> QED BY <2>3, <2>4, <3>1, <3>2
  <2> QED BY <1>1, <2>2, <2>5, <2>6, <2>7
<1>4. T = Nat
  <2> HIDE DEF T
  <2>1. T \in SUBSET Nat
    BY DEF T
  <2> QED BY <1>2, <1>3, <2>1, NatInduct
<1>5. OwnedUpTo(user, rest, position(Len(orders))) = OwnedUpTo(user, orders, Len(orders))
  <2> HIDE DEF position
  <2>1. Len(orders) \in T /\ Len(orders) <= Len(orders)
    BY <1>1, <1>4
  <2> QED BY <2>1
<1>6. position(Len(orders)) = Len(rest)
  BY <1>1
<1> HIDE DEF position
<1> QED BY <1>5, <1>6 DEF OwnedBy, rest

=============================================================================
