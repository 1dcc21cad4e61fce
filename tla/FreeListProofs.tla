--------------------------- MODULE FreeListProofs ---------------------------
(***************************************************************************)
(* The steps the two pools share keep the invariant of the free list and   *)
(* are steps of the abstract allocator, whatever the sizes.                *)
(***************************************************************************)
EXTENDS FreeList, FiniteSetTheorems, SequenceTheorems, TLAPS

\* No two pieces in use share a cell, and arrays do not lie in blocks.
HeldApart ==
  /\ \A g, h \in held : g # h => ~Promise!Overlap(g, h)
  /\ \A h \in held : h.size # NodeSize => h.block < 0

\* The inductive invariant: to give a node back must not spoil NodesApart, so
\* the pieces in use have to be apart, too.
FreeListInv ==
  FreeListTypeOK /\ NodesWithinBlocks /\ NodesApart /\ HeldApart /\ NodesAccounted

-----------------------------------------------------------------------------
(* Pieces of memory *)

LEMMA NodeType ==
  ASSUME NEW b \in Int, NEW at \in Nat
  PROVE  /\ Node(b, at) \in Piece
         /\ Node(b, at).block = b /\ Node(b, at).at = at /\ Node(b, at).size = NodeSize
  BY NodeSizeAssumption DEF Node, Piece

LEMMA OverlapSelf ==
  ASSUME NEW r \in Piece
  PROVE  Promise!Overlap(r, r)
  BY DEF Piece, Promise!Overlap

LEMMA OverlapSymmetric ==
  ASSUME NEW r \in Piece, NEW s \in Piece
  PROVE  Promise!Overlap(r, s) <=> Promise!Overlap(s, r)
  BY DEF Piece, Promise!Overlap

LEMMA ProductGap ==
  ASSUME NEW i \in Nat, NEW j \in Nat, NEW n \in Nat, i < j
  PROVE  i * n \in Nat /\ i * n + n <= j * n
  <1>1. PICK d \in Nat : j = i + 1 + d
    <2>1. j - i - 1 \in Nat /\ j = i + 1 + (j - i - 1) OBVIOUS
    <2>2. QED BY <2>1
  <1>2. j * n = i * n + n + d * n BY <1>1
  <1>3. d * n \in Nat /\ i * n \in Nat OBVIOUS
  <1>4. j * n \in Nat OBVIOUS
  <1>5. QED BY <1>2, <1>3, <1>4

-----------------------------------------------------------------------------
(* Steps *)

\* A held node that leaves or a free one that is taken changes the count by one.
LEMMA TakeCounts ==
  ASSUME IsFiniteSet(held), NEW r \in Piece, r \notin held,
         held' = held \cup {r}
  PROVE  /\ IsFiniteSet(held')
         /\ r.size = NodeSize => Cardinality(HeldNodes') = Cardinality(HeldNodes) + 1
         /\ r.size # NodeSize => HeldNodes' = HeldNodes
  <1>1. IsFiniteSet(HeldNodes) BY FS_Subset DEF HeldNodes
  <1>2. IsFiniteSet(held') BY FS_AddElement
  <1>3. ASSUME r.size = NodeSize PROVE Cardinality(HeldNodes') = Cardinality(HeldNodes) + 1
    <2>1. HeldNodes' = HeldNodes \cup {r} BY <1>3 DEF HeldNodes
    <2>2. r \notin HeldNodes BY DEF HeldNodes
    <2>3. QED BY <1>1, <2>1, <2>2, FS_AddElement
  <1>4. r.size # NodeSize => HeldNodes' = HeldNodes BY DEF HeldNodes
  <1>5. QED BY <1>2, <1>3, <1>4

LEMMA ReturnCounts ==
  ASSUME IsFiniteSet(held), NEW r \in held, held' = held \ {r}
  PROVE  /\ IsFiniteSet(held')
         /\ Cardinality(HeldNodes) \in Nat
         /\ r.size = NodeSize => Cardinality(HeldNodes) > 0
                                 /\ Cardinality(HeldNodes') = Cardinality(HeldNodes) - 1
         /\ r.size # NodeSize => HeldNodes' = HeldNodes
  <1>1. IsFiniteSet(HeldNodes) BY FS_Subset DEF HeldNodes
  <1>2. IsFiniteSet(held') BY FS_Subset
  <1>3. Cardinality(HeldNodes) \in Nat BY <1>1, FS_CardinalityType
  <1>4. ASSUME r.size = NodeSize
        PROVE  Cardinality(HeldNodes) > 0 /\ Cardinality(HeldNodes') = Cardinality(HeldNodes) - 1
    <2>1. HeldNodes' = HeldNodes \ {r} BY DEF HeldNodes
    <2>2. r \in HeldNodes BY <1>4 DEF HeldNodes
    <2>3. Cardinality(HeldNodes') = Cardinality(HeldNodes) - 1
      BY <1>1, <2>1, <2>2, FS_RemoveElement
    <2>4. IsFiniteSet(HeldNodes') BY <1>1, <2>1, FS_Subset
    <2>5. Cardinality(HeldNodes') \in Nat BY <2>4, FS_CardinalityType
    <2>6. QED BY <1>3, <2>3, <2>5
  <1>5. r.size # NodeSize => HeldNodes' = HeldNodes BY DEF HeldNodes
  <1>6. QED BY <1>2, <1>3, <1>4, <1>5

LEMMA AllocateFreeStep ==
  ASSUME FreeListInv, AllocateFree
  PROVE  FreeListInv' /\ Promise!Next
  <1> DEFINE n == Len(available)
             r == available[n]
  <1>1. /\ n \in Nat \ {0} /\ r \in Piece /\ r \in FreeNodes
        /\ held' = held \cup {r} /\ memory' = memory /\ capacity' = capacity
        /\ owed' = owed + 1
        /\ available' = SubSeq(available, 1, n - 1)
    BY DEF FreeListInv, FreeListTypeOK, AllocateFree, FreeNodes
  <1>2. /\ available' \in Seq(Piece) /\ Len(available') = n - 1
        /\ \A i \in 1 .. Len(available') : i \in 1 .. n /\ i # n /\ available'[i] = available[i]
    <2>1. available \in Seq(Piece) BY DEF FreeListInv, FreeListTypeOK
    <2> HIDE DEF n
    <2>0. n = Len(available) BY DEF n
    <2>2. /\ SubSeq(available, 1, n - 1) \in Seq(Piece)
          /\ Len(SubSeq(available, 1, n - 1)) = n - 1
      <3>1. n - 1 \in Nat /\ n - 1 <= Len(available) BY <1>1, <2>0
      <3>2. \A i \in 1 .. n - 1 : available[i] \in Piece BY <3>1, <2>1
      <3>3. QED BY <2>1, <3>1, <3>2, SubSeqProperties
    <2>3. ASSUME NEW i \in 1 .. n - 1
          PROVE  i \in 1 .. n /\ i # n /\ SubSeq(available, 1, n - 1)[i] = available[i]
      BY <1>1, <2>0, <2>1
    <2>4. QED BY <1>1, <2>2, <2>3
  <1>3. r.size = NodeSize BY <1>1 DEF FreeListInv, NodesWithinBlocks
  <1>4. \A h \in held : ~Promise!Overlap(r, h) /\ ~Promise!Overlap(h, r)
    BY <1>1, OverlapSymmetric DEF FreeListInv, NodesApart, FreeListTypeOK
  <1>5. r \notin held BY <1>1, <1>4, OverlapSelf
  <1>6. FreeNodes' \subseteq FreeNodes BY <1>1, <1>2 DEF FreeNodes
  <1>7. \A i \in 1 .. n - 1 : ~Promise!Overlap(available[i], r)
    BY <1>1 DEF FreeListInv, NodesApart
  <1>8. IsFiniteSet(held') /\ Cardinality(HeldNodes') = Cardinality(HeldNodes) + 1
    BY <1>1, <1>3, <1>5, TakeCounts DEF FreeListInv, FreeListTypeOK
  <1>9. FreeListTypeOK' BY <1>1, <1>2, <1>8 DEF FreeListInv, FreeListTypeOK
  <1>10. NodesWithinBlocks'
    <2>1. HeldNodes' \subseteq HeldNodes \cup {r} BY <1>1 DEF HeldNodes
    <2>2. QED BY <2>1, <1>1, <1>6 DEF FreeListInv, NodesWithinBlocks
  <1>11. NodesApart'
    <2>1. ASSUME NEW i \in 1 .. Len(available'), NEW j \in 1 .. Len(available'), i # j
          PROVE  ~Promise!Overlap(available'[i], available'[j])
      <3>1. i \in 1 .. n /\ j \in 1 .. n BY <1>2
      <3>2. ~Promise!Overlap(available[i], available[j])
        BY <2>1, <3>1 DEF FreeListInv, NodesApart
      <3>3. QED BY <1>2, <3>2
    <2>2. \A m \in FreeNodes' : ~Promise!Overlap(m, r)
      BY <1>2, <1>7 DEF FreeNodes
    <2>3. QED BY <2>1, <2>2, <1>1, <1>6 DEF FreeListInv, NodesApart, Promise!Overlap
  <1>12. HeldApart' BY <1>1, <1>3, <1>4 DEF FreeListInv, HeldApart, Promise!Overlap
  <1>13. NodesAccounted'
    <2>0. IsFiniteSet(held) /\ HeldNodes \subseteq held
      BY DEF HeldNodes, FreeListInv, FreeListTypeOK
    <2>1. IsFiniteSet(HeldNodes) BY <2>0, FS_Subset
    <2>2. Cardinality(HeldNodes) \in Nat BY <2>1, FS_CardinalityType
    <2>3. n + Cardinality(HeldNodes) = capacity BY DEF FreeListInv, NodesAccounted
    <2>4. Len(available') + Cardinality(HeldNodes') = capacity'
      <3>1. n \in Nat /\ Len(available') = n - 1 /\ capacity' = capacity BY <1>1, <1>2
      <3> HIDE DEF n
      <3>2. QED BY <2>2, <2>3, <3>1, <1>8
    <2>5. QED BY <2>4 DEF NodesAccounted
  <1>14. Promise!Next BY <1>1, <1>4 DEF Promise!Next, Promise!Allocate
  <1>15. QED BY <1>9, <1>10, <1>11, <1>12, <1>13, <1>14 DEF FreeListInv

LEMMA AllocateArrayStep ==
  ASSUME FreeListInv, NEW n \in ArraySizes, AllocateArray(n)
  PROVE  FreeListInv' /\ Promise!Next
  <1>1. PICK k \in 1 .. MaxArrays :
          /\ \A h \in held : h.block # -k
          /\ held' = held \cup {Array(k, n)} /\ owed' = owed + 1
    BY DEF AllocateArray
  <1> DEFINE r == Array(k, n)
  <1>2. n \in Nat /\ n # 0 /\ n # NodeSize BY ArraySizeAssumption
  <1>3. r \in Piece /\ r.size = n /\ r.block < 0 /\ r.block = -k BY <1>2 DEF Array, Piece
  <1>4. UNCHANGED <<memory, available, capacity>> BY DEF AllocateArray
  <1>5. \A h \in held : ~Promise!Overlap(r, h) /\ ~Promise!Overlap(h, r)
    BY <1>1, <1>3 DEF Promise!Overlap
  <1>6. r \notin held BY <1>1, <1>3
  <1>7. IsFiniteSet(held') /\ HeldNodes' = HeldNodes
    BY <1>1, <1>2, <1>3, <1>6, TakeCounts DEF FreeListInv, FreeListTypeOK
  <1>8. FreeListTypeOK' BY <1>1, <1>3, <1>4, <1>7 DEF FreeListInv, FreeListTypeOK
  <1>9. FreeNodes' = FreeNodes BY <1>4 DEF FreeNodes
  <1>10. NodesWithinBlocks' BY <1>4, <1>7, <1>9 DEF FreeListInv, NodesWithinBlocks
  <1>11. NodesApart'
    <2>1. \A m \in FreeNodes : m.block \in Nat \ {0}
      BY DEF FreeListInv, NodesWithinBlocks, FreeListTypeOK
    <2>2. \A m \in FreeNodes : ~Promise!Overlap(m, r) BY <2>1, <1>3 DEF Promise!Overlap
    <2>3. QED BY <2>2, <1>1, <1>4, <1>9 DEF FreeListInv, NodesApart
  <1>12. HeldApart' BY <1>1, <1>3, <1>5 DEF FreeListInv, HeldApart
  <1>13. NodesAccounted' BY <1>4, <1>7 DEF FreeListInv, NodesAccounted
  <1>14. Promise!Next BY <1>1, <1>5 DEF Promise!Next, Promise!Allocate
  <1>15. QED BY <1>8, <1>10, <1>11, <1>12, <1>13, <1>14 DEF FreeListInv

LEMMA DeallocateStep ==
  ASSUME FreeListInv, NEW r \in held, Deallocate(r)
  PROVE  FreeListInv' /\ Promise!Next /\ capacity' = capacity
  <1>1. /\ r \in Piece /\ r.size = NodeSize /\ held' = held \ {r} /\ memory' = memory
        /\ available' = Append(available, r) /\ owed' = owed - 1
        /\ r \in HeldNodes
    BY DEF FreeListInv, FreeListTypeOK, Deallocate, HeldNodes
  <1> DEFINE n == Len(available)
  <1>2. /\ n \in Nat /\ available' \in Seq(Piece) /\ Len(available') = n + 1
        /\ available'[n + 1] = r
        /\ \A i \in 1 .. n : available'[i] = available[i]
    BY <1>1 DEF FreeListInv, FreeListTypeOK
  <1>3. /\ IsFiniteSet(held') /\ Cardinality(HeldNodes) \in Nat /\ Cardinality(HeldNodes) > 0
        /\ Cardinality(HeldNodes') = Cardinality(HeldNodes) - 1
    BY <1>1, ReturnCounts DEF FreeListInv, FreeListTypeOK
  <1>4. capacity' = capacity
    BY <1>2, <1>3 DEF Deallocate, FreeListInv, NodesAccounted, FreeListTypeOK
  <1>5. FreeListTypeOK' BY <1>1, <1>2, <1>3, <1>4 DEF FreeListInv, FreeListTypeOK
  <1>6. FreeNodes' = FreeNodes \cup {r}
    BY <1>1, <1>2 DEF FreeNodes
  <1>7. NodesWithinBlocks'
    <2>1. HeldNodes' \subseteq HeldNodes BY <1>1 DEF HeldNodes
    <2>2. QED BY <2>1, <1>1, <1>6 DEF FreeListInv, NodesWithinBlocks
  <1>8. NodesApart'
    <2>1. \A m \in FreeNodes : ~Promise!Overlap(m, r) /\ ~Promise!Overlap(r, m)
      BY <1>1, OverlapSymmetric DEF FreeListInv, NodesApart, FreeNodes, FreeListTypeOK
    <2>2. ASSUME NEW i \in 1 .. n + 1, NEW j \in 1 .. n + 1, i # j
          PROVE  ~Promise!Overlap(available'[i], available'[j])
      <3>1. CASE i = n + 1
        <4>1. j \in 1 .. n /\ available'[i] = r /\ available'[j] \in FreeNodes
          BY <1>2, <2>2, <3>1 DEF FreeNodes
        <4>2. QED BY <2>1, <4>1
      <3>2. CASE j = n + 1
        <4>1. i \in 1 .. n /\ available'[j] = r /\ available'[i] \in FreeNodes
          BY <1>2, <2>2, <3>2 DEF FreeNodes
        <4>2. QED BY <2>1, <4>1
      <3>3. CASE i # n + 1 /\ j # n + 1
        <4>1. i \in 1 .. n /\ j \in 1 .. n BY <1>2, <3>3
        <4>2. QED BY <1>2, <2>2, <4>1 DEF FreeListInv, NodesApart
      <3>4. QED BY <3>1, <3>2, <3>3
    <2>3. \A h \in held' : ~Promise!Overlap(r, h) BY <1>1 DEF FreeListInv, HeldApart
    <2>4. \A m \in FreeNodes', h \in held' : ~Promise!Overlap(m, h)
      BY <2>3, <1>1, <1>6 DEF FreeListInv, NodesApart
    <2>5. QED BY <2>2, <2>4, <1>2 DEF NodesApart, Promise!Overlap
  <1>9. HeldApart' BY <1>1 DEF FreeListInv, HeldApart, Promise!Overlap
  <1>10. NodesAccounted' BY <1>2, <1>3, <1>4 DEF FreeListInv, NodesAccounted
  <1>11. Promise!Next BY <1>1 DEF Promise!Next, Promise!Deallocate
  <1>12. QED BY <1>4, <1>5, <1>7, <1>8, <1>9, <1>10, <1>11 DEF FreeListInv

LEMMA DeallocateArrayStep ==
  ASSUME FreeListInv, NEW r \in held, DeallocateArray(r)
  PROVE  FreeListInv' /\ Promise!Next
  <1>1. /\ r.size # NodeSize /\ held' = held \ {r} /\ owed' = owed - 1
        /\ memory' = memory /\ available' = available /\ capacity' = capacity
    BY DEF DeallocateArray
  <1>2. IsFiniteSet(held') /\ HeldNodes' = HeldNodes
    BY <1>1, ReturnCounts DEF FreeListInv, FreeListTypeOK
  <1>3. FreeNodes' = FreeNodes BY <1>1 DEF FreeNodes
  <1>4. FreeListTypeOK' BY <1>1, <1>2 DEF FreeListInv, FreeListTypeOK
  <1>5. NodesWithinBlocks' BY <1>1, <1>2, <1>3 DEF FreeListInv, NodesWithinBlocks
  <1>6. NodesApart' BY <1>1, <1>3 DEF FreeListInv, NodesApart
  <1>7. HeldApart' BY <1>1 DEF FreeListInv, HeldApart, Promise!Overlap
  <1>8. NodesAccounted' BY <1>1, <1>2 DEF FreeListInv, NodesAccounted
  <1>9. Promise!Next BY <1>1 DEF Promise!Next, Promise!Deallocate
  <1>10. QED BY <1>4, <1>5, <1>6, <1>7, <1>8, <1>9 DEF FreeListInv

\* Every step of the free list, whatever blocks it has been given.
LEMMA FreeListStep ==
  ASSUME FreeListInv, FreeListNext
  PROVE  FreeListInv' /\ Promise!Next
  BY AllocateFreeStep, AllocateArrayStep, DeallocateStep, DeallocateArrayStep
  DEF FreeListNext

\* A block of `nodes + 1' nodes: those that are pushed start one behind the
\* other at its beginning, and do not reach the one at its end.
LEMMA AllocateBlockStep ==
  ASSUME FreeListInv,
         NEW size \in Nat \ {0}, NEW nodes \in Nat, NodeSize <= size,
         nodes * NodeSize <= size - NodeSize,
         AllocateBlock(size, nodes, nodes + 1)
  PROVE  FreeListInv' /\ Promise!Next /\ ~(held' \subseteq held)
  <1> DEFINE b == Len(memory) + 1
             at(i) == (i - 1) * NodeSize
             last == Node(b, size - NodeSize)
  <1>1. /\ available = <<>> /\ memory' = Append(memory, size)
        /\ available' = [i \in 1 .. nodes |-> Node(b, at(i))]
        /\ capacity' = capacity + (nodes + 1)
        /\ held' = held \cup {last} /\ owed' = owed + 1
    BY DEF AllocateBlock
  <1>2. /\ memory \in Seq(Nat \ {0}) /\ b \in Nat \ {0} /\ capacity \in Nat
        /\ memory' \in Seq(Nat \ {0}) /\ Len(memory') = b /\ memory'[b] = size
        /\ \A k \in 1 .. b - 1 : memory'[k] = memory[k]
    BY <1>1 DEF FreeListInv, FreeListTypeOK
  <1>3. NodeSize \in Nat /\ NodeSize > 0 /\ size - NodeSize \in Nat BY NodeSizeAssumption
  <1>4. ASSUME NEW i \in 1 .. nodes
        PROVE  at(i) \in Nat /\ at(i) + NodeSize <= size - NodeSize
    <2>1. i - 1 \in Nat /\ i - 1 < nodes OBVIOUS
    <2>2. at(i) \in Nat /\ at(i) + NodeSize <= nodes * NodeSize
      BY <2>1, <1>3, ProductGap
    <2>3. nodes * NodeSize \in Nat BY <1>3
    <2>4. QED BY <2>2, <2>3, <1>3
  <1>5. /\ last \in Piece /\ last.block = b /\ last.at = size - NodeSize /\ last.size = NodeSize
    BY <1>2, <1>3, NodeType
  <1>6. ASSUME NEW i \in 1 .. nodes
        PROVE  /\ Node(b, at(i)) \in Piece /\ Node(b, at(i)).block = b
               /\ Node(b, at(i)).at = at(i) /\ Node(b, at(i)).size = NodeSize
    BY <1>2, <1>4, NodeType
  <1>7. /\ available' \in Seq(Piece) /\ Len(available') = nodes
        /\ \A i \in 1 .. nodes : available'[i] = Node(b, at(i))
    BY <1>1, <1>6
  <1>8. \A h \in held : h.block # b
    <2>1. ASSUME NEW h \in held PROVE h.block # b
      <3>1. CASE h.size = NodeSize
        BY <3>1, <1>2 DEF FreeListInv, NodesWithinBlocks, HeldNodes
      <3>2. CASE h.size # NodeSize
        BY <3>2, <1>2 DEF FreeListInv, HeldApart, FreeListTypeOK, Piece
      <3>3. QED BY <3>1, <3>2
    <2>2. QED BY <2>1
  <1>9. last \notin held BY <1>5, <1>8
  <1>10. IsFiniteSet(held') /\ Cardinality(HeldNodes') = Cardinality(HeldNodes) + 1
    BY <1>1, <1>5, <1>9, TakeCounts DEF FreeListInv, FreeListTypeOK
  <1>11. FreeListTypeOK' BY <1>1, <1>2, <1>5, <1>7, <1>10 DEF FreeListInv, FreeListTypeOK
  <1>12. \A m \in FreeNodes' : \E i \in 1 .. nodes : m = Node(b, at(i)) BY <1>7 DEF FreeNodes
  <1>13. NodesWithinBlocks'
    <2>1. ASSUME NEW m \in FreeNodes'
          PROVE  m.size = NodeSize /\ m.block = b /\ m.at + NodeSize <= size
      <3>1. PICK i \in 1 .. nodes : m = Node(b, at(i)) BY <1>12
      <3>2. at(i) \in Nat /\ at(i) + NodeSize <= size - NodeSize BY <1>4
      <3>3. QED BY <3>1, <3>2, <1>3, <1>6
    <2>2. ASSUME NEW m \in HeldNodes
          PROVE  m.size = NodeSize /\ m.block \in 1 .. b - 1 /\ m.at + NodeSize <= memory[m.block]
      BY <1>2 DEF FreeListInv, NodesWithinBlocks
    <2>3. HeldNodes' \subseteq HeldNodes \cup {last} BY <1>1 DEF HeldNodes
    <2>4. last.size = NodeSize /\ last.block = b /\ last.at + NodeSize <= size BY <1>3, <1>5
    <2>5. b \in 1 .. Len(memory') /\ \A k \in 1 .. b - 1 : k \in 1 .. Len(memory') BY <1>2
    <2>6. QED BY <2>1, <2>2, <2>3, <2>4, <2>5, <1>2 DEF NodesWithinBlocks
  <1>14. NodesApart'
    <2>1. ASSUME NEW i \in 1 .. nodes, NEW j \in 1 .. nodes, i < j
          PROVE  at(i) + NodeSize <= at(j)
      <3>1. i - 1 \in Nat /\ j - 1 \in Nat /\ i - 1 < j - 1 BY <2>1
      <3>2. QED BY <3>1, <1>3, ProductGap
    <2>2. ASSUME NEW i \in 1 .. nodes, NEW j \in 1 .. nodes, i # j
          PROVE  ~Promise!Overlap(Node(b, at(i)), Node(b, at(j)))
      <3>1. at(i) + NodeSize <= at(j) \/ at(j) + NodeSize <= at(i)
        <4>1. CASE i < j BY <4>1, <2>1
        <4>2. CASE j < i BY <4>2, <2>1
        <4>3. QED BY <2>2, <4>1, <4>2
      <3>2. at(i) \in Nat /\ at(j) \in Nat BY <1>4
      <3> HIDE DEF at
      <3>3. QED BY <3>1, <3>2, <1>3, <1>6 DEF Promise!Overlap
    <2>3. ASSUME NEW m \in FreeNodes', NEW h \in held'
          PROVE  ~Promise!Overlap(m, h)
      <3>1. PICK i \in 1 .. nodes : m = Node(b, at(i)) BY <1>12
      <3>2. at(i) \in Nat /\ at(i) + NodeSize <= size - NodeSize BY <1>4
      <3>3. m.block = b /\ m.at = at(i) /\ m.size = NodeSize BY <3>1, <1>6
      <3> HIDE DEF at, last
      <3>4. CASE h = last BY <3>2, <3>3, <3>4, <1>3, <1>5 DEF Promise!Overlap
      <3>5. CASE h \in held BY <3>3, <3>5, <1>8 DEF Promise!Overlap
      <3>6. QED BY <3>4, <3>5, <1>1
    <2>4. \A i, j \in 1 .. Len(available') : i # j => ~Promise!Overlap(available'[i], available'[j])
      BY <2>2, <1>7
    <2>5. QED BY <2>3, <2>4 DEF NodesApart, Promise!Overlap
  <1>15. \A h \in held : ~Promise!Overlap(last, h) /\ ~Promise!Overlap(h, last)
    BY <1>5, <1>8 DEF Promise!Overlap
  <1>16. HeldApart' BY <1>1, <1>5, <1>15 DEF FreeListInv, HeldApart, Promise!Overlap
  <1>17. NodesAccounted'
    <2>0. IsFiniteSet(held) /\ HeldNodes \subseteq held
      BY DEF HeldNodes, FreeListInv, FreeListTypeOK
    <2>1. IsFiniteSet(HeldNodes) BY <2>0, FS_Subset
    <2>2. Cardinality(HeldNodes) \in Nat BY <2>1, FS_CardinalityType
    <2>3. Len(available) + Cardinality(HeldNodes) = capacity /\ Len(available) = 0
      BY <1>1 DEF FreeListInv, NodesAccounted
    <2>4. Len(available') + Cardinality(HeldNodes') = capacity'
      BY <2>2, <2>3, <1>1, <1>7, <1>10
    <2>5. QED BY <2>4 DEF NodesAccounted
  <1>18. Promise!Next BY <1>1, <1>15 DEF Promise!Next, Promise!Allocate
  <1>19. ~(held' \subseteq held) BY <1>1, <1>9
  <1>20. QED BY <1>11, <1>13, <1>14, <1>16, <1>17, <1>18, <1>19 DEF FreeListInv

=============================================================================
