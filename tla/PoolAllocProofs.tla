-------------------------- MODULE PoolAllocProofs --------------------------
(***************************************************************************)
(* PoolAlloc never hands a node out twice and implements the abstract      *)
(* allocator, for every initial size and any number of blocks.             *)
(***************************************************************************)
EXTENDS PoolAlloc, FreeListProofs

PoolInv == FreeListInv /\ Doubles /\ Len(memory) >= 1 /\ capacity > 0

LEMMA PoolInit == Init => PoolInv
  <1> SUFFICES ASSUME Init PROVE PoolInv OBVIOUS
  <1>1. InitialSize \in Nat \ {0} /\ NodeSize = 1 BY InitialSizeAssumption
  <1>2. ASSUME NEW i \in 1 .. InitialSize
        PROVE  /\ Node(1, i - 1) \in Piece /\ Node(1, i - 1).block = 1
               /\ Node(1, i - 1).at = i - 1 /\ Node(1, i - 1).size = 1
    BY <1>1, NodeType
  <1>3. /\ memory = <<InitialSize>> /\ Len(memory) = 1 /\ memory[1] = InitialSize
        /\ available = [i \in 1 .. InitialSize |-> Node(1, i - 1)]
        /\ Len(available) = InitialSize /\ available \in Seq(Piece)
        /\ held = {} /\ capacity = InitialSize
    BY <1>1, <1>2 DEF Init
  <1>4. HeldNodes = {} /\ Cardinality(HeldNodes) = 0 /\ IsFiniteSet(held)
    BY <1>3, FS_EmptySet DEF HeldNodes
  <1>5. FreeListTypeOK BY <1>1, <1>3, <1>4 DEF FreeListTypeOK
  <1>6. NodesWithinBlocks BY <1>1, <1>2, <1>3, <1>4 DEF NodesWithinBlocks, FreeNodes
  <1>7. NodesApart
    <2>1. ASSUME NEW i \in 1 .. InitialSize, NEW j \in 1 .. InitialSize, i # j
          PROVE  ~Promise!Overlap(Node(1, i - 1), Node(1, j - 1))
      BY <1>2, <2>1 DEF Promise!Overlap
    <2>2. QED BY <2>1, <1>3 DEF NodesApart
  <1>8. HeldApart BY <1>3 DEF HeldApart
  <1>9. NodesAccounted BY <1>1, <1>3, <1>4 DEF NodesAccounted
  <1>10. Doubles BY <1>1, <1>3 DEF Doubles
  <1>11. QED BY <1>1, <1>3, <1>5, <1>6, <1>7, <1>8, <1>9, <1>10 DEF PoolInv, FreeListInv

LEMMA PoolFreeListStep ==
  ASSUME PoolInv, FreeListNext
  PROVE  PoolInv' /\ Promise!Next /\ capacity' = capacity
  <1>1. FreeListInv' /\ Promise!Next BY FreeListStep DEF PoolInv
  <1>2. memory' = memory
    BY DEF FreeListNext, AllocateFree, AllocateArray, Deallocate, DeallocateArray
  <1>3. capacity' = capacity
    BY DeallocateStep
    DEF PoolInv, FreeListNext, AllocateFree, AllocateArray, DeallocateArray
  <1>4. QED BY <1>1, <1>2, <1>3 DEF PoolInv, Doubles

LEMMA PoolBlockStep ==
  ASSUME PoolInv, AllocateNew
  PROVE  PoolInv' /\ Promise!Next /\ ~(held' \subseteq held)
  <1>1. /\ capacity \in Nat \ {0} /\ NodeSize = 1 /\ memory \in Seq(Nat \ {0})
        /\ Len(memory) \in Nat \ {0}
    BY InitialSizeAssumption DEF PoolInv, FreeListInv, FreeListTypeOK
  <1>2. /\ capacity - 1 \in Nat /\ NodeSize <= capacity
        /\ (capacity - 1) * NodeSize <= capacity - NodeSize
    BY <1>1
  <1>3. AllocateBlock(capacity, capacity - 1, (capacity - 1) + 1)
    BY <1>1 DEF AllocateNew
  <1>4. FreeListInv' /\ Promise!Next /\ ~(held' \subseteq held)
    BY <1>1, <1>2, <1>3, AllocateBlockStep DEF PoolInv
  <1>5. memory' = Append(memory, capacity) /\ capacity' = capacity + capacity
    BY DEF AllocateNew, AllocateBlock
  <1>6. /\ Len(memory') = Len(memory) + 1 /\ memory'[Len(memory) + 1] = capacity
        /\ \A k \in 1 .. Len(memory) : memory'[k] = memory[k]
    BY <1>1, <1>5
  <1>7. Doubles'
    <2>1. memory'[1] = InitialSize BY <1>1, <1>6 DEF PoolInv, Doubles
    <2>2. capacity' = 2 * memory'[Len(memory')] /\ Len(memory') # 1 BY <1>1, <1>5, <1>6
    <2>3. ASSUME NEW k \in 2 .. Len(memory) + 1
          PROVE  memory'[k] = IF k = 2 THEN InitialSize ELSE 2 * memory'[k - 1]
      <3>1. CASE k <= Len(memory)
        <4>1. k \in 2 .. Len(memory) /\ k \in 1 .. Len(memory) /\ k - 1 \in 1 .. Len(memory)
          BY <1>1, <3>1
        <4>2. QED BY <4>1, <1>6 DEF PoolInv, Doubles
      <3>2. CASE k = Len(memory) + 1
        <4>1. memory'[k] = capacity /\ memory'[k - 1] = memory[Len(memory)]
          BY <1>1, <1>6, <3>2
        <4>2. Len(memory) \in Nat /\ k = Len(memory) + 1 BY <1>1, <3>2
        <4>3. CASE Len(memory) = 1
          <5>1. capacity = InitialSize BY <4>3 DEF PoolInv, Doubles
          <5>2. QED BY <4>1, <4>2, <4>3, <5>1
        <4>4. CASE Len(memory) # 1
          <5>1. capacity = 2 * memory[Len(memory)] BY <4>4 DEF PoolInv, Doubles
          <5>2. k # 2
            <6>1. ASSUME NEW n \in Nat, n # 1 PROVE n + 1 # 2 BY <6>1
            <6>2. QED BY <6>1, <4>2, <4>4, Zenon
          <5>3. memory'[k] = 2 * memory'[k - 1] BY <4>1, <5>1, Zenon
          <5>4. QED BY <5>2, <5>3
        <4>5. QED BY <4>3, <4>4
      <3>3. QED BY <1>1, <3>1, <3>2
    <2>4. QED BY <2>1, <2>2, <2>3, <1>6 DEF Doubles
  <1>8. QED BY <1>1, <1>4, <1>5, <1>6, <1>7 DEF PoolInv

LEMMA PoolStep == PoolInv /\ [Next]_vars => PoolInv' /\ [Promise!Next]_<<held, owed>>
  <1> SUFFICES ASSUME PoolInv, [Next]_vars PROVE PoolInv' /\ [Promise!Next]_<<held, owed>> OBVIOUS
  <1>1. CASE FreeListNext BY <1>1, PoolFreeListStep
  <1>2. CASE AllocateNew BY <1>2, PoolBlockStep
  <1>3. CASE UNCHANGED vars
    <2>1. /\ memory' = memory /\ available' = available
          /\ capacity' = capacity /\ held' = held /\ owed' = owed
      BY <1>3 DEF vars
    <2>2. FreeListInv'
      BY <2>1 DEF PoolInv, FreeListInv, FreeListTypeOK, NodesWithinBlocks, NodesApart,
                  HeldApart, NodesAccounted, FreeNodes, HeldNodes, Promise!Overlap
    <2>3. QED BY <2>1, <2>2 DEF PoolInv, Doubles
  <1>4. QED BY <1>1, <1>2, <1>3 DEF Next

THEOREM PoolInvariance == Spec => []PoolInv
  BY PoolInit, PoolStep, PTL DEF Spec

\* A node of a price map is free or in use, and shares no memory with another.
THEOREM PoolNodesApart == Spec => []NodesApart
  <1>1. PoolInv => NodesApart BY DEF PoolInv, FreeListInv
  <1>2. QED BY <1>1, PoolInvariance, PTL

\* No node is lost, and the free list always has room for one more to come back.
THEOREM PoolNodesAccounted == Spec => []NodesAccounted
  <1>1. PoolInv => NodesAccounted BY DEF PoolInv, FreeListInv
  <1>2. QED BY <1>1, PoolInvariance, PTL

\* The pool doubles each time, starting at the initial size.
THEOREM PoolDoubles == Spec => []Doubles
  <1>1. PoolInv => Doubles BY DEF PoolInv
  <1>2. QED BY <1>1, PoolInvariance, PTL

\* Only a step that hands memory out makes the free list larger, so a container
\* may give a node back in a destructor.
THEOREM PoolFreeingNeverAllocates == Spec => FreeingNeverAllocates
  <1>1. ASSUME PoolInv, [Next]_vars
        PROVE  [held' \subseteq held => capacity' = capacity]_vars
    <2>1. CASE FreeListNext BY <1>1, <2>1, PoolFreeListStep
    <2>2. CASE AllocateNew BY <1>1, <2>2, PoolBlockStep
    <2>3. CASE UNCHANGED vars BY <2>3
    <2>4. QED BY <1>1, <2>1, <2>2, <2>3 DEF Next
  <1>2. QED BY <1>1, PoolInvariance, PTL DEF Spec, FreeingNeverAllocates

\* PoolAlloc implements the allocator the containers rely on.
THEOREM PoolRefinesAllocator == Spec => RefinesAllocator
  <1>1. Init => Promise!Init BY DEF Init, Promise!Init
  <1>2. QED BY <1>1, PoolInvariance, PoolStep, PTL DEF Spec, RefinesAllocator, Promise!Spec

=============================================================================
