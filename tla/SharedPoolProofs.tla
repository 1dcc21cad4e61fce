-------------------------- MODULE SharedPoolProofs --------------------------
(***************************************************************************)
(* The shared pool never hands out overlapping nodes and implements the    *)
(* abstract allocator, for all sizes of nodes and chunks.                  *)
(***************************************************************************)
EXTENDS SharedPool, FreeListProofs

\* The loop pushes one node less than numAddresses, which is the number that
\* fits in before the node at the end of the chunk.
LEMMA ChunkNodes ==
  LET nodes == (ChunkSize - NodeSize) \div NodeSize
  IN  /\ nodes \in Nat
      /\ nodes * NodeSize <= ChunkSize - NodeSize
      /\ numAddresses = nodes + 1
  <1> DEFINE n == NodeSize
             nodes == (ChunkSize - n) \div n
             rest == (ChunkSize - n) % n
  <1>1. n \in Nat /\ n > 0 /\ ChunkSize \in Nat /\ ChunkSize - n \in Nat
    BY NodeSizeAssumption, ChunkSizeAssumption
  <1>2. nodes \in Nat /\ rest \in Nat /\ rest < n /\ ChunkSize - n = n * nodes + rest
    BY <1>1
  <1>3. nodes * n = n * nodes /\ n * nodes \in Nat BY <1>1, <1>2
  <1>4. nodes * n <= ChunkSize - n BY <1>1, <1>2, <1>3
  <1>5. numAddresses = nodes + 1
    <2>1. ChunkSize = n * (nodes + 1) + rest BY <1>1, <1>2
    <2>2. QED BY <1>1, <1>2, <2>1 DEF numAddresses
  <1>6. QED BY <1>2, <1>4, <1>5

LEMMA SharedInit == Init => FreeListInv
  <1> SUFFICES ASSUME Init PROVE FreeListInv OBVIOUS
  <1>1. memory = <<>> /\ available = <<>> /\ capacity = 0 /\ held = {} BY DEF Init
  <1>2. HeldNodes = {} /\ FreeNodes = {} /\ Cardinality(HeldNodes) = 0 /\ IsFiniteSet(held)
    BY <1>1, FS_EmptySet DEF HeldNodes, FreeNodes
  <1>3. FreeListTypeOK BY <1>1, <1>2 DEF FreeListTypeOK
  <1>4. NodesWithinBlocks /\ NodesApart /\ HeldApart
    BY <1>1, <1>2 DEF NodesWithinBlocks, NodesApart, HeldApart
  <1>5. NodesAccounted BY <1>1, <1>2 DEF NodesAccounted
  <1>6. QED BY <1>3, <1>4, <1>5 DEF FreeListInv

LEMMA SharedStep == FreeListInv /\ [Next]_vars => FreeListInv' /\ [Promise!Next]_<<held, owed>>
  <1> SUFFICES ASSUME FreeListInv, [Next]_vars PROVE FreeListInv' /\ [Promise!Next]_<<held, owed>>
    OBVIOUS
  <1>1. CASE FreeListNext BY <1>1, FreeListStep
  <1>2. CASE AllocateChunk
    <2> DEFINE nodes == (ChunkSize - NodeSize) \div NodeSize
    <2>1. nodes \in Nat /\ nodes * NodeSize <= ChunkSize - NodeSize /\ numAddresses = nodes + 1
      BY ChunkNodes
    <2>2. AllocateBlock(ChunkSize, nodes, nodes + 1) BY <1>2, <2>1 DEF AllocateChunk
    <2>3. ChunkSize \in Nat \ {0} /\ NodeSize <= ChunkSize
      BY NodeSizeAssumption, ChunkSizeAssumption
    <2> HIDE DEF nodes
    <2>4. QED BY <2>1, <2>2, <2>3, AllocateBlockStep
  <1>3. CASE UNCHANGED vars
    <2>1. /\ memory' = memory /\ available' = available
          /\ capacity' = capacity /\ held' = held /\ owed' = owed
      BY <1>3 DEF vars
    <2>2. QED
      BY <2>1 DEF FreeListInv, FreeListTypeOK, NodesWithinBlocks, NodesApart,
                  HeldApart, NodesAccounted, FreeNodes, HeldNodes, Promise!Overlap
  <1>4. QED BY <1>1, <1>2, <1>3 DEF Next

THEOREM SharedInvariance == Spec => []FreeListInv
  BY SharedInit, SharedStep, PTL DEF Spec

\* Every node lies in its chunk, the one at the end of a chunk that is not a
\* multiple of the node size included.
THEOREM SharedNodesWithinBlocks == Spec => []NodesWithinBlocks
  <1>1. FreeListInv => NodesWithinBlocks BY DEF FreeListInv
  <1>2. QED BY <1>1, SharedInvariance, PTL

\* No node is lost, and the free list always has room for one more to come back.
THEOREM SharedNodesAccounted == Spec => []NodesAccounted
  <1>1. FreeListInv => NodesAccounted BY DEF FreeListInv
  <1>2. QED BY <1>1, SharedInvariance, PTL

\* The shared pool implements the allocator the containers rely on.
THEOREM SharedRefinesAllocator == Spec => RefinesAllocator
  <1>1. Init => Promise!Init BY DEF Init, Promise!Init
  <1>2. QED BY <1>1, SharedInvariance, SharedStep, PTL DEF Spec, RefinesAllocator, Promise!Spec

=============================================================================
