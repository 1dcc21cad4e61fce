----------------------------- MODULE SharedPool -----------------------------
(***************************************************************************)
(* SharedPoolAllocator.h: the nodes of all deques of orders of one type,   *)
(* in chunks of ChunkSize objects.  A deque asks for NodeSize objects at a *)
(* time (allocator_constants.h); a chunk need not be a multiple of them.   *)
(***************************************************************************)
EXTENDS FreeList

CONSTANT ChunkSize
ASSUME ChunkSizeAssumption == ChunkSize \in Nat /\ NodeSize <= ChunkSize

Init ==
  /\ memory = <<>> /\ available = <<>> /\ capacity = 0
  /\ held = {} /\ owed = 0

numAddresses == ChunkSize \div NodeSize

\* Mutants: one node more than fits; the loop does not leave out the node at
\* the end; and no room is reserved.
AllocateChunkPastEnd == AllocateBlock(ChunkSize, numAddresses + 1, numAddresses)
AllocateChunkPushAll == AllocateBlock(ChunkSize, numAddresses, numAddresses)
AllocateChunkNoReserve == AllocateBlock(ChunkSize, numAddresses - 1, 0)

\* The returned node is the last NodeSize objects of the chunk; the others lie
\* one after the other from its start.
AllocateChunk ==
  LET toReturn == ChunkSize - NodeSize
  IN  AllocateBlock(ChunkSize, toReturn \div NodeSize, numAddresses)

Next == FreeListNext \/ AllocateChunk
Spec == Init /\ [][Next]_vars

=============================================================================
