----------------------------- MODULE PoolAlloc -----------------------------
(***************************************************************************)
(* PoolAlloc.h: the allocator of the nodes of one price map.  A node is    *)
(* one object (NodeSize is 1), and the blocks double the pool.             *)
(***************************************************************************)
EXTENDS FreeList

CONSTANT InitialSize
ASSUME InitialSizeAssumption == InitialSize \in Nat \ {0} /\ NodeSize = 1

Init ==
  /\ memory = <<InitialSize>> /\ capacity = InitialSize
  /\ available = [i \in 1 .. InitialSize |-> Node(1, i - 1)]
  /\ held = {} /\ owed = 0

\* Mutants: the node that is returned is pushed too; every block is as large as
\* the first; and no room is reserved.
AllocateNewPushAll == AllocateBlock(capacity, capacity, capacity)
AllocateNewSame == AllocateBlock(InitialSize, InitialSize - 1, InitialSize)
AllocateNewNoReserve == AllocateBlock(capacity, capacity - 1, 0)

\* The new block has the size of all blocks so far.
AllocateNew == AllocateBlock(capacity, capacity - 1, capacity)

Next == FreeListNext \/ AllocateNew
Spec == Init /\ [][Next]_vars

\* "a block allocator, which doubles each time, starting at initialSize": after
\* the second block every block is twice as large as the one before, and the
\* free list never has room for more than the blocks hold.
Doubles ==
  /\ memory[1] = InitialSize
  /\ capacity = IF Len(memory) = 1 THEN InitialSize ELSE 2 * memory[Len(memory)]
  /\ \A k \in 2 .. Len(memory) :
       memory[k] = IF k = 2 THEN InitialSize ELSE 2 * memory[k - 1]

=============================================================================
