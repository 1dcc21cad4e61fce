------------------------------ MODULE FreeList ------------------------------
(***************************************************************************)
(* What PoolAlloc and SharedPoolAllocator have in common: blocks of memory *)
(* that are never returned, cut into nodes, a vector of the nodes nobody   *)
(* owns, used as a stack, and operator new for requests of another size.   *)
(* Each of the two modules that extend this one adds how a block is made.  *)
(***************************************************************************)
EXTENDS Integers, Sequences, FiniteSets

CONSTANTS
  NodeSize,        \* the number of objects of a node, the request that is pooled
  ArraySizes,      \* other numbers of objects the containers ask for
  MaxBlocks,       \* bound: the blocks of memory a pool may make
  MaxArrays        \* bound: the arrays operator new has given out at a time

ASSUME NodeSizeAssumption  == NodeSize \in Nat \ {0}
ASSUME ArraySizeAssumption == ArraySizes \subseteq Nat \ {0, NodeSize}

VARIABLES
  memory,          \* the size of each block
  available,       \* the free nodes
  capacity,        \* available.capacity()
  held,            \* what the containers have been given and have not given back
  owed             \* how often they were given it: a second time is a step, too

vars == <<memory, available, capacity, held, owed>>

\* The cells [at, at + size) of a block.  Blocks of the pool count from 1; what
\* operator new returns is a block of its own, with a negative number.
Piece == [block : Int, at : Nat, size : Nat \ {0}]
Node(block, at) == [block |-> block, at |-> at, size |-> NodeSize]
Array(k, n) == [block |-> -k, at |-> 0, size |-> n]
HeldNodes == {h \in held : h.size = NodeSize}

-----------------------------------------------------------------------------

\* Mutant of AllocateFree: back() without pop_back().
AllocateFreeNoPop ==
  /\ available # <<>>
  /\ held' = held \cup {available[Len(available)]} /\ owed' = owed + 1
  /\ UNCHANGED <<memory, available, capacity>>

AllocateFree ==
  /\ available # <<>>
  /\ held' = held \cup {available[Len(available)]} /\ owed' = owed + 1
  /\ available' = SubSeq(available, 1, Len(available) - 1)
  /\ UNCHANGED <<memory, capacity>>

\* numToAllocate is not the size of a node.
AllocateArray(n) ==
  /\ \E k \in 1 .. MaxArrays :
       /\ \A h \in held : h.block # -k
       /\ held' = held \cup {Array(k, n)} /\ owed' = owed + 1
  /\ UNCHANGED <<memory, available, capacity>>

\* push_back, which makes the vector grow when it is full.
Deallocate(r) ==
  /\ r.size = NodeSize
  /\ held' = held \ {r} /\ owed' = owed - 1
  /\ available' = Append(available, r)
  /\ capacity' = IF Len(available) < capacity THEN capacity ELSE 2 * capacity
  /\ UNCHANGED memory

DeallocateArray(r) ==
  /\ r.size # NodeSize
  /\ held' = held \ {r} /\ owed' = owed - 1
  /\ UNCHANGED <<memory, available, capacity>>

\* available is empty: reserve room for more nodes and make a block.  All but
\* the last of its nodes become available, and the last one is returned.
AllocateBlock(size, nodes, more) ==
  /\ available = <<>>
  /\ Len(memory) < MaxBlocks
  /\ memory' = Append(memory, size)
  /\ available' = [i \in 1 .. nodes |-> Node(Len(memory) + 1, (i - 1) * NodeSize)]
  /\ capacity' = capacity + more
  /\ held' = held \cup {Node(Len(memory) + 1, size - NodeSize)} /\ owed' = owed + 1

FreeListNext ==
  \/ AllocateFree
  \/ \E n \in ArraySizes : AllocateArray(n)
  \/ \E r \in held : Deallocate(r) \/ DeallocateArray(r)

-----------------------------------------------------------------------------
(* Properties of both pools *)

Promise == INSTANCE Allocator

FreeNodes == {available[i] : i \in 1 .. Len(available)}

FreeListTypeOK ==
  /\ memory \in Seq(Nat \ {0})
  /\ available \in Seq(Piece) /\ capacity \in Nat
  /\ held \subseteq Piece /\ IsFiniteSet(held)

\* Every node, free or in use, lies within a block that was made: a last node
\* that sticks out would be memory of somebody else.
NodesWithinBlocks ==
  \A n \in FreeNodes \cup HeldNodes :
    /\ n.size = NodeSize /\ n.block \in 1 .. Len(memory)
    /\ n.at + NodeSize <= memory[n.block]

\* A node is free once or in use, and no two share a cell.
NodesApart ==
  /\ \A i, j \in 1 .. Len(available) : i # j => ~Promise!Overlap(available[i], available[j])
  /\ \A n \in FreeNodes, h \in held : ~Promise!Overlap(n, h)

\* Not a node gets lost however often it is used again, and the free list has
\* room for all of them: reserve made it when the blocks were made.
NodesAccounted == Len(available) + Cardinality(HeldNodes) = capacity

\* Giving memory back does not allocate any (nor can it throw): containers give
\* back memory in destructors.
FreeingNeverAllocates ==
  [][held' \subseteq held => capacity' = capacity]_vars

\* Memory handed out is nobody else's until it is given back.
RefinesAllocator == Promise!Spec

=============================================================================
