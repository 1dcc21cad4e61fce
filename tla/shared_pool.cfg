SPECIFICATION Spec
CONSTANTS
  NodeSize = 3
  ChunkSize = 10
  ArraySizes = {1, 4}
  MaxBlocks = 2
  MaxArrays = 2
INVARIANTS
  NodesWithinBlocks NodesAccounted
PROPERTIES
  RefinesAllocator
