SPECIFICATION Spec
CONSTANTS
  NodeSize = 1
  InitialSize = 1
  ArraySizes = {2}
  MaxBlocks = 4
  MaxArrays = 1
INVARIANTS
  NodesApart NodesAccounted Doubles
PROPERTIES
  FreeingNeverAllocates RefinesAllocator
