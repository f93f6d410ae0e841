SPECIFICATION Spec
CONSTANTS
  Names = {a, b}
  Cards <- SmallCards
  MaxObjects = 3
  MaxDepth = 2
  BlockSize = 2
  ParentRange = 65536
  MaxEntries = 5
  AllocFails = FALSE
SYMMETRY Symmetry
INVARIANTS
  RootListed
