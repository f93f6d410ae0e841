SPECIFICATION Spec
CONSTANTS
  Names = {a, b}
  Cards <- SmallCards
  MaxObjects = 2
  MaxDepth = 2
  BlockSize = 64
  ParentRange = 65536
  MaxEntries = 3
  AllocFails = TRUE
SYMMETRY Symmetry
INVARIANTS
  TypeOK
  HandleValid
  NoTwoHandles
  ListingExact
