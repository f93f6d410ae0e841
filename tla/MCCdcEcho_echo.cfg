SPECIFICATION Spec
CONSTANTS
  Mps = 2
  BufferLen = 3
  Lengths <- SomeLengths
  MaxMessages = 3
  MaxResets = 1
INVARIANTS
  EchoesInOrder
  EchoesFresh
  OneTransfer
PROPERTIES
  EchoesAllButErased
  SpinEnds
CHECK_DEADLOCK FALSE
