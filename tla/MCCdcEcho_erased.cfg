SPECIFICATION Spec
CONSTANTS
  Mps = 2
  BufferLen = 3
  Lengths <- SomeLengths
  MaxMessages = 3
  MaxResets = 1
PROPERTIES
  EchoesEverything
CHECK_DEADLOCK FALSE
