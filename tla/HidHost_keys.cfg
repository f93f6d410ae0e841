SPECIFICATION Spec
CONSTANTS
  Keys = {a, b}
  NoKey = NoKey
  RollOver = RollOver
  Slots = 2
  MaxOverwrites = 1
INVARIANTS
  Alternate
  ToldIsReported
PROPERTIES
  AskedAgain
