SPECIFICATION Spec
CONSTANTS
  HeadLen = 1
  Mps = 2
  MaxLen = 4
  Prefetch = 2
  MaxSize = 14
  Requests <- WholeOrInside
INVARIANTS
  Complete
  ShortAtEndOnly
  OneTransfer
PROPERTIES
  Answered
  CarriesTheFile
