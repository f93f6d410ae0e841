SPECIFICATION Spec
CONSTANTS
  HeadLen = 1
  Mps = 2
  MaxLen = 4
  MaxSize = 14
  Sizes <- AllSizes
  StoreFails = TRUE
  MayReset = TRUE
  OddHost = TRUE
INVARIANTS
  TypeOK
  HandleIntact
  OneRead
  NoStrayStop
PROPERTIES
  Answered
  CarriesTheFile
