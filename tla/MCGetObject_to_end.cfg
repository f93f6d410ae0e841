SPECIFICATION Spec
CONSTANTS
  HeadLen = 1
  Mps = 2
  MaxLen = 4
  Prefetch = 2
  MaxSize = 6
  Requests <- ToTheEnd
PROPERTIES
  Answered
CHECK_DEADLOCK FALSE
