SPECIFICATION Spec
CONSTANTS
  Tasks = {t1, t2}
  NoTask = NoTask
  MaxDisconnects = 1
INVARIANTS
  TypeOK
  NoStuckWait
  LiveWhileUp
  FreedOnlyInStop
  NoLostStart
  StartInv
SYMMETRY Symmetry
PROPERTIES
  AtMostOnce
CHECK_DEADLOCK FALSE
