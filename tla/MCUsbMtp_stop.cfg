SPECIFICATION Spec
CONSTANTS
  Tasks = {t1, t2}
  NoTask = NoTask
  MaxDisconnects = 0
INVARIANTS
  NoUseAfterFree
SYMMETRY Symmetry
CHECK_DEADLOCK FALSE
