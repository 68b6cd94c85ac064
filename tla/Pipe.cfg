CONSTANTS
  Writer = {w1, w2}
  Reader = {r1}
  Byte = {x, y}
  Killable = {w1, r1}
  None = None
  PIPESIZE = 2
  UMAX = 4
  MaxN = 2
SPECIFICATION FairSpec
CHECK_DEADLOCK FALSE
INVARIANTS NoLostWakeup FreedOnce
PROPERTIES Refines CloseEnds
