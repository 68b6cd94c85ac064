CONSTANTS
  Proc = {p1, p2}
  Block = {b1, b2, b3, b4}
  Val = {old, new}
  InitVal = old
  NBUF = 3
  MaxPins = 1
  None = None
SPECIFICATION Spec
SYMMETRY Symmetry
INVARIANTS CacheSound SleeperHasHolder
PROPERTY Refines
