CONSTANTS
  o1 = o1
  o2 = o2
  o3 = o3
  b1 = b1
  b2 = b2
  b3 = b3
  Op <- MCOp
  Block <- MCBlock
  None = None
  MAXOPBLOCKS = 2
  OpBlocks = 1
  LOGSIZE = 4
  nlog = 4
  MaxWrites = 5
  MaxCrashes = 2
SPECIFICATION Spec
SYMMETRY Symmetry
INVARIANTS LogSound NoLostWakeup
PROPERTY Refines
