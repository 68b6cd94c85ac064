CONSTANTS
  p1 = p1
  p2 = p2
  Proc <- MCProc
  NINODES = 3
  NFILE = 1
  Name <- MCName
  Calls <- MCCalls
  initproc = p1
  None = None
SPECIFICATION Spec
INVARIANTS NoPanic CountsExact LockProgress
PROPERTY FreedAlone
