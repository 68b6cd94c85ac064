CONSTANTS
  p1 = p1
  p2 = p2
  Proc <- MCProc
  NINODES = 3
  NFILE = 1
  Name <- MCName
  Calls <- DotDotCalls
  initproc = p1
  None = None
SPECIFICATION Spec
INVARIANT NoPanic
