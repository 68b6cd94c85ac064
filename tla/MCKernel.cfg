CONSTANTS
  c1 = c1
  c2 = c2
  CPU <- MCCPU
  Lock <- MCLock
  HandlerLock <- MCLock
  NoCpu = NoCpu
SPECIFICATION MCSpec
SYMMETRY Symmetry
INVARIANTS InterruptsOff NoPanic IntenaRestored AtMostTwice MemorySound
PROPERTIES Refines WorkConserving LevelMoves MemoryRefines
