CONSTANTS
  \* Files: one page for pipes; a pipe takes all descriptors of a process, and
  \* with one more file open the table is full.
  Procs = {1, 2}
  NOFILE = 2
  NFILE = 3
  NPages = 1
  \* Alarm.
  Periods = {0, 1, 2}
  Steps = 2
  NSpare = 4
  \* Clock.
  NPROC = 3
  NHARTS = 2
  Naps <- MCNaps
  MaxTicks = 2
  \* Console: indices go round after two turns of the ring.
  Readers = {"r1", "r2"}
  Size = 3
  Wrap = 6
  Plain = {"x"}
  Counts = {2}
  \* Uart.
  Writers = {"w1", "w2"}
  Echoers = {"user", "intr2"}
  TxSize = 2
  FifoDepth = 3
  MaxWritten = 2
  MaxEcho = 1
SPECIFICATION MCSpec
CHECK_DEADLOCK FALSE
INVARIANTS BlocksSound TerminalExact ProgramsExact FilesExact ClockExact 
PROPERTIES  ResumesInterrupted LinesKept
