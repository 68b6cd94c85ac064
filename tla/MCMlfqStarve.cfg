CONSTANTS
  c1 = c1
  Cpu <- MCCpu
  NPROC = 2
  NQ = 2
  Quantum <- MCQuantum
  AGE = 1
  Parts = {"mlfq"}
  Reported <- MCReported
SPECIFICATION MCSpec
PROPERTY NoStarvation
