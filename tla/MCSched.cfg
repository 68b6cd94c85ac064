CONSTANTS
  c1 = c1
  Cpu <- MCCpu
  NPROC = 2
  NQ = 2
  Quantum <- MCQuantum
  AGE = 1
  Parts = {"mlfq", "processes"}
  Reported <- MCReported
SPECIFICATION MCSpec
PROPERTIES NotLeftIdle KillDelivered InitReaps
