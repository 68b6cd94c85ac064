CONSTANTS
  CPU = {c1, c2}
  NPROC = 3
  NoCpu = NoCpu
  Preemptible = {"fork", "setparent", "setrun", "exit", "wait"}
SPECIFICATION Spec
INVARIANTS KernelStacks ChildrenKept
