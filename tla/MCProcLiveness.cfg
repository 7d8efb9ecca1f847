CONSTANTS
  NPROC = 3
  CPU = {c0}
  NoCPU = NoCPU
  Syscalls = {"fork", "exit", "wait", "kill"}
  Pids = {2}
  Priorities = {}
  MaxPid = 3
SPECIFICATION FairSpec
PROPERTIES
  RunnableRuns
  WaitReturns
  KilledExits
