CONSTANTS
  NPROC = 3
  CPU = {c0, c1}
  NoCPU = NoCPU
  Syscalls = {"fork", "exit", "wait", "kill", "chpr", "exec", "fault"}
  Pids = {3}
  Priorities = {20}
  MaxPid = 3
SPECIFICATION Spec
INVARIANTS
  OneCpuPerProcess
  ParentAlive
  NoLostExit
  ResourcesOwned
  IntenaFollowsThread
 
SYMMETRY CPUSymmetry
