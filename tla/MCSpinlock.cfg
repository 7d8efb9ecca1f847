CONSTANTS
  CPU = {c0, c1}
  tickslock = tickslock
  ptablelock = ptablelock
  Lock = {tickslock, ptablelock}
  Rank <- MCRank
  NoLock = NoLock
  NoCPU = NoCPU
SPECIFICATION Spec
INVARIANTS
  MutualExclusion
  InterruptsOffWhileHolding
  NoPanic
  FlagRestored
