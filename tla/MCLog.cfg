CONSTANTS
  Thread = {t0, t1}
  Block = {b0, b1, b2}
  Val = {v0, v1}
  LogSizes = {4, 6}
  MAXOPBLOCKS = 3
  OpBlocks = 2
  NoBlock = NoBlock
  NotCached = NotCached
  MaxCrashes = 2
SPECIFICATION Spec
INVARIANTS
  CommitIsDurable
  SleeperHasWaker
  NoPanic
PROPERTY AtomicTransactions
SYMMETRY MCSymmetry
