CONSTANTS
  Proc = {p0, p1}
  Buf = {x0, x1, x2}
  Block = {k0, k1, k2, k3}
  Val = {0, 1}
  NoBlock = NoBlock
  NoBuf = NoBuf
  MaxPinned = 1
  BadBlocks = {k3}
SPECIFICATION Spec
INVARIANTS
  ExclusiveBuffers
  ReaderSeesLatest
  SleepersHaveWakers
SYMMETRY MCSymmetry
