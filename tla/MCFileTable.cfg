CONSTANTS
  Proc = {p0, p1}
  init = p0
  File = {f0x, f1x, f2x}
  Pipe = {x0}
  NOFILE = 3
  NoFile = NoFile
  NoPipe = NoPipe
  NoProc = NoProc
SPECIFICATION Spec
INVARIANTS
  RefIsExact
  PipeLifetime
SYMMETRY MCSymmetry
