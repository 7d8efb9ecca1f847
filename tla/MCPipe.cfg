CONSTANTS
  Proc = {p0, p1, p2}
  first = p0
  Byte = {0, 1}
  PIPESIZE = 2
  UINT = 4
  MaxRequest = 2
  MaxKills = 1
CHECK_DEADLOCK FALSE
SPECIFICATION PipeSpec
INVARIANTS
  NoStrandedSleeper
PROPERTY PipeIsFifo
SYMMETRY Children
