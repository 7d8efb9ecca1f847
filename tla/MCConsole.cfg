CONSTANTS
  Proc = {p0, p1}
  INPUT_BUF = 2
  UINT = 4
  COLS = 2
  ROWS = 2
  Reads = {1, 2}
  Sleeps <- MCSleeps
SPECIFICATION Spec
INVARIANTS
  RingMovesOn
  NoLostWakeup
  CursorOnScreen
PROPERTIES
  FinishedIsFifo
  EndOfFileOnce
SYMMETRY MCSymmetry
