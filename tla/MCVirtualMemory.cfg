CONSTANTS
  Proc = {p0, p1}
  init = p0
  NPage = 13
  PGSIZE = 2
  NPTENTRIES = 2
  KERNBASE = 12
  UINT = 24
  KTables = 1
  Increments <- MCIncrements
  Programs <- MCPrograms
  ArgLens = {1, 3}
CHECK_DEADLOCK FALSE
SPECIFICATION Spec
INVARIANTS
  PagesConserved
  
  
  ArgsMapped
