CONSTANTS
  Proc = {p0, p1}
  NoProc = NoProc
  NInum = 3
  NINODE = 3
  Name = {"a"}
  AbsPaths <- OnePath
  RelPaths <- OnePath
  LinkPaths <- Links
  Calls = {"open", "creat", "mkdir", "unlink", "chdir"}
CHECK_DEADLOCK FALSE
SPECIFICATION Spec
INVARIANTS
  RefTracksPointers
  NothingInUseIsFree
  CacheIsWriteThrough
SYMMETRY MCSymmetry
