CONSTANTS
  Proc = {p0, p1}
  NoProc = NoProc
  NInum = 2
  NINODE = 2
  Name = {"a"}
  AbsPaths <- OnePath
  RelPaths <- NoPaths
  LinkPaths <- NoPaths
  Calls = {"creat", "unlink"}
CHECK_DEADLOCK FALSE
SPECIFICATION Spec
INVARIANT NoDeadlock
SYMMETRY MCSymmetry
