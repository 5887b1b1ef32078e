SPECIFICATION Spec
CONSTANTS
  N = 3
  MaxLen = 3
  a = a
  b = b
  v = v
  w = w
  SYS = SYS
  MARK = MARK
  NONE = NONE
  part = part
  NoData = NoData
  Component <- Components
  Stub <- NoStub
  Contents <- Contents1
  FilePaths <- TreeFiles
  DirPaths <- TreeDirs
  ReadResults = {TRUE}
  FlushResults <- GoodFlush
INVARIANTS TypeOK ListingAgrees
PROPERTIES DirOpsNeverShadow DirOpsKeepFiles SavedFilesStay
