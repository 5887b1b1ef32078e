SPECIFICATION Spec
CONSTANTS
  N = 2
  MaxLen = 2
  a = a
  b = b
  v = v
  w = w
  SYS = SYS
  MARK = MARK
  NONE = NONE
  part = part
  NoData = NoData
  Component <- Components
  Stub <- PartStub
  Contents <- Contents1
  FilePaths <- FlatFiles
  DirPaths <- FlatDirs
  ReadResults = {TRUE, FALSE}
  FlushResults <- AnyFlush
INVARIANTS UniqueNames WriteThrough WholeFiles
