SPECIFICATION Spec
CONSTANTS
  N = 2
  MaxLen = 2
  a = a
  b = b
  v = v
  SYS = SYS
  MARK = MARK
  NONE = NONE
  part = part
  NoData = NoData
  EDITOR = EDITOR
  PROGMAN = PROGMAN
  Component <- Components
  Stub <- PartStub
  Contents <- TwoContents
  FilePaths <- Saved
  DirPaths <- Folders
  ReadResults = {TRUE}
  FlushResults <- GoodOrLate
  Data <- OneData
  SystemFile <- OneSystemFile
  Program <- OneProgram
  Typed <- SomeInputs
  Visible = 2
  Point <- Pixels
INVARIANTS TypeOK RowsAreCurrent
PROPERTIES OnlyWhatWasAsked OpensFiles
