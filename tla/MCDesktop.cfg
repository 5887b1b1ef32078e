SPECIFICATION DesktopSpec
CONSTANTS
  PROGMAN = PROGMAN
  FILEMAN = FILEMAN
  SETTINGS = SETTINGS
  Free = Free
  Full = Full
  MaxActive = 16
  Buttons = 3
  Program <- Programs
  Launches <- Calls
  Closers <- OnlySettings
  Watched <- TwoWatched
  Spots <- OneSpot
  Cascade <- AllFirst
INVARIANTS TypeOK OrderIsPermutation OneWindowEach FocusIsTopmost SpecialWindows MemoriesAgree ActsOnce OnlyTheLeftMissPresses
PROPERTIES DragKeepsWindow ClosingKeepsOthers
