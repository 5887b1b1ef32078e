SPECIFICATION Spec
CONSTANTS
  PROGMAN = PROGMAN
  FILEMAN = FILEMAN
  SETTINGS = SETTINGS
  Free = Free
  Full = Full
  MaxActive = 16
  Program <- Programs
  Launches <- Calls
  Closers <- OnlySettings
  Spots <- OneSpot
  Cascade <- AllFirst
PROPERTIES CloseSelectsNext
