SPECIFICATION PartsSpec
CONSTANTS
  Series <- Steps
  Settings <- Moments
  MaxTicks = 2
  Sector <- Sectors
  Old = Old
  Bad = Bad
  Total = 2
  Largest = 7
  Base = 3
  Hundred = 2
  Rows = 4
  Cols = 2
  Buttons <- Layout
  Count = 3
  Span = 22
  Points <- Spots
  Eagle = Eagle
  Blue = Blue
  Green = Green
  Red = Red
  Dark = Dark
  Themes <- Palette
INVARIANTS TypesOK ReadingIsTrue AnswersAreTrue VerdictIsTrue ShowsTheTruth ShownIsInForce
PROPERTIES TickIsNextSecond LandsWhereMeant InstallEnds DoubleClickIsTwo
