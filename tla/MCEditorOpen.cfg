SPECIFICATION Spec
CONSTANTS
  x = x
  y = y
  NOTE = NOTE
  MEMO = MEMO
  NL = NL
  Other = Other
  NoFile = NoFile
  Default = NOTE
  Char <- OneChar
  MaxLines = 2
  LineLen = 1
  Samples <- Letters
  Name <- TwoNames
  Given <- PlainGiven
  Outcomes <- AllOutcomes
PROPERTIES OpenedFileIsShown
