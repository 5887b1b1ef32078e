SPECIFICATION Spec
CONSTANTS
  x = x
  y = y
  NOTE = NOTE
  MEMO = MEMO
  NL = NL
  Other = Other
  NoFile = NoFile
  Default = NOTE
  Char <- TwoChars
  MaxLines = 2
  LineLen = 2
  Samples <- Letters
  Name <- OneName
  Given <- OddGiven
  Outcomes <- AllOutcomes
INVARIANTS TypeOK
PROPERTIES TextKept
SYMMETRY Alike
