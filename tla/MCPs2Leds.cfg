SPECIFICATION Spec
CONSTANTS
  E0 = E0
  E1 = E1
  ACK = ACK
  CTRL = CTRL
  NUM = NUM
  SHIFT = SHIFT
  ALT = ALT
  CAPS = CAPS
  A = A
  UP = UP
  Code <- Codes
  Mod <- Mods
  Lock <- Locks
  Shown <- Visible
  Key <- AltKey
  HasPause = TRUE
  Packet <- MarkedPacket
  CutsPacket = TRUE
  MaxKbd = 6
  MaxAux = 3
  MaxLocks = 1
  MaxAstray = 2
INVARIANTS TypeOK ModifiersFollow Aligned WrongPacketsHaveCauses
PROPERTIES LedUpdateEnds
