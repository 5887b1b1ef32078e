SPECIFICATION Spec
CONSTANTS
  E0 = E0
  E1 = E1
  ACK = ACK
  CTRL = CTRL
  NUM = NUM
  SHIFT = SHIFT
  ALT = ALT
  CAPS = CAPS
  A = A
  UP = UP
  Code <- Codes
  Mod <- Mods
  Lock <- Locks
  Shown <- Visible
  Key <- ShiftKeys
  HasPause = FALSE
  Packet <- OnePacket
  CutsPacket = FALSE
  MaxKbd = 3
  MaxAux = 3
  MaxLocks = 0
  MaxAstray = 1
INVARIANTS ShiftIsReleased
