CONSTANTS
  Nums = {64}
  NoNum = NoNum
  NumSlots = 5
  IntrSlot = 1
  IllSlot = 2
  DivSlot = 3
  IntcSlot = 4
  Guest <- FreeGuest
  TornInstr <- FreeTorn
  MaxRaise = 1
  MaxFaults = 3
SPECIFICATION Spec
INVARIANTS
  TypeOK
  HandlerMode
CHECK_DEADLOCK FALSE
