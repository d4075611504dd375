CONSTANTS
  Nums = {64}
  NoNum = NoNum
  NumSlots = 12
  IntrSlot = 8
  IllSlot = 9
  DivSlot = 10
  IntcSlot = 11
  Guest <- CriticalGuest
  TornInstr <- TornHalt
  MaxRaise = 3
  MaxFaults = 3
SPECIFICATION Spec
PROPERTIES
  TrapsOnlyEnabled
CHECK_DEADLOCK FALSE
