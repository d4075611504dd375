CONSTANTS
  Nums = {64}
  NoNum = NoNum
  NumSlots = 7
  IntrSlot = 3
  IllSlot = 4
  DivSlot = 5
  IntcSlot = 6
  Guest <- DivideGuest
  TornInstr <- TornHalt
  MaxRaise = 1
  MaxFaults = 3
SPECIFICATION Spec
PROPERTIES
  DoubleFaultHandled
CHECK_DEADLOCK FALSE
