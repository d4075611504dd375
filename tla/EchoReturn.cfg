CONSTANTS
  Nums = {64}
  NoNum = NoNum
  NumSlots = 13
  IntrSlot = 9
  IllSlot = 10
  DivSlot = 11
  IntcSlot = 12
  Guest <- EchoGuest
  TornInstr <- TornHalt
  MaxRaise = 3
  MaxFaults = 3
SPECIFICATION Spec
PROPERTIES
  RfeReturns
CHECK_DEADLOCK FALSE
