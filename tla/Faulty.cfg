CONSTANTS
  Nums = {64}
  NoNum = NoNum
  NumSlots = 10
  IntrSlot = 6
  IllSlot = 7
  DivSlot = 8
  IntcSlot = 9
  Guest <- FaultyGuest
  TornInstr <- TornHalt
  MaxRaise = 3
  MaxFaults = 3
SPECIFICATION Spec
INVARIANTS
  TripleFaultHalts
CHECK_DEADLOCK FALSE
