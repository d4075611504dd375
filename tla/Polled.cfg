CONSTANTS
  Nums = {32, 64}
  NoNum = NoNum
  NumSlots = 21
  IntrSlot = 17
  IllSlot = 18
  DivSlot = 19
  IntcSlot = 20
  Guest <- NotesGuest
  TornInstr <- TornHalt
  MaxRaise = 4
  MaxFaults = 3
SPECIFICATION FairSpec
INVARIANTS
  NoTornFetch
PROPERTIES
  InOrder
  VectorFresh
  TrapsOnlyEnabled
  Resumes
  Delivered
  WaitEntersHandler
CHECK_DEADLOCK FALSE
