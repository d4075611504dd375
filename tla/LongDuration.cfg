CONSTANTS
  Bits = {0}
  Durations <- SmallDurations
  Bytes = {0, 1}
  Keys <- ThreeKeys
  MaxQueued = 3
  Fields <- TwoFields
  Values = {0, 1}
  Times <- ThreeTimes
  Top = 3
  TrapBase = 3
  RamSize = 1
  Mmio <- OneRegister
  ByteValues = {0, 1}
  WordLen = 2
  CacheSize = 2
  NoEntry = NoEntry
  ImageSize = 6
  Window = 2
  Data = {0, 1}
  OffsetWords <- SmallOffsets
  EnableWords <- SmallEnables
  WordBits = 4
  NumRegs = 2
  Labels <- TwoLabels
  NoLabel = "none"
  Statements <- SmallSource
  MaxStatements = 5
SPECIFICATION FairParts
INVARIANTS
  DurationAsked
