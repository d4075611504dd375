CONSTANTS
  Fds = {4, 5}
  Params = {0, 1}
  MaxArrived = 1
SPECIFICATION Spec
INVARIANTS
  TypeOK
  WatchedInOrder
  WatchedNeverStalls
