CONSTANTS
  Fds = {4, 5, 6}
  Params = {0, 1}
  MaxArrived = 1
  Program <- OneClient
  Handler = 19
SPECIFICATION ServerSpec
INVARIANTS
  AnnouncedRegistered
