CONSTANTS
  Fds = {4, 5, 6}
  Params = {0, 1}
  MaxArrived = 1
  Program <- EchoServer
  Handler = 19
SPECIFICATION FairServer
INVARIANTS
  NeverDies
  NeverStalls
  AnnouncedRegistered
PROPERTIES
  ReadsOwnEvent
  SendsOwn
  InOrder
  EventsServed
