SPECIFICATION Spec
CONSTANTS
  Clients = {a}
  MaxTries = 3
  MaxProcesses = 2
  MaxQueue = 2
  POLL_SET_SIZE = 3
  MaxDescriptor = 5
  Launches <- MCLaunches
INVARIANTS
  TypeOK
  RecvHasDatagram
  WatchesItsSocket
  PollSetInBounds
PROPERTIES
  RequestsServed
  EverybodyFinishes
