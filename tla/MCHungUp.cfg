SPECIFICATION Spec
CONSTANTS
  Clients = {a}
  MaxTries = 1
  MaxProcesses = 1
  MaxQueue = 2
  POLL_SET_SIZE = 3
  MaxDescriptor = 3
  Launches <- MCHungUp
INVARIANTS
  RecvHasDatagram
