SPECIFICATION Spec
CONSTANTS
  Clients = {a, b}
  MaxTries = 1
  MaxProcesses = 1
  MaxQueue = 2
  POLL_SET_SIZE = 3
  MaxDescriptor = 3
  Launches <- MCTerminal
INVARIANTS
  NeverTurnsOff
