SPECIFICATION Spec
CONSTANTS
  EnvLists <- MCEnvLists
  Fields <- MCFields
  Uint32Size = 65536
  MaxInits = 2
  MaxMsgs = 3
INVARIANTS
  TypeOK
  IntactAccepted
  InvertedRejected
  DropListDecides
CHECK_DEADLOCK FALSE
