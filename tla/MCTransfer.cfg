SPECIFICATION Spec
CONSTANTS
  c1 = c1
  c2 = c2
  c3 = c3
  c4 = c4
  NULL = NULL
  Chunk = {c1, c2, c3, c4}
  File <- MCFile4
  WindowSize = 3
  MaxTries = 2
  MaxInFlight = 4
INVARIANTS
  TypeOK
  IInv
  OutputIsPrefix
  CompleteWhenAcked
  ServerAnswers
  PacketsGenuine
  WindowsAgree
  AnswersInOrder
  BufferSound
  NoEOFWhileBuffering
  ResponseComesFirst
  FilenameOutcome
PROPERTIES
  ImplementsFileCopy
