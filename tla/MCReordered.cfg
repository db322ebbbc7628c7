SPECIFICATION ReorderedSpec
CONSTANTS
  c1 = c1
  c2 = c2
  c3 = c3
  NULL = NULL
  Chunk = {c1, c2, c3}
  File <- MCFile3
  WindowSize = 2
  MaxTries = 2
  MaxInFlight = 2
INVARIANTS
  CoreInv
  OutputIsPrefixAfterFirst
  ReleasedOnlyWritten
