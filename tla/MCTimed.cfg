SPECIFICATION TimedSpec
CONSTANTS
  c1 = c1
  c2 = c2
  c3 = c3
  NULL = NULL
  Chunk = {c1, c2, c3}
  File <- MCFile3
  WindowSize = 2
  MaxTries = 10
  MaxInFlight = 40
  TEN_SEC = 10
  MaxFaults = 10
INVARIANTS
  TimedTypeOK
  GivesUpOnSilence
  TimesOutOnSilence
PROPERTIES
  BothEnd
  CopyCompletes
