SPECIFICATION Spec
CONSTANTS
  a = a
  b = b
  c = c
  BadLabel = BadLabel
  NoFile = NoFile
  Torn = Torn
  Header = Header
  Prepared <- MCPrepared
  Raw <- MCRaw
  TestSizes <- MCTestSizes
  ChunkSizes = {2, 3}
  MaxRuns = 3
INVARIANTS
  TypeOK
  FilesSound
  TrainKnowsLabels
PROPERTIES
  ImplementsSplit
CHECK_DEADLOCK FALSE
