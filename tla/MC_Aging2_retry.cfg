CONSTANTS
  NumThreads = 2
  Log <- RetryLog
  TempVertices <- NoTempVertices
  Granularity = 1
  NumReportsPerOps = 1
  BuildFrequency = 0
  MaxBuilds = 0

SPECIFICATION Spec

INVARIANT StoredEdgesMatchLog
