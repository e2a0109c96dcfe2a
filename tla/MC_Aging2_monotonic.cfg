CONSTANTS
  NumThreads = 2
  Log <- MCLog
  TempVertices <- MCTempVertices
  Granularity = 1
  NumReportsPerOps = 1
  BuildFrequency = 0
  MaxBuilds = 0

SPECIFICATION Spec

INVARIANT ReportedTimesMonotonic
