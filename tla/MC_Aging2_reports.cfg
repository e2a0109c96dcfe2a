CONSTANTS
  NumThreads = 2
  Log <- ReportLog
  TempVertices <- NoTempVertices
  Granularity = 1
  NumReportsPerOps = 2
  BuildFrequency = 0
  MaxBuilds = 0

SPECIFICATION Spec

INVARIANT ReportedTimesInBounds
