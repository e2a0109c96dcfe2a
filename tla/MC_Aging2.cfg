CONSTANTS
  NumThreads = 2
  Log <- MCLog
  TempVertices <- MCTempVertices
  Granularity = 2
  NumReportsPerOps = 1
  BuildFrequency = 1
  MaxBuilds = 1

SPECIFICATION Spec

INVARIANT TypeOK
INVARIANT QueuesArePartitionOfLog
INVARIANT RandomVertexIsFirstInsertion
INVARIANT VertexBufferLive
INVARIANT StoredGraphMatchesLog
INVARIANT ReportedSlotsExact
INVARIANT LibraryQuiescentAtMainDestroy

PROPERTY Termination
PROPERTY ProgressRefinement
PROPERTY ApplicationRefinement
