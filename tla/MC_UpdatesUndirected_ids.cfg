CONSTANTS
  NumThreads = 3
  SeqMaxVertex = 4
  ParMaxVertex = 6
  Deletions = TRUE
SPECIFICATION Spec
INVARIANT ThreadIdsExclusive
