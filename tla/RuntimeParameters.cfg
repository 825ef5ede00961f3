CONSTANTS
  MaxThreads = 24
  MaxThreadsPerDim = 24
  MaxThreadsPerGroup = 8
SPECIFICATION Spec
INVARIANTS
  TypeOK
  ThreadsWithinLimit
  DivisorsExact
  GroupsTileTheGrid
  LinearIdsAreUnique
