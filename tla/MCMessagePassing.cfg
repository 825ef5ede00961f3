CONSTANTS
  ThreadsPerGroup = 2
  MaxNodes = 3
  Fields = {1}
  MaxVisits = 2
SPECIFICATION FairBarrierSpec
CONSTRAINT Plans
INVARIANTS
  UpdatesDoNotRace
  Determinism
PROPERTIES
  ImplementsDAG
  AgreeingKernelReturns
