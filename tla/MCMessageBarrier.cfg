CONSTANTS
  ThreadsPerGroup = 2
  MaxNodes = 2
  Fields = {}
  MaxVisits = 2
SPECIFICATION FairBarrierSpec
PROPERTY KernelReturns
CHECK_DEADLOCK FALSE
