CONSTANTS
  ThreadsPerGroup = 4
  MaxNodes = 5
  Fields = {}
SPECIFICATION GenSpec
INVARIANTS
  FollowsSequencedBefore
  OnlyLastThreadsDropped
  OnlyTheTurnPasses
  EveryLockHasAnUnlocker
