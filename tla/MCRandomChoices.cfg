CONSTANTS
  MaxDepth = 3
  Ends <- MCEnds
  Draws <- MCDraws
SPECIFICATION FairSpec
INVARIANTS
  TypeOK
  EachProgramOnce
  NothingSkipped
  RecordIsTheRun
  RebuildsTheProgram
PROPERTY EveryProcessEnds
CHECK_DEADLOCK FALSE
