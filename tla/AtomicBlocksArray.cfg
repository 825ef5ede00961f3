CONSTANTS
  GroupSize = 2
  NoBlocks = 1
  Add = {1}
  Constant = {0}
  Body = {"array"}
  Garbage = {0}
  MaxBlocks = 1
  MaxPath = 1
SPECIFICATION Spec
INVARIANT
  Determinism
