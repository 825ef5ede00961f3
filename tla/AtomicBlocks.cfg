CONSTANTS
  GroupSize = 2
  NoBlocks = 2
  Add = {1, 2}
  Constant = {0, 1, 2}
  Body = {"local"}
  Garbage = {1}
  MaxBlocks = 2
  MaxPath = 2
SPECIFICATION Spec
INVARIANTS
  OneEntry
  Determinism
