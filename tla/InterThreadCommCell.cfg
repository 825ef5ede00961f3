CONSTANTS
  GroupSize = 2
  Group = 1
  PermCount = 2
  Value = {0, 2}
  RowSources = {"cell"}
  MaxLength = 3
SPECIFICATION Spec
INVARIANT
  Determinism
