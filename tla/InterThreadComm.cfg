CONSTANTS
  GroupSize = 3
  Group = 1
  PermCount = 2
  Value = {0, 2}
  RowSources = {"literal", "private"}
  MaxLength = 3
SPECIFICATION Spec
INVARIANTS
  NoSharedElement
  TidsAreDistinct
  Determinism
