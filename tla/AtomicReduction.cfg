CONSTANTS
  GroupSize = 3
  Group = 1
  Width = 2
  Op = {"Add", "Sub", "Min", "Max", "And", "Or", "Xor"}
  Expr = {1}
  MaxLength = 2
SPECIFICATION FairSpec
INVARIANTS
  PlainAccessesDoNotRace
  Determinism
PROPERTY KernelReturns
CHECK_DEADLOCK FALSE
