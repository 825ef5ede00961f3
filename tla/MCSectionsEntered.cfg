CONSTANTS
  Room <- MCRoom
  NoBlock = NoBlock
  MaxBlkDepth = 1
  Vars = {}
  Pointers = {"p", "q"}
  Moves <- MCMoves
  Languages = {{"assign", "goto", "emi", "if"}}
SPECIFICATION Spec
INVARIANT SectionsNeverEntered
