\* A program is drawn from one of these languages.  "atomic", "tid" and "unsafe"
\* are not statements: atomic blocks, --track_divergence, and an analysis of
\* blocks that may fail; with "local", blocks have a local to point to.
CONSTANTS
  Room <- MCRoom
  NoBlock = NoBlock
  MaxBlkDepth = 2
  Vars = {"x"}
  Pointers = {"p", "q"}
  Moves <- MCMoves
  Languages = {
    {"assign", "if", "for", "break", "emi", "unsafe"},
    {"assign", "if", "goto", "emi"},
    {"assign", "for", "break", "goto", "emi"},
    {"assign", "if", "for", "goto", "tg"},
    {"assign", "if", "for", "break", "continue", "return", "call", "sync", "message", "atomic"},
    {"assign", "if", "for", "break", "return", "call", "tid"},
    {"move", "use", "if", "goto"},
    {"move", "use", "for", "continue"},
    {"move", "for", "break", "local"},
    {"move", "if", "goto", "local"},
    {"move", "for", "goto", "local"},
    {"move", "if", "for", "break", "return"}}
SPECIFICATION Spec
PROPERTY PhaseSpec
INVARIANTS
  OneOwner
  AtomicBlocksAreClosed
  PrunedAsDrawn
  JumpsLand
  CoinsAreFixed
  IteratorsBreakOnlyThere
  WalkIsPreOrder
  WalkerAtIsAdvanced
  DivergenceFound
  BarriersAreReachedTogether
  PointersAreValid
  JumpsSkipNoLocals
