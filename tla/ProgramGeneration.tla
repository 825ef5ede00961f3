--------------------------- MODULE ProgramGeneration ---------------------------
(***************************************************************************)
(* How a program is built (Block::make_random, Statement::make_random and  *)
(* the statements that hold blocks).  Blocks are filled one statement at a *)
(* time, from the inside out: a compound statement joins its block when    *)
(* its own blocks are finished.  What may be drawn depends on the context, *)
(* a handful of flags handed from block to block.                          *)
(*                                                                         *)
(* A statement is its number, in the order of creation.  Block 0 is the    *)
(* body of func_1; block s is the first block of statement s (true branch, *)
(* loop body, section, or the function that s calls), -s its second.       *)
(***************************************************************************)
EXTENDS Integers, Sequences, FiniteSets, SequencesExt

CONSTANTS
  Room(_),         \* bound on the statements drawn from a language: beyond it,
                   \* blocks get the one statement they need
  NoBlock,         \* a null Block pointer
  MaxBlkDepth,     \* CGOptions::max_blk_depth
  Vars,            \* global variables, where values matter
  Pointers,        \* global pointers, where what they point to matters
  Moves(_),        \* what is assigned to them in a language: <<pointer, value>>
  Languages        \* the kinds of statement a program is drawn from

ASSUME NoBlockIsNull == NoBlock \notin Int

\* "Cannot have goto in atomic blocks; greedily stop all gotos" (CUDAOptions.cpp:114).
ASSUME AtomicWithoutGotos == \A language \in Languages : ~({"atomic", "goto"} \subseteq language)

VARIABLES
  options,   \* the language of this program
  phase,     \* where goGenerator is: "generate" is GenerateFunctions()
  node,      \* the statements created, a sequence of records
  prog,      \* the program: see Empty below
  stack,     \* the blocks being filled, the innermost last
  sections   \* the EMI and TG statements, in the order they were registered

genVars == <<options, node, stack, sections>>

Compound == {"if", "for"}          \* Statement::is_compound
Section == {"emi", "tg"}
Jump == {"break", "continue", "goto"}
Holder == Compound \union Section \union {"call"}
\* "sync" is a StatementComm or a StatementAtomicReduction, which have barriers for
\* the group; "message" is a StatementMessage, which waits for single threads.
Simple == {"assign", "return", "break", "continue", "sync", "message", "move", "use"}

Kind(s) == node[s].kind
Top == Last(stack)
Ids == DOMAIN node
Functions == {0} \union {s \in Ids : Kind(s) = "call"}

\* Block::parent, set when the block is created and never again.
Owner(b) == IF b < 0 THEN -b ELSE b
ParentOf(b) == IF b = 0 \/ Kind(Owner(b)) = "call" THEN NoBlock ELSE node[Owner(b)].home

\* Block b and the blocks around it, up to the body of its function.
Nest(b) ==
  LET around[s \in 0 .. Len(node)] ==
        IF s = 0 \/ Kind(s) = "call" THEN {} ELSE {node[s].home} \union around[Owner(node[s].home)]
  IN {b} \union around[Owner(b)]

Func(b) == CHOOSE r \in Nest(b) : ParentOf(r) = NoBlock
Looping(b) == b > 0 /\ Kind(b) = "for"

\* The blocks a statement holds (Statement::get_blocks): not those it calls.
BlocksOf(s) == CASE Kind(s) \in {"if"} \union Section -> {s, -s}
                 [] Kind(s) = "for" -> {s}
                 [] OTHER -> {}

\* contains_stmt climbs the parents of x instead of searching s.
ContainsStmt(p, s, x) == x = s \/ BlocksOf(s) \intersect Nest(p.parent[x]) # {}

\* The statements of some blocks.
StmsIn(p, blocks) == UNION {ToSet(p.stms[b]) : b \in blocks}

\* The statements in a statement, and those in a block, by searching.
Within(p, s) ==
  LET in[x \in Ids] == {x} \union UNION {in[y] : y \in StmsIn(p, BlocksOf(x))}
  IN in[s]
InBlock(p, b) == UNION {Within(p, s) : s \in ToSet(p.stms[b])}

\* The blocks one comes to from block b, from a statement s to the blocks of[s].
Below(p, b, of) ==
  LET deep[n \in 0 .. Len(node)] ==
        LET above == deep[n - 1]
        IN IF n = 0 THEN {b} ELSE above \union UNION {of[s] : s \in StmsIn(p, above)}
  IN deep[Len(node)]

\* SelectSeq, for the elements of a set.
Keep(list, set) ==
  LET kept[n \in 0 .. Len(list)] ==
        IF n = 0 THEN <<>>
        ELSE IF list[n] \in set THEN Append(kept[n - 1], list[n]) ELSE kept[n - 1]
  IN kept[Len(list)]

Empty == [stms    |-> [b \in {0} |-> <<>>],   \* Block::stms
          deleted |-> [b \in {0} |-> <<>>],   \* Block::deleted_stms
          parent  |-> <<>>,          \* Statement::parent
          edges   |-> {},            \* the gotos with an edge in the flow graph
          blocks  |-> {0},           \* Function::blocks, of all functions
          live    |-> {},            \* blocks some loop holds an iterator into
          undefined |-> FALSE]       \* such an iterator has been invalidated

-----------------------------------------------------------------------------
(* Deleting a statement (Block::remove_stmt): gotos that lead into it go    *)
(* with it, wherever they stand, and those that lead to them.              *)

Sources(p, s) ==
  LET jumps == p.edges \ Within(p, s)
      into[n \in 0 .. Cardinality(jumps)] ==
        LET found == into[n - 1]
        IN IF n = 0 THEN {g \in jumps : ContainsStmt(p, s, node[g].dest)}
           ELSE found \union {g \in jumps : node[g].dest \in found}
  IN into[Cardinality(jumps)]

\* In which order statements come to Block::deleted_stms makes no difference.
RemoveStmt(p, b, s) ==
  LET sources == Sources(p, s)
      From(k) == {g \in sources : p.parent[g] = k} \union (IF k = b THEN {s} ELSE {})
  IN [p EXCEPT !.stms = [k \in DOMAIN @ |-> Keep(@[k], Ids \ From(k))],
               !.deleted = [k \in DOMAIN @ |-> @[k] \o Keep(p.stms[k], From(k))],
               !.edges = @ \ (Within(p, s) \union sources),
               !.blocks = {k \in @ : k = 0 \/ BlocksOf(s) \intersect Nest(k) = {}},
               !.undefined = @ \/ \E k \in p.live : From(k) \intersect ToSet(p.stms[k]) # {}]

-----------------------------------------------------------------------------
(* What ends a block.                                                      *)

MustReturn(p, s) ==
  LET must[x \in Ids] ==
        \/ Kind(x) = "return"
        \/ Kind(x) = "if" /\ \A b \in {x, -x} : p.stms[b] # <<>> /\ must[Last(p.stms[b])]
  IN must[s]

EndsInReturn(p, b) == p.stms[b] # <<>> /\ MustReturn(p, Last(p.stms[b]))

\* The jumps of a kind that belong to the loop with body b (break_stms, edges).
JumpsOf(p, kind, b) ==
  {s \in InBlock(p, b) :
     /\ Kind(s) = kind
     /\ b \in Nest(p.parent[s])
     /\ \A l \in Nest(p.parent[s]) : Looping(l) => b \notin Nest(l) \/ l = b}

Continued(p, b) == JumpsOf(p, "continue", b) # {}

-----------------------------------------------------------------------------
(* Drawing statements.                                                     *)

Frame(b, atomic, loop, emi, tg, depth) ==
  [block |-> b, atomic |-> atomic, loop |-> loop, emi |-> emi, tg |-> tg,
   depth |-> depth, drawn |-> FALSE, revisit |-> FALSE, analysed |-> FALSE]

\* CUDAStatement::make_random: what it makes nothing of in context f.  It looks at
\* no context for a message ("TODO check some context", CUDAStatement.cpp:79).
RefusedCUDA(kind, f) ==
  \/ kind = "sync" /\ f.atomic
  \/ kind = "emi" /\ f.emi
  \/ kind = "tg" /\ f.tg

\* Mutant: calls are not filtered in an atomic block.
Allowed_CallsAnywhere(kind, f) ==
  /\ kind \in {"return", "break", "continue"} => ~f.atomic
  /\ kind \in {"break", "continue"} => f.loop
  /\ kind = "continue" => prog.stms[f.block] # <<>>
  /\ kind \in Compound => f.depth < MaxBlkDepth
  /\ ~RefusedCUDA(kind, f)

\* StatementFilter, the filter of Expression and the above: what the context f
\* lets through.
Allowed(kind, f) ==
  /\ kind \in {"return", "break", "continue", "call"} => ~f.atomic
  /\ kind \in {"break", "continue"} => f.loop
  /\ kind = "continue" => prog.stms[f.block] # <<>>
  /\ kind \in Compound => f.depth < MaxBlkDepth
  /\ ~RefusedCUDA(kind, f)

\* Only programs with "tid" in their language tell values apart.
Tracked == "tid" \in options

Drawing(kind) ==
  /\ phase = "generate" /\ stack # <<>>
  /\ kind \in options
  /\ Len(node) < Room(options) \/ (kind \in {"assign", "move"} /\ ~Top.drawn)
  /\ ~Top.analysed /\ ~EndsInReturn(prog, Top.block)
  /\ Allowed(kind, Top)

New == Len(node) + 1
Record(kind, b) == [kind |-> kind, home |-> b, dest |-> 0, atomic |-> FALSE, var |-> "", reads |-> "0"]
Create(r) == node' = Append(node, r)
Detail(kind, b, var, reads, dest) ==
  [Record(kind, b) EXCEPT !.var = var, !.reads = reads, !.dest = dest]

Targets(kind) == IF kind \in {"assign", "call"} THEN Vars ELSE {""}
Expressions(kind) == CASE kind = "assign" -> {"1", "tid"} \union Vars
                       [] kind = "if" -> {"tid"} \union Vars
                       [] kind = "use" -> Pointers
                       [] kind \in {"break", "continue", "return"} -> Vars
                       [] OTHER -> {"0"}

\* What a statement assigns and what its expression or condition is: a constant,
\* another variable or the thread's number.  A "move" assigns a pointer, perhaps
\* the address of block dest's local; a "use" reads what a pointer points to.
Detailed(kind, b) ==
  IF kind = "move" THEN
    {r \in {Detail(kind, b, m[1], m[2], k) : m \in Moves(options), k \in Nest(b) \union {0}} :
       r.reads = "local" \/ r.dest = 0}
  ELSE IF kind # "use" /\ ~Tracked THEN {Record(kind, b)}
  ELSE {r \in {Detail(kind, b, v, e, 0) : v \in Targets(kind), e \in Expressions(kind)} :
          r.var # r.reads}

\* The statement joins the end of block b.
Join(p, b, s) == [p EXCEPT !.stms[b] = Append(@, s)]
Known(p, b) == [p EXCEPT !.parent = Append(@, b)]
With(lists, b) == [k \in DOMAIN lists \union {b} |-> IF k = b THEN <<>> ELSE lists[k]]
Opened(p, b) == [p EXCEPT !.stms = With(@, b), !.deleted = With(@, b), !.blocks = @ \union {b}]
Drawn == [stack EXCEPT ![Len(stack)].drawn = TRUE]

Leaf(kind) ==
  /\ kind \in Simple
  /\ Drawing(kind)
  /\ \E r \in Detailed(kind, Top.block) : Create(r)
  /\ prog' = Join(Known(prog, Top.block), Top.block, New)
  /\ stack' = Drawn
  /\ UNCHANGED <<options, phase, sections>>

\* A statement that holds blocks: it opens its first one, in the context of
\* its branches, its loop body or its section; a function has a context of its own.
Inner(kind, atomic, f) ==
  CASE kind = "if"   -> Frame(New, f.atomic \/ atomic, f.loop, f.emi, f.tg, f.depth + 1)
    [] kind = "for"  -> Frame(New, f.atomic, TRUE, f.emi, f.tg, f.depth + 1)
    [] kind = "emi"  -> Frame(New, f.atomic, f.loop, TRUE, f.tg, f.depth)
    [] kind = "tg"   -> Frame(New, f.atomic, f.loop, f.emi, TRUE, f.depth)
    [] kind = "call" -> Frame(New, FALSE, FALSE, FALSE, FALSE, 0)

Open(kind, atomic) ==
  /\ kind \in Holder
  /\ Drawing(kind)
  /\ atomic => kind = "if" /\ "atomic" \in options /\ ~Top.atomic
  /\ \E r \in Detailed(kind, Top.block) : Create([r EXCEPT !.atomic = atomic])
  /\ prog' = Opened(Known(prog, Top.block), New)
  /\ stack' = Append(Drawn, Inner(kind, atomic, Top))
  /\ UNCHANGED <<options, phase, sections>>

-----------------------------------------------------------------------------
(* Gotos (StatementGoto::make_random).  Any block of the function that has  *)
(* a statement may be chosen, unless a jump would skip a variable's         *)
(* initialisation (see PointerFacts), or lead into a loop.                  *)

JumpBlocks == {b \in prog.blocks : Func(b) = Func(Top.block) /\ prog.stms[b] # <<>>}

\* Every loop has an entry in iv_bounds, whether it runs over an array or not.
InArrayLoop(b) == \E l \in Nest(b) : Looping(l)

Others(b) == {s \in ToSet(prog.stms[b]) :
                ~MustReturn(prog, s) /\ ~(prog.stms[Top.block] # <<>> /\ s = Last(prog.stms[Top.block]))}

\* The innermost open block that contains the destination is analysed again.
\* Frames of callers are below those of the function being built.
Revisited(s) ==
  LET around == {i \in DOMAIN stack : stack[i].block \in Nest(prog.parent[s])}
  IN [Drawn EXCEPT ![Max(around)].revisit = TRUE]

BackwardGoto(b, other) ==
  /\ Drawing("goto")
  /\ b \in JumpBlocks /\ ~InArrayLoop(b) /\ other \in Others(b)
  /\ Create([Record("goto", Top.block) EXCEPT !.dest = other])
  /\ prog' = [Join(Known(prog, Top.block), Top.block, New) EXCEPT !.edges = @ \union {New}]
  /\ stack' = Revisited(other)
  /\ UNCHANGED <<options, phase, sections>>

\* A goto to the last statement of the block, put behind an older statement.
\* The attempt counts for nothing: another statement is drawn in its place.
ForwardGoto(b, other) ==
  /\ Drawing("goto")
  /\ prog.stms[Top.block] # <<>> /\ ~InArrayLoop(Top.block)
  /\ b \in JumpBlocks /\ other \in Others(b)
  /\ Create([Record("goto", prog.parent[other]) EXCEPT !.dest = Last(prog.stms[Top.block])])
  /\ LET home == prog.parent[other]
         at == CHOOSE i \in DOMAIN prog.stms[home] : prog.stms[home][i] = other
     IN prog' = [Known(prog, home) EXCEPT !.stms[home] = InsertAt(@, at + 1, New),
                                          !.edges = @ \union {New}]
  /\ UNCHANGED <<options, phase, stack, sections>>

-----------------------------------------------------------------------------
(* Finishing a block (the end of Block::make_random).                      *)

\* Is the block run through again by the analysis of Block::post_creation_analysis?
Reanalysed(f) ==
  \/ f.revisit
  \/ Looping(f.block) /\ (Continued(prog, f.block) \/ ~EndsInReturn(prog, f.block))

\* The analysis fails at the i-th statement: it and all that follow are removed.
Truncate(p, b, i) ==
  LET cut[n \in 0 .. Len(p.stms[b])] ==
        IF n = 0 THEN p
        ELSE LET q == cut[n - 1]
             IN IF i > Len(q.stms[b]) THEN q ELSE RemoveStmt(q, b, q.stms[b][i])
  IN cut[Len(p.stms[b])]

FailAnalysis(i) ==
  /\ options \intersect {"unsafe", "move"} # {}
  /\ phase = "generate" /\ stack # <<>> /\ Top.drawn
  /\ Top.analysed \/ Reanalysed(Top)
  /\ i \in DOMAIN prog.stms[Top.block]
  /\ prog' = Truncate(prog, Top.block, i)
  /\ stack' = [stack EXCEPT ![Len(stack)].analysed = TRUE, ![Len(stack)].revisit = TRUE]
  /\ UNCHANGED <<options, phase, node, sections>>

\* What is appended to a block that ends: a return to a function's body, a
\* statement without effect to a block that would be empty.
Appended(b) == IF ParentOf(b) = NoBlock THEN (IF EndsInReturn(prog, b) THEN "none" ELSE "return")
           ELSE IF prog.stms[b] = <<>> THEN "noop" ELSE "none"

Completed(b) ==
  IF Appended(b) = "none" THEN [nodes |-> node, p |-> prog]
  ELSE [nodes |-> Append(node, Record(Appended(b), b)), p |-> Join(Known(prog, b), b, New)]

\* The first branch of an ordinary `if' is followed by the second.
Close ==
  /\ phase = "generate" /\ stack # <<>> /\ Top.drawn
  /\ LET b == Top.block
         s == Owner(b)
         c == Completed(b)
         rest == Front(stack)
         n == Len(c.nodes)
     IN IF b = 0
          THEN /\ node' = c.nodes /\ prog' = c.p
               /\ stack' = <<>> /\ UNCHANGED sections
        ELSE IF Kind(s) = "if" /\ b > 0 /\ ~node[s].atomic
          THEN /\ node' = c.nodes /\ prog' = Opened(c.p, -s)
               /\ stack' = Append(rest, [Top EXCEPT !.block = -s, !.drawn = FALSE,
                                            !.revisit = FALSE, !.analysed = FALSE])
               /\ UNCHANGED sections
        ELSE IF Kind(s) = "if" /\ b > 0
          \* an atomic block has a dummy for its second branch
          THEN /\ node' = Append(c.nodes, Record("noop", -s))
               /\ prog' = Join(Join(Known(Opened(c.p, -s), -s), -s, n + 1), node[s].home, s)
               /\ stack' = rest /\ UNCHANGED sections
        ELSE /\ node' = c.nodes
             /\ prog' = Join(IF Kind(s) \in Section THEN Opened(c.p, -s) ELSE c.p, node[s].home, s)
             /\ stack' = rest
             /\ sections' = IF Kind(s) \in Section THEN Append(sections, s) ELSE sections
  /\ UNCHANGED <<options, phase>>

Generate ==
  \/ \E kind \in options : Leaf(kind)
  \/ \E kind \in options, atomic \in BOOLEAN : Open(kind, atomic)
  \/ \E b \in prog.blocks : \E other \in ToSet(prog.stms[b]) :
       BackwardGoto(b, other) \/ ForwardGoto(b, other)
  \/ \E i \in Ids : FailAnalysis(i)
  \/ Close

Init ==
  /\ options \in Languages
  /\ phase = "generate"
  /\ node = <<>>
  /\ prog = Empty
  /\ stack = <<Frame(0, FALSE, FALSE, FALSE, FALSE, 0)>>
  /\ sections = <<>>

-----------------------------------------------------------------------------

Built == phase # "generate"

\* Every statement stands in exactly one place, in its block or in the list of
\* what was deleted from it, and knows that block: moving and deleting
\* statements (MergeBlock, Block::remove_stmt) loses and doubles none.
Places(s) == {k \in DOMAIN prog.stms : s \in ToSet(prog.stms[k] \o prog.deleted[k])}
OneOwner ==
  ~prog.undefined =>
    /\ Built => \A s \in Ids : Places(s) = {prog.parent[s]}
    /\ \A k \in DOMAIN prog.stms : IsInjective(prog.stms[k] \o prog.deleted[k])

\* What is written out below a block.  A true-guard section writes its
\* condition only, without its block (StatementTG::Output).
PrintedIn(p, b) ==
  StmsIn(p, Below(p, b, [s \in Ids |-> IF Kind(s) = "tg" THEN {} ELSE BlocksOf(s)]))

\* What may be run below a block, the functions called included.
RunIn(b) ==
  StmsIn(prog, Below(prog, b, [s \in Ids |-> IF Kind(s) = "call" THEN {s} ELSE BlocksOf(s)]))

\* An atomic block is entered by one thread of the group, and its result is
\* added at its end (StatementAtomicResult).  So nothing in it has a barrier,
\* at which that thread would wait for the whole group, not in a function it
\* calls either, and nothing leaves it early.  Message nodes may stand in it: such a
\* node waits for its turn, and in a program without barriers the turn comes,
\* whoever enters the block (AgreeingKernelReturns in MessageBarrier).
AtomicBlocksAreClosed ==
  \A s \in Ids : node[s].atomic =>
    /\ \A x \in RunIn(s) : Kind(x) # "sync"
    /\ \A x \in PrintedIn(prog, s) : Kind(x) \notin Jump \union {"return"}

=============================================================================
