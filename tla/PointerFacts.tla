------------------------------ MODULE PointerFacts ------------------------------
(***************************************************************************)
(* What the generator knows of its pointers while it builds a program      *)
(* (FactMgr, FactPointTo, and the analysis of blocks and statements).  A   *)
(* fact is the set of what a pointer may point to.  The facts here are     *)
(* those of the global pointers; blocks have locals they may point to.     *)
(* There are no calls: every statement is one of func_1.                   *)
(***************************************************************************)
EXTENDS ProgramGeneration

VARIABLE facts   \* the fact manager: see FactsInit

Null == <<"null", 0>>
Garbage == <<"garbage", 0>>
Global == <<"global", 0>>
Local(b) == <<"local", b>>

NoFacts == <<>>         \* an empty fact vector
Stm(s) == <<"statement", s>>
Blk(b) == <<"block", b>>

\* The operator [] of the maps: what is not there is empty.
At(map, key) == IF key \in DOMAIN map THEN map[key] ELSE NoFacts

FactsInit ==
  LET f == [v \in Pointers |-> {Global}]
  IN facts = [now     |-> f,                \* global_facts
              in      |-> (Blk(0) :> f),    \* map_facts_in
              out     |-> << >>,            \* map_facts_out
              visited |-> {},               \* map_visited
              entry   |-> (0 :> f),         \* the facts each block was opened with
              back    |-> {},               \* the gotos with a backward edge
              round   |-> {}]               \* the loop bodies with an edge to themselves

WithPointers == "move" \in options

-----------------------------------------------------------------------------
(* Operations on facts.                                                    *)

\* update_facts_for_oos_vars: the locals of these blocks are gone.
Dead(f, blocks) ==
  [v \in DOMAIN f |-> {IF \E b \in blocks : x = Local(b) THEN Garbage ELSE x : x \in f[v]}]

\* merge_facts, for several fact vectors.
MergeFacts(f, others) ==
  LET all == ({f} \union others) \ {NoFacts}
  IN IF all = {} THEN NoFacts ELSE [v \in Pointers |-> UNION {g[v] : g \in all}]

\* merge_jump_facts: nothing known where the jump starts is taken for garbage.
MergeJumpFacts(f, others) ==
  [v \in DOMAIN f |-> f[v] \union UNION {IF g = NoFacts THEN {Garbage} ELSE g[v] : g \in others}]

\* rhs_to_lhs_transfer for a plain pointer, renew_fact.
Assigned(r, f) ==
  [f EXCEPT ![r.var] = CASE r.reads = "null" -> {Null}
                         [] r.reads = "global" -> {Global}
                         [] r.reads = "local" -> {Local(r.dest)}
                         [] OTHER -> f[r.reads]]

\* is_valid_ptr where a pointer is dereferenced, is_dangling_ptr where it is read.
Readable(r, f) ==
  r.reads \in Pointers =>
    /\ Garbage \notin f[r.reads]
    /\ r.kind = "use" => Null \notin f[r.reads]

\* The blocks left on the way from block b to the end of the loop around it.
LoopPath(b) ==
  LET loop == CHOOSE l \in Nest(b) :
                Looping(l) /\ \A k \in Nest(b) : Looping(k) => l \notin Nest(k) \/ k = l
  IN {k \in Nest(b) : loop \in Nest(k)}

\* set_fact_out: locals that are out of scope where a jump leads.
FactOut(r, f) ==
  CASE r.kind \in {"break", "continue"} -> Dead(f, LoopPath(r.home))
    [] r.kind = "goto" -> Dead(f, Nest(r.home) \ Nest(prog.parent[r.dest]))
    [] OTHER -> f

Learn(a, key, in, out) ==
  [a EXCEPT !.in = (key :> in) @@ @, !.out = (key :> out) @@ @, !.visited = @ \union {key}]

-----------------------------------------------------------------------------
(* Going through finished statements again.  a is the fact manager.        *)

GotosInto(a, s, backward) ==
  {g \in prog.edges : node[g].dest = s /\ (g \in a.back) = backward /\ Stm(g) \in a.visited}

Outputs(a, sources) == {At(a.out, Stm(x)) : x \in sources}

\* contains_unfixed_goto, of what has these statements in it.
UnfixedGoto(a, inside) ==
  \E g \in prog.edges :
    LET dest == node[g].dest
        out == At(a.out, Stm(g))
        in == At(a.in, Stm(dest))
    IN IF Stm(g) \in a.visited
         THEN dest \in inside /\ (\/ in = NoFacts /\ out # NoFacts
                            \/ \E v \in DOMAIN in \intersect DOMAIN out : ~(out[v] \subseteq in[v]))
         ELSE g \in inside /\ dest \notin inside

\* shortcut_analysis.  Effects, which may be in conflict, are left out.
Shortcut(a, key, in, inside) == in = At(a.in, key) /\ ~UnfixedGoto(a, inside)

\* What comes of going through something: whether it may stand, the fact manager,
\* the facts behind it; at is the statement of a block that may not stand.
Result(ok, a, f) == [ok |-> ok, a |-> a, f |-> f, at |-> 0]
AndThen(r, Step(_, _)) == IF r.ok THEN Step(r.a, r.f) ELSE r

BodyReturns(b) ==
  EndsInReturn(prog, b) /\ ~Continued(prog, b) /\ JumpsOf(prog, "break", b) = {}

\* What comes out of an `if', where then and else come out of its branches.
BranchFacts(s, in, then, else) ==
  CASE EndsInReturn(prog, s) /\ EndsInReturn(prog, -s) -> in
    [] EndsInReturn(prog, s) -> else
    [] EndsInReturn(prog, -s) -> then
    [] OTHER -> MergeFacts(then, {else})

\* Mutant: jumps out of the loop are forgotten.
LoopFacts_NoBreaks(a, s, in) == IF BodyReturns(s) THEN in ELSE At(a.in, Blk(s))

\* What comes out of a loop: what goes into its body, or out of its breaks.
LoopFacts(a, s, in) ==
  MergeJumpFacts(IF BodyReturns(s) THEN in ELSE At(a.in, Blk(s)),
                 Outputs(a, JumpsOf(prog, "break", s)))

RECURSIVE VisitFacts(_, _, _), AnalyzeWithEdgesIn(_, _, _), VisitAll(_, _, _, _),
          FindFixedPoint(_, _, _, _)

\* stm_visit_facts, with the visit_facts of each statement.  Gotos are visited
\* when they are made, so the reset in StatementGoto::visit_facts never happens.
VisitFacts(a, s, in) ==
  LET Loop(x, f) == Result(TRUE, x, LoopFacts(x, s, in))
      Branches(x, f) ==
        AndThen(FindFixedPoint(x, -s, in, FALSE),
                LAMBDA y, g : Result(TRUE, y, BranchFacts(s, in, f, g)))
      done == CASE Kind(s) \in {"use", "move"} /\ ~Readable(node[s], in) -> Result(FALSE, a, in)
                [] Kind(s) = "move" -> Result(TRUE, a, Assigned(node[s], in))
                [] Kind(s) \in Compound ->
                     AndThen(FindFixedPoint(a, s, in, FALSE),
                             LAMBDA x, f : IF Kind(s) = "if" THEN Branches(x, f) ELSE Loop(x, f))
                [] OTHER -> Result(TRUE, a, in)
  IN [done EXCEPT !.a.visited = @ \union {Stm(s)}]

\* analyze_with_edges_in, validate_and_update_facts.
AnalyzeWithEdgesIn(a, s, inputs) ==
  LET behind == IF Stm(s) \in a.visited THEN GotosInto(a, s, TRUE) ELSE {}
      in == MergeJumpFacts(inputs, Outputs(a, behind \union GotosInto(a, s, FALSE)))
      inside == {x \in DOMAIN prog.parent : ContainsStmt(prog, s, x)}
      Noted(x, f) == Result(TRUE, Learn(x, Stm(s), in, FactOut(node[s], f)), f)
  IN IF Kind(s) \notin Jump /\ Shortcut(a, Stm(s), in, inside)
       THEN Result(TRUE, [a EXCEPT !.visited = @ \union {Stm(g) : g \in prog.edges \intersect inside}],
                   At(a.out, Stm(s)))
     ELSE AndThen(VisitFacts(a, s, in), Noted)

\* The statements of block b, from the i-th on.
VisitAll(a, b, f, i) ==
  LET Rest(r) == IF r.ok THEN VisitAll(r.a, b, r.f, i + 1) ELSE [r EXCEPT !.at = i]
  IN IF i > Len(prog.stms[b]) THEN Result(TRUE, a, f)
     ELSE Rest(AnalyzeWithEdgesIn(a, prog.stms[b][i], f))

\* Block::find_fixed_point.
FindFixedPoint(a, b, inputs, once) ==
  LET around == Outputs(a, JumpsOf(prog, "continue", b)) \union
                (IF b \in a.round THEN {At(a.out, Blk(b))} ELSE {})
      in == IF Blk(b) \in a.visited THEN MergeFacts(inputs, around) ELSE inputs
      inside == {x \in DOMAIN prog.parent : b \in Nest(prog.parent[x])}
      Again(x, f) == FindFixedPoint(Learn(x, Blk(b), in, Dead(f, {b})), b, in, FALSE)
  IN IF ~once /\ Shortcut(a, Blk(b), in, inside)
       THEN Result(TRUE, a, At(a.out, Blk(b)))
     ELSE AndThen(VisitAll(a, b, in, 1), Again)

-----------------------------------------------------------------------------
(* Locals and jumps.                                                       *)

HasLocal(b) == \E s \in Ids : Kind(s) = "move" /\ node[s].reads = "local" /\ node[s].dest = b

\* has_init_skipped_vars: a jump from block `from' into block `to' passes the
\* initialisation of a local.
SkipsInit(from, to) == \E b \in Nest(to) \ Nest(from) : HasLocal(b)

\* Mutant: gotos into the block are not looked for.
ExpandBlockForGoto_Stays(b) == b

\* expand_block_for_goto: outwards until no goto leads into the block.
RECURSIVE ExpandBlockForGoto(_)
ExpandBlockForGoto(b) ==
  IF \E g \in prog.edges :
       b \in Nest(prog.parent[node[g].dest]) /\ b \notin Nest(prog.parent[g])
    THEN ExpandBlockForGoto(ParentOf(b)) ELSE b

\* The locals a new statement may take the address of: those there are, and a
\* new one of any block on the stack.
LocalBlocks == {b \in Nest(Top.block) : HasLocal(b)} \union
               {ExpandBlockForGoto(b) : b \in Nest(Top.block)}

-----------------------------------------------------------------------------
(* Generating statements, with what becomes known of them.                 *)

\* Statement::post_creation_analysis, for a statement without blocks.
LeafWithFacts(kind) ==
  /\ Leaf(kind)
  /\ LET r == node'[New]
         f == Assigned(r, facts.now)
         now == IF kind = "move" THEN f ELSE facts.now
     IN /\ Readable(r, facts.now)
        /\ r.reads = "local" => r.dest \in LocalBlocks
        /\ facts' = Learn([facts EXCEPT !.now = now], Stm(New), facts.now, FactOut(r, now))

OpenWithFacts(kind) ==
  /\ Open(kind, FALSE)
  /\ facts' = [facts EXCEPT !.in = (Blk(New) :> facts.now) @@ @,
                            !.entry = (New :> facts.now) @@ @]

BackwardGotoWithFacts(b, other) ==
  /\ BackwardGoto(b, other)
  /\ ~SkipsInit(Top.block, b)
  /\ facts' = Learn([facts EXCEPT !.back = @ \union {New}], Stm(New), facts.now,
                    FactOut(node'[New], facts.now))

\* The rest of StatementGoto::make_random: what the jump brings to its
\* destination is tried out, and the attempt given up if that cannot be had.
ForwardFacts(other) ==
  LET home == Top.block
      dest == Last(prog.stms[home])
      From(a) == At(IF Kind(other) \in Jump THEN a.in ELSE a.out, Stm(other))
      ToDest(a) == Dead(From(a), Nest(prog.parent[other]) \ Nest(home))
      in == At(facts.in, Stm(dest))
      merged == MergeJumpFacts(in, {ToDest(facts)})
      After(a) == IF ContainsStmt(prog, dest, other)
                    THEN MergeFacts(ToDest(facts), {ToDest(a)}) ELSE ToDest(facts)
      Tried(a, f) == Result(TRUE, Learn(Learn(a, Stm(New), From(a), After(a)),
                                        Stm(dest), merged, FactOut(node[dest], f)), f)
      End(a) == At(IF Kind(dest) \in Jump \union {"return"} THEN a.in ELSE a.out, Stm(dest))
      Ended(r) == IF r.ok THEN [r EXCEPT !.a.now = End(r.a)] ELSE r
  IN Ended(IF merged = in
             THEN Result(TRUE, Learn(facts, Stm(New), From(facts), ToDest(facts)), in)
             ELSE AndThen(VisitFacts(facts, dest, merged), Tried))

ForwardGotoWithFacts(b, other) ==
  /\ ForwardGoto(b, other)
  /\ ~SkipsInit(b, Top.block)
  /\ \E r \in {ForwardFacts(other)} : r.ok /\ facts' = r.a

\* Mutant: the statement is made before it is known whether the facts allow it.
ForwardGotoFails_KeepsStatement(b, other) ==
  /\ Drawing("goto")
  /\ prog.stms[Top.block] # <<>> /\ ~InArrayLoop(Top.block)
  /\ b \in JumpBlocks /\ other \in Others(b)
  /\ ~SkipsInit(b, Top.block)
  /\ \E r \in {ForwardFacts(other)} : ~r.ok /\ facts' = [facts EXCEPT !.visited = r.a.visited]
  /\ Create([Record("goto", prog.parent[other]) EXCEPT !.dest = Last(prog.stms[Top.block])])
  /\ prog' = Known(prog, prog.parent[other])
  /\ UNCHANGED <<options, phase, stack, sections>>

\* What the attempt leaves behind is what it has visited.
ForwardGotoFails(b, other) ==
  /\ Drawing("goto")
  /\ prog.stms[Top.block] # <<>> /\ ~InArrayLoop(Top.block)
  /\ b \in JumpBlocks /\ other \in Others(b)
  /\ ~SkipsInit(b, Top.block)
  /\ \E r \in {ForwardFacts(other)} : ~r.ok /\ facts' = [facts EXCEPT !.visited = r.a.visited]
  /\ UNCHANGED <<genVars, phase, prog>>

-----------------------------------------------------------------------------
(* Finishing blocks (Block::post_creation_analysis).                       *)

TailToHead(b) == Looping(b) /\ prog.stms[b] # <<>> /\ ~EndsInReturn(prog, b)

\* What is known when a block is finished, before and after its statements are
\* gone through again.  An attempt after statements have been removed starts
\* from where the first one did.
Finish(f) ==
  LET b == f.block
      gone == Dead(facts.now, {b})
      ended == IF f.analysed THEN facts
               ELSE [facts EXCEPT !.visited = @ \union {Blk(b)}, !.now = gone,
                                  !.out = (Blk(b) :> gone) @@ @]
      linked == [ended EXCEPT !.round = IF TailToHead(b) THEN @ \union {b} ELSE @]
      Fixed(r) == IF r.ok THEN [r EXCEPT !.a.now = r.f] ELSE r
  IN IF ~(f.analysed \/ Reanalysed(f)) THEN Result(TRUE, ended, gone)
     ELSE Fixed(FindFixedPoint(linked, b, facts.entry[b], f.revisit))

\* reset_stm_fact_maps: nothing is known of a block and what is in it.
Reset(a, p, b) ==
  LET keys == {Blk(b)} \union {Stm(s) : s \in InBlock(p, b)} \union
              {Blk(k) : k \in UNION {BlocksOf(s) : s \in InBlock(p, b)}}
  IN [a EXCEPT !.in = [k \in DOMAIN @ \ keys |-> @[k]],
               !.out = [k \in DOMAIN @ \ keys |-> @[k]]]

AnalysisFails(i) ==
  /\ FailAnalysis(i)
  /\ \E r \in {Finish(Top)} : ~r.ok /\ r.at = i /\ facts' = Reset(r.a, prog', Top.block)

\* make_random of the statement whose block is finished: the second branch
\* starts with the facts of the first; an `if' and a loop combine what they
\* know (combine_branch_facts, post_loop_analysis).
Owned(a, b) ==
  LET s == Owner(b)
      pre == a.entry[s]
      start == At(a.in, Blk(b))
      now == IF Kind(s) = "for" THEN LoopFacts(a, s, pre)
             ELSE BranchFacts(s, pre, At(a.out, Blk(s)), At(a.out, Blk(-s)))
  IN IF b = 0 THEN a
     ELSE IF Kind(s) = "if" /\ b > 0
       THEN [a EXCEPT !.now = start, !.in = (Blk(-s) :> start) @@ @, !.entry = (-s :> start) @@ @]
     ELSE Learn([a EXCEPT !.now = now], Stm(s), pre, now)

CloseWithFacts ==
  /\ Close
  /\ \E r \in {Finish(Top)} : r.ok /\ facts' = Owned(r.a, Top.block)

GenerateWithFacts ==
  \/ \E kind \in options : LeafWithFacts(kind) \/ OpenWithFacts(kind)
  \/ \E b \in prog.blocks : \E other \in ToSet(prog.stms[b]) :
       \/ BackwardGotoWithFacts(b, other)
       \/ ForwardGotoWithFacts(b, other)
       \/ ForwardGotoFails(b, other)
  \/ \E i \in Ids : AnalysisFails(i)
  \/ CloseWithFacts

-----------------------------------------------------------------------------
(* Running a program: every condition may come out either way.             *)

Out(s, dead) == [to |-> s, dead |-> dead]

\* Where control goes when statement s is done, and the blocks it leaves.
\* What was removed may leave a block empty.
RECURSIVE Onward(_, _), Into(_, _), Beyond(_, _)
Onward(s, dead) ==
  LET text == prog.stms[prog.parent[s]]
      i == CHOOSE k \in DOMAIN text : text[k] = s
  IN IF i < Len(text) THEN {Out(text[i + 1], dead)} ELSE Beyond(prog.parent[s], dead)

Into(b, dead) == IF prog.stms[b] = <<>> THEN Beyond(b, dead) ELSE {Out(Head(prog.stms[b]), dead)}

Beyond(b, dead) ==
  IF b = 0 THEN {}
  ELSE Onward(Owner(b), dead \union {b}) \union
       (IF Looping(b) /\ prog.stms[b] # <<>> THEN Into(b, dead \union {b}) ELSE {})

Successors(s) ==
  LET r == node[s]
      home == prog.parent[s]
      path == LoopPath(home)
      loop == CHOOSE l \in path : Looping(l)
  IN CASE r.kind = "if" -> Into(s, {}) \union Into(-s, {})
       [] r.kind = "for" -> Into(s, {}) \union Onward(s, {})
       [] r.kind = "break" -> Onward(s, {}) \union Onward(loop, path)
       [] r.kind = "continue" -> Onward(s, {}) \union Onward(loop, path) \union Into(loop, path)
       [] r.kind = "goto" ->
            Onward(s, {}) \union {Out(r.dest, Nest(home) \ Nest(prog.parent[r.dest]))}
       [] r.kind = "return" -> {}
       [] OTHER -> Onward(s, {})

\* What runs come to: a statement, and what each pointer holds there, written
\* as the fact that it points there and nowhere else.
RECURSIVE Reached(_, _)
Reached(seen, new) ==
  LET next == {<<o.to, Dead(IF Kind(at[1]) = "move" THEN Assigned(node[at[1]], at[2]) ELSE at[2], o.dead)>> :
                 <<at, o>> \in UNION {{<<x, y>> : y \in Successors(x[1])} : x \in new}}
  IN IF new = {} THEN seen ELSE Reached(seen \union new, next \ (seen \union new))

Run == LET start == {<<Head(prog.stms[0]), [v \in Pointers |-> {Global}]>>} IN Reached({}, start)

\* Where the code falls short: a forward goto that stands inside its destination
\* closes a loop, and StatementGoto::make_random goes once round it instead of
\* to a fixed point.  Nothing is said of programs with such a goto.
LateLoop == \E g \in prog.edges \ facts.back : ContainsStmt(prog, node[g].dest, g)

Analysed == WithPointers /\ Built /\ ~LateLoop

\* Wherever a run comes to a statement that reads pointers, the facts noted down
\* for it cover what they hold and allow what it does: so no run dereferences a
\* null pointer or reads a dangling one, whatever was built, jumped over, gone
\* through again or removed after the facts were noted down.
PointersAreValid ==
  Analysed => \A at \in Run :
    LET r == node[at[1]]
        f == At(facts.in, Stm(at[1]))
    IN r.reads \in Pointers => /\ \A v \in Pointers : at[2][v] \subseteq f[v]
                               /\ Readable(r, f)

\* No goto leads into a block with a local from outside of it, where it would
\* pass the initialisation: neither are such blocks chosen nor is a local
\* declared in a block a goto leads into.
JumpsSkipNoLocals ==
  WithPointers => \A g \in prog.edges : ~SkipsInit(prog.parent[g], prog.parent[node[g].dest])

=============================================================================
