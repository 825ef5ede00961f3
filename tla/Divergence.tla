------------------------------- MODULE Divergence -------------------------------
(***************************************************************************)
(* Which points of a program may be reached by some threads and not by     *)
(* others (CUDASmith/Divergence.cpp), and where that allows a barrier       *)
(* (GenerateBarriers).  The analysis walks through the functions with one   *)
(* flag, divergent_, for where it is, and two maps, for blocks and for      *)
(* variables.  At each `if' and loop it puts the maps aside, starts with    *)
(* empty ones and merges them back at the end; loops are walked again until *)
(* nothing changes.  The state of the analysis is a record:                *)
(*                                                                         *)
(*   func, walker, block, div   function_, function_walker_, sub_block_, divergent_   *)
(*   sub, g       sub_block_div_ and global_var_div_ (all variables are global)      *)
(*   saved, ifs   saved_states_, and saved_if_ of this function            *)
(*   nested       nested_blocks_, pairs of a block and a statement in it   *)
(*   scope        scope_levels_final_, pairs of a block and one inside it  *)
(*   value, final divergent_value_ of this function, sub_block_div_final_  *)
(*   freed         what is read back from a map that has been freed         *)
(*   whole         the lookups are repaired: for comparison, see KnownGap   *)
(*   left          history: a return that only some threads reach           *)
(***************************************************************************)
EXTENDS FunctionWalker

VARIABLES
  found,    \* the state in which the analysis has ended
  repaired, \* history: the state in which it ends if no flag is lost
  barriers  \* the barrier statements

divVars == <<found, repaired, barriers>>

NoMap == <<>>
Get(m, k) == k \in DOMAIN m /\ m[k]
Put(m, k, v) == (k :> v) @@ m
MergeMap(m, n) == [k \in DOMAIN m \union DOMAIN n |-> Get(m, k) \/ Get(n, k)]
Changes(m, n) == \E k \in DOMAIN n : n[k] /\ ~Get(m, k)

\* SearchMap: the innermost map that knows, here or put aside.
Search(maps, k) ==
  LET known == {i \in DOMAIN maps : k \in DOMAIN maps[i]}
  IN known # {} /\ maps[Max(known)][k]

VariableMaps(a) == [i \in DOMAIN a.saved |-> a.saved[i].g] \o <<a.g>>
IsVariableDivergent(a, v) == Search(VariableMaps(a), v)
IsSubBlockDivergent(a, b) ==
  LET own == SelectSeq(a.saved, LAMBDA s : s.func = a.func)
  IN Search([i \in DOMAIN own |-> own[i].sub] \o <<a.sub>>, b)

IsExpressionDivergent(a, e) ==
  CASE e = "tid" -> TRUE [] e \in Vars -> IsVariableDivergent(a, e) [] OTHER -> FALSE

Assign(a, v, d) == [a EXCEPT !.g = Put(@, v, d \/ a.div)]

-----------------------------------------------------------------------------
(* Putting the maps aside and merging them back.                           *)

Saved(a, s) == [func |-> a.func, stm |-> s, sub |-> a.sub, g |-> a.g]
SaveState(a, s) ==
  [a EXCEPT !.saved = Append(@, Saved(a, s)), !.sub = NoMap, !.g = NoMap]

\* An entry the saved map does not have hides that of a map further out.
RestoreAndMerge(a, saved) ==
  LET Outer(v) == a.whole /\ v \notin DOMAIN saved.g /\ Search([i \in DOMAIN a.saved |-> a.saved[i].g], v)
      g == MergeMap(saved.g, a.g)
  IN [a EXCEPT !.sub = MergeMap(saved.sub, a.sub), !.g = [v \in DOMAIN g |-> g[v] \/ Outer(v)]]
Changed(a, saved) == Changes(saved.sub, a.sub) \/ Changes(saved.g, a.g)

\* MarkSubBlockDivergentViral: a block, and what has been walked of those inside.
RECURSIVE MarkViral(_, _)
MarkViral(a, b) ==
  IF Get(a.sub, b) THEN a
  ELSE FoldLeft(LAMBDA m, k : MarkViral(m, k), [a EXCEPT !.sub = Put(@, b, TRUE)],
                SetToSeq({k \in DOMAIN prog.stms : <<b, k>> \in a.scope}))

\* Go on in block b: its flag is looked up in the innermost map, and entered
\* there if it is missing.
GoOn(a, b) ==
  LET d == IF a.whole THEN IsSubBlockDivergent(a, b) ELSE Get(a.sub, b)
  IN [a EXCEPT !.block = b, !.div = d, !.sub = Put(@, b, d)]

Popped(a) == [GoOn(a, Last(a.nested)[1]) EXCEPT !.nested = Front(@)]

\* Step into block b of statement s; the flags of its blocks are in map m.
StepInto(a, s, b, m) ==
  [SaveState([a EXCEPT !.sub = m], s) EXCEPT
     !.nested = Append(@, <<a.block, s>>), !.block = b, !.div = m[b],
     !.scope = @ \union {<<a.block, b>>} \union (IF Kind(s) = "if" THEN {<<a.block, -s>>} ELSE {})]

-----------------------------------------------------------------------------
(* One statement, and the ends of blocks.                                  *)

\* Mutant: the second branch keeps the flag of the first walk.
StepIf_TrueOnly(a, s) ==
  LET d == IsExpressionDivergent(a, node[s].reads) \/ a.div
  IN StepInto(a, s, s, Put(a.sub, s, Get(a.sub, s) \/ d))

StepIf(a, s) ==
  LET d == IsExpressionDivergent(a, node[s].reads) \/ a.div
  IN StepInto(a, s, s, Put(Put(a.sub, s, Get(a.sub, s) \/ d), -s, Get(a.sub, -s) \/ d))

\* The loop's variable is assigned constants, so it diverges where the loop does.
StepFor(a, s) == StepInto(a, s, s, Put(a.sub, s, Get(a.sub, s) \/ a.div))

LoopOf(s) == CHOOSE b \in Nest(node[s].home) :
               Looping(b) /\ \A k \in Nest(node[s].home) : Looping(k) => k \in Nest(b) 

StepJump(a, s) ==
  IF IsExpressionDivergent(a, node[s].reads) \/ a.div THEN MarkViral(a, LoopOf(s)) ELSE a

StepReturn(a, s) ==
  LET m == IF a.div THEN MarkViral(a, a.block) ELSE a
  IN [m EXCEPT !.value = @ \/ a.div \/ IsExpressionDivergent(a, node[s].reads),
               !.left = @ \/ a.div]

\* First true, then second branch: the maps of the first are kept apart.
EndIf(a) ==
  LET s == Last(a.nested)[2]
      second == a.ifs # <<>> /\ Last(a.ifs).stm = s
      merged == RestoreAndMerge([a EXCEPT !.ifs = Front(@)], Last(a.ifs))
      whole == RestoreAndMerge([merged EXCEPT !.saved = Front(@)], Last(merged.saved))
  IN IF second THEN Popped(whole)
     ELSE GoOn([a EXCEPT !.ifs = Append(@, Saved(a, s)), !.sub = NoMap, !.g = NoMap], -s)

RECURSIVE ProcessStep(_), BlockEnds(_, _), EndFor(_), Again(_, _), InnerEnds(_, _), Process(_, _, _)

\* The test is evaluated again.  If the merge has changed anything, the flag of
\* the loop's block is then read from the map the merge has freed.
EndFor(a) ==
  LET s == Last(a.nested)[2]
      b == [a EXCEPT !.block = s, !.sub = Put(@, s, Get(@, s) \/ a.div)]
      saved == Last(b.saved)
      r == RestoreAndMerge([b EXCEPT !.saved = Front(@)], saved)
      read == IF b.freed = "kept" THEN b.sub[s] ELSE b.freed = "set"
      again == SaveState([r EXCEPT !.walker = Advance(WalkerAt(s)), !.div = read], s)
  IN IF Changed(b, saved) THEN EndFor(InnerEnds(Again(again, a.walker), s)) ELSE r

\* Walk until the walker stands where the first walk through the loop had ended.
Again(a, target) ==
  IF CurrentStm(a.walker) = CurrentStm(target) THEN a
  ELSE LET b == ProcessStep(a) IN Again([b EXCEPT !.walker = Advance(b.walker)], target)

BlockEnd(a) ==
  IF a.nested = <<>> THEN a
  ELSE IF Kind(Last(a.nested)[2]) = "for" THEN Popped(EndFor(a)) ELSE EndIf(a)

BlockEnds(a, n) == IF n = 0 THEN a ELSE BlockEnds(BlockEnd(a), n - 1)
InnerEnds(a, s) == IF Last(a.nested)[2] = s THEN a ELSE InnerEnds(BlockEnd(a), s)

StepCall(a, s) ==
  LET c == Process(a, s, a.div)
  IN Assign([c EXCEPT !.func = a.func, !.walker = a.walker, !.block = a.block, !.div = a.div,
                      !.sub = a.sub, !.nested = a.nested, !.ifs = a.ifs, !.value = a.value],
            node[s].var, c.value)

ProcessStep(a) ==
  LET s == CurrentStm(a.walker)
      b == BlockEnds(a, a.walker.exited)
  IN CASE Kind(s) = "assign" -> Assign(b, node[s].var, IsExpressionDivergent(b, node[s].reads))
       [] Kind(s) = "for" -> StepFor(b, s)
       [] Kind(s) = "if" -> StepIf(b, s)
       [] Kind(s) = "return" -> StepReturn(b, s)
       [] Kind(s) \in {"break", "continue"} -> StepJump(b, s)
       [] Kind(s) = "call" -> StepCall(b, s)
       [] OTHER -> b

RECURSIVE ToTheEnd(_)
ToTheEnd(a) ==
  LET w == Advance(a.walker)
      b == [a EXCEPT !.walker = w]
  IN IF AtEnd(w) THEN BlockEnds(b, w.exited) ELSE ToTheEnd(ProcessStep(b))

\* ProcessWithContext and ProcessFinalise.
Process(a, f, d) ==
  LET e == ToTheEnd([a EXCEPT !.func = f, !.walker = Walker(f), !.block = f, !.div = d,
                              !.sub = (f :> d), !.nested = <<>>, !.ifs = <<>>, !.value = FALSE])
  IN [e EXCEPT !.final = MergeMap(@, e.sub)]

NothingYet ==
  [func |-> 0, walker |-> Walker(0), block |-> 0, div |-> FALSE, sub |-> NoMap,
   g |-> [v \in Vars |-> FALSE], saved |-> <<>>, ifs |-> <<>>, nested |-> <<>>,
   scope |-> {}, value |-> FALSE, final |-> NoMap,
   freed |-> "kept", whole |-> FALSE, left |-> FALSE]

ProcessEntryFunction ==
  /\ \E read \in {"kept", "set", "clear"} :
       found' = [Process([NothingYet EXCEPT !.freed = read], 0, FALSE) EXCEPT !.freed = "kept"]
  /\ repaired' = Process([NothingYet EXCEPT !.whole = TRUE], 0, FALSE)
  /\ UNCHANGED barriers

-----------------------------------------------------------------------------
(* Barriers.                                                               *)

\* GetDivergentCodeSections: the outermost divergent blocks.
RECURSIVE SectionsIn(_)
SectionsIn(b) ==
  IF Get(found.final, b) THEN <<b>>
  ELSE LET Of(s) == FlattenSeq([i \in DOMAIN Branches(s) |-> SectionsIn(Branches(s)[i])])
       IN FlattenSeq([i \in DOMAIN prog.stms[b] |-> Of(prog.stms[b][i])])

\* Where a walk goes on behind a divergent block.
Behind(b) == NextStm(WalkerAt(Last(prog.stms[b])))

\* GenerateBarriers, for one function: behind the first divergent section that
\* is not followed by another at once; nowhere if one is the end of the function.
\* Mutant: in front of it.
BarrierAt_Before(f) ==
  LET list == SectionsIn(f) IN IF list = <<>> THEN 0 ELSE Head(prog.stms[list[1]])

BarrierAt(f) ==
  LET list == SectionsIn(f)
      Joined(i) == i < Len(list) /\ CurrentStm(Behind(list[i])) = Head(prog.stms[list[i + 1]])
      stops == {i \in DOMAIN list : AtEnd(Behind(list[i])) \/ ~Joined(i)}
  IN IF stops = {} THEN 0 ELSE CurrentStm(Behind(list[Min(stops)]))

\* The statements a barrier is put in front of.
GenerateBarriers ==
  /\ barriers' = {BarrierAt(f) : f \in Functions} \ {0}
  /\ UNCHANGED <<found, repaired>>

DivInit ==
  /\ found = NothingYet
  /\ repaired = NothingYet
  /\ barriers = {}

-----------------------------------------------------------------------------
(* What a thread does: how often it comes to each statement.               *)

Iterations == 2   \* of every loop that is not left
Value(vars, e, thread) ==
  CASE e = "tid" -> thread [] e = "1" -> 1 [] e = "0" -> 0 [] OTHER -> vars[e]

RECURSIVE RunBlock(_, _, _), RunStm(_, _, _), RunLoop(_, _, _, _)
RunBlock(x, b, thread) ==
  FoldLeft(LAMBDA y, s : IF y.out # "next" THEN y ELSE RunStm(y, s, thread), x, prog.stms[b])

RunLoop(x, b, thread, n) ==
  LET y == RunBlock(x, b, thread)
      z == [y EXCEPT !.out = IF @ = "return" THEN @ ELSE "next"]
  IN IF n = 0 THEN x
     ELSE IF y.out \in {"break", "return"} THEN z ELSE RunLoop(z, b, thread, n - 1)

RunStm(x, s, thread) ==
  LET y == [x EXCEPT !.count[s] = @ + 1]
      v == Value(y.vars, node[s].reads, thread)
      called == RunBlock(y, s, thread)
  IN CASE Kind(s) = "assign" -> [y EXCEPT !.vars[node[s].var] = v]
       [] Kind(s) = "if" -> RunBlock(y, IF v = 1 THEN s ELSE -s, thread)
       [] Kind(s) = "for" -> RunLoop(y, s, thread, Iterations)
       [] Kind(s) \in {"break", "continue"} -> IF v = 1 THEN [y EXCEPT !.out = Kind(s)] ELSE y
       [] Kind(s) = "return" -> [y EXCEPT !.out = "return", !.value = v]
       [] Kind(s) = "call" -> [called EXCEPT !.out = "next", !.vars[node[s].var] = called.value]
       [] OTHER -> y

Counts(thread) ==
  RunBlock([vars |-> [v \in Vars |-> 0], out |-> "next", value |-> 0,
            count |-> [s \in Ids |-> 0]], 0, thread).count

-----------------------------------------------------------------------------

\* Divergence.cpp looks up the flag of a block in the innermost map only (188,
\* 402), lets an entry made in a branch hide an older one (793), and reads a flag
\* from a freed map (356).  The gaps are the programs in which that makes a
\* difference, and those in which only some threads reach a return (256).
KnownGap == found.final # repaired.final \/ repaired.left

Marked(s) == \E b \in Nest(prog.parent[s]) : Get(found.final, b)

\* "any point that is divergent will be found" (Divergence.h:5): apart from the
\* gaps above, a statement that two threads reach a different number of times is
\* in a block that is marked.
DivergenceFound ==
  phase = "diverged" /\ ~KnownGap =>
    LET zero == Counts(0)
        one == Counts(1)
    IN \A s \in Ids : Marked(s) \/ zero[s] = one[s]

\* A barrier is reached by all threads of the group or by none, again apart
\* from the gaps: a thread that waits there alone waits for ever.
BarriersAreReachedTogether ==
  ~KnownGap /\ barriers # {} =>
    LET zero == Counts(0)
        one == Counts(1)
    IN \A s \in barriers : zero[s] > 0 <=> one[s] > 0

=============================================================================
