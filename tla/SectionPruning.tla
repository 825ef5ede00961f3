----------------------------- MODULE SectionPruning -----------------------------
(***************************************************************************)
(* Pruning the sections that never or always run, once the program is      *)
(* built (PruneEMISections, then PruneTGSections, in goGenerator).  Coins   *)
(* decide for each statement of a section: a leaf is deleted or kept; a     *)
(* compound is deleted, lifted (replaced by the content of its blocks) or   *)
(* kept.  Blocks are pruned from the inside out.                           *)
(***************************************************************************)
EXTENDS ProgramGeneration

VARIABLES
  todo,    \* the sections still to be pruned in this phase
  prune,   \* the calls of PruneBlock under way, the innermost last
  draws,   \* history: what the coins made of each statement
  flips,   \* history: how many coins the EMI sections have taken
  before   \* history: the program as it was built

pruneVars == <<todo, prune, draws, flips, before>>

PruneFrame(b) == [block |-> b, i |-> 1, within |-> 0, del |-> <<>>, lift |-> <<>>]
This == Last(prune)
Current == prog.stms[This.block][This.i]

Pruning == phase \in Section /\ prune # <<>> /\ ~prog.undefined
AtStatement == Pruning /\ This.i <= Len(prog.stms[This.block])

\* The blocks some call holds an iterator into, without and with this call's.
Held(n) == {prune[i].block : i \in 1 .. n}

\* PruneEMISections, PruneTGSections: the sections, in the order they were made.
StartPruning ==
  /\ todo' = Keep(sections, {s \in Ids : Kind(s) = phase'})
  /\ before' = IF before = Empty THEN prog ELSE before
  /\ UNCHANGED <<prune, draws, flips>>

\* StatementEMI::Prune, StatementTG::Prune.
PruneSection ==
  /\ phase \in Section /\ ~prog.undefined
  /\ prune = <<>> /\ todo # <<>>
  /\ prune' = <<PruneFrame(Head(todo))>>
  /\ todo' = Tail(todo)
  /\ UNCHANGED <<genVars, phase, prog, draws, flips, before>>

-----------------------------------------------------------------------------
(* Lifting.                                                                *)

\* Mutant: the statements moved keep their parent.
MergeBlock_KeepsParents(p, b, m, st) ==
  LET at == CHOOSE i \in DOMAIN p.stms[b] : p.stms[b][i] = st
      text == p.stms[b]
  IN [p EXCEPT !.stms[b] = SubSeq(text, 1, at - 1) \o p.stms[m] \o SubSeq(text, at, Len(text)),
               !.stms[m] = <<>>]

\* MergeBlock: what block m holds moves to block b, in front of statement st.
\* The blocks inside keep their parent.
MergeBlock(p, b, m, st) ==
  LET at == CHOOSE i \in DOMAIN p.stms[b] : p.stms[b][i] = st
      moved == ToSet(p.stms[m]) \union ToSet(p.deleted[m])
      text == p.stms[b]
  IN [p EXCEPT !.parent = [s \in DOMAIN @ |-> IF s \in moved THEN b ELSE @[s]],
               !.deleted[b] = @ \o p.deleted[m], !.deleted[m] = <<>>,
               !.stms[b] = SubSeq(text, 1, at - 1) \o p.stms[m] \o SubSeq(text, at, Len(text)),
               !.stms[m] = <<>>,
               !.undefined = @ \/ b \in p.live]

RemoveAll(p, b, list) ==
  LET done[i \in 0 .. Len(list)] == IF i = 0 THEN p ELSE RemoveStmt(done[i - 1], b, list[i])
  IN done[Len(list)]

\* A loop body about to leave its loop loses the jumps that belong to the loop:
\* they stand in it or in its branches.  While those of a branch are removed, the
\* calls for the blocks around it hold iterators.
RemoveBreakContinue(p, b) ==
  LET of == [s \in Ids |-> IF Kind(s) = "if" THEN {s, -s} ELSE {}]
      jumps == {s \in StmsIn(p, Below(p, b, of)) : Kind(s) \in {"break", "continue"}}
      Around(k) == {l \in Below(p, b, of) : k # l /\ k \in Below(p, l, of)}
      done[n \in 0 .. Len(node)] ==
        IF n = 0 THEN p
        ELSE IF n \notin jumps THEN done[n - 1]
        ELSE RemoveStmt([done[n - 1] EXCEPT !.live = p.live \union Around(p.parent[n])], p.parent[n], n)
  IN [done[Len(node)] EXCEPT !.live = p.live]

InLoop(b) == \E k \in Nest(b) : Looping(k)

\* Mutant: jumps are left alone.
LiftOne_KeepsJumps(p, b, s) ==
  IF Kind(s) = "if" THEN MergeBlock(MergeBlock(p, b, s, s), b, -s, s) ELSE MergeBlock(p, b, s, s)

\* `position' is an iterator into b while jumps are removed from the body.
LiftOne(p, b, s) ==
  IF Kind(s) = "if" THEN MergeBlock(MergeBlock(p, b, s, s), b, -s, s)
  ELSE LET body == [RemoveBreakContinue([p EXCEPT !.live = @ \union {b}], s) EXCEPT !.live = p.live]
       IN MergeBlock(IF InLoop(b) THEN p ELSE body, b, s, s)

\* Mutant: the statements lifted from are removed with what they hold.
Applied_RemovesFirst(p, f) == RemoveAll(RemoveAll(p, f.block, f.del), f.block, f.lift)

\* Deleting, lifting, then deleting what was lifted from.
Applied(p, f) ==
  LET lifted[i \in 0 .. Len(f.lift)] ==
        IF i = 0 THEN RemoveAll(p, f.block, f.del) ELSE LiftOne(lifted[i - 1], f.block, f.lift[i])
  IN RemoveAll(lifted[Len(f.lift)], f.block, f.lift)

-----------------------------------------------------------------------------
(* PruneBlock.                                                             *)

Become(f) == [prune EXCEPT ![Len(prune)] = f]
Took(n) == flips' = IF phase = "emi" THEN flips + n ELSE flips
Drew(s, draw) == draws' = (s :> draw) @@ draws

\* A leaf is anything but an `if' or a loop: a section as well.
PruneLeaf(delete) ==
  /\ AtStatement /\ Kind(Current) \notin Compound
  /\ prune' = Become([This EXCEPT !.i = @ + 1,
                                  !.del = IF delete THEN Append(@, Current) ELSE @])
  /\ Drew(Current, IF delete THEN "delete" ELSE "keep")
  /\ Took(1)
  /\ UNCHANGED <<genVars, phase, prog, todo, before>>

\* The blocks of a compound are pruned before its own coins are flipped.
\* Mutant: the second branch is forgotten.
Blocks_First(s) == <<s>>

Blocks(s) == IF Kind(s) = "if" THEN <<s, -s>> ELSE <<s>>

PruneInside ==
  /\ AtStatement /\ Kind(Current) \in Compound
  /\ This.within < Len(Blocks(Current))
  /\ prune' = Append(Become([This EXCEPT !.within = @ + 1]),
                     PruneFrame(Blocks(Current)[This.within + 1]))
  /\ UNCHANGED <<genVars, phase, prog, todo, draws, flips, before>>

\* Both coins are flipped, whatever the first one shows.  A true-guard section
\* deletes and lifts at once, inside the loop over the block.
PruneCompound(draw) ==
  /\ AtStatement /\ Kind(Current) \in Compound
  /\ This.within = Len(Blocks(Current))
  /\ LET f == [This EXCEPT !.i = @ + 1, !.within = 0,
                           !.del = IF draw = "delete" THEN Append(@, Current) ELSE @,
                           !.lift = IF draw = "lift" THEN Append(@, Current) ELSE @]
     IN /\ prune' = Become(f)
        /\ prog' = IF phase = "tg" /\ draw = "lift"
                     THEN Applied([prog EXCEPT !.live = Held(Len(prune))], f)
                     ELSE prog
  /\ Drew(Current, draw)
  /\ Took(2)
  /\ UNCHANGED <<genVars, phase, todo, before>>

\* Mutant: an EMI section also deletes before the loops outside have ended.
EndBlock_All(f) == Applied([prog EXCEPT !.live = Held(Len(prune))], f)

EndBlock(f) ==
  IF phase = "emi" THEN Applied([prog EXCEPT !.live = Held(Len(prune) - 1)], f) ELSE prog

PruneEnd ==
  /\ Pruning /\ This.i > Len(prog.stms[This.block])
  /\ prog' = [EndBlock(This) EXCEPT !.live = {}]
  /\ prune' = Front(prune)
  /\ UNCHANGED <<genVars, phase, todo, draws, flips, before>>

Prune ==
  \/ PruneSection
  \/ \E delete \in BOOLEAN : PruneLeaf(delete)
  \/ PruneInside
  \/ \E draw \in {"delete", "lift", "keep"} : PruneCompound(draw)
  \/ PruneEnd

PruneInit == todo = <<>> /\ prune = <<>> /\ draws = <<>> /\ flips = 0 /\ before = Empty

-----------------------------------------------------------------------------

NoGotos == "goto" \notin options
EMIPruned == "emi" \in options /\ phase \in {"tg", "done"} /\ ~prog.undefined

\* A program as text: each statement is followed by its blocks, closed by 0.
Text(p, b) ==
  LET text[k \in DOMAIN p.stms] ==
        LET One(s) == CASE Kind(s) = "if" -> <<s>> \o text[s] \o <<-s>> \o text[-s] \o <<0>>
                        [] Kind(s) \in {"for", "emi", "call"} -> <<s>> \o text[s] \o <<0>>
                        [] OTHER -> <<s>>
        IN FlattenSeq([i \in DOMAIN p.stms[k] |-> One(p.stms[k][i])])
  IN text[b]

\* The text the draws describe: deleted statements are gone with all they hold,
\* lifted ones leave what they hold, the rest keeps its place; a break or a
\* continue around which no loop is left is gone.
Described(b) ==
  LET Draw(s) == IF s \in DOMAIN draws THEN draws[s] ELSE "keep"
      text[k \in DOMAIN before.stms, loop \in BOOLEAN] ==
        LET Inside(s) ==
              CASE Kind(s) = "if" -> text[s, loop] \o (IF Draw(s) = "lift" THEN <<>> ELSE <<-s>>)
                                     \o text[-s, loop]
                [] Kind(s) = "for" -> text[s, loop \/ Draw(s) = "keep"]
                [] OTHER -> text[s, loop /\ Kind(s) = "emi"]
            One(s) ==
              CASE Draw(s) = "delete" -> <<>>
                [] Draw(s) = "lift" -> Inside(s)
                [] Kind(s) \in {"if", "for", "emi", "call"} -> <<s>> \o Inside(s) \o <<0>>
                [] Kind(s) \in {"break", "continue"} /\ ~loop -> <<>>
                [] OTHER -> <<s>>
        IN FlattenSeq([i \in DOMAIN before.stms[k] |-> One(before.stms[k][i])])
  IN text[b, FALSE]

\* Without gotos, pruning leaves exactly the program its draws describe: lifting
\* and deleting while positions are kept (StatementEMI.cpp:129-158) moves
\* nothing out of order and takes nothing along.
PrunedAsDrawn == EMIPruned /\ NoGotos => Text(prog, 0) = Described(0)

\* The printed statements with no printed loop around them.
OutsideLoops(b) ==
  StmsIn(prog, Below(prog, b, [s \in Ids |-> IF Kind(s) \in {"if", "emi"} THEN {s, -s} ELSE {}]))

InGuard(s) ==
  s \in DOMAIN before.parent /\ \E k \in Nest(before.parent[s]) : k # 0 /\ Kind(Owner(k)) = "tg"

\* Programs are valid: after generation and after pruning each break and each
\* continue stands in a loop, and each goto leads to a statement of its function
\* that is printed.  Only a label in a true-guard section is not.
JumpsLand ==
  phase # "generate" /\ ~prog.undefined /\ prune = <<>> =>
    \A r \in Functions \intersect DOMAIN prog.stms :
      /\ \A s \in OutsideLoops(r) : Kind(s) \notin {"break", "continue"}
      /\ \A s \in PrintedIn(prog, r) :
           Kind(s) = "goto" /\ ~InGuard(node[s].dest) => node[s].dest \in PrintedIn(prog, r)

Coins(b) ==
  LET coins[k \in DOMAIN before.stms] ==
        LET One(s) == CASE Kind(s) = "if" -> 2 + coins[s] + coins[-s]
                        [] Kind(s) = "for" -> 2 + coins[s]
                        [] OTHER -> 1
        IN FoldLeft(LAMBDA n, s : n + One(s), 0, before.stms[k])
  IN coins[b]

\* Pruning draws as many random numbers whatever it draws, "otherwise later code
\* that depends on it will produce a different output" (StatementEMI.cpp:82).
\* That holds for programs without gotos.
CoinsAreFixed ==
  EMIPruned /\ NoGotos => flips = FoldLeft(LAMBDA n, s : n + Coins(s), 0,
                                Keep(sections, {s \in Ids : Kind(s) = "emi"}))

\* A vector is changed under a loop that walks it only by the lifting of a
\* true-guard section, or where a deleted label takes its goto along.
IteratorsBreakOnlyThere == prog.undefined => phase = "tg" \/ ~NoGotos

\* "True block is a standard random block (that will never run)"
\* (StatementEMI.cpp:39): nothing outside a section leads into it.
SectionsNeverEntered ==
  \A g \in prog.edges : \A s \in ToSet(sections) :
    Kind(s) = "emi" /\ s \in Nest(prog.parent[node[g].dest]) => s \in Nest(prog.parent[g])

=============================================================================
