----------------------------- MODULE FunctionWalker -----------------------------
(***************************************************************************)
(* Walking through a function statement by statement (CUDASmith/Walker.cpp).*)
(* A walker has one level for each block it is in: the block, the position *)
(* in it (0 before its first statement and past its last), and the blocks   *)
(* of the current statement that it has not entered yet.                   *)
(***************************************************************************)
EXTENDS ProgramGeneration

\* The blocks of an `if' or a loop, in the order they are entered.  Other
\* statements with blocks (sections) are passed over.
Branches(s) == CASE Kind(s) = "if" -> <<s, -s>> [] Kind(s) = "for" -> <<s>> [] OTHER -> <<>>

Level(b, i) == [block |-> b, i |-> i, pending |-> IF i = 0 THEN <<>> ELSE Branches(prog.stms[b][i])]
Inmost(w) == Last(w.levels)
CurrentStm(w) == IF Inmost(w).i = 0 THEN 0 ELSE prog.stms[Inmost(w).block][Inmost(w).i]

Walker(f) == [levels |-> <<Level(f, 0)>>, entered |-> 0, exited |-> 0]
AtEnd(w) == Len(w.levels) = 1 /\ Inmost(w).i = 0

\* AdvanceBlock; a walker that fails to is past the last statement.
More(w) == Inmost(w).i < Len(prog.stms[Inmost(w).block])
AdvanceBlock(w) ==
  [w EXCEPT !.levels[Len(w.levels)] = Level(@.block, IF More(w) THEN @.i + 1 ELSE 0)]

EnterBranch(w) ==
  [w EXCEPT !.levels = Append([@ EXCEPT ![Len(@)].pending = Tail(@)], Level(Head(Inmost(w).pending), 0)),
            !.entered = @ + 1]
Leave(w) == [w EXCEPT !.levels = Front(@), !.exited = @ + 1]

\* Leave blocks until there is a statement to go on to.  MustEnterBranch: the
\* second branch of an `if' follows the first.
\* Mutant: only an `if' that ends its block has its second branch entered.
RECURSIVE Climb_StatementFirst(_), Climb(_)
Climb_StatementFirst(w) ==
  LET out == Leave(w) IN
  CASE Len(w.levels) = 1 -> AdvanceBlock(w)
    [] More(out) -> AdvanceBlock(out)
    [] Inmost(out).pending # <<>> -> AdvanceBlock(EnterBranch(out))
    [] OTHER -> Climb(out)

Climb(w) ==
  LET out == Leave(w) IN
  CASE Len(w.levels) = 1 -> AdvanceBlock(w)
    [] Inmost(out).pending # <<>> -> AdvanceBlock(EnterBranch(out))
    [] More(out) -> AdvanceBlock(out)
    [] OTHER -> Climb(out)

\* Advance enters the first branch of the current statement.
Advance(w) ==
  LET v == [w EXCEPT !.entered = 0, !.exited = 0]
      u == IF Inmost(v).pending # <<>> THEN EnterBranch(v) ELSE v
  IN IF More(u) THEN AdvanceBlock(u) ELSE Climb(u)

\* Next does not.
NextStm(w) ==
  LET v == [w EXCEPT !.entered = 0, !.exited = 0]
  IN IF More(v) THEN AdvanceBlock(v) ELSE Climb(v)

\* CreateFunctionWalkerAtStatement: from the statement outwards.  In each
\* statement around it, the branches up to the one it stands in are marked as
\* entered.
\* Mutant: only the first branch is.
Entered_First(branches, b) == Tail(branches)

Entered(branches, b) == IF Head(branches) = b THEN Tail(branches) ELSE <<>>

Position(s) ==
  LET b == prog.parent[s]
  IN Level(b, CHOOSE i \in DOMAIN prog.stms[b] : prog.stms[b][i] = s)

RECURSIVE LevelsTo(_)
LevelsTo(s) ==
  LET b == prog.parent[s]
      around == LevelsTo(Owner(b))
  IN IF ParentOf(b) = NoBlock THEN <<Position(s)>>
     ELSE Append([around EXCEPT ![Len(around)].pending = Entered(@, b)], Position(s))

WalkerAt(s) == [levels |-> LevelsTo(s), entered |-> 0, exited |-> 0]

-----------------------------------------------------------------------------

RECURSIVE PreOrder(_)
PreOrder(b) ==
  LET One(s) == <<s>> \o FlattenSeq([i \in DOMAIN Branches(s) |-> PreOrder(Branches(s)[i])])
  IN FlattenSeq([i \in DOMAIN prog.stms[b] |-> One(prog.stms[b][i])])

\* The states a walker goes through from w to the end of the function.
RECURSIVE Walk(_)
Walk(w) == IF AtEnd(w) THEN <<>> ELSE <<w>> \o Walk(Advance(w))


\* A walk comes to every statement once, in the order of the text, entering
\* and leaving as many blocks as it says (Divergence::ProcessStep counts on it).
WalkIsPreOrder ==
  phase = "diverged" => \A f \in Functions :
    LET walk == Walk(Advance(Walker(f)))
    IN /\ [i \in DOMAIN walk |-> CurrentStm(walk[i])] = PreOrder(f)
       /\ \A i \in 2 .. Len(walk) :
            /\ Len(walk[i].levels) = Len(walk[i - 1].levels) + walk[i].entered - walk[i].exited
            /\ walk[i].entered <= 1

\* "The state of the walker will be the same as if the walker had advanced to
\* the statement from the beginning." (Walker.h:172)
WalkerAtIsAdvanced ==
  phase = "diverged" => \A f \in Functions :
    LET walk == Walk(Advance(Walker(f)))
    IN \A i \in DOMAIN walk : WalkerAt(CurrentStm(walk[i])).levels = walk[i].levels

=============================================================================
