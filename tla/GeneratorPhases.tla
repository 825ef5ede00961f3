----------------------------- MODULE GeneratorPhases -----------------------------
(***************************************************************************)
(* The order of things in goGenerator: generating a program, pruning its   *)
(* EMI sections, pruning its true-guard sections.  The options decide      *)
(* which of these steps there are.  This is what happens to the program    *)
(* itself, and by itself a specification of it (PhaseSpec): tracking        *)
(* divergence and keeping facts about pointers read the program, and only   *)
(* narrow down how it is drawn.                                            *)
(***************************************************************************)
EXTENDS SectionPruning

phaseVars == <<genVars, phase, prog, pruneVars>>

\* The steps, each named for what has been started or done when it is reached.
Steps == <<"generate", "diverged", "emi", "tg", "done">>
Taken(step) == CASE step = "diverged" -> Tracked
                 [] step \in Section -> step \in options
                 [] OTHER -> TRUE

Following ==
  LET at == CHOOSE i \in DOMAIN Steps : Steps[i] = phase
  IN SelectSeq(SubSeq(Steps, at + 1, Len(Steps)), Taken)[1]

StepEnds ==
  /\ phase # "done" /\ ~prog.undefined
  /\ stack = <<>> /\ prune = <<>> /\ todo = <<>>

NextStep(step) ==
  /\ StepEnds /\ Following = step /\ phase' = step
  /\ UNCHANGED <<genVars, prog>>

StartSections(step) == NextStep(step) /\ StartPruning
OtherStep(step) == NextStep(step) /\ UNCHANGED pruneVars

PhaseNext ==
  \/ Generate /\ UNCHANGED pruneVars
  \/ \E step \in Section : StartSections(step)
  \/ \E step \in {"diverged", "done"} : OtherStep(step)
  \/ Prune

PhaseInit == Init /\ PruneInit

\* Generating, pruning and nothing else make the program what it is: an attempt at a
\* goto that the facts refuse (StatementGoto.cpp:165), tracking divergence and placing
\* barriers leave it as it is, and what is drawn with facts could be without them.
PhaseSpec == PhaseInit /\ [][PhaseNext]_phaseVars

=============================================================================
