---------------------------- MODULE ProgramGenerator ----------------------------
(***************************************************************************)
(* What goGenerator does to a program: generate it, find out where threads *)
(* diverge, prune its EMI and then its true-guard sections, place barriers. *)
(* Facts about pointers are kept where the program has pointers.           *)
(***************************************************************************)
EXTENDS Divergence, GeneratorPhases, PointerFacts

vars == <<phaseVars, facts, divVars>>

Track == OtherStep("diverged") /\ ProcessEntryFunction /\ UNCHANGED facts

\* Where threads have been tracked, barriers are placed last of all.
PlaceBarriers ==
  /\ OtherStep("done") /\ UNCHANGED facts
  /\ IF Tracked THEN GenerateBarriers ELSE UNCHANGED divVars

Finished == (phase = "done" \/ prog.undefined) /\ UNCHANGED vars

Next ==
  \/ ~WithPointers /\ Generate /\ UNCHANGED <<facts, pruneVars, divVars>>
  \/ WithPointers /\ GenerateWithFacts /\ UNCHANGED <<pruneVars, divVars>>
  \/ Track
  \/ \E step \in Section : StartSections(step) /\ UNCHANGED <<facts, divVars>>
  \/ Prune /\ UNCHANGED <<facts, divVars>>
  \/ PlaceBarriers
  \/ Finished

GeneratorInit == PhaseInit /\ FactsInit /\ DivInit

Spec == GeneratorInit /\ [][Next]_vars

=============================================================================
