----------------------------- MODULE MessageDAG -----------------------------
(***************************************************************************)
(* What message passing promises (CLSmith's name for it is a DAG of        *)
(* messages): the nodes are drawn into a sequence of steps of one or two   *)
(* nodes, and a node updates the message, or is skipped, only when every   *)
(* node of every earlier step has done so.                                 *)
(***************************************************************************)
EXTENDS Naturals, Sequences

CONSTANT Node

VARIABLES
  drawn,    \* has the order been drawn?
  steps,    \* the order, a sequence of sets of nodes
  inside,   \* the nodes updating the message
  settled   \* the nodes that have updated it, or been skipped

dagVars == <<drawn, steps, inside, settled>>

Disjoint(s) == \A i, j \in DOMAIN s : i # j => s[i] \intersect s[j] = {}

\* The nodes whose turn it is.
Turn == LET open == {k \in DOMAIN steps : ~ steps[k] \subseteq settled}
        IN  IF open = {} THEN {}
            ELSE steps[CHOOSE k \in open : \A j \in open : k <= j]

Init ==
  /\ drawn = FALSE
  /\ steps = <<>>
  /\ inside = {}
  /\ settled = {}

Draw ==
  /\ ~ drawn
  /\ drawn' = TRUE
  /\ steps' \in Seq({{m, n} : m, n \in Node})
  /\ Disjoint(steps')
  /\ UNCHANGED <<inside, settled>>

Enter(n) ==
  /\ n \in Turn \ (inside \union settled)
  /\ inside' = inside \union {n}
  /\ UNCHANGED <<drawn, steps, settled>>

Leave(n) ==
  /\ n \in inside
  /\ inside' = inside \ {n}
  /\ settled' = settled \union {n}
  /\ UNCHANGED <<drawn, steps>>

Skip(n) ==
  /\ n \in Turn \ (inside \union settled)
  /\ settled' = settled \union {n}
  /\ UNCHANGED <<drawn, steps, inside>>

Next == Draw \/ \E n \in Node : Enter(n) \/ Leave(n) \/ Skip(n)

Spec == Init /\ [][Next]_dagVars

=============================================================================
