--------------------------- MODULE MCMessageBarrier ---------------------------
(* Small instances of message passing, with and without barriers.          *)
EXTENDS MessageBarrier

\* Threads are interchangeable, so node 1 is 0's.  A barrier in front of node 1
\* changes nothing.  Where there are barriers, what is passed does not matter: one
\* choice of fields will do, none for the node of the order and so all for its
\* partner.  And no thread has more nodes than it may visit.
Plans ==
  /\ nodes # <<>> => nodes[1] = 0
  /\ barriers # {} =>
       /\ 1 \notin barriers
       /\ phase = "run" => BarriersAgree /\ \A k \in DOMAIN order : updates[order[k]] = {}
       /\ \A t \in Tid : Cardinality({n \in DOMAIN nodes : nodes[n] = t}) <= MaxVisits

=============================================================================
