------------------------ MODULE MessageOrderingProofs ------------------------
(***************************************************************************)
(* Theorems about the generator's half of message passing, for every group *)
(* size, every number of message statements and every set of fields.       *)
(***************************************************************************)
EXTENDS MessageOrdering, TLAPS, SequenceTheorems, WellFoundedInduction, FiniteSetTheorems

-----------------------------------------------------------------------------
(* Facts about the helpers.                                                *)

\* A non-empty set of node indices has a first one (the head of a list of
\* sb_graph_, kept in the order the nodes were registered in).
LEMMA FirstIsLeast ==
  ASSUME NEW S \in SUBSET Nat, S # {}
  PROVE  First(S) \in S /\ \A m \in S : First(S) <= m
<1> DEFINE R == OpToRel(<, Nat)
<1>1. IsWellFoundedOn(R, Nat)
  BY NatLessThanWellFounded
<1>2. PICK n \in S : \A m \in S : ~ (<<m, n>> \in R)
  BY <1>1, WFMin, Zenon
<1>3. ASSUME NEW m \in S
      PROVE  n <= m
  <2>1. <<m, n>> \in Nat \X Nat
    OBVIOUS
  <2>2. m < n => <<m, n>> \in R
    BY <2>1, SMT DEF R, OpToRel
  <2>3. ~ (m < n)
    BY <1>2, <2>2, Zenon
  <2>4. QED
    BY <2>3
<1>4. QED
  BY <1>3 DEF First

\* Nodes are numbered in the order they are registered in.
LEMMA NodesAreNaturals == Node \subseteq Nat
BY NodesAssumption DEF Node

\* The first node of a list that is not empty is one of the list.
LEMMA FirstOfLeft ==
  ASSUME TypeOK, NEW t \in Tid, left[t] # {}
  PROVE  /\ First(left[t]) \in left[t]
         /\ First(left[t]) \in Node
         /\ \A m \in left[t] : First(left[t]) <= m
<1>1. left[t] \in SUBSET Node
  BY DEF TypeOK
<1>2. left[t] \in SUBSET Nat
  BY <1>1, NodesAreNaturals
<1>3. QED
  BY <1>1, <1>2, FirstIsLeast

\* The locks are over the four flags, and signal values above zero.
LEMMA LockTyped ==
  ASSUME TypeOK, NEW group, NEW slot \in {1, 2}
  PROVE  Lock(group, slot) \in LockType
<1>1. NextSet(group) \in {0, 1}
  BY DEF TypeOK, NextSet
<1>2. \A set \in {0, 1}, s \in {1, 2} : FlagOf(set, s) \in Flag
  BY DEF FlagOf, Flag
<1>3. \A f \in Flag : Current(f) \in Constraint /\ <<f, flag[f] + 1>> \in Constraint
  BY DEF TypeOK, Current, Constraint
<1>4. Constraints \in SUBSET Constraint
  BY <1>2, <1>3 DEF TypeOK, Constraints
<1>5. QED
  BY <1>1, <1>2, <1>3, <1>4 DEF Lock, LockType

\* A lock is a constraint to signal and a set of constraints to check.
LEMMA LockOfTyped ==
  ASSUME TypeOK, NEW n, NEW main
  PROVE  LockOf(n, main) \in LockType
BY LockTyped DEF LockOf

-----------------------------------------------------------------------------
(* Types.                                                                  *)

\* The types hold at first.
LEMMA TypeInit == GenInit => TypeOK
<1> SUFFICES ASSUME GenInit
             PROVE  TypeOK
  OBVIOUS
<1>1. nodes \in Seq(Tid) /\ Len(nodes) <= MaxNodes
  BY NodesAssumption DEF GenInit
<1>2. order \in Seq(Node)
  BY DEF GenInit
<1>3. QED
  BY <1>1, <1>2 DEF GenInit, TypeOK, Flag

\* Every step of the generator keeps the types.
LEMMA TypeNext == TypeOK /\ [GenNext \/ GenDone]_genVars => TypeOK'
<1> SUFFICES ASSUME TypeOK, [GenNext \/ GenDone]_genVars
             PROVE  TypeOK'
  OBVIOUS
<1>1. ASSUME NEW t \in Tid, RegisterUpdate(t)
      PROVE  TypeOK'
  <2>1. nodes' \in Seq(Tid) /\ Len(nodes') <= MaxNodes
    BY <1>1, NodesAssumption DEF TypeOK, RegisterUpdate
  <2>2. QED
    BY <1>1, <2>1 DEF TypeOK, RegisterUpdate, planVars
<1>2. CASE SplitByThread
  <2>1. \A t \in Tid : sbGraph(t) \in SUBSET Node
    BY NodesAssumption DEF TypeOK, sbGraph, Node
  <2>2. QED
    BY <1>2, <2>1 DEF TypeOK, SplitByThread, planVars
<1>3. ASSUME NEW t \in Tid, PickNode(t)
      PROVE  TypeOK'
  <2>1. First(left[t]) \in Node
    BY <1>3, FirstOfLeft DEF PickNode, Eligible
  <2>2. order' \in Seq(Node)
    BY <1>3, <2>1 DEF TypeOK, PickNode
  <2>3. left' \in [Tid -> SUBSET Node] /\ lastTids' \in SUBSET Tid
    BY <1>3 DEF TypeOK, PickNode
  <2>4. QED
    BY <1>3, <2>2, <2>3 DEF TypeOK, PickNode, planVars
<1>4. ASSUME NEW t \in Tid, NEW u \in Tid, PickPair(t, u)
      PROVE  TypeOK'
  <2>1. First(left[t]) \in Node /\ First(left[u]) \in Node
    BY <1>4, FirstOfLeft DEF PickPair, Eligible
  <2>2. order' \in Seq(Node)
    BY <1>4, <2>1 DEF TypeOK, PickPair
  <2>3. left' \in [Tid -> SUBSET Node] /\ lastTids' \in SUBSET Tid
    BY <1>4 DEF TypeOK, PickPair
  <2>4. async' \in [Node -> SUBSET Node]
    BY <1>4, <2>1 DEF TypeOK, PickPair
  <2>5. QED
    BY <1>4, <2>2, <2>3, <2>4 DEF TypeOK, PickPair, planVars
<1>5. CASE StopPicking
  BY <1>5 DEF TypeOK, StopPicking, ordVars, planVars
<1>6. CASE PlanStep
  <2> DEFINE main  == order[planned + 1]
             group == GetAsynchronousNodes(main)
  <2>1. PICK mine \in SUBSET Fields :
             /\ wait' = MakeWaits(main, group)
             /\ updates' = MakeUpdates(main, group, mine)
             /\ unlocks' = PushUnlocks(main, group)
             /\ endChecks' = PushEndChecks(main, group)
             /\ flag' = CountSignals(main, group)
             /\ flagSet' = NextSet(group)
             /\ previous' = group
             /\ planned' = planned + 1
             /\ UNCHANGED <<phase, ordVars>>
    BY <1>6 DEF PlanStep
  <2>2. main \in Node /\ group \in SUBSET Node
    BY <1>6 DEF PlanStep, TypeOK, GetAsynchronousNodes
  <2>3. \A n : LockOf(n, main) \in LockType
    BY LockOfTyped
  <2> HIDE DEF main, group
  <2>4. DOMAIN wait' \subseteq Node
    BY <2>1, <2>2 DEF TypeOK, MakeWaits
  <2>5. \A n \in DOMAIN wait' : /\ wait'[n].lock \in LockType
                                /\ wait'[n].unlocks \in Seq(LockType)
    BY <2>1, <2>2, <2>3 DEF TypeOK, MakeWaits
  <2>6. unlocks' \in [Node -> Seq(LockType)]
    BY <2>1, <2>3 DEF TypeOK, PushUnlocks
  <2>7. endChecks' \in [Tid -> Seq(LockType)]
    BY <2>1, <2>3 DEF TypeOK, PushEndChecks
  <2>8. updates' \in [Node -> SUBSET Fields]
    BY <2>1 DEF TypeOK, MakeUpdates
  <2>9. flag' \in [Flag -> Nat] /\ flagSet' \in {0, 1} /\ previous' \in SUBSET Node
    BY <2>1, <2>2 DEF TypeOK, CountSignals, NextSet
  <2>10. planned' \in Nat
    BY <2>1 DEF TypeOK
  <2>11. QED
    BY <2>1, <2>4, <2>5, <2>6, <2>7, <2>8, <2>9, <2>10 DEF TypeOK, ordVars
<1>7. CASE EndPlanning
  BY <1>7 DEF TypeOK, EndPlanning, ordVars, planVars
<1>8. CASE UNCHANGED genVars
  BY <1>8 DEF TypeOK, genVars, ordVars, planVars
<1>9. QED
  BY <1>1, <1>2, <1>3, <1>4, <1>5, <1>6, <1>7, <1>8 DEF GenNext, GenDone

\* The generator never leaves its types.
THEOREM TypeCorrect == GenSpec => []TypeOK
BY TypeInit, TypeNext, PTL DEF GenSpec


-----------------------------------------------------------------------------
(* The order follows sequenced-before.                                     *)

\* The inductive strengthening: at every step of picking, what is left of a
\* thread's list is
\* its end, and the nodes taken from its front are the ones in the order.
PickingInv ==
  /\ phase = "register" => order = <<>> /\ \A t \in Tid : left[t] = {}
  /\ \A n \in Node : async[n] # {} => \E k \in DOMAIN order : order[k] = n
  /\ \A t \in Tid : \A n \in left[t] :
       /\ n \in sbGraph(t)
       /\ \A m \in sbGraph(t) : m > n => m \in left[t]
  /\ phase # "register" =>
       \A n \in DOMAIN nodes :
         n \in left[nodes[n]] \/ \E k \in DOMAIN order : n \in Step(k)
  /\ \A k \in DOMAIN order : \A n \in Step(k) :
       n \in DOMAIN nodes /\ n \notin left[nodes[n]]

OrderInv == PickingInv /\ FollowsSequencedBefore

\* The empty order follows everything.
LEMMA OrderInit == GenInit => OrderInv
<1> SUFFICES ASSUME GenInit
             PROVE  OrderInv
  OBVIOUS
<1>1. DOMAIN order = {} /\ DOMAIN nodes = {}
  BY DEF GenInit
<1>2. FollowsSequencedBefore
  BY <1>1 DEF FollowsSequencedBefore
<1>3. PickingInv
  BY <1>1 DEF GenInit, PickingInv, sbGraph
<1>4. QED
  BY <1>2, <1>3 DEF OrderInv

\* Planning leaves the order alone.
LEMMA OrderUnchanged ==
  ASSUME OrderInv, UNCHANGED ordVars, phase # "register", phase' # "register"
  PROVE  OrderInv'
BY DEF OrderInv, PickingInv, FollowsSequencedBefore, ordVars, Step, sbGraph,
       SbLater, GetAsynchronousNodes

\* One more step at the end of the order: the first node left of one thread,
\* or of two.  T is the set of these threads.
LEMMA OrderGrows ==
  ASSUME TypeOK, OrderInv, phase = "order", phase' = "order", nodes' = nodes,
         NEW T \in SUBSET Tid, NEW main \in Node,
         \A t \in T : left[t] # {},
         \E t \in T : main = First(left[t]),
         order' = Append(order, main),
         left' = [t \in Tid |-> IF t \in T THEN left[t] \ {First(left[t])} ELSE left[t]],
         \A n \in Node : n # main => async'[n] = async[n],
         async'[main] \union {main} = {First(left[t]) : t \in T}
  PROVE  OrderInv'
<1>0. PICK new \in Nat : new = Len(order) + 1
  BY DEF TypeOK
<1>1. \A t \in T : /\ First(left[t]) \in left[t]
                   /\ First(left[t]) \in Node
                   /\ \A m \in left[t] : First(left[t]) <= m
  BY FirstOfLeft
<1>2. \A t \in T : First(left[t]) \in DOMAIN nodes /\ nodes[First(left[t])] = t
  BY <1>1 DEF OrderInv, PickingInv, sbGraph
<1>3. DOMAIN order = 1 .. Len(order) /\ DOMAIN order' = 1 .. new
  BY <1>0 DEF TypeOK
<1>4. \A k \in DOMAIN order : order'[k] = order[k] /\ order[k] \in Node
  BY DEF TypeOK
<1>5. order'[new] = main
  BY <1>0 DEF TypeOK
<1>6. \A k \in DOMAIN order : order[k] # main
  BY <1>1, <1>2 DEF OrderInv, PickingInv, Step, GetAsynchronousNodes
<1>7. \A k \in DOMAIN order : Step(k)' = Step(k)
  BY <1>4, <1>6 DEF Step, GetAsynchronousNodes
<1>8. Step(new)' = {First(left[t]) : t \in T}
  BY <1>5 DEF Step, GetAsynchronousNodes
<1>9. \A t \in Tid : left[t] \in SUBSET Node
  BY DEF TypeOK
<1>10. DOMAIN nodes \in SUBSET Nat
  BY DEF TypeOK
<1>11. \A n \in DOMAIN nodes : nodes[n] \in Tid
  BY DEF TypeOK
<1>3a. DOMAIN order' = DOMAIN order \union {new} /\ new \notin DOMAIN order
  BY <1>0, <1>3 DEF TypeOK
<1>12. PickingInv'
  <2>1. \A n \in Node : async'[n] # {} => \E k \in DOMAIN order' : order'[k] = n
    BY <1>3a, <1>4, <1>5 DEF OrderInv, PickingInv
  <2>2. \A t \in Tid : \A n \in left'[t] :
          /\ n \in sbGraph(t)
          /\ \A m \in sbGraph(t) : m > n => m \in left'[t]
    <3> SUFFICES ASSUME NEW t \in Tid, NEW n \in left'[t]
                 PROVE  /\ n \in sbGraph(t)
                        /\ \A m \in sbGraph(t) : m > n => m \in left'[t]
      OBVIOUS
    <3>1. n \in left[t] /\ n \in Nat
      BY <1>9, NodesAreNaturals
    <3>2. t \in T => First(left[t]) <= n /\ First(left[t]) \in Nat
      BY <1>1, <3>1, NodesAreNaturals
    <3>3. \A m \in sbGraph(t) : m \in Nat
      BY <1>10 DEF sbGraph
    <3>4. QED
      BY <3>1, <3>2, <3>3 DEF OrderInv, PickingInv
  <2>3. \A n \in DOMAIN nodes :
          n \in left'[nodes[n]] \/ \E k \in DOMAIN order' : n \in Step(k)'
    <3> SUFFICES ASSUME NEW n \in DOMAIN nodes, n \notin left'[nodes[n]]
                 PROVE  \E k \in DOMAIN order' : n \in Step(k)'
      OBVIOUS
    <3>1. CASE n \in left[nodes[n]]
      <4>1. nodes[n] \in T /\ n = First(left[nodes[n]])
        BY <3>1, <1>11
      <4>2. new \in DOMAIN order'
        BY <1>3a
      <4>3. QED
        BY <4>1, <4>2, <1>8
    <3>2. CASE n \notin left[nodes[n]]
      BY <3>2, <1>3a, <1>7 DEF OrderInv, PickingInv
    <3>3. QED
      BY <3>1, <3>2
  <2>4. \A k \in DOMAIN order' : \A n \in Step(k)' :
          n \in DOMAIN nodes /\ n \notin left'[nodes[n]]
    <3> SUFFICES ASSUME NEW k \in DOMAIN order', NEW n \in Step(k)'
                 PROVE  n \in DOMAIN nodes /\ n \notin left'[nodes[n]]
      OBVIOUS
    <3>1. CASE k = new
      BY <3>1, <1>2, <1>8
    <3>2. CASE k \in DOMAIN order
      <4>1. n \in Step(k)
        BY <3>2, <1>7
      <4>2. n \in DOMAIN nodes /\ n \notin left[nodes[n]]
        BY <3>2, <4>1 DEF OrderInv, PickingInv
      <4>3. \A t \in Tid : left'[t] \subseteq left[t]
        OBVIOUS
      <4>4. QED
        BY <4>2, <4>3, <1>11
    <3>3. QED
      BY <3>1, <3>2, <1>3a
  <2>5. QED
    <3>1. (\A t \in Tid : \A n \in left[t] :
             /\ n \in sbGraph(t)
             /\ \A m \in sbGraph(t) : m > n => m \in left[t])'
      BY <2>2 DEF sbGraph
    <3>2. (\A n \in DOMAIN nodes :
             n \in left[nodes[n]] \/ \E k \in DOMAIN order : n \in Step(k))'
      BY <2>3
    <3>3. (\A k \in DOMAIN order : \A n \in Step(k) :
             n \in DOMAIN nodes /\ n \notin left[nodes[n]])'
      BY <2>4
    <3>4. QED
      BY <2>1, <3>1, <3>2, <3>3 DEF PickingInv
<1>13. FollowsSequencedBefore'
  <2> SUFFICES ASSUME NEW k \in DOMAIN order', NEW n \in Step(k)'
               PROVE  /\ \A m \in DOMAIN nodes :
                           SbLater(n, m) => \E j \in 1 .. k - 1 : m \in Step(j)'
                      /\ \A j \in DOMAIN order' : \A m \in Step(j)' :
                           (nodes[m] = nodes[n] /\ j >= k)
                             => (j = k /\ m = n) \/ SbLater(m, n)
    BY DEF FollowsSequencedBefore, SbLater
  <2>1. CASE k = new
    <3>1. PICK t \in T : n = First(left[t])
      BY <2>1, <1>8
    <3>2. nodes[n] = t /\ n \in DOMAIN nodes
      BY <3>1, <1>2
    <3>3. ASSUME NEW m \in DOMAIN nodes, SbLater(n, m)
          PROVE  \E j \in 1 .. k - 1 : m \in Step(j)'
      <4>1. nodes[m] = t /\ n > m
        BY <3>2, <3>3 DEF SbLater
      <4>2. m \notin left[t]
        <5>1. m \in Nat /\ n \in Nat /\ ~ (n <= m)
          BY <4>1, <1>10, <3>2
        <5>2. QED
          BY <5>1, <3>1, <1>1
      <4>3. PICK j \in DOMAIN order : m \in Step(j)
        BY <4>1, <4>2 DEF OrderInv, PickingInv
      <4>4. j \in 1 .. k - 1
        BY <1>0, <1>3, <2>1 DEF TypeOK
      <4>5. QED
        BY <4>3, <4>4, <1>7
    <3>4. ASSUME NEW j \in DOMAIN order', NEW m \in Step(j)',
                 nodes[m] = nodes[n], j >= k
          PROVE  j = k /\ m = n
      <4>1. j = new
        BY <3>4, <2>1, <1>0, <1>3 DEF TypeOK
      <4>2. PICK u \in T : m = First(left[u])
        BY <4>1, <1>8
      <4>3. QED
        BY <4>1, <4>2, <2>1, <3>1, <3>2, <3>4, <1>2
    <3>5. QED
      BY <3>3, <3>4
  <2>2. CASE k \in DOMAIN order
    <3>1. n \in Step(k) /\ n \in DOMAIN nodes /\ n \notin left[nodes[n]]
      BY <2>2, <1>7 DEF OrderInv, PickingInv
    <3>2. ASSUME NEW m \in DOMAIN nodes, SbLater(n, m)
          PROVE  \E j \in 1 .. k - 1 : m \in Step(j)'
      <4>1. PICK j \in 1 .. k - 1 : m \in Step(j)
        BY <3>1, <3>2, <2>2 DEF OrderInv, FollowsSequencedBefore
      <4>2. j \in DOMAIN order
        BY <1>3, <2>2 DEF TypeOK
      <4>3. QED
        BY <4>1, <4>2, <1>7
    <3>3. ASSUME NEW j \in DOMAIN order', NEW m \in Step(j)',
                 nodes[m] = nodes[n], j >= k
          PROVE  (j = k /\ m = n) \/ SbLater(m, n)
      <4>1. CASE j \in DOMAIN order
        BY <4>1, <3>1, <3>3, <2>2, <1>7 DEF OrderInv, FollowsSequencedBefore
      <4>2. CASE j = new
        <5>1. PICK t \in T : m = First(left[t])
          BY <4>2, <1>8
        <5>2. m \in DOMAIN nodes /\ nodes[m] = t /\ m \in left[t] /\ nodes[n] = t
          BY <5>1, <1>1, <1>2, <3>3
        <5>3. m # n /\ ~ (n > m)
          BY <5>2, <3>1 DEF OrderInv, PickingInv, sbGraph
        <5>4. QED
          BY <5>2, <5>3, <3>1, <1>10 DEF SbLater
      <4>3. QED
        BY <4>1, <4>2, <3>3, <1>3a
    <3>4. QED
      BY <3>2, <3>3
  <2>3. QED
    BY <2>1, <2>2, <1>3a
<1>14. QED
  BY <1>12, <1>13 DEF OrderInv

\* Every step of the generator keeps the order one that the threads can follow.
LEMMA OrderNext == TypeOK /\ OrderInv /\ [GenNext \/ GenDone]_genVars => OrderInv'
<1> SUFFICES ASSUME TypeOK, OrderInv, [GenNext \/ GenDone]_genVars
             PROVE  OrderInv'
  OBVIOUS
<1>1. ASSUME NEW t \in Tid, RegisterUpdate(t)
      PROVE  OrderInv'
  <2>1. DOMAIN order = {} /\ order' = order /\ left' = left /\ async' = async
        /\ phase' = "register"
    BY <1>1 DEF RegisterUpdate, OrderInv, PickingInv
  <2>2. \A s \in Tid : left[s] = {}
    BY <1>1 DEF RegisterUpdate, OrderInv, PickingInv
  <2>3. QED
    BY <2>1, <2>2 DEF OrderInv, PickingInv, FollowsSequencedBefore
<1>2. CASE SplitByThread
  <2>1. DOMAIN order = {} /\ order' = order /\ async' = async /\ nodes' = nodes
        /\ phase' = "order"
    BY <1>2 DEF SplitByThread, OrderInv, PickingInv
  <2>2. left' = [t \in Tid |-> sbGraph(t)]
    BY <1>2 DEF SplitByThread
  <2>3. \A n \in DOMAIN nodes : nodes[n] \in Tid
    BY DEF TypeOK
  <2>4. QED
    BY <2>1, <2>2, <2>3 DEF OrderInv, PickingInv, FollowsSequencedBefore, sbGraph
<1>3. ASSUME NEW t \in Tid, PickNode(t)
      PROVE  OrderInv'
  <2> DEFINE main == First(left[t])
  <2>1. left[t] # {} /\ main \in Node
    BY <1>3, FirstOfLeft DEF PickNode, Eligible
  <2>2. main \in left[t]
    BY <2>1, FirstOfLeft
  <2>3. async[main] = {}
    BY <2>1, <2>2 DEF OrderInv, PickingInv, Step, GetAsynchronousNodes, sbGraph
  <2>4. left' = [s \in Tid |-> IF s \in {t} THEN left[s] \ {First(left[s])} ELSE left[s]]
    BY <1>3 DEF PickNode, TypeOK
  <2>5. async'[main] \union {main} = {First(left[s]) : s \in {t}}
    BY <1>3, <2>3 DEF PickNode
  <2>6. /\ phase = "order" /\ phase' = "order" /\ nodes' = nodes
        /\ order' = Append(order, main) /\ async' = async
    BY <1>3 DEF PickNode
  <2> HIDE DEF main
  <2>7. \E s \in {t} : main = First(left[s])
    BY DEF main
  <2>8. QED
    BY <2>1, <2>4, <2>5, <2>6, <2>7, OrderGrows
<1>4. ASSUME NEW t \in Tid, NEW u \in Tid, PickPair(t, u)
      PROVE  OrderInv'
  <2> DEFINE main == First(left[t])
  <2>1. left[t] # {} /\ left[u] # {} /\ main \in Node
    BY <1>4, FirstOfLeft DEF PickPair, Eligible
  <2>2. main \in left[t]
    BY <2>1, FirstOfLeft
  <2>3. async[main] = {}
    BY <2>1, <2>2 DEF OrderInv, PickingInv, Step, GetAsynchronousNodes, sbGraph
  <2>4. left' = [s \in Tid |-> IF s \in {t, u} THEN left[s] \ {First(left[s])} ELSE left[s]]
    BY <1>4 DEF PickPair, TypeOK
  <2>5. async'[main] = {First(left[u])}
    BY <1>4, <2>1, <2>3 DEF PickPair, TypeOK
  <2>6. \A n \in Node : n # main => async'[n] = async[n]
    BY <1>4 DEF PickPair, TypeOK
  <2>7. /\ phase = "order" /\ phase' = "order" /\ nodes' = nodes
        /\ order' = Append(order, main)
    BY <1>4 DEF PickPair
  <2>8. async'[main] \union {main} = {First(left[s]) : s \in {t, u}}
    BY <2>5
  <2> HIDE DEF main
  <2>9. \E s \in {t, u} : main = First(left[s])
    BY DEF main
  <2>10. QED
    BY <2>1, <2>4, <2>6, <2>7, <2>8, <2>9, OrderGrows
<1>5. CASE StopPicking
  BY <1>5, OrderUnchanged DEF StopPicking
<1>6. CASE PlanStep
  BY <1>6, OrderUnchanged DEF PlanStep
<1>7. CASE EndPlanning
  BY <1>7, OrderUnchanged DEF EndPlanning
<1>8. CASE UNCHANGED genVars
  BY <1>8 DEF OrderInv, PickingInv, FollowsSequencedBefore, genVars, ordVars, Step,
              sbGraph, SbLater, GetAsynchronousNodes
<1>9. QED
  BY <1>1, <1>2, <1>3, <1>4, <1>5, <1>6, <1>7, <1>8 DEF GenNext, GenDone

\* The order drawn follows sequenced-before: a thread that runs its nodes in
\* the order they were registered in never meets one that it can only run
\* after a later one of its own.
THEOREM OrderFollowsSequencedBefore == GenSpec => []FollowsSequencedBefore
<1>1. GenInit => TypeOK /\ OrderInv
  BY TypeInit, OrderInit
<1>2. TypeOK /\ OrderInv /\ [GenNext \/ GenDone]_genVars => (TypeOK /\ OrderInv)'
  BY TypeNext, OrderNext
<1>3. OrderInv => FollowsSequencedBefore
  BY DEF OrderInv
<1>4. QED
  BY <1>1, <1>2, <1>3, PTL DEF GenSpec

-----------------------------------------------------------------------------
(* The constraints CreateOrdering makes of the order: which nodes they let *)
(* through at each point of the run, and who is given the means to open a  *)
(* node in place of a thread that skips it.  The inductive invariant.      *)

\* The constraint a node signals, and those its lock checks.
Sig(n) == wait[n].lock.signal
Checks(n) == wait[n].lock.checks

\* v is the value of flag f when exactly the first k steps have signalled.
IsLevel(f, v, k) ==
  /\ \A m \in Settled(k) : Sig(m)[1] = f => Sig(m)[2] <= v
  /\ v = 0 \/ \E m \in Settled(k) : Sig(m) = <<f, v>>

\* A node is given at most one partner, another than itself.
Partners ==
  \A n \in Node : async[n] = {} \/ \E p \in Node : p # n /\ async[n] = {p}

\* Planning has gone through the first steps of the order, and the flags are
\* where these steps leave them; the last signals are those of the flags in use.
PlanningInv ==
  /\ phase \in {"register", "order"} => planned = 0
  /\ phase = "run" => planned = Len(order)
  /\ planned = 0 => flagSet = 0
  /\ planned <= Len(order)
  /\ DOMAIN wait = Settled(planned)
  /\ previous = IF planned = 0 THEN {} ELSE Step(planned)
  /\ \A f \in Flag : IsLevel(f, flag[f], planned)
  /\ planned > 0 =>
       \A n \in Step(planned) :
         Sig(n) = Current(FlagOf(flagSet, IF n = order[planned] THEN 1 ELSE 2))

\* The values signalled through a flag grow from step to step.
SignalsGrow ==
  \A k \in 1 .. planned : \A n \in Step(k) :
    /\ Sig(n)[2] > 0
    /\ \A j \in 1 .. k : \A m \in Step(j) :
         m # n /\ Sig(m)[1] = Sig(n)[1] => j < k /\ Sig(m)[2] < Sig(n)[2]

\* What a node of step k waits for is that the steps before have signalled: its
\* checks are levels of step k - 1, among them all the signals of that step and
\* the level of the flag it will signal, and none of a flag of its partner.
ChecksFit ==
  \A k \in 1 .. planned : \A n \in Step(k) :
    /\ <<Sig(n)[1], Sig(n)[2] - 1>> \in Checks(n)
    /\ k > 1 => \A m \in Step(k - 1) : Sig(m) \in Checks(n)
    /\ \A c \in Checks(n) :
         /\ IsLevel(c[1], c[2], k - 1)
         /\ \A m \in Step(k) : m # n => Sig(m)[1] # c[1]

ConstraintInv == Partners /\ PlanningInv /\ SignalsGrow /\ ChecksFit

\* What a node is unlocked by, before and after its own wait is made.
UnlocksOf(m) == IF m \in DOMAIN wait THEN wait[m].unlocks ELSE unlocks[m]
Holds(locks, lock) == \E i \in DOMAIN locks : locks[i] = lock

\* The later nodes of a thread hold the locks of the earlier ones that have
\* been planned, its end checks those of all, and neither holds another.
UnlockInv ==
  /\ planned = 0 => /\ \A m \in Node : unlocks[m] = <<>>
                    /\ \A t \in Tid : endChecks[t] = <<>>
  /\ \A n \in DOMAIN wait : /\ \A m \in Node : SbLater(m, n) => Holds(UnlocksOf(m), wait[n].lock)
                            /\ Holds(endChecks[nodes[n]], wait[n].lock)
  /\ \A m \in Node : \A i \in DOMAIN UnlocksOf(m) :
       \E n \in DOMAIN wait : SbLater(m, n) /\ UnlocksOf(m)[i] = wait[n].lock
  /\ \A t \in Tid : \A i \in DOMAIN endChecks[t] :
       \E n \in DOMAIN wait : nodes[n] = t /\ endChecks[t][i] = wait[n].lock

\* The last step's threads are the ones the next may not come from.
DropInv ==
  /\ phase = "register" => lastTids = {} /\ order = <<>>
  /\ phase # "register" => nodes # <<>>
  /\ phase = "order" =>
       \A t \in Tid : t \in lastTids <=> order # <<>> /\ \E m \in Step(Len(order)) : nodes[m] = t
  /\ phase \in {"plan", "run"} => OnlyLastThreadsDropped

UpdatesInv ==
  \A k \in 1 .. planned : \A m, n \in Step(k) : m # n => updates[m] \intersect updates[n] = {}

-----------------------------------------------------------------------------
(* Facts about steps.                                                      *)

\* The nodes of a step are registered nodes of threads of the group.
LEMMA NodesOfSteps ==
  ASSUME TypeOK, OrderInv, NEW k \in DOMAIN order, NEW n \in Step(k)
  PROVE  n \in DOMAIN nodes /\ n \in Node /\ n \in Nat /\ nodes[n] \in Tid
<1>1. n \in DOMAIN nodes
  BY DEF OrderInv, PickingInv
<1>2. order[k] \in Node
  BY DEF TypeOK
<1>3. n \in Node
  BY <1>2 DEF TypeOK, Step, GetAsynchronousNodes
<1>4. QED
  BY <1>1, <1>3, NodesAreNaturals DEF TypeOK

\* No node is in two steps, and no step has two nodes of one thread.
LEMMA StepsDisjoint ==
  ASSUME TypeOK, OrderInv, NEW j \in DOMAIN order, NEW k \in DOMAIN order,
         NEW n \in Step(j), n \in Step(k)
  PROVE  j = k
<1>1. n \in Nat /\ j \in Nat /\ k \in Nat
  BY NodesOfSteps DEF TypeOK
<1>2. ~ SbLater(n, n)
  BY <1>1 DEF SbLater
<1>3. j >= k => j = k
  BY <1>2 DEF OrderInv, FollowsSequencedBefore
<1>4. k >= j => j = k
  BY <1>2 DEF OrderInv, FollowsSequencedBefore
<1>5. QED
  BY <1>1, <1>3, <1>4

\* A step has one node of a thread at most: a pair is of two threads.
LEMMA OneNodePerThread ==
  ASSUME TypeOK, OrderInv, NEW k \in DOMAIN order,
         NEW m \in Step(k), NEW n \in Step(k), nodes[m] = nodes[n]
  PROVE  m = n
<1>1. m \in Nat /\ n \in Nat /\ k \in Nat
  BY NodesOfSteps DEF TypeOK
<1>2. k >= k
  BY <1>1
<1>3. m = n \/ SbLater(m, n)
  BY <1>2 DEF OrderInv, FollowsSequencedBefore
<1>4. m = n \/ SbLater(n, m)
  BY <1>2 DEF OrderInv, FollowsSequencedBefore
<1>5. QED
  BY <1>1, <1>3, <1>4 DEF SbLater

\* A step is a node alone, or a node and its partner.
LEMMA StepShape ==
  ASSUME TypeOK, Partners, NEW k \in DOMAIN order
  PROVE  \/ Step(k) = {order[k]} /\ Cardinality(Step(k)) = 1
         \/ \E p \in Node : /\ p # order[k] /\ async[order[k]] = {p}
                            /\ Step(k) = {order[k], p} /\ Cardinality(Step(k)) = 2
<1>1. order[k] \in Node
  BY DEF TypeOK
<1>2. CASE async[order[k]] = {}
  <2>1. Step(k) = {order[k]}
    BY <1>2 DEF Step, GetAsynchronousNodes
  <2>2. QED
    BY <2>1, FS_Singleton
<1>3. ASSUME NEW p \in Node, p # order[k], async[order[k]] = {p}
      PROVE  Step(k) = {order[k], p} /\ Cardinality(Step(k)) = 2
  <2>1. Step(k) = {order[k]} \cup {p}
    BY <1>3 DEF Step, GetAsynchronousNodes
  <2>2. IsFiniteSet({order[k]}) /\ Cardinality({order[k]}) = 1 /\ p \notin {order[k]}
    BY <1>3, FS_Singleton
  <2>3. Cardinality({order[k]} \cup {p}) = 2
    BY <2>2, FS_AddElement
  <2>4. QED
    BY <2>1, <2>3
<1>4. QED
  BY <1>1, <1>2, <1>3 DEF Partners

\* Steps are numbered from 1, those of the plan among them.
LEMMA PlannedSteps ==
  ASSUME TypeOK, planned <= Len(order)
  PROVE  /\ DOMAIN order = 1 .. Len(order)
         /\ planned \in Nat /\ Len(order) \in Nat
         /\ 1 .. planned \subseteq DOMAIN order
BY DEF TypeOK

-----------------------------------------------------------------------------
(* The lock of one node of the step planned next.                          *)

\* Every check of it is the present value of a flag.  The signals of the step
\* before and the flag to be signalled are among them, the flag of the other
\* node of the step is not.
LEMMA LockFacts ==
  ASSUME TypeOK, OrderInv, ConstraintInv, planned < Len(order),
         NEW n \in Step(planned + 1)
  PROVE  LET main == order[planned + 1]
             lock == LockOf(n, main)
         IN  /\ lock.signal[1] \in Flag
             /\ lock.signal = <<lock.signal[1], flag[lock.signal[1]] + 1>>
             /\ \A c \in lock.checks : c[1] \in Flag /\ c = Current(c[1])
             /\ Current(lock.signal[1]) \in lock.checks
             /\ planned > 0 => \A m \in Step(planned) : Sig(m) \in lock.checks
             /\ \A m \in Step(planned + 1) : m # n =>
                  /\ LockOf(m, main).signal[1] # lock.signal[1]
                  /\ \A c \in lock.checks : LockOf(m, main).signal[1] # c[1]
             /\ lock.signal = <<FlagOf(NextSet(Step(planned + 1)), IF n = main THEN 1 ELSE 2),
                                flag[lock.signal[1]] + 1>>
<1> DEFINE main == order[planned + 1]
           group == Step(planned + 1)
           slot(m) == IF m = main THEN 1 ELSE 2
           f(m) == FlagOf(NextSet(group), slot(m))
<1>1. planned + 1 \in DOMAIN order /\ group = GetAsynchronousNodes(main)
  BY DEF TypeOK, Step
<1>2. flagSet \in {0, 1} /\ flag \in [Flag -> Nat] /\ planned \in Nat
  BY DEF TypeOK
<1>3. \A set \in {0, 1}, s \in {1, 2} : FlagOf(set, s) \in Flag /\ FlagOf(set, s) \in Nat
  BY DEF FlagOf, Flag
<1>4. NextSet(group) \in {0, 1}
  BY <1>2 DEF NextSet
<1>5. \A m : LockOf(m, main) =
               [checks |-> Constraints \union (IF Flips(group) THEN {Current(f(m))} ELSE {}),
                signal |-> <<f(m), flag[f(m)] + 1>>]
  BY <1>1 DEF LockOf, Lock
<1>6. \A m : f(m) \in Flag
  BY <1>3, <1>4
<1> HIDE DEF main, group, f
<1>7. /\ \A m : LockOf(m, main).signal = <<f(m), flag[f(m)] + 1>>
      /\ LockOf(n, main).checks = Constraints \union (IF Flips(group) THEN {Current(f(n))} ELSE {})
  BY <1>5
<1>8. \A g : Current(g)[1] = g /\ Current(g) = Current(Current(g)[1])
  BY DEF Current
<1>9. \A c \in Constraints : c[1] \in {FlagOf(flagSet, 1), FlagOf(flagSet, 2)} /\ c = Current(c[1])
  BY <1>8, Zenon DEF Constraints
<1>10. \A c \in LockOf(n, main).checks :
         /\ c[1] \in {FlagOf(flagSet, 1), FlagOf(flagSet, 2)} \/ (Flips(group) /\ c[1] = f(n))
         /\ c = Current(c[1])
  <2> SUFFICES ASSUME NEW c \in LockOf(n, main).checks
               PROVE  /\ c[1] \in {FlagOf(flagSet, 1), FlagOf(flagSet, 2)} \/ (Flips(group) /\ c[1] = f(n))
                      /\ c = Current(c[1])
    OBVIOUS
  <2>1. c \in Constraints \/ (Flips(group) /\ c = Current(f(n)))
    BY <1>7, Zenon
  <2>2. QED
    BY <2>1, <1>8, <1>9, Zenon
<1>11. \A c \in LockOf(n, main).checks : c[1] \in Flag
  BY <1>2, <1>3, <1>6, <1>10
<1>12. Current(f(n)) \in LockOf(n, main).checks
  <2>1. CASE Flips(group)
    BY <2>1, <1>7, Zenon
  <2>2. CASE ~ Flips(group)
    <3>1. flagSet = 0 /\ NextSet(group) = 0 /\ Cardinality(group) # 2
      BY <2>2, <1>2 DEF Flips, NextSet
    <3>2. group = {main}
      BY <3>1, <1>1, StepShape DEF ConstraintInv, main, group
    <3>3. f(n) = FlagOf(flagSet, 1)
      BY <3>1, <3>2 DEF f, group
    <3>4. QED
      BY <3>3, <1>7, Zenon DEF Constraints
  <2>3. QED
    BY <2>1, <2>2
<1>13. ASSUME planned > 0, NEW m \in Step(planned)
       PROVE  Sig(m) \in LockOf(n, main).checks
  <2>1. planned \in DOMAIN order /\ previous = Step(planned)
    <3>1. planned # 0 /\ planned \in 1 .. Len(order)
      BY <1>2, <1>13 DEF TypeOK
    <3>2. QED
      BY <3>1 DEF TypeOK, ConstraintInv, PlanningInv
  <2>2. Sig(m) = Current(FlagOf(flagSet, IF m = order[planned] THEN 1 ELSE 2))
    BY <1>13 DEF ConstraintInv, PlanningInv
  <2>3. CASE m = order[planned]
    <3>1. Sig(m) \in Constraints
      BY <2>2, <2>3, Zenon DEF Constraints
    <3>2. QED
      BY <3>1, <1>7, Zenon
  <2>4. CASE m # order[planned]
    <3>1. Cardinality(previous) # 1
      BY <2>1, <2>4, StepShape, <1>13 DEF ConstraintInv
    <3>2. Sig(m) \in Constraints
      BY <2>2, <2>4, <3>1, Zenon DEF Constraints
    <3>3. QED
      BY <3>2, <1>7, Zenon
  <2>5. QED
    BY <2>3, <2>4
<1>14. ASSUME NEW m \in group, m # n
       PROVE  /\ f(m) # f(n)
              /\ \A c \in LockOf(n, main).checks : f(m) # c[1]
  <2>1. PICK p \in Node : p # main /\ group = {main, p} /\ Cardinality(group) = 2
    BY <1>1, <1>14, StepShape DEF ConstraintInv, main, group
  <2>2. NextSet(group) = 1 - flagSet
    BY <2>1 DEF NextSet, Flips
  <2>3. slot(m) # slot(n) /\ slot(m) \in {1, 2} /\ slot(n) \in {1, 2}
    BY <2>1, <1>14 DEF group
  <2>4. f(m) # f(n) /\ f(m) \notin {FlagOf(flagSet, 1), FlagOf(flagSet, 2)}
    BY <2>2, <2>3, <1>2 DEF FlagOf, f
  <2>5. QED
    BY <2>4, <1>10
<1>15. QED
  <2>1. \A m : LockOf(m, main).signal[1] = f(m)
    BY <1>7
  <2>2. LockOf(n, main).signal = <<f(n), flag[f(n)] + 1>>
    BY <1>7
  <2> HIDE DEF slot
  <2>3. f(n) = FlagOf(NextSet(group), slot(n))
    BY DEF f
  <2>4. QED
    BY <2>1, <2>2, <2>3, <1>6, <1>10, <1>11, <1>12, <1>13, <1>14, Zenon DEF main, group, slot

-----------------------------------------------------------------------------
(* Planning one more step keeps the constraints right.                     *)

\* What an iteration of the planning loop adds, and that it changes no lock
\* made before.
LEMMA PlanStepAdds ==
  ASSUME TypeOK, OrderInv, ConstraintInv, PlanStep
  PROVE  /\ planned < Len(order) /\ planned' = planned + 1 /\ planned \in Nat
         /\ planned + 1 \in DOMAIN order /\ phase = "plan"
         /\ \A j : Step(j)' = Step(j) /\ Settled(j)' = Settled(j)
         /\ \A n \in Step(planned + 1) : n \notin DOMAIN wait
         /\ DOMAIN wait' = DOMAIN wait \union Step(planned + 1)
         /\ \A n \in DOMAIN wait : wait'[n] = wait[n]
         /\ \A n \in Step(planned + 1) :
              wait'[n] = [lock |-> LockOf(n, order[planned + 1]), unlocks |-> unlocks[n]]
         /\ \A f \in Flag : flag'[f] = IF \E n \in Step(planned + 1) : Sig(n)'[1] = f
                                         THEN flag[f] + 1 ELSE flag[f]
         /\ flagSet' = NextSet(Step(planned + 1)) /\ previous' = Step(planned + 1)
<1> DEFINE main == order[planned + 1]
           group == Step(planned + 1)
<1>1. /\ planned < Len(order) /\ planned' = planned + 1 /\ planned \in Nat
      /\ phase = "plan" /\ phase' = phase /\ UNCHANGED ordVars
      /\ wait' = MakeWaits(main, group) /\ flag' = CountSignals(main, group)
      /\ flagSet' = NextSet(group) /\ previous' = group
  BY DEF PlanStep, TypeOK, Step
<1>2. planned + 1 \in DOMAIN order
  BY <1>1 DEF TypeOK
<1>3. \A j : Step(j)' = Step(j)
  BY <1>1 DEF Step, GetAsynchronousNodes, ordVars
<1>4. \A j : Settled(j)' = Settled(j)
  BY <1>3 DEF Settled
<1>5. ASSUME NEW n \in group, n \in DOMAIN wait
      PROVE  FALSE
  <2>1. PICK j \in 1 .. planned : n \in Step(j)
    BY <1>5 DEF ConstraintInv, PlanningInv, Settled
  <2>2. j \in DOMAIN order /\ j # planned + 1
    BY <1>1, PlannedSteps DEF ConstraintInv, PlanningInv
  <2>3. QED
    BY <2>1, <2>2, <1>2, <1>5, StepsDisjoint
<1> HIDE DEF main, group
<1>6. /\ DOMAIN wait' = DOMAIN wait \union group
      /\ \A n \in DOMAIN wait : wait'[n] = wait[n]
      /\ \A n \in group : wait'[n] = [lock |-> LockOf(n, main), unlocks |-> unlocks[n]]
  BY <1>1, <1>5 DEF MakeWaits
<1>7. \A n \in group : Sig(n)' = LockOf(n, main).signal
  BY <1>6 DEF Sig
<1>8. \A f \in Flag : flag'[f] = IF \E n \in group : Sig(n)'[1] = f THEN flag[f] + 1 ELSE flag[f]
  BY <1>1, <1>7 DEF CountSignals
<1>9. QED
  BY <1>1, <1>2, <1>3, <1>4, <1>5, <1>6, <1>8, Zenon DEF main, group

\* The levels of the steps planned before do not change.
LEMMA LevelsStay ==
  ASSUME TypeOK, OrderInv, ConstraintInv, PlanStep,
         NEW k \in 0 .. planned, NEW f, NEW v
  PROVE  IsLevel(f, v, k)' <=> IsLevel(f, v, k)
<1>1. Settled(k)' = Settled(k)
  BY PlanStepAdds
<1>2. \A m \in Settled(k) : m \in DOMAIN wait
  <2>1. \A j \in 1 .. k : j \in 1 .. planned
    BY PlanStepAdds
  <2>2. QED
    BY <2>1 DEF ConstraintInv, PlanningInv, Settled
<1>3. \A m \in Settled(k) : Sig(m)' = Sig(m)
  BY <1>2, PlanStepAdds DEF Sig
<1>4. QED
  BY <1>1, <1>3 DEF IsLevel

\* CreateOrdering plans a step: what it signals is above all earlier values of the
\* flag, and what it checks is the level the steps before it leave.
LEMMA PlanStepKeepsConstraints ==
  ASSUME TypeOK, OrderInv, ConstraintInv, PlanStep
  PROVE  ConstraintInv'
<1>0. PICK k : k = planned + 1
  OBVIOUS
<1> DEFINE main == order[k]
           group == Step(k)
<1>1. /\ planned < Len(order) /\ planned' = k /\ k \in Nat \ {0} /\ k \in DOMAIN order
      /\ phase = "plan" /\ phase' = "plan" /\ order' = order /\ async' = async
  BY <1>0, PlanStepAdds DEF PlanStep, ordVars
<1>2. \A j : Step(j)' = Step(j) /\ Settled(j)' = Settled(j)
  BY PlanStepAdds
<1>3. \A n \in DOMAIN wait : Sig(n)' = Sig(n) /\ Checks(n)' = Checks(n)
  BY PlanStepAdds DEF Sig, Checks
<1>4. \A n \in group : Sig(n)' = LockOf(n, main).signal /\ Checks(n)' = LockOf(n, main).checks
  BY <1>0, PlanStepAdds DEF Sig, Checks
<1>5. \A j \in 1 .. planned : \A n \in Step(j) : n \in DOMAIN wait
  BY DEF ConstraintInv, PlanningInv, Settled
<1>6. Settled(k) = Settled(planned) \union group
  <2>1. 1 .. k = 1 .. planned \union {k}
    BY <1>0, <1>1, PlanStepAdds
  <2>2. QED
    BY <2>1 DEF Settled
<1>7. \A j \in 1 .. k : j \in 1 .. planned \/ j = k
  BY <1>0, <1>1, PlanStepAdds
<1>8. flag \in [Flag -> Nat]
  BY DEF TypeOK
<1>9. /\ \A n \in group : Sig(n)'[1] \in Flag /\ Sig(n)'[2] = flag[Sig(n)'[1]] + 1
      /\ \A n \in group : <<Sig(n)'[1], flag[Sig(n)'[1]]>> \in Checks(n)'
      /\ \A n \in group : \A c \in Checks(n)' : c[1] \in Flag /\ c[2] = flag[c[1]]
      /\ planned > 0 => \A n \in group : \A m \in Step(planned) : Sig(m) \in Checks(n)'
      /\ \A n \in group : \A m \in group : m # n => Sig(m)'[1] # Sig(n)'[1]
      /\ \A n \in group : \A m \in group : m # n => \A c \in Checks(n)' : Sig(m)'[1] # c[1]
      /\ \A n \in group : LET f == FlagOf(NextSet(group), IF n = main THEN 1 ELSE 2)
                         IN  Sig(n)' = <<f, flag[f] + 1>> /\ f = Sig(n)'[1]
  <2> SUFFICES ASSUME NEW n \in group
               PROVE  /\ Sig(n)'[1] \in Flag /\ Sig(n)'[2] = flag[Sig(n)'[1]] + 1
                      /\ <<Sig(n)'[1], flag[Sig(n)'[1]]>> \in Checks(n)'
                      /\ \A c \in Checks(n)' : c[1] \in Flag /\ c[2] = flag[c[1]]
                      /\ planned > 0 => \A m \in Step(planned) : Sig(m) \in Checks(n)'
                      /\ \A m \in group : m # n => Sig(m)'[1] # Sig(n)'[1]
                      /\ \A m \in group : m # n => \A c \in Checks(n)' : Sig(m)'[1] # c[1]
                      /\ LET f == FlagOf(NextSet(group), IF n = main THEN 1 ELSE 2)
                         IN  Sig(n)' = <<f, flag[f] + 1>> /\ f = Sig(n)'[1]
    BY Zenon
  <2> DEFINE lock == LockOf(n, main)
             f == FlagOf(NextSet(group), IF n = main THEN 1 ELSE 2)
  <2>1. /\ lock.signal[1] \in Flag
        /\ lock.signal = <<lock.signal[1], flag[lock.signal[1]] + 1>>
        /\ \A c \in lock.checks : c[1] \in Flag /\ c = Current(c[1])
        /\ Current(lock.signal[1]) \in lock.checks
        /\ planned > 0 => \A m \in Step(planned) : Sig(m) \in lock.checks
        /\ \A m \in group : m # n =>
             /\ LockOf(m, main).signal[1] # lock.signal[1]
             /\ \A c \in lock.checks : LockOf(m, main).signal[1] # c[1]
        /\ lock.signal = <<f, flag[lock.signal[1]] + 1>>
    <3>1. n \in Step(planned + 1) /\ planned < Len(order)
      BY <1>0, <1>1
    <3> DEFINE g == FlagOf(NextSet(Step(planned + 1)), IF n = order[planned + 1] THEN 1 ELSE 2)
               l == LockOf(n, order[planned + 1])
    <3>2. /\ l.signal[1] \in Flag
          /\ l.signal = <<l.signal[1], flag[l.signal[1]] + 1>>
          /\ \A c \in l.checks : c[1] \in Flag /\ c = Current(c[1])
          /\ Current(l.signal[1]) \in l.checks
          /\ planned > 0 => \A m \in Step(planned) : Sig(m) \in l.checks
          /\ \A m \in Step(planned + 1) : m # n =>
               /\ LockOf(m, order[planned + 1]).signal[1] # l.signal[1]
               /\ \A c \in l.checks : LockOf(m, order[planned + 1]).signal[1] # c[1]
          /\ l.signal = <<g, flag[l.signal[1]] + 1>>
      BY <3>1, LockFacts, Zenon
    <3>3. g = f /\ l = lock /\ main = order[planned + 1] /\ group = Step(planned + 1)
      BY <1>0
    <3> HIDE DEF g, l, f, lock, main, group
    <3>4. QED
      BY <3>2, <3>3, Zenon
  <2>2. Sig(n)' = lock.signal /\ Checks(n)' = lock.checks
    BY <1>4
  <2> HIDE DEF lock, f
  <2>3. lock.signal[1] = f
    BY <2>1
  <2>4. lock.signal = <<f, flag[f] + 1>>
    BY <2>1, <2>3, Zenon
  <2>5. lock.signal[2] = flag[f] + 1
    BY <2>4
  <2>6. \A c \in lock.checks : c[1] \in Flag /\ c[2] = flag[c[1]]
    <3>1. \A g : Current(g)[2] = flag[g]
      BY DEF Current
    <3>2. QED
      BY <3>1, <2>1, Zenon
  <2>7. <<f, flag[f]>> \in lock.checks
    BY <2>1, <2>3, Zenon DEF Current
  <2>8. \A m \in group : Sig(m)' = LockOf(m, main).signal
    BY <1>4
  <2>9. QED
    BY <2>1, <2>2, <2>3, <2>4, <2>5, <2>6, <2>7, <2>8, SMTT(30) DEF f
<1>10. \A j \in 0 .. planned : \A f, v : IsLevel(f, v, j)' <=> IsLevel(f, v, j)
  BY LevelsStay
<1>11. \A f \in Flag : IsLevel(f, flag[f], planned)
  BY DEF ConstraintInv, PlanningInv
<1>12. planned \in 0 .. planned
  BY PlanStepAdds
<1>13. \A m \in Settled(planned) : \A f \in Flag : Sig(m)[1] = f => Sig(m)[2] <= flag[f]
  BY <1>11 DEF IsLevel
<1>14. \A f \in Flag : flag'[f] = IF \E n \in group : Sig(n)'[1] = f THEN flag[f] + 1 ELSE flag[f]
  BY <1>0, PlanStepAdds
<1>15. \A n \in DOMAIN wait : Sig(n) \in Constraint /\ Sig(n)[1] \in Flag /\ Sig(n)[2] \in Nat
  BY DEF TypeOK, LockType, Constraint, Sig
<1>16. DOMAIN wait = Settled(planned) /\ DOMAIN wait' = DOMAIN wait \union group
  BY <1>0, PlanStepAdds DEF ConstraintInv, PlanningInv
<1> HIDE DEF main, group
<1>17. ASSUME NEW f \in Flag
       PROVE  /\ \A m \in Settled(k) : Sig(m)'[1] = f => Sig(m)'[2] <= flag'[f]
              /\ flag'[f] = 0 \/ \E m \in Settled(k) : Sig(m)' = <<f, flag'[f]>>
  <2>1. \A m \in Settled(planned) : Sig(m)' = Sig(m)
    BY <1>3, <1>16
  <2>2. ASSUME NEW m \in Settled(k), Sig(m)'[1] = f
        PROVE  Sig(m)'[2] <= flag'[f]
    <3>1. CASE m \in group
      <4>1. Sig(m)'[2] = flag[f] + 1 /\ flag'[f] = flag[f] + 1
        BY <2>2, <3>1, <1>9, <1>14
      <4>2. QED
        BY <4>1, <1>8
    <3>2. CASE m \in Settled(planned)
      <4>1. Sig(m)[2] <= flag[f] /\ Sig(m)[2] \in Nat /\ Sig(m)' = Sig(m)
        BY <2>1, <2>2, <3>2, <1>13, <1>15, <1>16
      <4>2. flag'[f] = flag[f] \/ flag'[f] = flag[f] + 1
        BY <1>14
      <4>3. QED
        BY <4>1, <4>2, <1>8
    <3>3. QED
      BY <3>1, <3>2, <1>6
  <2>3. CASE \E n \in group : Sig(n)'[1] = f
    <3>1. PICK n \in group : Sig(n)'[1] = f
      BY <2>3
    <3>2. Sig(n)' = <<f, flag'[f]>>
      BY <3>1, <1>9, <1>14
    <3>3. QED
      BY <3>2, <2>2, <1>6
  <2>4. CASE ~ \E n \in group : Sig(n)'[1] = f
    <3>1. flag'[f] = flag[f]
      BY <2>4, <1>14
    <3>2. flag[f] = 0 \/ \E m \in Settled(planned) : Sig(m) = <<f, flag[f]>>
      BY <1>11 DEF IsLevel
    <3>3. flag[f] = 0 \/ \E m \in Settled(planned) : Sig(m)' = <<f, flag[f]>>
      BY <3>2, <2>1
    <3>4. QED
      BY <3>1, <3>3, <2>2, <1>6
  <2>5. QED
    BY <2>3, <2>4
<1>18. PlanningInv'
  <2>1. \A f \in Flag : IsLevel(f, flag[f], planned)'
    BY <1>1, <1>2, <1>17 DEF IsLevel
  <2>2. DOMAIN wait' = Settled(k)' /\ previous' = Step(k)'
    BY <1>0, <1>2, <1>6, <1>16, PlanStepAdds DEF group
  <2>3. \A n \in group : LET f == FlagOf(flagSet', IF n = main THEN 1 ELSE 2)
                           IN  Sig(n)' = <<f, flag'[f]>>
    <3>1. flagSet' = NextSet(group)
      BY <1>0, PlanStepAdds DEF group
    <3>2. \A n \in group : flag'[Sig(n)'[1]] = flag[Sig(n)'[1]] + 1
      BY <1>9, <1>14
    <3>3. QED
      BY <3>1, <3>2, <1>9, Zenon
  <2>4. k # 0 /\ k <= Len(order)
    BY <1>0, <1>1, PlanStepAdds
  <2>5. (\A n \in Step(planned) :
           Sig(n) = Current(FlagOf(flagSet, IF n = order[planned] THEN 1 ELSE 2)))'
    BY <2>3, <1>1, <1>2, Zenon DEF Current, main, group
  <2>6. QED
    BY <2>1, <2>2, <2>4, <2>5, <1>1 DEF PlanningInv
<1>19. SignalsGrow'
  <2> SUFFICES ASSUME NEW i \in 1 .. k, NEW n \in Step(i)
               PROVE  /\ Sig(n)'[2] > 0
                      /\ \A j \in 1 .. i : \A m \in Step(j) :
                           m # n /\ Sig(m)'[1] = Sig(n)'[1] => j < i /\ Sig(m)'[2] < Sig(n)'[2]
    BY <1>1, <1>2 DEF SignalsGrow
  <2>1. CASE i = k
    <3>1. n \in group /\ Sig(n)'[1] \in Flag /\ Sig(n)'[2] = flag[Sig(n)'[1]] + 1
      BY <2>1, <1>9 DEF group
    <3>2. Sig(n)'[2] > 0
      BY <3>1, <1>8
    <3>3. ASSUME NEW j \in 1 .. i, NEW m \in Step(j), m # n, Sig(m)'[1] = Sig(n)'[1]
          PROVE  j < i /\ Sig(m)'[2] < Sig(n)'[2]
      <4>1. j # k
        BY <3>1, <3>3, <1>9 DEF group
      <4>2. j \in 1 .. planned /\ j < k
        BY <4>1, <2>1, <1>0, <1>7, <1>1, PlanStepAdds
      <4>3. m \in DOMAIN wait
        BY <4>2, <1>5
      <4>4. Sig(m)' = Sig(m) /\ Sig(m)[2] <= flag[Sig(n)'[1]] /\ Sig(m)[2] \in Nat
        BY <4>3, <3>1, <3>3, <1>3, <1>13, <1>15, <1>16
      <4>5. QED
        BY <4>2, <4>4, <3>1, <2>1, <1>8
    <3>4. QED
      BY <3>2, <3>3
  <2>2. CASE i \in 1 .. planned
    <3>1. \A j \in 1 .. i : j \in 1 .. planned
      BY <2>2, PlanStepAdds
    <3>2. \A j \in 1 .. i : \A m \in Step(j) : Sig(m)' = Sig(m)
      BY <3>1, <1>3, <1>5
    <3>3. Sig(n)' = Sig(n)
      BY <2>2, <1>3, <1>5
    <3>4. QED
      BY <2>2, <3>2, <3>3 DEF ConstraintInv, SignalsGrow
  <2>3. QED
    BY <2>1, <2>2, <1>7
<1>20. ChecksFit'
  <2> SUFFICES ASSUME NEW i \in 1 .. k, NEW n \in Step(i)
               PROVE  /\ <<Sig(n)'[1], Sig(n)'[2] - 1>> \in Checks(n)'
                      /\ i > 1 => \A m \in Step(i - 1) : Sig(m)' \in Checks(n)'
                      /\ \A c \in Checks(n)' :
                           /\ IsLevel(c[1], c[2], i - 1)'
                           /\ \A m \in Step(i) : m # n => Sig(m)'[1] # c[1]
    BY <1>1, <1>2 DEF ChecksFit
  <2>0. i - 1 \in 0 .. planned
    BY <1>0, <1>1, PlanStepAdds
  <2>1. CASE i = k
    <3>1. n \in group /\ i - 1 = planned
      BY <1>0, <2>1, PlanStepAdds DEF group
    <3>2. Sig(n)'[2] - 1 = flag[Sig(n)'[1]]
      BY <3>1, <1>8, <1>9
    <3>3. i > 1 => \A m \in Step(planned) : Sig(m)' \in Checks(n)'
      <4>1. i > 1 => planned \in 1 .. planned
        BY <3>1, PlanStepAdds
      <4>2. QED
        BY <4>1, <3>1, <1>3, <1>5, <1>9
    <3>4. \A c \in Checks(n)' : IsLevel(c[1], c[2], planned)
      BY <3>1, <1>9, <1>11
    <3>5. \A c \in Checks(n)' : IsLevel(c[1], c[2], i - 1)'
      BY <3>1, <3>4, <2>0, <1>10
    <3>6. QED
      BY <3>1, <3>2, <3>3, <3>5, <2>1, <1>9 DEF group
  <2>2. CASE i \in 1 .. planned
    <3>1. Sig(n)' = Sig(n) /\ Checks(n)' = Checks(n)
      BY <2>2, <1>3, <1>5
    <3>2. \A m \in Step(i) : Sig(m)' = Sig(m)
      BY <2>2, <1>3, <1>5
    <3>3. i > 1 => \A m \in Step(i - 1) : Sig(m)' = Sig(m)
      <4>1. i > 1 => i - 1 \in 1 .. planned
        BY <2>2, PlanStepAdds
      <4>2. QED
        BY <4>1, <1>3, <1>5
    <3>4. \A c \in Checks(n) : IsLevel(c[1], c[2], i - 1)'
      BY <2>0, <2>2, <1>10 DEF ConstraintInv, ChecksFit
    <3>5. QED
      BY <2>2, <3>1, <3>2, <3>3, <3>4 DEF ConstraintInv, ChecksFit
  <2>3. QED
    BY <2>1, <2>2, <1>7
<1>21. Partners'
  BY <1>1 DEF ConstraintInv, Partners
<1>22. QED
  BY <1>18, <1>19, <1>20, <1>21 DEF ConstraintInv

\* Before planning, and whatever the order is by then, there is nothing to show.
LEMMA NothingPlanned ==
  ASSUME TypeOK, ConstraintInv, Partners', UNCHANGED planVars,
         planned = 0, phase' # "run", Len(order') \in Nat
  PROVE  ConstraintInv'
<1>1. Settled(0) = {} /\ Settled(0)' = {}
  BY DEF Settled
<1>2. planned' = 0 /\ flag' = flag /\ wait' = wait /\ previous' = previous /\ flagSet' = flagSet
  BY DEF planVars
<1>3. DOMAIN wait = {} /\ previous = {} /\ flagSet = 0
  BY <1>1 DEF ConstraintInv, PlanningInv
<1>4. \A f \in Flag : flag[f] = 0
  BY <1>1 DEF ConstraintInv, PlanningInv, IsLevel
<1>5. PlanningInv'
  <2>1. \A f \in Flag : IsLevel(f, flag[f], planned)'
    BY <1>1, <1>2, <1>4 DEF IsLevel
  <2>2. QED
    BY <1>1, <1>2, <1>3, <2>1 DEF PlanningInv
<1>6. SignalsGrow' /\ ChecksFit'
  BY <1>2 DEF SignalsGrow, ChecksFit
<1>7. QED
  BY <1>5, <1>6 DEF ConstraintInv

\* The constraints depend on the order and the plan only.
LEMMA ConstraintsUnchanged ==
  ASSUME ConstraintInv, UNCHANGED <<ordVars, planVars>>,
         phase' \in {"register", "order"} => planned = 0,
         phase' = "run" => planned = Len(order)
  PROVE  ConstraintInv'
<1>1. /\ order' = order /\ async' = async /\ planned' = planned /\ wait' = wait
      /\ flag' = flag /\ flagSet' = flagSet /\ previous' = previous
  BY DEF ordVars, planVars
<1>2. \A k : Step(k)' = Step(k) /\ Settled(k)' = Settled(k)
  BY <1>1 DEF Step, Settled, GetAsynchronousNodes
<1>3. \A f, v, k : IsLevel(f, v, k)' <=> IsLevel(f, v, k)
  BY <1>1, <1>2 DEF IsLevel, Sig
<1>4. \A f \in Flag : IsLevel(f, flag[f], planned)'
  BY <1>1, <1>3 DEF ConstraintInv, PlanningInv
<1>5. PlanningInv'
  BY <1>1, <1>2, <1>4 DEF ConstraintInv, PlanningInv, Sig, Current
<1>6. SignalsGrow'
  BY <1>1, <1>2 DEF ConstraintInv, SignalsGrow, Sig
<1>7. ChecksFit'
  <2>1. \A k \in 1 .. planned : \A n \in Step(k) : \A c \in Checks(n) : IsLevel(c[1], c[2], k - 1)'
    BY <1>3 DEF ConstraintInv, ChecksFit
  <2>2. QED
    BY <1>1, <1>2, <2>1 DEF ConstraintInv, ChecksFit, Sig, Checks
<1>8. QED
  BY <1>1, <1>5, <1>6, <1>7 DEF ConstraintInv, Partners

\* Nothing is planned at first.
LEMMA ConstraintInit == GenInit => ConstraintInv
<1> SUFFICES ASSUME GenInit
             PROVE  ConstraintInv
  OBVIOUS
<1>1. /\ planned = 0 /\ DOMAIN wait = {} /\ previous = {} /\ flagSet = 0 /\ phase = "register"
      /\ \A f \in Flag : flag[f] = 0
      /\ \A n \in Node : async[n] = {}
      /\ Len(order) = 0
  BY DEF GenInit
<1>2. Settled(0) = {}
  BY DEF Settled
<1>3. PlanningInv
  BY <1>1, <1>2 DEF PlanningInv, IsLevel
<1>4. QED
  BY <1>1, <1>3 DEF ConstraintInv, Partners, SignalsGrow, ChecksFit

\* Registering and picking plan nothing; planning is the lemma above.
LEMMA ConstraintNext ==
  TypeOK /\ OrderInv /\ ConstraintInv /\ [GenNext \/ GenDone]_genVars => ConstraintInv'
<1> SUFFICES ASSUME TypeOK, OrderInv, ConstraintInv, [GenNext \/ GenDone]_genVars
             PROVE  ConstraintInv'
  OBVIOUS
<1>0. Len(order') \in Nat
  BY TypeNext DEF TypeOK
<1>1. ASSUME NEW t \in Tid, RegisterUpdate(t)
      PROVE  ConstraintInv'
  <2>1. planned = 0 /\ phase' = "register" /\ UNCHANGED planVars /\ async' = async
    BY <1>1 DEF RegisterUpdate, ConstraintInv, PlanningInv
  <2>2. Partners'
    BY <2>1 DEF ConstraintInv, Partners
  <2>3. QED
    BY <1>0, <2>1, <2>2, NothingPlanned
<1>2. CASE SplitByThread
  <2>1. planned = 0 /\ phase' = "order" /\ UNCHANGED planVars /\ async' = async
    BY <1>2 DEF SplitByThread, ConstraintInv, PlanningInv
  <2>2. Partners'
    BY <2>1 DEF ConstraintInv, Partners
  <2>3. QED
    BY <1>0, <2>1, <2>2, NothingPlanned
<1>3. ASSUME NEW t \in Tid, PickNode(t)
      PROVE  ConstraintInv'
  <2>1. planned = 0 /\ phase' = "order" /\ UNCHANGED planVars /\ async' = async
    BY <1>3 DEF PickNode, ConstraintInv, PlanningInv
  <2>2. Partners'
    BY <2>1 DEF ConstraintInv, Partners
  <2>3. QED
    BY <1>0, <2>1, <2>2, NothingPlanned
<1>4. ASSUME NEW t \in Tid, NEW u \in Tid, PickPair(t, u)
      PROVE  ConstraintInv'
  <2> DEFINE m == First(left[t])
             n == First(left[u])
  <2>1. planned = 0 /\ phase' = "order" /\ UNCHANGED planVars
    BY <1>4 DEF PickPair, ConstraintInv, PlanningInv
  <2>2. /\ m \in left[t] /\ m \in Node /\ n \in left[u] /\ n \in Node /\ t # u
        /\ async' = [async EXCEPT ![m] = @ \union {n}]
    BY <1>4, FirstOfLeft DEF PickPair, Eligible
  <2> HIDE DEF m, n
  <2>3. nodes[m] = t /\ nodes[n] = u
    BY <2>2 DEF OrderInv, PickingInv, sbGraph
  <2>4. async[m] = {}
    BY <2>2, <2>3 DEF OrderInv, PickingInv, Step, GetAsynchronousNodes
  <2>5. async' = [async EXCEPT ![m] = {n}] /\ n # m
    BY <2>2, <2>3, <2>4
  <2>6. Partners'
    BY <2>2, <2>5 DEF ConstraintInv, Partners, TypeOK
  <2>7. QED
    BY <1>0, <2>1, <2>6, NothingPlanned
<1>5. CASE StopPicking
  <2>1. planned = 0 /\ phase' = "plan" /\ UNCHANGED <<ordVars, planVars>>
    BY <1>5 DEF StopPicking, ConstraintInv, PlanningInv
  <2>2. QED
    BY <2>1, ConstraintsUnchanged
<1>6. CASE PlanStep
  BY <1>6, PlanStepKeepsConstraints
<1>7. CASE EndPlanning
  <2>1. planned = Len(order) /\ phase' = "run" /\ UNCHANGED <<ordVars, planVars>>
    BY <1>7 DEF EndPlanning
  <2>2. QED
    BY <2>1, ConstraintsUnchanged
<1>8. CASE UNCHANGED genVars
  <2>1. UNCHANGED <<ordVars, planVars>> /\ phase' = phase
    BY <1>8 DEF genVars
  <2>2. QED
    BY <2>1, ConstraintsUnchanged DEF ConstraintInv, PlanningInv
<1>9. QED
  BY <1>1, <1>2, <1>3, <1>4, <1>5, <1>6, <1>7, <1>8 DEF GenNext, GenDone

-----------------------------------------------------------------------------
(* Every lock has an unlocker.                                             *)

\* What a list of locks holds when one is added at its end.
LEMMA HoldsAppend ==
  ASSUME NEW S, NEW s \in Seq(S), NEW x \in S
  PROVE  /\ \A y : Holds(s, y) => Holds(Append(s, x), y)
         /\ Holds(Append(s, x), x)
         /\ \A i \in DOMAIN Append(s, x) :
              Append(s, x)[i] = x \/ \E j \in DOMAIN s : Append(s, x)[i] = s[j]
<1>1. /\ Len(s) \in Nat /\ DOMAIN s = 1 .. Len(s)
      /\ DOMAIN Append(s, x) = 1 .. (Len(s) + 1)
      /\ Append(s, x)[Len(s) + 1] = x
      /\ \A j \in 1 .. Len(s) : Append(s, x)[j] = s[j]
  OBVIOUS
<1>2. Len(s) + 1 \in DOMAIN Append(s, x) /\ DOMAIN s \subseteq DOMAIN Append(s, x)
  BY <1>1
<1>3. \A i \in DOMAIN Append(s, x) : i = Len(s) + 1 \/ i \in DOMAIN s
  BY <1>1
<1>4. QED
  BY <1>1, <1>2, <1>3, Zenon DEF Holds

\* A node later on the thread of one that is planned now has yet to be planned.
LEMMA LaterIsUnplanned ==
  ASSUME TypeOK, OrderInv, ConstraintInv, PlanStep,
         NEW n \in Step(planned + 1), NEW m, SbLater(m, n)
  PROVE  m \notin DOMAIN wait /\ m \notin Step(planned + 1)
<1>1. planned + 1 \in DOMAIN order /\ planned \in Nat
  BY PlanStepAdds
<1>2. n \in DOMAIN nodes /\ n \in Nat
  BY <1>1, NodesOfSteps
<1>3. ASSUME m \in DOMAIN wait
      PROVE  FALSE
  <2>1. PICK j \in 1 .. planned : m \in Step(j)
    BY <1>3 DEF ConstraintInv, PlanningInv, Settled
  <2>2. j \in DOMAIN order
    BY PlannedSteps DEF ConstraintInv, PlanningInv
  <2>3. PICK i \in 1 .. j - 1 : n \in Step(i)
    BY <1>2, <2>1, <2>2 DEF OrderInv, FollowsSequencedBefore
  <2>4. i \in 1 .. planned /\ i # planned + 1
    BY <1>1, <2>1, <2>3
  <2>4a. i \in DOMAIN order
    BY <2>4, PlannedSteps DEF ConstraintInv, PlanningInv
  <2>5. QED
    BY <1>1, <2>3, <2>4, <2>4a, StepsDisjoint
<1>4. ASSUME m \in Step(planned + 1)
      PROVE  FALSE
  <2>1. m = n
    BY <1>1, <1>4, OneNodePerThread DEF SbLater
  <2>2. QED
    BY <2>1, <1>2 DEF SbLater
<1>5. QED
  BY <1>3, <1>4

\* CreateOrdering plans a step: the lock of each of its nodes goes to all later
\* nodes of the thread and to its end checks.
LEMMA PlanStepKeepsUnlocks ==
  ASSUME TypeOK, OrderInv, ConstraintInv, UnlockInv, PlanStep
  PROVE  UnlockInv'
<1> DEFINE main == order[planned + 1]
           group == Step(planned + 1)
           Skipped(m) == {n \in group : SbLater(m, n)}
           Mine(t) == {n \in group : nodes[n] = t}
<1>1. /\ planned' = planned + 1 /\ planned \in Nat /\ planned + 1 \in DOMAIN order
      /\ DOMAIN wait' = DOMAIN wait \union group
      /\ \A n \in group : n \notin DOMAIN wait
      /\ \A n \in DOMAIN wait : wait'[n] = wait[n]
      /\ \A n \in group : wait'[n] = [lock |-> LockOf(n, main), unlocks |-> unlocks[n]]
  BY PlanStepAdds
<1>2. /\ nodes' = nodes
      /\ unlocks' = [m \in Node |-> IF Skipped(m) = {} THEN unlocks[m]
                                    ELSE Append(unlocks[m], LockOf(First(Skipped(m)), main))]
      /\ endChecks' = [t \in Tid |-> IF Mine(t) = {} THEN endChecks[t]
                                     ELSE Append(endChecks[t], LockOf(First(Mine(t)), main))]
  BY DEF PlanStep, PushUnlocks, PushEndChecks, ordVars, Step
<1>3. \A n \in group : n \in Node /\ n \in Nat /\ n \in DOMAIN nodes /\ nodes[n] \in Tid
  BY <1>1, NodesOfSteps
<1>4. \A m : Skipped(m) # {} => First(Skipped(m)) \in Skipped(m)
  BY <1>3, FirstIsLeast
<1>5. \A t : Mine(t) # {} => First(Mine(t)) \in Mine(t)
  BY <1>3, FirstIsLeast
<1>6. \A n \in group : \A m : SbLater(m, n) =>
        m \notin DOMAIN wait /\ m \notin group /\ Skipped(m) = {n}
  <2> SUFFICES ASSUME NEW n \in group, NEW m, SbLater(m, n)
               PROVE  m \notin DOMAIN wait /\ m \notin group /\ Skipped(m) = {n}
    OBVIOUS
  <2>1. m \notin DOMAIN wait /\ m \notin group
    BY LaterIsUnplanned
  <2>2. \A o \in group : SbLater(m, o) => o = n
    BY <1>1, OneNodePerThread DEF SbLater
  <2>3. QED
    BY <2>1, <2>2
<1>7. \A n \in group : Mine(nodes[n]) = {n}
  BY <1>1, OneNodePerThread
<1>8. \A n : LockOf(n, main) \in LockType
  BY LockOfTyped
<1>9. /\ \A m \in Node : unlocks[m] \in Seq(LockType)
      /\ \A t \in Tid : endChecks[t] \in Seq(LockType)
  BY DEF TypeOK
<1> HIDE DEF main, group, Skipped, Mine
<1> DEFINE With(s, n) == Append(s, LockOf(n, main))
<1>9a. \A s \in Seq(LockType) : \A n :
         /\ \A y : Holds(s, y) => Holds(With(s, n), y)
         /\ Holds(With(s, n), LockOf(n, main))
         /\ \A i \in DOMAIN With(s, n) :
              With(s, n)[i] = LockOf(n, main) \/ \E j \in DOMAIN s : With(s, n)[i] = s[j]
  <2> SUFFICES ASSUME NEW s \in Seq(LockType), NEW n
               PROVE  /\ \A y : Holds(s, y) => Holds(With(s, n), y)
                      /\ Holds(With(s, n), LockOf(n, main))
                      /\ \A i \in DOMAIN With(s, n) :
                           With(s, n)[i] = LockOf(n, main) \/ \E j \in DOMAIN s : With(s, n)[i] = s[j]
    OBVIOUS
  <2>1. LockOf(n, main) \in LockType
    BY <1>8
  <2>2. QED
    BY <2>1, HoldsAppend
<1> HIDE DEF With
<1>10. \A m \in Node :
         \/ UnlocksOf(m)' = UnlocksOf(m)
         \/ /\ UnlocksOf(m) \in Seq(LockType) /\ Skipped(m) # {}
            /\ UnlocksOf(m)' = With(UnlocksOf(m), First(Skipped(m)))
  <2> SUFFICES ASSUME NEW m \in Node
               PROVE  \/ UnlocksOf(m)' = UnlocksOf(m)
                      \/ /\ UnlocksOf(m) \in Seq(LockType) /\ Skipped(m) # {}
                         /\ UnlocksOf(m)' = With(UnlocksOf(m), First(Skipped(m)))
    OBVIOUS
  <2>1. CASE m \in DOMAIN wait
    BY <2>1, <1>1 DEF UnlocksOf
  <2>2. CASE m \in group
    BY <2>2, <1>1 DEF UnlocksOf
  <2>3. CASE m \notin DOMAIN wait /\ m \notin group
    <3>1. UnlocksOf(m)' = unlocks'[m] /\ UnlocksOf(m) = unlocks[m]
      BY <2>3, <1>1 DEF UnlocksOf
    <3>2. QED
      BY <3>1, <1>2, <1>9 DEF With
  <2>4. QED
    BY <2>1, <2>2, <2>3
<1>11. \A m \in Node : \A y : Holds(UnlocksOf(m), y) => Holds(UnlocksOf(m)', y)
  BY <1>9a, <1>10
<1>12. \A t \in Tid : \A y : Holds(endChecks[t], y) => Holds(endChecks'[t], y)
  <2> SUFFICES ASSUME NEW t \in Tid, NEW y, Holds(endChecks[t], y)
               PROVE  Holds(endChecks'[t], y)
    OBVIOUS
  <2>1. CASE Mine(t) = {}
    BY <2>1, <1>2
  <2>2. CASE Mine(t) # {}
    <3>1. endChecks'[t] = With(endChecks[t], First(Mine(t)))
      BY <2>2, <1>2 DEF With
    <3>2. QED
      BY <3>1, <1>9, <1>9a
  <2>3. QED
    BY <2>1, <2>2
<1>13. ASSUME NEW n \in DOMAIN wait'
       PROVE  /\ \A m \in Node : SbLater(m, n) => Holds(UnlocksOf(m)', wait'[n].lock)
              /\ nodes[n] \in Tid => Holds(endChecks'[nodes[n]], wait'[n].lock)
  <2>1. CASE n \in DOMAIN wait
    BY <2>1, <1>1, <1>11, <1>12 DEF UnlockInv
  <2>2. CASE n \in group
    <3>1. wait'[n].lock = LockOf(n, main)
      BY <2>2, <1>1
    <3>2. First({n}) = n
      BY <2>2, <1>3, FirstIsLeast
    <3>3. ASSUME NEW m \in Node, SbLater(m, n)
          PROVE  Holds(UnlocksOf(m)', wait'[n].lock)
      <4>1. m \notin DOMAIN wait' /\ Skipped(m) = {n}
        BY <2>2, <3>3, <1>1, <1>6
      <4>2. UnlocksOf(m)' = unlocks'[m] /\ unlocks'[m] = With(unlocks[m], n)
        BY <4>1, <3>2, <1>2 DEF UnlocksOf, With
      <4>3. QED
        BY <4>2, <3>1, <1>9, <1>9a
    <3>4. nodes[n] \in Tid /\ Mine(nodes[n]) = {n}
      BY <2>2, <1>3, <1>7
    <3>5. endChecks'[nodes[n]] = With(endChecks[nodes[n]], n)
      BY <3>2, <3>4, <1>2 DEF With
    <3>6. Holds(endChecks'[nodes[n]], wait'[n].lock)
      BY <3>1, <3>4, <3>5, <1>9, <1>9a
    <3>7. QED
      BY <3>3, <3>6
  <2>3. QED
    BY <2>1, <2>2, <1>1
<1>14. ASSUME NEW m \in Node, NEW i \in DOMAIN (UnlocksOf(m)')
       PROVE  \E n \in DOMAIN wait' : SbLater(m, n) /\ (UnlocksOf(m)')[i] = wait'[n].lock
  <2>1. CASE \E j \in DOMAIN UnlocksOf(m) : (UnlocksOf(m)')[i] = UnlocksOf(m)[j]
    <3>1. PICK j \in DOMAIN UnlocksOf(m) : (UnlocksOf(m)')[i] = UnlocksOf(m)[j]
      BY <2>1
    <3>2. PICK n \in DOMAIN wait : SbLater(m, n) /\ UnlocksOf(m)[j] = wait[n].lock
      BY DEF UnlockInv
    <3>3. QED
      BY <3>1, <3>2, <1>1
  <2>2. CASE Skipped(m) # {} /\ (UnlocksOf(m)')[i] = LockOf(First(Skipped(m)), main)
    <3>1. First(Skipped(m)) \in group /\ SbLater(m, First(Skipped(m)))
      BY <2>2, <1>4 DEF Skipped
    <3>2. wait'[First(Skipped(m))].lock = LockOf(First(Skipped(m)), main)
      BY <3>1, <1>1
    <3>3. QED
      BY <2>2, <3>1, <3>2, <1>1
  <2>3. QED
    BY <2>1, <2>2, <1>9a, <1>10
<1>15. ASSUME NEW t \in Tid, NEW i \in DOMAIN endChecks'[t]
       PROVE  \E n \in DOMAIN wait' : nodes[n] = t /\ endChecks'[t][i] = wait'[n].lock
  <2>1. CASE Mine(t) = {}
    <3>1. endChecks'[t] = endChecks[t]
      BY <2>1, <1>2
    <3>2. QED
      BY <3>1, <1>1 DEF UnlockInv
  <2>2. CASE Mine(t) # {}
    <3>1. endChecks'[t] = With(endChecks[t], First(Mine(t)))
      BY <2>2, <1>2 DEF With
    <3>2. \/ endChecks'[t][i] = LockOf(First(Mine(t)), main)
          \/ \E j \in DOMAIN endChecks[t] : endChecks'[t][i] = endChecks[t][j]
      BY <3>1, <1>9, <1>9a
    <3>3. First(Mine(t)) \in group /\ nodes[First(Mine(t))] = t
      BY <2>2, <1>5 DEF Mine
    <3>4. wait'[First(Mine(t))].lock = LockOf(First(Mine(t)), main)
      BY <3>3, <1>1
    <3>5. CASE endChecks'[t][i] = LockOf(First(Mine(t)), main)
      BY <3>3, <3>4, <3>5, <1>1
    <3>6. ASSUME NEW j \in DOMAIN endChecks[t], endChecks'[t][i] = endChecks[t][j]
          PROVE  \E n \in DOMAIN wait' : nodes[n] = t /\ endChecks'[t][i] = wait'[n].lock
      <4>1. PICK n \in DOMAIN wait : nodes[n] = t /\ endChecks[t][j] = wait[n].lock
        BY DEF UnlockInv
      <4>2. QED
        BY <4>1, <3>6, <1>1
    <3>7. QED
      BY <3>2, <3>5, <3>6
  <2>3. QED
    BY <2>1, <2>2
<1>16. QED
  <2>1. \A n \in DOMAIN wait' : nodes[n] \in Tid
    <3>1. \A n \in DOMAIN wait : nodes[n] \in Tid
      <4> SUFFICES ASSUME NEW n \in DOMAIN wait PROVE nodes[n] \in Tid
        OBVIOUS
      <4>1. PICK j \in 1 .. planned : n \in Step(j)
        BY DEF ConstraintInv, PlanningInv, Settled
      <4>2. j \in DOMAIN order
        BY PlannedSteps DEF ConstraintInv, PlanningInv
      <4>3. QED
        BY <4>1, <4>2, NodesOfSteps
    <3>2. QED
      BY <3>1, <1>1, <1>3
  <2>2. \A m, n : SbLater(m, n)' <=> SbLater(m, n)
    BY <1>2 DEF SbLater
  <2>3. planned' # 0
    BY <1>1
  <2>4. (\A n \in DOMAIN wait :
           /\ \A m \in Node : SbLater(m, n) => Holds(UnlocksOf(m), wait[n].lock)
           /\ Holds(endChecks[nodes[n]], wait[n].lock))'
    BY <1>2, <1>13, <2>1, <2>2 DEF Holds
  <2>5. (\A m \in Node : \A i \in DOMAIN UnlocksOf(m) :
           \E n \in DOMAIN wait : SbLater(m, n) /\ UnlocksOf(m)[i] = wait[n].lock)'
    BY <1>14, <2>2
  <2>6. (\A t \in Tid : \A i \in DOMAIN endChecks[t] :
           \E n \in DOMAIN wait : nodes[n] = t /\ endChecks[t][i] = wait[n].lock)'
    BY <1>2, <1>15
  <2>7. QED
    BY <2>3, <2>4, <2>5, <2>6 DEF UnlockInv

\* There is no lock at first.
LEMMA UnlockInit == GenInit => UnlockInv
<1> SUFFICES ASSUME GenInit
             PROVE  UnlockInv
  OBVIOUS
<1>1. DOMAIN wait = {} /\ unlocks = [n \in Node |-> <<>>] /\ endChecks = [t \in Tid |-> <<>>]
  BY DEF GenInit
<1>2. \A m \in Node : UnlocksOf(m) = <<>>
  BY <1>1 DEF UnlocksOf
<1>3. QED
  BY <1>1, <1>2 DEF UnlockInv

\* Only planning makes waits and gives locks away.
LEMMA UnlocksUnchanged ==
  ASSUME UnlockInv, ConstraintInv, UNCHANGED planVars, nodes' = nodes \/ planned = 0
  PROVE  UnlockInv'
<1>1. /\ planned' = planned /\ wait' = wait /\ unlocks' = unlocks /\ endChecks' = endChecks
      /\ \A m : UnlocksOf(m)' = UnlocksOf(m)
  BY DEF planVars, UnlocksOf
<1>2. CASE nodes' = nodes
  <2>1. \A m, n : SbLater(m, n)' <=> SbLater(m, n)
    BY <1>2 DEF SbLater
  <2>2. QED
    BY <1>1, <1>2, <2>1 DEF UnlockInv, Holds
<1>3. CASE planned = 0
  <2>1. DOMAIN wait = {}
    BY <1>3 DEF ConstraintInv, PlanningInv, Settled
  <2>2. \A m \in Node : UnlocksOf(m) = <<>>
    BY <1>3, <2>1 DEF UnlockInv, UnlocksOf
  <2>3. QED
    BY <1>1, <1>3, <2>1, <2>2 DEF UnlockInv
<1>4. QED
  BY <1>2, <1>3

\* Only planning makes and hands out locks.
LEMMA UnlockNext ==
  TypeOK /\ OrderInv /\ ConstraintInv /\ UnlockInv /\ [GenNext \/ GenDone]_genVars => UnlockInv'
<1> SUFFICES ASSUME TypeOK, OrderInv, ConstraintInv, UnlockInv, [GenNext \/ GenDone]_genVars
             PROVE  UnlockInv'
  OBVIOUS
<1>1. CASE PlanStep
  BY <1>1, PlanStepKeepsUnlocks
<1>2. ASSUME NEW t \in Tid, RegisterUpdate(t)
      PROVE  UnlockInv'
  <2>1. UNCHANGED planVars /\ planned = 0
    BY <1>2 DEF RegisterUpdate, ConstraintInv, PlanningInv
  <2>2. QED
    BY <2>1, UnlocksUnchanged
<1>3. CASE UNCHANGED planVars /\ nodes' = nodes
  BY <1>3, UnlocksUnchanged
<1>4. QED
  BY <1>1, <1>2, <1>3
     DEF GenNext, GenDone, SplitByThread, PickNode, PickPair, StopPicking, EndPlanning,
         genVars, ordVars

-----------------------------------------------------------------------------
(* Only nodes of the last step's threads are dropped.                      *)

\* Nothing has been picked or dropped at first.
LEMMA DropInit == GenInit => DropInv
BY DEF GenInit, DropInv

\* One more step: the threads of its nodes are the ones left out next.
LEMMA DropGrows ==
  ASSUME TypeOK, DropInv, phase = "order", phase' = "order", nodes' = nodes,
         NEW main \in Node, order' = Append(order, main),
         NEW T \in SUBSET Tid, lastTids' = T,
         \A t \in T : First(left[t]) \in DOMAIN nodes /\ nodes[First(left[t])] = t,
         async'[main] \union {main} = {First(left[t]) : t \in T}
  PROVE  DropInv'
<1>1. Len(order') = Len(order) + 1 /\ order'[Len(order) + 1] = main /\ order' # <<>>
  <2>1. order \in Seq(Node) /\ Len(order) \in Nat
    BY DEF TypeOK
  <2>2. Len(order') = Len(order) + 1 /\ order'[Len(order) + 1] = main
    BY <2>1
  <2>3. QED
    BY <2>1, <2>2
<1>2. Step(Len(order))' = {First(left[t]) : t \in T}
  BY <1>1 DEF Step, GetAsynchronousNodes
<1>3. \A t \in Tid : t \in T <=> \E m \in Step(Len(order))' : nodes[m] = t
  BY <1>2
<1>4. (\A t \in Tid : t \in lastTids <=>
         order # <<>> /\ \E m \in Step(Len(order)) : nodes[m] = t)'
  BY <1>1, <1>3
<1>5. QED
  BY <1>4 DEF DropInv

\* Picking drops nothing, and ends only when what is left is of the last threads.
LEMMA DropNext ==
  TypeOK /\ OrderInv /\ DropInv /\ [GenNext \/ GenDone]_genVars => DropInv'
<1> SUFFICES ASSUME TypeOK, OrderInv, DropInv, [GenNext \/ GenDone]_genVars
             PROVE  DropInv'
  OBVIOUS
<1>1. ASSUME NEW t \in Tid, RegisterUpdate(t)
      PROVE  DropInv'
  BY <1>1 DEF RegisterUpdate, DropInv
<1>2. CASE SplitByThread
  BY <1>2 DEF SplitByThread, DropInv
<1>3. ASSUME NEW t \in Tid, PickNode(t)
      PROVE  DropInv'
  <2> DEFINE main == First(left[t])
  <2>1. main \in left[t] /\ main \in Node
    BY <1>3, FirstOfLeft DEF PickNode, Eligible
  <2>2. main \in DOMAIN nodes /\ nodes[main] = t /\ async[main] = {}
    BY <2>1 DEF OrderInv, PickingInv, Step, GetAsynchronousNodes, sbGraph
  <2>3. /\ phase = "order" /\ phase' = "order" /\ nodes' = nodes
        /\ order' = Append(order, main) /\ async' = async /\ lastTids' = {t}
    BY <1>3 DEF PickNode
  <2>4. async'[main] \union {main} = {First(left[s]) : s \in {t}}
    BY <2>2, <2>3
  <2>5. \A s \in {t} : First(left[s]) \in DOMAIN nodes /\ nodes[First(left[s])] = s
    BY <2>2
  <2> HIDE DEF main
  <2>6. PICK T \in SUBSET Tid : T = {t}
    OBVIOUS
  <2>7. QED
    BY <2>1, <2>3, <2>4, <2>5, <2>6, DropGrows
<1>4. ASSUME NEW t \in Tid, NEW u \in Tid, PickPair(t, u)
      PROVE  DropInv'
  <2> DEFINE main == First(left[t])
  <2>1. main \in left[t] /\ main \in Node /\ First(left[u]) \in left[u]
    BY <1>4, FirstOfLeft DEF PickPair, Eligible
  <2>2. /\ main \in DOMAIN nodes /\ nodes[main] = t /\ async[main] = {}
        /\ First(left[u]) \in DOMAIN nodes /\ nodes[First(left[u])] = u
    BY <2>1 DEF OrderInv, PickingInv, Step, GetAsynchronousNodes, sbGraph
  <2>3. /\ phase = "order" /\ phase' = "order" /\ nodes' = nodes
        /\ order' = Append(order, main) /\ lastTids' = {t, u}
        /\ async' = [async EXCEPT ![main] = @ \union {First(left[u])}]
    BY <1>4 DEF PickPair
  <2>4. async'[main] \union {main} = {First(left[s]) : s \in {t, u}}
    BY <2>1, <2>2, <2>3 DEF TypeOK
  <2>5. \A s \in {t, u} : First(left[s]) \in DOMAIN nodes /\ nodes[First(left[s])] = s
    BY <2>2
  <2> HIDE DEF main
  <2>6. PICK T \in SUBSET Tid : T = {t, u}
    OBVIOUS
  <2>7. QED
    BY <2>1, <2>3, <2>4, <2>5, <2>6, DropGrows
<1>5. CASE StopPicking
  <2>1. /\ phase = "order" /\ phase' = "plan" /\ Eligible = {}
        /\ nodes' = nodes /\ order' = order /\ async' = async /\ lastTids' = lastTids
    BY <1>5 DEF StopPicking, ordVars
  <2>2. ASSUME NEW n \in DOMAIN nodes \ Placed
        PROVE  \E m \in Step(Len(order)) : SbLater(n, m)
    <3> DEFINE t == nodes[n]
    <3>1. t \in Tid /\ n \in Nat
      BY DEF TypeOK
    <3>2. n \in left[t]
      BY <2>1, <2>2 DEF OrderInv, PickingInv, Placed
    <3>3. t \in lastTids
      BY <2>1, <3>1, <3>2 DEF Eligible
    <3>4. PICK m \in Step(Len(order)) : nodes[m] = t /\ order # <<>>
      BY <2>1, <3>1, <3>3 DEF DropInv
    <3>5. Len(order) \in DOMAIN order
      BY <3>4 DEF TypeOK
    <3>6. m \in DOMAIN nodes /\ m \notin left[t] /\ m \in Nat
      BY <3>4, <3>5, NodesOfSteps DEF OrderInv, PickingInv
    <3>7. m \in sbGraph(t)
      BY <3>4, <3>6 DEF sbGraph
    <3>8. ~ (m > n) /\ m # n
      BY <3>1, <3>2, <3>6, <3>7 DEF OrderInv, PickingInv
    <3>9. QED
      BY <3>1, <3>4, <3>6, <3>8 DEF SbLater
  <2>3. OnlyLastThreadsDropped'
    BY <2>1, <2>2 DEF OnlyLastThreadsDropped, Placed, Step, GetAsynchronousNodes, SbLater
  <2>4. QED
    BY <2>1, <2>3 DEF DropInv
<1>6. CASE phase \in {"plan", "run"} /\ phase' \in {"plan", "run"} /\ UNCHANGED ordVars
  BY <1>6 DEF DropInv, OnlyLastThreadsDropped, Placed, Step, GetAsynchronousNodes, SbLater, ordVars
<1>7. CASE UNCHANGED genVars
  BY <1>7 DEF DropInv, OnlyLastThreadsDropped, Placed, Step, GetAsynchronousNodes, SbLater, genVars, ordVars
<1>8. QED
  BY <1>1, <1>2, <1>3, <1>4, <1>5, <1>6, <1>7 DEF GenNext, GenDone, PlanStep, EndPlanning

-----------------------------------------------------------------------------
(* The nodes of a step update different fields.                            *)

\* Only planning gives nodes their fields, and it gives a pair different ones.
LEMMA UpdatesNext ==
  TypeOK /\ OrderInv /\ ConstraintInv /\ UpdatesInv /\ [GenNext \/ GenDone]_genVars => UpdatesInv'
<1> SUFFICES ASSUME TypeOK, OrderInv, ConstraintInv, UpdatesInv, [GenNext \/ GenDone]_genVars
             PROVE  UpdatesInv'
  OBVIOUS
<1>1. CASE PlanStep
  <2> DEFINE main == order[planned + 1]
             group == Step(planned + 1)
  <2>1. /\ planned' = planned + 1 /\ planned \in Nat /\ planned + 1 \in DOMAIN order
        /\ \A j : Step(j)' = Step(j)
    BY <1>1, PlanStepAdds
  <2>2. PICK mine \in SUBSET Fields : updates' = MakeUpdates(main, group, mine)
    BY <1>1 DEF PlanStep, Step
  <2>3. \A k \in 1 .. planned' : k = planned + 1 \/ k \in 1 .. planned
    BY <2>1
  <2>4. \A k \in 1 .. planned : k \in DOMAIN order /\ k # planned + 1
    <3>1. 1 .. planned \subseteq DOMAIN order
      BY PlannedSteps DEF ConstraintInv, PlanningInv
    <3>2. QED
      BY <2>1, <3>1
  <2>5. ASSUME NEW k \in 1 .. planned, NEW n \in Step(k)
        PROVE  updates'[n] = updates[n]
    <3>1. n \in Node /\ n \notin group
      BY <2>1, <2>4, <2>5, NodesOfSteps, StepsDisjoint
    <3>2. n # main
      BY <3>1 DEF Step, GetAsynchronousNodes
    <3>3. QED
      BY <3>1, <3>2, <2>2 DEF MakeUpdates
  <2>6. ASSUME NEW m \in group, NEW n \in group, m # n
        PROVE  updates'[m] \intersect updates'[n] = {}
    <3>1. m \in Node /\ n \in Node
      BY <2>1, NodesOfSteps
    <3>2. m = main \/ n = main
      BY <2>1, <2>6, StepShape DEF ConstraintInv
    <3>3. QED
      BY <2>2, <2>6, <3>1, <3>2 DEF MakeUpdates
  <2>7. QED
    <3>1. \A k \in 1 .. planned' : \A m, n \in Step(k) : m # n => updates'[m] \intersect updates'[n] = {}
      BY <2>3, <2>5, <2>6 DEF UpdatesInv
    <3>2. QED
      BY <2>1, <3>1 DEF UpdatesInv
<1>2. CASE planned' = 0
  BY <1>2 DEF UpdatesInv
<1>3. CASE UNCHANGED <<ordVars, planVars>>
  BY <1>3 DEF UpdatesInv, Step, GetAsynchronousNodes, ordVars, planVars
<1>4. QED
  BY <1>1, <1>2, <1>3
     DEF GenNext, GenDone, RegisterUpdate, SplitByThread, PickNode, PickPair, StopPicking,
         EndPlanning, genVars, planVars, ConstraintInv, PlanningInv

-----------------------------------------------------------------------------
(* Theorems.                                                               *)

PlanInv ==
  TypeOK /\ OrderInv /\ ConstraintInv /\ UnlockInv /\ DropInv /\ UpdatesInv

\* What is known of plans holds at first.
LEMMA PlanInit == GenInit => PlanInv
BY TypeInit, OrderInit, ConstraintInit, UnlockInit, DropInit
   DEF PlanInv, UpdatesInv, GenInit

\* What is known of plans holds after every step of the generator.
LEMMA PlanNext == PlanInv /\ [GenNext \/ GenDone]_genVars => PlanInv'
BY TypeNext, OrderNext, ConstraintNext, UnlockNext, DropNext, UpdatesNext DEF PlanInv

\* Whatever CreateOrdering plans, a thread that skips a node can signal for it:
\* it finds the node's lock in the wait of each of its later nodes and in its
\* end checks.
THEOREM LocksHaveUnlockers == GenSpec => []EveryLockHasAnUnlocker
<1>1. PlanInv => EveryLockHasAnUnlocker
  BY DEF PlanInv, EveryLockHasAnUnlocker, UnlockInv, UnlocksOf, Holds, TypeOK
<1>2. QED
  BY <1>1, PlanInit, PlanNext, PTL DEF GenSpec

\* CreateOrdering stops early only when it must: a node missing from the order
\* belongs to a thread of the last step, after that step's node.
THEOREM DropsAreOfTheLastStep == GenSpec => []OnlyLastThreadsDropped
<1>1. PlanInv => OnlyLastThreadsDropped
  BY DEF PlanInv, DropInv, OnlyLastThreadsDropped
<1>2. QED
  BY <1>1, PlanInit, PlanNext, PTL DEF GenSpec

-----------------------------------------------------------------------------
(* What the checks let through.                                            *)

\* The flags of the message when exactly the nodes of D have signalled.
LevelOf(value, D) ==
  \A f \in Flag :
    /\ value[f] \in Nat
    /\ \A n \in D : Sig(n)[1] = f => Sig(n)[2] <= value[f]
    /\ value[f] = 0 \/ \E n \in D : Sig(n) = <<f, value[f]>>

\* D is what has signalled at some point of the run: the first j steps, and of
\* step j + 1 perhaps a node, but not all.
Settles(j, D) ==
  /\ Settled(j) \subseteq D
  /\ D \subseteq Settled(j) \union (IF j < planned THEN Step(j + 1) ELSE {})
  /\ j < planned => ~ (Step(j + 1) \subseteq D)

\* A signal and a check are a flag and a value.
LEMMA LocksTyped ==
  ASSUME TypeOK, NEW n \in DOMAIN wait
  PROVE  /\ Sig(n) = <<Sig(n)[1], Sig(n)[2]>> /\ Sig(n)[1] \in Flag /\ Sig(n)[2] \in Nat
         /\ \A c \in Checks(n) : c = <<c[1], c[2]>> /\ c[1] \in Flag /\ c[2] \in Nat
<1>1. wait[n].lock \in LockType
  BY DEF TypeOK
<1>2. Sig(n) \in Constraint /\ Checks(n) \in SUBSET Constraint
  BY <1>1 DEF LockType, Sig, Checks
<1>3. \A c \in Constraint : c = <<c[1], c[2]>> /\ c[1] \in Flag /\ c[2] \in Nat
  BY DEF Constraint
<1>4. QED
  BY <1>2, <1>3

\* At any point of the run, a node has signalled just when its signal shows, and
\* then so do its checks; and its checks show exactly when it is its turn, which
\* is also the one time at which they have all been reached and its signal not.
LEMMA TurnPasses ==
  ASSUME TypeOK, OrderInv, ConstraintInv,
         NEW value, NEW D, LevelOf(value, D),
         NEW j \in 0 .. planned, Settles(j, D),
         NEW n \in DOMAIN wait
  PROVE  /\ n \in D <=> value[Sig(n)[1]] >= Sig(n)[2]
         /\ n \in D => \A c \in Checks(n) : value[c[1]] >= c[2]
         /\ (\A c \in Checks(n) : value[c[1]] = c[2]) <=> j < planned /\ n \in Step(j + 1) \ D
         /\ n \notin D /\ (\A c \in Checks(n) : value[c[1]] >= c[2])
              => j < planned /\ n \in Step(j + 1) \ D
<1>1. planned \in Nat /\ j \in Nat /\ 1 .. planned \subseteq DOMAIN order
  BY PlannedSteps DEF ConstraintInv, PlanningInv
<1>2. DOMAIN wait = Settled(planned) /\ \A i \in 1 .. planned : Step(i) \subseteq DOMAIN wait
  BY DEF ConstraintInv, PlanningInv, Settled
<1>3. PICK i \in 1 .. planned : n \in Step(i)
  BY <1>2 DEF Settled
<1>4. \A m \in D : /\ \E l \in 1 .. planned : l <= j + 1 /\ m \in Step(l)
                   /\ m \in DOMAIN wait
                   /\ m \in Settled(j) \/ (j < planned /\ m \in Step(j + 1))
  <2> SUFFICES ASSUME NEW m \in D
               PROVE  /\ \E l \in 1 .. planned : l <= j + 1 /\ m \in Step(l)
                      /\ m \in DOMAIN wait
                      /\ m \in Settled(j) \/ (j < planned /\ m \in Step(j + 1))
    OBVIOUS
  <2>1. m \in Settled(j) \/ (j < planned /\ m \in Step(j + 1))
    BY DEF Settles
  <2>2. CASE m \in Settled(j)
    <3>1. PICK l \in 1 .. j : m \in Step(l)
      BY <2>2 DEF Settled
    <3>2. l \in 1 .. planned /\ l <= j + 1
      BY <1>1
    <3>3. QED
      BY <2>2, <3>1, <3>2, <1>2
  <2>3. CASE j < planned /\ m \in Step(j + 1)
    <3>1. j + 1 \in 1 .. planned /\ j + 1 <= j + 1
      BY <1>1, <2>3
    <3>2. QED
      BY <2>3, <3>1, <1>2
  <2>4. QED
    BY <2>1, <2>2, <2>3
<1>5. \A m \in DOMAIN wait : /\ Sig(m) = <<Sig(m)[1], Sig(m)[2]>>
                             /\ Sig(m)[1] \in Flag /\ Sig(m)[2] \in Nat
                             /\ value[Sig(m)[1]] \in Nat
  BY LocksTyped DEF LevelOf
<1>6. \A c \in Checks(n) : c = <<c[1], c[2]>> /\ c[1] \in Flag /\ c[2] \in Nat /\ value[c[1]] \in Nat
  BY LocksTyped DEF LevelOf
<1>7. \A m \in D : value[Sig(m)[1]] >= Sig(m)[2]
  BY <1>4, <1>5 DEF LevelOf
<1>8. ASSUME NEW m \in DOMAIN wait, m \notin D, value[Sig(m)[1]] >= Sig(m)[2]
      PROVE  FALSE
  <2> DEFINE f == Sig(m)[1]
  <2>1. PICK l \in 1 .. planned : m \in Step(l)
    BY <1>2 DEF Settled
  <2>2. l > j
    <3>1. l \in 1 .. j => m \in Settled(j)
      BY <2>1 DEF Settled
    <3>2. QED
      BY <1>1, <1>8, <3>1 DEF Settles
  <2>3. Sig(m)[2] > 0
    BY <2>1 DEF ConstraintInv, SignalsGrow
  <2>4. PICK o \in D : Sig(o) = <<f, value[f]>>
    BY <1>5, <1>8, <2>3 DEF LevelOf
  <2>5. PICK q \in 1 .. planned : q <= j + 1 /\ o \in Step(q)
    BY <1>4
  <2>6. q \in 1 .. l /\ o # m /\ Sig(o)[1] = Sig(m)[1] /\ Sig(o)[2] = value[f]
    BY <1>1, <1>8, <2>2, <2>4, <2>5
  <2>7. Sig(o)[2] < Sig(m)[2]
    BY <2>1, <2>5, <2>6 DEF ConstraintInv, SignalsGrow
  <2>8. QED
    BY <1>5, <1>8, <2>6, <2>7
<1>9. \A c \in Checks(n) : /\ i <= j + 1 => value[c[1]] >= c[2]
                           /\ IsLevel(c[1], c[2], i - 1)
                           /\ \A m \in Step(i) : m # n => Sig(m)[1] # c[1]
  <2> SUFFICES ASSUME NEW c \in Checks(n)
               PROVE  /\ i <= j + 1 => value[c[1]] >= c[2]
                      /\ IsLevel(c[1], c[2], i - 1)
                      /\ \A m \in Step(i) : m # n => Sig(m)[1] # c[1]
    OBVIOUS
  <2>1. /\ IsLevel(c[1], c[2], i - 1)
        /\ \A m \in Step(i) : m # n => Sig(m)[1] # c[1]
    BY <1>3 DEF ConstraintInv, ChecksFit
  <2>2. ASSUME i <= j + 1
        PROVE  value[c[1]] >= c[2]
    <3>1. CASE c[2] = 0
      BY <3>1, <1>6
    <3>2. ASSUME NEW m \in Settled(i - 1), Sig(m) = <<c[1], c[2]>>
          PROVE  value[c[1]] >= c[2]
      <4>1. PICK l \in 1 .. i - 1 : m \in Step(l)
        BY <3>2 DEF Settled
      <4>2. l \in 1 .. j
        BY <1>1, <2>2, <4>1
      <4>3. m \in D
        BY <4>1, <4>2 DEF Settled, Settles
      <4>4. QED
        BY <3>2, <4>3, <1>7
    <3>3. QED
      BY <2>1, <3>1, <3>2 DEF IsLevel
  <2>3. QED
    BY <2>1, <2>2
<1>10. n \in D => i <= j + 1
  <2>1. ASSUME n \in D
        PROVE  i <= j + 1
    <3>1. PICK l \in 1 .. planned : l <= j + 1 /\ n \in Step(l)
      BY <1>4, <2>1
    <3>2. l = i
      BY <1>1, <1>3, <3>1, StepsDisjoint
    <3>3. QED
      BY <3>1, <3>2
  <2>2. QED
    BY <2>1
<1>11. ASSUME j < planned, n \in Step(j + 1) \ D
       PROVE  \A c \in Checks(n) : value[c[1]] = c[2]
  <2> SUFFICES ASSUME NEW c \in Checks(n), value[c[1]] # c[2]
               PROVE  FALSE
    OBVIOUS
  <2>1. j + 1 \in 1 .. planned
    BY <1>1, <1>11
  <2>2. i = j + 1
    BY <1>1, <1>3, <1>11, <2>1, StepsDisjoint
  <2>3. value[c[1]] > c[2] /\ c[1] \in Flag
    BY <1>1, <1>6, <1>9, <2>2
  <2>4. PICK m \in D : Sig(m) = <<c[1], value[c[1]]>>
    BY <1>6, <2>3 DEF LevelOf
  <2>5. CASE m \in Settled(j)
    <3>1. i - 1 = j
      BY <1>1, <2>2
    <3>2. Sig(m)[2] <= c[2]
      BY <2>4, <2>5, <1>9, <3>1 DEF IsLevel
    <3>3. QED
      BY <3>2, <2>3, <2>4, <1>6
  <2>6. CASE m \in Step(j + 1)
    <3>1. m # n
      BY <1>11
    <3>2. QED
      BY <3>1, <2>2, <2>4, <2>6, <1>9
  <2>7. QED
    BY <2>5, <2>6, <1>4
<1>12. ASSUME n \notin D, \A c \in Checks(n) : value[c[1]] >= c[2]
       PROVE  j < planned /\ n \in Step(j + 1) \ D
  <2>1. n \notin D
    BY <1>12
  <2>2. ~ (i <= j)
    <3>1. i <= j => n \in Settled(j)
      BY <1>1, <1>3 DEF Settled
    <3>2. QED
      BY <2>1, <3>1 DEF Settles
  <2>3. ASSUME i # j + 1
        PROVE  FALSE
    <3>1. i > 1 /\ i - 1 \in 1 .. planned /\ j < planned /\ j + 1 \in 1 .. planned
      BY <1>1, <2>2, <2>3
    <3>2. PICK m \in Step(i - 1) : m \notin D
      <4>1. CASE i - 1 = j + 1
        BY <4>1, <3>1 DEF Settles
      <4>2. CASE i - 1 # j + 1
        <5>1. order[i - 1] \in Step(i - 1)
          BY DEF Step, GetAsynchronousNodes
        <5>2. order[i - 1] \notin D
          <6>1. SUFFICES ASSUME order[i - 1] \in D
                         PROVE  FALSE
            OBVIOUS
          <6>2. PICK l \in 1 .. planned : l <= j + 1 /\ order[i - 1] \in Step(l)
            BY <1>4, <6>1
          <6>3. l # i - 1
            BY <1>1, <2>2, <2>3, <4>2, <6>2
          <6>4. QED
            BY <1>1, <3>1, <5>1, <6>2, <6>3, StepsDisjoint
        <5>3. QED
          BY <5>1, <5>2
      <4>3. QED
        BY <4>1, <4>2
    <3>3. Sig(m) \in Checks(n) /\ m \in DOMAIN wait
      BY <1>2, <1>3, <3>1, <3>2 DEF ConstraintInv, ChecksFit
    <3>4. value[Sig(m)[1]] >= Sig(m)[2]
      BY <1>12, <3>3
    <3>5. QED
      BY <1>5, <1>8, <3>2, <3>3, <3>4
  <2>4. QED
    BY <1>1, <1>3, <2>1, <2>2, <2>3
<1>13. ASSUME \A c \in Checks(n) : value[c[1]] = c[2]
       PROVE  n \notin D /\ \A c \in Checks(n) : value[c[1]] >= c[2]
  <2>1. <<Sig(n)[1], Sig(n)[2] - 1>> \in Checks(n)
    BY <1>3 DEF ConstraintInv, ChecksFit
  <2>2. value[Sig(n)[1]] = Sig(n)[2] - 1
    BY <1>13, <2>1
  <2>3. n \notin D
    BY <2>2, <1>5, <1>7
  <2>4. QED
    BY <2>3, <1>6, <1>13
<1>14. QED
  BY <1>3, <1>7, <1>8, <1>9, <1>10, <1>11, <1>12, <1>13

\* A set of naturals with a bound has a greatest element.
LEMMA GreatestIsChosen ==
  ASSUME NEW V \in SUBSET Nat, V # {}, NEW b \in Nat, \A v \in V : v <= b
  PROVE  LET v == CHOOSE v \in V : \A w \in V : w <= v
         IN  v \in V /\ \A w \in V : w <= v
<1> DEFINE Below == {i \in Nat : i <= b /\ b - i \in V}
<1>1. Below \in SUBSET Nat /\ Below # {}
  <2>1. PICK v \in V : TRUE
    OBVIOUS
  <2>2. v \in Nat /\ v <= b
    OBVIOUS
  <2>3. b - v \in Nat /\ b - v <= b /\ b - (b - v) = v
    BY <2>2
  <2>4. b - v \in Below
    BY <2>3
  <2>5. QED
    BY <2>4
<1>2. PICK i \in Below : \A l \in Below : i <= l
  BY <1>1, FirstIsLeast
<1>3. b - i \in V /\ i \in Nat
  BY <1>2
<1>4. ASSUME NEW w \in V
      PROVE  w <= b - i
  <2>1. w \in Nat /\ w <= b
    OBVIOUS
  <2>2. b - w \in Nat /\ b - w <= b /\ b - (b - w) = w
    BY <2>1
  <2>3. b - w \in Below
    BY <2>2
  <2>4. QED
    BY <1>2, <1>3, <2>1, <2>2, <2>3
<1>5. \E v \in V : \A w \in V : w <= v
  BY <1>3, <1>4
<1>6. QED
  BY <1>5

\* The flags after a set of nodes are the levels the plan speaks of.
LEMMA FlagsAfterLevel ==
  ASSUME TypeOK, ConstraintInv, NEW D \in SUBSET DOMAIN wait
  PROVE  LevelOf(FlagsAfter(D), D)
<1> SUFFICES ASSUME NEW f \in Flag
             PROVE  /\ FlagsAfter(D)[f] \in Nat
                    /\ \A n \in D : Sig(n)[1] = f => Sig(n)[2] <= FlagsAfter(D)[f]
                    /\ \/ FlagsAfter(D)[f] = 0
                       \/ \E n \in D : Sig(n) = <<f, FlagsAfter(D)[f]>>
  BY DEF LevelOf
<1> DEFINE values == {0} \union {Sig(n)[2] : n \in {m \in D : Sig(m)[1] = f}}
<1>1. FlagsAfter(D)[f] = CHOOSE v \in values : \A w \in values : w <= v
  BY DEF FlagsAfter, Sig
<1>2. \A n \in D : Sig(n) = <<Sig(n)[1], Sig(n)[2]>> /\ Sig(n)[2] \in Nat
  BY LocksTyped
<1>3. \A v \in values : v = 0 \/ \E n \in D : Sig(n) = <<f, v>>
  BY <1>2
<1>4. \A n \in D : Sig(n)[1] = f => Sig(n)[2] \in values
  OBVIOUS
<1>5. values \in SUBSET Nat /\ 0 \in values
  BY <1>2
<1>6. flag[f] \in Nat /\ \A v \in values : v <= flag[f]
  <2>1. flag[f] \in Nat
    BY DEF TypeOK
  <2>2. \A n \in D : Sig(n)[1] = f => Sig(n)[2] <= flag[f]
    BY DEF ConstraintInv, PlanningInv, IsLevel
  <2>3. QED
    BY <2>1, <2>2
<1> HIDE DEF values
<1>7. FlagsAfter(D)[f] \in values /\ \A w \in values : w <= FlagsAfter(D)[f]
  <2>1. values # {}
    BY <1>5
  <2>2. QED
    BY <1>1, <1>5, <1>6, <2>1, GreatestIsChosen
<1>8. QED
  BY <1>3, <1>4, <1>5, <1>7

\* The constraints CreateOrdering makes let exactly the nodes through whose turn
\* it is, at every point of the run, however the flags have been reused.
THEOREM ChecksLetTheTurnPass == GenSpec => []OnlyTheTurnPasses
<1>1. ASSUME PlanInv
      PROVE  OnlyTheTurnPasses
  <2>0. TypeOK /\ OrderInv /\ ConstraintInv
    BY <1>1 DEF PlanInv
  <2> SUFFICES ASSUME phase = "run", NEW k \in 1 .. planned, NEW S \in SUBSET Step(k),
                      NEW n \in DOMAIN wait
               PROVE  LET D     == Settled(k - 1) \union S
                          turn  == IF S # Step(k) THEN Step(k) \ S
                                   ELSE IF k < planned THEN Step(k + 1) ELSE {}
                          value == FlagsAfter(D)
                      IN  /\ (\A c \in wait[n].lock.checks : value[c[1]] = c[2]) <=> n \in turn
                          /\ (\A c \in wait[n].lock.checks \union {wait[n].lock.signal} :
                                value[c[1]] >= c[2]) <=> n \in D
    BY DEF OnlyTheTurnPasses
  <2> DEFINE D     == Settled(k - 1) \union S
             turn  == IF S # Step(k) THEN Step(k) \ S
                      ELSE IF k < planned THEN Step(k + 1) ELSE {}
             value == FlagsAfter(D)
             j     == IF S # Step(k) THEN k - 1 ELSE k
  <2>1. planned \in Nat /\ k \in Nat /\ k - 1 \in Nat /\ j \in 0 .. planned /\ 1 .. planned \subseteq DOMAIN order
    BY <2>0, PlannedSteps DEF ConstraintInv, PlanningInv
  <2>2. Settled(k) = Settled(k - 1) \union Step(k)
    <3>1. \A i : i \in 1 .. k <=> i \in 1 .. k - 1 \/ i = k
      BY <2>1
    <3>2. QED
      BY <3>1 DEF Settled
  <2>3. \A m \in Settled(k - 1) : m \notin Step(k)
    <3> SUFFICES ASSUME NEW m \in Settled(k - 1), m \in Step(k)
                 PROVE  FALSE
      OBVIOUS
    <3>1. PICK i \in 1 .. k - 1 : m \in Step(i)
      BY DEF Settled
    <3>2. i \in 1 .. planned /\ i # k
      BY <2>1
    <3>3. QED
      BY <2>0, <2>1, <3>1, <3>2, StepsDisjoint
  <2>4. k < planned => \A m \in Settled(k) : m \notin Step(k + 1)
    <3> SUFFICES ASSUME k < planned, NEW m \in Settled(k), m \in Step(k + 1)
                 PROVE  FALSE
      OBVIOUS
    <3>1. PICK i \in 1 .. k : m \in Step(i)
      BY DEF Settled
    <3>2. i \in 1 .. planned /\ i # k + 1 /\ k + 1 \in 1 .. planned
      BY <2>1
    <3>3. QED
      BY <2>0, <2>1, <3>1, <3>2, StepsDisjoint
  <2>5. Settles(j, D)
    <3>1. CASE S # Step(k)
      <4>1. j = k - 1 /\ j + 1 = k /\ j < planned
        BY <2>1, <3>1
      <4>2. PICK m \in Step(k) : m \notin S
        BY <3>1
      <4>3. m \notin D
        BY <2>3, <4>2
      <4>4. Settled(j) \subseteq D /\ D \subseteq Settled(j) \union Step(j + 1) /\ ~ (Step(j + 1) \subseteq D)
        BY <4>1, <4>2, <4>3
      <4>5. QED
        BY <4>1, <4>4 DEF Settles
    <3>2. CASE S = Step(k)
      <4>1. j = k /\ D = Settled(k)
        BY <2>2, <3>2
      <4>2. j < planned => ~ (Step(j + 1) \subseteq D)
        <5>1. order[k + 1] \in Step(k + 1)
          BY DEF Step, GetAsynchronousNodes
        <5>2. SUFFICES ASSUME k < planned, order[k + 1] \in Settled(k)
                       PROVE  FALSE
          BY <4>1, <5>1
        <5>3. PICK i \in 1 .. k : order[k + 1] \in Step(i)
          BY <5>2 DEF Settled
        <5>4. i \in 1 .. planned /\ i # k + 1 /\ k + 1 \in 1 .. planned
          BY <2>1, <5>2
        <5>5. QED
          BY <2>0, <2>1, <5>1, <5>3, <5>4, StepsDisjoint
      <4>3. QED
        BY <4>1, <4>2 DEF Settles
    <3>3. QED
      BY <3>1, <3>2
  <2>6. LevelOf(value, D)
    <3>1. D \subseteq DOMAIN wait
      <4>1. \A i \in 1 .. k : i \in 1 .. planned
        BY <2>1
      <4>2. Settled(k) \subseteq Settled(planned)
        BY <4>1 DEF Settled
      <4>3. QED
        BY <2>0, <2>2, <4>2 DEF ConstraintInv, PlanningInv
    <3>2. QED
      BY <2>0, <3>1, FlagsAfterLevel
  <2>7. n \in turn <=> j < planned /\ n \in Step(j + 1) \ D
    <3>1. CASE S # Step(k)
      <4>1. j + 1 = k /\ j < planned
        BY <2>1, <3>1
      <4>2. QED
        BY <2>3, <3>1, <4>1
    <3>2. CASE S = Step(k)
      <4>1. j = k /\ D = Settled(k)
        BY <2>2, <3>2
      <4>2. QED
        BY <2>4, <3>2, <4>1
    <3>3. QED
      BY <3>1, <3>2
  <2> HIDE DEF D, turn, value, j
  <2>8. /\ n \in D <=> value[Sig(n)[1]] >= Sig(n)[2]
        /\ n \in D => \A c \in Checks(n) : value[c[1]] >= c[2]
        /\ (\A c \in Checks(n) : value[c[1]] = c[2]) <=> j < planned /\ n \in Step(j + 1) \ D
    BY <2>0, <2>1, <2>5, <2>6, TurnPasses
  <2>9. QED
    BY <2>7, <2>8 DEF Sig, Checks, D, turn, value
<1>2. QED
  BY <1>1, PlanInit, PlanNext, PTL DEF GenSpec

=============================================================================
