--------------------------- MODULE MessageOrdering ---------------------------
(***************************************************************************)
(* The generator's half of message passing (StatementMessage.cpp): while   *)
(* the random program is built, each message statement is registered as a  *)
(* node with the thread that will run it; Message::CreateOrdering then     *)
(* draws a random order of the nodes, some of them in pairs that may       *)
(* update the message at the same time, and turns the order into flag      *)
(* constraints: what a node waits for, what it signals, and how a thread   *)
(* that skipped a node signals on its behalf.                              *)
(*                                                                         *)
(* One action is one iteration of the loop it models.  A node is its index *)
(* in nodes_; a flag is one of the first four fields of the message; a     *)
(* constraint is a pair <<flag, value>>.                                   *)
(***************************************************************************)
EXTENDS Naturals, Sequences, FiniteSets

CONSTANTS
  ThreadsPerGroup,  \* CUDAProgramGenerator::get_threads_per_group()
  MaxNodes,         \* bound on the message statements of one program
  Fields            \* the message's payload fields (ten of them in the code)

ASSUME ThreadsAssumption == ThreadsPerGroup \in Nat \ {0}
ASSUME NodesAssumption   == MaxNodes \in Nat \ {0}

VARIABLES
  phase,      \* "register" -> "order" -> "plan" -> "run"
  nodes,      \* nodes_: the thread of each node, in registration order
  left,       \* [Tid -> set of nodes]: sb_graph_ from the iterator to the end
  lastTids,   \* last_tids: the threads of the step picked last
  order,      \* nodes_order_
  async,      \* nodes_async_: the partner picked with a node, if any
  flag,       \* flag1 .. flag4: the value each flag has been given so far
  flagSet,    \* flag_set: the pair of flags in use
  previous,   \* previous: the nodes of the step planned last
  planned,    \* number of steps of the order already planned
  wait,       \* the waits made: node -> [lock, unlocks]
  unlocks,    \* unlock_map
  endChecks,  \* end_checks_
  updates     \* node -> the fields its update block assigns

ordVars == <<nodes, left, lastTids, order, async>>
planVars == <<flag, flagSet, previous, planned, wait, unlocks, endChecks, updates>>
genVars == <<phase, ordVars, planVars>>

-----------------------------------------------------------------------------

\* StatementMessage::make_random: tids are drawn below min(group size, 5).
TidMax == IF ThreadsPerGroup > 5 THEN 5 ELSE ThreadsPerGroup
Tid == 0 .. TidMax - 1
Node == 1 .. MaxNodes
Flag == 1 .. 4

\* sb_graph_[t]: the nodes of thread t, sequenced before by their index.
sbGraph(t) == {n \in DOMAIN nodes : nodes[n] = t}
SbLater(m, n) == /\ m \in DOMAIN nodes /\ n \in DOMAIN nodes
                 /\ nodes[m] = nodes[n] /\ m > n
\* Mutant: iterate from the end of the list.
First_FromTheEnd(S) == CHOOSE n \in S : \A m \in S : m <= n
First(S) == CHOOSE n \in S : \A m \in S : n <= m

\* GetAsynchronousNodes: a node of the order together with its partner.
GetAsynchronousNodes(n) == async[n] \union {n}

\* The threads the next node may come from: those of the step before are
\* left out of the distribution table, and an empty list has weight 0.
Eligible == {t \in Tid \ lastTids : left[t] # {}}

GenInit ==
  /\ phase = "register"
  /\ nodes = <<>>
  /\ left = [t \in Tid |-> {}]
  /\ lastTids = {}
  /\ order = <<>>
  /\ async = [n \in Node |-> {}]
  /\ flag = [f \in Flag |-> 0]
  /\ flagSet = 0
  /\ previous = {}
  /\ planned = 0
  /\ wait = [n \in {} |-> {}]
  /\ unlocks = [n \in Node |-> <<>>]
  /\ endChecks = [t \in Tid |-> <<>>]
  /\ updates = [n \in Node |-> {}]

\* A message statement is generated for thread t and registered.
RegisterUpdate(t) ==
  /\ phase = "register"
  /\ Len(nodes) < MaxNodes
  /\ nodes' = Append(nodes, t)
  /\ UNCHANGED <<phase, left, lastTids, order, async, planVars>>

\* CreateOrdering begins: the nodes are split by thread.  Without a message
\* statement there is no message, and nothing to order.
SplitByThread ==
  /\ phase = "register"
  /\ nodes # <<>>
  /\ phase' = "order"
  /\ left' = [t \in Tid |-> sbGraph(t)]
  /\ UNCHANGED <<nodes, lastTids, order, async, planVars>>

\* Mutant: the threads of all the steps so far are left out, not just the last.
PickNode_KeepLastTids(t) ==
  /\ phase = "order"
  /\ t \in Eligible
  /\ order' = Append(order, First(left[t]))
  /\ left' = [left EXCEPT ![t] = @ \ {First(@)}]
  /\ lastTids' = lastTids \union {t}
  /\ UNCHANGED <<phase, nodes, async, planVars>>

\* The next step of the order is the next node of thread t alone.
PickNode(t) ==
  /\ phase = "order"
  /\ t \in Eligible
  /\ order' = Append(order, First(left[t]))
  /\ left' = [left EXCEPT ![t] = @ \ {First(@)}]
  /\ lastTids' = {t}
  /\ UNCHANGED <<phase, nodes, async, planVars>>

\* The next step is the next node of t, with the next node of another thread
\* u as its asynchronous partner.
PickPair(t, u) ==
  /\ phase = "order"
  /\ {t, u} \subseteq Eligible
  /\ t # u
  /\ order' = Append(order, First(left[t]))
  /\ async' = [async EXCEPT ![First(left[t])] = @ \union {First(left[u])}]
  /\ left' = [left EXCEPT ![t] = @ \ {First(@)}, ![u] = @ \ {First(@)}]
  /\ lastTids' = {t, u}
  /\ UNCHANGED <<phase, nodes, planVars>>

\* Only threads of the last step, if any, have nodes left: these are dropped.
StopPicking ==
  /\ phase = "order"
  /\ Eligible = {}
  /\ phase' = "plan"
  /\ UNCHANGED <<ordVars, planVars>>

-----------------------------------------------------------------------------
(* The constraints of one step of the order.                               *)

\* SelectConstraint: slot 1 is fvar1 or fvar3, slot 2 is fvar2 or fvar4.
FlagOf(set, slot) == 2 * set + slot

\* Mutant: the counter is advanced before the constraint is made.
Current_Advanced(f) == <<f, flag[f] + 1>>
Current(f) == <<f, flag[f]>>

\* What the step before leaves behind: one flag, or both after a pair (and
\* before the first step).
Constraints ==
  {Current(FlagOf(flagSet, 1))} \union
  (IF Cardinality(previous) # 1 THEN {Current(FlagOf(flagSet, 2))} ELSE {})

\* A pair signals the other set of flags, and so does the step after it.
Flips(group) == flagSet = 1 \/ Cardinality(group) = 2
NextSet(group) == IF Flips(group) THEN 1 - flagSet ELSE flagSet

\* Mutant: the flag about to be signalled is not checked when the set of flags
\* changes.
Lock_NoFlipCheck(group, slot) ==
  LET f == FlagOf(NextSet(group), slot)
  IN  [checks |-> Constraints, signal |-> <<f, flag[f] + 1>>]

Lock(group, slot) ==
  LET f == FlagOf(NextSet(group), slot)
  IN  [checks |-> Constraints \union (IF Flips(group) THEN {Current(f)} ELSE {}),
       signal |-> <<f, flag[f] + 1>>]

\* Mutant: the partner does not leave out the fields the other node updates.
MakeUpdates_AllForPartner(main, group, mine) ==
  [n \in Node |-> IF n = main THEN mine
                  ELSE IF n \in group THEN Fields ELSE updates[n]]

\* The fields of a step's updates: any subset for the node of the order
\* (MakeUpdate), the fields it leaves for its partner (MakeAsynchronousUpdate).
MakeUpdates(main, group, mine) ==
  [n \in Node |-> IF n = main THEN mine
                  ELSE IF n \in group THEN Fields \ mine ELSE updates[n]]

\* The node of the order signals through slot 1, its partner through slot 2.
LockOf(n, main) == Lock(GetAsynchronousNodes(main), IF n = main THEN 1 ELSE 2)

\* MakeWait: a node takes the unlocks collected for it so far.
MakeWaits(main, group) ==
  [n \in DOMAIN wait \union group |->
     IF n \in group THEN [lock |-> LockOf(n, main), unlocks |-> unlocks[n]]
     ELSE wait[n]]

\* Mutant: only the node of the order is unlocked, never its partner.
PushUnlocks_NotPartner(main, group) ==
  [m \in Node |-> IF SbLater(m, main) THEN Append(unlocks[m], LockOf(main, main))
                  ELSE unlocks[m]]

\* Each node after n on its thread is given n's lock, to open it when n is
\* skipped.
PushUnlocks(main, group) ==
  [m \in Node |->
     LET skipped == {n \in group : SbLater(m, n)}
     IN  IF skipped = {} THEN unlocks[m]
         ELSE Append(unlocks[m], LockOf(First(skipped), main))]

\* So are the end checks of n's thread.
PushEndChecks(main, group) ==
  [t \in Tid |->
     LET mine == {n \in group : nodes[n] = t}
     IN  IF mine = {} THEN endChecks[t]
         ELSE Append(endChecks[t], LockOf(First(mine), main))]

CountSignals(main, group) ==
  [f \in Flag |-> IF \E n \in group : LockOf(n, main).signal[1] = f
                    THEN flag[f] + 1 ELSE flag[f]]

PlanStep ==
  /\ phase = "plan"
  /\ planned < Len(order)
  /\ LET main  == order[planned + 1]
         group == GetAsynchronousNodes(main)
     IN  /\ wait' = MakeWaits(main, group)
         /\ \E mine \in SUBSET Fields : updates' = MakeUpdates(main, group, mine)
         /\ unlocks' = PushUnlocks(main, group)
         /\ endChecks' = PushEndChecks(main, group)
         /\ flag' = CountSignals(main, group)
         /\ flagSet' = NextSet(group)
         /\ previous' = group
  /\ planned' = planned + 1
  /\ UNCHANGED <<phase, ordVars>>

\* The whole order is planned; the kernel can be written out and run.
EndPlanning ==
  /\ phase = "plan"
  /\ planned = Len(order)
  /\ phase' = "run"
  /\ UNCHANGED <<ordVars, planVars>>

GenNext ==
  \/ \E t \in Tid : RegisterUpdate(t)
  \/ SplitByThread
  \/ \E t \in Tid : PickNode(t)
  \/ \E t, u \in Tid : PickPair(t, u)
  \/ StopPicking
  \/ PlanStep
  \/ EndPlanning

-----------------------------------------------------------------------------
(* Properties.                                                             *)

\* The generator on its own stops when the plan is made.
GenDone == phase = "run" /\ UNCHANGED genVars
GenSpec == GenInit /\ [][GenNext \/ GenDone]_genVars

Step(k) == GetAsynchronousNodes(order[k])
Placed == UNION {Step(k) : k \in DOMAIN order}
Settled(k) == UNION {Step(j) : j \in 1 .. k}
Constraint == Flag \X Nat
LockType == [checks : SUBSET Constraint, signal : Constraint]

\* Every variable stays within the values the C++ types give it: nodes of
\* known threads, at most one partner per node, locks over the four flags.
TypeOK ==
  /\ phase \in {"register", "order", "plan", "run"}
  /\ nodes \in Seq(Tid) /\ Len(nodes) <= MaxNodes
  /\ left \in [Tid -> SUBSET Node]
  /\ lastTids \in SUBSET Tid
  /\ order \in Seq(Node)
  /\ async \in [Node -> SUBSET Node]
  /\ flag \in [Flag -> Nat]
  /\ flagSet \in {0, 1}
  /\ previous \in SUBSET Node
  /\ planned \in Nat
  /\ DOMAIN wait \subseteq Node
  /\ \A n \in DOMAIN wait : /\ wait[n].lock \in LockType
                            /\ wait[n].unlocks \in Seq(LockType)
  /\ unlocks \in [Node -> Seq(LockType)]
  /\ endChecks \in [Tid -> Seq(LockType)]
  /\ updates \in [Node -> SUBSET Fields]

\* The order CreateOrdering draws is one the threads can follow: no node is in
\* two steps, no step has two nodes of one thread, and when a node is in the
\* order, so are the nodes its thread registered before it, in earlier steps.
\* Picking stops early, but drops nothing from the middle of a thread.
FollowsSequencedBefore ==
  \A k \in DOMAIN order : \A n \in Step(k) :
    /\ \A m \in DOMAIN nodes :
         SbLater(n, m) => \E j \in 1 .. k - 1 : m \in Step(j)
    /\ \A j \in DOMAIN order : \A m \in Step(j) :
         (nodes[m] = nodes[n] /\ j >= k) => (j = k /\ m = n) \/ SbLater(m, n)

\* When the order is complete, every node that was dropped from it belongs to
\* a thread of its last step: no thread that could have gone on was left out.
OnlyLastThreadsDropped ==
  phase \in {"plan", "run"} =>
    \A n \in DOMAIN nodes \ Placed :
      \E m \in Step(Len(order)) : SbLater(n, m)

\* The flags of the message when exactly the nodes of D have signalled.
FlagsAfter(D) ==
  [f \in Flag |->
     LET values == {0} \union {wait[n].lock.signal[2] :
                                 n \in {m \in D : wait[m].lock.signal[1] = f}}
     IN  CHOOSE v \in values : \A w \in values : w <= v]

\* The checks the generator writes let through exactly the nodes whose turn it
\* is.  At every point of the run -- all steps before step k settled and,
\* when step k is a pair, perhaps one of the two -- the equality checks of a
\* node hold if and only if it is a node of step k still to signal, and its
\* early break fires if and only if it has signalled.  Four flags reused in two
\* sets, a partner that checks three of them: no stale value may match again.
OnlyTheTurnPasses ==
  phase = "run" => \A k \in 1 .. planned : \A S \in SUBSET Step(k) :
    LET D     == Settled(k - 1) \union S
        turn  == IF S # Step(k) THEN Step(k) \ S
                 ELSE IF k < planned THEN Step(k + 1) ELSE {}
        value == FlagsAfter(D)
    IN  \A n \in DOMAIN wait :
          /\ (\A c \in wait[n].lock.checks : value[c[1]] = c[2]) <=> n \in turn
          /\ (\A c \in wait[n].lock.checks \union {wait[n].lock.signal} :
                value[c[1]] >= c[2]) <=> n \in D

\* A thread that reaches a node has, in that node's wait block, the locks of
\* all the nodes it may have skipped on the way, and in its end checks those of
\* all its nodes: nothing planned after a wait is made is missing from it.
EveryLockHasAnUnlocker ==
  \A n \in DOMAIN wait :
    LET later == {m \in DOMAIN wait : SbLater(m, n)}
    IN  /\ \A m \in later : \E i \in DOMAIN wait[m].unlocks :
             wait[m].unlocks[i] = wait[n].lock
        /\ \E i \in DOMAIN endChecks[nodes[n]] :
             endChecks[nodes[n]][i] = wait[n].lock

=============================================================================
