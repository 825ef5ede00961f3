------------------------- MODULE MessagePassingProofs -------------------------
(***************************************************************************)
(* Theorems about the kernel's half of message passing: whatever the plan, *)
(* the control flow of the threads, their schedule and the barriers of the *)
(* program, the spin loops the generator writes let the nodes update the   *)
(* message in the order drawn.                                             *)
(***************************************************************************)
EXTENDS MessageBarrier, MessageOrderingProofs

-----------------------------------------------------------------------------
(* The inductive invariant.  Its parts are about a position P of thread t, *)
(* the value of the flags and the set D of the nodes passed.               *)

Positions ==
  {"body", "early", "unlock", "set", "check", "load", "store", "signal", "break", "done"}
IsPosition(P) == P = Place(P.at, P.node, P.i, P.todo) /\ P.at \in Positions

LocksAt(t, P) == IF P.node = 0 THEN endChecks[t] ELSE wait[P.node].unlocks

\* All the checks but those of todo have been reached.
Reached(checks, todo, value) == \A c \in checks \ todo : value[c[1]] >= c[2]

\* The check a lock makes of the flag it signals.
OwnCheck(lock) == <<lock.signal[1], lock.signal[2] - 1>>

\* A thread is only ever at nodes of its own, and goes past the early break of
\* one only while that node has not been passed.
AtOwnNode(t, P, D) ==
  /\ P.node # 0 => P.node \in DOMAIN wait /\ nodes[P.node] = t
  /\ P.at \in {"early", "check", "load", "store", "signal"} => P.node # 0
  /\ P.at \in {"unlock", "set", "check", "load", "store", "signal"} /\ P.node # 0
       => P.node \notin D

\* What it has read of the node's checks is still reached, all of them when it
\* updates the message.
ChecksRead(P, value) ==
  /\ P.at = "early" => P.todo \subseteq Passed(wait[P.node].lock)
  /\ P.at = "check" => P.todo \subseteq Checks(P.node) /\ Reached(Checks(P.node), P.todo, value)
  /\ P.at \in {"load", "store", "signal"} => Reached(Checks(P.node), {}, value)
  /\ P.at \in {"load", "store"} => P.todo \subseteq updates[P.node]

\* So is what it has read of a lock it may open, and when that includes the flag
\* to be signalled, the lock is still closed.
UnlockRead(t, P, value) ==
  P.at \in {"unlock", "set"} =>
    /\ P.i \in DOMAIN LocksAt(t, P)
    /\ LET lock == LocksAt(t, P)[P.i]
       IN  /\ P.todo \subseteq lock.checks
           /\ Reached(lock.checks, P.todo, value)
           /\ OwnCheck(lock) \notin P.todo => value[lock.signal[1]] < lock.signal[2]
           /\ P.at = "set" => P.todo = {}

ThreadInv(t, P, value, D) ==
  AtOwnNode(t, P, D) /\ ChecksRead(P, value) /\ UnlockRead(t, P, value)

\* The flags are where the nodes passed leave them, and these are some first
\* steps of the order and perhaps a part of the next.
FlagsInv ==
  /\ LevelOf(mem, PassedNodes)
  /\ \E j \in 0 .. planned : Settles(j, PassedNodes)

KernelInv ==
  /\ mem \in [Flag -> Nat] /\ pc = [t \in Tid |-> pc[t]]
  /\ \A t \in Tid : IsPosition(pc[t])
  /\ phase # "run" => mem = [f \in Flag |-> 0] /\ pc = [t \in Tid |-> Body]
  /\ phase = "run" => FlagsInv /\ \A t \in Tid : ThreadInv(t, pc[t], mem, PassedNodes)

-----------------------------------------------------------------------------
(* Facts about locks.                                                      *)

\* A node with a lock is registered, and a planned step has it.
LEMMA NodesOfWaits ==
  ASSUME PlanInv, NEW n \in DOMAIN wait
  PROVE  /\ n \in Node /\ n \in Nat /\ n # 0 /\ nodes[n] \in Tid
         /\ \E k \in 1 .. planned : k \in DOMAIN order /\ n \in Step(k)
<1>0. TypeOK /\ OrderInv /\ ConstraintInv
  BY DEF PlanInv
<1>1. PICK k \in 1 .. planned : n \in Step(k)
  BY <1>0 DEF ConstraintInv, PlanningInv, Settled
<1>2. k \in DOMAIN order
  BY <1>0, PlannedSteps DEF ConstraintInv, PlanningInv
<1>3. n \in Node /\ n \in Nat /\ nodes[n] \in Tid
  BY <1>0, <1>1, <1>2, NodesOfSteps
<1>4. n # 0
  BY <1>3, NodesAssumption DEF Node
<1>5. QED
  BY <1>1, <1>2, <1>3, <1>4

\* A node's lock checks the flag it signals, at the value before.
LEMMA OwnCheckMade ==
  ASSUME PlanInv, NEW n \in DOMAIN wait
  PROVE  /\ OwnCheck(wait[n].lock) \in wait[n].lock.checks
         /\ \A value : value[OwnCheck(wait[n].lock)[1]] = OwnCheck(wait[n].lock)[2]
              => value[wait[n].lock.signal[1]] < wait[n].lock.signal[2]
<1>1. PICK k \in 1 .. planned : n \in Step(k)
  BY NodesOfWaits
<1>2. OwnCheck(wait[n].lock) \in wait[n].lock.checks
  BY <1>1 DEF PlanInv, ConstraintInv, ChecksFit, OwnCheck, Sig, Checks
<1>3. wait[n].lock.signal[2] \in Nat
  BY LocksTyped DEF PlanInv, Sig
<1>4. QED
  BY <1>2, <1>3 DEF OwnCheck

\* The locks a thread may open are those of other nodes of its own.
LEMMA LocksAreOwn ==
  ASSUME PlanInv, NEW t \in Tid, NEW P, NEW D, AtOwnNode(t, P, D),
         NEW i \in DOMAIN LocksAt(t, P)
  PROVE  \E q \in DOMAIN wait : /\ nodes[q] = t /\ q # P.node /\ LocksAt(t, P)[i] = wait[q].lock
                                /\ P.node # 0 => SbLater(P.node, q)
<1>0. TypeOK /\ UnlockInv
  BY DEF PlanInv
<1>1. CASE P.node = 0
  <2>1. LocksAt(t, P) = endChecks[t]
    BY <1>1 DEF LocksAt
  <2>2. PICK q \in DOMAIN wait : nodes[q] = t /\ endChecks[t][i] = wait[q].lock
    BY <1>0, <2>1 DEF UnlockInv
  <2>3. QED
    BY <1>1, <2>1, <2>2, NodesOfWaits
<1>2. CASE P.node # 0
  <2>1. P.node \in DOMAIN wait /\ nodes[P.node] = t /\ P.node \in Node
    BY <1>2, NodesOfWaits DEF AtOwnNode
  <2>2. LocksAt(t, P) = UnlocksOf(P.node)
    BY <1>2, <2>1 DEF LocksAt, UnlocksOf
  <2>3. PICK q \in DOMAIN wait : SbLater(P.node, q) /\ UnlocksOf(P.node)[i] = wait[q].lock
    BY <1>0, <2>1, <2>2 DEF UnlockInv
  <2>4. q # P.node /\ nodes[q] = t
    <3>1. q \in Nat
      BY NodesOfWaits
    <3>2. QED
      BY <2>1, <2>3, <3>1 DEF SbLater
  <2>5. QED
    BY <2>2, <2>3, <2>4
<1>3. QED
  BY <1>1, <1>2

-----------------------------------------------------------------------------
(* Passing one more node.                                                  *)

\* A node whose checks have all been reached, and which has not been passed, is
\* of the step whose turn it is.
LEMMA OpenNode ==
  ASSUME PlanInv, FlagsInv, NEW p \in DOMAIN wait,
         Reached(Checks(p), {}, mem), p \notin PassedNodes
  PROVE  /\ \A c \in Checks(p) : mem[c[1]] = c[2]
         /\ \E j \in 0 .. planned : /\ Settles(j, PassedNodes) /\ j < planned
                                    /\ p \in Step(j + 1)
<1>1. PICK j \in 0 .. planned : Settles(j, PassedNodes)
  BY DEF FlagsInv
<1>2. \A c \in Checks(p) : mem[c[1]] >= c[2]
  BY DEF Reached
<1>3. /\ (\A c \in Checks(p) : mem[c[1]] = c[2]) <=> j < planned /\ p \in Step(j + 1) \ PassedNodes
      /\ p \notin PassedNodes /\ (\A c \in Checks(p) : mem[c[1]] >= c[2])
           => j < planned /\ p \in Step(j + 1) \ PassedNodes
  BY <1>1, TurnPasses DEF FlagsInv, PlanInv
<1>4. QED
  BY <1>1, <1>2, <1>3

\* What is said of the plan and of a position stays while the plan does.
LEMMA PlanStays ==
  ASSUME UNCHANGED genVars
  PROVE  /\ phase' = phase /\ nodes' = nodes /\ order' = order /\ async' = async
         /\ wait' = wait /\ endChecks' = endChecks /\ updates' = updates /\ planned' = planned
         /\ \A k : Step(k)' = Step(k) /\ Settled(k)' = Settled(k)
         /\ \A n : Sig(n)' = Sig(n) /\ Checks(n)' = Checks(n)
         /\ \A j, D : Settles(j, D)' <=> Settles(j, D)
         /\ \A value, D : LevelOf(value, D)' <=> LevelOf(value, D)
         /\ \A t, P, value, D : ThreadInv(t, P, value, D)' <=> ThreadInv(t, P, value, D)
<1>1. /\ phase' = phase /\ nodes' = nodes /\ order' = order /\ async' = async
      /\ wait' = wait /\ endChecks' = endChecks /\ updates' = updates /\ planned' = planned
  BY DEF genVars, ordVars, planVars
<1>2. \A k : Step(k)' = Step(k) /\ Settled(k)' = Settled(k)
  BY <1>1 DEF Step, Settled, GetAsynchronousNodes
<1>3. \A n : Sig(n)' = Sig(n) /\ Checks(n)' = Checks(n)
  BY <1>1 DEF Sig, Checks
<1>4. /\ \A j, D : Settles(j, D)' <=> Settles(j, D)
      /\ \A value, D : LevelOf(value, D)' <=> LevelOf(value, D)
  BY <1>1, <1>2, <1>3 DEF Settles, LevelOf
<1>5. \A t, P, value, D : ThreadInv(t, P, value, D)' <=> ThreadInv(t, P, value, D)
  <2>1. \A t, P, D : AtOwnNode(t, P, D)' <=> AtOwnNode(t, P, D)
    BY <1>1 DEF AtOwnNode
  <2>2. \A P, value : ChecksRead(P, value)' <=> ChecksRead(P, value)
    BY <1>1, <1>3 DEF ChecksRead
  <2>3. \A t, P : LocksAt(t, P)' = LocksAt(t, P)
    BY <1>1 DEF LocksAt
  <2>4. \A t, P, value : UnlockRead(t, P, value)' <=> UnlockRead(t, P, value)
    BY <2>3 DEF UnlockRead
  <2>5. QED
    BY <2>1, <2>2, <2>4 DEF ThreadInv
<1>6. QED
  BY <1>1, <1>2, <1>3, <1>4, <1>5

\* Its signal passes that node and no other, and leaves the flags in order.
LEMMA PassOne ==
  ASSUME PlanInv, KernelInv, phase = "run", UNCHANGED genVars,
         NEW p \in DOMAIN wait, Reached(Checks(p), {}, mem), p \notin PassedNodes,
         mem' = [mem EXCEPT ![Sig(p)[1]] = Sig(p)[2]]
  PROVE  /\ PassedNodes' = PassedNodes \union {p}
         /\ mem' \in [Flag -> Nat] /\ \A f \in Flag : mem'[f] >= mem[f]
         /\ FlagsInv'
<1>0. TypeOK /\ OrderInv /\ ConstraintInv /\ FlagsInv /\ mem \in [Flag -> Nat]
  BY DEF PlanInv, KernelInv
<1>1. PICK j \in 0 .. planned : /\ Settles(j, PassedNodes) /\ j < planned
                                /\ p \in Step(j + 1)
  BY <1>0, OpenNode
<1>2. PICK g \in Flag : g = Sig(p)[1]
  BY <1>0, LocksTyped
<1>3. mem[g] = Sig(p)[2] - 1 /\ Sig(p)[2] \in Nat
  <2>1. OwnCheck(wait[p].lock) \in Checks(p)
    BY OwnCheckMade DEF Checks
  <2>2. mem[OwnCheck(wait[p].lock)[1]] = OwnCheck(wait[p].lock)[2]
    BY <1>0, <2>1, OpenNode
  <2>3. QED
    BY <1>0, <1>2, <2>2, LocksTyped DEF OwnCheck, Sig
<1>4. /\ mem'[g] = mem[g] + 1 /\ mem'[g] = Sig(p)[2]
      /\ \A f \in Flag : f # g => mem'[f] = mem[f]
      /\ mem' \in [Flag -> Nat]
  <2>1. mem[g] \in Nat
    BY <1>0
  <2>2. mem' = [mem EXCEPT ![g] = mem[g] + 1] /\ mem[g] + 1 = Sig(p)[2]
    <3>1. mem[g] + 1 = Sig(p)[2]
      BY <1>3, <2>1
    <3>2. QED
      BY <1>2, <3>1
  <2>3. QED
    BY <1>0, <2>1, <2>2
<1>5. \A f \in Flag : mem[f] \in Nat /\ mem'[f] >= mem[f]
  BY <1>0, <1>4
<1>6. \A n \in DOMAIN wait : /\ Sig(n) = <<Sig(n)[1], Sig(n)[2]>> /\ Sig(n)[1] \in Flag
                             /\ Sig(n)[2] \in Nat
  BY <1>0, LocksTyped
<1>7. /\ \A n : n \in PassedNodes <=> n \in DOMAIN wait /\ mem[Sig(n)[1]] >= Sig(n)[2]
      /\ \A n : n \in PassedNodes' <=> n \in DOMAIN wait /\ mem'[Sig(n)[1]] >= Sig(n)[2]
  BY PlanStays DEF PassedNodes, Sig
<1>8. PassedNodes' = PassedNodes \union {p}
  <2>1. p \in PassedNodes'
    BY <1>2, <1>3, <1>4, <1>7
  <2>2. \A n \in PassedNodes : n \in PassedNodes'
    BY <1>5, <1>6, <1>7
  <2>3. ASSUME NEW n \in PassedNodes', n \notin PassedNodes, n # p
        PROVE  FALSE
    <3>1. n \in DOMAIN wait /\ mem'[Sig(n)[1]] >= Sig(n)[2] /\ ~ (mem[Sig(n)[1]] >= Sig(n)[2])
      BY <1>7, <2>3
    <3>2. Sig(n)[1] = g
      BY <1>4, <1>6, <3>1
    <3>3. Sig(n)[2] = Sig(p)[2]
      BY <1>3, <1>4, <1>5, <1>6, <3>1, <3>2
    <3>4. PICK k \in 1 .. planned : n \in Step(k)
      BY <3>1, NodesOfWaits
    <3>5. j + 1 \in 1 .. planned /\ planned \in Nat
      BY <1>0, <1>1, PlannedSteps DEF ConstraintInv, PlanningInv
    <3>6. k \in 1 .. j + 1 \/ j + 1 \in 1 .. k
      BY <3>5
    <3>7. CASE k \in 1 .. j + 1
      BY <1>0, <1>1, <1>2, <2>3, <3>2, <3>3, <3>4, <3>5, <3>7, <1>6, <3>1 DEF ConstraintInv, SignalsGrow
    <3>8. CASE j + 1 \in 1 .. k
      BY <1>0, <1>1, <1>2, <2>3, <3>2, <3>3, <3>4, <3>5, <3>8, <1>6, <3>1 DEF ConstraintInv, SignalsGrow
    <3>9. QED
      BY <3>6, <3>7, <3>8
  <2>4. QED
    BY <2>1, <2>2, <2>3
<1>9. LevelOf(mem', PassedNodes')
  <2> SUFFICES ASSUME NEW f \in Flag
               PROVE  /\ mem'[f] \in Nat
                      /\ \A n \in PassedNodes' : Sig(n)[1] = f => Sig(n)[2] <= mem'[f]
                      /\ mem'[f] = 0 \/ \E n \in PassedNodes' : Sig(n) = <<f, mem'[f]>>
    BY DEF LevelOf
  <2>1. mem'[f] \in Nat
    BY <1>4
  <2>2. \A n \in PassedNodes' : Sig(n)[1] = f => Sig(n)[2] <= mem'[f]
    BY <1>6, <1>7, <2>1
  <2>3. CASE f = g
    <3>1. Sig(p) = <<f, mem'[f]>>
      BY <1>2, <1>4, <1>6, <2>3
    <3>2. QED
      BY <1>8, <2>1, <2>2, <3>1
  <2>4. CASE f # g
    <3>1. mem'[f] = mem[f]
      BY <1>4, <2>4
    <3>2. mem[f] = 0 \/ \E n \in PassedNodes : Sig(n) = <<f, mem[f]>>
      BY <1>0 DEF FlagsInv, LevelOf
    <3>3. QED
      BY <1>8, <2>1, <2>2, <3>1, <3>2
  <2>5. QED
    BY <2>3, <2>4
<1>10. \E l \in 0 .. planned : Settles(l, PassedNodes')
  <2>1. planned \in Nat /\ j \in Nat /\ 1 .. planned \subseteq DOMAIN order
    BY <1>0, PlannedSteps DEF ConstraintInv, PlanningInv
  <2>2. CASE ~ (Step(j + 1) \subseteq PassedNodes')
    <3>1. Settles(j, PassedNodes')
      BY <1>1, <1>8, <2>2 DEF Settles
    <3>2. QED
      BY <3>1
  <2>3. CASE Step(j + 1) \subseteq PassedNodes'
    <3>1. Settled(j + 1) = Settled(j) \union Step(j + 1)
      <4>1. \A i : i \in 1 .. j + 1 <=> i \in 1 .. j \/ i = j + 1
        BY <2>1
      <4>2. QED
        BY <4>1 DEF Settled
    <3>2. PassedNodes' = Settled(j + 1)
      BY <1>1, <1>8, <2>3, <3>1 DEF Settles
    <3>3. ASSUME j + 1 < planned
          PROVE  ~ (Step(j + 1 + 1) \subseteq PassedNodes')
      <4>1. order[j + 1 + 1] \in Step(j + 1 + 1)
        BY DEF Step, GetAsynchronousNodes
      <4>2. SUFFICES ASSUME order[j + 1 + 1] \in Settled(j + 1)
                     PROVE  FALSE
        BY <3>2, <4>1
      <4>3. PICK i \in 1 .. j + 1 : order[j + 1 + 1] \in Step(i)
        BY <4>2 DEF Settled
      <4>4. i \in 1 .. planned /\ i # j + 1 + 1 /\ j + 1 + 1 \in 1 .. planned
        BY <2>1, <3>3
      <4>5. QED
        BY <1>0, <2>1, <4>1, <4>3, <4>4, StepsDisjoint
    <3>4. Settles(j + 1, PassedNodes')
      BY <3>2, <3>3 DEF Settles
    <3>5. j + 1 \in 0 .. planned
      BY <1>1, <2>1
    <3>6. QED
      BY <3>4, <3>5
  <2>4. QED
    BY <2>2, <2>3
<1>11. FlagsInv'
  BY <1>9, <1>10, PlanStays DEF FlagsInv
<1>12. QED
  BY <1>4, <1>5, <1>8, <1>11

-----------------------------------------------------------------------------
(* A step of one thread.                                                   *)

\* What a thread has read is not undone when another thread passes a node.
LEMMA OthersKeep ==
  ASSUME PlanInv, FlagsInv, mem \in [Flag -> Nat],
         NEW t \in Tid, NEW u \in Tid, u # t, NEW P, ThreadInv(u, P, mem, PassedNodes),
         NEW value \in [Flag -> Nat], NEW D \in SUBSET DOMAIN wait,
         \A f \in Flag : value[f] >= mem[f],
         \A n \in D : n \in PassedNodes \/ nodes[n] = t,
         \A n \in DOMAIN wait : n \in D <=> value[Sig(n)[1]] >= Sig(n)[2]
  PROVE  ThreadInv(u, P, value, D)
<1>1. AtOwnNode(u, P, D)
  BY DEF ThreadInv, AtOwnNode
<1>2. \A n \in DOMAIN wait : \A todo :
        Reached(Checks(n), todo, mem) => Reached(Checks(n), todo, value)
  <2> SUFFICES ASSUME NEW n \in DOMAIN wait, NEW c \in Checks(n), mem[c[1]] >= c[2]
               PROVE  value[c[1]] >= c[2]
    BY DEF Reached
  <2>1. c[1] \in Flag /\ c[2] \in Nat
    BY LocksTyped DEF PlanInv
  <2>2. mem[c[1]] \in Nat /\ value[c[1]] \in Nat /\ value[c[1]] >= mem[c[1]]
    BY <2>1
  <2>3. QED
    BY <2>1, <2>2
<1>3. ChecksRead(P, value)
  BY <1>2 DEF ThreadInv, AtOwnNode, ChecksRead
<1>4. ASSUME P.at \in {"unlock", "set"}
      PROVE  UnlockRead(u, P, value)
  <2> DEFINE lock == LocksAt(u, P)[P.i]
  <2>1. /\ P.i \in DOMAIN LocksAt(u, P)
        /\ P.todo \subseteq lock.checks
        /\ Reached(lock.checks, P.todo, mem)
        /\ OwnCheck(lock) \notin P.todo => mem[lock.signal[1]] < lock.signal[2]
        /\ P.at = "set" => P.todo = {}
    BY <1>4 DEF ThreadInv, UnlockRead
  <2>2. PICK q \in DOMAIN wait : nodes[q] = u /\ lock = wait[q].lock
    BY <2>1, LocksAreOwn DEF ThreadInv
  <2>3. Reached(lock.checks, P.todo, value)
    BY <1>2, <2>1, <2>2 DEF Checks
  <2>4. ASSUME OwnCheck(lock) \notin P.todo
        PROVE  value[lock.signal[1]] < lock.signal[2]
    <3>1. Sig(q)[1] \in Flag /\ Sig(q)[2] \in Nat /\ Sig(q) = lock.signal
      BY <2>2, LocksTyped DEF PlanInv, Sig
    <3>2. ~ (mem[Sig(q)[1]] >= Sig(q)[2])
      BY <2>1, <2>4, <3>1
    <3>3. q \notin PassedNodes
      BY <3>2 DEF PassedNodes, Sig
    <3>4. q \notin D
      BY <2>2, <3>3
    <3>5. value[Sig(q)[1]] \in Nat /\ ~ (value[Sig(q)[1]] >= Sig(q)[2])
      BY <3>1, <3>4
    <3>6. QED
      BY <3>1, <3>5
  <2>5. QED
    BY <2>1, <2>3, <2>4 DEF UnlockRead
<1>5. QED
  BY <1>1, <1>3, <1>4 DEF ThreadInv, UnlockRead

\* When thread t goes to P and passes at most nodes of its own, it is enough
\* that the invariant holds of t.
LEMMA OneThreadMoves ==
  ASSUME PlanInv, KernelInv, phase = "run", UNCHANGED genVars,
         NEW t \in Tid, NEW P, pc' = [pc EXCEPT ![t] = P], IsPosition(P),
         mem' \in [Flag -> Nat], \A f \in Flag : mem'[f] >= mem[f],
         FlagsInv', \A n \in PassedNodes' : n \in PassedNodes \/ nodes[n] = t,
         ThreadInv(t, P, mem', PassedNodes')
  PROVE  KernelInv'
<1>1. \A u \in Tid : pc'[u] = IF u = t THEN P ELSE pc[u]
  BY DEF KernelInv
<1>2. pc' = [u \in Tid |-> pc'[u]]
  BY DEF KernelInv
<1>3. \A u \in Tid : IsPosition(pc'[u])
  BY <1>1 DEF KernelInv
<1>4. /\ PassedNodes' \in SUBSET DOMAIN wait
      /\ \A n \in DOMAIN wait : n \in PassedNodes' <=> mem'[Sig(n)[1]] >= Sig(n)[2]
  BY PlanStays DEF PassedNodes, Sig
<1>5. ASSUME NEW u \in Tid
      PROVE  ThreadInv(u, pc'[u], mem', PassedNodes')
  <2>1. CASE u = t
    BY <1>1, <2>1
  <2>2. CASE u # t
    <3>1. ThreadInv(u, pc[u], mem, PassedNodes) /\ FlagsInv /\ mem \in [Flag -> Nat]
      BY DEF KernelInv
    <3>2. ThreadInv(u, pc[u], mem', PassedNodes')
      BY <1>4, <2>2, <3>1, OthersKeep
    <3>3. QED
      BY <1>1, <2>2, <3>2
  <2>3. QED
    BY <2>1, <2>2
<1>6. \A u \in Tid : ThreadInv(u, pc[u], mem, PassedNodes)'
  BY <1>5, PlanStays
<1>7. phase' = "run"
  BY PlanStays
<1>8. QED
  BY <1>2, <1>3, <1>6, <1>7 DEF KernelInv

\* Most steps pass no node.
LEMMA OneThreadReads ==
  ASSUME PlanInv, KernelInv, phase = "run", UNCHANGED genVars, mem' = mem,
         NEW t \in Tid, NEW P, pc' = [pc EXCEPT ![t] = P], IsPosition(P),
         ThreadInv(t, P, mem, PassedNodes)
  PROVE  KernelInv' /\ PassedNodes' = PassedNodes
<1>1. PassedNodes' = PassedNodes
  BY PlanStays DEF PassedNodes
<1>2. mem \in [Flag -> Nat] /\ FlagsInv
  BY DEF KernelInv
<1>3. FlagsInv'
  BY <1>1, <1>2, PlanStays DEF FlagsInv
<1>4. mem' \in [Flag -> Nat] /\ \A f \in Flag : mem'[f] >= mem[f]
  BY <1>2
<1>5. KernelInv'
  BY <1>1, <1>3, <1>4, OneThreadMoves
<1>6. QED
  BY <1>1, <1>5

\* Where a thread goes after a lock of a loop: to the next lock, nothing of it
\* read yet, to the end checks' break, or to the checks of its node.
LEMMA GoesOn ==
  ASSUME PlanInv, NEW t \in Tid, NEW n, NEW value, NEW D, NEW locks, NEW i \in Nat,
         n # 0 => n \in DOMAIN wait /\ nodes[n] = t /\ n \notin D,
         locks = IF n = 0 THEN endChecks[t] ELSE wait[n].unlocks
  PROVE  /\ IsPosition(AfterLock(t, n, locks, i))
         /\ ThreadInv(t, AfterLock(t, n, locks, i), value, D)
         /\ AfterLock(t, n, locks, i).at \in {"unlock", "break", "check"}
<1>1. CASE i < Len(locks)
  <2> DEFINE P == Place("unlock", n, i + 1, locks[i + 1].checks)
  <2>1. AfterLock(t, n, locks, i) = P
    BY <1>1 DEF AfterLock
  <2>2. /\ P.at = "unlock" /\ P.node = n /\ P.i = i + 1 /\ P.todo = locks[i + 1].checks
        /\ LocksAt(t, P) = locks /\ IsPosition(P)
    BY DEF Place, LocksAt, IsPosition, Positions
  <2> HIDE DEF P
  <2>3. AtOwnNode(t, P, D) /\ ChecksRead(P, value)
    BY <2>2 DEF AtOwnNode, ChecksRead
  <2>4. i + 1 \in DOMAIN locks
    <3>1. locks \in Seq(LockType)
      <4>1. n = 0 => endChecks[t] \in Seq(LockType)
        BY DEF PlanInv, TypeOK
      <4>2. n # 0 => wait[n].unlocks \in Seq(LockType)
        BY DEF PlanInv, TypeOK
      <4>3. QED
        BY <4>1, <4>2
    <3>2. QED
      BY <1>1, <3>1
  <2>5. PICK q \in DOMAIN wait : locks[i + 1] = wait[q].lock
    BY <2>2, <2>3, <2>4, LocksAreOwn
  <2>6. OwnCheck(locks[i + 1]) \in locks[i + 1].checks
    BY <2>5, OwnCheckMade
  <2>7. UnlockRead(t, P, value)
    BY <2>2, <2>4, <2>6 DEF UnlockRead, Reached
  <2>8. QED
    BY <2>1, <2>2, <2>3, <2>7 DEF ThreadInv
<1>2. CASE ~ (i < Len(locks)) /\ n = 0
  <2> DEFINE P == Place("break", 0, 0, Passed(Last(locks)))
  <2>1. AfterLock(t, n, locks, i) = P
    BY <1>2 DEF AfterLock
  <2>2. P.at = "break" /\ P.node = 0 /\ IsPosition(P)
    BY DEF Place, IsPosition, Positions
  <2> HIDE DEF P
  <2>3. ThreadInv(t, P, value, D)
    BY <2>2 DEF ThreadInv, AtOwnNode, ChecksRead, UnlockRead
  <2>4. QED
    BY <2>1, <2>2, <2>3
<1>3. CASE ~ (i < Len(locks)) /\ n # 0
  <2> DEFINE P == Place("check", n, 0, wait[n].lock.checks)
  <2>1. AfterLock(t, n, locks, i) = P
    BY <1>3 DEF AfterLock
  <2>2. P.at = "check" /\ P.node = n /\ P.todo = Checks(n) /\ IsPosition(P)
    BY DEF Place, IsPosition, Positions, Checks
  <2> HIDE DEF P
  <2>3. ThreadInv(t, P, value, D)
    BY <1>3, <2>2 DEF ThreadInv, AtOwnNode, ChecksRead, UnlockRead, Reached
  <2>4. QED
    BY <2>1, <2>2, <2>3
<1>4. QED
  BY <1>1, <1>2, <1>3

-----------------------------------------------------------------------------
(* The steps of the threads.  Each keeps the invariant, and is nothing, or *)
(* one node's entry, exit or skip, as far as the order of updates goes.    *)

InUpdate == {"load", "store", "signal"}
IsOpen(n) == n \in DOMAIN wait /\ n \notin PassedNodes /\ Reached(Checks(n), {}, mem)

Stutters  == Updating' = Updating /\ PassedNodes' = PassedNodes
Enters(n) == /\ IsOpen(n) /\ n \notin Updating
             /\ Updating' = Updating \union {n} /\ PassedNodes' = PassedNodes
Leaves(n) == /\ n \in Updating
             /\ Updating' = Updating \ {n} /\ PassedNodes' = PassedNodes \union {n}
Skips(n)  == /\ IsOpen(n) /\ n \notin Updating
             /\ Updating' = Updating /\ PassedNodes' = PassedNodes \union {n}
MessageStep == Stutters \/ \E n \in Node : Enters(n) \/ Leaves(n) \/ Skips(n)

\* What the invariant says of the position of a thread.
LEMMA PositionFacts ==
  ASSUME KernelInv, phase = "run", NEW t \in Tid
  PROVE  /\ IsPosition(pc[t]) /\ ThreadInv(t, pc[t], mem, PassedNodes)
         /\ pc[t].node # 0 => pc[t].node \in DOMAIN wait /\ nodes[pc[t].node] = t
         /\ pc[t].at \in {"early", "check", "load", "store", "signal"} =>
              pc[t].node # 0 /\ pc[t].node \in DOMAIN wait /\ nodes[pc[t].node] = t
         /\ pc[t].at \in {"unlock", "set", "check", "load", "store", "signal"} /\ pc[t].node # 0
              => pc[t].node \notin PassedNodes
         /\ Locks(t) = LocksAt(t, pc[t])
BY DEF KernelInv, ThreadInv, AtOwnNode, Locks, LocksAt

\* A node is updating just when its own thread is.
LEMMA UpdatingFacts ==
  ASSUME PlanInv, KernelInv, phase = "run", NEW t \in Tid
  PROVE  /\ pc[t].at \in InUpdate => pc[t].node \in Updating
         /\ \A n \in DOMAIN wait :
              nodes[n] = t => (n \in Updating <=> pc[t].node = n /\ pc[t].at \in InUpdate)
<1>1. pc[t].at \in InUpdate => pc[t].node \in Updating
  BY PositionFacts DEF Updating, InUpdate
<1>2. ASSUME NEW n \in DOMAIN wait, nodes[n] = t, n \in Updating
      PROVE  pc[t].node = n /\ pc[t].at \in InUpdate
  <2>1. PICK u \in Tid : pc[u].node = n /\ pc[u].at \in {"load", "store", "signal"}
    BY <1>2 DEF Updating
  <2>2. u = t
    BY <1>2, <2>1, PositionFacts
  <2>3. QED
    BY <2>1, <2>2 DEF InUpdate
<1>3. QED
  BY <1>1, <1>2

\* How the set of updating nodes changes with the position of one thread.
LEMMA UpdatingMoves ==
  ASSUME PlanInv, KernelInv, phase = "run", UNCHANGED genVars,
         NEW t \in Tid, NEW P, pc' = [pc EXCEPT ![t] = P],
         P.at \in InUpdate => P.node \in DOMAIN wait /\ nodes[P.node] = t
  PROVE  /\ pc[t].at \notin InUpdate /\ P.at \notin InUpdate => Updating' = Updating
         /\ pc[t].at \in InUpdate /\ P.at \in InUpdate /\ P.node = pc[t].node => Updating' = Updating
         /\ pc[t].at \notin InUpdate /\ P.at \in InUpdate =>
              P.node \notin Updating /\ Updating' = Updating \union {P.node}
         /\ pc[t].at \in InUpdate /\ P.at \notin InUpdate =>
              pc[t].node \in Updating /\ Updating' = Updating \ {pc[t].node}
<1>1. \A u \in Tid : pc'[u] = IF u = t THEN P ELSE pc[u]
  BY DEF KernelInv
<1>2. \A n : n \in Updating <=> n \in DOMAIN wait /\ \E u \in Tid : pc[u].node = n /\ pc[u].at \in InUpdate
  BY DEF Updating, InUpdate
<1>3. \A n : n \in Updating' <=> n \in DOMAIN wait /\ \E u \in Tid : pc'[u].node = n /\ pc'[u].at \in InUpdate
  BY PlanStays DEF Updating, InUpdate
<1>4. \A u \in Tid : pc[u].at \in InUpdate => pc[u].node \in DOMAIN wait /\ nodes[pc[u].node] = u
  BY PositionFacts DEF InUpdate
<1>5. \A n : n \in Updating' <=>
        \/ n = P.node /\ P.at \in InUpdate
        \/ n \in DOMAIN wait /\ \E u \in Tid : u # t /\ pc[u].node = n /\ pc[u].at \in InUpdate
  BY <1>1, <1>3
<1>6. \A n : n \in Updating <=>
        \/ n = pc[t].node /\ pc[t].at \in InUpdate
        \/ n \in DOMAIN wait /\ \E u \in Tid : u # t /\ pc[u].node = n /\ pc[u].at \in InUpdate
  BY <1>2, <1>4
<1>7. \A u \in Tid : u # t /\ pc[u].at \in InUpdate => nodes[pc[u].node] # t
  BY <1>4
<1>8. CASE pc[t].at \notin InUpdate /\ P.at \notin InUpdate
  <2>1. \A n : n \in Updating' <=> n \in Updating
    BY <1>5, <1>6, <1>8
  <2>2. QED
    BY <1>8, <2>1
<1>9. CASE pc[t].at \in InUpdate /\ P.at \in InUpdate
  <2>1. P.node = pc[t].node => \A n : n \in Updating' <=> n \in Updating
    BY <1>5, <1>6, <1>9
  <2>2. QED
    BY <1>9, <2>1
<1>10. CASE pc[t].at \notin InUpdate /\ P.at \in InUpdate
  <2>1. \A n : n \in Updating' <=> n \in Updating \/ n = P.node
    BY <1>5, <1>6, <1>10
  <2>2. P.node \notin Updating
    BY <1>6, <1>7, <1>10
  <2>3. QED
    BY <1>10, <2>1, <2>2
<1>11. CASE pc[t].at \in InUpdate /\ P.at \notin InUpdate
  <2>1. \A n : n \in Updating' <=> n \in Updating /\ n # pc[t].node
    BY <1>4, <1>5, <1>6, <1>7, <1>11
  <2>2. pc[t].node \in Updating
    BY <1>6, <1>11
  <2>3. QED
    BY <1>11, <2>1, <2>2
<1>12. QED
  BY <1>8, <1>9, <1>10, <1>11

\* A thread that moves outside the updates of its node, without a signal.
LEMMA ReadsOnly ==
  ASSUME PlanInv, KernelInv, phase = "run", UNCHANGED genVars, mem' = mem,
         NEW t \in Tid, NEW P, pc' = [pc EXCEPT ![t] = P], IsPosition(P),
         ThreadInv(t, P, mem, PassedNodes),
         pc[t].at \notin InUpdate, P.at \notin InUpdate
  PROVE  KernelInv' /\ MessageStep
<1>1. KernelInv' /\ PassedNodes' = PassedNodes
  BY OneThreadReads
<1>2. Updating' = Updating
  BY UpdatingMoves
<1>3. QED
  BY <1>1, <1>2 DEF MessageStep, Stutters

\* A thread that is not at a node has nothing to be right about.
LEMMA AtBody ==
  ASSUME NEW t, NEW value, NEW D
  PROVE  /\ IsPosition(Body) /\ ThreadInv(t, Body, value, D) /\ Body.at \notin InUpdate
         /\ IsPosition(Place("done", 0, 0, {})) /\ ThreadInv(t, Place("done", 0, 0, {}), value, D)
         /\ Place("done", 0, 0, {}).at \notin InUpdate
BY DEF Body, Place, IsPosition, Positions, ThreadInv, AtOwnNode, ChecksRead, UnlockRead, InUpdate

\* Neither has one that has just come to a node, or starts to spin again.
LEMMA AtEarlyBreak ==
  ASSUME PlanInv, NEW t, NEW n \in DOMAIN wait, nodes[n] = t, NEW value, NEW D
  PROVE  /\ IsPosition(EarlyBreak(n)) /\ ThreadInv(t, EarlyBreak(n), value, D)
         /\ EarlyBreak(n).at \notin InUpdate
<1> DEFINE P == EarlyBreak(n)
<1>1. P.at = "early" /\ P.node = n /\ P.todo = Passed(wait[n].lock) /\ IsPosition(P)
  BY DEF EarlyBreak, Place, IsPosition, Positions
<1>2. n # 0
  BY NodesOfWaits
<1> HIDE DEF P
<1>3. ThreadInv(t, P, value, D) /\ P.at \notin InUpdate
  BY <1>1, <1>2 DEF ThreadInv, AtOwnNode, ChecksRead, UnlockRead, InUpdate
<1>4. QED
  BY <1>1, <1>3 DEF P

\* A conjunct of a condition is read, and more are to come.
LEMMA FewerToRead ==
  ASSUME NEW P, IsPosition(P), NEW todo
  PROVE  LET R == [P EXCEPT !.todo = todo]
         IN  IsPosition(R) /\ R.at = P.at /\ R.node = P.node /\ R.i = P.i /\ R.todo = todo
BY DEF IsPosition, Place

\* All the checks of a lock have been read.
LEMMA AllRead ==
  ASSUME NEW P, IsPosition(P)
  PROVE  LET R == [P EXCEPT !.at = "set", !.todo = {}]
         IN  IsPosition(R) /\ R.at = "set" /\ R.node = P.node /\ R.i = P.i /\ R.todo = {}
<1> DEFINE Q == [P EXCEPT !.todo = {}]
           R == [Q EXCEPT !.at = "set"]
<1>1. IsPosition(Q) /\ Q.node = P.node /\ Q.i = P.i /\ Q.todo = {}
  BY FewerToRead
<1> HIDE DEF Q
<1>2. R = Place("set", Q.node, Q.i, Q.todo)
  BY <1>1 DEF IsPosition, Place
<1>3. IsPosition(R) /\ R.at = "set" /\ R.node = Q.node /\ R.i = Q.i /\ R.todo = Q.todo
  BY <1>2 DEF IsPosition, Place, Positions
<1>4. R = [P EXCEPT !.at = "set", !.todo = {}]
  BY <1>1 DEF Q, IsPosition, Place
<1>5. QED
  BY <1>1, <1>3, <1>4

\* A field has been loaded.
LEMMA Loaded ==
  ASSUME NEW P, IsPosition(P), NEW f
  PROVE  LET R == [P EXCEPT !.at = "store", !.i = f]
         IN  /\ IsPosition(R) /\ R.at = "store" /\ R.node = P.node /\ R.i = f
             /\ R.todo = P.todo
<1> DEFINE Q == [P EXCEPT !.i = f]
           R == [Q EXCEPT !.at = "store"]
<1>1. IsPosition(Q) /\ Q.node = P.node /\ Q.todo = P.todo /\ Q.i = f
  BY DEF IsPosition, Place
<1> HIDE DEF Q
<1>2. R = Place("store", Q.node, Q.i, Q.todo)
  BY <1>1 DEF IsPosition, Place
<1>3. /\ IsPosition(R) /\ R.at = "store" /\ R.node = Q.node /\ R.todo = Q.todo
      /\ R.i = Q.i
  BY <1>2 DEF IsPosition, Place, Positions
<1>4. R = [P EXCEPT !.at = "store", !.i = f]
  BY <1>1 DEF Q, IsPosition, Place
<1>5. QED
  BY <1>1, <1>3, <1>4

\* The locks a thread may open are a list.
LEMMA LocksIndexed ==
  ASSUME PlanInv, NEW t \in Tid, AtOwnNode(t, pc[t], PassedNodes), NEW i \in DOMAIN Locks(t)
  PROVE  /\ i \in Nat
         /\ Locks(t) = IF pc[t].node = 0 THEN endChecks[t] ELSE wait[pc[t].node].unlocks
<1>1. Locks(t) = IF pc[t].node = 0 THEN endChecks[t] ELSE wait[pc[t].node].unlocks
  BY DEF Locks
<1>2. endChecks[t] \in Seq(LockType)
  BY DEF PlanInv, TypeOK
<1>3. pc[t].node # 0 => wait[pc[t].node].unlocks \in Seq(LockType)
  BY DEF PlanInv, TypeOK, AtOwnNode
<1>4. PICK s \in Seq(LockType) : s = Locks(t)
  BY <1>1, <1>2, <1>3
<1>5. i \in Nat
  BY <1>4
<1>6. QED
  BY <1>1, <1>5

\* A thread comes to a node.
LEMMA VisitKeeps ==
  ASSUME PlanInv, KernelInv, UNCHANGED genVars, NEW t \in Tid, NEW n, Visit(t, n)
  PROVE  KernelInv' /\ MessageStep
<1>1. /\ phase = "run" /\ pc[t].at = "body" /\ n \in DOMAIN wait /\ nodes[n] = t /\ mem' = mem
      /\ pc' = [pc EXCEPT ![t] = EarlyBreak(n)]
  BY DEF Visit, At, Goto
<1>2. IsPosition(EarlyBreak(n)) /\ ThreadInv(t, EarlyBreak(n), mem, PassedNodes) /\ EarlyBreak(n).at \notin InUpdate
  BY <1>1, AtEarlyBreak
<1>3. pc[t].at \notin InUpdate
  BY <1>1 DEF InUpdate
<1>4. QED
  BY <1>1, <1>2, <1>3, ReadsOnly

\* A thread finds that its node may still come, or that the message has passed it.
LEMMA ReadEarlyKeeps ==
  ASSUME PlanInv, KernelInv, UNCHANGED genVars, NEW t \in Tid, NEW c, ReadEarly(t, c)
  PROVE  KernelInv' /\ MessageStep
<1> DEFINE n == pc[t].node
           todo == pc[t].todo \ {c}
<1>1. /\ phase = "run" /\ pc[t].at = "early" /\ c \in pc[t].todo /\ mem' = mem
      /\ pc' = [pc EXCEPT ![t] = IF Lt(c) THEN AfterLock(t, n, wait[n].unlocks, 0)
                                 ELSE IF todo = {} THEN Body
                                 ELSE [pc[t] EXCEPT !.todo = todo]]
  BY DEF ReadEarly, At, Goto
<1>2. n \in DOMAIN wait /\ nodes[n] = t /\ n # 0 /\ pc[t].todo \subseteq Passed(wait[n].lock)
  BY <1>1, PositionFacts DEF ThreadInv, ChecksRead
<1>3. pc[t].at \notin InUpdate
  BY <1>1 DEF InUpdate
<1>4. CASE Lt(c)
  <2> DEFINE P == AfterLock(t, n, wait[n].unlocks, 0)
  <2>1. n \notin PassedNodes
    <3>1. PICK j \in 0 .. planned : Settles(j, PassedNodes)
      BY <1>1 DEF KernelInv, FlagsInv
    <3>2. c \in Checks(n) \/ c = Sig(n)
      BY <1>1, <1>2 DEF Passed, Checks, Sig
    <3>3. mem[c[1]] < c[2] /\ c[1] \in Flag /\ c[2] \in Nat /\ mem[c[1]] \in Nat
      BY <1>2, <1>4, <3>2, LocksTyped DEF Lt, PlanInv, KernelInv
    <3>4. /\ n \in PassedNodes <=> mem[Sig(n)[1]] >= Sig(n)[2]
          /\ n \in PassedNodes => \A d \in Checks(n) : mem[d[1]] >= d[2]
      BY <1>1, <1>2, <3>1, TurnPasses DEF PlanInv, KernelInv, FlagsInv
    <3>5. QED
      BY <3>2, <3>3, <3>4
  <2>2. pc' = [pc EXCEPT ![t] = P]
    BY <1>1, <1>4
  <2>3. /\ IsPosition(P) /\ ThreadInv(t, P, mem, PassedNodes)
        /\ P.at \in {"unlock", "break", "check"}
    BY <1>2, <2>1, GoesOn
  <2> HIDE DEF P
  <2>4. P.at \notin InUpdate
    BY <2>3 DEF InUpdate
  <2>5. QED
    BY <1>1, <1>3, <2>2, <2>3, <2>4, ReadsOnly
<1>5. CASE ~ Lt(c) /\ todo = {}
  BY <1>1, <1>3, <1>5, AtBody, ReadsOnly
<1>6. CASE ~ Lt(c) /\ todo # {}
  <2> DEFINE P == [pc[t] EXCEPT !.todo = todo]
  <2>1. IsPosition(P) /\ P.at = "early" /\ P.node = n /\ P.todo = todo
    BY <1>1, PositionFacts, FewerToRead
  <2>2. pc' = [pc EXCEPT ![t] = P]
    BY <1>1, <1>6
  <2> HIDE DEF P
  <2>3. ThreadInv(t, P, mem, PassedNodes) /\ P.at \notin InUpdate
    BY <1>2, <2>1 DEF ThreadInv, AtOwnNode, ChecksRead, UnlockRead, InUpdate
  <2>4. QED
    BY <1>1, <1>3, <2>1, <2>2, <2>3, ReadsOnly
<1>7. QED
  BY <1>4, <1>5, <1>6

\* A thread finds that the turn is, or is not, that of a node it has skipped.
LEMMA ReadUnlockKeeps ==
  ASSUME PlanInv, KernelInv, UNCHANGED genVars, NEW t \in Tid, NEW c, ReadUnlock(t, c)
  PROVE  KernelInv' /\ MessageStep
<1> DEFINE n == pc[t].node
           i == pc[t].i
           todo == pc[t].todo \ {c}
           lock == Locks(t)[i]
<1>1. /\ phase = "run" /\ pc[t].at = "unlock" /\ c \in pc[t].todo /\ mem' = mem
      /\ pc' = [pc EXCEPT ![t] = IF ~ Eq(c) THEN AfterLock(t, n, Locks(t), i)
                                 ELSE IF todo = {} THEN [pc[t] EXCEPT !.at = "set", !.todo = {}]
                                 ELSE [pc[t] EXCEPT !.todo = todo]]
  BY DEF ReadUnlock, At, Goto
<1>2. /\ n # 0 => n \in DOMAIN wait /\ nodes[n] = t /\ n \notin PassedNodes
      /\ IsPosition(pc[t]) /\ Locks(t) = LocksAt(t, pc[t])
      /\ ThreadInv(t, pc[t], mem, PassedNodes)
  BY <1>1, PositionFacts
<1>3. /\ i \in DOMAIN Locks(t) /\ pc[t].todo \subseteq lock.checks
      /\ Reached(lock.checks, pc[t].todo, mem)
      /\ OwnCheck(lock) \notin pc[t].todo => mem[lock.signal[1]] < lock.signal[2]
  BY <1>1, <1>2 DEF ThreadInv, UnlockRead
<1>4. PICK q \in DOMAIN wait : lock = wait[q].lock
  BY <1>2, <1>3, LocksAreOwn DEF ThreadInv
<1>5. pc[t].at \notin InUpdate
  BY <1>1 DEF InUpdate
<1>6. CASE ~ Eq(c)
  <2> DEFINE P == AfterLock(t, n, Locks(t), i)
  <2>1. pc' = [pc EXCEPT ![t] = P]
    BY <1>1, <1>6
  <2>2. i \in Nat /\ Locks(t) = IF n = 0 THEN endChecks[t] ELSE wait[n].unlocks
    BY <1>2, <1>3, LocksIndexed DEF ThreadInv
  <2>3. /\ IsPosition(P) /\ ThreadInv(t, P, mem, PassedNodes)
        /\ P.at \in {"unlock", "break", "check"}
    BY <1>2, <2>2, GoesOn
  <2> HIDE DEF P
  <2>4. P.at \notin InUpdate
    BY <2>3 DEF InUpdate
  <2>5. QED
    BY <1>1, <1>5, <2>1, <2>3, <2>4, ReadsOnly
<1>7. CASE Eq(c)
  <2>1. mem[c[1]] = c[2] /\ mem[c[1]] >= c[2]
    <3>1. c[2] \in Nat
      BY <1>1, <1>3, <1>4, LocksTyped DEF PlanInv, Checks
    <3>2. QED
      BY <1>7, <3>1 DEF Eq
  <2>2. Reached(lock.checks, todo, mem)
    BY <1>3, <2>1 DEF Reached
  <2>3. OwnCheck(lock) \notin todo => mem[lock.signal[1]] < lock.signal[2]
    <3>1. OwnCheck(lock) = c => mem[lock.signal[1]] < lock.signal[2]
      BY <1>4, <2>1, OwnCheckMade
    <3>2. QED
      BY <1>3, <3>1
  <2>4. CASE todo = {}
    <3> DEFINE P == [pc[t] EXCEPT !.at = "set", !.todo = {}]
    <3>1. P.at = "set" /\ P.node = n /\ P.i = i /\ P.todo = {} /\ IsPosition(P)
      BY <1>2, AllRead
    <3>2. pc' = [pc EXCEPT ![t] = P]
      BY <1>1, <1>7, <2>4
    <3> HIDE DEF P
    <3>3. LocksAt(t, P) = Locks(t)
      BY <1>2, <3>1 DEF LocksAt
    <3>4. UnlockRead(t, P, mem)
      BY <1>3, <2>2, <2>3, <2>4, <3>1, <3>3 DEF UnlockRead
    <3>5. AtOwnNode(t, P, PassedNodes) /\ ChecksRead(P, mem) /\ P.at \notin InUpdate
      BY <1>2, <3>1 DEF AtOwnNode, ChecksRead, InUpdate
    <3>6. QED
      BY <1>1, <1>5, <3>1, <3>2, <3>4, <3>5, ReadsOnly DEF ThreadInv
  <2>5. CASE todo # {}
    <3> DEFINE P == [pc[t] EXCEPT !.todo = todo]
    <3>1. P.at = "unlock" /\ P.node = n /\ P.i = i /\ P.todo = todo /\ IsPosition(P)
      BY <1>1, <1>2, FewerToRead
    <3>2. pc' = [pc EXCEPT ![t] = P]
      BY <1>1, <1>7, <2>5
    <3> HIDE DEF P
    <3>3. LocksAt(t, P) = Locks(t)
      BY <1>2, <3>1 DEF LocksAt
    <3>4. UnlockRead(t, P, mem)
      BY <1>3, <2>2, <2>3, <3>1, <3>3 DEF UnlockRead
    <3>5. AtOwnNode(t, P, PassedNodes) /\ ChecksRead(P, mem) /\ P.at \notin InUpdate
      BY <1>2, <3>1 DEF AtOwnNode, ChecksRead, InUpdate
    <3>6. QED
      BY <1>1, <1>5, <3>1, <3>2, <3>4, <3>5, ReadsOnly DEF ThreadInv
  <2>6. QED
    BY <2>4, <2>5
<1>8. QED
  BY <1>6, <1>7

\* A thread signals for a node it has skipped: its turn has come, so it passes.
LEMMA SetUnlockKeeps ==
  ASSUME PlanInv, KernelInv, UNCHANGED genVars, NEW t \in Tid, SetUnlock(t)
  PROVE  /\ KernelInv' /\ MessageStep
         /\ \E q \in DOMAIN wait : /\ nodes[q] = t /\ q \notin PassedNodes
                                   /\ PassedNodes' = PassedNodes \union {q}
                                   /\ pc[t].node # 0 => SbLater(pc[t].node, q)
<1> DEFINE n == pc[t].node
           i == pc[t].i
           lock == Locks(t)[i]
           P == AfterLock(t, n, Locks(t), i)
<1>1. /\ phase = "run" /\ pc[t].at = "set"
      /\ mem' = [mem EXCEPT ![lock.signal[1]] = lock.signal[2]]
      /\ pc' = [pc EXCEPT ![t] = P]
  BY DEF SetUnlock, At, Goto
<1>2. /\ n # 0 => n \in DOMAIN wait /\ nodes[n] = t /\ n \notin PassedNodes
      /\ Locks(t) = LocksAt(t, pc[t]) /\ ThreadInv(t, pc[t], mem, PassedNodes)
  BY <1>1, PositionFacts
<1>3. /\ i \in DOMAIN Locks(t) /\ pc[t].todo = {}
      /\ Reached(lock.checks, {}, mem) /\ mem[lock.signal[1]] < lock.signal[2]
  BY <1>1, <1>2 DEF ThreadInv, UnlockRead
<1>4. PICK q \in DOMAIN wait : /\ nodes[q] = t /\ q # n /\ lock = wait[q].lock
                               /\ n # 0 => SbLater(n, q)
  BY <1>2, <1>3, LocksAreOwn DEF ThreadInv
<1>5. IsOpen(q)
  <2>1. Sig(q)[1] \in Flag /\ Sig(q)[2] \in Nat /\ mem[Sig(q)[1]] \in Nat
    BY LocksTyped DEF PlanInv, KernelInv
  <2>2. ~ (mem[Sig(q)[1]] >= Sig(q)[2])
    BY <1>3, <1>4, <2>1 DEF Sig
  <2>3. q \notin PassedNodes
    BY <2>2 DEF PassedNodes, Sig
  <2>4. QED
    BY <1>3, <1>4, <2>3 DEF IsOpen, Checks
<1>6. /\ PassedNodes' = PassedNodes \union {q} /\ FlagsInv'
      /\ mem' \in [Flag -> Nat] /\ \A f \in Flag : mem'[f] >= mem[f]
  <2>1. mem' = [mem EXCEPT ![Sig(q)[1]] = Sig(q)[2]]
    BY <1>1, <1>4 DEF Sig
  <2>2. QED
    BY <1>1, <1>5, <2>1, PassOne DEF IsOpen
<1>7. i \in Nat /\ Locks(t) = IF n = 0 THEN endChecks[t] ELSE wait[n].unlocks
  BY <1>2, <1>3, LocksIndexed DEF ThreadInv
<1>8. /\ IsPosition(P) /\ ThreadInv(t, P, mem', PassedNodes')
      /\ P.at \in {"unlock", "break", "check"}
  <2>1. n # 0 => n \in DOMAIN wait /\ nodes[n] = t /\ n \notin PassedNodes'
    BY <1>2, <1>4, <1>6
  <2>2. QED
    BY <1>7, <2>1, GoesOn
<1> HIDE DEF P
<1>9. \A m \in PassedNodes' : m \in PassedNodes \/ nodes[m] = t
  BY <1>4, <1>6
<1>10. KernelInv'
  BY <1>1, <1>6, <1>8, <1>9, OneThreadMoves
<1>11. Updating' = Updating /\ q \notin Updating
  <2>1. pc[t].at \notin InUpdate /\ P.at \notin InUpdate
    BY <1>1, <1>8 DEF InUpdate
  <2>2. Updating' = Updating
    BY <1>1, <2>1, UpdatingMoves
  <2>3. q \notin Updating
    BY <1>1, <1>4, <2>1, UpdatingFacts
  <2>4. QED
    BY <2>2, <2>3
<1>12. Skips(q) /\ q \in Node
  BY <1>5, <1>6, <1>11, NodesOfWaits DEF Skips
<1>13. MessageStep
  BY <1>12 DEF MessageStep
<1>14. QED
  BY <1>4, <1>5, <1>6, <1>10, <1>13 DEF IsOpen

\* Where a thread goes when its node's checks have passed, and after each field.
LEMMA NextUpdateFacts ==
  ASSUME NEW n, NEW todo
  PROVE  LET P == NextUpdate(n, todo)
         IN  /\ IsPosition(P) /\ P.node = n /\ P.at \in {"load", "signal"} /\ P.todo = todo
             /\ P.at \in InUpdate
BY DEF NextUpdate, Place, IsPosition, Positions, InUpdate

\* A thread that has reached all of its node's checks is inside its updates.
LEMMA InsideUpdates ==
  ASSUME PlanInv, NEW t, NEW P, P.node \in DOMAIN wait, nodes[P.node] = t,
         P.node \notin PassedNodes, P.at \in InUpdate,
         Reached(Checks(P.node), {}, mem), P.todo \subseteq updates[P.node]
  PROVE  ThreadInv(t, P, mem, PassedNodes)
<1>1. P.node # 0
  BY NodesOfWaits
<1>2. QED
  BY <1>1 DEF ThreadInv, AtOwnNode, ChecksRead, UnlockRead, InUpdate

\* A thread finds a constraint met, and stays met until the node signals itself.
LEMMA ReadCheckKeeps ==
  ASSUME PlanInv, KernelInv, UNCHANGED genVars, NEW t \in Tid, NEW c, ReadCheck(t, c)
  PROVE  KernelInv' /\ MessageStep
<1> DEFINE n == pc[t].node
           todo == pc[t].todo \ {c}
<1>1. /\ phase = "run" /\ pc[t].at = "check" /\ c \in pc[t].todo /\ mem' = mem
      /\ pc' = [pc EXCEPT ![t] = IF ~ Eq(c) THEN EarlyBreak(n)
                                 ELSE IF todo = {} THEN NextUpdate(n, updates[n])
                                 ELSE [pc[t] EXCEPT !.todo = todo]]
  BY DEF ReadCheck, At, Goto
<1>2. /\ n # 0 /\ n \in DOMAIN wait /\ nodes[n] = t /\ n \notin PassedNodes
      /\ IsPosition(pc[t]) /\ pc[t].todo \subseteq Checks(n)
      /\ Reached(Checks(n), pc[t].todo, mem)
  BY <1>1, PositionFacts DEF ThreadInv, ChecksRead
<1>3. pc[t].at \notin InUpdate
  BY <1>1 DEF InUpdate
<1>4. CASE ~ Eq(c)
  <2>1. pc' = [pc EXCEPT ![t] = EarlyBreak(n)]
    BY <1>1, <1>4
  <2>2. /\ IsPosition(EarlyBreak(n)) /\ ThreadInv(t, EarlyBreak(n), mem, PassedNodes)
        /\ EarlyBreak(n).at \notin InUpdate
    BY <1>2, AtEarlyBreak
  <2>3. QED
    BY <1>1, <1>3, <2>1, <2>2, ReadsOnly
<1>5. Eq(c) => Reached(Checks(n), todo, mem)
  <2>1. Eq(c) => mem[c[1]] >= c[2]
    <3>1. c[2] \in Nat
      BY <1>1, <1>2, LocksTyped DEF PlanInv
    <3>2. QED
      BY <3>1 DEF Eq
  <2>2. QED
    BY <1>2, <2>1 DEF Reached
<1>6. CASE Eq(c) /\ todo = {}
  <2> DEFINE P == NextUpdate(n, updates[n])
  <2>1. pc' = [pc EXCEPT ![t] = P]
    BY <1>1, <1>6
  <2>2. IsPosition(P) /\ P.node = n /\ P.todo = updates[n] /\ P.at \in InUpdate
    BY NextUpdateFacts
  <2> HIDE DEF P
  <2>3. Reached(Checks(n), {}, mem)
    BY <1>5, <1>6
  <2>4. ThreadInv(t, P, mem, PassedNodes)
    BY <1>2, <2>2, <2>3, InsideUpdates
  <2>5. KernelInv' /\ PassedNodes' = PassedNodes
    BY <1>1, <2>1, <2>2, <2>4, OneThreadReads
  <2>6. n \notin Updating /\ Updating' = Updating \union {n}
    BY <1>1, <1>2, <1>3, <2>1, <2>2, UpdatingMoves
  <2>7. Enters(n) /\ n \in Node
    BY <1>2, <2>3, <2>5, <2>6, NodesOfWaits DEF Enters, IsOpen
  <2>8. QED
    BY <2>5, <2>7 DEF MessageStep
<1>7. CASE Eq(c) /\ todo # {}
  <2> DEFINE P == [pc[t] EXCEPT !.todo = todo]
  <2>1. IsPosition(P) /\ P.at = "check" /\ P.node = n /\ P.todo = todo
    BY <1>1, <1>2, FewerToRead
  <2>2. pc' = [pc EXCEPT ![t] = P]
    BY <1>1, <1>7
  <2> HIDE DEF P
  <2>3. ThreadInv(t, P, mem, PassedNodes) /\ P.at \notin InUpdate
    BY <1>2, <1>5, <1>7, <2>1 DEF ThreadInv, AtOwnNode, ChecksRead, UnlockRead, InUpdate
  <2>4. QED
    BY <1>1, <1>3, <2>1, <2>2, <2>3, ReadsOnly
<1>8. QED
  BY <1>4, <1>6, <1>7

\* Where a thread stands that is inside its node's updates.
LEMMA InsideFacts ==
  ASSUME PlanInv, KernelInv, phase = "run", NEW t \in Tid, pc[t].at \in InUpdate
  PROVE  /\ pc[t].node \in DOMAIN wait /\ nodes[pc[t].node] = t
         /\ pc[t].node \notin PassedNodes /\ IsPosition(pc[t])
         /\ Reached(Checks(pc[t].node), {}, mem)
         /\ pc[t].at \in {"load", "store"} => pc[t].todo \subseteq updates[pc[t].node]
BY PositionFacts DEF InUpdate, ThreadInv, ChecksRead

\* A step within the updates.
LEMMA UpdatesOnly ==
  ASSUME PlanInv, KernelInv, phase = "run", UNCHANGED genVars, mem' = mem,
         NEW t \in Tid, NEW P, pc' = [pc EXCEPT ![t] = P], IsPosition(P),
         pc[t].at \in InUpdate, P.at \in InUpdate, P.node = pc[t].node,
         P.todo \subseteq updates[P.node]
  PROVE  KernelInv' /\ MessageStep
<1>1. ThreadInv(t, P, mem, PassedNodes)
  BY InsideFacts, InsideUpdates
<1>2. KernelInv' /\ PassedNodes' = PassedNodes
  BY <1>1, OneThreadReads
<1>3. Updating' = Updating
  BY InsideFacts, UpdatingMoves
<1>4. QED
  BY <1>2, <1>3 DEF MessageStep, Stutters

\* A load is within the update.
LEMMA LoadFieldKeeps ==
  ASSUME PlanInv, KernelInv, UNCHANGED genVars, NEW t \in Tid, NEW f, LoadField(t, f)
  PROVE  KernelInv' /\ MessageStep
<1> DEFINE P == [pc[t] EXCEPT !.at = "store", !.i = f]
<1>1. phase = "run" /\ pc[t].at = "load" /\ mem' = mem /\ pc' = [pc EXCEPT ![t] = P]
  BY DEF LoadField, At, Goto
<1>2. pc[t].at \in InUpdate /\ IsPosition(pc[t]) /\ pc[t].todo \subseteq updates[pc[t].node]
  BY <1>1, InsideFacts DEF InUpdate
<1>3. /\ IsPosition(P) /\ P.at = "store" /\ P.node = pc[t].node
      /\ P.todo = pc[t].todo
  BY <1>2, Loaded
<1> HIDE DEF P
<1>4. P.at \in InUpdate
  BY <1>3 DEF InUpdate
<1>5. QED
  BY <1>1, <1>2, <1>3, <1>4, UpdatesOnly

\* So is a store.
LEMMA StoreFieldKeeps ==
  ASSUME PlanInv, KernelInv, UNCHANGED genVars, NEW t \in Tid, StoreField(t)
  PROVE  KernelInv' /\ MessageStep
<1> DEFINE P == NextUpdate(pc[t].node, pc[t].todo \ {pc[t].i})
<1>1. phase = "run" /\ pc[t].at = "store" /\ mem' = mem /\ pc' = [pc EXCEPT ![t] = P]
  BY DEF StoreField, At, Goto
<1>2. pc[t].at \in InUpdate /\ pc[t].todo \subseteq updates[pc[t].node]
  BY <1>1, InsideFacts DEF InUpdate
<1>3. IsPosition(P) /\ P.at \in InUpdate /\ P.node = pc[t].node /\ P.todo = pc[t].todo \ {pc[t].i}
  BY NextUpdateFacts
<1> HIDE DEF P
<1>4. QED
  BY <1>1, <1>2, <1>3, UpdatesOnly

\* A signal ends the update and passes the node.
LEMMA SignalKeeps ==
  ASSUME PlanInv, KernelInv, UNCHANGED genVars, NEW t \in Tid, Signal(t)
  PROVE  KernelInv' /\ MessageStep /\ PassedNodes' = PassedNodes \union {pc[t].node}
<1> DEFINE n == pc[t].node
<1>1. /\ phase = "run" /\ pc[t].at = "signal" /\ pc' = [pc EXCEPT ![t] = Body]
      /\ mem' = [mem EXCEPT ![Sig(n)[1]] = Sig(n)[2]]
  BY DEF Signal, At, Goto, Sig
<1>2. /\ pc[t].at \in InUpdate /\ n \in DOMAIN wait /\ nodes[n] = t /\ n \notin PassedNodes
      /\ Reached(Checks(n), {}, mem)
  BY <1>1, InsideFacts DEF InUpdate
<1>3. /\ PassedNodes' = PassedNodes \union {n} /\ FlagsInv'
      /\ mem' \in [Flag -> Nat] /\ \A f \in Flag : mem'[f] >= mem[f]
  BY <1>1, <1>2, PassOne
<1>4. /\ IsPosition(Body) /\ ThreadInv(t, Body, mem', PassedNodes') /\ Body.at \notin InUpdate
  BY AtBody
<1>5. KernelInv'
  BY <1>1, <1>2, <1>3, <1>4, OneThreadMoves
<1>6. n \in Updating /\ Updating' = Updating \ {n}
  BY <1>1, <1>2, <1>4, UpdatingMoves
<1>7. Leaves(n) /\ n \in Node
  BY <1>2, <1>3, <1>6, NodesOfWaits DEF Leaves
<1>8. QED
  BY <1>3, <1>5, <1>7 DEF MessageStep

\* func_1 returns and the end checks begin.
LEMMA ReturnKeeps ==
  ASSUME PlanInv, KernelInv, UNCHANGED genVars, NEW t \in Tid, Return(t)
  PROVE  KernelInv' /\ MessageStep
<1> DEFINE P == IF endChecks[t] = <<>> THEN Place("done", 0, 0, {})
                ELSE AfterLock(t, 0, endChecks[t], 0)
<1>1. phase = "run" /\ pc[t].at = "body" /\ mem' = mem /\ pc' = [pc EXCEPT ![t] = P]
  BY DEF Return, At, Goto
<1>2. IsPosition(P) /\ ThreadInv(t, P, mem, PassedNodes) /\ P.at \notin InUpdate
  <2>1. /\ IsPosition(AfterLock(t, 0, endChecks[t], 0))
        /\ ThreadInv(t, AfterLock(t, 0, endChecks[t], 0), mem, PassedNodes)
        /\ AfterLock(t, 0, endChecks[t], 0).at \in {"unlock", "break", "check"}
    BY GoesOn
  <2>2. QED
    BY <2>1, AtBody DEF InUpdate
<1>3. pc[t].at \notin InUpdate
  BY <1>1 DEF InUpdate
<1> HIDE DEF P
<1>4. QED
  BY <1>1, <1>2, <1>3, ReadsOnly

\* A thread leaves the end checks, or stays in them.
LEMMA ReadBreakKeeps ==
  ASSUME PlanInv, KernelInv, UNCHANGED genVars, NEW t \in Tid, NEW c, ReadBreak(t, c)
  PROVE  KernelInv' /\ MessageStep
<1> DEFINE todo == pc[t].todo \ {c}
           R == [pc[t] EXCEPT !.todo = todo]
           P == IF Lt(c) THEN AfterLock(t, 0, endChecks[t], 0)
                ELSE IF todo = {} THEN Place("done", 0, 0, {}) ELSE R
<1>1. phase = "run" /\ pc[t].at = "break" /\ mem' = mem /\ pc' = [pc EXCEPT ![t] = P]
  BY DEF ReadBreak, At, Goto
<1>2. /\ IsPosition(AfterLock(t, 0, endChecks[t], 0))
      /\ ThreadInv(t, AfterLock(t, 0, endChecks[t], 0), mem, PassedNodes)
      /\ AfterLock(t, 0, endChecks[t], 0).at \in {"unlock", "break", "check"}
  BY GoesOn
<1>3. IsPosition(R) /\ ThreadInv(t, R, mem, PassedNodes) /\ R.at = "break"
  <2>1. /\ IsPosition(pc[t])
        /\ pc[t].node # 0 => pc[t].node \in DOMAIN wait /\ nodes[pc[t].node] = t
    BY <1>1, PositionFacts
  <2>2. IsPosition(R) /\ R.at = "break" /\ R.node = pc[t].node
    BY <1>1, <2>1, FewerToRead
  <2> HIDE DEF R
  <2>3. ThreadInv(t, R, mem, PassedNodes)
    BY <2>1, <2>2 DEF ThreadInv, AtOwnNode, ChecksRead, UnlockRead
  <2>4. QED
    BY <2>2, <2>3
<1> HIDE DEF R
<1>4. IsPosition(P) /\ ThreadInv(t, P, mem, PassedNodes) /\ P.at \notin InUpdate
  BY <1>2, <1>3, AtBody DEF InUpdate
<1>5. pc[t].at \notin InUpdate
  BY <1>1 DEF InUpdate
<1> HIDE DEF P
<1>6. QED
  BY <1>1, <1>4, <1>5, ReadsOnly

\* Every step of a thread.
LEMMA ThreadKeeps ==
  ASSUME PlanInv, KernelInv, NEW t \in Tid, Thread(t)
  PROVE  KernelInv' /\ MessageStep
<1>1. UNCHANGED genVars
  BY DEF Thread
<1>2. ASSUME NEW c, ReadEarly(t, c) \/ ReadUnlock(t, c) \/ ReadCheck(t, c) \/ ReadBreak(t, c)
      PROVE  KernelInv' /\ MessageStep
  BY <1>1, <1>2, ReadEarlyKeeps, ReadUnlockKeeps, ReadCheckKeeps, ReadBreakKeeps
<1>3. QED
  BY <1>1, <1>2, VisitKeeps, SetUnlockKeeps, LoadFieldKeeps, StoreFieldKeeps, SignalKeeps,
     ReturnKeeps DEF Thread, Reads

-----------------------------------------------------------------------------
(* Programs with and without barriers.                                     *)

\* Barriers only hold threads back: what a step does to the plan and to the
\* threads is a step of the generator, or of a thread, or nothing.
LEMMA BarrierSteps ==
  ASSUME [BarrierNext]_allVars
  PROVE  \/ GenNext /\ UNCHANGED runVars
         \/ \E t \in Tid : Thread(t)
         \/ UNCHANGED <<genVars, runVars>>
BY DEF BarrierNext, PlaceBarriers, Generate, Sync, RunText, allVars, vars

\* The kernel has not started.
LEMMA KernelInit == BarrierInit => PlanInv /\ KernelInv
<1> SUFFICES ASSUME BarrierInit
             PROVE  PlanInv /\ KernelInv
  OBVIOUS
<1>1. GenInit /\ RunInit
  BY DEF BarrierInit, Init
<1>2. PlanInv /\ phase = "register"
  BY <1>1, PlanInit DEF GenInit
<1>3. mem = [f \in Flag |-> 0] /\ pc = [t \in Tid |-> Body]
  BY <1>1 DEF RunInit
<1>4. IsPosition(Body)
  BY AtBody
<1>5. mem \in [Flag -> Nat] /\ pc = [t \in Tid |-> pc[t]] /\ \A t \in Tid : IsPosition(pc[t])
  BY <1>3, <1>4
<1>6. QED
  BY <1>2, <1>3, <1>5 DEF KernelInv

\* Until the plan is made nothing has run, so no node has been passed then.
LEMMA NothingPassed ==
  ASSUME PlanInv, mem = [f \in Flag |-> 0], pc = [t \in Tid |-> Body]
  PROVE  PassedNodes = {} /\ Updating = {} /\ FlagsInv
<1>0. TypeOK /\ ConstraintInv
  BY DEF PlanInv
<1>1. ASSUME NEW n \in DOMAIN wait
      PROVE  n \notin PassedNodes
  <2>1. PICK k \in 1 .. planned : n \in Step(k)
    BY NodesOfWaits
  <2>2. Sig(n)[2] > 0 /\ Sig(n)[1] \in Flag /\ Sig(n)[2] \in Nat
    BY <1>0, <2>1, LocksTyped DEF ConstraintInv, SignalsGrow
  <2>3. mem[Sig(n)[1]] = 0
    BY <2>2
  <2>4. ~ (mem[Sig(n)[1]] >= Sig(n)[2])
    BY <2>2, <2>3
  <2>5. QED
    BY <2>4 DEF PassedNodes, Sig
<1>2. PassedNodes = {}
  BY <1>1 DEF PassedNodes
<1>3. Updating = {}
  BY DEF Updating, Body, Place
<1>4. LevelOf(mem, PassedNodes)
  BY <1>2 DEF LevelOf
<1>5. Settles(0, PassedNodes)
  <2>1. Settled(0) = {}
    BY DEF Settled
  <2>2. ~ (Step(0 + 1) \subseteq {})
    BY DEF Step, GetAsynchronousNodes
  <2>3. QED
    BY <1>2, <2>1, <2>2 DEF Settles
<1>6. 0 \in 0 .. planned
  BY <1>0 DEF TypeOK
<1>7. QED
  BY <1>2, <1>3, <1>4, <1>5, <1>6 DEF FlagsInv

\* While the generator works, the flags are 0 and no thread is anywhere.
LEMMA GenerateKeeps ==
  ASSUME PlanInv', KernelInv, GenNext, UNCHANGED runVars
  PROVE  KernelInv'
<1>1. phase # "run" /\ mem' = mem /\ pc' = pc
  BY DEF GenNext, RegisterUpdate, SplitByThread, PickNode, PickPair, StopPicking, PlanStep,
         EndPlanning, runVars
<1>2. mem' = [f \in Flag |-> 0] /\ pc' = [t \in Tid |-> Body]
  BY <1>1 DEF KernelInv
<1>3. FlagsInv'
  <2>1. (PlanInv /\ mem = [f \in Flag |-> 0] /\ pc = [t \in Tid |-> Body] => FlagsInv)'
    BY NothingPassed, PTL
  <2>2. Body' = Body
    BY DEF Body, Place
  <2>3. QED
    BY <1>2, <2>1, <2>2
<1>4. \A t \in Tid : ThreadInv(t, pc[t], mem, PassedNodes)'
  <2> SUFFICES ASSUME NEW t \in Tid
               PROVE  ThreadInv(t, pc[t], mem, PassedNodes)'
    OBVIOUS
  <2>1. pc'[t].at = "body" /\ pc'[t].node = 0
    BY <1>2 DEF Body, Place
  <2>2. QED
    BY <2>1 DEF ThreadInv, AtOwnNode, ChecksRead, UnlockRead
<1>5. QED
  BY <1>1, <1>2, <1>3, <1>4 DEF KernelInv

\* Where no variable of the generator or the threads changes, nothing does.
LEMMA NothingMoves ==
  ASSUME KernelInv, UNCHANGED <<genVars, runVars>>
  PROVE  KernelInv' /\ Updating' = Updating /\ PassedNodes' = PassedNodes
<1>1. mem' = mem /\ pc' = pc
  BY DEF runVars
<1>2. Updating' = Updating /\ PassedNodes' = PassedNodes
  BY <1>1, PlanStays DEF Updating, PassedNodes
<1>3. FlagsInv' <=> FlagsInv
  BY <1>1, <1>2, PlanStays DEF FlagsInv
<1>4. \A t \in Tid : ThreadInv(t, pc[t], mem, PassedNodes)' <=> ThreadInv(t, pc[t], mem, PassedNodes)
  BY <1>1, <1>2, PlanStays
<1>5. QED
  BY <1>1, <1>2, <1>3, <1>4, PlanStays DEF KernelInv

\* Every step of the generator, of a thread and of the barriers.
LEMMA KernelNext == PlanInv /\ KernelInv /\ [BarrierNext]_allVars => PlanInv' /\ KernelInv'
<1> SUFFICES ASSUME PlanInv, KernelInv, [BarrierNext]_allVars
             PROVE  PlanInv' /\ KernelInv'
  OBVIOUS
<1>1. [GenNext \/ GenDone]_genVars
  BY BarrierSteps DEF Thread
<1>2. PlanInv'
  BY <1>1, PlanNext
<1>3. KernelInv'
  BY <1>2, BarrierSteps, GenerateKeeps, ThreadKeeps, NothingMoves
<1>4. QED
  BY <1>2, <1>3

-----------------------------------------------------------------------------
(* Theorems.                                                               *)

\* Two nodes inside their updates are of one step, and a step's nodes update
\* different fields.
LEMMA UpdatesAreApart ==
  ASSUME PlanInv, KernelInv
  PROVE  UpdatesDoNotRace
<1> SUFFICES ASSUME NEW t \in Tid, NEW u \in Tid, t # u,
                    pc[t].node \in Updating, pc[u].node \in Updating
             PROVE  /\ pc[u].node \in async[pc[t].node] \/ pc[t].node \in async[pc[u].node]
                    /\ \A f \in Fields : ~ (Touches(t, f) /\ Touches(u, f))
  BY DEF UpdatesDoNotRace
<1> DEFINE m == pc[t].node
           n == pc[u].node
<1>1. phase = "run"
  <2>1. phase # "run" => Updating = {}
    BY NothingPassed DEF KernelInv
  <2>2. QED
    BY <2>1
<1>2. /\ m \in DOMAIN wait /\ n \in DOMAIN wait /\ m # 0 /\ n # 0
      /\ nodes[m] = t /\ nodes[n] = u
  <2>1. m \in DOMAIN wait /\ n \in DOMAIN wait
    BY DEF Updating
  <2>2. QED
    BY <1>1, <2>1, NodesOfWaits, PositionFacts
<1>3. pc[t].at \in InUpdate /\ pc[u].at \in InUpdate
  BY <1>1, <1>2, UpdatingFacts
<1>4. FlagsInv
  BY <1>1 DEF KernelInv
<1>5. PICK j \in 0 .. planned : Settles(j, PassedNodes) /\ j < planned /\ m \in Step(j + 1)
  BY <1>1, <1>3, <1>4, InsideFacts, OpenNode
<1>6. n \in Step(j + 1)
  <2>1. /\ n \notin PassedNodes /\ \A c \in Checks(n) : mem[c[1]] >= c[2]
    BY <1>1, <1>3, InsideFacts DEF Reached
  <2>2. QED
    BY <1>2, <1>4, <1>5, <2>1, TurnPasses DEF PlanInv, FlagsInv
<1>7. j + 1 \in 1 .. planned /\ j + 1 \in DOMAIN order
  <2>1. planned \in Nat /\ 1 .. planned \subseteq DOMAIN order
    BY PlannedSteps DEF PlanInv, ConstraintInv, PlanningInv
  <2>2. QED
    BY <1>5, <2>1
<1>8. m # n
  BY <1>2
<1>9. n \in async[m] \/ m \in async[n]
  BY <1>5, <1>6, <1>7, <1>8, StepShape DEF PlanInv, ConstraintInv
<1>10. updates[m] \intersect updates[n] = {}
  BY <1>5, <1>6, <1>7, <1>8 DEF PlanInv, UpdatesInv
<1>11. \A f \in Fields : ~ (Touches(t, f) /\ Touches(u, f))
  <2>1. /\ pc[t].at \in {"load", "store"} => pc[t].todo \subseteq updates[m]
        /\ pc[u].at \in {"load", "store"} => pc[u].todo \subseteq updates[n]
    BY <1>1, <1>3, InsideFacts
  <2>2. QED
    BY <1>10, <2>1 DEF Touches, At
<1>12. QED
  BY <1>9, <1>11

\* The spin loops give mutual exclusion: two nodes update the message at the
\* same time only when they were drawn as a pair, and then never the same field,
\* for any group size, any plan, and any control flow and schedule of the threads.
THEOREM UpdatesNeverRace == FairBarrierSpec => []UpdatesDoNotRace
<1>1. QED
  BY KernelInit, KernelNext, UpdatesAreApart, PTL DEF FairBarrierSpec

-----------------------------------------------------------------------------
(* The kernel implements the drawn order of updates.                       *)

DrawnSteps == [k \in DOMAIN order |-> Step(k)]

\* A node that may go on is one of those whose turn it is in the order.
LEMMA OpenIsTurn ==
  ASSUME PlanInv, KernelInv, phase = "run", NEW n, IsOpen(n)
  PROVE  n \in DAG!Turn
<1>1. PICK j \in 0 .. planned : Settles(j, PassedNodes) /\ j < planned /\ n \in Step(j + 1)
  BY OpenNode DEF KernelInv, IsOpen
<1> DEFINE steps == IF Drawn THEN DrawnSteps ELSE <<>>
           open  == {k \in DOMAIN steps : ~ steps[k] \subseteq (IF Drawn THEN PassedNodes ELSE {})}
<1>2. DAG!Turn = IF open = {} THEN {} ELSE steps[CHOOSE k \in open : \A l \in open : k <= l]
  BY DEF DAG!Turn, DrawnSteps
<1>3. open = {k \in DOMAIN order : ~ Step(k) \subseteq PassedNodes}
  BY DEF Drawn, DrawnSteps
<1>4. planned \in Nat /\ 1 .. planned \subseteq DOMAIN order /\ DOMAIN order = 1 .. Len(order) /\ Len(order) \in Nat
  BY PlannedSteps DEF PlanInv, ConstraintInv, PlanningInv
<1>5. j + 1 \in open
  <2>1. j + 1 \in DOMAIN order
    BY <1>1, <1>4
  <2>2. QED
    BY <1>1, <1>3, <2>1 DEF Settles
<1>6. \A l \in open : j + 1 <= l
  <2> SUFFICES ASSUME NEW l \in open, ~ (j + 1 <= l)
               PROVE  FALSE
    OBVIOUS
  <2>1. l \in 1 .. j
    BY <1>3, <1>4
  <2>2. Step(l) \subseteq PassedNodes
    BY <1>1, <2>1 DEF Settles, Settled
  <2>3. QED
    BY <1>3, <2>2
<1>7. \A l \in open : l \in Nat
  BY <1>3, <1>4
<1> HIDE DEF open, steps
<1>8. (CHOOSE k \in open : \A l \in open : k <= l) = j + 1
  <2>1. \A k \in open : (\A l \in open : k <= l) => k = j + 1
    BY <1>5, <1>6, <1>7
  <2>2. QED
    BY <1>5, <1>6, <2>1
<1>9. DAG!Turn = steps[j + 1]
  BY <1>2, <1>5, <1>8
<1>10. steps[j + 1] = Step(j + 1)
  BY <1>3, <1>5 DEF steps, Drawn, DrawnSteps
<1>11. QED
  BY <1>1, <1>9, <1>10

\* The order is a sequence of steps of one or two nodes, no node in two of them.
LEMMA OrderIsDrawn ==
  ASSUME PlanInv
  PROVE  /\ DrawnSteps \in Seq({{m, n} : m, n \in Node})
         /\ DAG!Disjoint(DrawnSteps)
<1>0. TypeOK /\ OrderInv /\ Partners
  BY DEF PlanInv, ConstraintInv
<1> DEFINE Steps == {{m, n} : m, n \in Node}
<1>1. \A k \in DOMAIN order : Step(k) \in Steps
  <2> SUFFICES ASSUME NEW k \in DOMAIN order
               PROVE  Step(k) \in Steps
    OBVIOUS
  <2>1. order[k] \in Node
    BY <1>0 DEF TypeOK
  <2>2. CASE Step(k) = {order[k]}
    <3>1. Step(k) = {order[k], order[k]}
      BY <2>2
    <3>2. QED
      BY <2>1, <3>1
  <2>3. CASE \E p \in Node : Step(k) = {order[k], p}
    BY <2>1, <2>3
  <2>4. QED
    BY <1>0, <2>2, <2>3, StepShape
<1>2. DOMAIN order = 1 .. Len(order) /\ Len(order) \in Nat
  BY <1>0 DEF TypeOK
<1> HIDE DEF Steps
<1>3. DrawnSteps \in [1 .. Len(order) -> Steps]
  BY <1>1, <1>2 DEF DrawnSteps
<1>4. DrawnSteps \in Seq(Steps)
  BY <1>2, <1>3, SeqDef
<1>5. DAG!Disjoint(DrawnSteps)
  <2> SUFFICES ASSUME NEW i \in DOMAIN order, NEW j \in DOMAIN order, i # j
               PROVE  Step(i) \intersect Step(j) = {}
    BY DEF DAG!Disjoint, DrawnSteps
  <2>1. QED
    BY <1>0, StepsDisjoint
<1>6. QED
  BY <1>4, <1>5 DEF Steps

\* Every step is one of the abstract specification, or none at all.
LEMMA StepsImplementDAG ==
  PlanInv /\ KernelInv /\ PlanInv' /\ KernelInv' /\ [BarrierNext]_allVars => [DAG!Next]_(DAG!dagVars)
<1> SUFFICES ASSUME PlanInv, KernelInv, PlanInv', KernelInv', [BarrierNext]_allVars
             PROVE  [DAG!Next]_(DAG!dagVars)
  OBVIOUS
<1>1. CASE GenNext /\ UNCHANGED runVars
  <2>1. phase # "run" /\ (phase' = "run" => EndPlanning)
    BY <1>1 DEF GenNext, RegisterUpdate, SplitByThread, PickNode, PickPair, StopPicking, PlanStep,
                EndPlanning
  <2>2. Updating = {}
    BY <2>1, NothingPassed DEF KernelInv
  <2>3. Updating' = {} /\ PassedNodes' = {}
    <3>1. mem' = [f \in Flag |-> 0] /\ pc' = [t \in Tid |-> Body]
      BY <1>1, <2>1 DEF KernelInv, runVars
    <3>2. (PlanInv /\ mem = [f \in Flag |-> 0] /\ pc = [t \in Tid |-> Body]
             => PassedNodes = {} /\ Updating = {} /\ FlagsInv)'
      BY NothingPassed, PTL
    <3>3. Body' = Body
      BY DEF Body, Place
    <3>4. QED
      BY <3>1, <3>2, <3>3
  <2>4. CASE phase' # "run"
    BY <2>1, <2>2, <2>3, <2>4 DEF DAG!dagVars, Drawn
  <2>5. CASE phase' = "run"
    <3>1. order' = order /\ DrawnSteps' = DrawnSteps
      BY <2>1, <2>5, PlanStays DEF EndPlanning, DrawnSteps, ordVars, Step, GetAsynchronousNodes
    <3>2. DAG!Draw
      <4>1. ~ Drawn /\ Drawn'
        BY <2>1, <2>5 DEF Drawn
      <4>2. (IF Drawn THEN DrawnSteps ELSE <<>>)' = DrawnSteps
        BY <3>1, <4>1
      <4>3. /\ Drawn' = TRUE
            /\ (IF Drawn THEN PassedNodes ELSE {})' = IF Drawn THEN PassedNodes ELSE {}
        BY <2>3, <4>1
      <4>4. /\ DrawnSteps \in Seq({{m, n} : m, n \in Node})
            /\ DAG!Disjoint(DrawnSteps)
        BY OrderIsDrawn
      <4>5. /\ (IF Drawn THEN DrawnSteps ELSE <<>>)' \in Seq({{m, n} : m, n \in Node})
            /\ DAG!Disjoint((IF Drawn THEN DrawnSteps ELSE <<>>)')
        BY <4>2, <4>4 DEF DAG!Disjoint
      <4>6. UNCHANGED <<Updating, IF Drawn THEN PassedNodes ELSE {}>>
        BY <2>2, <2>3, <4>3
      <4>7. QED
        BY <4>1, <4>3, <4>5, <4>6 DEF DAG!Draw, DrawnSteps
    <3>3. QED
      BY <3>2 DEF DAG!Next
  <2>6. QED
    BY <2>4, <2>5
<1>2. ASSUME phase = "run", UNCHANGED genVars
      PROVE  /\ Drawn /\ Drawn' /\ DrawnSteps' = DrawnSteps
             /\ Stutters => UNCHANGED DAG!dagVars
             /\ \A n \in Node : /\ Enters(n) => DAG!Enter(n)
                                /\ Leaves(n) => DAG!Leave(n)
                                /\ Skips(n) => DAG!Skip(n)
  <2>1. Drawn /\ Drawn'
    BY <1>2, PlanStays DEF Drawn
  <2>2. DrawnSteps' = DrawnSteps
    BY <1>2, PlanStays DEF DrawnSteps
  <2>3. \A n : IsOpen(n) => n \in DAG!Turn /\ n \notin PassedNodes
    BY <1>2, OpenIsTurn DEF IsOpen
  <2>4. Stutters => UNCHANGED DAG!dagVars
    BY <2>1, <2>2 DEF Stutters, DAG!dagVars, DrawnSteps
  <2>5. ASSUME NEW n \in Node
        PROVE  /\ Enters(n) => DAG!Enter(n)
               /\ Leaves(n) => DAG!Leave(n)
               /\ Skips(n) => DAG!Skip(n)
    <3>1. Enters(n) => DAG!Enter(n)
      BY <2>1, <2>2, <2>3 DEF Enters, DAG!Enter, DrawnSteps
    <3>2. Leaves(n) => DAG!Leave(n)
      BY <2>1, <2>2 DEF Leaves, DAG!Leave, DrawnSteps
    <3>3. Skips(n) => DAG!Skip(n)
      BY <2>1, <2>2, <2>3 DEF Skips, DAG!Skip, DrawnSteps
    <3>4. QED
      BY <3>1, <3>2, <3>3
  <2>6. QED
    BY <2>1, <2>2, <2>4, <2>5
<1>3. ASSUME NEW t \in Tid, Thread(t)
      PROVE  [DAG!Next]_(DAG!dagVars)
  <2>1. phase = "run" /\ UNCHANGED genVars
    BY <1>3 DEF Thread, Reads, At, Visit, ReadEarly, ReadUnlock, ReadCheck, ReadBreak, SetUnlock,
                LoadField, StoreField, Signal, Return
  <2>2. MessageStep
    BY <1>3, ThreadKeeps
  <2>3. QED
    BY <1>2, <2>1, <2>2 DEF MessageStep, DAG!Next
<1>4. CASE UNCHANGED <<genVars, runVars>>
  <2>1. Updating' = Updating /\ PassedNodes' = PassedNodes
    BY <1>4, NothingMoves
  <2>2. Drawn' = Drawn /\ DrawnSteps' = DrawnSteps
    BY <1>4, PlanStays DEF Drawn, DrawnSteps
  <2>3. QED
    BY <2>1, <2>2 DEF DAG!dagVars, DrawnSteps
<1>5. QED
  BY <1>1, <1>3, <1>4, BarrierSteps

\* The threads of the kernel implement MessageDAG: nodes update the message step
\* by step of the order drawn, each once or, skipped, not at all, whatever flags,
\* spin loops and unlocks it takes to get there.
THEOREM KernelImplementsDAG == FairBarrierSpec => ImplementsDAG
<1>1. BarrierInit => DAG!Init
  <2> SUFFICES ASSUME BarrierInit
               PROVE  DAG!Init
    OBVIOUS
  <2>1. PlanInv /\ KernelInv /\ phase # "run"
    BY KernelInit DEF BarrierInit, Init, GenInit
  <2>2. Updating = {}
    BY <2>1, NothingPassed DEF KernelInv
  <2>3. QED
    BY <2>1, <2>2 DEF DAG!Init, Drawn
<1>2. QED
  BY <1>1, KernelInit, KernelNext, StepsImplementDAG, PTL
     DEF FairBarrierSpec, ImplementsDAG, DAG!Spec

-----------------------------------------------------------------------------
(* The updates of a field, in the order drawn.                             *)

StepsOf(f, D) == {k \in DOMAIN order : Updaters(f, D, k) # {}}
Nth(S, i) == CHOOSE k \in S : Cardinality({j \in S : j <= k}) = i

\* Every number up to the size of S is that of a member.
Counted(S) == \A i \in 1 .. Cardinality(S) : \E k \in S : Cardinality({j \in S : j <= k}) = i

\* What is applied, one updater to each step that has one.
LEMMA AppliedIs ==
  ASSUME NEW f, NEW D
  PROVE  Applied(f, D) = [i \in 1 .. Cardinality(StepsOf(f, D)) |->
                            First(Updaters(f, D, Nth(StepsOf(f, D), i)))]
BY DEF Applied, StepsOf, Nth

\* A number above all those of a set comes last, and moves none of them.
LEMMA NthGrows ==
  ASSUME NEW S \in SUBSET Nat, IsFiniteSet(S), NEW k \in Nat, \A j \in S : j < k
  PROVE  /\ Cardinality(S) \in Nat /\ Cardinality(S \union {k}) = Cardinality(S) + 1
         /\ Nth(S \union {k}, Cardinality(S) + 1) = k
         /\ \A i \in 1 .. Cardinality(S) : Nth(S \union {k}, i) = Nth(S, i)
         /\ Counted(S) => /\ Counted(S \union {k})
                          /\ \A i \in 1 .. Cardinality(S) : Nth(S, i) \in S
<1> DEFINE T == S \union {k}
           Upto(m) == {j \in S : j <= m}
           Above(m) == {j \in T : j <= m}
<1>1. k \notin S
  BY DEF Nat
<1>2. Cardinality(S) \in Nat /\ Cardinality(T) = Cardinality(S) + 1 /\ IsFiniteSet(T)
  BY <1>1, FS_CardinalityType, FS_AddElement
<1>3. \A m \in S : Above(m) = Upto(m)
  OBVIOUS
<1>4. Above(k) = T
  <2>1. \A j \in T : j <= k
    OBVIOUS
  <2>2. QED
    BY <2>1
<1>5. \A m \in S : Cardinality(Upto(m)) \in Nat /\ Cardinality(Upto(m)) <= Cardinality(S)
  <2> SUFFICES ASSUME NEW m \in S
               PROVE  Cardinality(Upto(m)) \in Nat /\ Cardinality(Upto(m)) <= Cardinality(S)
    OBVIOUS
  <2>1. Upto(m) \subseteq S
    OBVIOUS
  <2> HIDE DEF Upto
  <2>2. QED
    BY <2>1, FS_Subset, FS_CardinalityType
<1> DEFINE c == Cardinality(S)
           A(m) == Cardinality(Above(m))
           U(m) == Cardinality(Upto(m))
<1>6. /\ c \in Nat /\ A(k) = c + 1
      /\ \A m \in S : A(m) = U(m) /\ U(m) \in Nat /\ U(m) <= c
  BY <1>2, <1>3, <1>4, <1>5
<1>7. \A i : /\ Nth(T, i) = CHOOSE m \in T : A(m) = i
             /\ Nth(S, i) = CHOOSE m \in S : U(m) = i
  BY DEF Nth
<1> HIDE DEF A, U, c
<1>8. (CHOOSE m \in T : A(m) = c + 1) = k
  <2>1. \A m \in T : A(m) = c + 1 <=> m = k
    BY <1>1, <1>6
  <2>2. k \in T
    OBVIOUS
  <2> HIDE DEF T
  <2>3. QED
    BY <2>1, <2>2
<1>9. \A i \in 1 .. c : (CHOOSE m \in T : A(m) = i) = (CHOOSE m \in S : U(m) = i)
  <2> SUFFICES ASSUME NEW i \in 1 .. c
               PROVE  (CHOOSE m \in T : A(m) = i) = (CHOOSE m \in S : U(m) = i)
    OBVIOUS
  <2>1. A(k) # i
    BY <1>6
  <2>2. \A m \in S : A(m) = U(m) /\ m \in T
    BY <1>6
  <2>3. \A m \in T : m = k \/ m \in S
    OBVIOUS
  <2>4. \A m : m \in T /\ A(m) = i <=> m \in S /\ U(m) = i
    BY <2>1, <2>2, <2>3
  <2> HIDE DEF T
  <2>5. QED
    BY <2>4
<1>10. ASSUME Counted(S)
       PROVE  /\ Counted(T)
              /\ \A i \in 1 .. c : (CHOOSE m \in S : U(m) = i) \in S
  <2>1. \A i \in 1 .. c : \E m \in S : U(m) = i
    BY <1>10 DEF Counted, U, c
  <2>2. \A i \in 1 .. c + 1 : \E m \in T : A(m) = i
    <3> SUFFICES ASSUME NEW i \in 1 .. c + 1
                 PROVE  \E m \in T : A(m) = i
      OBVIOUS
    <3>1. CASE i = c + 1
      BY <1>6, <3>1
    <3>2. CASE i \in 1 .. c
      <4>1. PICK m \in S : U(m) = i
        BY <2>1, <3>2
      <4>2. QED
        BY <1>6, <4>1
    <3>3. QED
      BY <1>6, <3>1, <3>2
  <2>3. Counted(T)
    BY <1>2, <2>2 DEF Counted, A, c
  <2>4. QED
    BY <2>1, <2>3
<1>11. /\ c \in Nat /\ Cardinality(T) = c + 1
       /\ Nth(T, c + 1) = k
       /\ \A i \in 1 .. c : Nth(T, i) = Nth(S, i)
       /\ Counted(S) => Counted(T) /\ \A i \in 1 .. c : Nth(S, i) \in S
  <2> HIDE DEF T
  <2>1. Cardinality(T) = c + 1
    BY <1>2 DEF c
  <2>2. Nth(T, c + 1) = k
    BY <1>7, <1>8
  <2>3. \A i \in 1 .. c : Nth(T, i) = Nth(S, i)
    BY <1>7, <1>9
  <2>4. Counted(S) => Counted(T) /\ \A i \in 1 .. c : Nth(S, i) \in S
    BY <1>7, <1>10
  <2>5. QED
    BY <1>6, <2>1, <2>2, <2>3, <2>4
<1>12. QED
  BY <1>11 DEF c

\* Only the nodes that update a field matter for it.
LEMMA AppliedToUpdaters ==
  ASSUME NEW f, NEW D, NEW E, \A n : f \in updates[n] => (n \in D <=> n \in E)
  PROVE  Applied(f, D) = Applied(f, E)
<1>1. \A k : Updaters(f, D, k) = Updaters(f, E, k)
  BY DEF Updaters
<1>2. StepsOf(f, D) = StepsOf(f, E)
  BY <1>1 DEF StepsOf
<1>3. QED
  BY <1>1, <1>2, AppliedIs

\* Nothing is applied at first.
LEMMA AppliedToNothing ==
  ASSUME NEW f
  PROVE  Applied(f, {}) = <<>>
<1>1. StepsOf(f, {}) = {}
  BY DEF StepsOf, Updaters
<1>2. Cardinality({}) = 0
  BY FS_EmptySet
<1>3. Applied(f, {}) = [i \in 1 .. 0 |-> First(Updaters(f, {}, Nth({}, i)))]
  BY <1>1, <1>2, AppliedIs
<1>4. QED
  BY <1>3

\* A node of a step behind those of all updates so far comes last.
LEMMA AppliedGrows ==
  ASSUME TypeOK, OrderInv, NEW f, NEW D, NEW k \in DOMAIN order, NEW n \in Step(k),
         f \in updates[n], Counted(StepsOf(f, D)),
         \A m \in D : f \in updates[m] => \E j \in DOMAIN order : j < k /\ m \in Step(j)
  PROVE  /\ Applied(f, D \union {n}) = Append(Applied(f, D), n)
         /\ Counted(StepsOf(f, D \union {n}))
<1> DEFINE S == StepsOf(f, D)
           E == D \union {n}
<1>1. DOMAIN order = 1 .. Len(order) /\ Len(order) \in Nat /\ k \in Nat
  BY DEF TypeOK
<1>2. \A j \in DOMAIN order : j # k => Updaters(f, E, j) = Updaters(f, D, j)
  BY StepsDisjoint DEF Updaters
<1>3. \A j \in DOMAIN order : Updaters(f, D, j) # {} => j < k
  <2> SUFFICES ASSUME NEW j \in DOMAIN order, NEW m \in Updaters(f, D, j)
               PROVE  j < k
    OBVIOUS
  <2>1. m \in Step(j) /\ m \in D /\ f \in updates[m]
    BY DEF Updaters
  <2>2. PICK i \in DOMAIN order : i < k /\ m \in Step(i)
    BY <2>1
  <2>3. QED
    BY <2>1, <2>2, StepsDisjoint
<1>4. Updaters(f, E, k) = {n}
  <2>1. n \in Updaters(f, E, k)
    BY DEF Updaters
  <2>2. \A m \in Updaters(f, E, k) : m = n
    <3> SUFFICES ASSUME NEW m \in Updaters(f, E, k), m # n
                 PROVE  FALSE
      OBVIOUS
    <3>1. m \in Updaters(f, D, k)
      BY DEF Updaters
    <3>2. k < k
      BY <1>3, <3>1
    <3>3. QED
      BY <1>1, <3>2
  <2>3. QED
    BY <2>1, <2>2
<1>5. StepsOf(f, E) = S \union {k}
  BY <1>2, <1>4 DEF StepsOf
<1>6. S \in SUBSET Nat /\ IsFiniteSet(S) /\ \A j \in S : j < k
  <2>1. IsFiniteSet(1 .. Len(order))
    <3>1. PICK l \in Nat : l = Len(order)
      BY <1>1
    <3>2. IsFiniteSet(1 .. l)
      BY FS_Interval
    <3>3. QED
      BY <3>1, <3>2
  <2>2. S \subseteq 1 .. Len(order)
    BY <1>1 DEF StepsOf
  <2>3. \A j \in S : j < k
    BY <1>3 DEF StepsOf
  <2> HIDE DEF S
  <2>4. QED
    BY <2>1, <2>2, <2>3, FS_Subset
<1> DEFINE c == Cardinality(S)
<1>7. /\ c \in Nat /\ Cardinality(S \union {k}) = c + 1
      /\ Nth(S \union {k}, c + 1) = k
      /\ \A i \in 1 .. c : Nth(S \union {k}, i) = Nth(S, i) /\ Nth(S, i) \in S
      /\ Counted(S \union {k})
  <2> HIDE DEF S
  <2>1. Counted(S)
    BY DEF S
  <2>2. QED
    BY <1>1, <1>6, <2>1, NthGrows, ZenonT(30)
<1>8. \A i \in 1 .. c : Updaters(f, E, Nth(S, i)) = Updaters(f, D, Nth(S, i))
  <2>1. \A j \in S : j \in DOMAIN order /\ j # k
    BY <1>1, <1>6 DEF StepsOf
  <2>2. QED
    BY <1>2, <1>7, <2>1
<1>9. First({n}) = n
  BY NodesOfSteps DEF First
<1> DEFINE old(i) == First(Updaters(f, D, Nth(S, i)))
           new(i) == First(Updaters(f, E, Nth(S \union {k}, i)))
<1>10. /\ \A i \in 1 .. c : new(i) = old(i)
       /\ new(c + 1) = n
  BY <1>4, <1>7, <1>8, <1>9
<1>11. /\ Applied(f, D) = [i \in 1 .. c |-> old(i)]
       /\ Applied(f, E) = [i \in 1 .. c + 1 |-> new(i)]
  BY <1>5, <1>7, AppliedIs
<1>12. Counted(StepsOf(f, E))
  BY <1>5, <1>7
<1> HIDE DEF c, S, E, old, new
<1>13. [i \in 1 .. c + 1 |-> new(i)] = Append([i \in 1 .. c |-> old(i)], n)
  <2> DEFINE s == [i \in 1 .. c |-> old(i)]
             X == {old(i) : i \in 1 .. c}
  <2>1. s \in Seq(X) /\ Len(s) = c
    <3>1. s \in [1 .. c -> X]
      OBVIOUS
    <3>2. QED
      BY <1>7, <3>1, SeqDef, SMTT(30)
  <2>2. PICK Y : Y = X \union {n}
    OBVIOUS
  <2>3. s \in Seq(Y) /\ n \in Y
    <3>1. s \in [1 .. c -> Y]
      BY <2>2
    <3>2. QED
      BY <1>7, <2>2, <3>1, SeqDef
  <2> HIDE DEF s
  <2>4. PICK a : a = Append(s, n)
    OBVIOUS
  <2>5. a \in Seq(Y) /\ Len(a) = c + 1
    BY <2>1, <2>3, <2>4
  <2>6. a[c + 1] = n /\ \A l \in 1 .. c : a[l] = s[l]
    BY <2>1, <2>3, <2>4
  <2>7. a = [l \in 1 .. c + 1 |-> a[l]]
    BY <2>5
  <2>8. \A l \in 1 .. c + 1 : a[l] = new(l)
    <3>1. \A l \in 1 .. c + 1 : l = c + 1 \/ l \in 1 .. c
      BY <1>7
    <3>2. \A l \in 1 .. c : s[l] = old(l)
      BY DEF s
    <3>3. QED
      BY <1>10, <2>6, <3>1, <3>2
  <2>9. QED
    BY <2>4, <2>7, <2>8 DEF s
<1>14. QED
  BY <1>11, <1>12, <1>13 DEF E

-----------------------------------------------------------------------------
(* What the threads have done.  D are the nodes passed, E those made due.  *)

AtNode == {"early", "unlock", "set", "check", "load", "store", "signal"}

\* Of the nodes control flow has made a thread run, all but the one it is at have
\* been passed.  Inside func_1 it passes none beyond the last of them, hi, and a
\* node it comes to again, or late, has been passed.
ThreadDue(t, P, hi, D, E) ==
  /\ hi \in Nat
  /\ hi # 0 => hi \in E /\ nodes[hi] = t
  /\ \A n \in E : nodes[n] = t => n <= hi /\ (n \in D \/ (n = hi /\ P.node = n /\ P.at \in AtNode))
  /\ P.node # 0 => P.node \in D \/ P.node = hi
  /\ P.at = "body" \/ P.node # 0 => \A n \in D : nodes[n] = t => n <= hi
  /\ P.at = "early" => wait[P.node].lock.signal \in P.todo \/ P.node \in D
  /\ P.at = "signal" => P.todo = {}

DueInv ==
  /\ due \subseteq DOMAIN wait
  /\ high = [t \in Tid |-> high[t]]
  /\ \A t \in Tid : ThreadDue(t, pc[t], high[t], PassedNodes, due)

\* Node n has updated field f, for all that is known of its thread's position P.
HasStored(n, f, P, D) == n \in D \/ (P.node = n /\ P.at \in InUpdate /\ f \notin P.todo)
Stored(f) ==
  {n \in due : f \in updates[n] /\ HasStored(n, f, pc[nodes[n]], PassedNodes)}

\* A field holds the updates of the due nodes that have made theirs, in the order
\* drawn, and a thread about to store has loaded what the field still holds.
StoreInv ==
  /\ message = [f \in Fields |-> message[f]]
  /\ tmp = [t \in Tid |-> tmp[t]]
  /\ \A t \in Tid : pc[t].at = "store" =>
       /\ pc[t].i \in Fields /\ pc[t].i \in pc[t].todo
       /\ tmp[t] = Append(message[pc[t].i], pc[t].node)
  /\ \A f \in Fields : /\ message[f] = Applied(f, Stored(f))
                       /\ Counted(StepsOf(f, Stored(f)))

ResultInv == DueInv /\ StoreInv

\* One thread moves from its position to P, passing nodes of its own at most, and
\* reaching nodes of its own at most.
LEMMA OneMovesDue ==
  ASSUME DueInv, UNCHANGED genVars, NEW t \in Tid, NEW P, NEW hi,
         pc' = [pc EXCEPT ![t] = P], pc = [u \in Tid |-> pc[u]],
         high' = [high EXCEPT ![t] = hi],
         PassedNodes \subseteq PassedNodes', \A n \in PassedNodes' : n \in PassedNodes \/ nodes[n] = t,
         due \subseteq due', \A n \in due' : n \in due \/ nodes[n] = t,
         due' \subseteq DOMAIN wait,
         ThreadDue(t, P, hi, PassedNodes', due')
  PROVE  DueInv'
<1>0. nodes' = nodes /\ wait' = wait
  BY PlanStays
<1>1. \A u \in Tid : /\ pc'[u] = IF u = t THEN P ELSE pc[u]
                     /\ high'[u] = IF u = t THEN hi ELSE high[u]
  BY DEF DueInv
<1>2. ASSUME NEW u \in Tid
      PROVE  ThreadDue(u, pc[u], high[u], PassedNodes, due)'
  <2>1. CASE u = t
    <3>1. ThreadDue(u, P, hi, PassedNodes', due')
      BY <2>1
    <3>2. pc'[u] = P /\ high'[u] = hi
      BY <1>1, <2>1
    <3>3. QED
      BY <1>0, <3>1, <3>2 DEF ThreadDue
  <2>2. CASE u # t
    <3>1. ThreadDue(u, pc[u], high[u], PassedNodes, due)
      BY DEF DueInv
    <3>2. PICK F, G : F = PassedNodes' /\ G = due'
      OBVIOUS
    <3>3. ThreadDue(u, pc[u], high[u], F, G)
      BY <2>2, <3>1, <3>2 DEF ThreadDue
    <3>4. pc'[u] = pc[u] /\ high'[u] = high[u]
      BY <1>1, <2>2
    <3>5. QED
      BY <1>0, <3>2, <3>3, <3>4 DEF ThreadDue
  <2>3. QED
    BY <2>1, <2>2
<1>3. high' = [u \in Tid |-> high'[u]]
  BY DEF DueInv
<1>4. QED
  BY <1>0, <1>2, <1>3 DEF DueInv

\* What is applied depends on the plan only.
LEMMA AppliedStays ==
  ASSUME UNCHANGED genVars
  PROVE  \A f, D : Applied(f, D)' = Applied(f, D) /\ StepsOf(f, D)' = StepsOf(f, D)
<1>1. \A f, D, k : Updaters(f, D, k)' = Updaters(f, D, k)
  BY PlanStays DEF Updaters
<1>2. \A f, D : StepsOf(f, D)' = StepsOf(f, D)
  BY <1>1, PlanStays DEF StepsOf
<1>3. ASSUME NEW f, NEW D
      PROVE  Applied(f, D)' = Applied(f, D)
  <2> DEFINE S == StepsOf(f, D)
  <2>1. S' = S
    BY <1>2
  <2>2. Applied(f, D) = [i \in 1 .. Cardinality(S) |-> First(Updaters(f, D, Nth(S, i)))]
    BY AppliedIs
  <2>3. Applied(f, D)' = [i \in 1 .. Cardinality(S') |-> First(Updaters(f, D, Nth(S, i)))']
    BY DEF Applied, StepsOf, Nth
  <2> HIDE DEF S
  <2>4. QED
    BY <1>1, <2>1, <2>2, <2>3
<1>4. QED
  BY <1>2, <1>3

\* A move that stores nothing, counts for the same updates and is not to a store.
LEMMA OneMovesStore ==
  ASSUME StoreInv, UNCHANGED genVars, due \subseteq DOMAIN wait, NEW t \in Tid, NEW P,
         pc' = [pc EXCEPT ![t] = P], pc = [u \in Tid |-> pc[u]],
         message' = message, tmp' = tmp, P.at # "store",
         due \subseteq due',
         \A n \in due' : n \in due \/ (nodes[n] = t /\ n \notin PassedNodes'),
         \A n \in due' \ due : P.at \notin InUpdate \/ P.node # n,
         PassedNodes \subseteq PassedNodes',
         \A n \in PassedNodes' : n \in PassedNodes \/ nodes[n] = t,
         \A f \in Fields : \A n \in due : nodes[n] = t /\ f \in updates[n] =>
           (HasStored(n, f, P, PassedNodes') <=> HasStored(n, f, pc[t], PassedNodes)),
         \A n \in due : nodes[n] \in Tid
  PROVE  StoreInv'
<1>0. nodes' = nodes /\ wait' = wait /\ updates' = updates /\ order' = order /\ async' = async
  BY PlanStays
<1>1. \A u \in Tid : pc'[u] = IF u = t THEN P ELSE pc[u]
  OBVIOUS
<1>2. ASSUME NEW f \in Fields
      PROVE  Stored(f)' = Stored(f)
  <2>1. Stored(f)' = {n \in due' : f \in updates[n] /\ HasStored(n, f, pc'[nodes[n]], PassedNodes')}
    BY <1>0 DEF Stored, HasStored
  <2>2. ASSUME NEW n \in due, f \in updates[n]
        PROVE  HasStored(n, f, pc'[nodes[n]], PassedNodes') <=> HasStored(n, f, pc[nodes[n]], PassedNodes)
    <3>1. CASE nodes[n] = t
      BY <1>1, <2>2, <3>1
    <3>2. CASE nodes[n] # t
      <4>1. pc'[nodes[n]] = pc[nodes[n]] /\ (n \in PassedNodes' <=> n \in PassedNodes)
        BY <1>1, <3>2
      <4>2. QED
        BY <4>1 DEF HasStored
    <3>3. QED
      BY <3>1, <3>2
  <2>3. ASSUME NEW n \in due', n \notin due
        PROVE  ~ HasStored(n, f, pc'[nodes[n]], PassedNodes')
    <3>1. nodes[n] = t /\ n \notin PassedNodes' /\ pc'[nodes[n]] = P
      BY <1>1, <2>3
    <3>2. QED
      BY <2>3, <3>1 DEF HasStored
  <2>4. QED
    BY <2>1, <2>2, <2>3 DEF Stored
<1>3. \A f, D : Applied(f, D)' = Applied(f, D) /\ StepsOf(f, D)' = StepsOf(f, D)
  BY AppliedStays
<1>4. \A f \in Fields : /\ message'[f] = Applied(f, Stored(f))'
                        /\ Counted(StepsOf(f, Stored(f)))'
  <2> SUFFICES ASSUME NEW f \in Fields
               PROVE  /\ message'[f] = Applied(f, Stored(f))'
                      /\ Counted(StepsOf(f, Stored(f)))'
    OBVIOUS
  <2>1. message[f] = Applied(f, Stored(f)) /\ Counted(StepsOf(f, Stored(f)))
    BY DEF StoreInv
  <2>2. PICK X : X = Stored(f)
    OBVIOUS
  <2>3. /\ Applied(f, Stored(f))' = Applied(f, X)
        /\ StepsOf(f, Stored(f))' = StepsOf(f, X)
    BY <1>2, <1>3, <2>2
  <2>4. QED
    BY <2>1, <2>2, <2>3
<1>5. \A u \in Tid : pc'[u].at = "store" =>
        /\ pc'[u].i \in Fields /\ pc'[u].i \in pc'[u].todo
        /\ tmp'[u] = Append(message'[pc'[u].i], pc'[u].node)
  BY <1>1 DEF StoreInv
<1>6. QED
  BY <1>4, <1>5 DEF StoreInv

\* Where a thread goes on after a lock it is at node n still, or in its end checks.
LEMMA AfterLockFacts ==
  ASSUME NEW t, NEW n, NEW locks, NEW i
  PROVE  LET P == AfterLock(t, n, locks, i)
         IN  /\ P.node = n
             /\ P.at \in IF n = 0 THEN {"unlock", "break"} ELSE {"unlock", "check"}
BY DEF AfterLock, Place

\* The nodes a thread has made due are its own, and have locks.
LEMMA DueNodes ==
  ASSUME PlanInv, DueInv, NEW n \in due
  PROVE  n \in DOMAIN wait /\ nodes[n] \in Tid /\ n \in Nat /\ n # 0
BY NodesOfWaits DEF DueInv

\* A step that reads a flag or none keeps what is known of the results.
LEMMA WalkKeeps ==
  ASSUME PlanInv, KernelInv, ResultInv, UNCHANGED genVars, UNCHANGED <<mem, message, tmp, high, due>>,
         NEW t \in Tid, NEW P, pc' = [pc EXCEPT ![t] = P], P.at # "store",
         ThreadDue(t, P, high[t], PassedNodes, due),
         pc[t].at \notin InUpdate,
         \A f \in updates[P.node] : P.at \in InUpdate => f \in P.todo
  PROVE  ResultInv'
<1>0. DueInv /\ StoreInv
  BY DEF ResultInv
<1>1. PassedNodes' = PassedNodes
  BY PlanStays DEF PassedNodes
<1>2. pc = [u \in Tid |-> pc[u]]
  BY DEF KernelInv
<1>3. DueInv'
  <2>1. due \subseteq DOMAIN wait
    BY <1>0 DEF DueInv
  <2>2. high' = [high EXCEPT ![t] = high[t]]
    BY <1>0 DEF DueInv
  <2>3. ThreadDue(t, P, high[t], PassedNodes', due')
    BY <1>1
  <2>4. QED
    BY <1>0, <1>1, <1>2, <2>1, <2>2, <2>3, OneMovesDue
<1>4. StoreInv'
  <2>1. \A f \in Fields : \A n \in due : nodes[n] = t /\ f \in updates[n] =>
          (HasStored(n, f, P, PassedNodes') <=> HasStored(n, f, pc[t], PassedNodes))
    BY <1>1 DEF HasStored
  <2>2. due \subseteq DOMAIN wait /\ \A n \in due : nodes[n] \in Tid
    BY <1>0, DueNodes DEF DueInv
  <2>3. QED
    BY <1>0, <1>1, <1>2, <2>1, <2>2, OneMovesStore
<1>5. QED
  BY <1>3, <1>4 DEF ResultInv

\* Of what is known of a thread, what does not depend on where in a node it is.
LEMMA StaysDue ==
  ASSUME NEW t, NEW hi, NEW D, NEW E, NEW P, NEW Q, ThreadDue(t, P, hi, D, E),
         Q.node = P.node, P.node # 0, Q.at \in AtNode, Q.at \notin {"early", "signal"}
  PROVE  ThreadDue(t, Q, hi, D, E)
<1>1. Q.at # "body"
  BY DEF AtNode
<1>2. QED
  BY <1>1 DEF ThreadDue

\* A thread outside its nodes has passed all that were made due.
LEMMA EndsDue ==
  ASSUME NEW t, NEW hi, NEW D, NEW E, NEW P, NEW Q, ThreadDue(t, P, hi, D, E),
         \A n \in E : nodes[n] = t => n \in D,
         Q.node = 0, Q.at \notin {"body", "early", "signal"}
  PROVE  ThreadDue(t, Q, hi, D, E)
BY DEF ThreadDue

\* The fields hold the updates made by whom they must after each step of a thread.
\* First, finding that its node may still come, or that the message has passed it.
LEMMA ReadEarlyResult ==
  ASSUME PlanInv, KernelInv, ResultInv, UNCHANGED genVars, NEW t \in Tid, NEW c, ReadEarly(t, c)
  PROVE  ResultInv'
<1> DEFINE n == pc[t].node
           todo == pc[t].todo \ {c}
           R == [pc[t] EXCEPT !.todo = todo]
           A == AfterLock(t, n, wait[n].unlocks, 0)
           lock == wait[n].lock
<1>1. /\ phase = "run" /\ pc[t].at = "early" /\ c \in pc[t].todo
      /\ pc' = [pc EXCEPT ![t] = IF Lt(c) THEN A ELSE IF todo = {} THEN Body ELSE R]
      /\ UNCHANGED <<mem, message, tmp, high, due>>
  BY DEF ReadEarly, At, Goto
<1>2. n # 0 /\ n \in DOMAIN wait /\ nodes[n] = t /\ IsPosition(pc[t])
  BY <1>1, PositionFacts
<1>3. ThreadDue(t, pc[t], high[t], PassedNodes, due) /\ pc[t].at \notin InUpdate
  BY <1>1 DEF ResultInv, DueInv, InUpdate
<1>4. lock.signal \in pc[t].todo \/ n \in PassedNodes
  BY <1>1, <1>3 DEF ThreadDue
<1>5. ~ Lt(c) /\ c = lock.signal => n \in PassedNodes
  <2>1. Sig(n)[1] \in Flag /\ Sig(n)[2] \in Nat /\ mem[Sig(n)[1]] \in Nat
    BY <1>2, LocksTyped DEF PlanInv, KernelInv
  <2>2. QED
    BY <1>2, <2>1 DEF PassedNodes, Lt, Sig
<1>6. CASE Lt(c)
  <2>1. A.node = n /\ A.at \in {"unlock", "check"}
    BY <1>2, AfterLockFacts
  <2> HIDE DEF A
  <2>2. ThreadDue(t, A, high[t], PassedNodes, due)
    BY <1>2, <1>3, <2>1, StaysDue DEF AtNode
  <2>3. A.at # "store" /\ A.at \notin InUpdate
    BY <2>1 DEF InUpdate
  <2>4. pc' = [pc EXCEPT ![t] = A]
    BY <1>1, <1>6
  <2>5. QED
    BY <1>1, <1>3, <2>2, <2>3, <2>4, WalkKeeps
<1>7. CASE ~ Lt(c) /\ todo = {}
  <2>1. n \in PassedNodes
    BY <1>1, <1>4, <1>5, <1>7
  <2>2. Body.node = 0 /\ Body.at = "body"
    BY DEF Body, Place
  <2>3. ThreadDue(t, Body, high[t], PassedNodes, due)
    BY <1>2, <1>3, <2>1, <2>2 DEF ThreadDue
  <2>4. Body.at # "store" /\ Body.at \notin InUpdate
    BY <2>2 DEF InUpdate
  <2>5. pc' = [pc EXCEPT ![t] = Body]
    BY <1>1, <1>7
  <2>6. QED
    BY <1>1, <1>3, <2>3, <2>4, <2>5, WalkKeeps
<1>8. CASE ~ Lt(c) /\ todo # {}
  <2>1. R.at = "early" /\ R.node = n /\ R.todo = todo
    BY <1>1, <1>2, FewerToRead
  <2> HIDE DEF R
  <2>2. lock.signal \in todo \/ n \in PassedNodes
    BY <1>4, <1>5, <1>8
  <2>3. ThreadDue(t, R, high[t], PassedNodes, due)
    BY <1>2, <1>3, <2>1, <2>2 DEF ThreadDue, AtNode
  <2>4. R.at # "store" /\ R.at \notin InUpdate
    BY <2>1 DEF InUpdate
  <2>5. pc' = [pc EXCEPT ![t] = R]
    BY <1>1, <1>8
  <2>6. QED
    BY <1>1, <1>3, <2>3, <2>4, <2>5, WalkKeeps
<1>9. QED
  BY <1>6, <1>7, <1>8

\* Reading a flag of a lock it may open.
LEMMA ReadUnlockResult ==
  ASSUME PlanInv, KernelInv, ResultInv, UNCHANGED genVars, NEW t \in Tid, NEW c, ReadUnlock(t, c)
  PROVE  ResultInv'
<1> DEFINE n == pc[t].node
           todo == pc[t].todo \ {c}
           S == [pc[t] EXCEPT !.at = "set", !.todo = {}]
           R == [pc[t] EXCEPT !.todo = todo]
           A == AfterLock(t, n, Locks(t), pc[t].i)
           P == IF ~ Eq(c) THEN A ELSE IF todo = {} THEN S ELSE R
<1>1. /\ phase = "run" /\ pc[t].at = "unlock" /\ pc' = [pc EXCEPT ![t] = P]
      /\ UNCHANGED <<mem, message, tmp, high, due>>
  BY DEF ReadUnlock, At, Goto
<1>2. IsPosition(pc[t])
  BY <1>1, PositionFacts
<1>3. ThreadDue(t, pc[t], high[t], PassedNodes, due) /\ pc[t].at \notin InUpdate
  BY <1>1 DEF ResultInv, DueInv, InUpdate
<1>4. P.node = n /\ P.at \in IF n = 0 THEN {"unlock", "set", "break"} ELSE {"unlock", "set", "check"}
  <2>1. A.node = n /\ A.at \in IF n = 0 THEN {"unlock", "break"} ELSE {"unlock", "check"}
    BY AfterLockFacts
  <2>2. S.node = n /\ S.at = "set"
    BY <1>2, AllRead
  <2>3. R.node = n /\ R.at = "unlock"
    BY <1>1, <1>2, FewerToRead
  <2> HIDE DEF A, R, S
  <2>4. QED
    BY <2>1, <2>2, <2>3
<1> HIDE DEF P
<1>5. ThreadDue(t, P, high[t], PassedNodes, due)
  <2>1. CASE n = 0
    <3>1. \A m \in due : nodes[m] = t => m \in PassedNodes
      BY <1>3, <2>1, DueNodes DEF ThreadDue, ResultInv
    <3>2. QED
      BY <1>3, <1>4, <2>1, <3>1, EndsDue
  <2>2. CASE n # 0
    BY <1>3, <1>4, <2>2, StaysDue DEF AtNode
  <2>3. QED
    BY <2>1, <2>2
<1>6. P.at # "store" /\ P.at \notin InUpdate
  BY <1>4 DEF InUpdate
<1>7. QED
  BY <1>1, <1>3, <1>5, <1>6, WalkKeeps

\* Reading a flag of its own node's lock, before the updates.
LEMMA ReadCheckResult ==
  ASSUME PlanInv, KernelInv, ResultInv, UNCHANGED genVars, NEW t \in Tid, NEW c, ReadCheck(t, c)
  PROVE  ResultInv'
<1> DEFINE n == pc[t].node
           todo == pc[t].todo \ {c}
           E == EarlyBreak(n)
           U == NextUpdate(n, updates[n])
           R == [pc[t] EXCEPT !.todo = todo]
<1>1. /\ phase = "run" /\ pc[t].at = "check"
      /\ pc' = [pc EXCEPT ![t] = IF ~ Eq(c) THEN E ELSE IF todo = {} THEN U ELSE R]
      /\ UNCHANGED <<mem, message, tmp, high, due>>
  BY DEF ReadCheck, At, Goto
<1>2. n # 0 /\ n \in DOMAIN wait /\ nodes[n] = t /\ IsPosition(pc[t])
  BY <1>1, PositionFacts
<1>3. ThreadDue(t, pc[t], high[t], PassedNodes, due) /\ pc[t].at \notin InUpdate
  BY <1>1 DEF ResultInv, DueInv, InUpdate
<1>4. CASE ~ Eq(c)
  <2>1. E.at = "early" /\ E.node = n /\ wait[n].lock.signal \in E.todo
    BY DEF EarlyBreak, Place, Passed
  <2> HIDE DEF E
  <2>2. ThreadDue(t, E, high[t], PassedNodes, due)
    BY <1>2, <1>3, <2>1 DEF ThreadDue, AtNode
  <2>3. E.at # "store" /\ E.at \notin InUpdate
    BY <2>1 DEF InUpdate
  <2>4. pc' = [pc EXCEPT ![t] = E]
    BY <1>1, <1>4
  <2>5. QED
    BY <1>1, <1>3, <2>2, <2>3, <2>4, WalkKeeps
<1>5. CASE Eq(c) /\ todo = {}
  <2>1. /\ U.node = n /\ U.at \in {"load", "signal"} /\ U.todo = updates[n]
        /\ U.at = "signal" => U.todo = {}
    BY NextUpdateFacts DEF NextUpdate, Place
  <2> HIDE DEF U
  <2>2. ThreadDue(t, U, high[t], PassedNodes, due)
    BY <1>2, <1>3, <2>1 DEF ThreadDue, AtNode
  <2>3. U.at # "store" /\ \A f \in updates[U.node] : f \in U.todo
    BY <2>1
  <2>4. pc' = [pc EXCEPT ![t] = U]
    BY <1>1, <1>5
  <2>5. QED
    BY <1>1, <1>3, <2>2, <2>3, <2>4, WalkKeeps
<1>6. CASE Eq(c) /\ todo # {}
  <2>1. R.at = "check" /\ R.node = n
    BY <1>1, <1>2, FewerToRead
  <2> HIDE DEF R
  <2>2. ThreadDue(t, R, high[t], PassedNodes, due)
    BY <1>2, <1>3, <2>1, StaysDue DEF AtNode
  <2>3. R.at # "store" /\ R.at \notin InUpdate
    BY <2>1 DEF InUpdate
  <2>4. pc' = [pc EXCEPT ![t] = R]
    BY <1>1, <1>6
  <2>5. QED
    BY <1>1, <1>3, <2>2, <2>3, <2>4, WalkKeeps
<1>7. QED
  BY <1>4, <1>5, <1>6

\* Leaving the function that holds its nodes.
LEMMA ReturnResult ==
  ASSUME PlanInv, KernelInv, ResultInv, UNCHANGED genVars, NEW t \in Tid, Return(t)
  PROVE  ResultInv'
<1> DEFINE A == AfterLock(t, 0, endChecks[t], 0)
           P == IF endChecks[t] = <<>> THEN Place("done", 0, 0, {}) ELSE A
<1>1. /\ phase = "run" /\ pc[t].at = "body" /\ pc' = [pc EXCEPT ![t] = P]
      /\ UNCHANGED <<mem, message, tmp, high, due>>
  BY DEF Return, At, Goto
<1>2. ThreadDue(t, pc[t], high[t], PassedNodes, due) /\ pc[t].at \notin InUpdate
  BY <1>1 DEF ResultInv, DueInv, InUpdate
<1>3. P.node = 0 /\ P.at \in {"done", "unlock", "break"}
  <2>1. A.node = 0 /\ A.at \in {"unlock", "break"}
    BY AfterLockFacts
  <2> HIDE DEF A
  <2>2. QED
    BY <2>1 DEF Place
<1> HIDE DEF P
<1>4. \A m \in due : nodes[m] = t => m \in PassedNodes
  BY <1>1, <1>2 DEF ThreadDue, AtNode
<1>5. ThreadDue(t, P, high[t], PassedNodes, due)
  BY <1>2, <1>3, <1>4, EndsDue
<1>6. P.at # "store" /\ P.at \notin InUpdate
  BY <1>3 DEF InUpdate
<1>7. QED
  BY <1>1, <1>2, <1>5, <1>6, WalkKeeps

\* Reading a flag of its end checks.
LEMMA ReadBreakResult ==
  ASSUME PlanInv, KernelInv, ResultInv, UNCHANGED genVars, NEW t \in Tid, NEW c, ReadBreak(t, c)
  PROVE  ResultInv'
<1> DEFINE todo == pc[t].todo \ {c}
           R == [pc[t] EXCEPT !.todo = todo]
           A == AfterLock(t, 0, endChecks[t], 0)
           P == IF Lt(c) THEN A ELSE IF todo = {} THEN Place("done", 0, 0, {}) ELSE R
<1>1. /\ phase = "run" /\ pc[t].at = "break" /\ pc' = [pc EXCEPT ![t] = P]
      /\ UNCHANGED <<mem, message, tmp, high, due>>
  BY DEF ReadBreak, At, Goto
<1>2. ThreadDue(t, pc[t], high[t], PassedNodes, due) /\ pc[t].at \notin InUpdate
  BY <1>1 DEF ResultInv, DueInv, InUpdate
<1>3. IsPosition(pc[t])
  BY <1>1, PositionFacts
<1>4. P.node \in {0, pc[t].node} /\ P.at \in {"done", "unlock", "break"}
      /\ (P.node # 0 => P.at = "break")
  <2>1. A.node = 0 /\ A.at \in {"unlock", "break"}
    BY AfterLockFacts
  <2>2. R.node = pc[t].node /\ R.at = "break"
    BY <1>1, <1>3, FewerToRead
  <2> HIDE DEF A, R
  <2>3. QED
    BY <2>1, <2>2 DEF Place
<1> HIDE DEF P
<1>5. \A m \in due : nodes[m] = t => m \in PassedNodes
  BY <1>1, <1>2 DEF ThreadDue, AtNode
<1>6. ThreadDue(t, P, high[t], PassedNodes, due)
  BY <1>2, <1>4, <1>5 DEF ThreadDue
<1>7. P.at # "store" /\ P.at \notin InUpdate
  BY <1>4 DEF InUpdate
<1>8. QED
  BY <1>1, <1>2, <1>6, <1>7, WalkKeeps

\* Opening a lock, which passes a later node of its own that is not due.
LEMMA SetUnlockResult ==
  ASSUME PlanInv, KernelInv, ResultInv, UNCHANGED genVars, NEW t \in Tid, SetUnlock(t)
  PROVE  ResultInv'
<1> DEFINE n == pc[t].node
           P == AfterLock(t, n, Locks(t), pc[t].i)
<1>1. /\ phase = "run" /\ pc[t].at = "set" /\ pc' = [pc EXCEPT ![t] = P]
      /\ UNCHANGED <<message, tmp, high, due>>
  BY DEF SetUnlock, At, Goto
<1>2. PICK q \in DOMAIN wait : /\ nodes[q] = t /\ q \notin PassedNodes
                               /\ PassedNodes' = PassedNodes \union {q}
                               /\ n # 0 => SbLater(n, q)
  BY SetUnlockKeeps
<1>3. DueInv /\ StoreInv /\ ThreadDue(t, pc[t], high[t], PassedNodes, due)
  BY DEF ResultInv, DueInv
<1>4. q \in Nat /\ q # 0 /\ (n # 0 => n \in Nat /\ q < n)
  <2>1. n # 0 => n \in DOMAIN wait
    BY <1>1, PositionFacts
  <2>2. QED
    BY <1>2, <2>1, NodesOfWaits DEF SbLater
<1>5. q \notin due
  BY <1>2, <1>3, <1>4 DEF ThreadDue
<1>6. P.node = n /\ P.at \in IF n = 0 THEN {"unlock", "break"} ELSE {"unlock", "check"}
  BY AfterLockFacts
<1> HIDE DEF P
<1>7. ThreadDue(t, P, high[t], PassedNodes', due')
  <2>1. high[t] \in Nat /\ (high[t] # 0 => high[t] \in due /\ nodes[high[t]] = t)
    BY <1>3 DEF ThreadDue
  <2>2. \A m \in due : nodes[m] = t =>
          m <= high[t] /\ (m \in PassedNodes' \/ (m = high[t] /\ P.node = m /\ P.at \in AtNode))
    <3>1. CASE n = 0
      BY <1>2, <1>3, <3>1, DueNodes DEF ThreadDue
    <3>2. CASE n # 0
      BY <1>2, <1>3, <1>6, <3>2 DEF ThreadDue, AtNode
    <3>3. QED
      BY <3>1, <3>2
  <2>3. P.node # 0 => P.node \in PassedNodes' \/ P.node = high[t]
    BY <1>2, <1>3, <1>6 DEF ThreadDue
  <2>4. P.node # 0 => \A m \in PassedNodes' : nodes[m] = t => m <= high[t]
    <3> SUFFICES ASSUME n # 0
                 PROVE  \A m \in PassedNodes' : nodes[m] = t => m <= high[t]
      BY <1>6
    <3>1. \A m \in PassedNodes : nodes[m] = t => m <= high[t]
      BY <1>3 DEF ThreadDue
    <3>2. n <= high[t]
      <4>1. n \in PassedNodes \/ n = high[t]
        BY <1>3 DEF ThreadDue
      <4>2. nodes[n] = t
        BY <1>1, PositionFacts
      <4>3. QED
        BY <1>4, <2>1, <3>1, <4>1, <4>2
    <3>3. q <= high[t]
      BY <1>4, <2>1, <3>2
    <3>4. QED
      BY <1>2, <3>1, <3>3
  <2>5. P.at \notin {"body", "early", "signal"}
    BY <1>6
  <2>6. due' = due
    BY <1>1
  <2>7. QED
    BY <2>1, <2>2, <2>3, <2>4, <2>5, <2>6 DEF ThreadDue
<1>8. DueInv'
  <2>1. due \subseteq DOMAIN wait /\ due' = due /\ high' = [high EXCEPT ![t] = high[t]]
    BY <1>1, <1>3 DEF DueInv
  <2>2. pc = [u \in Tid |-> pc[u]]
    BY DEF KernelInv
  <2>3. QED
    BY <1>1, <1>2, <1>3, <1>7, <2>1, <2>2, OneMovesDue
<1>9. StoreInv'
  <2>1. P.at \notin InUpdate /\ P.at # "store" /\ pc[t].at \notin InUpdate
    BY <1>1, <1>6 DEF InUpdate
  <2>2. \A f \in Fields : \A m \in due : nodes[m] = t /\ f \in updates[m] =>
          (HasStored(m, f, P, PassedNodes') <=> HasStored(m, f, pc[t], PassedNodes))
    BY <1>2, <1>5, <2>1 DEF HasStored
  <2>3. due \subseteq DOMAIN wait /\ due' = due /\ \A m \in due : nodes[m] \in Tid
    BY <1>1, <1>3, DueNodes DEF DueInv
  <2>4. pc = [u \in Tid |-> pc[u]]
    BY DEF KernelInv
  <2>5. QED
    BY <1>1, <1>2, <1>3, <2>1, <2>2, <2>3, <2>4, OneMovesStore
<1>10. QED
  BY <1>8, <1>9 DEF ResultInv

\* Signalling that its node's updates are made, which passes the node.
LEMMA SignalResult ==
  ASSUME PlanInv, KernelInv, ResultInv, UNCHANGED genVars, NEW t \in Tid, Signal(t)
  PROVE  ResultInv'
<1> DEFINE n == pc[t].node
<1>1. /\ phase = "run" /\ pc[t].at = "signal" /\ pc' = [pc EXCEPT ![t] = Body]
      /\ UNCHANGED <<message, tmp, high, due>>
  BY DEF Signal, At, Goto
<1>2. PassedNodes' = PassedNodes \union {n}
  BY SignalKeeps
<1>3. DueInv /\ StoreInv /\ ThreadDue(t, pc[t], high[t], PassedNodes, due)
  BY DEF ResultInv, DueInv
<1>4. /\ n \in DOMAIN wait /\ nodes[n] = t /\ n \notin PassedNodes /\ n # 0
      /\ pc[t].at \in InUpdate
  BY <1>1, InsideFacts, NodesOfWaits DEF InUpdate
<1>5. n = high[t] /\ pc[t].todo = {}
  BY <1>1, <1>3, <1>4 DEF ThreadDue
<1>6. Body.node = 0 /\ Body.at = "body"
  BY DEF Body, Place
<1>7. ThreadDue(t, Body, high[t], PassedNodes', due')
  <2>1. due' = due
    BY <1>1
  <2>2. \A m \in PassedNodes' : nodes[m] = t => m <= high[t]
    <3>1. high[t] \in Nat
      BY <1>3 DEF ThreadDue
    <3>2. QED
      BY <1>2, <1>3, <1>4, <1>5, <3>1 DEF ThreadDue
  <2>3. \A m \in due : nodes[m] = t => m <= high[t] /\ m \in PassedNodes'
    BY <1>2, <1>3, <1>5 DEF ThreadDue
  <2>4. high[t] \in Nat /\ (high[t] # 0 => high[t] \in due /\ nodes[high[t]] = t)
    BY <1>3 DEF ThreadDue
  <2>5. QED
    BY <1>6, <2>1, <2>2, <2>3, <2>4 DEF ThreadDue
<1>8. DueInv'
  <2>1. due \subseteq DOMAIN wait /\ due' = due /\ high' = [high EXCEPT ![t] = high[t]]
    BY <1>1, <1>3 DEF DueInv
  <2>2. pc = [u \in Tid |-> pc[u]]
    BY DEF KernelInv
  <2>3. QED
    BY <1>1, <1>2, <1>3, <1>4, <1>7, <2>1, <2>2, OneMovesDue
<1>9. StoreInv'
  <2>1. Body.at \notin InUpdate /\ Body.at # "store"
    BY <1>6 DEF InUpdate
  <2>2. \A f \in Fields : \A m \in due : nodes[m] = t /\ f \in updates[m] =>
          (HasStored(m, f, Body, PassedNodes') <=> HasStored(m, f, pc[t], PassedNodes))
    BY <1>2, <1>4, <1>5, <2>1 DEF HasStored
  <2>3. due \subseteq DOMAIN wait /\ due' = due /\ \A m \in due : nodes[m] \in Tid
    BY <1>1, <1>3, DueNodes DEF DueInv
  <2>4. pc = [u \in Tid |-> pc[u]]
    BY DEF KernelInv
  <2>5. QED
    BY <1>1, <1>2, <1>3, <1>4, <2>1, <2>2, <2>3, <2>4, OneMovesStore
<1>10. QED
  BY <1>8, <1>9 DEF ResultInv

\* A thread's nodes are passed in the order they were registered in.
LEMMA PassedInOrder ==
  ASSUME PlanInv, FlagsInv, NEW p \in PassedNodes, NEW n \in DOMAIN wait, SbLater(p, n)
  PROVE  n \in PassedNodes
<1>1. PICK j \in 0 .. planned : Settles(j, PassedNodes)
  BY DEF FlagsInv
<1>2. planned \in Nat /\ 1 .. planned \subseteq DOMAIN order
  BY PlannedSteps DEF PlanInv, ConstraintInv, PlanningInv
<1>3. PICK k \in 1 .. planned : k <= j + 1 /\ p \in Step(k)
  <2>1. p \in Settled(j) \/ (j < planned /\ p \in Step(j + 1))
    BY <1>1 DEF Settles
  <2>2. CASE p \in Settled(j)
    <3>1. PICK i \in 1 .. j : p \in Step(i)
      BY <2>2 DEF Settled
    <3>2. i \in 1 .. planned /\ i <= j + 1
      BY <1>2
    <3>3. QED
      BY <3>1, <3>2
  <2>3. CASE j < planned /\ p \in Step(j + 1)
    <3>1. j + 1 \in 1 .. planned /\ j + 1 <= j + 1
      BY <1>2, <2>3
    <3>2. QED
      BY <2>3, <3>1
  <2>4. QED
    BY <2>1, <2>2, <2>3
<1>4. PICK i \in 1 .. k - 1 : n \in Step(i)
  <2>1. k \in DOMAIN order /\ n \in DOMAIN nodes
    BY <1>2 DEF SbLater
  <2>2. QED
    BY <1>3, <2>1 DEF PlanInv, OrderInv, FollowsSequencedBefore
<1>5. i \in 1 .. j
  BY <1>2, <1>3
<1>6. n \in Settled(j)
  BY <1>4, <1>5 DEF Settled
<1>7. QED
  BY <1>1, <1>6 DEF Settles

\* Coming to a node, which makes it due.
LEMMA VisitResult ==
  ASSUME PlanInv, KernelInv, ResultInv, UNCHANGED genVars, NEW t \in Tid, NEW n, Visit(t, n)
  PROVE  ResultInv'
<1> DEFINE P == EarlyBreak(n)
           hi == IF n > high[t] THEN n ELSE high[t]
<1>1. /\ phase = "run" /\ pc[t].at = "body" /\ n \in DOMAIN wait /\ nodes[n] = t
      /\ pc' = [pc EXCEPT ![t] = P] /\ UNCHANGED <<mem, message, tmp>>
      /\ due' = IF n > high[t] THEN due \union {n} ELSE due
  BY DEF Visit, At, Goto
<1>2. high' = [high EXCEPT ![t] = hi]
  BY DEF Visit
<1>3. PassedNodes' = PassedNodes
  BY <1>1, PlanStays DEF PassedNodes
<1>4. DueInv /\ StoreInv /\ ThreadDue(t, pc[t], high[t], PassedNodes, due)
  BY DEF ResultInv, DueInv
<1>5. n \in Nat /\ n # 0 /\ high[t] \in Nat
  BY <1>1, <1>4, NodesOfWaits DEF ThreadDue
<1>6. P.at = "early" /\ P.node = n /\ wait[n].lock.signal \in P.todo
  BY DEF EarlyBreak, Place, Passed
<1>7. /\ \A m \in due : nodes[m] = t => m <= high[t] /\ m \in PassedNodes
      /\ \A m \in PassedNodes : nodes[m] = t => m <= high[t]
      /\ high[t] # 0 => high[t] \in due /\ nodes[high[t]] = t
  BY <1>1, <1>4 DEF ThreadDue, AtNode
<1> HIDE DEF P
<1>8. ThreadDue(t, P, hi, PassedNodes, due')
  <2>1. CASE n > high[t]
    <3>1. hi = n /\ due' = due \union {n}
      BY <1>1, <2>1
    <3>2. \A m \in due' : nodes[m] = t => m <= n /\ (m \in PassedNodes \/ m = n)
      <4>1. \A m \in due : nodes[m] = t => m \in Nat /\ m <= high[t]
        BY <1>4, <1>7, DueNodes
      <4>2. QED
        BY <1>5, <1>7, <2>1, <3>1, <4>1
    <3>3. \A m \in PassedNodes : nodes[m] = t => m <= n
      <4>1. \A m \in PassedNodes : m \in Nat
        BY NodesOfWaits DEF PassedNodes
      <4>2. QED
        BY <1>5, <1>7, <2>1, <4>1
    <3> HIDE DEF hi
    <3>4. QED
      BY <1>1, <1>5, <1>6, <3>1, <3>2, <3>3 DEF ThreadDue, AtNode
  <2>2. CASE ~ (n > high[t])
    <3>1. hi = high[t] /\ due' = due
      BY <1>1, <2>2
    <3>2. high[t] # 0 /\ high[t] \in PassedNodes /\ nodes[high[t]] = t
      BY <1>5, <1>7, <2>2
    <3>3. n \in PassedNodes
      <4>1. n = high[t] \/ n < high[t]
        BY <1>5, <2>2
      <4>2. high[t] \in DOMAIN nodes /\ n \in DOMAIN nodes
        <5>1. \A m \in DOMAIN wait : m \in DOMAIN nodes
          BY NodesOfWaits, NodesOfSteps DEF PlanInv
        <5>2. QED
          BY <1>1, <3>2, <5>1 DEF PassedNodes
      <4>3. n < high[t] => SbLater(high[t], n)
        BY <1>1, <1>5, <3>2, <4>2 DEF SbLater
      <4>4. FlagsInv
        BY <1>1 DEF KernelInv
      <4>5. QED
        BY <1>1, <3>2, <4>1, <4>3, <4>4, PassedInOrder
    <3> HIDE DEF hi
    <3>4. QED
      BY <1>1, <1>5, <1>6, <1>7, <3>1, <3>3 DEF ThreadDue
  <2>3. QED
    BY <2>1, <2>2
<1>9. /\ due \subseteq due' /\ due \subseteq DOMAIN wait /\ due' \subseteq DOMAIN wait
      /\ \A m \in due' : m \in due \/ (nodes[m] = t /\ m \notin PassedNodes)
  <2>1. n > high[t] => n \notin PassedNodes
    BY <1>1, <1>5, <1>7
  <2>2. due \subseteq DOMAIN wait
    BY <1>4 DEF DueInv
  <2>3. QED
    BY <1>1, <2>1, <2>2
<1>10. pc = [u \in Tid |-> pc[u]]
  BY DEF KernelInv
<1> HIDE DEF hi
<1>11. DueInv'
  BY <1>1, <1>2, <1>3, <1>4, <1>8, <1>9, <1>10, OneMovesDue
<1>12. StoreInv'
  <2>1. P.at \notin InUpdate /\ P.at # "store" /\ pc[t].at \notin InUpdate
    BY <1>1, <1>6 DEF InUpdate
  <2>2. \A f \in Fields : \A m \in due : nodes[m] = t /\ f \in updates[m] =>
          (HasStored(m, f, P, PassedNodes') <=> HasStored(m, f, pc[t], PassedNodes))
    BY <1>3, <2>1 DEF HasStored
  <2>3. \A m \in due : nodes[m] \in Tid
    BY <1>4, DueNodes
  <2>4. QED
    BY <1>1, <1>3, <1>4, <1>9, <1>10, <2>1, <2>2, <2>3, OneMovesStore
<1>13. QED
  BY <1>11, <1>12 DEF ResultInv

\* A step within the updates keeps what is known of the nodes made due.
LEMMA InsideKeepsDue ==
  ASSUME PlanInv, KernelInv, DueInv, UNCHANGED genVars, UNCHANGED <<mem, high, due>>,
         NEW t \in Tid, NEW P, pc' = [pc EXCEPT ![t] = P], P.node = pc[t].node,
         phase = "run", pc[t].at \in InUpdate, P.at \in InUpdate, P.at = "signal" => P.todo = {}
  PROVE  DueInv'
<1>1. PassedNodes' = PassedNodes
  BY PlanStays DEF PassedNodes
<1>2. ThreadDue(t, pc[t], high[t], PassedNodes, due) /\ pc[t].node # 0
  BY InsideFacts, NodesOfWaits DEF DueInv
<1>3. ThreadDue(t, P, high[t], PassedNodes, due)
  BY <1>2 DEF ThreadDue, InUpdate, AtNode
<1>4. high' = [high EXCEPT ![t] = high[t]] /\ pc = [u \in Tid |-> pc[u]]
  BY DEF DueInv, KernelInv
<1>5. due \subseteq DOMAIN wait
  BY DEF DueInv
<1>6. ThreadDue(t, P, high[t], PassedNodes', due')
  BY <1>1, <1>3
<1>7. QED
  BY <1>1, <1>4, <1>5, <1>6, OneMovesDue

\* Loading a field it is to update.
LEMMA LoadResult ==
  ASSUME PlanInv, KernelInv, ResultInv, UNCHANGED genVars,
         NEW t \in Tid, NEW f \in Fields, LoadField(t, f)
  PROVE  ResultInv'
<1> DEFINE n == pc[t].node
           P == [pc[t] EXCEPT !.at = "store", !.i = f]
<1>1. /\ phase = "run" /\ pc[t].at = "load" /\ f \in pc[t].todo
      /\ pc' = [pc EXCEPT ![t] = P] /\ tmp' = [tmp EXCEPT ![t] = Append(message[f], n)]
      /\ UNCHANGED <<mem, message, high, due>>
  BY DEF LoadField, At, Goto
<1>2. DueInv /\ StoreInv
  BY DEF ResultInv
<1>3. P.at = "store" /\ P.node = n /\ P.i = f /\ P.todo = pc[t].todo
  <2>1. IsPosition(pc[t])
    BY <1>1, PositionFacts
  <2>2. QED
    BY <2>1, Loaded
<1> HIDE DEF P
<1>4. DueInv'
  BY <1>1, <1>2, <1>3, InsideKeepsDue DEF InUpdate
<1>5. /\ pc = [u \in Tid |-> pc[u]] /\ tmp = [u \in Tid |-> tmp[u]]
      /\ message = [g \in Fields |-> message[g]]
  BY <1>2 DEF KernelInv, StoreInv
<1>6. /\ \A u \in Tid : pc'[u] = IF u = t THEN P ELSE pc[u]
      /\ \A u \in Tid : tmp'[u] = IF u = t THEN Append(message[f], n) ELSE tmp[u]
      /\ tmp' = [u \in Tid |-> tmp'[u]]
  BY <1>1, <1>5
<1>7. PassedNodes' = PassedNodes
  BY <1>1, PlanStays DEF PassedNodes
<1>8. ASSUME NEW g \in Fields
      PROVE  /\ message'[g] = Applied(g, Stored(g))'
             /\ Counted(StepsOf(g, Stored(g)))'
  <2>1. Stored(g)' = {m \in due : g \in updates[m] /\ HasStored(m, g, pc'[nodes[m]], PassedNodes)}
    BY <1>1, <1>7, PlanStays DEF Stored, HasStored
  <2>2. \A m \in due : HasStored(m, g, pc'[nodes[m]], PassedNodes)
                         <=> HasStored(m, g, pc[nodes[m]], PassedNodes)
    <3> SUFFICES ASSUME NEW m \in due
                 PROVE  HasStored(m, g, pc'[nodes[m]], PassedNodes)
                          <=> HasStored(m, g, pc[nodes[m]], PassedNodes)
      OBVIOUS
    <3>1. nodes[m] \in Tid
      BY <1>2, DueNodes
    <3>2. CASE nodes[m] = t
      BY <1>1, <1>3, <1>6, <3>2 DEF HasStored, InUpdate
    <3>3. CASE nodes[m] # t
      BY <1>6, <3>1, <3>3
    <3>4. QED
      BY <3>2, <3>3
  <2>3. Stored(g)' = Stored(g)
    BY <2>1, <2>2 DEF Stored
  <2>4. PICK X : X = Stored(g)
    OBVIOUS
  <2>5. message[g] = Applied(g, X) /\ Counted(StepsOf(g, X))
    BY <1>2, <2>4 DEF StoreInv
  <2>6. Applied(g, Stored(g))' = Applied(g, X) /\ StepsOf(g, Stored(g))' = StepsOf(g, X)
    BY <2>3, <2>4, AppliedStays
  <2>7. QED
    BY <1>1, <2>5, <2>6
<1>9. ASSUME NEW u \in Tid, pc'[u].at = "store"
      PROVE  /\ pc'[u].i \in Fields /\ pc'[u].i \in pc'[u].todo
             /\ tmp'[u] = Append(message'[pc'[u].i], pc'[u].node)
  <2>1. CASE u = t
    BY <1>1, <1>3, <1>6, <2>1
  <2>2. CASE u # t
    <3>1. pc'[u] = pc[u] /\ tmp'[u] = tmp[u] /\ message' = message
      BY <1>1, <1>6, <2>2
    <3>2. pc[u].at = "store" => /\ pc[u].i \in Fields /\ pc[u].i \in pc[u].todo
                               /\ tmp[u] = Append(message[pc[u].i], pc[u].node)
      BY <1>2 DEF StoreInv
    <3>3. QED
      BY <1>9, <3>1, <3>2
  <2>3. QED
    BY <2>1, <2>2
<1>10. StoreInv'
  BY <1>1, <1>5, <1>6, <1>8, <1>9 DEF StoreInv
<1>11. QED
  BY <1>4, <1>10 DEF ResultInv

\* A node that stores is of a step behind those of all the updates of the field
\* that have been stored.
LEMMA StoresInOrder ==
  ASSUME PlanInv, KernelInv, DueInv, phase = "run", NEW t \in Tid, NEW f,
         pc[t].at = "store", f \in pc[t].todo
  PROVE  \E k \in DOMAIN order :
           /\ pc[t].node \in Step(k)
           /\ \A m \in Stored(f) : \E i \in DOMAIN order : i < k /\ m \in Step(i)
<1> DEFINE n == pc[t].node
<1>1. /\ n \in DOMAIN wait /\ nodes[n] = t /\ n \notin PassedNodes
      /\ Reached(Checks(n), {}, mem) /\ f \in updates[n] /\ FlagsInv
  BY InsideFacts DEF InUpdate, KernelInv
<1>2. PICK j \in 0 .. planned : Settles(j, PassedNodes) /\ j < planned /\ n \in Step(j + 1)
  BY <1>1, OpenNode
<1>3. /\ planned \in Nat /\ 1 .. planned \subseteq DOMAIN order
      /\ j + 1 \in 1 .. planned /\ j + 1 \in DOMAIN order
  BY <1>2, PlannedSteps DEF PlanInv, ConstraintInv, PlanningInv
<1>4. ASSUME NEW m \in Stored(f)
      PROVE  \E i \in DOMAIN order : i < j + 1 /\ m \in Step(i)
  <2>1. m \in due /\ f \in updates[m] /\ HasStored(m, f, pc[nodes[m]], PassedNodes)
    BY DEF Stored
  <2>2. m \in DOMAIN wait /\ nodes[m] \in Tid
    BY <2>1, DueNodes
  <2>3. m # n
    BY <1>1, <2>1 DEF HasStored
  <2>4. m \notin Step(j + 1)
    <3>1. m \in Step(j + 1) => updates[m] \intersect updates[n] = {}
      BY <1>2, <1>3, <2>3 DEF PlanInv, UpdatesInv
    <3>2. QED
      BY <1>1, <2>1, <3>1
  <2>5. m \in PassedNodes
    <3> SUFFICES ASSUME m \notin PassedNodes
                 PROVE  FALSE
      OBVIOUS
    <3>1. pc[nodes[m]].node = m /\ pc[nodes[m]].at \in InUpdate
      BY <2>1 DEF HasStored
    <3>2. \A c \in Checks(m) : mem[c[1]] >= c[2]
      BY <2>2, <3>1, InsideFacts DEF Reached
    <3>3. m \in Step(j + 1)
      BY <1>1, <1>2, <2>2, <3>2, TurnPasses DEF PlanInv, FlagsInv
    <3>4. QED
      BY <2>4, <3>3
  <2>6. m \in Settled(j)
    BY <1>2, <2>4, <2>5 DEF Settles
  <2>7. PICK i \in 1 .. j : m \in Step(i)
    BY <2>6 DEF Settled
  <2>8. i \in DOMAIN order /\ i < j + 1
    BY <1>2, <1>3
  <2>9. QED
    BY <2>7, <2>8
<1>5. QED
  BY <1>2, <1>3, <1>4

\* Storing a field: the update of its node is the last one made of that field.
LEMMA StoreResult ==
  ASSUME PlanInv, KernelInv, ResultInv, UNCHANGED genVars, NEW t \in Tid, StoreField(t)
  PROVE  ResultInv'
<1> DEFINE n == pc[t].node
           f == pc[t].i
           P == NextUpdate(n, pc[t].todo \ {f})
<1>1. /\ phase = "run" /\ pc[t].at = "store"
      /\ pc' = [pc EXCEPT ![t] = P] /\ tmp' = [tmp EXCEPT ![t] = <<>>]
      /\ message' = [message EXCEPT ![f] = tmp[t]]
      /\ UNCHANGED <<mem, high, due>>
  BY DEF StoreField, At, Goto
<1>2. DueInv /\ StoreInv
  BY DEF ResultInv
<1>3. f \in Fields /\ f \in pc[t].todo /\ tmp[t] = Append(message[f], n)
  BY <1>1, <1>2 DEF StoreInv
<1>4. /\ P.node = n /\ P.at \in {"load", "signal"} /\ P.todo = pc[t].todo \ {f}
      /\ P.at = "signal" => P.todo = {}
  BY NextUpdateFacts DEF NextUpdate, Place
<1>5. /\ n \in DOMAIN wait /\ nodes[n] = t /\ n \notin PassedNodes /\ n # 0 /\ f \in updates[n]
      /\ n \in due
  <2>1. n \in DOMAIN wait /\ nodes[n] = t /\ n \notin PassedNodes /\ f \in updates[n]
    BY <1>1, <1>3, InsideFacts DEF InUpdate
  <2>2. n # 0
    BY <2>1, NodesOfWaits
  <2>3. n \in due
    BY <1>2, <2>1, <2>2 DEF DueInv, ThreadDue
  <2>4. QED
    BY <2>1, <2>2, <2>3
<1> HIDE DEF P
<1>6. DueInv'
  BY <1>1, <1>2, <1>4, InsideKeepsDue DEF InUpdate
<1>7. /\ pc = [u \in Tid |-> pc[u]] /\ tmp = [u \in Tid |-> tmp[u]]
      /\ message = [g \in Fields |-> message[g]]
  BY <1>2 DEF KernelInv, StoreInv
<1>8. /\ \A u \in Tid : pc'[u] = IF u = t THEN P ELSE pc[u]
      /\ \A u \in Tid : u # t => tmp'[u] = tmp[u]
      /\ tmp' = [u \in Tid |-> tmp'[u]]
  BY <1>1, <1>7
<1>9. /\ message' = [g \in Fields |-> message'[g]]
      /\ message'[f] = Append(message[f], n)
      /\ \A g \in Fields : g # f => message'[g] = message[g]
  BY <1>1, <1>3, <1>7
<1>10. PassedNodes' = PassedNodes
  BY <1>1, PlanStays DEF PassedNodes
<1>11. ASSUME NEW g \in Fields
       PROVE  Stored(g)' = IF g = f THEN Stored(g) \union {n} ELSE Stored(g)
  <2>1. Stored(g)' = {m \in due : g \in updates[m] /\ HasStored(m, g, pc'[nodes[m]], PassedNodes)}
    BY <1>1, <1>10, PlanStays DEF Stored, HasStored
  <2>2. \A m \in due : HasStored(m, g, pc'[nodes[m]], PassedNodes)
                         <=> HasStored(m, g, pc[nodes[m]], PassedNodes) \/ (m = n /\ g = f)
    <3> SUFFICES ASSUME NEW m \in due
                 PROVE  HasStored(m, g, pc'[nodes[m]], PassedNodes)
                          <=> HasStored(m, g, pc[nodes[m]], PassedNodes) \/ (m = n /\ g = f)
      OBVIOUS
    <3>1. nodes[m] \in Tid
      BY <1>2, DueNodes
    <3>2. CASE nodes[m] = t
      BY <1>1, <1>4, <1>8, <3>2 DEF HasStored, InUpdate
    <3>3. CASE nodes[m] # t
      BY <1>5, <1>8, <3>1, <3>3
    <3>4. QED
      BY <3>2, <3>3
  <2>3. QED
    BY <1>5, <2>1, <2>2 DEF Stored
<1>12. ASSUME NEW g \in Fields
       PROVE  /\ message'[g] = Applied(g, Stored(g))'
              /\ Counted(StepsOf(g, Stored(g)))'
  <2>1. PICK X : X = Stored(g)
    OBVIOUS
  <2>2. message[g] = Applied(g, X) /\ Counted(StepsOf(g, X))
    BY <1>2, <2>1 DEF StoreInv
  <2>3. PICK Y : Y = IF g = f THEN X \union {n} ELSE X
    OBVIOUS
  <2>4. Applied(g, Stored(g))' = Applied(g, Y) /\ StepsOf(g, Stored(g))' = StepsOf(g, Y)
    BY <1>11, <2>1, <2>3, AppliedStays
  <2>5. CASE g = f
    <3>1. PICK k \in DOMAIN order :
            /\ n \in Step(k)
            /\ \A m \in X : \E i \in DOMAIN order : i < k /\ m \in Step(i)
      BY <1>1, <1>2, <1>3, <2>1, <2>5, StoresInOrder
    <3>2. Applied(g, X \union {n}) = Append(Applied(g, X), n) /\ Counted(StepsOf(g, X \union {n}))
      <4>1. TypeOK /\ OrderInv
        BY DEF PlanInv
      <4>2. g \in updates[n]
        BY <1>5, <2>5
      <4>3. \A m \in X : g \in updates[m] => \E i \in DOMAIN order : i < k /\ m \in Step(i)
        BY <3>1
      <4>4. QED
        BY <2>2, <3>1, <4>1, <4>2, <4>3, AppliedGrows
    <3>3. QED
      BY <1>9, <2>2, <2>3, <2>4, <2>5, <3>2
  <2>6. CASE g # f
    BY <1>9, <2>2, <2>3, <2>4, <2>6
  <2>7. QED
    BY <2>5, <2>6
<1>13. ASSUME NEW u \in Tid, pc'[u].at = "store"
       PROVE  /\ pc'[u].i \in Fields /\ pc'[u].i \in pc'[u].todo
              /\ tmp'[u] = Append(message'[pc'[u].i], pc'[u].node)
  <2>1. u # t
    BY <1>4, <1>8, <1>13
  <2>2. pc'[u] = pc[u] /\ tmp'[u] = tmp[u]
    BY <1>8, <2>1
  <2>3. /\ pc[u].at = "store" /\ pc[u].i \in Fields /\ pc[u].i \in pc[u].todo
        /\ tmp[u] = Append(message[pc[u].i], pc[u].node)
    BY <1>2, <1>13, <2>2 DEF StoreInv
  <2>4. pc[u].i # f
    <3>1. pc[u].node \in Updating /\ pc[t].node \in Updating
      BY <1>1, <2>3, UpdatingFacts DEF InUpdate
    <3>2. ~ (Touches(t, f) /\ Touches(u, f))
      BY <1>3, <2>1, <3>1, UpdatesAreApart DEF UpdatesDoNotRace
    <3>3. QED
      BY <1>1, <1>3, <2>3, <3>2 DEF Touches, At
  <2>5. QED
    BY <1>9, <2>2, <2>3, <2>4
<1>14. StoreInv'
  BY <1>8, <1>9, <1>12, <1>13 DEF StoreInv
<1>15. QED
  BY <1>6, <1>14 DEF ResultInv

\* So after whatever a thread does.
LEMMA ThreadResult ==
  ASSUME PlanInv, KernelInv, ResultInv, NEW t \in Tid, Thread(t)
  PROVE  ResultInv'
<1>1. UNCHANGED genVars
  BY DEF Thread
<1>2. ASSUME NEW c, ReadEarly(t, c) \/ ReadUnlock(t, c) \/ ReadCheck(t, c) \/ ReadBreak(t, c)
      PROVE  ResultInv'
  BY <1>1, <1>2, ReadEarlyResult, ReadUnlockResult, ReadCheckResult, ReadBreakResult
<1>3. QED
  BY <1>1, <1>2, VisitResult, SetUnlockResult, LoadResult, StoreResult, SignalResult,
     ReturnResult DEF Thread, Reads

\* What holds until the kernel is started.
BeforeRun ==
  /\ mem = [f \in Flag |-> 0] /\ pc = [t \in Tid |-> Body]
  /\ message = [f \in Fields |-> <<>>] /\ tmp = [t \in Tid |-> <<>>]
  /\ high = [t \in Tid |-> 0] /\ due = {}

\* Before anything is due and anything updated, both hold.
LEMMA NothingDue ==
  ASSUME PlanInv, BeforeRun
  PROVE  ResultInv
<1>1. PassedNodes = {}
  BY NothingPassed DEF BeforeRun
<1>2. Body.node = 0 /\ Body.at = "body"
  BY DEF Body, Place
<1>3. DueInv
  BY <1>1, <1>2 DEF DueInv, BeforeRun, ThreadDue
<1>4. \A f \in Fields : /\ message[f] = Applied(f, Stored(f))
                        /\ Counted(StepsOf(f, Stored(f)))
  <2> SUFFICES ASSUME NEW f \in Fields
               PROVE  /\ message[f] = Applied(f, Stored(f))
                      /\ Counted(StepsOf(f, Stored(f)))
    OBVIOUS
  <2>1. Stored(f) = {}
    BY DEF Stored, BeforeRun
  <2>2. StepsOf(f, {}) = {}
    BY DEF StepsOf, Updaters
  <2>3. Counted({})
    BY FS_EmptySet DEF Counted
  <2>4. message[f] = <<>>
    BY DEF BeforeRun
  <2>5. QED
    BY <2>1, <2>2, <2>3, <2>4, AppliedToNothing
<1>5. \A t \in Tid : pc[t].at # "store"
  BY <1>2 DEF BeforeRun
<1>6. StoreInv
  BY <1>4, <1>5 DEF StoreInv, BeforeRun
<1>7. QED
  BY <1>3, <1>6 DEF ResultInv

\* The inductive invariant of the results.
MessageInv == IF phase = "run" THEN ResultInv ELSE BeforeRun

\* And after each step of the kernel.
LEMMA MessageNext ==
  PlanInv /\ KernelInv /\ PlanInv' /\ MessageInv /\ [BarrierNext]_allVars => MessageInv'
<1> SUFFICES ASSUME PlanInv, KernelInv, PlanInv', MessageInv, [BarrierNext]_allVars
             PROVE  MessageInv'
  OBVIOUS
<1>1. CASE GenNext /\ UNCHANGED runVars
  <2>1. phase # "run"
    BY <1>1 DEF GenNext, RegisterUpdate, SplitByThread, PickNode, PickPair, StopPicking, PlanStep,
                EndPlanning
  <2>2. BeforeRun'
    <3>1. BeforeRun
      BY <2>1 DEF MessageInv
    <3>2. Body' = Body
      BY DEF Body, Place
    <3>3. QED
      BY <1>1, <3>1, <3>2 DEF BeforeRun, runVars
  <2>3. (PlanInv /\ BeforeRun => ResultInv)'
    BY NothingDue, PTL
  <2>4. QED
    BY <2>2, <2>3 DEF MessageInv
<1>2. ASSUME NEW t \in Tid, Thread(t)
      PROVE  MessageInv'
  <2>1. phase = "run" /\ UNCHANGED genVars
    BY <1>2 DEF Thread, Reads, At, Visit, ReadEarly, ReadUnlock, ReadCheck, ReadBreak, SetUnlock,
                LoadField, StoreField, Signal, Return
  <2>2. ResultInv'
    BY <1>2, <2>1, ThreadResult DEF MessageInv
  <2>3. phase' = "run"
    BY <2>1, PlanStays
  <2>4. QED
    BY <2>2, <2>3 DEF MessageInv
<1>3. CASE UNCHANGED <<genVars, runVars>>
  <2>1. /\ UNCHANGED runVars /\ PassedNodes' = PassedNodes
        /\ phase' = phase /\ nodes' = nodes /\ wait' = wait /\ updates' = updates
        /\ pc' = pc /\ message' = message /\ tmp' = tmp /\ high' = high /\ due' = due /\ mem' = mem
    BY <1>3, PlanStays, NothingMoves DEF runVars
  <2>2. BeforeRun' <=> BeforeRun
    BY <2>1 DEF BeforeRun, Body, Place
  <2>3. DueInv' <=> DueInv
    BY <2>1 DEF DueInv, ThreadDue
  <2>4. StoreInv' <=> StoreInv
    <3>1. \A f : Stored(f)' = Stored(f)
      BY <2>1 DEF Stored, HasStored
    <3>2. ASSUME NEW f
          PROVE  /\ Applied(f, Stored(f))' = Applied(f, Stored(f))
                 /\ StepsOf(f, Stored(f))' = StepsOf(f, Stored(f))
      <4>1. PICK X : X = Stored(f)
        OBVIOUS
      <4>2. QED
        BY <1>3, <3>1, <4>1, AppliedStays
    <3>3. QED
      BY <2>1, <3>2 DEF StoreInv
  <2>5. QED
    BY <2>1, <2>2, <2>3, <2>4 DEF MessageInv, ResultInv
<1>4. QED
  BY <1>1, <1>2, <1>3, BarrierSteps

\* Whatever its threads skip, repeat or reorder and however they are scheduled,
\* when all of them are done each field of the message holds the updates of the
\* nodes control flow made due, each once, in the order the generator drew.
THEOREM KernelIsDeterministic == FairBarrierSpec => []Determinism
<1>1. BarrierInit => MessageInv
  BY DEF BarrierInit, Init, GenInit, RunInit, MessageInv, BeforeRun
<1>2. ASSUME PlanInv, KernelInv, MessageInv
      PROVE  Determinism
  <2> SUFFICES ASSUME AllDone, NEW f \in Fields
               PROVE  message[f] = Applied(f, due)
    BY DEF Determinism
  <2>1. DueInv /\ StoreInv
    BY <1>2 DEF AllDone, MessageInv, ResultInv
  <2>2. \A n \in due : n \in PassedNodes
    <3> SUFFICES ASSUME NEW n \in due
                 PROVE  n \in PassedNodes
      OBVIOUS
    <3>1. nodes[n] \in Tid
      BY <1>2, <2>1, DueNodes
    <3>2. pc[nodes[n]].at = "done"
      BY <3>1 DEF AllDone
    <3>3. QED
      BY <2>1, <3>1, <3>2 DEF DueInv, ThreadDue, AtNode
  <2>3. \A n : f \in updates[n] => (n \in Stored(f) <=> n \in due)
    BY <2>2 DEF Stored, HasStored
  <2>4. Applied(f, Stored(f)) = Applied(f, due)
    BY <2>3, AppliedToUpdaters
  <2>5. QED
    BY <2>1, <2>4 DEF StoreInv
<1>3. QED
  BY <1>1, <1>2, KernelInit, KernelNext, MessageNext, PTL DEF FairBarrierSpec

=============================================================================
