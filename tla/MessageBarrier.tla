---------------------------- MODULE MessageBarrier ----------------------------
(***************************************************************************)
(* Message nodes and group barriers in one program.  StatementComm and     *)
(* StatementAtomicReduction write a __syncthreads() that every thread of   *)
(* the group reaches; nothing in CUDAOptions::Conflict keeps them out of a *)
(* program with message nodes, and CUDAStatement::make_random picks any of *)
(* the three.  A program with barriers is here the simplest with both:     *)
(* straight-line code in which node n is the n-th message statement of     *)
(* func_1 and some nodes have a barrier just before them.  A program       *)
(* without barriers has any control flow.                                  *)
(***************************************************************************)
EXTENDS MessagePassing

VARIABLES
  barriers,  \* the nodes with a barrier statement just before them
  crossed    \* the last barrier the group has crossed, 0 at the start

barrierVars == <<barriers, crossed>>
allVars == <<vars, barrierVars>>

Ahead == {b \in barriers : b > crossed}

\* The nodes a thread comes to between the last barrier and the next one, and
\* those it still has to run before it can go on to that barrier.
InReach(n) == n >= crossed /\ \A b \in Ahead : n < b
ToRun(t) == {n \in sbGraph(t) \intersect DOMAIN wait : InReach(n) /\ n > high[t]}

BarrierInit ==
  /\ Init
  /\ barriers = {}
  /\ crossed = 0

\* Generation also draws where the barriers stand.
PlaceBarriers ==
  /\ Generate
  /\ barriers' \in IF phase = "register" /\ phase' = "order"
                     THEN SUBSET DOMAIN nodes ELSE {barriers}
  /\ UNCHANGED crossed

\* __syncthreads(): all threads of the group arrive, then all go on.
Sync ==
  /\ Ahead # {}
  /\ \A t \in Tid : At(t, "body") /\ ToRun(t) = {}
  /\ crossed' = First(Ahead)
  /\ UNCHANGED <<vars, barriers>>

\* Where there are barriers, a thread runs the text from top to bottom: every
\* node of its own in turn, a stop at each barrier, and the return when all are
\* behind it.
RunText(t) ==
  /\ Thread(t)
  /\ barriers # {} /\ At(t, "body") =>
       IF ToRun(t) = {} THEN Ahead = {}
       ELSE visits'[t] > visits[t] /\ high'[t] = First(ToRun(t))
  /\ UNCHANGED barrierVars

BarrierNext ==
  \/ PlaceBarriers
  \/ Sync
  \/ \E t \in Tid : RunText(t)
  \/ AllDone /\ UNCHANGED allVars

FairBarrierSpec ==
  /\ BarrierInit /\ [][BarrierNext]_allVars
  /\ WF_allVars(PlaceBarriers)
  /\ WF_allVars(Sync)
  /\ \A t \in Tid : WF_allVars(RunText(t))

-----------------------------------------------------------------------------

\* What the generator says of its programs: they are valid and deterministic
\* (README.md), and the constraints are checked and updated at the end of the
\* kernel to prevent deadlock (CUDAOutputMgr.cpp).  So a kernel returns.
KernelReturns == <>AllDone

\* The barriers agree with the order when no node stands behind a barrier that
\* a node of a later step stands before.
BarriersBefore(n) == {b \in barriers : b <= n}
BarriersAgree ==
  \A k \in DOMAIN order : \A j \in 1 .. k - 1 :
    \A m \in Step(j), n \in Step(k) : BarriersBefore(m) \subseteq BarriersBefore(n)

\* When they agree the kernel does return, and so does one without barriers:
\* under a scheduler that lets every thread go on, no thread is left spinning for
\* a node that no thread will run or unlock ("check and update constraints to
\* prevent deadlock", CUDAOutputMgr.cpp), and waits of nodes and at barriers
\* block each other only through a pair of nodes that do not agree.
AgreeingKernelReturns == (phase = "run" /\ BarriersAgree) ~> AllDone

=============================================================================
