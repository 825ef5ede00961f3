-------------------------- MODULE RuntimeParameters --------------------------
(***************************************************************************)
(* CUDAProgramGenerator::InitRuntimeParameters draws the dimensions of the *)
(* grid a generated kernel is written for: up to MaxThreads threads in     *)
(* three dimensions, cut into groups of at most MaxThreadsPerGroup.  Every *)
(* buffer of the kernel is sized from the counts it keeps, and indexed by  *)
(* the linear identifiers CUDA.h computes in the kernel.                   *)
(*                                                                         *)
(* One action is one iteration of one of its three loops.                  *)
(***************************************************************************)
EXTENDS Naturals, FiniteSets

CONSTANTS
  MaxThreads,         \* max_threads, 10000
  MaxThreadsPerDim,   \* max_thr_per_dim, 100
  MaxThreadsPerGroup  \* max_threads_per_group, 256

ASSUME MaxThreadsAssumption == MaxThreads \in Nat \ {0}
ASSUME MaxPerDimAssumption == MaxThreadsPerDim \in Nat \ {0}
ASSUME MaxPerGroupAssumption == MaxThreadsPerGroup \in Nat \ {0}

VARIABLES
  loop,      \* the loop running: "global", "local", "groups", then "done"
  i,         \* its index
  globalDim,
  localDim,
  noThreads,
  curr,      \* curr_thr_p_grp
  noGroups

vars == <<loop, i, globalDim, localDim, noThreads, curr, noGroups>>

-----------------------------------------------------------------------------

Dim == 1 .. 3

Smaller(m, n) == IF m < n THEN m ELSE n
Product(d) == d[1] * d[2] * d[3]

\* Mutant: the root of a square is left out.
GetDivisors_NoRoot(val) ==
  {1, val} \union (UNION {{d, val \div d} :
    d \in {e \in 2 .. val : e * e < val /\ val % e = 0}})

\* get_divisors: 1 and val, the pairs below and above the square root, and the
\* square root itself when the loop has stopped exactly there.
GetDivisors(val) ==
  LET small == {d \in 2 .. val : d * d < val /\ val % d = 0}
      root  == {d \in 2 .. val : d * d = val}
  IN  {1, val} \union (UNION {{d, val \div d} : d \in small}) \union root

\* Mutant: the limit on the threads left is not applied.
Choices_OnlyPerDim(left) == 1 .. MaxThreadsPerDim

\* Mutant: rnd_upto(...) without the 1.
Choices_FromZero(left) == 0 .. Smaller(MaxThreadsPerDim, left) - 1

\* rnd_upto(...) + 1.
Choices(left) == 1 .. Smaller(MaxThreadsPerDim, left)

Init ==
  /\ loop = "global"
  /\ i = 1
  /\ globalDim = [d \in Dim |-> 1]
  /\ localDim = [d \in Dim |-> 1]
  /\ noThreads = 1
  /\ curr = 1
  /\ noGroups = 1

\* for i: draw globalDim[i] and count its threads.
DrawGlobalDim ==
  /\ loop = "global"
  /\ \E n \in Choices(MaxThreads \div noThreads) :
       /\ globalDim' = [globalDim EXCEPT ![i] = n]
       /\ noThreads' = noThreads * n
  /\ IF i < 3 THEN i' = i + 1 /\ loop' = loop
              ELSE i' = 1 /\ loop' = "local"
  /\ UNCHANGED <<localDim, curr, noGroups>>

\* The do-while loop: draw a divisor of each dimension ...
DrawLocalDim ==
  /\ loop = "local"
  /\ i \in Dim
  /\ \E n \in GetDivisors(globalDim[i]) :
       /\ localDim' = [localDim EXCEPT ![i] = n]
       /\ curr' = curr * n
  /\ i' = i + 1
  /\ UNCHANGED <<loop, globalDim, noThreads, noGroups>>

\* ... again, when the group is too large ...
RetryLocalDims ==
  /\ loop = "local"
  /\ i = 4
  /\ curr > MaxThreadsPerGroup
  /\ i' = 1
  /\ curr' = 1
  /\ UNCHANGED <<loop, globalDim, localDim, noThreads, noGroups>>

\* Mutant: groups of one thread too many are accepted.
AcceptLocalDims_OffByOne ==
  /\ loop = "local"
  /\ i = 4
  /\ curr <= MaxThreadsPerGroup + 1
  /\ loop' = "groups"
  /\ i' = 1
  /\ UNCHANGED <<globalDim, localDim, noThreads, curr, noGroups>>

\* ... until it is not.
AcceptLocalDims ==
  /\ loop = "local"
  /\ i = 4
  /\ curr <= MaxThreadsPerGroup
  /\ loop' = "groups"
  /\ i' = 1
  /\ UNCHANGED <<globalDim, localDim, noThreads, curr, noGroups>>

\* for i: count the groups.
CountGroups ==
  /\ loop = "groups"
  /\ noGroups' = noGroups * (globalDim[i] \div localDim[i])
  /\ IF i < 3 THEN i' = i + 1 /\ loop' = loop
              ELSE i' = i /\ loop' = "done"
  /\ UNCHANGED <<globalDim, localDim, noThreads, curr>>

Done == loop = "done" /\ UNCHANGED vars

Next ==
  \/ DrawGlobalDim
  \/ DrawLocalDim
  \/ RetryLocalDims
  \/ AcceptLocalDims
  \/ CountGroups
  \/ Done

Spec == Init /\ [][Next]_vars

\* The accessors the rest of the generator sizes its buffers with.
get_total_threads == noThreads * noGroups
get_threads_per_group == noThreads \div noGroups

-----------------------------------------------------------------------------
(* The identifiers of the threads, as CUDA.h computes them in the kernel,  *)
(* which the launcher starts as a grid of globalDim / localDim blocks.     *)

numGroups == [d \in Dim |-> globalDim[d] \div localDim[d]]

Index(size) == {x \in [Dim -> 0 .. MaxThreadsPerDim - 1] :
                  \A d \in Dim : x[d] < size[d]}

\* Mutant: the sizes of dimensions 0 and 1 are swapped.
Linear_Swapped(x, size) == (x[3] * size[1] + x[2]) * size[2] + x[1]

Linear(x, size) == (x[3] * size[2] + x[2]) * size[1] + x[1]

get_linear_global_id(block, thread) ==
  Linear([d \in Dim |-> block[d] * localDim[d] + thread[d]], globalDim)
get_linear_local_id(thread) == Linear(thread, localDim)
get_linear_group_id(block) == Linear(block, numGroups)

-----------------------------------------------------------------------------
(* Properties.                                                             *)

TypeOK ==
  /\ loop \in {"global", "local", "groups", "done"}
  /\ i \in 1 .. 4
  /\ (loop # "local" => i \in Dim)
  /\ globalDim \in [Dim -> 1 .. MaxThreadsPerDim]
  /\ localDim \in [Dim -> 1 .. MaxThreadsPerDim]
  /\ noThreads \in Nat \ {0}
  /\ curr \in Nat \ {0}
  /\ noGroups \in Nat \ {0}

\* The grid never has more threads than max_threads, however the dimensions
\* drawn so far come out; so there is always at least one thread left to draw
\* from, and rnd_upto is never asked for a number below zero.
ThreadsWithinLimit ==
  /\ noThreads = Product(globalDim)
  /\ noThreads <= MaxThreads

\* The candidates for a local dimension are exactly the divisors of the global
\* one: none is missed by stopping at the square root, and none is not one.
DivisorsExact ==
  loop = "local" /\ i \in Dim =>
    GetDivisors(globalDim[i]) = {d \in 1 .. globalDim[i] : globalDim[i] % d = 0}

\* When the parameters are drawn, the groups tile the grid: they have as many
\* threads as the local dimensions say, no more than max_threads_per_group, and
\* get_threads_per_group, an integer division, loses nothing.
GroupsTileTheGrid ==
  loop = "done" =>
    /\ get_threads_per_group = Product(localDim)
    /\ noGroups * get_threads_per_group = noThreads
    /\ get_threads_per_group <= MaxThreadsPerGroup

\* Every thread has an element of its own in every buffer: linear identifiers
\* of the threads of the launch are distinct and below noThreads, and so are
\* group * threads_per_group + local, the elements StatementComm hashes.  The
\* buffers sized by get_total_threads are large enough.
LinearIdsAreUnique ==
  loop = "done" =>
    LET Launched == Index(numGroups) \X Index(localDim)
        globals  == {get_linear_global_id(p[1], p[2]) : p \in Launched}
        comms    == {get_linear_group_id(p[1]) * get_threads_per_group
                       + get_linear_local_id(p[2]) : p \in Launched}
    IN  /\ Cardinality(Launched) = noThreads
        /\ globals = 0 .. noThreads - 1
        /\ comms = 0 .. noThreads - 1
        /\ noThreads <= get_total_threads

=============================================================================
