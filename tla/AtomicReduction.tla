--------------------------- MODULE AtomicReduction ---------------------------
(***************************************************************************)
(* Atomic reductions (StatementAtomicReduction.cpp).  Every thread of a    *)
(* group combines a value with a location the group shares, and between    *)
(* two barriers thread 0 adds the location up in its own v_collective:     *)
(*                                                                         *)
(*   myAtomicOp(&location, expr + get_linear_global_id());                 *)
(*   __syncthreads();                                                      *)
(*   if (get_linear_local_id() == 0) v_collective += location;             *)
(*   __syncthreads();                                                      *)
(*                                                                         *)
(* The location is l_atomic_reduction in the group's shared memory, which  *)
(* thread 0 sets to 0 at the start of the kernel, or the group's element   *)
(* of g_atomic_reduction, which the host has set to 0.  The statement is   *)
(* refused in atomic blocks, so that all threads of the group run the same *)
(* sequence of reductions.  expr is evaluated before the location is       *)
(* touched, and is abstracted to one value: get_linear_global_id() is what *)
(* makes threads contribute different ones.                                *)
(***************************************************************************)
EXTENDS Naturals, Sequences

CONSTANTS
  GroupSize,   \* CUDAProgramGenerator::get_threads_per_group()
  Group,       \* get_linear_group_id() of the group
  Width,       \* bits of a word, 32 in the code
  Op,          \* AtomicOp, the operations in use
  Expr,        \* the values of expr
  MaxLength    \* bound on the number of reductions the program runs

AtomicOp == {"Add", "Sub", "Min", "Max", "And", "Or", "Xor"}

ASSUME GroupSizeAssumption == GroupSize \in Nat \ {0}
ASSUME GroupAssumption == Group \in Nat
ASSUME WidthAssumption == Width \in Nat \ {0}
ASSUME OpAssumption == Op \subseteq AtomicOp
ASSUME ExprAssumption == Expr \subseteq Nat
ASSUME LengthAssumption == MaxLength \in Nat

VARIABLES
  text,       \* the reductions of the program, in the order they are run
  location,   \* "local" and "global" -> the value there
  pc,         \* thread -> reduction, 0 before func_1
  at,         \* thread -> place in it
  collective  \* thread -> v_collective

vars == <<text, location, pc, at, collective>>

-----------------------------------------------------------------------------

Thread == 0 .. GroupSize - 1

\* Values are those of unsigned words.
Power2[i \in 0 .. Width] == IF i = 0 THEN 1 ELSE 2 * Power2[i - 1]
Word == 0 .. Power2[Width] - 1
Wrap(n) == n % Power2[Width]
MemoryLoc == {"local", "global"}
Place == {"init", "entry", "atomic", "first", "collect", "second"}

Reduction == [op : Op, mem : MemoryLoc, expr : Expr, add_global : BOOLEAN]

Bit(v, i) == (v \div Power2[i]) % 2

\* The word with bits c.
FromBits(c) ==
  LET Upto[i \in 0 .. Width] ==
        IF i = 0 THEN 0 ELSE Upto[i - 1] + (Power2[i - 1] * c[i - 1])
  IN  Upto[Width]

\* The operations of C that combine words bit by bit.
Combine(op, a, b) ==
  CASE op = "And" -> a * b
    [] op = "Or"  -> (a + b) - (a * b)
    [] op = "Xor" -> (a + b) % 2
BitByBit(op, v, w) ==
  FromBits([i \in 0 .. Width - 1 |-> Combine(op, Bit(v, i), Bit(w, i))])

\* What myAtomicOp leaves at a location with value v, all on unsigned words.
Apply(op, v, w) ==
  CASE op = "Add" -> Wrap(v + w)
    [] op = "Sub" -> Wrap((v + Power2[Width]) - w)
    [] op = "Min" -> IF w < v THEN w ELSE v
    [] op = "Max" -> IF w > v THEN w ELSE v
    [] op \in {"And", "Or", "Xor"} -> BitByBit(op, v, w)

\* expr, or expr + get_linear_global_id().
Contribution(r, t) ==
  Wrap(r.expr + (IF r.add_global THEN (Group * GroupSize) + t ELSE 0))

Current(t) == text[pc[t]]
AtReduction(t, place) == at[t] = place /\ pc[t] \in DOMAIN text
Goto(t, place) == at' = [at EXCEPT ![t] = place]

\* Shared memory holds anything before it is initialised.
Init ==
  /\ text \in UNION {[1 .. n -> Reduction] : n \in 0 .. MaxLength}
  /\ location \in [MemoryLoc -> Word]
  /\ location["global"] = 0
  /\ pc = [t \in Thread |-> 0]
  /\ at = [t \in Thread |-> "init"]
  /\ collective = [t \in Thread |-> 0]

\* Mutant: no thread initialises the buffer.
InitBuffer_Nobody(t) ==
  /\ at[t] = "init"
  /\ Goto(t, "entry")
  /\ UNCHANGED <<text, location, pc, collective>>

\* The kernel's prologue: thread 0 of the group initialises the local buffer,
\* and all of them go to the barrier in front of func_1.
InitBuffer(t) ==
  /\ at[t] = "init"
  /\ location' = IF t = 0 THEN [location EXCEPT !["local"] = 0] ELSE location
  /\ Goto(t, "entry")
  /\ UNCHANGED <<text, pc, collective>>

Atomic(t) ==
  LET r == Current(t)
  IN  /\ AtReduction(t, "atomic")
      /\ location' = [location EXCEPT ![r.mem] = Apply(r.op, @, Contribution(r, t))]
      /\ Goto(t, "first")
      /\ UNCHANGED <<text, pc, collective>>

\* Mutant: threads that have nothing to collect return.
Collect_OthersReturn(t) ==
  /\ AtReduction(t, "collect")
  /\ collective' = IF t # 0 THEN collective
       ELSE [collective EXCEPT ![t] = Wrap(@ + location[Current(t).mem])]
  /\ Goto(t, IF t = 0 THEN "second" ELSE "atomic")
  /\ pc' = IF t = 0 THEN pc ELSE [pc EXCEPT ![t] = Len(text) + 1]
  /\ UNCHANGED <<text, location>>

\* Mutant: there is no barrier after the read.
Collect_NoBarrier(t) ==
  /\ AtReduction(t, "collect")
  /\ collective' = IF t # 0 THEN collective
       ELSE [collective EXCEPT ![t] = Wrap(@ + location[Current(t).mem])]
  /\ Goto(t, "atomic")
  /\ pc' = [pc EXCEPT ![t] = @ + 1]
  /\ UNCHANGED <<text, location>>

\* Thread 0 reads the location, the others pass on to the second barrier.
Collect(t) ==
  /\ AtReduction(t, "collect")
  /\ collective' = IF t # 0 THEN collective
       ELSE [collective EXCEPT ![t] = Wrap(@ + location[Current(t).mem])]
  /\ Goto(t, "second")
  /\ UNCHANGED <<text, location, pc>>

Waiting(t) == at[t] \in {"entry", "first", "second"}

\* __syncthreads(): whichever barrier a thread is at, all are let go together.
Sync ==
  /\ \A t \in Thread : Waiting(t)
  /\ at' = [t \in Thread |-> IF at[t] = "first" THEN "collect" ELSE "atomic"]
  /\ pc' = [t \in Thread |-> IF at[t] = "first" THEN pc[t] ELSE pc[t] + 1]
  /\ UNCHANGED <<text, location, collective>>

AtEnd(t) == at[t] = "atomic" /\ pc[t] = Len(text) + 1
AllDone == \A t \in Thread : AtEnd(t)
Terminated == AllDone /\ UNCHANGED vars

Step(t) == InitBuffer(t) \/ Atomic(t) \/ Collect(t)
Next == (\E t \in Thread : Step(t)) \/ Sync \/ Terminated

Spec == Init /\ [][Next]_vars

\* Every thread of the group is scheduled, and the hardware lets a full
\* barrier go.
FairSpec == Spec /\ WF_vars(Sync) /\ \A t \in Thread : WF_vars(Step(t))

-----------------------------------------------------------------------------
(* Properties.                                                             *)

\* The location thread t is about to access, if it is, and how.
NextAccess(t) ==
  IF AtReduction(t, "atomic") THEN [mem |-> Current(t).mem, atomic |-> TRUE]
  ELSE IF t # 0 THEN [mem |-> "none", atomic |-> FALSE]
  ELSE IF at[t] = "init" THEN [mem |-> "local", atomic |-> FALSE]
  ELSE IF AtReduction(t, "collect") THEN [mem |-> Current(t).mem, atomic |-> FALSE]
  ELSE [mem |-> "none", atomic |-> FALSE]

\* No plain access to a location competes with another access to it: thread 0
\* neither initialises nor reads a location that another thread may be adding to.
PlainAccessesDoNotRace ==
  \A s, t \in Thread :
    s # t /\ NextAccess(s).mem = NextAccess(t).mem /\ NextAccess(s).mem # "none" =>
      NextAccess(s).atomic /\ NextAccess(t).atomic

\* What one thread after another makes of value v, in reduction r.
AfterThreads(r, v) ==
  LET Upto[k \in 0 .. GroupSize] ==
        IF k = 0 THEN v ELSE Apply(r.op, Upto[k - 1], Contribution(r, k - 1))
  IN  Upto[GroupSize]

\* What the first n reductions leave in memory and in thread 0's v_collective if
\* the threads run one after another.
Sequential[n \in 0 .. Len(text)] ==
  IF n = 0 THEN [location |-> [mem \in MemoryLoc |-> 0], sum |-> 0]
  ELSE LET r == text[n]
           before == Sequential[n - 1]
           value == AfterThreads(r, before.location[r.mem])
       IN  [location |-> [before.location EXCEPT ![r.mem] = value],
            sum |-> Wrap(before.sum + value)]

\* The kernel is deterministic ("exercise atomic operations, while still
\* keeping the program generated deterministic", StatementAtomicReduction.h):
\* under every schedule thread 0 collects what a sequential run would, and the
\* others nothing.
Determinism ==
  AllDone => \A t \in Thread :
    collective[t] = IF t = 0 THEN Sequential[Len(text)].sum ELSE 0

\* All threads come to the same barriers: the kernel returns.
KernelReturns == <>AllDone

=============================================================================
