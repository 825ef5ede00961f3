--------------------------- MODULE InterThreadComm ---------------------------
(***************************************************************************)
(* Inter-thread communication (StatementComm.cpp): every thread of a group *)
(* owns one element of l_comm_values and one of g_comm_values, the one at  *)
(* its tid, and reads and writes it like any variable of the program.  A   *)
(* communication statement is a group barrier, after which each thread     *)
(* takes the element that a random permutation gives it:                   *)
(*                                                                         *)
(*   __syncthreads();                                                      *)
(*   tid = group * size + permutations[rand_expr % 10][tid % size];        *)
(*                                                                         *)
(* All threads run the same program without divergence (CUDAOptions::      *)
(* Conflict), here a sequence of the statements that matter: a write of a  *)
(* constant to the element, a read of it into the thread's own globals (x  *)
(* stands for them), and communication.  An element c of this model is     *)
(* l_comm_values[c] and g_comm_values[group * size + c] alike: they change *)
(* hands together.                                                         *)
(***************************************************************************)
EXTENDS Naturals, Sequences, FiniteSets

CONSTANTS
  GroupSize,    \* CUDAProgramGenerator::get_threads_per_group()
  Group,        \* get_linear_group_id() of the group
  PermCount,    \* kPermCount, the number of permutations
  Value,        \* the values the program writes
  RowSources,   \* what rand_expr is made of: "literal", "private", "cell"
  MaxLength     \* bound on the length of the program

ASSUME GroupSizeAssumption == GroupSize \in Nat \ {0}
ASSUME GroupAssumption == Group \in Nat
ASSUME PermCountAssumption == PermCount \in Nat \ {0}
ASSUME ValueAssumption == Value \subseteq Nat
ASSUME RowSourcesAssumption == RowSources \subseteq {"literal", "private", "cell"}
ASSUME LengthAssumption == MaxLength \in Nat

VARIABLES
  permutations,
  text,     \* the program
  tid,      \* thread -> its variable tid
  x,        \* thread -> the rest of its globals
  comm,     \* the elements of the group's buffers
  pc,       \* thread -> statement
  passed,   \* thread -> has it passed the barrier of its statement?
  touched,  \* history: element -> threads that accessed it since the barrier
  result    \* thread -> what it hashes at the end, <<>> before

fixed == <<permutations, text>>
vars == <<fixed, tid, x, comm, pc, passed, touched, result>>

-----------------------------------------------------------------------------

\* get_linear_local_id() of the threads, and tid % size: indices in a group.
Thread == 0 .. GroupSize - 1
Row == 0 .. PermCount - 1
Permutation == {p \in [Thread -> Thread] : \A s, t \in Thread : s # t => p[s] # p[t]}

Statement ==
  [op : {"write"}, arg : Value] \union [op : {"read"}]
    \union [op : {"comm"}, row : RowSources, arg : Row]

\* tid % group_size
Element(t) == tid[t] % GroupSize

Running(t, op) == pc[t] <= Len(text) /\ text[pc[t]].op = op
Advance(t) == pc' = [pc EXCEPT ![t] = @ + 1]
Touch(t) == touched' = [touched EXCEPT ![Element(t)] = @ \union {t}]
Untouched == [c \in Thread |-> {}]

\* rand_expr % 10
RowOf(t) ==
  LET from == text[pc[t]].row
      value == CASE from = "literal" -> text[pc[t]].arg
                 [] from = "private" -> x[t]
                 [] from = "cell"    -> comm[Element(t)]
  IN  value % PermCount

\* InitBuffers: the permutations are shuffled, the elements are 1, and tid
\* comes from the first permutation.
Init ==
  /\ permutations \in [Row -> Permutation]
  /\ text \in UNION {[1 .. n -> Statement] : n \in 0 .. MaxLength}
  /\ tid = [t \in Thread |-> Group * GroupSize + permutations[0][t]]
  /\ x = [t \in Thread |-> 0]
  /\ comm = [c \in Thread |-> 1]
  /\ pc = [t \in Thread |-> 1]
  /\ passed = [t \in Thread |-> FALSE]
  /\ touched = Untouched
  /\ result = [t \in Thread |-> <<>>]

Write(t) ==
  /\ Running(t, "write")
  /\ comm' = [comm EXCEPT ![Element(t)] = text[pc[t]].arg]
  /\ Touch(t)
  /\ Advance(t)
  /\ UNCHANGED <<fixed, tid, x, passed, result>>

Read(t) ==
  /\ Running(t, "read")
  /\ x' = [x EXCEPT ![t] = comm[Element(t)]]
  /\ Touch(t)
  /\ Advance(t)
  /\ UNCHANGED <<fixed, tid, comm, passed, result>>

\* Mutant: the statement is written without its barrier.
Barrier_Missing ==
  \E t \in Thread :
    /\ Running(t, "comm") /\ ~ passed[t]
    /\ passed' = [passed EXCEPT ![t] = TRUE]
    /\ touched' = Untouched
    /\ UNCHANGED <<fixed, tid, x, comm, pc, result>>

\* barrier_: all threads of the group arrive, then all go on.
Barrier ==
  /\ \A t \in Thread : Running(t, "comm") /\ ~ passed[t]
  /\ passed' = [t \in Thread |-> TRUE]
  /\ touched' = Untouched
  /\ UNCHANGED <<fixed, tid, x, comm, pc, result>>

\* Mutant: the index is the thread's own identifier, not its tid.
Assign_ByRowOnly(t) ==
  /\ Running(t, "comm") /\ passed[t]
  /\ tid' = [tid EXCEPT ![t] = Group * GroupSize + (RowOf(t) % GroupSize)]
  /\ IF text[pc[t]].row = "cell" THEN Touch(t) ELSE UNCHANGED touched
  /\ passed' = [passed EXCEPT ![t] = FALSE]
  /\ Advance(t)
  /\ UNCHANGED <<fixed, x, comm, result>>

\* assign_: the thread moves on to another element.
Assign(t) ==
  /\ Running(t, "comm") /\ passed[t]
  /\ tid' = [tid EXCEPT
               ![t] = Group * GroupSize + permutations[RowOf(t)][Element(t)]]
  /\ IF text[pc[t]].row = "cell" THEN Touch(t) ELSE UNCHANGED touched
  /\ passed' = [passed EXCEPT ![t] = FALSE]
  /\ Advance(t)
  /\ UNCHANGED <<fixed, x, comm, result>>

AtEnd(t) == pc[t] = Len(text) + 1

\* The barrier after func_1, and HashCommValues: each thread hashes its globals
\* and the elements at its own identifier.
Hash ==
  /\ \A t \in Thread : AtEnd(t) /\ result[t] = <<>>
  /\ result' = [t \in Thread |-> <<x[t], comm[t]>>]
  /\ touched' = Untouched
  /\ UNCHANGED <<fixed, tid, x, comm, pc, passed>>

AllDone == \A t \in Thread : result[t] # <<>>
Terminated == AllDone /\ UNCHANGED vars

Next ==
  \/ \E t \in Thread : Write(t) \/ Read(t) \/ Assign(t)
  \/ Barrier
  \/ Hash
  \/ Terminated

Spec == Init /\ [][Next]_vars

-----------------------------------------------------------------------------
(* Properties.                                                             *)

\* Between two barriers, no element is accessed by two threads: it changes
\* hands only with a barrier in between.
NoSharedElement == \A c \in Thread : \A s, t \in touched[c] : s = t

\* When all threads stand in front of a barrier, or at the end, no two of them
\* have the same tid, and each has one of its group: rows of the permutation
\* table are picked in step, and elements of other groups are left alone.
TidsAreDistinct ==
  /\ tid \in [Thread -> Group * GroupSize .. Group * GroupSize + GroupSize - 1]
  /\ \A s, t \in Thread : s # t /\ pc[s] = pc[t] /\ passed[s] = passed[t] => tid[s] # tid[t]

\* What a lone thread with a single element has after n statements.
Alone[n \in 0 .. Len(text)] ==
  IF n = 0 THEN [x |-> 0, element |-> 1]
  ELSE LET before == Alone[n - 1]
       IN  CASE text[n].op = "write" -> [before EXCEPT !.element = text[n].arg]
             [] text[n].op = "read"  -> [before EXCEPT !.x = before.element]
             [] text[n].op = "comm"  -> before

\* The kernel is deterministic: whatever the schedule, and whatever the
\* permutations, every thread hashes what a lone thread would.
Determinism ==
  AllDone => \A t \in Thread :
    result[t] = <<Alone[Len(text)].x, Alone[Len(text)].element>>

=============================================================================
