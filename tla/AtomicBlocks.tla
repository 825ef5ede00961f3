----------------------------- MODULE AtomicBlocks -----------------------------
(***************************************************************************)
(* Atomic blocks (ExpressionAtomic.cpp, StatementIf.cpp,                   *)
(* StatementAtomicResult.cpp).  A block is written out as                  *)
(*                                                                         *)
(*   if (myAtomicInc(&input[counter]) == constant) {                       *)
(*     ...                                                                 *)
(*     myAtomicAdd(&special_values[counter], result);                      *)
(*   }                                                                     *)
(*                                                                         *)
(* with myAtomicAdd(&input[counter], add) in place of myAtomicInc for some *)
(* blocks.  result is the sum of the block's local variables.  The buffers *)
(* are in the group's shared memory, where thread 0 sets them to 0 at the  *)
(* start of the kernel, or in global memory, set to 0 by the host.  After  *)
(* func_1 each thread hashes its own variables, and thread 0 the special   *)
(* values.                                                                 *)
(*                                                                         *)
(* The schedule decides which thread enters a block.  The code keeps the   *)
(* result from depending on it by three means: a counter is claimed by one *)
(* block only, most statements of a block see only the block's variables   *)
(* (atomic_context), and special values are hashed behind a barrier.       *)
(***************************************************************************)
EXTENDS Naturals, Sequences, FiniteSets

CONSTANTS
  GroupSize,   \* CUDAProgramGenerator::get_threads_per_group()
  NoBlocks,    \* no_atomic_blocks, the number of counters
  Add,         \* what a condition may add to its counter, 1 to 10 in the code
  Constant,    \* what a condition may compare with, 0 to 9 in the code
  Body,        \* the kinds of blocks, see below
  Garbage,     \* what may be in shared memory before it is initialised
  MaxBlocks,   \* bound on the number of blocks
  MaxPath      \* bound on the number of times a thread comes to a block

\* A "local" block changes only its own variables.  An "array" block also has
\* a StatementArrayOp, which sets an array of the thread that runs it.  Message nodes,
\* which a block may have as well, change the message; nothing hashes that.
BodyKind == {"local", "array"}

ASSUME GroupSizeAssumption == GroupSize \in Nat \ {0}
ASSUME CountersAssumption == NoBlocks \in Nat /\ MaxBlocks \in Nat /\ MaxPath \in Nat
ASSUME AddAssumption == Add \subseteq Nat \ {0}
ASSUME ConstantAssumption == Constant \subseteq Nat
ASSUME BodyAssumption == Body \subseteq BodyKind
ASSUME GarbageAssumption == Garbage \subseteq Nat

VARIABLES
  free_counters,
  blocks,    \* the atomic blocks of the program, in the order they were made
  path,      \* thread -> the blocks it comes to, in order
  at,        \* thread -> place
  pos,       \* thread -> position in its path
  input,     \* memory -> counter -> value
  special,   \* memory -> counter -> special value
  array,     \* thread -> value of an array the thread owns
  hash,      \* thread -> what it has hashed
  entered    \* block -> number of times it was entered (history)

kernel == <<path, at, pos, input, special, array, hash, entered>>
vars == <<free_counters, blocks, kernel>>

-----------------------------------------------------------------------------

Thread == 0 .. GroupSize - 1
Counter == 0 .. NoBlocks - 1
AtomicMemAccess == {"global", "local"}
Block == [counter : Counter, mem : AtomicMemAccess, add : Add,
          const : Constant, body : Body]
Place == {"generating", "init", "entry", "run", "inside", "result", "exit", "hash", "done"}

\* The sum of the block's variables.
Result(b) == b

Goto(t, place) == at' = [at EXCEPT ![t] = place]

Init ==
  /\ free_counters = Counter
  /\ blocks = <<>>
  /\ path = [t \in Thread |-> <<>>]
  /\ at = [t \in Thread |-> "generating"]
  /\ pos = [t \in Thread |-> 1]
  /\ \E g \in Garbage :
       /\ input = [mem \in AtomicMemAccess |->
                     [c \in Counter |-> IF mem = "global" THEN 0 ELSE g]]
       /\ special = input
  /\ array = [t \in Thread |-> 0]
  /\ hash = [t \in Thread |-> <<>>]
  /\ entered = [b \in 1 .. MaxBlocks |-> 0]

Generating == \A t \in Thread : at[t] = "generating"

\* Mutant: the counter stays free.
Claim_StaysFree(block) ==
  /\ Generating
  /\ Len(blocks) < MaxBlocks
  /\ block.counter \in free_counters
  /\ blocks' = Append(blocks, block)
  /\ UNCHANGED <<free_counters, kernel>>

\* ExpressionAtomic::make_condition; without a free counter there is none.
Claim(block) ==
  /\ Generating
  /\ Len(blocks) < MaxBlocks
  /\ block.counter \in free_counters
  /\ blocks' = Append(blocks, block)
  /\ free_counters' = free_counters \ {block.counter}
  /\ UNCHANGED kernel

\* The kernel starts.  Control flow takes each thread past some of the blocks,
\* past some of them more than once.
Launch ==
  /\ Generating
  /\ path' \in [Thread -> UNION {[1 .. n -> 1 .. Len(blocks)] : n \in 0 .. MaxPath}]
  /\ at' = [t \in Thread |-> "init"]
  /\ UNCHANGED <<free_counters, blocks, pos, input, special, array, hash, entered>>

Zero == [c \in Counter |-> 0]

\* The kernel's prologue, up to the barrier in front of func_1.
InitBuffers(t) ==
  /\ at[t] = "init"
  /\ input' = IF t = 0 THEN [input EXCEPT !["local"] = Zero] ELSE input
  /\ special' = IF t = 0 THEN [special EXCEPT !["local"] = Zero] ELSE special
  /\ Goto(t, "entry")
  /\ UNCHANGED <<free_counters, blocks, path, pos, array, hash, entered>>

Here(t) == path[t][pos[t]]
AtBlock(t) == at[t] = "run" /\ pos[t] \in DOMAIN path[t]

\* Mutant: every thread from the one with the constant on enters.
Test_AtLeast(t) ==
  LET block == blocks[Here(t)]
      enters == input[block.mem][block.counter] >= block.const
  IN  /\ AtBlock(t)
      /\ input' = [input EXCEPT ![block.mem][block.counter] = @ + block.add]
      /\ IF enters
         THEN /\ Goto(t, "inside")
              /\ entered' = [entered EXCEPT ![Here(t)] = @ + 1]
              /\ pos' = pos
         ELSE /\ pos' = [pos EXCEPT ![t] = @ + 1]
              /\ UNCHANGED <<at, entered>>
      /\ UNCHANGED <<free_counters, blocks, path, special, array, hash>>

\* The condition: one atomic operation, whose old value is compared.
Test(t) ==
  LET block == blocks[Here(t)]
      enters == input[block.mem][block.counter] = block.const
  IN  /\ AtBlock(t)
      /\ input' = [input EXCEPT ![block.mem][block.counter] = @ + block.add]
      /\ IF enters
         THEN /\ Goto(t, "inside")
              /\ entered' = [entered EXCEPT ![Here(t)] = @ + 1]
              /\ pos' = pos
         ELSE /\ pos' = [pos EXCEPT ![t] = @ + 1]
              /\ UNCHANGED <<at, entered>>
      /\ UNCHANGED <<free_counters, blocks, path, special, array, hash>>

\* The statements of the block.
RunBody(t) ==
  /\ at[t] = "inside"
  /\ array' = IF blocks[Here(t)].body = "array" THEN [array EXCEPT ![t] = 1] ELSE array
  /\ Goto(t, "result")
  /\ UNCHANGED <<free_counters, blocks, path, pos, input, special, hash, entered>>

\* What GenSpecialVals appends to the block.
AddResult(t) ==
  LET block == blocks[Here(t)]
  IN  /\ at[t] = "result"
      /\ special' = [special EXCEPT ![block.mem][block.counter] = @ + Result(Here(t))]
      /\ pos' = [pos EXCEPT ![t] = @ + 1]
      /\ Goto(t, "run")
      /\ UNCHANGED <<free_counters, blocks, path, input, array, hash, entered>>

\* func_1 is over; the barrier behind it comes next.
ReturnFromFunc1(t) ==
  /\ at[t] = "run" /\ pos[t] \notin DOMAIN path[t]
  /\ Goto(t, "exit")
  /\ UNCHANGED <<free_counters, blocks, path, pos, input, special, array, hash, entered>>

\* Every thread hashes its own variables, thread 0 the special values.
Hash(t) ==
  /\ at[t] = "hash"
  /\ hash' = [hash EXCEPT ![t] = IF t = 0 THEN <<array[t], special>> ELSE <<array[t]>>]
  /\ Goto(t, "done")
  /\ UNCHANGED <<free_counters, blocks, path, pos, input, special, array, entered>>

\* __syncthreads()
Sync(barrier, behind) ==
  /\ \A t \in Thread : at[t] = barrier
  /\ at' = [t \in Thread |-> behind]
  /\ UNCHANGED <<free_counters, blocks, path, pos, input, special, array, hash, entered>>

AllDone == \A t \in Thread : at[t] = "done"
Terminated == AllDone /\ UNCHANGED vars

Step(t) ==
  \/ InitBuffers(t) \/ Test(t) \/ RunBody(t) \/ AddResult(t)
  \/ ReturnFromFunc1(t) \/ Hash(t)

Next ==
  \/ \E block \in Block : Claim(block)
  \/ Launch
  \/ \E t \in Thread : Step(t)
  \/ Sync("entry", "run")
  \/ Sync("exit", "hash")
  \/ Terminated

Spec == Init /\ [][Next]_vars

-----------------------------------------------------------------------------
(* Properties.                                                             *)

\* A block is entered at most once in the life of a kernel, however often and
\* by however many threads its condition is evaluated.
OneEntry == \A b \in 1 .. MaxBlocks : entered[b] <= 1

\* How often the threads of T come to block b.
Visits(b, T) == Cardinality({v \in T \X (1 .. MaxPath) :
                               v[2] <= Len(path[v[1]]) /\ path[v[1]][v[2]] = b})

\* With n visits to b, one of them finds the constant in the counter.
Hit(b, n) == \E k \in 0 .. n - 1 : k * blocks[b].add = blocks[b].const

\* If the threads ran one after another, t would be the one to enter b.
Entrant(t, b) == Hit(b, Visits(b, 0 .. t)) /\ ~ Hit(b, Visits(b, 0 .. t - 1))

\* The special values of a kernel.
SpecialValue(mem, c) ==
  LET entry == {b \in 1 .. Len(blocks) :
                  blocks[b].mem = mem /\ blocks[b].counter = c /\ Hit(b, Visits(b, Thread))}
  IN  IF entry = {} THEN 0 ELSE Result(CHOOSE b \in entry : TRUE)

\* The kernel is deterministic ("deterministic and valid CUDA kernel code",
\* README.md): what is hashed is what threads that run one after another hash.
Determinism ==
  AllDone => \A t \in Thread :
    LET own == IF \E b \in 1 .. Len(blocks) : blocks[b].body = "array" /\ Entrant(t, b)
               THEN 1 ELSE 0
    IN  hash[t] = IF t # 0 THEN <<own>>
                  ELSE <<own, [mem \in AtomicMemAccess |->
                                 [c \in Counter |-> SpecialValue(mem, c)]]>>

=============================================================================
