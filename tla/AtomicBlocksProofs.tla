-------------------------- MODULE AtomicBlocksProofs --------------------------
(***************************************************************************)
(* For every group, program and control flow, an atomic block is entered   *)
(* at most once: counters only grow once they are initialised, so that     *)
(* after an entry the counter is above the block's constant for good.      *)
(* And as every block has a counter of its own, which thread enters does   *)
(* not show in what the group hashes.                                      *)
(***************************************************************************)
EXTENDS AtomicBlocks, FiniteSetTheorems, TLAPS

Types ==
  /\ blocks \in Seq(Block)
  /\ Len(blocks) <= MaxBlocks
  /\ \A t \in Thread : \A i \in DOMAIN path[t] : path[t][i] \in 1 .. Len(blocks)
  /\ path \in [Thread -> UNION {[1 .. n -> Nat] : n \in Nat}]
  /\ at \in [Thread -> Place]
  /\ input \in [AtomicMemAccess -> [Counter -> Nat]]
  /\ entered \in [1 .. MaxBlocks -> Nat]

\* In front of the first barrier, and behind it.
Early == \A t \in Thread : at[t] \in {"generating", "init", "entry"}
Late == \A t \in Thread : at[t] \notin {"generating", "init", "entry"}

InPhase == (Early \/ Late) /\ (Early => \A b \in 1 .. MaxBlocks : entered[b] = 0)

NotEntered(b) == entered[b] = 0

\* The counter has left the constant behind.
Passed(b) ==
  /\ b <= Len(blocks)
  /\ entered[b] = 1
  /\ input[blocks[b].mem][blocks[b].counter] > blocks[b].const

CounterPasses == \A b \in 1 .. MaxBlocks : NotEntered(b) \/ Passed(b)

\* The inductive invariant.
EntryInv == Types /\ InPhase /\ CounterPasses

\* The parts of a block.
LEMMA BlockParts ==
  ASSUME NEW block \in Block
  PROVE  /\ block.mem \in AtomicMemAccess /\ block.counter \in Counter
         /\ block.add \in Nat \ {0} /\ block.const \in Nat
  BY AddAssumption, ConstantAssumption DEF Block

\* Nothing has been entered in the beginning.
LEMMA EntryInit == Init => EntryInv
<1> SUFFICES ASSUME Init PROVE EntryInv
  OBVIOUS
<1>1. PICK g \in Garbage :
        input = [mem \in AtomicMemAccess |->
                   [c \in Counter |-> IF mem = "global" THEN 0 ELSE g]]
  BY DEF Init
<1>2. g \in Nat
  BY GarbageAssumption
<1>3. input \in [AtomicMemAccess -> [Counter -> Nat]]
  BY <1>1, <1>2
<1>4. path \in [Thread -> UNION {[1 .. n -> Nat] : n \in Nat}]
  <2>1. <<>> \in [1 .. 0 -> Nat]
    OBVIOUS
  <2>2. <<>> \in UNION {[1 .. n -> Nat] : n \in Nat}
    BY <2>1
  <2> QED BY <2>2 DEF Init
<1>5. Types
  <2>1. blocks \in Seq(Block) /\ Len(blocks) = 0
    BY DEF Init
  <2>2. \A t \in Thread : DOMAIN path[t] = {}
    BY DEF Init
  <2>3. at \in [Thread -> Place] /\ entered \in [1 .. MaxBlocks -> Nat]
    BY DEF Init, Place
  <2> QED BY <1>3, <1>4, <2>1, <2>2, <2>3, CountersAssumption, SMTT(30) DEF Types
<1> QED BY <1>5 DEF Init, EntryInv, InPhase, Early, CounterPasses, NotEntered

\* The step of a thread that evaluates a condition: the counter of its block
\* grows, and the block is entered only when the counter is at the constant.
LEMMA TestStep ==
  ASSUME EntryInv, NEW t \in Thread, Test(t)
  PROVE  EntryInv'
<1> DEFINE h == Here(t)
<1> DEFINE m == blocks[h].mem
<1> DEFINE c == blocks[h].counter
<1>1. at[t] = "run" /\ pos[t] \in DOMAIN path[t]
  BY DEF Test, AtBlock
<1>2. h \in 1 .. Len(blocks)
  BY <1>1 DEF EntryInv, Types, Here
<1>3. /\ blocks[h] \in Block
      /\ m \in AtomicMemAccess /\ c \in Counter
      /\ blocks[h].add \in Nat \ {0} /\ blocks[h].const \in Nat
  <2>1. blocks[h] \in Block
    BY <1>2 DEF EntryInv, Types
  <2> QED BY <2>1, BlockParts
<1>4. /\ blocks' = blocks /\ path' = path
      /\ input' = [input EXCEPT ![m][c] = @ + blocks[h].add]
  BY DEF Test
<1>5. \/ at' = at /\ entered' = entered
      \/ /\ input[m][c] = blocks[h].const
         /\ at' = [at EXCEPT ![t] = "inside"]
         /\ entered' = [entered EXCEPT ![h] = @ + 1]
  BY DEF Test, Goto
<1>6. /\ at' \in [Thread -> Place]
      /\ entered' \in [1 .. MaxBlocks -> Nat]
  <2>1. at \in [Thread -> Place] /\ entered \in [1 .. MaxBlocks -> Nat]
    BY DEF EntryInv, Types
  <2>2. CASE at' = at /\ entered' = entered
    BY <2>1, <2>2
  <2>3. CASE /\ at' = [at EXCEPT ![t] = "inside"]
             /\ entered' = [entered EXCEPT ![h] = @ + 1]
    <3>1. at' \in [Thread -> Place]
      BY <2>1, <2>3 DEF Place
    <3>2. h \in 1 .. MaxBlocks
      BY <1>2, CountersAssumption DEF EntryInv, Types
    <3>3. entered' \in [1 .. MaxBlocks -> Nat]
      BY <2>1, <2>3, <3>2
    <3> QED BY <3>1, <3>3
  <2> QED BY <1>5, <2>2, <2>3
<1>7. input' \in [AtomicMemAccess -> [Counter -> Nat]]
  BY <1>3, <1>4 DEF EntryInv, Types
<1>8. Types'
  BY <1>4, <1>6, <1>7 DEF EntryInv, Types
<1>9. Late /\ Late' /\ ~ Early'
  BY <1>1, <1>5 DEF EntryInv, InPhase, Early, Late, Types
<1>10. ASSUME NEW d \in AtomicMemAccess, NEW e \in Counter
       PROVE  input'[d][e] >= input[d][e]
  BY <1>3, <1>4, SMTT(30) DEF EntryInv, Types
<1>11. ASSUME NEW b \in 1 .. MaxBlocks PROVE NotEntered(b)' \/ Passed(b)'
  <2>1. CASE Passed(b)
    <3>1. b \in 1 .. Len(blocks)
      BY <2>1 DEF Passed
    <3>2. /\ blocks[b].mem \in AtomicMemAccess /\ blocks[b].counter \in Counter
          /\ blocks[b].const \in Nat
      <4>1. blocks[b] \in Block
        BY <3>1 DEF EntryInv, Types
      <4> QED BY <4>1, BlockParts
    <3>3. input'[blocks[b].mem][blocks[b].counter] > blocks[b].const
      BY <2>1, <1>7, <1>10, <3>2 DEF Passed, EntryInv, Types
    <3>4. entered'[b] = entered[b]
      <4>1. CASE entered' = entered
        BY <4>1
      <4>2. CASE input[m][c] = blocks[h].const /\ entered' = [entered EXCEPT ![h] = @ + 1]
        <5>1. b # h
          BY <2>1, <1>3, <4>2 DEF Passed, EntryInv, Types
        <5> QED BY <4>2, <5>1 DEF EntryInv, Types
      <4> QED BY <1>5, <4>1, <4>2
    <3> QED BY <2>1, <1>4, <3>3, <3>4 DEF Passed
  <2>2. CASE NotEntered(b) /\ entered'[b] = entered[b]
    BY <2>2 DEF NotEntered
  <2>3. CASE NotEntered(b) /\ entered'[b] # entered[b]
    <3>1. /\ b = h /\ input[m][c] = blocks[h].const
          /\ entered'[b] = entered[b] + 1
      BY <2>3, <1>2, <1>5, CountersAssumption DEF EntryInv, Types
    <3>2. input'[m][c] = input[m][c] + blocks[h].add
      BY <1>3, <1>4 DEF EntryInv, Types
    <3>3. input'[m][c] > blocks[h].const
      BY <1>3, <3>1, <3>2
    <3> QED BY <1>2, <1>4, <2>3, <3>1, <3>3 DEF Passed, NotEntered
  <2> QED BY <2>1, <2>2, <2>3 DEF EntryInv, CounterPasses
<1>12. CounterPasses'
  BY <1>11 DEF CounterPasses
<1> QED BY <1>8, <1>9, <1>12 DEF EntryInv, InPhase

\* A step that leaves the blocks, the counters and the entries alone keeps the
\* invariant, if it keeps threads on their side of the barrier.
LEMMA QuietStep ==
  ASSUME EntryInv, blocks' = blocks, path' = path, input' = input,
         entered' = entered, at' \in [Thread -> Place],
         Early' \/ Late', Early' => Early
  PROVE  EntryInv'
<1>1. Types'
  BY DEF EntryInv, Types
<1>2. InPhase'
  BY DEF EntryInv, InPhase
<1>3. CounterPasses'
  BY DEF EntryInv, CounterPasses, NotEntered, Passed
<1> QED BY <1>1, <1>2, <1>3 DEF EntryInv

\* Claiming, launching and initialising enter nothing; a test that enters a block
\* leaves the counter above the constant, and no counter goes down after that.
LEMMA EntryStep == EntryInv /\ [Next]_vars => EntryInv'
<1> SUFFICES ASSUME EntryInv, [Next]_vars PROVE EntryInv'
  OBVIOUS
<1>1. ASSUME NEW block \in Block, Claim(block) PROVE EntryInv'
  <2>1. /\ Len(blocks) < MaxBlocks /\ blocks' = Append(blocks, block)
        /\ UNCHANGED <<path, at, input, entered>>
    BY <1>1 DEF Claim, kernel
  <2>2. Early /\ Early'
    BY <1>1, <2>1 DEF Claim, Generating, Early
  <2>3. blocks' \in Seq(Block) /\ Len(blocks') = Len(blocks) + 1
    BY <2>1 DEF EntryInv, Types
  <2>4. Types'
    <3>1. Len(blocks) \in Nat
      BY DEF EntryInv, Types
    <3>2. Len(blocks') <= MaxBlocks
      BY <2>1, <2>3, <3>1, CountersAssumption
    <3>3. \A t \in Thread : \A i \in DOMAIN path'[t] : path'[t][i] \in 1 .. Len(blocks')
      <4>1. 1 .. Len(blocks) \subseteq 1 .. Len(blocks')
        BY <2>3, <3>1
      <4> QED BY <2>1, <4>1 DEF EntryInv, Types
    <3> QED BY <2>1, <2>3, <3>2, <3>3 DEF EntryInv, Types
  <2>5. \A b \in 1 .. MaxBlocks : NotEntered(b)'
    BY <2>1, <2>2 DEF EntryInv, InPhase, NotEntered
  <2> QED BY <2>2, <2>4, <2>5 DEF EntryInv, InPhase, CounterPasses, NotEntered
<1>2. ASSUME Launch PROVE EntryInv'
  <2>1. /\ path' \in [Thread -> UNION {[1 .. n -> 1 .. Len(blocks)] : n \in 0 .. MaxPath}]
        /\ at' = [t \in Thread |-> "init"]
        /\ UNCHANGED <<blocks, input, entered>>
    BY <1>2 DEF Launch
  <2>2. Early /\ Early'
    BY <1>2, <2>1 DEF Launch, Generating, Early
  <2>3. \A t \in Thread : \A i \in DOMAIN path'[t] : path'[t][i] \in 1 .. Len(blocks)
    BY <2>1
  <2>4. path' \in [Thread -> UNION {[1 .. n -> Nat] : n \in Nat}]
    <3>1. ASSUME NEW f \in UNION {[1 .. n -> 1 .. Len(blocks)] : n \in 0 .. MaxPath}
          PROVE  f \in UNION {[1 .. n -> Nat] : n \in Nat}
      <4>1. PICK n \in 0 .. MaxPath : f \in [1 .. n -> 1 .. Len(blocks)]
        BY <3>1
      <4>2. f \in [1 .. n -> Nat] /\ n \in Nat
        BY <4>1, CountersAssumption DEF EntryInv, Types
      <4> QED BY <4>2
    <3> QED BY <2>1, <3>1
  <2>5. Types'
    BY <2>1, <2>3, <2>4 DEF EntryInv, Types, Place
  <2> QED BY <2>1, <2>2, <2>5 DEF EntryInv, InPhase, CounterPasses, NotEntered
<1>3. ASSUME NEW t \in Thread, InitBuffers(t) PROVE EntryInv'
  <2>1. /\ at[t] = "init" /\ at' = [at EXCEPT ![t] = "entry"]
        /\ input' = IF t = 0 THEN [input EXCEPT !["local"] = Zero] ELSE input
        /\ UNCHANGED <<blocks, path, entered>>
    BY <1>3 DEF InitBuffers, Goto
  <2>2. Early /\ Early'
    BY <2>1 DEF EntryInv, InPhase, Early, Late, Types
  <2>3. input' \in [AtomicMemAccess -> [Counter -> Nat]]
    BY <2>1 DEF EntryInv, Types, Zero
  <2>4. Types'
    BY <2>1, <2>3 DEF EntryInv, Types, Place
  <2> QED BY <2>1, <2>2, <2>4 DEF EntryInv, InPhase, CounterPasses, NotEntered
<1>4. ASSUME NEW t \in Thread, RunBody(t) \/ AddResult(t) \/ ReturnFromFunc1(t) \/ Hash(t)
      PROVE  EntryInv'
  <2>1. PICK p \in {"result", "run", "exit", "done"} : at' = [at EXCEPT ![t] = p]
    BY <1>4 DEF RunBody, AddResult, ReturnFromFunc1, Hash, Goto
  <2>2. at[t] \in {"inside", "result", "run", "hash"}
    BY <1>4 DEF RunBody, AddResult, ReturnFromFunc1, Hash
  <2>3. UNCHANGED <<blocks, path, input, entered>>
    BY <1>4 DEF RunBody, AddResult, ReturnFromFunc1, Hash
  <2>4. at' \in [Thread -> Place]
    BY <2>1 DEF EntryInv, Types, Place
  <2>5. Late' /\ ~ Early'
    BY <2>1, <2>2 DEF EntryInv, InPhase, Early, Late, Types
  <2> QED BY <2>3, <2>4, <2>5, QuietStep
<1>5. ASSUME Sync("entry", "run") PROVE EntryInv'
  <2>1. Early /\ Late' /\ at' \in [Thread -> Place]
    BY <1>5 DEF Sync, Early, Late, Place
  <2> QED BY <1>5, <2>1, QuietStep DEF Sync
<1>6. ASSUME Sync("exit", "hash") PROVE EntryInv'
  <2>1. /\ Late' /\ at' \in [Thread -> Place]
        /\ Early' => Early
    BY <1>6 DEF Sync, Early, Late, Place
  <2> QED BY <1>6, <2>1, QuietStep DEF Sync
<1>7. CASE Terminated \/ UNCHANGED vars
  <2>1. UNCHANGED <<blocks, path, at, input, entered>>
    BY <1>7 DEF Terminated, vars, kernel
  <2> QED BY <2>1, QuietStep DEF EntryInv, Types, InPhase, Early, Late
<1> QED BY <1>1, <1>2, <1>3, <1>4, <1>5, <1>6, <1>7, TestStep DEF Next, Step

\* At most one thread enters an atomic block, and once only, for every number
\* of threads, blocks and visits and all constants and increments.
THEOREM BlocksEnteredOnce == Spec => []OneEntry
<1>1. EntryInv => OneEntry
  BY DEF EntryInv, CounterPasses, NotEntered, Passed, OneEntry, Types
<1> QED BY EntryInit, EntryStep, <1>1, PTL DEF Spec

-----------------------------------------------------------------------------
(* What is hashed does not depend on the schedule.                         *)

\* No block has an array initialisation.  (With "array" the theorem is false, as
\* the run of AtomicBlocksArray.cfg shows.)
BodiesAreLocal == "array" \notin Body

\* Thread t has evaluated the condition of the i-th block it comes to.
Tested(t, i) == i < pos[t] \/ (i = pos[t] /\ at[t] \in {"inside", "result"})
Done(b) == {v \in Thread \X (1 .. MaxPath) :
              v[2] <= Len(path[v[1]]) /\ path[v[1]][v[2]] = b /\ Tested(v[1], v[2])}

PathInv ==
  /\ path \in [Thread -> Seq(Nat)]
  /\ pos \in [Thread -> Nat \ {0}]
  /\ \A t \in Thread :
       /\ Len(path[t]) <= MaxPath
       /\ at[t] \in {"generating", "init", "entry"} => pos[t] = 1
       /\ at[t] \in {"inside", "result"} => pos[t] <= Len(path[t])
       /\ at[t] \in {"exit", "hash", "done"} => pos[t] > Len(path[t])
  /\ (\E t \in Thread : at[t] \in {"hash", "done"}) =>
       \A t \in Thread : at[t] \in {"hash", "done"}

\* A counter is claimed by one block only.
ClaimInv ==
  \A b \in 1 .. Len(blocks) :
    /\ blocks[b].counter \notin free_counters
    /\ \A d \in 1 .. Len(blocks) : blocks[b].counter = blocks[d].counter => b = d

\* The buffers of a memory are 0 when func_1 starts.
IsZero(mem) == mem = "global" \/ at[0] = "entry"
ZeroInv ==
  Early => \A mem \in AtomicMemAccess : IsZero(mem) =>
             \A c \in Counter : input[mem][c] = 0 /\ special[mem][c] = 0

\* A counter has grown once for each evaluation of its condition, and whether
\* the block has been entered is a question of their number.
CounterOf(b) == input[blocks[b].mem][blocks[b].counter]
CountInv ==
  \A b \in 1 .. Len(blocks) :
    /\ Late => CounterOf(b) = Cardinality(Done(b)) * blocks[b].add
    /\ entered[b] = IF Hit(b, Cardinality(Done(b))) THEN 1 ELSE 0

\* One thread at most is in a block; the result is added when it has left.
Inside(t, b) == at[t] \in {"inside", "result"} /\ Here(t) = b
Added(b) == entered[b] = 1 /\ \A t \in Thread : ~ Inside(t, b)
InsideInv ==
  \A b \in 1 .. Len(blocks) : \A t \in Thread : Inside(t, b) =>
    entered[b] = 1 /\ \A s \in Thread : Inside(s, b) => s = t

SpecialInv ==
  /\ special \in [AtomicMemAccess -> [Counter -> Nat]]
  /\ Late => \A b \in 1 .. Len(blocks) :
       special[blocks[b].mem][blocks[b].counter] = IF Added(b) THEN Result(b) ELSE 0
  /\ Late => \A mem \in AtomicMemAccess, c \in Counter :
       (\A b \in 1 .. Len(blocks) : ~ (blocks[b].mem = mem /\ blocks[b].counter = c)) =>
         special[mem][c] = 0

HashInv ==
  /\ array = [t \in Thread |-> 0]
  /\ DOMAIN hash = Thread
  /\ \A t \in Thread : at[t] = "done" =>
       hash[t] = IF t = 0 THEN <<0, special>> ELSE <<0>>

ResultInv ==
  PathInv /\ ClaimInv /\ ZeroInv /\ CountInv /\ InsideInv /\ SpecialInv /\ HashInv

\* A block is done by one of finitely many threads, so its results can be counted.
LEMMA DoneIsFinite ==
  ASSUME NEW b
  PROVE  IsFiniteSet(Done(b)) /\ Cardinality(Done(b)) \in Nat
<1>1. IsFiniteSet(Thread) /\ IsFiniteSet(1 .. MaxPath)
  BY FS_Interval, GroupSizeAssumption, CountersAssumption DEF Thread
<1>2. IsFiniteSet(Thread \X (1 .. MaxPath))
  BY <1>1, FS_Product
<1>3. IsFiniteSet(Done(b))
  BY <1>2, FS_Subset DEF Done
<1>4. QED
  BY <1>3, FS_CardinalityType

\* Before func_1 no condition has been evaluated.
LEMMA NothingDone ==
  ASSUME PathInv, Early, NEW b
  PROVE  Done(b) = {} /\ Cardinality(Done(b)) = 0
<1>1. \A t \in Thread : \A i \in 1 .. MaxPath : ~ Tested(t, i)
  BY DEF PathInv, Early, Tested
<1>2. Done(b) = {}
  BY <1>1 DEF Done
<1>3. QED
  BY <1>2, FS_EmptySet

\* One more evaluation, which hits the constant, or not.
LEMMA OneMoreHit ==
  ASSUME NEW b \in 1 .. Len(blocks), EntryInv, NEW n \in Nat
  PROVE  /\ Hit(b, n + 1) <=> Hit(b, n) \/ n * blocks[b].add = blocks[b].const
         /\ n * blocks[b].add = blocks[b].const => ~ Hit(b, n)
         /\ ~ Hit(b, 0)
<1>1. PICK a \in Nat \ {0} : a = blocks[b].add
  <2>1. blocks[b] \in Block
    BY DEF EntryInv, Types
  <2>2. QED
    BY <2>1, BlockParts
<1>2. \A k \in 0 .. n - 1 : k * a # n * a
  <2> SUFFICES ASSUME NEW k \in 0 .. n - 1
               PROVE  k * a # n * a
    OBVIOUS
  <2>1. PICK d \in Nat : n = (k + 1) + d
    <3>1. n - (k + 1) \in Nat /\ n = (k + 1) + (n - (k + 1))
      OBVIOUS
    <3>2. QED
      BY <3>1
  <2>2. n * a = (k * a) + a + (d * a) /\ d * a \in Nat /\ k * a \in Nat
    BY <2>1, SMT
  <2>3. QED
    BY <2>2, SMT
<1>3. 0 .. (n + 1) - 1 = (0 .. n - 1) \union {n}
  OBVIOUS
<1>4. QED
  BY <1>1, <1>2, <1>3 DEF Hit

\* Before func_1 the counts and the special values are those of no evaluation.
LEMMA EarlyParts ==
  ASSUME EntryInv, PathInv, Early, special \in [AtomicMemAccess -> [Counter -> Nat]]
  PROVE  CountInv /\ InsideInv /\ SpecialInv
<1>1. ~ Late
  <2>1. 0 \in Thread
    BY GroupSizeAssumption DEF Thread
  <2>2. QED
    BY <2>1 DEF Early, Late
<1>2. CountInv
  <2> SUFFICES ASSUME NEW b \in 1 .. Len(blocks)
               PROVE  entered[b] = IF Hit(b, Cardinality(Done(b))) THEN 1 ELSE 0
    BY <1>1 DEF CountInv
  <2>1. Cardinality(Done(b)) = 0
    BY NothingDone
  <2>2. ~ Hit(b, 0)
    BY OneMoreHit
  <2>3. b \in 1 .. MaxBlocks
    BY CountersAssumption DEF EntryInv, Types
  <2>4. entered[b] = 0
    BY <2>3 DEF EntryInv, InPhase
  <2>5. QED
    BY <2>1, <2>2, <2>4
<1>3. InsideInv
  BY DEF Early, InsideInv, Inside
<1>4. QED
  BY <1>1, <1>2, <1>3 DEF SpecialInv

\* Nothing has been claimed, counted or hashed at first.
LEMMA ResultInit == BodiesAreLocal /\ Init => ResultInv
<1> SUFFICES ASSUME Init
             PROVE  ResultInv
  OBVIOUS
<1>1. EntryInv /\ Early
  BY EntryInit DEF Init, Early
<1>2. PICK g \in Garbage :
        /\ input = [mem \in AtomicMemAccess |->
                      [c \in Counter |-> IF mem = "global" THEN 0 ELSE g]]
        /\ special = input
  BY DEF Init
<1>3. g \in Nat
  BY GarbageAssumption
<1>4. special \in [AtomicMemAccess -> [Counter -> Nat]]
  BY <1>2, <1>3
<1>5. PathInv
  BY CountersAssumption DEF Init, PathInv
<1>6. ClaimInv
  BY DEF Init, ClaimInv
<1>7. ZeroInv
  <2>1. at[0] = "generating"
    BY GroupSizeAssumption DEF Init, Thread
  <2>2. QED
    BY <1>2, <2>1 DEF ZeroInv, IsZero
<1>8. HashInv
  BY DEF Init, HashInv
<1>9. QED
  BY <1>1, <1>4, <1>5, <1>6, <1>7, <1>8, EarlyParts DEF ResultInv

\* A step after which func_1 has not started.
LEMMA EarlyStep ==
  ASSUME EntryInv', Early', PathInv', ClaimInv', ZeroInv', HashInv',
         (special \in [AtomicMemAccess -> [Counter -> Nat]])'
  PROVE  ResultInv'
<1>1. (EntryInv /\ PathInv /\ Early /\ special \in [AtomicMemAccess -> [Counter -> Nat]])'
        => (CountInv /\ InsideInv /\ SpecialInv)'
  BY EarlyParts, PTL
<1>2. QED
  BY <1>1 DEF ResultInv

\* A new block has a counter of its own: what is said of the others stays.
LEMMA ClaimKeeps ==
  ASSUME EntryInv, ResultInv, EntryInv', NEW block \in Block, Claim(block)
  PROVE  ResultInv'
<1> USE DEF ResultInv
<1>1. /\ block.counter \in free_counters
      /\ blocks' = Append(blocks, block)
      /\ free_counters' = free_counters \ {block.counter}
      /\ UNCHANGED <<path, at, pos, input, special, array, hash, entered>>
  BY DEF Claim, kernel
<1>2. Early /\ Early'
  BY <1>1 DEF Claim, Generating, Early
<1>3. blocks \in Seq(Block) /\ Len(blocks) \in Nat
  BY DEF EntryInv, Types
<1>4. /\ Len(blocks') = Len(blocks) + 1 /\ blocks'[Len(blocks) + 1] = block
      /\ \A b \in 1 .. Len(blocks) : blocks'[b] = blocks[b]
  BY <1>1, <1>3
<1>5. ClaimInv'
  <2> SUFFICES ASSUME NEW b \in 1 .. Len(blocks')
               PROVE  /\ blocks'[b].counter \notin free_counters'
                      /\ \A d \in 1 .. Len(blocks') : blocks'[b].counter = blocks'[d].counter => b = d
    BY DEF ClaimInv
  <2>1. \A d \in 1 .. Len(blocks') : d \in 1 .. Len(blocks) \/ d = Len(blocks) + 1
    BY <1>3, <1>4
  <2>2. \A d \in 1 .. Len(blocks) : blocks'[d].counter # block.counter
    BY <1>1, <1>4 DEF ClaimInv
  <2>3. QED
    BY <1>1, <1>4, <2>1, <2>2 DEF ClaimInv
<1>6. PathInv' /\ ZeroInv' /\ HashInv' /\ (special \in [AtomicMemAccess -> [Counter -> Nat]])'
  BY <1>1, <1>2 DEF PathInv, ZeroInv, IsZero, HashInv, SpecialInv
<1>7. QED
  BY <1>2, <1>5, <1>6, EarlyStep

\* The launch chooses what control flow does, and changes no buffer.
LEMMA LaunchKeeps ==
  ASSUME EntryInv, ResultInv, EntryInv', Launch
  PROVE  ResultInv'
<1> USE DEF ResultInv
<1>1. /\ path' \in [Thread -> UNION {[1 .. n -> 1 .. Len(blocks)] : n \in 0 .. MaxPath}]
      /\ at' = [t \in Thread |-> "init"]
      /\ UNCHANGED <<free_counters, blocks, pos, input, special, array, hash, entered>>
  BY DEF Launch
<1>2. Early /\ Early' /\ 0 \in Thread
  BY <1>1, GroupSizeAssumption DEF Launch, Generating, Early, Thread
<1>3. ASSUME NEW t \in Thread
      PROVE  path'[t] \in Seq(Nat) /\ Len(path'[t]) <= MaxPath
  <2>1. PICK n \in 0 .. MaxPath : path'[t] \in [1 .. n -> 1 .. Len(blocks)]
    BY <1>1
  <2>2. n \in Nat /\ Len(blocks) \in Nat
    BY CountersAssumption DEF EntryInv, Types
  <2>3. path'[t] \in Seq(1 .. Len(blocks)) /\ Len(path'[t]) = n
    BY <2>1, <2>2
  <2>4. QED
    BY <2>2, <2>3
<1>4. \A t \in Thread : pos[t] = 1
  BY DEF Launch, Generating, PathInv
<1>5. PathInv'
  <2>1. path' \in [Thread -> Seq(Nat)]
    BY <1>1, <1>3
  <2>2. QED
    BY <1>1, <1>3, <1>4, <2>1 DEF PathInv
<1>6. ZeroInv'
  BY <1>1, <1>2 DEF ZeroInv, IsZero
<1>7. ClaimInv' /\ HashInv' /\ (special \in [AtomicMemAccess -> [Counter -> Nat]])'
  BY <1>1 DEF ClaimInv, HashInv, SpecialInv
<1>8. QED
  BY <1>2, <1>5, <1>6, <1>7, EarlyStep

\* Setting the local buffers to 0 hits them before any thread has counted.
LEMMA InitBuffersKeeps ==
  ASSUME EntryInv, ResultInv, EntryInv', NEW t \in Thread, InitBuffers(t)
  PROVE  ResultInv'
<1> USE DEF ResultInv
<1>1. /\ at[t] = "init" /\ at' = [at EXCEPT ![t] = "entry"]
      /\ input' = IF t = 0 THEN [input EXCEPT !["local"] = Zero] ELSE input
      /\ special' = IF t = 0 THEN [special EXCEPT !["local"] = Zero] ELSE special
      /\ UNCHANGED <<free_counters, blocks, path, pos, array, hash, entered>>
  BY DEF InitBuffers, Goto
<1>2. Early /\ Early'
  BY <1>1 DEF EntryInv, InPhase, Early, Late, Types
<1>3. special' \in [AtomicMemAccess -> [Counter -> Nat]]
  BY <1>1 DEF SpecialInv, Zero
<1>4. PathInv'
  BY <1>1 DEF PathInv, EntryInv, Types
<1>5. ZeroInv'
  <2> SUFFICES ASSUME NEW mem \in AtomicMemAccess, IsZero(mem)', NEW c \in Counter
               PROVE  input'[mem][c] = 0 /\ special'[mem][c] = 0
    BY DEF ZeroInv
  <2>1. CASE t = 0 /\ mem = "local"
    BY <1>1, <2>1 DEF EntryInv, Types, SpecialInv, Zero
  <2>2. CASE ~ (t = 0 /\ mem = "local")
    <3>1. input'[mem] = input[mem] /\ special'[mem] = special[mem]
      BY <1>1, <2>2 DEF EntryInv, Types, SpecialInv
    <3>2. IsZero(mem)
      <4>1. mem # "global" => t # 0
        BY <2>2 DEF AtomicMemAccess
      <4>2. QED
        BY <1>1, <4>1 DEF IsZero, EntryInv, Types
    <3>3. QED
      BY <1>2, <3>1, <3>2 DEF ZeroInv
  <2>3. QED
    BY <2>1, <2>2
<1>6. ClaimInv' /\ HashInv'
  <2>1. \A s \in Thread : at'[s] # "done"
    BY <1>2 DEF Early
  <2>2. QED
    BY <1>1, <2>1 DEF ClaimInv, HashInv
<1>7. QED
  BY <1>2, <1>3, <1>4, <1>5, <1>6, EarlyStep

\* A step that leaves the evaluations, the entries and the special values alone.
LEMMA CountsStay ==
  ASSUME EntryInv, ResultInv, Late, Late',
         UNCHANGED <<free_counters, blocks, path, input, special, entered>>,
         \A b \in 1 .. Len(blocks) : Done(b)' = Done(b),
         \A b \in 1 .. Len(blocks), t \in Thread : Inside(t, b)' <=> Inside(t, b)
  PROVE  ClaimInv' /\ ZeroInv' /\ CountInv' /\ InsideInv' /\ SpecialInv'
<1> USE DEF ResultInv
<1>1. ~ Early'
  <2>1. 0 \in Thread
    BY GroupSizeAssumption DEF Thread
  <2>2. QED
    BY <2>1 DEF Early, Late
<1>2. ClaimInv' /\ ZeroInv'
  BY <1>1 DEF ClaimInv, ZeroInv
<1>3. CountInv'
  BY DEF CountInv, CounterOf, Hit
<1>4. InsideInv'
  BY DEF InsideInv
<1>5. \A b \in 1 .. Len(blocks) : Added(b)' <=> Added(b)
  BY DEF Added
<1>6. SpecialInv'
  BY <1>5 DEF SpecialInv
<1>7. QED
  BY <1>2, <1>3, <1>4, <1>6

\* Threads that stay on the same side of their conditions have done what they had.
LEMMA DoneStays ==
  ASSUME path' = path, \A t \in Thread : \A i \in 1 .. MaxPath : Tested(t, i)' <=> Tested(t, i), NEW b
  PROVE  Done(b)' = Done(b)
BY DEF Done

\* A test counts one visit of the block; it enters if the count meets the constant.
LEMMA TestKeeps ==
  ASSUME EntryInv, ResultInv, EntryInv', NEW t \in Thread, Test(t)
  PROVE  ResultInv'
<1> USE DEF ResultInv
<1>1. PICK h : h = Here(t)
  OBVIOUS
<1>2. PICK block : block = blocks[h]
  OBVIOUS
<1>3. at[t] = "run" /\ pos[t] \in 1 .. Len(path[t]) /\ pos[t] \in 1 .. MaxPath
  BY CountersAssumption DEF Test, AtBlock, PathInv
<1>4. h \in 1 .. Len(blocks) /\ path[t][pos[t]] = h
  BY <1>1, <1>3 DEF EntryInv, Types, Here, PathInv
<1>5. /\ block \in Block /\ block.mem \in AtomicMemAccess /\ block.counter \in Counter
      /\ block.add \in Nat \ {0} /\ block.const \in Nat
  <2>1. block \in Block
    BY <1>2, <1>4 DEF EntryInv, Types
  <2>2. QED
    BY <2>1, BlockParts
<1>6. /\ input' = [input EXCEPT ![block.mem][block.counter] = @ + block.add]
      /\ IF input[block.mem][block.counter] = block.const
         THEN /\ at' = [at EXCEPT ![t] = "inside"]
              /\ entered' = [entered EXCEPT ![h] = @ + 1]
              /\ pos' = pos
         ELSE /\ pos' = [pos EXCEPT ![t] = @ + 1]
              /\ at' = at /\ entered' = entered
      /\ UNCHANGED <<free_counters, blocks, path, special, array, hash>>
  BY <1>1, <1>2 DEF Test, Goto
<1>7. Late /\ Late' /\ ~ Early'
  BY <1>3, <1>6 DEF EntryInv, InPhase, Early, Late, Types
<1>8. \A s \in Thread : s # t => at'[s] = at[s] /\ pos'[s] = pos[s]
  BY <1>6 DEF EntryInv, Types, PathInv
<1>9. \/ at'[t] = "inside" /\ pos'[t] = pos[t]
      \/ at'[t] = "run" /\ pos'[t] = pos[t] + 1
  BY <1>3, <1>6 DEF EntryInv, Types, PathInv
<1>10. /\ \A s \in Thread, i \in 1 .. MaxPath : s # t => (Tested(s, i)' <=> Tested(s, i))
       /\ \A i \in 1 .. MaxPath : Tested(t, i)' <=> Tested(t, i) \/ i = pos[t]
       /\ ~ Tested(t, pos[t])
  BY <1>3, <1>8, <1>9 DEF Tested
<1>11. /\ Done(h)' = Done(h) \union {<<t, pos[t]>>}
       /\ <<t, pos[t]>> \notin Done(h)
       /\ \A b \in 1 .. Len(blocks) : b # h => Done(b)' = Done(b)
  <2>1. path' = path
    BY <1>6
  <2>2. <<t, pos[t]>> \notin Done(h)
    BY <1>10 DEF Done
  <2>3. ASSUME NEW b \in 1 .. Len(blocks), NEW s \in Thread, NEW i \in 1 .. MaxPath
        PROVE  <<s, i>> \in Done(b)' <=> <<s, i>> \in Done(b) \/ (b = h /\ s = t /\ i = pos[t])
    <3>1. <<s, i>> \in Done(b)' <=> i <= Len(path[s]) /\ path[s][i] = b /\ Tested(s, i)'
      BY <2>1 DEF Done
    <3>2. <<s, i>> \in Done(b) <=> i <= Len(path[s]) /\ path[s][i] = b /\ Tested(s, i)
      BY DEF Done
    <3>3. CASE s = t
      BY <1>3, <1>4, <1>10, <3>1, <3>2, <3>3
    <3>4. CASE s # t
      BY <1>10, <3>1, <3>2, <3>4
    <3>5. QED
      BY <3>3, <3>4
  <2>4. \A b : Done(b) \subseteq Thread \X (1 .. MaxPath) /\ Done(b)' \subseteq Thread \X (1 .. MaxPath)
    BY DEF Done
  <2>5. <<t, pos[t]>> \in Thread \X (1 .. MaxPath)
    BY <1>3
  <2>6. ASSUME NEW b \in 1 .. Len(blocks)
        PROVE  Done(b)' = IF b = h THEN Done(b) \union {<<t, pos[t]>>} ELSE Done(b)
    <3>1. PICK old : old = Done(b)
      OBVIOUS
    <3>2. PICK new : new = Done(b)'
      OBVIOUS
    <3>3. \A v \in Thread \X (1 .. MaxPath) : v \in new <=> v \in old \/ (b = h /\ v = <<t, pos[t]>>)
      BY <2>3, <3>1, <3>2
    <3>4. old \subseteq Thread \X (1 .. MaxPath) /\ new \subseteq Thread \X (1 .. MaxPath)
      BY <2>4, <3>1, <3>2
    <3>5. new = IF b = h THEN old \union {<<t, pos[t]>>} ELSE old
      BY <2>5, <3>3, <3>4
    <3>6. QED
      BY <3>1, <3>2, <3>5
  <2>7. QED
    BY <1>4, <2>2, <2>6
<1>12. PICK n \in Nat : n = Cardinality(Done(h))
  BY DoneIsFinite
<1>13. Cardinality(Done(h)') = n + 1
  BY <1>11, <1>12, DoneIsFinite, FS_AddElement
<1>14. /\ CounterOf(h) = n * block.add
       /\ entered[h] = IF Hit(h, n) THEN 1 ELSE 0
  BY <1>2, <1>4, <1>7, <1>12 DEF CountInv
<1>15. input[block.mem][block.counter] = n * block.add
  BY <1>2, <1>14 DEF CounterOf
<1>17. input[block.mem][block.counter] = block.const => ~ Hit(h, n) /\ entered[h] = 0
  BY <1>2, <1>4, <1>14, <1>15, OneMoreHit
<1>18. h \in 1 .. MaxBlocks /\ 1 .. Len(blocks) \subseteq 1 .. MaxBlocks
  BY <1>4, CountersAssumption DEF EntryInv, Types
<1>19. PathInv'
  <2>1. pos' \in [Thread -> Nat \ {0}] /\ path' = path
    <3>1. pos' = pos \/ pos' = [pos EXCEPT ![t] = @ + 1]
      BY <1>6, Zenon
    <3>2. pos \in [Thread -> Nat \ {0}] /\ pos[t] + 1 \in Nat \ {0}
      BY DEF PathInv
    <3>3. QED
      BY <1>6, <3>1, <3>2
  <2>2. \A s \in Thread : at[s] \notin {"hash", "done"} /\ at'[s] \notin {"hash", "done"}
    BY <1>3, <1>8, <1>9 DEF PathInv
  <2>3. ASSUME NEW s \in Thread
        PROVE  /\ at'[s] \in {"generating", "init", "entry"} => pos'[s] = 1
               /\ at'[s] \in {"inside", "result"} => pos'[s] <= Len(path[s])
               /\ at'[s] \in {"exit", "hash", "done"} => pos'[s] > Len(path[s])
    <3>1. CASE s = t
      BY <1>3, <1>9, <3>1
    <3>2. CASE s # t
      BY <1>8, <3>2 DEF PathInv
    <3>3. QED
      BY <3>1, <3>2
  <2>4. QED
    BY <2>1, <2>2, <2>3 DEF PathInv
<1>20. ClaimInv' /\ ZeroInv'
  BY <1>6, <1>7 DEF ClaimInv, ZeroInv
<1>21. CountInv'
  <2> SUFFICES ASSUME NEW b \in 1 .. Len(blocks)
               PROVE  (/\ CounterOf(b) = Cardinality(Done(b)) * blocks[b].add
                       /\ entered[b] = IF Hit(b, Cardinality(Done(b))) THEN 1 ELSE 0)'
    BY <1>6 DEF CountInv
  <2>1. Hit(b, Cardinality(Done(b)))' <=> Hit(b, Cardinality(Done(b)'))
    BY <1>6 DEF Hit
  <2>2. CASE b = h
    <3>1. CounterOf(b)' = (n * block.add) + block.add
      <4>1. input'[block.mem][block.counter] = (n * block.add) + block.add
        BY <1>5, <1>6, <1>15 DEF EntryInv, Types
      <4>2. QED
        BY <1>2, <1>6, <2>2, <4>1 DEF CounterOf
    <3>2. (n * block.add) + block.add = (n + 1) * block.add
      BY <1>5
    <3>3. Hit(h, n + 1) <=> Hit(h, n) \/ n * block.add = block.const
      BY <1>2, <1>4, OneMoreHit
    <3>4. entered'[h] = IF Hit(h, n + 1) THEN 1 ELSE 0
      <4>1. CASE input[block.mem][block.counter] = block.const
        BY <1>6, <1>15, <1>17, <1>18, <3>3, <4>1 DEF EntryInv, Types
      <4>2. CASE input[block.mem][block.counter] # block.const
        BY <1>6, <1>14, <1>15, <3>3, <4>2
      <4>3. QED
        BY <4>1, <4>2
    <3>5. QED
      BY <1>2, <1>6, <1>13, <2>1, <2>2, <3>1, <3>2, <3>4
  <2>3. CASE b # h
    <3>1. Cardinality(Done(b)') = Cardinality(Done(b)) /\ entered'[b] = entered[b]
      BY <1>6, <1>11, <1>18, <2>3 DEF EntryInv, Types
    <3>2. blocks[b].counter # block.counter
      BY <1>2, <1>4, <2>3 DEF ClaimInv
    <3>3. blocks[b].mem \in AtomicMemAccess /\ blocks[b].counter \in Counter
      <4>1. blocks[b] \in Block
        BY DEF EntryInv, Types
      <4>2. QED
        BY <4>1, BlockParts
    <3>4. input'[blocks[b].mem][blocks[b].counter] = input[blocks[b].mem][blocks[b].counter]
      BY <1>5, <1>6, <3>2, <3>3 DEF EntryInv, Types
    <3>5. CounterOf(b)' = CounterOf(b)
      BY <1>6, <3>4 DEF CounterOf
    <3>6. QED
      BY <1>6, <1>7, <2>1, <3>1, <3>5 DEF CountInv
  <2>4. QED
    BY <2>2, <2>3
<1>22. ASSUME NEW b \in 1 .. Len(blocks), NEW s \in Thread
       PROVE  Inside(s, b)' <=> Inside(s, b) \/ (s = t /\ b = h /\ at'[t] = "inside")
  <2>1. CASE s = t
    BY <1>1, <1>3, <1>6, <1>9, <2>1 DEF Inside, Here
  <2>2. CASE s # t
    BY <1>6, <1>8, <2>2 DEF Inside, Here
  <2>3. QED
    BY <2>1, <2>2
<1>23. ~ Inside(t, h)
  BY <1>3 DEF Inside
<1>24. at'[t] = "inside" => /\ entered[h] = 0 /\ entered'[h] = 1
                            /\ \A s \in Thread : ~ Inside(s, h)
  <2> SUFFICES ASSUME at'[t] = "inside"
               PROVE  /\ entered[h] = 0 /\ entered'[h] = 1
                      /\ \A s \in Thread : ~ Inside(s, h)
    OBVIOUS
  <2>1. input[block.mem][block.counter] = block.const
    BY <1>3, <1>6
  <2>2. entered[h] = 0 /\ entered'[h] = 1
    BY <1>6, <1>17, <1>18, <2>1 DEF EntryInv, Types
  <2>3. QED
    BY <1>4, <2>2 DEF InsideInv
<1>25. \A b \in 1 .. Len(blocks) : b # h => entered'[b] = entered[b]
  BY <1>6, <1>18 DEF EntryInv, Types
<1>26. at'[t] # "inside" => entered' = entered
  BY <1>6 DEF EntryInv, Types
<1>27. InsideInv'
  <2> SUFFICES ASSUME NEW b \in 1 .. Len(blocks), NEW s \in Thread, Inside(s, b)'
               PROVE  entered'[b] = 1 /\ \A r \in Thread : Inside(r, b)' => r = s
    BY <1>6 DEF InsideInv
  <2>1. CASE b = h /\ at'[t] = "inside"
    BY <1>22, <1>24, <2>1
  <2>2. CASE b # h
    BY <1>22, <1>25, <2>2 DEF InsideInv
  <2>3. CASE at'[t] # "inside"
    BY <1>22, <1>26, <2>3 DEF InsideInv
  <2>4. QED
    BY <2>1, <2>2, <2>3
<1>28. \A b \in 1 .. Len(blocks) : Added(b)' <=> Added(b)
  <2> SUFFICES ASSUME NEW b \in 1 .. Len(blocks)
               PROVE  Added(b)' <=> Added(b)
    OBVIOUS
  <2>1. CASE b = h /\ at'[t] = "inside"
    BY <1>22, <1>24, <2>1 DEF Added
  <2>2. CASE b # h
    BY <1>22, <1>25, <2>2 DEF Added
  <2>3. CASE at'[t] # "inside"
    BY <1>22, <1>26, <2>3 DEF Added
  <2>4. QED
    BY <2>1, <2>2, <2>3
<1>29. SpecialInv'
  BY <1>6, <1>7, <1>28 DEF SpecialInv
<1>30. HashInv'
  BY <1>6, <1>8, <1>9 DEF HashInv
<1>31. QED
  BY <1>19, <1>20, <1>21, <1>27, <1>29, <1>30

\* The thread that entered adds the result of the block, which nobody else does.
LEMMA AddResultKeeps ==
  ASSUME EntryInv, ResultInv, EntryInv', NEW t \in Thread, AddResult(t)
  PROVE  ResultInv'
<1> USE DEF ResultInv
<1>1. PICK h : h = Here(t)
  OBVIOUS
<1>2. at[t] = "result" /\ pos[t] \in 1 .. Len(path[t])
  BY DEF AddResult, PathInv
<1>3. h \in 1 .. Len(blocks) /\ Inside(t, h)
  BY <1>1, <1>2 DEF EntryInv, Types, Here, PathInv, Inside
<1>4. PICK m \in AtomicMemAccess : m = blocks[h].mem
  <2>1. blocks[h] \in Block
    BY <1>3 DEF EntryInv, Types
  <2>2. QED
    BY <2>1, BlockParts
<1>5. PICK c \in Counter : c = blocks[h].counter
  <2>1. blocks[h] \in Block
    BY <1>3 DEF EntryInv, Types
  <2>2. QED
    BY <2>1, BlockParts
<1>6. /\ special' = [special EXCEPT ![m][c] = @ + h]
      /\ pos' = [pos EXCEPT ![t] = @ + 1]
      /\ at' = [at EXCEPT ![t] = "run"]
      /\ UNCHANGED <<free_counters, blocks, path, input, array, hash, entered>>
  BY <1>1, <1>4, <1>5 DEF AddResult, Goto, Result
<1>7. /\ at'[t] = "run" /\ pos'[t] = pos[t] + 1
      /\ \A s \in Thread : s # t => at'[s] = at[s] /\ pos'[s] = pos[s]
  BY <1>6 DEF EntryInv, Types, PathInv
<1>8. Late /\ Late' /\ ~ Early'
  BY <1>2, <1>7 DEF EntryInv, InPhase, Early, Late
<1>9. \A b : Done(b)' = Done(b)
  <2>1. \A s \in Thread : \A i \in 1 .. MaxPath : Tested(s, i)' <=> Tested(s, i)
    BY <1>2, <1>7 DEF Tested
  <2>2. QED
    BY <1>6, <2>1, DoneStays
<1>10. \A b \in 1 .. Len(blocks), s \in Thread : Inside(s, b)' <=> Inside(s, b) /\ s # t
  BY <1>6, <1>7 DEF Inside, Here
<1>11. ~ Added(h) /\ Added(h)'
  <2>1. entered[h] = 1 /\ \A s \in Thread : Inside(s, h) => s = t
    BY <1>3 DEF InsideInv
  <2>2. QED
    BY <1>3, <1>6, <1>10, <2>1 DEF Added
<1>12. \A b \in 1 .. Len(blocks) : b # h => (Added(b)' <=> Added(b))
  <2>1. \A b \in 1 .. Len(blocks) : b # h => ~ Inside(t, b)
    BY <1>1 DEF Inside
  <2>2. QED
    BY <1>6, <1>10, <2>1 DEF Added
<1>13. special' \in [AtomicMemAccess -> [Counter -> Nat]]
  BY <1>3, <1>6 DEF SpecialInv
<1>14. special[m][c] = 0 /\ special'[m][c] = h
  <2>1. special[m][c] = 0
    BY <1>3, <1>4, <1>5, <1>8, <1>11 DEF SpecialInv
  <2>2. QED
    BY <1>3, <1>6, <2>1 DEF SpecialInv
<1>15. \A d \in AtomicMemAccess, e \in Counter :
         ~ (d = m /\ e = c) => special'[d][e] = special[d][e]
  BY <1>6 DEF SpecialInv
<1>16. SpecialInv'
  <2>1. ASSUME NEW b \in 1 .. Len(blocks)
        PROVE  special'[blocks[b].mem][blocks[b].counter] = IF Added(b)' THEN Result(b) ELSE 0
    <3>1. CASE b = h
      BY <1>4, <1>5, <1>11, <1>14, <3>1 DEF Result
    <3>2. CASE b # h
      <4>1. blocks[b].counter # c
        BY <1>3, <1>5, <3>2 DEF ClaimInv
      <4>2. blocks[b].mem \in AtomicMemAccess /\ blocks[b].counter \in Counter
        <5>1. blocks[b] \in Block
          BY DEF EntryInv, Types
        <5>2. QED
          BY <5>1, BlockParts
      <4>3. special'[blocks[b].mem][blocks[b].counter] = special[blocks[b].mem][blocks[b].counter]
        BY <1>15, <4>1, <4>2
      <4>4. QED
        BY <1>8, <1>12, <3>2, <4>3 DEF SpecialInv
    <3>3. QED
      BY <3>1, <3>2
  <2>2. ASSUME NEW d \in AtomicMemAccess, NEW e \in Counter,
               \A b \in 1 .. Len(blocks) : ~ (blocks[b].mem = d /\ blocks[b].counter = e)
        PROVE  special'[d][e] = 0
    <3>1. ~ (d = m /\ e = c)
      BY <1>3, <1>4, <1>5, <2>2
    <3>2. special[d][e] = 0
      BY <1>8, <2>2 DEF SpecialInv
    <3>3. QED
      BY <1>15, <3>1, <3>2
  <2>3. QED
    BY <1>6, <1>13, <2>1, <2>2 DEF SpecialInv, Result
<1>17. PathInv'
  <2>1. pos' \in [Thread -> Nat \ {0}] /\ path' = path
    BY <1>2, <1>6 DEF PathInv
  <2>2. \A s \in Thread : at[s] \notin {"hash", "done"} /\ at'[s] \notin {"hash", "done"}
    BY <1>2, <1>7 DEF PathInv
  <2>3. ASSUME NEW s \in Thread
        PROVE  /\ at'[s] \in {"generating", "init", "entry"} => pos'[s] = 1
               /\ at'[s] \in {"inside", "result"} => pos'[s] <= Len(path[s])
               /\ at'[s] \in {"exit", "hash", "done"} => pos'[s] > Len(path[s])
    <3>1. CASE s = t
      BY <1>7, <3>1
    <3>2. CASE s # t
      BY <1>7, <3>2 DEF PathInv
    <3>3. QED
      BY <3>1, <3>2
  <2>4. QED
    BY <2>1, <2>2, <2>3 DEF PathInv
<1>18. ClaimInv' /\ ZeroInv'
  BY <1>6, <1>8 DEF ClaimInv, ZeroInv
<1>19. CountInv'
  BY <1>6, <1>8, <1>9 DEF CountInv, CounterOf, Hit
<1>20. InsideInv'
  BY <1>6, <1>10 DEF InsideInv
<1>21. HashInv'
  <2>1. \A s \in Thread : at'[s] # "done"
    BY <1>2, <1>7 DEF PathInv
  <2>2. QED
    BY <1>6, <2>1 DEF HashInv
<1>22. QED
  BY <1>16, <1>17, <1>18, <1>19, <1>20, <1>21

\* The other steps of a thread behind the first barrier.
LEMMA QuietStepKeeps ==
  ASSUME BodiesAreLocal, EntryInv, ResultInv, EntryInv',
         NEW t \in Thread, RunBody(t) \/ ReturnFromFunc1(t) \/ Hash(t)
  PROVE  ResultInv'
<1> USE DEF ResultInv
<1>1. PICK p \in {"result", "exit", "done"} :
        /\ at' = [at EXCEPT ![t] = p]
        /\ p = "result" => at[t] = "inside"
        /\ p = "exit" => at[t] = "run" /\ pos[t] \notin DOMAIN path[t]
        /\ p = "done" => /\ at[t] = "hash"
                         /\ hash' = [hash EXCEPT ![t] = IF t = 0 THEN <<array[t], special>>
                                                                 ELSE <<array[t]>>]
        /\ p # "done" => hash' = hash
  BY DEF RunBody, ReturnFromFunc1, Hash, Goto
<1>2. UNCHANGED <<free_counters, blocks, path, pos, input, special, entered>>
  BY DEF RunBody, ReturnFromFunc1, Hash
<1>3. array' = array
  <2>1. CASE RunBody(t)
    <3>1. Here(t) \in 1 .. Len(blocks)
      BY <2>1 DEF RunBody, PathInv, EntryInv, Types, Here
    <3>2. blocks[Here(t)] \in Block
      BY <3>1 DEF EntryInv, Types
    <3>3. blocks[Here(t)].body # "array"
      BY <3>2 DEF Block, BodiesAreLocal
    <3>4. QED
      BY <2>1, <3>3 DEF RunBody
  <2>2. CASE ReturnFromFunc1(t) \/ Hash(t)
    BY <2>2 DEF ReturnFromFunc1, Hash
  <2>3. QED
    BY <2>1, <2>2
<1>4. at'[t] = p /\ \A s \in Thread : s # t => at'[s] = at[s]
  BY <1>1 DEF EntryInv, Types
<1>5. Late /\ Late'
  BY <1>1, <1>4 DEF EntryInv, InPhase, Early, Late
<1>6. \A s \in Thread : at'[s] \in {"inside", "result"} <=> at[s] \in {"inside", "result"}
  BY <1>1, <1>4
<1>7. \A b \in 1 .. Len(blocks) : Done(b)' = Done(b)
  <2>1. \A s \in Thread : \A i \in 1 .. MaxPath : Tested(s, i)' <=> Tested(s, i)
    BY <1>2, <1>6 DEF Tested
  <2>2. QED
    BY <1>2, <2>1, DoneStays
<1>8. \A b \in 1 .. Len(blocks), s \in Thread : Inside(s, b)' <=> Inside(s, b)
  BY <1>2, <1>6 DEF Inside, Here
<1>9. ClaimInv' /\ ZeroInv' /\ CountInv' /\ InsideInv' /\ SpecialInv'
  BY <1>2, <1>5, <1>7, <1>8, CountsStay
<1>10. PathInv'
  <2>1. p = "exit" => pos[t] > Len(path[t])
    BY <1>1 DEF PathInv
  <2>2. QED
    BY <1>1, <1>2, <1>4, <2>1 DEF PathInv
<1>11. HashInv'
  <2>1. array[t] = 0
    BY DEF HashInv
  <2>2. QED
    BY <1>1, <1>2, <1>3, <1>4, <2>1 DEF HashInv
<1>12. QED
  BY <1>9, <1>10, <1>11

\* The barrier in front of func_1: the counts start from buffers that are 0.
LEMMA EntrySyncKeeps ==
  ASSUME EntryInv, ResultInv, EntryInv', Sync("entry", "run")
  PROVE  ResultInv'
<1> USE DEF ResultInv
<1>1. /\ \A t \in Thread : at[t] = "entry"
      /\ at' = [t \in Thread |-> "run"]
      /\ UNCHANGED <<free_counters, blocks, path, pos, input, special, array, hash, entered>>
  BY DEF Sync
<1>2. Early /\ ~ Early' /\ 0 \in Thread
  BY <1>1, GroupSizeAssumption DEF Early, Thread
<1>3. \A b : Done(b) = {} /\ Cardinality(Done(b)) = 0
  BY <1>2, NothingDone
<1>4. \A b : Done(b)' = {}
  <2>1. \A t \in Thread : \A i \in 1 .. MaxPath : ~ Tested(t, i) /\ ~ Tested(t, i)'
    BY <1>1 DEF PathInv, Tested
  <2>2. QED
    BY <2>1 DEF Done
<1>5. \A b : Cardinality(Done(b)') = 0
  BY <1>4, FS_EmptySet
<1>6. \A mem \in AtomicMemAccess : \A c \in Counter : input[mem][c] = 0 /\ special[mem][c] = 0
  BY <1>1, <1>2 DEF ZeroInv, IsZero
<1>7. \A b \in 1 .. Len(blocks) :
        /\ blocks[b].mem \in AtomicMemAccess /\ blocks[b].counter \in Counter
        /\ blocks[b].add \in Nat
  <2> SUFFICES ASSUME NEW b \in 1 .. Len(blocks)
               PROVE  /\ blocks[b].mem \in AtomicMemAccess /\ blocks[b].counter \in Counter
                      /\ blocks[b].add \in Nat
    OBVIOUS
  <2>1. blocks[b] \in Block
    BY DEF EntryInv, Types
  <2>2. QED
    BY <2>1, BlockParts
<1>8. \A b \in 1 .. Len(blocks) : entered[b] = 0
  BY <1>2, CountersAssumption DEF EntryInv, InPhase, Types
<1>9. CountInv'
  <2> SUFFICES ASSUME NEW b \in 1 .. Len(blocks)
               PROVE  (/\ CounterOf(b) = Cardinality(Done(b)) * blocks[b].add
                       /\ entered[b] = IF Hit(b, Cardinality(Done(b))) THEN 1 ELSE 0)'
    BY <1>1 DEF CountInv
  <2>1. Hit(b, Cardinality(Done(b)))' <=> Hit(b, 0)
    BY <1>1, <1>5 DEF Hit
  <2>2. ~ Hit(b, 0)
    BY OneMoreHit
  <2>3. CounterOf(b)' = 0
    BY <1>1, <1>6, <1>7 DEF CounterOf
  <2>4. 0 * blocks[b].add = 0
    BY <1>7
  <2>5. QED
    BY <1>1, <1>5, <1>8, <2>1, <2>2, <2>3, <2>4
<1>10. InsideInv'
  BY <1>1 DEF InsideInv, Inside
<1>11. SpecialInv'
  <2>1. \A b \in 1 .. Len(blocks) : ~ Added(b)'
    BY <1>1, <1>8 DEF Added
  <2>2. QED
    BY <1>1, <1>6, <1>7, <2>1 DEF SpecialInv
<1>12. PathInv' /\ ClaimInv' /\ ZeroInv' /\ HashInv'
  BY <1>1, <1>2 DEF PathInv, ClaimInv, ZeroInv, HashInv
<1>13. QED
  BY <1>9, <1>10, <1>11, <1>12

\* The barrier behind func_1.
LEMMA ExitSyncKeeps ==
  ASSUME EntryInv, ResultInv, EntryInv', Sync("exit", "hash")
  PROVE  ResultInv'
<1> USE DEF ResultInv
<1>1. /\ \A t \in Thread : at[t] = "exit"
      /\ at' = [t \in Thread |-> "hash"]
      /\ UNCHANGED <<free_counters, blocks, path, pos, input, special, array, hash, entered>>
  BY DEF Sync
<1>2. Late /\ Late'
  BY <1>1 DEF Late
<1>3. \A b \in 1 .. Len(blocks) : Done(b)' = Done(b)
  <2>1. \A s \in Thread : \A i \in 1 .. MaxPath : Tested(s, i)' <=> Tested(s, i)
    BY <1>1 DEF Tested
  <2>2. QED
    BY <1>1, <2>1, DoneStays
<1>4. \A b \in 1 .. Len(blocks), s \in Thread : Inside(s, b)' <=> Inside(s, b)
  BY <1>1 DEF Inside, Here
<1>5. ClaimInv' /\ ZeroInv' /\ CountInv' /\ InsideInv' /\ SpecialInv'
  BY <1>1, <1>2, <1>3, <1>4, CountsStay
<1>6. PathInv' /\ HashInv'
  BY <1>1 DEF PathInv, HashInv
<1>7. QED
  BY <1>5, <1>6

\* Every step keeps what is known of results; a thread hashes what is due.
LEMMA ResultStep ==
  BodiesAreLocal /\ EntryInv /\ EntryInv' /\ ResultInv /\ [Next]_vars => ResultInv'
<1> SUFFICES ASSUME BodiesAreLocal, EntryInv, EntryInv', ResultInv, [Next]_vars
             PROVE  ResultInv'
  OBVIOUS
<1>1. CASE \E block \in Block : Claim(block)
  BY <1>1, ClaimKeeps
<1>2. CASE Launch
  BY <1>2, LaunchKeeps
<1>3. CASE \E t \in Thread : Step(t)
  <2>1. PICK t \in Thread : Step(t)
    BY <1>3
  <2>2. CASE InitBuffers(t)
    BY <2>2, InitBuffersKeeps
  <2>3. CASE Test(t)
    BY <2>3, TestKeeps
  <2>4. CASE AddResult(t)
    BY <2>4, AddResultKeeps
  <2>5. CASE RunBody(t) \/ ReturnFromFunc1(t) \/ Hash(t)
    BY <2>5, QuietStepKeeps
  <2>6. QED
    BY <2>1, <2>2, <2>3, <2>4, <2>5 DEF Step
<1>4. CASE Sync("entry", "run")
  BY <1>4, EntrySyncKeeps
<1>5. CASE Sync("exit", "hash")
  BY <1>5, ExitSyncKeeps
<1>6. CASE UNCHANGED vars
  <2>1. UNCHANGED <<free_counters, blocks, path, at, pos, input, special, array, hash, entered>>
    BY <1>6 DEF vars, kernel
  <2>2. \A b : Done(b)' = Done(b)
    BY <2>1 DEF Done, Tested
  <2>3. PathInv' /\ ClaimInv' /\ HashInv'
    BY <2>1 DEF ResultInv, PathInv, ClaimInv, HashInv
  <2>4. ZeroInv'
    BY <2>1 DEF ResultInv, ZeroInv, IsZero, Early
  <2>5. CountInv'
    BY <2>1, <2>2 DEF ResultInv, CountInv, CounterOf, Hit, Late
  <2>6. InsideInv' /\ SpecialInv'
    BY <2>1 DEF ResultInv, InsideInv, SpecialInv, Inside, Here, Added, Late
  <2>7. QED
    BY <2>3, <2>4, <2>5, <2>6 DEF ResultInv
<1>7. QED
  BY <1>1, <1>2, <1>3, <1>4, <1>5, <1>6 DEF Next, Terminated

\* When every thread has come to the end of its path, the special values are
\* those the numbers of visits say.
LEMMA SpecialsAreDue ==
  ASSUME EntryInv, ResultInv, AllDone,
         NEW mem \in AtomicMemAccess, NEW c \in Counter
  PROVE  special[mem][c] = SpecialValue(mem, c)
<1> USE DEF ResultInv
<1>1. Late
  BY DEF AllDone, Late
<1>2. \A b \in 1 .. Len(blocks) : Visits(b, Thread) = Cardinality(Done(b))
  <2>1. \A v \in Thread \X (1 .. MaxPath) : v[2] <= Len(path[v[1]]) => Tested(v[1], v[2])
    <3> SUFFICES ASSUME NEW t \in Thread, NEW i \in 1 .. MaxPath, i <= Len(path[t])
                 PROVE  Tested(t, i)
      OBVIOUS
    <3>1. pos[t] > Len(path[t]) /\ Len(path[t]) \in Nat /\ pos[t] \in Nat
      BY DEF AllDone, PathInv
    <3>2. QED
      BY <3>1 DEF Tested
  <2>2. \A b : Done(b) = {v \in Thread \X (1 .. MaxPath) :
                            v[2] <= Len(path[v[1]]) /\ path[v[1]][v[2]] = b}
    BY <2>1 DEF Done
  <2>3. QED
    BY <2>2 DEF Visits
<1>3. \A b \in 1 .. Len(blocks) : Added(b) <=> Hit(b, Visits(b, Thread))
  <2> SUFFICES ASSUME NEW b \in 1 .. Len(blocks)
               PROVE  Added(b) <=> Hit(b, Visits(b, Thread))
    OBVIOUS
  <2>1. \A t \in Thread : ~ Inside(t, b)
    BY DEF AllDone, Inside
  <2>2. entered[b] = IF Hit(b, Visits(b, Thread)) THEN 1 ELSE 0
    BY <1>2 DEF CountInv
  <2>3. QED
    BY <2>1, <2>2 DEF Added
<1> DEFINE entry == {b \in 1 .. Len(blocks) :
                       blocks[b].mem = mem /\ blocks[b].counter = c /\ Hit(b, Visits(b, Thread))}
<1>4. CASE \E b \in 1 .. Len(blocks) : blocks[b].mem = mem /\ blocks[b].counter = c
  <2>1. PICK b \in 1 .. Len(blocks) : blocks[b].mem = mem /\ blocks[b].counter = c
    BY <1>4
  <2>2. \A d \in entry : d = b
    BY <2>1 DEF ClaimInv
  <2>3. special[mem][c] = IF Added(b) THEN Result(b) ELSE 0
    BY <1>1, <2>1 DEF SpecialInv
  <2>4. CASE Added(b)
    <3>1. b \in entry
      BY <1>3, <2>1, <2>4
    <3>2. (CHOOSE d \in entry : TRUE) = b
      <4> HIDE DEF entry
      <4> QED
        BY <2>2, <3>1
    <3>3. QED
      BY <2>3, <2>4, <3>1, <3>2 DEF SpecialValue
  <2>5. CASE ~ Added(b)
    <3>1. entry = {}
      BY <1>3, <2>1, <2>2, <2>5
    <3>2. QED
      BY <2>3, <2>5, <3>1 DEF SpecialValue
  <2>6. QED
    BY <2>4, <2>5
<1>5. CASE \A b \in 1 .. Len(blocks) : ~ (blocks[b].mem = mem /\ blocks[b].counter = c)
  <2>1. entry = {}
    BY <1>5
  <2>2. special[mem][c] = 0
    BY <1>1, <1>5 DEF SpecialInv
  <2>3. QED
    BY <2>1, <2>2 DEF SpecialValue
<1>6. QED
  BY <1>4, <1>5

\* What the invariant says of a hash is the same whoever has entered the blocks.
LEMMA ResultsAreDue == BodiesAreLocal /\ EntryInv /\ ResultInv => Determinism
<1> SUFFICES ASSUME BodiesAreLocal, EntryInv, ResultInv, AllDone, NEW t \in Thread
             PROVE  LET own == IF \E b \in 1 .. Len(blocks) :
                                    blocks[b].body = "array" /\ Entrant(t, b)
                               THEN 1 ELSE 0
                    IN  hash[t] = IF t # 0 THEN <<own>>
                                  ELSE <<own, [mem \in AtomicMemAccess |->
                                                 [c \in Counter |-> SpecialValue(mem, c)]]>>
  BY DEF Determinism
<1>1. \A b \in 1 .. Len(blocks) : blocks[b].body # "array"
  <2>1. \A b \in 1 .. Len(blocks) : blocks[b] \in Block
    BY DEF EntryInv, Types
  <2>2. QED
    BY <2>1 DEF Block, BodiesAreLocal
<1>2. hash[t] = IF t = 0 THEN <<0, special>> ELSE <<0>>
  BY DEF ResultInv, HashInv, AllDone
<1>3. special = [mem \in AtomicMemAccess |-> [c \in Counter |-> SpecialValue(mem, c)]]
  <2>1. special \in [AtomicMemAccess -> [Counter -> Nat]]
    BY DEF ResultInv, SpecialInv
  <2>2. \A mem \in AtomicMemAccess : special[mem] = [c \in Counter |-> SpecialValue(mem, c)]
    <3> SUFFICES ASSUME NEW mem \in AtomicMemAccess
                 PROVE  special[mem] = [c \in Counter |-> SpecialValue(mem, c)]
      OBVIOUS
    <3>1. special[mem] = [c \in Counter |-> special[mem][c]]
      BY <2>1
    <3>2. \A c \in Counter : special[mem][c] = SpecialValue(mem, c)
      BY SpecialsAreDue
    <3>3. QED
      BY <3>1, <3>2
  <2>3. QED
    BY <2>1, <2>2
<1>4. QED
  BY <1>1, <1>2, <1>3

\* Whatever the schedule and the control flow of the threads, each of them
\* hashes what it would if they ran one after another: the special values are
\* decided by how often the blocks are come to, and by nothing else.
THEOREM BlocksAreDeterministic == BodiesAreLocal /\ Spec => []Determinism
<1>1. CASE BodiesAreLocal
  <2>1. Init => EntryInv /\ ResultInv
    BY <1>1, EntryInit, ResultInit
  <2>2. (EntryInv /\ ResultInv) /\ [Next]_vars => (EntryInv /\ ResultInv)'
    BY <1>1, EntryStep, ResultStep
  <2>3. EntryInv /\ ResultInv => Determinism
    BY <1>1, ResultsAreDue
  <2>4. QED
    BY <2>1, <2>2, <2>3, PTL DEF Spec
<1>2. CASE ~ BodiesAreLocal
  BY <1>2
<1>3. QED
  BY <1>1, <1>2

=============================================================================
