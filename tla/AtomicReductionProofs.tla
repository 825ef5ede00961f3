------------------------ MODULE AtomicReductionProofs ------------------------
(***************************************************************************)
(* For every size of the group, every width of a word, every program and   *)
(* every set of values, a plain access of thread 0 never competes with an  *)
(* access of another thread, and thread 0 collects what a sequential run   *)
(* would.  The argument is that of the two barriers, which keep the        *)
(* threads of a group in one phase of one reduction, and that no two       *)
(* operations of one reduction show in which order they came.              *)
(***************************************************************************)
EXTENDS AtomicReduction, WellFoundedInduction, TLAPS

Starting == \A t \in Thread : at[t] \in {"init", "entry"}
Adding == \A t \in Thread : at[t] \in {"atomic", "first"}
Collecting == \A t \in Thread : at[t] \in {"collect", "second"}

InOnePhase == Starting \/ Adding \/ Collecting

InOneReduction == \E k \in Nat : \A t \in Thread : pc[t] = k

Placed ==
  /\ at \in [Thread -> Place]
  /\ pc \in [Thread -> Nat]

\* The inductive invariant.
Lockstep == Placed /\ InOnePhase /\ InOneReduction

\* Every thread starts in front of the first barrier.
LEMMA LockstepInit == Init => Lockstep
  BY DEF Init, Lockstep, Placed, InOnePhase, InOneReduction, Starting, Place

\* A thread stays in its phase and its reduction; a barrier takes all threads
\* to the next.
LEMMA LockstepStep == Lockstep /\ [Next]_vars => Lockstep'
<1> SUFFICES ASSUME Lockstep, [Next]_vars PROVE Lockstep'
  OBVIOUS
<1> USE DEF Lockstep, Placed, InOnePhase, Starting, Adding, Collecting, Place
<1>1. ASSUME NEW t \in Thread, InitBuffer(t) PROVE Lockstep'
  <2>1. pc' = pc /\ at' = [at EXCEPT ![t] = "entry"] /\ at[t] = "init"
    BY <1>1 DEF InitBuffer, Goto
  <2>2. InOneReduction'
    BY <2>1 DEF InOneReduction
  <2>3. Starting'
    BY <2>1
  <2> QED BY <2>1, <2>2, <2>3
<1>2. ASSUME NEW t \in Thread, Atomic(t) PROVE Lockstep'
  <2>1. pc' = pc /\ at' = [at EXCEPT ![t] = "first"] /\ at[t] = "atomic"
    BY <1>2 DEF Atomic, Goto, AtReduction
  <2>2. InOneReduction'
    BY <2>1 DEF InOneReduction
  <2>3. Adding'
    BY <2>1
  <2> QED BY <2>1, <2>2, <2>3
<1>3. ASSUME NEW t \in Thread, Collect(t) PROVE Lockstep'
  <2>1. pc' = pc /\ at' = [at EXCEPT ![t] = "second"] /\ at[t] = "collect"
    BY <1>3 DEF Collect, Goto, AtReduction
  <2>2. InOneReduction'
    BY <2>1 DEF InOneReduction
  <2>3. Collecting'
    BY <2>1
  <2> QED BY <2>1, <2>2, <2>3
<1>4. ASSUME Sync PROVE Lockstep'
  <2>1. PICK k \in Nat : \A t \in Thread : pc[t] = k
    BY DEF InOneReduction
  <2>2. CASE Adding
    <3>1. \A t \in Thread : at[t] = "first"
      BY <1>4, <2>2 DEF Sync, Waiting
    <3>2. /\ at' = [t \in Thread |-> "collect"]
          /\ pc' = [t \in Thread |-> pc[t]]
      BY <1>4, <3>1 DEF Sync
    <3>3. \A t \in Thread : pc'[t] = k
      BY <2>1, <3>2
    <3> QED BY <3>2, <3>3 DEF InOneReduction
  <2>3. CASE Starting \/ Collecting
    <3>1. \A t \in Thread : at[t] # "first"
      BY <2>3
    <3>2. /\ at' = [t \in Thread |-> "atomic"]
          /\ pc' = [t \in Thread |-> pc[t] + 1]
      BY <1>4, <3>1 DEF Sync
    <3>3. \A t \in Thread : pc'[t] = k + 1
      BY <2>1, <3>2
    <3> QED BY <3>2, <3>3 DEF InOneReduction
  <2> QED BY <2>2, <2>3
<1>5. CASE Terminated \/ UNCHANGED vars
  BY <1>5 DEF Terminated, vars, InOneReduction
<1> QED BY <1>1, <1>2, <1>3, <1>4, <1>5 DEF Next, Step

\* In each of the phases, only atomic accesses compete.
LEMMA LockstepSuffices == Lockstep => PlainAccessesDoNotRace
<1> SUFFICES ASSUME Lockstep, NEW s \in Thread, NEW t \in Thread, s # t,
                    NextAccess(s).mem = NextAccess(t).mem,
                    NextAccess(s).mem # "none"
             PROVE  NextAccess(s).atomic /\ NextAccess(t).atomic
  BY DEF PlainAccessesDoNotRace
<1>1. CASE Adding
  BY <1>1 DEF Adding, NextAccess, AtReduction
<1>2. CASE Starting \/ Collecting
  <2>1. \A u \in Thread : u # 0 => NextAccess(u).mem = "none"
    BY <1>2 DEF Starting, Collecting, NextAccess, AtReduction
  <2> QED BY <2>1
<1> QED BY <1>1, <1>2 DEF Lockstep, InOnePhase

\* Thread 0 neither initialises a location nor reads it while another thread of
\* the group may be adding to it, whatever the size of the group and the program.
THEOREM PlainAccessesAreAlone == Spec => []PlainAccessesDoNotRace
  BY LockstepInit, LockstepStep, LockstepSuffices, PTL DEF Spec

-----------------------------------------------------------------------------
(* Recursion.                                                              *)

\* Induction up to N: what holds at 0, and at n whenever at n - 1.
LEMMA Upwards ==
  ASSUME NEW N \in Nat, NEW G \in SUBSET (0 .. N), 0 \in G,
         \A n \in 1 .. N : n - 1 \in G => n \in G
  PROVE  G = 0 .. N
<1> DEFINE R == OpToRel(<, Nat)
           S == (0 .. N) \ G
<1>1. IsWellFoundedOn(R, Nat)
  BY NatLessThanWellFounded
<1>2. \A k, l \in Nat : k < l => <<k, l>> \in R
  BY SMT DEF OpToRel
<1> HIDE DEF R
<1>3. SUFFICES ASSUME S # {}
               PROVE  FALSE
  OBVIOUS
<1>4. S \in SUBSET Nat
  OBVIOUS
<1> HIDE DEF S
<1>5. PICK m \in S : \A k \in S : ~ (<<k, m>> \in R)
  BY <1>1, <1>3, <1>4, WFMin, Zenon
<1>6. m \in 0 .. N /\ m \notin G
  BY <1>5 DEF S
<1>7. m \in 1 .. N /\ m - 1 \in 0 .. N /\ m - 1 < m
  BY <1>6
<1>8. m - 1 \notin S
  <2>1. m - 1 \in Nat /\ m \in Nat
    BY <1>7
  <2>2. QED
    BY <1>2, <1>5, <1>7, <2>1
<1>9. m - 1 \in G
  BY <1>7, <1>8 DEF S
<1>10. QED
  BY <1>6, <1>7, <1>9

\* A run of N steps from a first state.
Stepping(N, S) == [1 .. N -> [S -> S]]
IsRun(f, N, S, first, step) ==
  /\ f \in [0 .. N -> S]
  /\ f[0] = first
  /\ \A n \in 1 .. N : f[n] = step[n][f[n - 1]]

\* From any first state, the steps lead through some states: a recursive function
\* that makes these steps is defined.
LEMMA RunExists ==
  ASSUME NEW N \in Nat, NEW S, NEW first \in S, NEW step \in Stepping(N, S)
  PROVE  \E f : IsRun(f, N, S, first, step)
<1> DEFINE Upto(m, f) == f[0] = first /\ \A n \in 1 .. m : f[n] = step[n][f[n - 1]]
           G == {m \in 0 .. N : \E f \in [0 .. m -> S] : Upto(m, f)}
<1>1. 0 \in G
  <2>1. PICK f : f = [n \in 0 .. 0 |-> first]
    OBVIOUS
  <2>2. f \in [0 .. 0 -> S] /\ Upto(0, f)
    BY <2>1
  <2>3. 0 \in 0 .. N /\ \E h \in [0 .. 0 -> S] : Upto(0, h)
    BY <2>2
  <2> HIDE DEF Upto
  <2>4. QED
    BY <2>3
<1>2. ASSUME NEW m \in 1 .. N, m - 1 \in G
      PROVE  m \in G
  <2>1. PICK f \in [0 .. m - 1 -> S] : Upto(m - 1, f)
    BY <1>2
  <2>2. m \in 0 .. N /\ m - 1 \in 0 .. m - 1 /\ f[m - 1] \in S
    BY <2>1
  <2>3. step[m][f[m - 1]] \in S
    BY <2>2 DEF Stepping
  <2>4. PICK g : g = [n \in 0 .. m |-> IF n = m THEN step[m][f[m - 1]] ELSE f[n]]
    OBVIOUS
  <2>5. g \in [0 .. m -> S]
    <3>1. \A n \in 0 .. m : n # m => n \in 0 .. m - 1
      OBVIOUS
    <3>2. QED
      BY <2>3, <2>4, <3>1
  <2>6. \A n \in 0 .. m - 1 : g[n] = f[n]
    BY <2>4
  <2>7. g[m] = step[m][f[m - 1]] /\ g[m - 1] = f[m - 1]
    BY <2>2, <2>4, <2>6
  <2>8. Upto(m, g)
    <3>1. g[0] = first
      BY <2>1, <2>6
    <3>2. ASSUME NEW n \in 1 .. m
          PROVE  g[n] = step[n][g[n - 1]]
      <4>1. CASE n = m
        BY <2>7, <4>1
      <4>2. CASE n # m
        <5>1. n \in 1 .. m - 1 /\ n \in 0 .. m - 1 /\ n - 1 \in 0 .. m - 1
          BY <4>2
        <5>2. QED
          BY <2>1, <2>6, <5>1
      <4>3. QED
        BY <4>1, <4>2
    <3>3. QED
      BY <3>1, <3>2
  <2>9. QED
    BY <2>2, <2>5, <2>8
<1>3. G = 0 .. N
  <2> HIDE DEF G
  <2>1. G \in SUBSET (0 .. N)
    BY DEF G
  <2>2. QED
    BY <1>1, <1>2, <2>1, Upwards
<1>4. QED
  BY <1>3 DEF IsRun

\* Two functions that make the same steps from the same value are one.
LEMMA RunsAgree ==
  ASSUME NEW N \in Nat, NEW f, NEW g, f[0] = g[0],
         \A n \in 1 .. N : f[n - 1] = g[n - 1] => f[n] = g[n]
  PROVE  \A n \in 0 .. N : f[n] = g[n]
<1> DEFINE G == {n \in 0 .. N : f[n] = g[n]}
<1>1. G \in SUBSET (0 .. N) /\ 0 \in G /\ \A n \in 1 .. N : n - 1 \in G => n \in G
  OBVIOUS
<1> HIDE DEF G
<1>2. G = 0 .. N
  BY <1>1, Upwards
<1>3. QED
  BY <1>2 DEF G

-----------------------------------------------------------------------------
(* Words and their bits.                                                   *)

\* The powers of two.
LEMMA Powers ==
  /\ Power2[0] = 1
  /\ \A i \in 1 .. Width : Power2[i] = 2 * Power2[i - 1]
  /\ \A i \in 0 .. Width : Power2[i] \in Nat \ {0}
<1> DEFINE Body(f) == [i \in 0 .. Width |-> IF i = 0 THEN 1 ELSE 2 * f[i - 1]]
<1>1. Width \in Nat
  BY WidthAssumption
<1>2. PICK step : step = [n \in 1 .. Width |-> [k \in Nat \ {0} |-> 2 * k]]
  OBVIOUS
<1>3. step \in Stepping(Width, Nat \ {0})
  BY <1>2 DEF Stepping
<1>4. PICK f : IsRun(f, Width, Nat \ {0}, 1, step)
  <2>1. 1 \in Nat \ {0}
    OBVIOUS
  <2>2. QED
    BY <1>1, <1>3, <2>1, RunExists
<1>5. ASSUME NEW i \in 1 .. Width
      PROVE  i - 1 \in 0 .. Width /\ f[i - 1] \in Nat \ {0} /\ f[i] = 2 * f[i - 1]
  <2>1. i - 1 \in 0 .. Width
    BY <1>1
  <2>2. f[i - 1] \in Nat \ {0} /\ f[i] = step[i][f[i - 1]]
    BY <1>4, <2>1 DEF IsRun
  <2>3. step[i][f[i - 1]] = 2 * f[i - 1]
    BY <1>2, <2>2
  <2>4. QED
    BY <2>1, <2>2, <2>3
<1>6. f = Body(f)
  <2>1. \A i \in 0 .. Width : i # 0 => i \in 1 .. Width
    BY <1>1
  <2>2. QED
    BY <1>4, <1>5, <2>1 DEF IsRun
<1>7. Power2 = Body(Power2)
  BY <1>6 DEF Power2
<1>8. Power2[0] = 1 /\ \A i \in 1 .. Width : Power2[i] = 2 * Power2[i - 1]
  BY <1>1, <1>7
<1>9. \A i \in 0 .. Width : Power2[i] = f[i]
  <2>1. Power2[0] = f[0]
    BY <1>4, <1>8 DEF IsRun
  <2>2. \A i \in 1 .. Width : Power2[i - 1] = f[i - 1] => Power2[i] = f[i]
    BY <1>5, <1>8
  <2>3. QED
    BY <1>1, <2>1, <2>2, RunsAgree
<1>10. QED
  BY <1>4, <1>8, <1>9 DEF IsRun

\* Dividing a number of k times p and less than p by p.
LEMMA Quotient ==
  ASSUME NEW p \in Nat \ {0}, NEW u \in Nat, u < p, NEW k \in Nat
  PROVE  (u + (p * k)) \div p = k
BY SMT

\* The remainder of a number below twice p.
LEMMA Remainder ==
  ASSUME NEW p \in Nat \ {0}, NEW n \in Nat, n < 2 * p
  PROVE  n % p = IF n < p THEN n ELSE n - p
BY SMT

Bits == [0 .. Width - 1 -> {0, 1}]

\* The sum FromBits makes, up to each bit.
IsSum(f, c) ==
  /\ f[0] = 0
  /\ \A i \in 1 .. Width : f[i] = f[i - 1] + (Power2[i - 1] * c[i - 1])

\* FromBits is such a sum.
LEMMA FromBitsIs ==
  ASSUME NEW c \in Bits
  PROVE  \E f \in [0 .. Width -> Nat] : IsSum(f, c) /\ FromBits(c) = f[Width]
<1> DEFINE Body(f) == [i \in 0 .. Width |->
                         IF i = 0 THEN 0 ELSE f[i - 1] + (Power2[i - 1] * c[i - 1])]
           u == CHOOSE f : f = Body(f)
<1>1. Width \in Nat
  BY WidthAssumption
<1>2. \A i \in 1 .. Width : Power2[i - 1] * c[i - 1] \in Nat
  <2> SUFFICES ASSUME NEW i \in 1 .. Width
               PROVE  Power2[i - 1] * c[i - 1] \in Nat
    OBVIOUS
  <2>1. i - 1 \in 0 .. Width /\ i - 1 \in 0 .. Width - 1
    BY <1>1
  <2>2. Power2[i - 1] \in Nat /\ c[i - 1] \in {0, 1}
    BY <2>1, Powers DEF Bits
  <2>3. QED
    BY <2>2
<1>3. PICK step : step = [n \in 1 .. Width |-> [k \in Nat |-> k + (Power2[n - 1] * c[n - 1])]]
  OBVIOUS
<1>4. step \in Stepping(Width, Nat)
  <2>1. \A n \in 1 .. Width : \A k \in Nat : k + (Power2[n - 1] * c[n - 1]) \in Nat
    BY <1>2
  <2>2. QED
    BY <1>3, <2>1 DEF Stepping
<1>5. PICK f : IsRun(f, Width, Nat, 0, step)
  <2>1. 0 \in Nat
    OBVIOUS
  <2>2. QED
    BY <1>1, <1>4, <2>1, RunExists
<1>6. ASSUME NEW i \in 1 .. Width
      PROVE  f[i] = f[i - 1] + (Power2[i - 1] * c[i - 1])
  <2>1. i - 1 \in 0 .. Width
    BY <1>1
  <2>2. f[i - 1] \in Nat /\ f[i] = step[i][f[i - 1]]
    BY <1>5, <2>1 DEF IsRun
  <2>3. QED
    BY <1>3, <2>2
<1>7. f = Body(f)
  <2>1. \A i \in 0 .. Width : i # 0 => i \in 1 .. Width
    BY <1>1
  <2>2. QED
    BY <1>5, <1>6, <2>1 DEF IsRun
<1>8. u = Body(u)
  BY <1>7
<1>9. FromBits(c) = u[Width]
  BY DEF FromBits
<1> HIDE DEF u
<1>10. u[0] = 0 /\ \A i \in 1 .. Width : u[i] = u[i - 1] + (Power2[i - 1] * c[i - 1])
  BY <1>1, <1>8
<1>11. \A i \in 0 .. Width : u[i] = f[i]
  <2>1. u[0] = f[0]
    BY <1>5, <1>10 DEF IsRun
  <2>2. \A i \in 1 .. Width : u[i - 1] = f[i - 1] => u[i] = f[i]
    BY <1>6, <1>10
  <2>3. QED
    BY <1>1, <2>1, <2>2, RunsAgree
<1>12. FromBits(c) = f[Width]
  BY <1>1, <1>9, <1>11
<1>13. QED
  BY <1>5, <1>6, <1>12 DEF IsRun, IsSum

\* A number made of bits is a word, and has these bits.
LEMMA BitsOfSums ==
  ASSUME NEW c \in Bits
  PROVE  /\ FromBits(c) \in Word
         /\ \A j \in 0 .. Width - 1 : Bit(FromBits(c), j) = c[j]
<1>1. Width \in Nat
  BY WidthAssumption
<1>2. PICK f \in [0 .. Width -> Nat] : IsSum(f, c) /\ FromBits(c) = f[Width]
  BY FromBitsIs
<1>3. ASSUME NEW i \in 1 .. Width
      PROVE  /\ i \in 0 .. Width /\ i - 1 \in 0 .. Width /\ i - 1 \in 0 .. Width - 1
             /\ f[i] \in Nat /\ f[i - 1] \in Nat /\ c[i - 1] \in {0, 1}
             /\ Power2[i - 1] \in Nat \ {0} /\ Power2[i] = 2 * Power2[i - 1]
             /\ f[i] = IF c[i - 1] = 0 THEN f[i - 1] ELSE f[i - 1] + Power2[i - 1]
  <2>1. i \in 0 .. Width /\ i - 1 \in 0 .. Width /\ i - 1 \in 0 .. Width - 1
    BY <1>1
  <2>2. /\ f[i] \in Nat /\ f[i - 1] \in Nat /\ c[i - 1] \in {0, 1}
        /\ Power2[i - 1] \in Nat \ {0} /\ Power2[i] = 2 * Power2[i - 1]
    BY <2>1, Powers DEF Bits
  <2>3. f[i] = f[i - 1] + (Power2[i - 1] * c[i - 1])
    BY <1>2 DEF IsSum
  <2>4. QED
    BY <2>1, <2>2, <2>3
<1>4. \A i \in 0 .. Width : f[i] < Power2[i]
  <2> DEFINE G == {i \in 0 .. Width : f[i] < Power2[i]}
  <2>1. 0 \in G
    BY <1>1, <1>2, Powers DEF IsSum
  <2>2. ASSUME NEW i \in 1 .. Width, i - 1 \in G
        PROVE  i \in G
    <3>1. f[i - 1] < Power2[i - 1]
      BY <2>2
    <3>2. /\ f[i - 1] \in Nat /\ Power2[i - 1] \in Nat /\ Power2[i] = 2 * Power2[i - 1]
          /\ f[i] = f[i - 1] \/ f[i] = f[i - 1] + Power2[i - 1]
      BY <1>3
    <3>3. f[i] < Power2[i]
      BY <3>1, <3>2
    <3>4. i \in 0 .. Width
      BY <1>1
    <3>5. QED
      BY <3>3, <3>4
  <2>3. G \in SUBSET (0 .. Width)
    OBVIOUS
  <2> HIDE DEF G
  <2>4. G = 0 .. Width
    BY <1>1, <2>1, <2>2, <2>3, Upwards
  <2>5. QED
    BY <2>4 DEF G
<1>5. FromBits(c) \in Word
  <2>1. Width \in 0 .. Width
    BY <1>1
  <2>2. f[Width] \in Nat /\ f[Width] < Power2[Width] /\ Power2[Width] \in Nat
    BY <1>4, <2>1, Powers
  <2>3. QED
    BY <1>2, <2>2 DEF Word
<1>6. ASSUME NEW j \in 0 .. Width - 1
      PROVE  Bit(FromBits(c), j) = c[j]
  <2> DEFINE p == Power2[j]
             low == f[j] + (p * c[j])
             High(i) == /\ \E q \in Nat : Power2[i] = (2 * p) * q
                        /\ \E q \in Nat : f[i] = low + ((2 * p) * q)
             G == {i \in 0 .. Width : i <= j \/ High(i)}
  <2>1. /\ j \in 0 .. Width /\ j + 1 \in 1 .. Width /\ (j + 1) - 1 = j /\ j \in Nat
        /\ p \in Nat \ {0} /\ f[j] \in Nat /\ c[j] \in {0, 1} /\ low \in Nat /\ f[j] < p
    <3>1. j \in 0 .. Width /\ j + 1 \in 1 .. Width /\ (j + 1) - 1 = j /\ j \in Nat
      BY <1>1
    <3>2. p \in Nat \ {0} /\ f[j] \in Nat /\ c[j] \in {0, 1} /\ f[j] < p
      BY <1>4, <3>1, Powers DEF Bits
    <3>3. QED
      BY <3>1, <3>2
  <2>2. High(j + 1)
    <3>1. Power2[j + 1] = (2 * p) * 1 /\ f[j + 1] = low + ((2 * p) * 0)
      <4>1. Power2[j + 1] = 2 * p
        BY <2>1, Powers
      <4>2. f[j + 1] = f[(j + 1) - 1] + (Power2[(j + 1) - 1] * c[(j + 1) - 1])
        BY <1>2, <2>1 DEF IsSum
      <4>3. f[j + 1] = low
        BY <2>1, <4>2
      <4>4. QED
        BY <2>1, <4>1, <4>3
    <3>2. 0 \in Nat /\ 1 \in Nat
      OBVIOUS
    <3> HIDE DEF low, p
    <3>3. QED
      BY <3>1, <3>2
  <2>3. ASSUME NEW i \in 1 .. Width, High(i - 1)
        PROVE  High(i)
    <3>1. PICK q \in Nat : Power2[i - 1] = (2 * p) * q
      BY <2>3
    <3>2. PICK k \in Nat : f[i - 1] = low + ((2 * p) * k)
      BY <2>3
    <3>3. Power2[i] = (2 * p) * (2 * q)
      BY <1>3, <2>1, <3>1, SMTT(30)
    <3>4. 2 * q \in Nat /\ k + q \in Nat /\ p \in Nat /\ low \in Nat
      BY <2>1
    <3> HIDE DEF low, p
    <3>5. (low + ((2 * p) * k)) + ((2 * p) * q) = low + ((2 * p) * (k + q))
      BY <3>4
    <3>6. f[i] = f[i - 1] \/ f[i] = f[i - 1] + Power2[i - 1]
      BY <1>3
    <3>7. f[i] = low + ((2 * p) * k) \/ f[i] = low + ((2 * p) * (k + q))
      BY <3>1, <3>2, <3>5, <3>6
    <3>8. QED
      BY <3>3, <3>4, <3>7
  <2> HIDE DEF High
  <2>4. 0 \in G
    BY <1>1, <2>1
  <2>5. \A i \in 1 .. Width : i - 1 \in G => i \in G
    <3> SUFFICES ASSUME NEW i \in 1 .. Width, i - 1 \in G
                 PROVE  i <= j \/ High(i)
      BY <1>1
    <3>1. i - 1 <= j \/ High(i - 1)
      OBVIOUS
    <3>2. i - 1 <= j => i <= j \/ i = j + 1
      BY <2>1
    <3>3. QED
      BY <2>2, <2>3, <3>1, <3>2
  <2>6. G \in SUBSET (0 .. Width)
    OBVIOUS
  <2>7. G = 0 .. Width
    <3> HIDE DEF G
    <3>1. QED
      BY <1>1, <2>4, <2>5, <2>6, Upwards
  <2>8. High(Width)
    <3>1. Width \in G /\ ~ (Width <= j)
      BY <1>1, <2>7
    <3>2. QED
      BY <3>1
  <2>9. PICK q \in Nat : f[Width] = low + ((2 * p) * q)
    BY <2>8 DEF High
  <2>10. /\ c[j] + (2 * q) \in Nat /\ f[Width] = f[j] + (p * (c[j] + (2 * q)))
         /\ p \in Nat \ {0} /\ f[j] \in Nat /\ f[j] < p
    <3>1. p \in Nat \ {0} /\ f[j] \in Nat /\ f[j] < p /\ c[j] \in Nat
      BY <2>1
    <3>2. f[Width] = (f[j] + (p * c[j])) + ((2 * p) * q)
      BY <2>9
    <3> HIDE DEF p
    <3>3. \A a, b \in Nat : (a + (p * b)) + ((2 * p) * q) = a + (p * (b + (2 * q)))
      BY <3>1
    <3>4. f[Width] = f[j] + (p * (c[j] + (2 * q)))
      BY <3>1, <3>2, <3>3
    <3>5. QED
      BY <3>1, <3>4
  <2> HIDE DEF p, low
  <2>11. f[Width] \div p = c[j] + (2 * q)
    <3>1. PICK k, u, v : k = c[j] + (2 * q) /\ u = f[j] /\ v = f[Width]
      OBVIOUS
    <3>2. k \in Nat /\ u \in Nat /\ u < p /\ p \in Nat \ {0} /\ v = u + (p * k)
      BY <2>10, <3>1
    <3>3. v \div p = k
      BY <3>2, Quotient
    <3>4. QED
      BY <3>1, <3>3
  <2>12. (c[j] + (2 * q)) % 2 = c[j]
    BY <2>1
  <2>13. QED
    BY <1>2, <2>11, <2>12 DEF Bit, p
<1>7. QED
  BY <1>5, <1>6

\* The modulus of the words.
LEMMA Modulus ==
  /\ Power2[Width] \in Nat \ {0}
  /\ \A n \in Nat : Wrap(n) \in Word
<1>1. Width \in 0 .. Width
  BY WidthAssumption
<1>2. Power2[Width] \in Nat \ {0}
  BY <1>1, Powers
<1>3. \A n \in Nat : n % Power2[Width] \in 0 .. Power2[Width] - 1
  BY <1>2
<1>4. QED
  BY <1>2, <1>3 DEF Wrap, Word

\* What a thread contributes is a word.
LEMMA ContributionIsWord ==
  ASSUME NEW r \in Reduction, NEW t \in Thread
  PROVE  Contribution(r, t) \in Word
<1>1. r.expr \in Nat /\ r.add_global \in BOOLEAN
  BY ExprAssumption DEF Reduction
<1>2. (Group * GroupSize) + t \in Nat
  BY GroupAssumption, GroupSizeAssumption DEF Thread
<1>3. QED
  BY <1>1, <1>2, Modulus DEF Contribution

BitOp == {"And", "Or", "Xor"}

\* A bit by bit combination is a word with the combined bits.
LEMMA Combined ==
  ASSUME NEW op \in BitOp, NEW v \in Word, NEW w \in Word
  PROVE  /\ BitByBit(op, v, w) \in Word
         /\ \A j \in 0 .. Width - 1 :
              /\ Bit(v, j) \in {0, 1} /\ Bit(w, j) \in {0, 1}
              /\ Bit(BitByBit(op, v, w), j) = Combine(op, Bit(v, j), Bit(w, j))
<1> DEFINE c == [i \in 0 .. Width - 1 |-> Combine(op, Bit(v, i), Bit(w, i))]
<1>1. v \in Nat /\ w \in Nat
  BY Modulus DEF Word
<1>2. ASSUME NEW j \in 0 .. Width - 1, NEW u \in Nat
      PROVE  Bit(u, j) \in {0, 1}
  <2>1. Power2[j] \in Nat \ {0}
    BY WidthAssumption, Powers
  <2>2. u \div Power2[j] \in Nat
    BY <2>1
  <2>3. \A n \in Nat : n % 2 \in {0, 1}
    OBVIOUS
  <2>4. QED
    BY <2>2, <2>3 DEF Bit
<1>3. \A a, b \in {0, 1} : Combine(op, a, b) \in {0, 1}
  BY DEF Combine, BitOp
<1>4. c \in Bits
  BY <1>1, <1>2, <1>3 DEF Bits
<1>5. BitByBit(op, v, w) = FromBits(c)
  BY DEF BitByBit
<1>6. \A j \in 0 .. Width - 1 : c[j] = Combine(op, Bit(v, j), Bit(w, j))
  OBVIOUS
<1> HIDE DEF c
<1>7. QED
  BY <1>1, <1>2, <1>4, <1>5, <1>6, BitsOfSums

\* In which order two words are combined with a third does not show in its bits.
LEMMA BitsCommute ==
  ASSUME NEW op \in BitOp, NEW v \in Word, NEW a \in Word, NEW b \in Word
  PROVE  BitByBit(op, BitByBit(op, v, a), b) = BitByBit(op, BitByBit(op, v, b), a)
<1> DEFINE va == BitByBit(op, v, a)
           vb == BitByBit(op, v, b)
           c == [i \in 0 .. Width - 1 |-> Combine(op, Bit(va, i), Bit(b, i))]
           d == [i \in 0 .. Width - 1 |-> Combine(op, Bit(vb, i), Bit(a, i))]
<1>1. ASSUME NEW i \in 0 .. Width - 1
      PROVE  Combine(op, Bit(va, i), Bit(b, i)) = Combine(op, Bit(vb, i), Bit(a, i))
  <2>1. PICK x, y, z \in {0, 1} : x = Bit(v, i) /\ y = Bit(a, i) /\ z = Bit(b, i)
    BY Combined
  <2>2. Bit(va, i) = Combine(op, x, y) /\ Bit(vb, i) = Combine(op, x, z)
    BY <2>1, Combined
  <2>3. Combine(op, Combine(op, x, y), z) = Combine(op, Combine(op, x, z), y)
    BY DEF Combine, BitOp
  <2>4. QED
    BY <2>1, <2>2, <2>3
<1>2. c = d
  BY <1>1
<1>3. BitByBit(op, va, b) = FromBits(c) /\ BitByBit(op, vb, a) = FromBits(d)
  BY DEF BitByBit
<1>4. QED
  BY <1>2, <1>3

\* Nor does the order of two atomic operations on a location show in its value.
LEMMA ApplyCommutes ==
  ASSUME NEW op \in AtomicOp, NEW v \in Word, NEW a \in Word, NEW b \in Word
  PROVE  /\ Apply(op, v, a) \in Word
         /\ Apply(op, Apply(op, v, a), b) = Apply(op, Apply(op, v, b), a)
<1> DEFINE M == Power2[Width]
<1>1. M \in Nat \ {0} /\ v \in 0 .. M - 1 /\ a \in 0 .. M - 1 /\ b \in 0 .. M - 1
  BY Modulus DEF Word
<1>2. \A n \in Nat : n < 2 * M => Wrap(n) = IF n < M THEN n ELSE n - M
  BY <1>1, Remainder DEF Wrap
<1> HIDE DEF M
<1>3. CASE op = "Add"
  <2>1. \A x, y \in 0 .. M - 1 : /\ Apply(op, x, y) = IF x + y < M THEN x + y ELSE (x + y) - M
                                 /\ Apply(op, x, y) \in 0 .. M - 1
    <3> SUFFICES ASSUME NEW x \in 0 .. M - 1, NEW y \in 0 .. M - 1
                 PROVE  /\ Apply(op, x, y) = IF x + y < M THEN x + y ELSE (x + y) - M
                        /\ Apply(op, x, y) \in 0 .. M - 1
      OBVIOUS
    <3>1. Apply(op, x, y) = Wrap(x + y)
      BY <1>3 DEF Apply
    <3>2. x + y \in Nat /\ x + y < 2 * M
      BY <1>1
    <3>3. QED
      BY <1>1, <1>2, <3>1, <3>2
  <2>2. PICK va, vb \in 0 .. M - 1 : va = Apply(op, v, a) /\ vb = Apply(op, v, b)
    BY <1>1, <2>1
  <2>3. /\ va = IF v + a < M THEN v + a ELSE (v + a) - M
        /\ vb = IF v + b < M THEN v + b ELSE (v + b) - M
        /\ Apply(op, va, b) = IF va + b < M THEN va + b ELSE (va + b) - M
        /\ Apply(op, vb, a) = IF vb + a < M THEN vb + a ELSE (vb + a) - M
    BY <1>1, <2>1, <2>2
  <2>4. Apply(op, va, b) = Apply(op, vb, a)
    BY <1>1, <2>2, <2>3
  <2>5. QED
    BY <2>2, <2>4 DEF Word, M
<1>4. CASE op = "Sub"
  <2>1. \A x, y \in 0 .. M - 1 : /\ Apply(op, x, y) = IF x < y THEN (x + M) - y ELSE x - y
                                 /\ Apply(op, x, y) \in 0 .. M - 1
    <3> SUFFICES ASSUME NEW x \in 0 .. M - 1, NEW y \in 0 .. M - 1
                 PROVE  /\ Apply(op, x, y) = IF x < y THEN (x + M) - y ELSE x - y
                        /\ Apply(op, x, y) \in 0 .. M - 1
      OBVIOUS
    <3>1. Apply(op, x, y) = Wrap((x + M) - y)
      BY <1>4 DEF Apply, M
    <3>2. (x + M) - y \in Nat /\ (x + M) - y < 2 * M
      BY <1>1
    <3>3. QED
      BY <1>1, <1>2, <3>1, <3>2
  <2>2. PICK va, vb \in 0 .. M - 1 : va = Apply(op, v, a) /\ vb = Apply(op, v, b)
    BY <1>1, <2>1
  <2>3. /\ va = IF v < a THEN (v + M) - a ELSE v - a
        /\ vb = IF v < b THEN (v + M) - b ELSE v - b
        /\ Apply(op, va, b) = IF va < b THEN (va + M) - b ELSE va - b
        /\ Apply(op, vb, a) = IF vb < a THEN (vb + M) - a ELSE vb - a
    BY <1>1, <2>1, <2>2
  <2>4. Apply(op, va, b) = Apply(op, vb, a)
    BY <1>1, <2>2, <2>3
  <2>5. QED
    BY <2>2, <2>4 DEF Word, M
<1>5. CASE op \in {"Min", "Max"}
  BY <1>1, <1>5 DEF Apply, Word, M
<1>6. CASE op \in BitOp
  <2>1. \A x, y : Apply(op, x, y) = BitByBit(op, x, y)
    BY <1>6 DEF Apply, BitOp
  <2>2. BitByBit(op, v, a) \in Word
    BY <1>6, Combined
  <2>3. QED
    BY <1>6, <2>1, <2>2, BitsCommute
<1>7. QED
  BY <1>3, <1>4, <1>5, <1>6 DEF AtomicOp, BitOp

-----------------------------------------------------------------------------
(* What a sequential run computes.                                         *)

\* f is what the threads of D make of value v in reduction r, one after another,
\* thread by thread.
IsAdded(f, D, r, v) ==
  /\ f \in [0 .. GroupSize -> Word]
  /\ f[0] = v
  /\ \A k \in 1 .. GroupSize :
       f[k] = IF k - 1 \in D THEN Apply(r.op, f[k - 1], Contribution(r, k - 1)) ELSE f[k - 1]

\* Before any thread has added, the value is that of before.
LEMMA NobodyAdded ==
  ASSUME NEW r, NEW v \in Word
  PROVE  \E f : IsAdded(f, {}, r, v) /\ f[GroupSize] = v
<1>1. PICK f : f = [k \in 0 .. GroupSize |-> v]
  OBVIOUS
<1>2. GroupSize \in Nat
  BY GroupSizeAssumption
<1>3. IsAdded(f, {}, r, v)
  BY <1>1, <1>2 DEF IsAdded
<1>4. f[GroupSize] = v
  BY <1>1, <1>2
<1>5. QED
  BY <1>3, <1>4

\* Whenever one more thread adds, it is as if it had done so in its turn.
LEMMA OneMoreAdds ==
  ASSUME NEW r \in Reduction, NEW v \in Word, NEW D, NEW f, IsAdded(f, D, r, v),
         NEW t \in Thread, t \notin D
  PROVE  \E g : /\ IsAdded(g, D \union {t}, r, v)
                /\ g[GroupSize] = Apply(r.op, f[GroupSize], Contribution(r, t))
<1> DEFINE c == Contribution(r, t)
<1>1. PICK g : g = [k \in 0 .. GroupSize |-> IF k <= t THEN f[k] ELSE Apply(r.op, f[k], c)]
  OBVIOUS
<1>2. GroupSize \in Nat /\ t \in 0 .. GroupSize - 1 /\ r.op \in AtomicOp /\ c \in Word
  BY GroupSizeAssumption, OpAssumption, ContributionIsWord DEF Thread, Reduction
<1>3. \A k \in 0 .. GroupSize : f[k] \in Word
  BY DEF IsAdded
<1> HIDE DEF c
<1>4. \A k \in 0 .. GroupSize : Apply(r.op, f[k], c) \in Word
  BY <1>2, <1>3, ApplyCommutes
<1>5. g \in [0 .. GroupSize -> Word] /\ g[0] = v
  BY <1>1, <1>2, <1>3, <1>4 DEF IsAdded
<1>6. ASSUME NEW k \in 1 .. GroupSize
      PROVE  g[k] = IF k - 1 \in D \union {t}
                    THEN Apply(r.op, g[k - 1], Contribution(r, k - 1)) ELSE g[k - 1]
  <2>1. k \in 0 .. GroupSize /\ k - 1 \in 0 .. GroupSize /\ k - 1 \in Thread
    BY <1>2 DEF Thread
  <2>2. f[k] = IF k - 1 \in D THEN Apply(r.op, f[k - 1], Contribution(r, k - 1)) ELSE f[k - 1]
    BY DEF IsAdded
  <2>3. /\ g[k] = IF k <= t THEN f[k] ELSE Apply(r.op, f[k], c)
        /\ g[k - 1] = IF k - 1 <= t THEN f[k - 1] ELSE Apply(r.op, f[k - 1], c)
    BY <1>1, <2>1
  <2>4. CASE k <= t
    <3>1. k - 1 <= t /\ k - 1 # t
      BY <1>2, <2>1, <2>4
    <3>2. QED
      BY <2>2, <2>3, <2>4, <3>1
  <2>5. CASE k = t + 1
    <3>1. k - 1 = t /\ k - 1 <= t /\ ~ (k <= t)
      BY <1>2, <2>5
    <3>2. QED
      BY <2>2, <2>3, <3>1 DEF c
  <2>6. CASE k > t + 1
    <3>1. ~ (k <= t) /\ ~ (k - 1 <= t) /\ k - 1 # t
      BY <1>2, <2>1, <2>6
    <3>2. Contribution(r, k - 1) \in Word
      BY <2>1, ContributionIsWord
    <3>3. Apply(r.op, Apply(r.op, f[k - 1], Contribution(r, k - 1)), c)
            = Apply(r.op, Apply(r.op, f[k - 1], c), Contribution(r, k - 1))
      BY <1>2, <1>3, <2>1, <3>2, ApplyCommutes
    <3>4. QED
      BY <2>2, <2>3, <3>1, <3>3
  <2>7. QED
    BY <1>2, <2>1, <2>4, <2>5, <2>6
<1>7. g[GroupSize] = Apply(r.op, f[GroupSize], c)
  BY <1>1, <1>2
<1>8. QED
  BY <1>5, <1>6, <1>7 DEF IsAdded, c

\* When all have added, the value is that of one thread after another.
LEMMA AllAdded ==
  ASSUME NEW r, NEW v, NEW f, IsAdded(f, Thread, r, v)
  PROVE  AfterThreads(r, v) = f[GroupSize]
<1> DEFINE Body(h) == [k \in 0 .. GroupSize |->
                         IF k = 0 THEN v ELSE Apply(r.op, h[k - 1], Contribution(r, k - 1))]
           u == CHOOSE h : h = Body(h)
<1>1. GroupSize \in Nat
  BY GroupSizeAssumption
<1>2. \A k \in 1 .. GroupSize : f[k] = Apply(r.op, f[k - 1], Contribution(r, k - 1))
  <2>1. \A k \in 1 .. GroupSize : k - 1 \in Thread
    BY <1>1 DEF Thread
  <2>2. QED
    BY <2>1 DEF IsAdded
<1>3. f = Body(f)
  <2>1. \A k \in 0 .. GroupSize : k # 0 => k \in 1 .. GroupSize
    BY <1>1
  <2>2. QED
    BY <1>2, <2>1 DEF IsAdded
<1>4. u = Body(u)
  BY <1>3
<1>5. AfterThreads(r, v) = u[GroupSize]
  BY DEF AfterThreads
<1> HIDE DEF u
<1>6. u[0] = v /\ \A k \in 1 .. GroupSize : u[k] = Apply(r.op, u[k - 1], Contribution(r, k - 1))
  <2>1. \A k \in 1 .. GroupSize : k \in 0 .. GroupSize /\ k # 0
    BY <1>1
  <2>2. 0 \in 0 .. GroupSize
    BY <1>1
  <2>3. PICK U : U = u
    OBVIOUS
  <2>4. U = Body(U)
    BY <1>4, <2>3
  <2>5. U[0] = v /\ \A k \in 1 .. GroupSize : U[k] = Apply(r.op, U[k - 1], Contribution(r, k - 1))
    BY <2>1, <2>2, <2>4
  <2>6. QED
    BY <2>3, <2>5
<1>7. \A k \in 0 .. GroupSize : u[k] = f[k]
  <2>1. u[0] = f[0]
    BY <1>6 DEF IsAdded
  <2>2. \A k \in 1 .. GroupSize : u[k - 1] = f[k - 1] => u[k] = f[k]
    BY <1>2, <1>6
  <2>3. QED
    BY <1>1, <2>1, <2>2, RunsAgree
<1>8. QED
  BY <1>1, <1>5, <1>7

\* So it is a word.
LEMMA AfterThreadsIsWord ==
  ASSUME NEW r \in Reduction, NEW v \in Word
  PROVE  AfterThreads(r, v) \in Word
<1>1. PICK step : step = [k \in 1 .. GroupSize |->
                            [w \in Word |-> Apply(r.op, w, Contribution(r, k - 1))]]
  OBVIOUS
<1>2. GroupSize \in Nat /\ r.op \in AtomicOp /\ \A k \in 1 .. GroupSize : k - 1 \in Thread
  BY GroupSizeAssumption, OpAssumption DEF Reduction, Thread
<1>3. \A k \in 1 .. GroupSize : \A w \in Word : Apply(r.op, w, Contribution(r, k - 1)) \in Word
  BY <1>2, ContributionIsWord, ApplyCommutes
<1>4. step \in Stepping(GroupSize, Word)
  BY <1>1, <1>3 DEF Stepping
<1>5. PICK f : IsRun(f, GroupSize, Word, v, step)
  BY <1>2, <1>4, RunExists
<1>6. ASSUME NEW k \in 1 .. GroupSize
      PROVE  f[k] = Apply(r.op, f[k - 1], Contribution(r, k - 1))
  <2>1. k - 1 \in 0 .. GroupSize
    BY <1>2
  <2>2. f[k - 1] \in Word /\ f[k] = step[k][f[k - 1]]
    BY <1>5, <2>1 DEF IsRun
  <2>3. QED
    BY <1>1, <2>2
<1>7. IsAdded(f, Thread, r, v)
  BY <1>2, <1>5, <1>6 DEF IsAdded, IsRun
<1>8. f[GroupSize] \in Word
  BY <1>2, <1>5 DEF IsRun
<1>9. QED
  BY <1>7, <1>8, AllAdded

Program == UNION {[1 .. n -> Reduction] : n \in Nat}
Memory == [location : [MemoryLoc -> Word], sum : Word]
Start == [location |-> [mem \in MemoryLoc |-> 0], sum |-> 0]
After(n, before) ==
  LET r == text[n]
      value == AfterThreads(r, before.location[r.mem])
  IN  [location |-> [before.location EXCEPT ![r.mem] = value],
       sum |-> Wrap(before.sum + value)]

\* What the reductions leave behind, one by one.
LEMMA SequentialIs ==
  ASSUME text \in Program
  PROVE  /\ Len(text) \in Nat /\ DOMAIN text = 1 .. Len(text)
         /\ Sequential[0] = Start
         /\ \A n \in 1 .. Len(text) : Sequential[n] = After(n, Sequential[n - 1])
         /\ \A n \in 0 .. Len(text) : Sequential[n] \in Memory
<1> DEFINE Body(h) == [n \in 0 .. Len(text) |-> IF n = 0 THEN Start ELSE After(n, h[n - 1])]
<1>1. Len(text) \in Nat /\ DOMAIN text = 1 .. Len(text) /\ \A n \in 1 .. Len(text) : text[n] \in Reduction
  <2>1. PICK n \in Nat : text \in [1 .. n -> Reduction]
    BY DEF Program
  <2>2. text \in Seq(Reduction)
    BY <2>1
  <2>3. QED
    BY <2>2
<1>2. ASSUME NEW n \in 1 .. Len(text), NEW m \in Memory
      PROVE  After(n, m) \in Memory
  <2>1. text[n] \in Reduction /\ text[n].mem \in MemoryLoc
    BY <1>1 DEF Reduction
  <2>2. m.location \in [MemoryLoc -> Word] /\ m.sum \in Word /\ m.location[text[n].mem] \in Word
    BY <2>1 DEF Memory
  <2>3. PICK value \in Word : value = AfterThreads(text[n], m.location[text[n].mem])
    BY <2>1, <2>2, AfterThreadsIsWord
  <2>4. Wrap(m.sum + value) \in Word
    <3>1. Word \subseteq Nat
      BY Modulus DEF Word
    <3>2. m.sum \in Nat /\ value \in Nat
      BY <2>2, <2>3, <3>1
    <3>3. m.sum + value \in Nat
      BY <3>2
    <3>4. QED
      BY <3>3, Modulus
  <2>5. [m.location EXCEPT ![text[n].mem] = value] \in [MemoryLoc -> Word]
    BY <2>2, <2>3
  <2>6. QED
    BY <2>3, <2>4, <2>5 DEF Memory, After
<1>3. Start \in Memory
  <2>1. 0 \in Word
    BY Modulus DEF Word
  <2>2. QED
    BY <2>1 DEF Start, Memory
<1>4. PICK step : step = [n \in 1 .. Len(text) |-> [m \in Memory |-> After(n, m)]]
  OBVIOUS
<1>5. step \in Stepping(Len(text), Memory)
  BY <1>2, <1>4 DEF Stepping
<1>6. PICK f : IsRun(f, Len(text), Memory, Start, step)
  BY <1>1, <1>3, <1>5, RunExists
<1>7. ASSUME NEW n \in 1 .. Len(text)
      PROVE  f[n] = After(n, f[n - 1])
  <2>1. n - 1 \in 0 .. Len(text)
    BY <1>1
  <2>2. f[n - 1] \in Memory /\ f[n] = step[n][f[n - 1]]
    BY <1>6, <2>1 DEF IsRun
  <2>3. QED
    BY <1>4, <2>2
<1>8. f = Body(f)
  <2>1. \A n \in 0 .. Len(text) : n # 0 => n \in 1 .. Len(text)
    BY <1>1
  <2> HIDE DEF Start, After
  <2>2. QED
    BY <1>6, <1>7, <2>1 DEF IsRun
<1>9. Sequential = Body(Sequential)
  BY <1>8 DEF Sequential, Start, After
<1>10. Sequential[0] = Start /\ \A n \in 1 .. Len(text) : Sequential[n] = After(n, Sequential[n - 1])
  BY <1>1, <1>9
<1>11. \A n \in 0 .. Len(text) : Sequential[n] = f[n]
  <2>1. Sequential[0] = f[0]
    BY <1>6, <1>10 DEF IsRun
  <2>2. \A n \in 1 .. Len(text) : Sequential[n - 1] = f[n - 1] => Sequential[n] = f[n]
    BY <1>7, <1>10
  <2>3. PICK s : s = Sequential
    OBVIOUS
  <2>4. s[0] = f[0] /\ \A n \in 1 .. Len(text) : s[n - 1] = f[n - 1] => s[n] = f[n]
    BY <2>1, <2>2, <2>3
  <2>5. PICK N \in Nat : N = Len(text)
    BY <1>1
  <2>6. s[0] = f[0] /\ \A n \in 1 .. N : s[n - 1] = f[n - 1] => s[n] = f[n]
    BY <2>4, <2>5
  <2>7. \A n \in 0 .. N : s[n] = f[n]
    BY <2>6, RunsAgree
  <2>8. QED
    BY <2>3, <2>5, <2>7
<1>12. QED
  BY <1>1, <1>6, <1>10, <1>11 DEF IsRun

-----------------------------------------------------------------------------
(* What has been computed in each phase of the k-th reduction.             *)

Collected(s) == collective = [t \in Thread |-> IF t = 0 THEN s ELSE 0]

StartInv ==
  /\ location["global"] = 0
  /\ at[0] = "entry" => location["local"] = 0
  /\ Collected(0)

\* The threads behind their atomic operation have added their contributions.
Added == {t \in Thread : at[t] = "first"}
AddInv(k) ==
  /\ k \in 1 .. Len(text) + 1
  /\ Collected(Sequential[k - 1].sum)
  /\ k = Len(text) + 1 => Added = {}
  /\ k # Len(text) + 1 =>
       LET r == text[k]
           before == Sequential[k - 1].location
       IN  /\ \A mem \in MemoryLoc : mem # r.mem => location[mem] = before[mem]
           /\ \E f : IsAdded(f, Added, r, before[r.mem]) /\ location[r.mem] = f[GroupSize]

CollectInv(k) ==
  /\ k \in 1 .. Len(text)
  /\ location = Sequential[k].location
  /\ Collected(IF at[0] = "second" THEN Sequential[k].sum ELSE Sequential[k - 1].sum)

PhaseInv(k) ==
  /\ Starting => k = 0 /\ StartInv
  /\ Adding => AddInv(k)
  /\ Collecting => CollectInv(k)

ResultInv ==
  /\ text \in Program
  /\ location \in [MemoryLoc -> Word]
  /\ \E k \in Nat : (\A t \in Thread : pc[t] = k) /\ PhaseInv(k)

\* The group has a thread 0.
LEMMA ThreadZero == 0 \in Thread
  BY GroupSizeAssumption DEF Thread

\* Nothing has been computed in the beginning.
LEMMA ResultInit == Init => ResultInv
<1> SUFFICES ASSUME Init
             PROVE  ResultInv
  OBVIOUS
<1>1. text \in Program
  BY LengthAssumption DEF Init, Program
<1>2. location \in [MemoryLoc -> Word] /\ location["global"] = 0
  BY DEF Init
<1>3. \A t \in Thread : pc[t] = 0 /\ at[t] = "init"
  BY DEF Init
<1>4. collective = [t \in Thread |-> IF t = 0 THEN 0 ELSE 0]
  BY DEF Init
<1>5. PhaseInv(0)
  BY <1>2, <1>3, <1>4, ThreadZero DEF PhaseInv, Starting, Adding, Collecting, StartInv, Collected
<1>6. QED
  BY <1>1, <1>2, <1>3, <1>5 DEF ResultInv

\* Thread 0 initialises the local location.
LEMMA InitBufferKeeps ==
  ASSUME Lockstep, ResultInv, NEW t \in Thread, InitBuffer(t)
  PROVE  ResultInv'
<1>1. PICK k \in Nat : (\A u \in Thread : pc[u] = k) /\ PhaseInv(k)
  BY DEF ResultInv
<1>2. /\ at[t] = "init" /\ at' = [at EXCEPT ![t] = "entry"]
      /\ location' = IF t = 0 THEN [location EXCEPT !["local"] = 0] ELSE location
      /\ text' = text /\ pc' = pc /\ collective' = collective
  BY DEF InitBuffer, Goto
<1>3. Starting /\ at \in [Thread -> Place] /\ location \in [MemoryLoc -> Word]
  BY <1>2 DEF Lockstep, InOnePhase, Adding, Collecting, Placed, ResultInv
<1>4. k = 0 /\ StartInv
  BY <1>1, <1>3 DEF PhaseInv
<1>5. 0 \in Word
  BY Modulus DEF Word
<1>6. location' \in [MemoryLoc -> Word]
  BY <1>2, <1>3, <1>5
<1>7. StartInv'
  <2>1. location'["global"] = 0
    BY <1>2, <1>3, <1>4 DEF StartInv, MemoryLoc
  <2>2. at'[0] = "entry" => location'["local"] = 0
    BY <1>2, <1>3, <1>4, ThreadZero DEF StartInv, MemoryLoc
  <2>3. QED
    BY <1>2, <1>4, <2>1, <2>2 DEF StartInv, Collected
<1>8. at'[t] = "entry"
  BY <1>2, <1>3
<1>9. PhaseInv(k)'
  BY <1>4, <1>7, <1>8 DEF PhaseInv, Adding, Collecting
<1>10. QED
  BY <1>1, <1>2, <1>6, <1>9 DEF ResultInv

\* A thread adds its contribution.
LEMMA AtomicKeeps ==
  ASSUME Lockstep, ResultInv, NEW t \in Thread, Atomic(t)
  PROVE  ResultInv'
<1>1. PICK k \in Nat : (\A u \in Thread : pc[u] = k) /\ PhaseInv(k)
  BY DEF ResultInv
<1> DEFINE r == text[k]
           c == Contribution(r, t)
<1>2. /\ at[t] = "atomic" /\ k \in DOMAIN text /\ at' = [at EXCEPT ![t] = "first"]
      /\ location' = [location EXCEPT ![r.mem] = Apply(r.op, @, c)]
      /\ text' = text /\ pc' = pc /\ collective' = collective
  BY <1>1 DEF Atomic, Goto, AtReduction, Current
<1>3. Adding /\ at \in [Thread -> Place] /\ location \in [MemoryLoc -> Word] /\ text \in Program
  BY <1>2 DEF Lockstep, InOnePhase, Starting, Collecting, Placed, ResultInv
<1>4. AddInv(k)
  BY <1>1, <1>3 DEF PhaseInv
<1>5. /\ Len(text) \in Nat /\ k \in 1 .. Len(text) /\ k # Len(text) + 1 /\ k - 1 \in 0 .. Len(text)
      /\ Sequential[k - 1] \in Memory
  <2>1. Len(text) \in Nat /\ k \in 1 .. Len(text)
    BY <1>2, <1>3, SequentialIs
  <2>2. k # Len(text) + 1 /\ k - 1 \in 0 .. Len(text)
    BY <2>1
  <2>3. QED
    BY <1>3, <2>1, <2>2, SequentialIs
<1>6. r \in Reduction /\ r.mem \in MemoryLoc /\ r.op \in AtomicOp /\ c \in Word
  <2>1. r \in Reduction
    BY <1>2, <1>3 DEF Program
  <2>2. QED
    BY <2>1, OpAssumption, ContributionIsWord DEF Reduction
<1> DEFINE before == Sequential[k - 1].location
<1>7. before[r.mem] \in Word
  BY <1>5, <1>6 DEF Memory
<1>8. PICK f : IsAdded(f, Added, r, before[r.mem]) /\ location[r.mem] = f[GroupSize]
  BY <1>4, <1>5 DEF AddInv
<1>9. t \notin Added /\ Added' = Added \union {t}
  BY <1>2, <1>3 DEF Added
<1>10. PICK g : /\ IsAdded(g, Added \union {t}, r, before[r.mem])
                /\ g[GroupSize] = Apply(r.op, f[GroupSize], c)
  <2>1. PICK v, R, D : v = before[r.mem] /\ R = r /\ D = Added
    OBVIOUS
  <2>2. R \in Reduction /\ v \in Word /\ IsAdded(f, D, R, v) /\ t \notin D
    BY <1>6, <1>7, <1>8, <1>9, <2>1
  <2>3. \E g : /\ IsAdded(g, D \union {t}, R, v)
               /\ g[GroupSize] = Apply(R.op, f[GroupSize], Contribution(R, t))
    BY <2>2, OneMoreAdds
  <2>4. QED
    BY <2>1, <2>3
<1> HIDE DEF c
<1>11. /\ location'[r.mem] = Apply(r.op, location[r.mem], c)
       /\ \A mem \in MemoryLoc : mem # r.mem => location'[mem] = location[mem]
  BY <1>2, <1>3, <1>6
<1>12. location' \in [MemoryLoc -> Word]
  <2>1. Apply(r.op, location[r.mem], c) \in Word
    BY <1>3, <1>6, ApplyCommutes
  <2>2. QED
    BY <1>2, <1>3, <2>1
<1>13. Sequential' = Sequential
  BY <1>2 DEF Sequential
<1>14. AddInv(k)'
  <2>1. Collected(Sequential[k - 1].sum)'
    BY <1>2, <1>4, <1>13 DEF AddInv, Collected
  <2>2. /\ \A mem \in MemoryLoc : mem # r.mem => location'[mem] = before[mem]
        /\ \E h : IsAdded(h, Added', r, before[r.mem]) /\ location'[r.mem] = h[GroupSize]
    <3>1. \A mem \in MemoryLoc : mem # r.mem => location[mem] = before[mem]
      BY <1>4, <1>5 DEF AddInv
    <3>2. QED
      BY <1>8, <1>9, <1>10, <1>11, <3>1
  <2>3. k \in 1 .. Len(text') + 1 /\ k # Len(text') + 1
    BY <1>2, <1>5
  <2>4. text'[k] = r /\ Sequential'[k - 1].location = before
    BY <1>2, <1>13
  <2> HIDE DEF r, before
  <2>5. QED
    BY <2>1, <2>2, <2>3, <2>4 DEF AddInv, IsAdded
<1>15. at'[t] = "first"
  BY <1>2, <1>3
<1>16. PhaseInv(k)'
  BY <1>14, <1>15 DEF PhaseInv, Starting, Collecting
<1>17. QED
  BY <1>1, <1>2, <1>3, <1>12, <1>16 DEF ResultInv

\* Thread 0 collects what all have added.
LEMMA CollectKeeps ==
  ASSUME Lockstep, ResultInv, NEW t \in Thread, Collect(t)
  PROVE  ResultInv'
<1>1. PICK k \in Nat : (\A u \in Thread : pc[u] = k) /\ PhaseInv(k)
  BY DEF ResultInv
<1> DEFINE r == text[k]
<1>2. /\ at[t] = "collect" /\ k \in DOMAIN text /\ at' = [at EXCEPT ![t] = "second"]
      /\ collective' = IF t # 0 THEN collective
                       ELSE [collective EXCEPT ![t] = Wrap(@ + location[r.mem])]
      /\ text' = text /\ pc' = pc /\ location' = location
  BY <1>1 DEF Collect, Goto, AtReduction, Current
<1>3. Collecting /\ at \in [Thread -> Place] /\ location \in [MemoryLoc -> Word] /\ text \in Program
  BY <1>2 DEF Lockstep, InOnePhase, Starting, Adding, Placed, ResultInv
<1>4. CollectInv(k)
  BY <1>1, <1>3 DEF PhaseInv
<1>5. /\ k \in 1 .. Len(text) /\ k - 1 \in 0 .. Len(text)
      /\ Sequential[k - 1] \in Memory /\ Sequential[k] = After(k, Sequential[k - 1])
  <2>1. Len(text) \in Nat /\ k \in 1 .. Len(text)
    BY <1>2, <1>3, SequentialIs
  <2>2. k - 1 \in 0 .. Len(text)
    BY <2>1
  <2>3. QED
    BY <1>3, <2>1, <2>2, SequentialIs
<1>6. r.mem \in MemoryLoc
  <2>1. r \in Reduction
    BY <1>2, <1>3 DEF Program
  <2>2. QED
    BY <2>1 DEF Reduction
<1>7. Sequential[k].sum = Wrap(Sequential[k - 1].sum + location[r.mem])
  <2>1. PICK m \in Memory : m = Sequential[k - 1]
    BY <1>5
  <2>2. PICK value : value = AfterThreads(r, m.location[r.mem])
    OBVIOUS
  <2>3. /\ After(k, m).sum = Wrap(m.sum + value)
        /\ After(k, m).location = [m.location EXCEPT ![r.mem] = value]
    BY <2>2 DEF After
  <2>4. location[r.mem] = value
    <3>1. location = [m.location EXCEPT ![r.mem] = value]
      BY <1>4, <1>5, <2>1, <2>3 DEF CollectInv
    <3>2. m.location \in [MemoryLoc -> Word]
      BY DEF Memory
    <3>3. QED
      BY <1>6, <3>1, <3>2
  <2>5. QED
    BY <1>5, <2>1, <2>3, <2>4
<1>8. Sequential' = Sequential
  BY <1>2 DEF Sequential
<1>9. Collected(IF at[0] = "second" THEN Sequential[k].sum ELSE Sequential[k - 1].sum)'
  <2>1. collective = [u \in Thread |-> IF u = 0 THEN (IF at[0] = "second" THEN Sequential[k].sum
                                                      ELSE Sequential[k - 1].sum) ELSE 0]
    BY <1>4 DEF CollectInv, Collected
  <2>2. CASE t = 0
    <3>1. at[0] = "collect" /\ at'[0] = "second"
      BY <1>2, <1>3, <2>2
    <3>2. collective[0] = Sequential[k - 1].sum
      BY <2>1, <3>1, ThreadZero
    <3>3. collective' = [collective EXCEPT ![0] = Sequential[k].sum]
      BY <1>2, <1>7, <2>2, <3>2
    <3>4. collective' = [u \in Thread |-> IF u = 0 THEN Sequential[k].sum ELSE 0]
      BY <2>1, <3>3
    <3>5. QED
      BY <1>8, <3>1, <3>4 DEF Collected
  <2>3. CASE t # 0
    <3>1. at'[0] = at[0] /\ collective' = collective
      BY <1>2, <1>3, <2>3, ThreadZero
    <3>2. QED
      BY <1>8, <2>1, <3>1 DEF Collected
  <2>4. QED
    BY <2>2, <2>3
<1>10. CollectInv(k)'
  BY <1>2, <1>4, <1>8, <1>9 DEF CollectInv
<1>11. at'[t] = "second"
  BY <1>2, <1>3
<1>12. PhaseInv(k)'
  BY <1>10, <1>11 DEF PhaseInv, Starting, Adding
<1>13. QED
  BY <1>1, <1>2, <1>3, <1>12 DEF ResultInv

\* A barrier takes all threads to the next phase.
LEMMA SyncKeeps ==
  ASSUME Lockstep, ResultInv, Sync
  PROVE  ResultInv'
<1>1. PICK k \in Nat : (\A t \in Thread : pc[t] = k) /\ PhaseInv(k)
  BY DEF ResultInv
<1>2. /\ \A t \in Thread : Waiting(t)
      /\ at' = [t \in Thread |-> IF at[t] = "first" THEN "collect" ELSE "atomic"]
      /\ pc' = [t \in Thread |-> IF at[t] = "first" THEN pc[t] ELSE pc[t] + 1]
      /\ text' = text /\ location' = location /\ collective' = collective
  BY DEF Sync
<1>3. /\ Len(text) \in Nat /\ DOMAIN text = 1 .. Len(text)
      /\ Sequential[0] = Start
      /\ \A n \in 1 .. Len(text) : Sequential[n] = After(n, Sequential[n - 1])
      /\ \A n \in 0 .. Len(text) : Sequential[n] \in Memory
      /\ location \in [MemoryLoc -> Word] /\ text \in Program
  BY SequentialIs DEF ResultInv
<1>4. Sequential' = Sequential
  BY <1>2 DEF Sequential
<1>5. ASSUME NEW n \in 1 .. Len(text) + 1, \A t \in Thread : pc'[t] = n /\ at'[t] = "atomic",
             location = Sequential[n - 1].location, Collected(Sequential[n - 1].sum)
      PROVE  ResultInv'
  <2>1. Added' = {}
    BY <1>5 DEF Added
  <2>2. Collected(Sequential[n - 1].sum)'
    BY <1>2, <1>4, <1>5 DEF Collected
  <2>3. ASSUME n # Len(text) + 1
        PROVE  LET r == text[n]
                   before == Sequential[n - 1].location
               IN  /\ \A mem \in MemoryLoc : mem # r.mem => location[mem] = before[mem]
                   /\ \E f : IsAdded(f, {}, r, before[r.mem]) /\ location[r.mem] = f[GroupSize]
    <3>1. n \in 1 .. Len(text)
      BY <1>3, <2>3
    <3>2. PICK r : r = text[n]
      OBVIOUS
    <3>3. r \in Reduction
      BY <1>3, <3>1, <3>2 DEF Program
    <3>4. r.mem \in MemoryLoc
      BY <3>3 DEF Reduction
    <3>5. location[r.mem] \in Word
      BY <1>3, <3>4
    <3>6. \E f : IsAdded(f, {}, r, location[r.mem]) /\ location[r.mem] = f[GroupSize]
      BY <3>5, NobodyAdded
    <3>7. QED
      BY <1>5, <3>2, <3>6
  <2>4. AddInv(n)'
    <3>1. text' = text /\ location' = location /\ Sequential' = Sequential
      BY <1>2, <1>4
    <3>2. n \in 1 .. Len(text') + 1
      BY <1>2
    <3>3. QED
      BY <2>1, <2>2, <2>3, <3>1, <3>2 DEF AddInv, IsAdded
  <2>5. PhaseInv(n)'
    BY <1>5, <2>4, ThreadZero DEF PhaseInv, Starting, Collecting
  <2>6. n \in Nat
    BY <1>3
  <2>7. QED
    BY <1>2, <1>3, <1>5, <2>5, <2>6 DEF ResultInv
<1>6. CASE Starting
  <2>1. k = 0 /\ StartInv
    BY <1>1, <1>6 DEF PhaseInv
  <2>2. \A t \in Thread : at[t] = "entry"
    BY <1>2, <1>6 DEF Starting, Waiting
  <2>3. location["local"] = 0 /\ location["global"] = 0
    BY <2>1, <2>2, ThreadZero DEF StartInv
  <2>4. location = Sequential[1 - 1].location
    BY <1>3, <2>3 DEF Start, MemoryLoc
  <2>5. Collected(Sequential[1 - 1].sum)
    BY <1>3, <2>1 DEF StartInv, Start
  <2>6. \A t \in Thread : pc'[t] = 1 /\ at'[t] = "atomic"
    BY <1>1, <1>2, <2>1, <2>2
  <2>7. 1 \in 1 .. Len(text) + 1
    BY <1>3
  <2>8. QED
    BY <1>5, <2>4, <2>5, <2>6, <2>7
<1>7. CASE Adding
  <2>1. AddInv(k)
    BY <1>1, <1>7 DEF PhaseInv
  <2>2. \A t \in Thread : at[t] = "first"
    BY <1>2, <1>7 DEF Adding, Waiting
  <2>3. Added = Thread
    BY <2>2 DEF Added
  <2>4. k \in 1 .. Len(text) /\ k # Len(text) + 1 /\ k - 1 \in 0 .. Len(text)
    <3>1. k \in 1 .. Len(text) + 1 /\ k # Len(text) + 1
      BY <2>1, <2>3, ThreadZero DEF AddInv
    <3>2. QED
      BY <1>3, <3>1
  <2>5. PICK r, m, v : r = text[k] /\ m = Sequential[k - 1] /\ v = m.location[r.mem]
    OBVIOUS
  <2>6. /\ \A mem \in MemoryLoc : mem # r.mem => location[mem] = m.location[mem]
        /\ \E f : IsAdded(f, Thread, r, v) /\ location[r.mem] = f[GroupSize]
    BY <2>1, <2>3, <2>4, <2>5 DEF AddInv
  <2>7. location[r.mem] = AfterThreads(r, v)
    BY <2>6, AllAdded
  <2>8. r.mem \in MemoryLoc /\ m \in Memory
    <3>1. r \in Reduction
      BY <1>3, <2>4, <2>5 DEF Program
    <3>2. QED
      BY <1>3, <2>4, <2>5, <3>1 DEF Reduction
  <2>9. location = [m.location EXCEPT ![r.mem] = AfterThreads(r, v)]
    BY <1>3, <2>6, <2>7, <2>8 DEF Memory
  <2>10. Sequential[k].location = location
    <3>1. Sequential[k] = After(k, m)
      BY <1>3, <2>4, <2>5
    <3>2. After(k, m).location = [m.location EXCEPT ![r.mem] = AfterThreads(r, v)]
      BY <2>5 DEF After
    <3>3. QED
      BY <2>9, <3>1, <3>2
  <2>11. at'[0] = "collect" /\ \A t \in Thread : at'[t] = "collect" /\ pc'[t] = k
    BY <1>1, <1>2, <2>2, ThreadZero
  <2>12. Collected(Sequential[k - 1].sum)
    BY <2>1 DEF AddInv
  <2>13. CollectInv(k)'
    BY <1>2, <1>4, <2>4, <2>10, <2>11, <2>12 DEF CollectInv, Collected
  <2>14. PhaseInv(k)'
    BY <2>11, <2>13, ThreadZero DEF PhaseInv, Starting, Adding
  <2>15. QED
    BY <1>2, <1>3, <2>11, <2>14 DEF ResultInv
<1>8. CASE Collecting
  <2>1. CollectInv(k)
    BY <1>1, <1>8 DEF PhaseInv
  <2>2. \A t \in Thread : at[t] = "second"
    BY <1>2, <1>8 DEF Collecting, Waiting
  <2>3. k \in 1 .. Len(text) /\ k + 1 \in 1 .. Len(text) + 1 /\ (k + 1) - 1 = k
    BY <1>3, <2>1 DEF CollectInv
  <2>4. location = Sequential[(k + 1) - 1].location /\ Collected(Sequential[(k + 1) - 1].sum)
    BY <2>1, <2>2, <2>3, ThreadZero DEF CollectInv
  <2>5. \A t \in Thread : pc'[t] = k + 1 /\ at'[t] = "atomic"
    BY <1>1, <1>2, <2>2
  <2>6. QED
    BY <1>5, <2>3, <2>4, <2>5
<1>9. QED
  BY <1>6, <1>7, <1>8 DEF Lockstep, InOnePhase

\* So whatever happens, what has been computed is what a sequential run computes.
LEMMA ResultStep == Lockstep /\ ResultInv /\ [Next]_vars => ResultInv'
<1>1. CASE UNCHANGED vars
  <2> SUFFICES ASSUME ResultInv, UNCHANGED vars
               PROVE  ResultInv'
    BY <1>1
  <2>1. text' = text /\ location' = location /\ pc' = pc /\ at' = at /\ collective' = collective
    BY DEF vars
  <2>2. Sequential' = Sequential
    BY <2>1 DEF Sequential
  <2>3. ASSUME NEW k
        PROVE  PhaseInv(k)' <=> PhaseInv(k)
    <3>1. (Starting' <=> Starting) /\ (Adding' <=> Adding) /\ (Collecting' <=> Collecting)
      BY <2>1 DEF Starting, Adding, Collecting
    <3>2. StartInv' <=> StartInv
      BY <2>1 DEF StartInv, Collected
    <3>3. AddInv(k)' <=> AddInv(k)
      BY <2>1, <2>2 DEF AddInv, Added, Collected, IsAdded
    <3>4. CollectInv(k)' <=> CollectInv(k)
      BY <2>1, <2>2 DEF CollectInv, Collected
    <3>5. QED
      BY <3>1, <3>2, <3>3, <3>4 DEF PhaseInv
  <2>4. QED
    BY <2>1, <2>3 DEF ResultInv
<1>2. QED
  BY <1>1, InitBufferKeeps, AtomicKeeps, CollectKeeps, SyncKeeps DEF Next, Step, Terminated

\* Under every schedule thread 0 collects what a sequential run would, and the
\* others nothing, whatever the size of the group, the width of a word, the
\* program and the operations.
THEOREM ReductionsAreDeterministic == Spec => []Determinism
<1>1. Lockstep /\ ResultInv => Determinism
  <2> SUFFICES ASSUME Lockstep, ResultInv, AllDone
               PROVE  \A t \in Thread :
                        collective[t] = IF t = 0 THEN Sequential[Len(text)].sum ELSE 0
    BY DEF Determinism
  <2>1. PICK k \in Nat : (\A t \in Thread : pc[t] = k) /\ PhaseInv(k)
    BY DEF ResultInv
  <2>2. \A t \in Thread : at[t] = "atomic" /\ pc[t] = Len(text) + 1
    BY DEF AllDone, AtEnd
  <2>3. k = Len(text) + 1 /\ Adding
    BY <2>1, <2>2, ThreadZero DEF Adding
  <2>4. Len(text) \in Nat
    BY SequentialIs DEF ResultInv
  <2>5. Collected(Sequential[k - 1].sum) /\ k - 1 = Len(text)
    BY <2>1, <2>3, <2>4 DEF PhaseInv, AddInv
  <2>6. QED
    BY <2>5 DEF Collected
<1>2. QED
  BY <1>1, LockstepInit, LockstepStep, ResultInit, ResultStep, PTL DEF Spec

=============================================================================
