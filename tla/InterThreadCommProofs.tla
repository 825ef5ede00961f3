------------------------ MODULE InterThreadCommProofs ------------------------
(***************************************************************************)
(* Theorems about communication statements, for every size of a group,     *)
(* table of permutations and program.                                      *)
(***************************************************************************)
EXTENDS InterThreadComm, FiniteSetTheorems, FunctionTheorems, WellFoundedInduction,
        TLAPS

-----------------------------------------------------------------------------
(* What a lone thread computes.                                            *)

\* A non-empty set of naturals has a least element.
LEMMA LeastNumber ==
  ASSUME NEW S \in SUBSET Nat, S # {}
  PROVE  \E m \in S : \A k \in S : m <= k
<1> DEFINE R == OpToRel(<, Nat)
<1>1. IsWellFoundedOn(R, Nat)
  BY NatLessThanWellFounded
<1> HIDE DEF R
<1>2. PICK m \in S : \A k \in S : ~ (<<k, m>> \in R)
  BY <1>1, WFMin, Zenon
<1>3. \A k \in S : ~ (k < m)
  <2>1. \A k, l \in Nat : k < l => <<k, l>> \in R
    BY SMT DEF R, OpToRel
  <2>2. QED
    BY <1>2, <2>1
<1>4. QED
  BY <1>3, SMT

\* A run of N steps from a first state.
Stepping(N, S) == [1 .. N -> [S -> S]]
IsRun(f, N, S, first, step) ==
  /\ f \in [0 .. N -> S]
  /\ f[0] = first
  /\ \A n \in 1 .. N : f[n] = step[n][f[n - 1]]

\* From any first state, the steps lead through some states.
LEMMA RunExists ==
  ASSUME NEW N \in Nat, NEW S, NEW first \in S, NEW step \in Stepping(N, S)
  PROVE  \E f : IsRun(f, N, S, first, step)
<1> USE DEF Stepping
<1> DEFINE Upto(m, f) == f[0] = first /\ \A n \in 1 .. m : f[n] = step[n][f[n - 1]]
           Stuck == {m \in 0 .. N : ~ \E f \in [0 .. m -> S] : Upto(m, f)}
<1>1. Stuck = {}
  <2> SUFFICES ASSUME Stuck # {}
               PROVE  FALSE
    OBVIOUS
  <2>1. Stuck \in SUBSET Nat
    OBVIOUS
  <2>2. PICK m \in Stuck : \A k \in Stuck : m <= k
    <3> HIDE DEF Stuck
    <3> QED
      BY <2>1, LeastNumber
  <2>3. m \in 0 .. N /\ ~ \E f \in [0 .. m -> S] : Upto(m, f)
    BY <2>2
  <2>4. CASE m = 0
    <3>1. [n \in 0 .. 0 |-> first] \in [0 .. m -> S]
      BY <2>4
    <3>2. Upto(m, [n \in 0 .. 0 |-> first])
      BY <2>4
    <3>3. QED
      BY <2>3, <3>1, <3>2
  <2>5. CASE m # 0
    <3>1. m - 1 \in 0 .. N /\ m - 1 \notin Stuck /\ m \in 1 .. N
      <4>1. m \in Nat /\ m <= N /\ m - 1 \in Nat /\ ~ (m <= m - 1)
        BY <2>3, <2>5
      <4>2. m - 1 \notin Stuck
        BY <2>2, <4>1, Zenon
      <4>3. m - 1 \in 0 .. N /\ m \in 1 .. N
        BY <2>5, <4>1
      <4>4. QED
        BY <4>2, <4>3
    <3>2. PICK f \in [0 .. m - 1 -> S] : Upto(m - 1, f)
      BY <3>1
    <3>3. PICK g : g = [n \in 0 .. m |-> IF n = m THEN step[m][f[m - 1]] ELSE f[n]]
      OBVIOUS
    <3>4. f[m - 1] \in S
      BY <3>1, <3>2
    <3>5. step[m][f[m - 1]] \in S
      BY <3>1, <3>4
    <3>6. g \in [0 .. m -> S]
      <4> SUFFICES ASSUME NEW n \in 0 .. m, n # m
                   PROVE  f[n] \in S
        BY <3>3, <3>5
      <4>1. n \in 0 .. m - 1
        BY <3>1
      <4>2. QED
        BY <4>1, <3>2
    <3>7. \A n \in 0 .. m - 1 : g[n] = f[n]
      BY <3>1, <3>3
    <3>8. g[m] = step[m][f[m - 1]] /\ g[m - 1] = f[m - 1]
      BY <3>1, <3>3, <3>7
    <3>9. Upto(m, g)
      <4>1. g[0] = first
        BY <3>1, <3>2, <3>7
      <4>2. ASSUME NEW n \in 1 .. m
            PROVE  g[n] = step[n][g[n - 1]]
        <5>1. CASE n = m
          BY <5>1, <3>8
        <5>2. CASE n # m
          <6>1. n \in 1 .. m - 1 /\ n \in 0 .. m - 1 /\ n - 1 \in 0 .. m - 1
            BY <3>1, <5>2
          <6>2. f[n] = step[n][f[n - 1]]
            BY <3>2, <6>1
          <6>3. QED
            BY <3>7, <6>1, <6>2
        <5>3. QED
          BY <5>1, <5>2
      <4>3. QED
        BY <4>1, <4>2
    <3>10. QED
      BY <2>3, <3>6, <3>9
  <2>6. QED
    BY <2>4, <2>5
<1>2. N \in 0 .. N
  OBVIOUS
<1>3. QED
  BY <1>1, <1>2, SMTT(30) DEF IsRun

State == [x : Nat, element : Nat]

\* The recursive definition of Alone has a solution, so that it is one.
LEMMA AloneIsDefined ==
  ASSUME text \in Seq(Statement)
  PROVE  Alone = [n \in 0 .. Len(text) |->
           IF n = 0 THEN [x |-> 0, element |-> 1]
           ELSE LET before == Alone[n - 1]
                IN  CASE text[n].op = "write" -> [before EXCEPT !.element = text[n].arg]
                      [] text[n].op = "read"  -> [before EXCEPT !.x = before.element]
                      [] text[n].op = "comm"  -> before]
<1> DEFINE After(n, before) ==
      CASE text[n].op = "write" -> [before EXCEPT !.element = text[n].arg]
        [] text[n].op = "read"  -> [before EXCEPT !.x = before.element]
        [] text[n].op = "comm"  -> before
<1> DEFINE Body(f) == [n \in 0 .. Len(text) |->
             IF n = 0 THEN [x |-> 0, element |-> 1] ELSE After(n, f[n - 1])]
<1>1. Len(text) \in Nat
  OBVIOUS
<1>2. ASSUME NEW n \in 1 .. Len(text), NEW before \in State
      PROVE  After(n, before) \in State
  <2>1. text[n] \in Statement
    OBVIOUS
  <2>2. \/ text[n].op = "write" /\ text[n].arg \in Nat
        \/ text[n].op = "read" \/ text[n].op = "comm"
    BY <2>1, ValueAssumption DEF Statement
  <2>3. QED
    BY <2>2 DEF State
<1> HIDE DEF After
<1>3. PICK step : step = [n \in 1 .. Len(text) |-> [before \in State |-> After(n, before)]]
  OBVIOUS
<1>4. step \in Stepping(Len(text), State)
  BY <1>2, <1>3 DEF Stepping
<1>5. [x |-> 0, element |-> 1] \in State
  BY DEF State
<1>6. PICK f : IsRun(f, Len(text), State, [x |-> 0, element |-> 1], step)
  BY <1>1, <1>4, <1>5, RunExists
<1>7. f = Body(f)
  <2> USE DEF IsRun
  <2>1. ASSUME NEW n \in 1 .. Len(text)
        PROVE  f[n] = After(n, f[n - 1])
    <3>1. n - 1 \in 0 .. Len(text)
      BY <1>1
    <3>2. f[n - 1] \in State
      BY <3>1, <1>6
    <3>3. QED
      BY <1>3, <1>6, <3>2
  <2>2. QED
    BY <1>1, <1>6, <2>1
<1>8. QED
  BY <1>7 DEF Alone, After

\* Its values, and what a statement makes of them.
LEMMA AloneSteps ==
  ASSUME text \in Seq(Statement)
  PROVE  /\ \A n \in 0 .. Len(text) : Alone[n] \in State
         /\ Alone[0] = [x |-> 0, element |-> 1]
         /\ \A n \in 1 .. Len(text) :
              Alone[n] = CASE text[n].op = "write" -> [Alone[n - 1] EXCEPT !.element = text[n].arg]
                           [] text[n].op = "read"  -> [Alone[n - 1] EXCEPT !.x = Alone[n - 1].element]
                           [] text[n].op = "comm"  -> Alone[n - 1]
<1>1. Len(text) \in Nat
  OBVIOUS
<1>2. Alone[0] = [x |-> 0, element |-> 1]
  <2>1. 0 \in 0 .. Len(text)
    BY <1>1
  <2>2. QED
    BY <2>1, AloneIsDefined
<1>3. ASSUME NEW n \in 1 .. Len(text)
      PROVE  Alone[n] = CASE text[n].op = "write" -> [Alone[n - 1] EXCEPT !.element = text[n].arg]
                           [] text[n].op = "read"  -> [Alone[n - 1] EXCEPT !.x = Alone[n - 1].element]
                           [] text[n].op = "comm"  -> Alone[n - 1]
  <2>1. n \in 0 .. Len(text) /\ n # 0
    BY <1>1
  <2>2. QED
    BY <2>1, AloneIsDefined
<1> DEFINE Bad == {n \in 0 .. Len(text) : Alone[n] \notin State}
<1>4. Bad = {}
  <2> SUFFICES ASSUME Bad # {}
               PROVE  FALSE
    OBVIOUS
  <2>1. PICK n \in Bad : \A k \in Bad : n <= k
    <3>1. Bad \in SUBSET Nat
      BY <1>1
    <3> HIDE DEF Bad
    <3>2. QED
      BY <3>1, LeastNumber
  <2>2. n \in 1 .. Len(text) /\ n - 1 \in 0 .. Len(text) /\ ~ (n <= n - 1)
    BY <1>1, <1>2, <2>1 DEF State
  <2>3. n - 1 \notin Bad
    BY <2>1, <2>2, Zenon
  <2>4. Alone[n - 1] \in State
    BY <2>2, <2>3
  <2>5. Alone[n] \notin State
    BY <2>1
  <2>6. text[n] \in Statement
    BY <2>2
  <2>7. \/ text[n].op = "write" /\ text[n].arg \in Nat
        \/ text[n].op = "read" \/ text[n].op = "comm"
    BY <2>6, ValueAssumption DEF Statement
  <2>8. Alone[n] \in State
    BY <1>3, <2>2, <2>4, <2>7 DEF State
  <2>9. QED
    BY <2>5, <2>8
<1>5. QED
  BY <1>2, <1>3, <1>4

\* A lone run depends on the program only.
LEMMA AloneUnchanged == text' = text => Alone' = Alone
BY DEF Alone

-----------------------------------------------------------------------------
(* Arithmetic of the group's identifiers.                                  *)

\* group * size + k, back to the index in the group.
LEMMA IndexInGroup ==
  ASSUME NEW n \in Nat \ {0}, NEW g \in Nat, NEW k \in 0 .. n - 1
  PROVE  ((g * n) + k) % n = k
<1> DEFINE b == (g * n) + k
<1>1. b \in Nat /\ b % n \in Nat /\ b % n < n /\ b \div n \in Nat
      /\ b = (n * (b \div n)) + (b % n)
  <2>1. b \in Nat
    BY SMT
  <2> HIDE DEF b
  <2>2. QED
    BY <2>1, SMT
<1>2. PICK q \in Nat : q = b \div n
  BY <1>1
<1>3. PICK r \in Nat : r = b % n
  BY <1>1
<1>4. (g * n) + k = (n * q) + r /\ r < n
  BY <1>1, <1>2, <1>3
<1>5. q = g
  <2>1. CASE q < g
    <3>1. PICK d \in Nat : g = (q + 1) + d
      <4>1. g - (q + 1) \in Nat /\ g = (q + 1) + (g - (q + 1))
        BY <2>1
      <4>2. QED
        BY <4>1
    <3>2. g * n = (n * q) + n + (d * n) /\ d * n \in Nat
      BY <3>1, SMT
    <3>3. QED
      BY <1>4, <3>2, SMT
  <2>2. CASE g < q
    <3>1. PICK d \in Nat : q = (g + 1) + d
      <4>1. q - (g + 1) \in Nat /\ q = (g + 1) + (q - (g + 1))
        BY <2>2
      <4>2. QED
        BY <4>1
    <3>2. n * q = (g * n) + n + (d * n) /\ d * n \in Nat
      BY <3>1, SMT
    <3>3. QED
      BY <1>4, <3>2, SMT
  <2>3. QED
    BY <2>1, <2>2
<1>6. QED
  BY <1>3, <1>4, <1>5, SMT

-----------------------------------------------------------------------------
(* The invariant.                                                          *)

\* rand_expr reads no element.  (With "cell" the theorems are false, as the run
\* of InterThreadCommCell.cfg shows.)
RowsArePrivate == "cell" \notin RowSources

\* The permutation a statement picks for a thread whose globals are v.
RowFor(statement, v) ==
  (IF statement.row = "literal" THEN statement.arg ELSE v) % PermCount

\* The element a thread comes to own in this phase: between the barrier of its
\* communication statement and the assignment of tid it is the next one.
DueFor(table, id, statement, v, behind) ==
  IF behind THEN table[RowFor(statement, v)][id % GroupSize] ELSE id % GroupSize
Due(t) == DueFor(permutations, tid[t], text[pc[t]], x[t], passed[t])

TypeInv ==
  /\ text \in Seq(Statement)
  /\ permutations \in [Row -> Permutation]
  /\ tid \in [Thread -> Group * GroupSize .. Group * GroupSize + GroupSize - 1]
  /\ x \in [Thread -> Nat] /\ comm \in [Thread -> Nat]
  /\ pc \in [Thread -> 1 .. Len(text) + 1]
  /\ passed \in [Thread -> BOOLEAN]
  /\ \A t \in Thread : passed[t] => Running(t, "comm")
  /\ touched \in [Thread -> SUBSET Thread]
  /\ result \in [Thread -> Seq(Nat)]

\* A barrier is behind all threads or none.
Crossed(t, k) == pc[t] > k \/ (pc[t] = k /\ passed[t])
Together ==
  \A k \in 1 .. Len(text) : text[k].op = "comm" =>
    \A s, t \in Thread : Crossed(s, k) => Crossed(t, k)

\* Each element has one owner, who is the only one to have accessed it.
Owners == \A s, t \in Thread : Due(s) = Due(t) => s = t
Touchers == \A c, t \in Thread : t \in touched[c] => Due(t) = c

\* A thread is where a lone thread would be after as many statements.
Values ==
  \A t \in Thread : /\ x[t] = Alone[pc[t] - 1].x
                    /\ comm[Due(t)] = Alone[pc[t] - 1].element
Results ==
  \A t \in Thread : result[t] # <<>> =>
    result[t] = <<Alone[Len(text)].x, Alone[Len(text)].element>>

CommInv == TypeInv /\ Together /\ Owners /\ Touchers /\ Values /\ Results

\* Elements and rows stay within the group.
LEMMA DueTyped ==
  ASSUME RowsArePrivate, TypeInv, NEW t \in Thread
  PROVE  /\ Element(t) \in Thread /\ Due(t) \in Thread
         /\ ~ passed[t] => Due(t) = Element(t)
         /\ Running(t, "comm") => /\ RowOf(t) = RowFor(text[pc[t]], x[t])
                                  /\ RowOf(t) \in Row
                                  /\ text[pc[t]].row # "cell"
<1>1. Element(t) \in Thread
  <2>1. tid[t] \in Nat
    <3>1. Group * GroupSize \in Nat
      BY GroupAssumption, GroupSizeAssumption
    <3>2. QED
      BY <3>1, GroupSizeAssumption DEF TypeInv
  <2>2. QED
    BY <2>1, GroupSizeAssumption DEF Element, Thread
<1>2. Running(t, "comm") => /\ RowOf(t) = RowFor(text[pc[t]], x[t])
                            /\ RowOf(t) \in Row
                            /\ text[pc[t]].row # "cell"
  <2> SUFFICES ASSUME Running(t, "comm")
               PROVE  /\ RowOf(t) = RowFor(text[pc[t]], x[t])
                      /\ RowOf(t) \in Row
                      /\ text[pc[t]].row # "cell"
    OBVIOUS
  <2>1. pc[t] \in 1 .. Len(text) /\ x[t] \in Nat
    BY DEF TypeInv, Running
  <2>2. text[pc[t]] \in Statement /\ text[pc[t]].op = "comm"
    BY <2>1 DEF TypeInv, Running
  <2>3. text[pc[t]].row \in RowSources /\ text[pc[t]].arg \in Row
    BY <2>2 DEF Statement
  <2>4. text[pc[t]].row \in {"literal", "private"} /\ text[pc[t]].arg \in Nat
    <3>1. text[pc[t]].row \in {"literal", "private"}
      BY <2>3, RowSourcesAssumption DEF RowsArePrivate
    <3>2. text[pc[t]].arg \in Nat
      BY <2>3, PermCountAssumption DEF Row
    <3>3. QED
      BY <3>1, <3>2
  <2>5. RowOf(t) = RowFor(text[pc[t]], x[t])
    BY <2>4 DEF RowOf, RowFor
  <2>6. RowFor(text[pc[t]], x[t]) \in Row
    BY <2>1, <2>4, PermCountAssumption DEF RowFor, Row
  <2>7. QED
    BY <2>4, <2>5, <2>6
<1>3. ~ passed[t] => Due(t) = Element(t)
  BY DEF Due, DueFor, Element
<1>4. passed[t] => Due(t) \in Thread
  <2> SUFFICES ASSUME passed[t]
               PROVE  Due(t) \in Thread
    OBVIOUS
  <2>1. RowFor(text[pc[t]], x[t]) \in Row
    BY <1>2 DEF TypeInv
  <2>2. permutations[RowFor(text[pc[t]], x[t])] \in [Thread -> Thread]
    BY <2>1 DEF TypeInv, Permutation
  <2>3. QED
    BY <1>1, <2>2 DEF Due, DueFor, Element
<1>5. QED
  BY <1>1, <1>2, <1>3, <1>4

\* No element is without an owner.
LEMMA AllOwned ==
  ASSUME RowsArePrivate, TypeInv, Owners, NEW c \in Thread
  PROVE  \E t \in Thread : Due(t) = c
<1>1. PICK f : f = [t \in Thread |-> Due(t)]
  OBVIOUS
<1>2. f \in [Thread -> Thread]
  BY <1>1, DueTyped
<1>3. \A s, t \in Thread : f[s] = f[t] => s = t
  BY <1>1 DEF Owners
<1>4. f \in Injection(Thread, Thread)
  BY <1>2, <1>3, Fun_IsInj
<1>5. IsFiniteSet(Thread)
  BY FS_Interval, GroupSizeAssumption DEF Thread
<1>6. f \in Surjection(Thread, Thread)
  BY <1>4, <1>5, FS_Injection
<1>7. \E t \in Thread : f[t] = c
  BY <1>6, Fun_SurjectionProperties
<1>8. QED
  BY <1>1, <1>7

-----------------------------------------------------------------------------
(* The invariant is kept.                                                  *)

\* Each thread starts with the element of its own number.
LEMMA CommInit == RowsArePrivate /\ Init => CommInv
<1> SUFFICES ASSUME RowsArePrivate, Init
             PROVE  CommInv
  OBVIOUS
<1>1. text \in Seq(Statement)
  <2>1. PICK n \in 0 .. MaxLength : text \in [1 .. n -> Statement]
    BY DEF Init
  <2>2. n \in Nat
    BY LengthAssumption
  <2>3. QED
    BY <2>1, <2>2
<1>2. permutations[0] \in [Thread -> Thread]
      /\ \A s, t \in Thread : s # t => permutations[0][s] # permutations[0][t]
  <2>1. 0 \in Row
    BY PermCountAssumption DEF Row
  <2>2. QED
    BY <2>1 DEF Init, Permutation
<1>3. PICK base \in Nat : base = Group * GroupSize
  BY GroupAssumption, GroupSizeAssumption
<1>4. \A t \in Thread : /\ tid[t] = base + permutations[0][t]
                        /\ Due(t) = permutations[0][t]
  <2> SUFFICES ASSUME NEW t \in Thread
               PROVE  /\ tid[t] = base + permutations[0][t]
                      /\ Due(t) = permutations[0][t]
    OBVIOUS
  <2>1. tid[t] = (Group * GroupSize) + permutations[0][t]
    BY DEF Init
  <2>2. permutations[0][t] \in 0 .. GroupSize - 1
    BY <1>2 DEF Thread
  <2>3. tid[t] % GroupSize = permutations[0][t]
    BY <2>1, <2>2, IndexInGroup, GroupSizeAssumption, GroupAssumption
  <2>4. ~ passed[t]
    BY DEF Init
  <2>5. QED
    BY <1>3, <2>1, <2>3, <2>4 DEF Due, DueFor
<1>5. TypeInv
  <2>1. tid \in [Thread -> base .. base + GroupSize - 1]
    <3>1. ASSUME NEW t \in Thread
          PROVE  base + permutations[0][t] \in base .. base + GroupSize - 1
      <4>1. PICK k \in Thread : k = permutations[0][t]
        BY <1>2
      <4>2. base + k \in base .. base + GroupSize - 1
        BY <4>1, GroupSizeAssumption DEF Thread
      <4>3. QED
        BY <4>1, <4>2
    <3>2. tid = [t \in Thread |-> (Group * GroupSize) + permutations[0][t]]
      BY DEF Init
    <3>3. QED
      BY <1>3, <3>1, <3>2
  <2>2. pc \in [Thread -> 1 .. Len(text) + 1]
    BY <1>1 DEF Init
  <2>3. touched \in [Thread -> SUBSET Thread]
    BY DEF Init, Untouched
  <2>4. result \in [Thread -> Seq(Nat)]
    BY DEF Init
  <2>5. QED
    BY <1>1, <1>3, <2>1, <2>2, <2>3, <2>4 DEF Init, TypeInv
<1>6. Owners
  BY <1>2, <1>4 DEF Owners
<1>7. Together
  BY DEF Init, Together, Crossed
<1>8. Touchers
  BY DEF Init, Touchers, Untouched
<1>9. Values
  <2>1. Alone[0].x = 0 /\ Alone[0].element = 1
    BY <1>1, AloneSteps
  <2>2. \A t \in Thread : Due(t) \in Thread
    BY <1>5, DueTyped
  <2>3. QED
    BY <2>1, <2>2 DEF Init, Values
<1>10. Results
  BY DEF Init, Results
<1>11. QED
  BY <1>5, <1>6, <1>7, <1>8, <1>9, <1>10 DEF CommInv

\* A thread that reads or writes its element stays its owner, and is afterwards
\* where a lone thread would be.
LEMMA AccessKeeps ==
  ASSUME RowsArePrivate, CommInv, NEW t \in Thread,
         pc[t] <= Len(text), text[pc[t]].op \in {"write", "read"},
         Advance(t), Touch(t), UNCHANGED <<fixed, tid, passed, result>>,
         x' \in [Thread -> Nat], comm' \in [Thread -> Nat],
         \A s \in Thread : s # t => x'[s] = x[s],
         \A c \in Thread : c # Element(t) => comm'[c] = comm[c],
         x'[t] = Alone[pc[t]].x, comm'[Element(t)] = Alone[pc[t]].element
  PROVE  CommInv'
<1> USE DEF CommInv
<1>1. ~ passed[t] /\ Due(t) = Element(t) /\ Element(t) \in Thread
  <2>1. ~ passed[t]
    BY DEF TypeInv, Running
  <2>2. QED
    BY <2>1, DueTyped
<1>2. pc[t] \in 1 .. Len(text) /\ pc'[t] = pc[t] + 1 /\ \A s \in Thread : s # t => pc'[s] = pc[s]
  BY DEF TypeInv, Advance
<1>3. \A s \in Thread : s # t => Due(s)' = Due(s)
  BY <1>2 DEF Due, fixed
<1>4. Due(t)' = Due(t)
  BY <1>1 DEF Due, DueFor, fixed
<1>5. TypeInv'
  <2>1. pc' \in [Thread -> 1 .. Len(text)' + 1]
    BY <1>2 DEF TypeInv, Advance, fixed
  <2>2. touched' \in [Thread -> SUBSET Thread]
    BY <1>1 DEF TypeInv, Touch
  <2>3. \A s \in Thread : passed'[s] => Running(s, "comm")'
    BY <1>1, <1>2 DEF TypeInv, Running, fixed
  <2>4. QED
    BY <2>1, <2>2, <2>3 DEF TypeInv, fixed
<1>6. Together'
  <2>1. \A k \in 1 .. Len(text), s \in Thread :
          text[k].op = "comm" => (Crossed(s, k)' <=> Crossed(s, k))
    <3> SUFFICES ASSUME NEW k \in 1 .. Len(text), NEW s \in Thread, text[k].op = "comm"
                 PROVE  Crossed(s, k)' <=> Crossed(s, k)
      OBVIOUS
    <3>1. CASE s = t
      <4>1. k # pc[t] /\ pc[t] \in Nat /\ k \in Nat
        BY <1>2
      <4>2. QED
        BY <1>1, <1>2, <3>1, <4>1 DEF Crossed
    <3>2. CASE s # t
      BY <1>2, <3>2 DEF Crossed
    <3>3. QED
      BY <3>1, <3>2
  <2>2. QED
    BY <2>1 DEF Together, fixed
<1>7. Owners'
  BY <1>3, <1>4 DEF Owners
<1>8. Touchers'
  <2> SUFFICES ASSUME NEW c \in Thread, NEW s \in Thread, s \in touched'[c]
               PROVE  Due(s)' = c
    BY DEF Touchers
  <2>1. s \in touched[c] \/ (s = t /\ c = Element(t))
    BY DEF TypeInv, Touch
  <2>2. QED
    BY <1>1, <1>3, <1>4, <2>1 DEF Touchers
<1>9. Values'
  <2>1. Alone' = Alone
    BY AloneUnchanged DEF fixed
  <2> SUFFICES ASSUME NEW s \in Thread
               PROVE  /\ x'[s] = Alone[pc'[s] - 1].x
                      /\ comm'[Due(s)'] = Alone[pc'[s] - 1].element
    BY <2>1 DEF Values
  <2>2. CASE s = t
    BY <1>1, <1>2, <1>4, <2>2, SMTT(30)
  <2>3. CASE s # t
    <3>1. Due(s) # Element(t) /\ Due(s) \in Thread
      BY <1>1, <2>3, DueTyped DEF Owners
    <3>2. QED
      BY <1>2, <1>3, <2>3, <3>1, SMTT(30) DEF Values
  <2>4. QED
    BY <2>2, <2>3
<1>10. Results'
  <2>1. Alone' = Alone
    BY AloneUnchanged DEF fixed
  <2>2. QED
    BY <2>1 DEF Results, fixed
<1>11. QED
  BY <1>5, <1>6, <1>7, <1>8, <1>9, <1>10

\* A write goes to the element its thread owns: nobody else sees it.
LEMMA WriteKeeps ==
  ASSUME RowsArePrivate, CommInv, NEW t \in Thread, Write(t)
  PROVE  CommInv'
<1>1. pc[t] \in 1 .. Len(text) /\ text[pc[t]].op = "write"
  BY DEF CommInv, TypeInv, Write, Running
<1>2. text[pc[t]] \in Statement /\ text[pc[t]].arg \in Nat
  <2>1. text[pc[t]] \in Statement
    BY <1>1 DEF CommInv, TypeInv
  <2>2. QED
    BY <1>1, <2>1, ValueAssumption DEF Statement
<1>3. /\ Alone[pc[t] - 1] \in State
      /\ Alone[pc[t]] = [Alone[pc[t] - 1] EXCEPT !.element = text[pc[t]].arg]
  <2>1. text \in Seq(Statement)
    BY DEF CommInv, TypeInv
  <2>2. pc[t] - 1 \in 0 .. Len(text)
    BY <1>1
  <2>3. QED
    BY <1>1, <2>1, <2>2, AloneSteps
<1>4. Element(t) \in Thread
  BY DueTyped DEF CommInv
<1>5. x'[t] = Alone[pc[t]].x
  BY <1>3 DEF Write, CommInv, Values, State
<1>6. comm'[Element(t)] = Alone[pc[t]].element
  BY <1>3, <1>4 DEF Write, CommInv, TypeInv, State
<1>7. x' \in [Thread -> Nat] /\ comm' \in [Thread -> Nat]
  BY <1>2 DEF Write, CommInv, TypeInv
<1>8. \A c \in Thread : c # Element(t) => comm'[c] = comm[c]
  BY DEF Write, CommInv, TypeInv
<1>9. QED
  BY <1>1, <1>5, <1>6, <1>7, <1>8, AccessKeeps DEF Write, Running

\* A read finds what a lone run finds at this place of the program.
LEMMA ReadKeeps ==
  ASSUME RowsArePrivate, CommInv, NEW t \in Thread, Read(t)
  PROVE  CommInv'
<1>1. pc[t] \in 1 .. Len(text) /\ text[pc[t]].op = "read"
  BY DEF CommInv, TypeInv, Read, Running
<1>2. /\ Alone[pc[t] - 1] \in State
      /\ Alone[pc[t]] = [Alone[pc[t] - 1] EXCEPT !.x = Alone[pc[t] - 1].element]
  <2>1. text \in Seq(Statement)
    BY DEF CommInv, TypeInv
  <2>2. pc[t] - 1 \in 0 .. Len(text)
    BY <1>1
  <2>3. QED
    BY <1>1, <2>1, <2>2, AloneSteps
<1>3. Element(t) \in Thread /\ Due(t) = Element(t)
  <2>1. ~ passed[t]
    BY <1>1 DEF CommInv, TypeInv, Running
  <2>2. QED
    BY <2>1, DueTyped DEF CommInv
<1>4. comm[Element(t)] = Alone[pc[t] - 1].element
  BY <1>3 DEF CommInv, Values
<1>5. x'[t] = Alone[pc[t]].x
  BY <1>2, <1>4 DEF Read, CommInv, TypeInv, State
<1>6. comm'[Element(t)] = Alone[pc[t]].element
  BY <1>2, <1>4 DEF Read, State
<1>7. x' \in [Thread -> Nat] /\ comm' \in [Thread -> Nat]
  BY <1>3 DEF Read, CommInv, TypeInv
<1>8. \A s \in Thread : s # t => x'[s] = x[s]
  BY DEF Read, CommInv, TypeInv
<1>9. QED
  BY <1>1, <1>5, <1>6, <1>7, <1>8, AccessKeeps DEF Read, Running

\* At a barrier all threads come to the same statement, pick the same row and
\* hand all elements, which hold the same value, round.
LEMMA BarrierKeeps ==
  ASSUME RowsArePrivate, CommInv, Barrier
  PROVE  CommInv'
<1> USE DEF CommInv
<1>1. \A t \in Thread : Running(t, "comm") /\ ~ passed[t]
  BY DEF Barrier
<1>2. \A t \in Thread : pc[t] \in 1 .. Len(text) /\ text[pc[t]].op = "comm"
  BY <1>1 DEF TypeInv, Running
<1>3. \A s, t \in Thread : pc[s] = pc[t]
  <2> SUFFICES ASSUME NEW s \in Thread, NEW t \in Thread, pc[s] < pc[t]
               PROVE  FALSE
    BY <1>2
  <2>1. Crossed(t, pc[s]) /\ ~ Crossed(s, pc[s])
    BY <1>1, <1>2 DEF Crossed
  <2>2. QED
    BY <1>2, <2>1 DEF Together
<1>4. PICK k \in 1 .. Len(text) : text[k].op = "comm" /\ \A t \in Thread : pc[t] = k
  <2>1. 0 \in Thread
    BY GroupSizeAssumption DEF Thread
  <2>2. QED
    BY <1>2, <1>3, <2>1
<1>5. \A t \in Thread : x[t] = Alone[k - 1].x
  BY <1>4 DEF Values
<1>6. PICK row : \A t \in Thread : RowFor(text[k], x[t]) = row
  BY <1>5
<1>7. row \in Row /\ permutations[row] \in [Thread -> Thread]
      /\ \A c, d \in Thread : permutations[row][c] = permutations[row][d] => c = d
  <2>1. 0 \in Thread
    BY GroupSizeAssumption DEF Thread
  <2>2. RowOf(0) = RowFor(text[pc[0]], x[0]) /\ RowOf(0) \in Row
    BY <1>1, <2>1, DueTyped
  <2>3. row \in Row
    BY <1>4, <1>6, <2>1, <2>2
  <2>4. permutations[row] \in Permutation
    BY <2>3 DEF TypeInv
  <2>5. QED
    BY <2>3, <2>4 DEF Permutation
<1>8. \A t \in Thread : /\ Element(t) \in Thread
                        /\ Due(t) = Element(t)
                        /\ Due(t)' = permutations[row][Element(t)]
  <2> SUFFICES ASSUME NEW t \in Thread
               PROVE  /\ Element(t) \in Thread
                      /\ Due(t) = Element(t)
                      /\ Due(t)' = permutations[row][Element(t)]
    OBVIOUS
  <2>1. Element(t) \in Thread /\ Due(t) = Element(t)
    BY <1>1, DueTyped
  <2>2. RowFor(text[pc[t]], x[t]) = row
    BY <1>4, <1>6
  <2>3. passed'[t]
    BY DEF Barrier
  <2>4. Due(t)' = permutations[RowFor(text[pc[t]], x[t])][tid[t] % GroupSize]
    BY <2>3 DEF Due, DueFor, Barrier, fixed
  <2>5. QED
    BY <2>1, <2>2, <2>4 DEF Element
<1>9. \A c \in Thread : comm[c] = Alone[k - 1].element
  <2> SUFFICES ASSUME NEW c \in Thread
               PROVE  comm[c] = Alone[k - 1].element
    OBVIOUS
  <2>1. PICK t \in Thread : Due(t) = c
    BY AllOwned
  <2>2. QED
    BY <1>4, <2>1 DEF Values
<1>10. TypeInv'
  <2>1. \A t \in Thread : Running(t, "comm")'
    BY <1>1 DEF Running, Barrier, fixed
  <2>2. QED
    BY <2>1 DEF TypeInv, Barrier, Untouched, fixed
<1>11. Together'
  <2>1. \A j \in 1 .. Len(text), s, t \in Thread : Crossed(s, j)' => Crossed(t, j)'
    BY <1>4 DEF Crossed, Barrier
  <2>2. QED
    BY <2>1 DEF Together, Barrier, fixed
<1>12. Owners'
  BY <1>7, <1>8 DEF Owners
<1>13. Touchers'
  BY DEF Touchers, Barrier, Untouched
<1>14. Values'
  <2>1. Alone' = Alone
    BY AloneUnchanged DEF Barrier, fixed
  <2>2. \A t \in Thread : Due(t)' \in Thread
    BY <1>7, <1>8
  <2>3. QED
    BY <1>4, <1>5, <1>9, <2>1, <2>2 DEF Values, Barrier
<1>15. Results'
  <2>1. Alone' = Alone
    BY AloneUnchanged DEF Barrier, fixed
  <2>2. QED
    BY <2>1 DEF Results, Barrier, fixed
<1>16. QED
  BY <1>10, <1>11, <1>12, <1>13, <1>14, <1>15

\* A thread behind the barrier moves on to the element that is due.
LEMMA AssignKeeps ==
  ASSUME RowsArePrivate, CommInv, NEW t \in Thread, Assign(t)
  PROVE  CommInv'
<1> USE DEF CommInv
<1>1. pc[t] \in 1 .. Len(text) /\ text[pc[t]].op = "comm" /\ passed[t]
  BY DEF TypeInv, Running, Assign
<1>2. /\ pc'[t] = pc[t] + 1 /\ ~ passed'[t]
      /\ \A s \in Thread : s # t => /\ pc'[s] = pc[s] /\ passed'[s] = passed[s]
                                    /\ tid'[s] = tid[s]
      /\ touched' = touched
      /\ UNCHANGED <<fixed, x, comm, result>>
  <2>1. text[pc[t]].row # "cell"
    BY DueTyped DEF Assign
  <2>2. QED
    BY <2>1 DEF TypeInv, Assign, Advance
<1>3. PICK e \in Thread : e = permutations[RowOf(t)][Element(t)]
  <2>1. RowOf(t) \in Row /\ Element(t) \in Thread
    BY DueTyped DEF Assign
  <2>2. permutations[RowOf(t)] \in [Thread -> Thread]
    BY <2>1 DEF TypeInv, Permutation
  <2>3. QED
    BY <2>1, <2>2
<1>4. tid'[t] = (Group * GroupSize) + e
  BY <1>3 DEF TypeInv, Assign
<1>5. Due(t) = e
  <2>1. RowOf(t) = RowFor(text[pc[t]], x[t])
    BY DueTyped DEF Assign
  <2>2. QED
    BY <1>1, <1>3, <2>1 DEF Due, DueFor, Element
<1>6. Due(t)' = e
  <2>1. e \in 0 .. GroupSize - 1
    BY DEF Thread
  <2>2. tid'[t] % GroupSize = e
    BY <1>4, <2>1, IndexInGroup, GroupSizeAssumption, GroupAssumption
  <2>3. QED
    BY <1>2, <2>2 DEF Due, DueFor
<1>7. \A s \in Thread : Due(s)' = Due(s)
  BY <1>2, <1>5, <1>6 DEF Due, fixed
<1>8. TypeInv'
  <2>1. PICK base \in Nat : base = Group * GroupSize
    BY GroupAssumption, GroupSizeAssumption
  <2>2. base + e \in base .. base + GroupSize - 1
    BY <2>1, GroupSizeAssumption DEF Thread
  <2>3. tid' \in [Thread -> base .. base + GroupSize - 1]
    <3>1. tid' = [tid EXCEPT ![t] = base + e]
      BY <1>3, <2>1 DEF Assign
    <3>2. QED
      BY <2>1, <2>2, <3>1 DEF TypeInv
  <2>4. pc' \in [Thread -> 1 .. Len(text) + 1]
    BY <1>1, SMTT(30) DEF TypeInv, Assign, Advance
  <2>5. passed' \in [Thread -> BOOLEAN]
    BY DEF TypeInv, Assign
  <2>6. \A s \in Thread : passed'[s] => Running(s, "comm")'
    BY <1>2 DEF TypeInv, Running, fixed
  <2>7. QED
    BY <1>2, <2>1, <2>3, <2>4, <2>5, <2>6 DEF TypeInv, fixed
<1>9. Together'
  <2>1. \A k \in 1 .. Len(text), s \in Thread : Crossed(s, k)' <=> Crossed(s, k)
    <3> SUFFICES ASSUME NEW k \in 1 .. Len(text), NEW s \in Thread
                 PROVE  Crossed(s, k)' <=> Crossed(s, k)
      OBVIOUS
    <3>1. CASE s = t
      BY <1>1, <1>2, <3>1 DEF Crossed
    <3>2. CASE s # t
      BY <1>2, <3>2 DEF Crossed
    <3>3. QED
      BY <3>1, <3>2
  <2>2. QED
    BY <1>2, <2>1 DEF Together, fixed
<1>10. Owners'
  BY <1>7 DEF Owners
<1>11. Touchers'
  BY <1>2, <1>7 DEF Touchers
<1>12. Alone' = Alone
  BY <1>2, AloneUnchanged DEF fixed
<1>13. Values'
  <2>1. Alone[pc[t]] = Alone[pc[t] - 1]
    <3>1. text \in Seq(Statement)
      BY DEF TypeInv
    <3>2. QED
      BY <1>1, <3>1, AloneSteps
  <2> SUFFICES ASSUME NEW s \in Thread
               PROVE  /\ x[s] = Alone[pc'[s] - 1].x
                      /\ comm[Due(s)] = Alone[pc'[s] - 1].element
    BY <1>2, <1>7, <1>12 DEF Values
  <2>2. CASE s = t
    BY <1>1, <1>2, <2>1, <2>2 DEF Values
  <2>3. CASE s # t
    BY <1>2, <2>3 DEF Values
  <2>4. QED
    BY <2>2, <2>3
<1>14. Results'
  BY <1>2, <1>12 DEF Results, fixed
<1>15. QED
  BY <1>8, <1>9, <1>10, <1>11, <1>13, <1>14

\* At the end a thread hashes the element at its own index, whoever owns it.
LEMMA HashKeeps ==
  ASSUME RowsArePrivate, CommInv, Hash
  PROVE  CommInv'
<1> USE DEF CommInv
<1>1. \A t \in Thread : pc[t] = Len(text) + 1
  BY DEF Hash, AtEnd
<1>2. Alone' = Alone
  BY AloneUnchanged DEF Hash, fixed
<1>3. \A s \in Thread : Due(s)' = Due(s)
  BY DEF Due, Hash, fixed
<1>4. \A t \in Thread : x[t] = Alone[Len(text)].x /\ comm[t] = Alone[Len(text)].element
  <2> SUFFICES ASSUME NEW t \in Thread
               PROVE  x[t] = Alone[Len(text)].x /\ comm[t] = Alone[Len(text)].element
    OBVIOUS
  <2>1. Len(text) \in Nat
    BY DEF TypeInv
  <2>2. PICK s \in Thread : Due(s) = t
    BY AllOwned
  <2>3. pc[s] - 1 = Len(text) /\ pc[t] - 1 = Len(text)
    BY <1>1, <2>1
  <2>4. QED
    BY <2>2, <2>3 DEF Values
<1>5. Results'
  BY <1>2, <1>4 DEF Results, Hash, fixed
<1>6. result' \in [Thread -> Seq(Nat)]
  <2>1. \A t \in Thread : x[t] \in Nat /\ comm[t] \in Nat
    BY DEF TypeInv
  <2>2. QED
    BY <2>1 DEF Hash
<1>7. TypeInv'
  BY <1>6 DEF TypeInv, Hash, Untouched, Running, fixed
<1>8. Together'
  BY DEF Together, Crossed, Hash, fixed
<1>9. Owners'
  BY <1>3 DEF Owners
<1>10. Touchers'
  BY DEF Touchers, Hash, Untouched
<1>11. Values'
  BY <1>2, <1>3 DEF Values, Hash
<1>12. QED
  BY <1>5, <1>7, <1>8, <1>9, <1>10, <1>11

\* Every step keeps the invariant.
LEMMA CommNext == RowsArePrivate /\ CommInv /\ [Next]_vars => CommInv'
<1> SUFFICES ASSUME RowsArePrivate, CommInv, [Next]_vars
             PROVE  CommInv'
  OBVIOUS
<1>1. CASE \E t \in Thread : Write(t)
  BY <1>1, WriteKeeps
<1>2. CASE \E t \in Thread : Read(t)
  BY <1>2, ReadKeeps
<1>3. CASE \E t \in Thread : Assign(t)
  BY <1>3, AssignKeeps
<1>4. CASE Barrier
  BY <1>4, BarrierKeeps
<1>5. CASE Hash
  BY <1>5, HashKeeps
<1>6. CASE UNCHANGED vars
  <2>1. Alone' = Alone
    BY <1>6, AloneUnchanged DEF vars, fixed
  <2>2. \A s \in Thread : Due(s)' = Due(s)
    BY <1>6 DEF Due, vars, fixed
  <2>3. TypeInv'
    BY <1>6 DEF CommInv, TypeInv, Running, vars, fixed
  <2>4. Together'
    BY <1>6 DEF CommInv, Together, Crossed, vars, fixed
  <2>5. Owners' /\ Touchers'
    BY <1>6, <2>2 DEF CommInv, Owners, Touchers, vars, fixed
  <2>6. Values' /\ Results'
    BY <1>6, <2>1, <2>2 DEF CommInv, Values, Results, vars, fixed
  <2>7. QED
    BY <2>3, <2>4, <2>5, <2>6 DEF CommInv
<1>7. QED
  BY <1>1, <1>2, <1>3, <1>4, <1>5, <1>6 DEF Next, Terminated

-----------------------------------------------------------------------------

\* The invariant holds of every run.
LEMMA CommAlways == RowsArePrivate /\ Spec => []CommInv
<1>1. RowsArePrivate => (Init => CommInv)
  BY CommInit
<1>2. RowsArePrivate => (CommInv /\ [Next]_vars => CommInv')
  BY CommNext
<1>3. CASE RowsArePrivate
  <2>1. Init => CommInv
    BY <1>1, <1>3
  <2>2. CommInv /\ [Next]_vars => CommInv'
    BY <1>2, <1>3
  <2>3. QED
    BY <2>1, <2>2, PTL DEF Spec
<1>4. CASE ~ RowsArePrivate
  BY <1>4
<1>5. QED
  BY <1>3, <1>4

\* Between two barriers an element of the group's buffers is accessed by one
\* thread only, in every program whose rand_expr reads none.
THEOREM ElementsAreOwned == RowsArePrivate /\ Spec => []NoSharedElement
<1>1. CommInv => NoSharedElement
  <2> SUFFICES ASSUME CommInv, NEW c \in Thread, NEW s \in touched[c], NEW t \in touched[c]
               PROVE  s = t
    BY DEF NoSharedElement
  <2>1. s \in Thread /\ t \in Thread
    BY DEF CommInv, TypeInv
  <2>2. QED
    BY <2>1 DEF CommInv, Owners, Touchers
<1>2. QED
  BY <1>1, CommAlways, PTL

\* Threads at the same place have different tids, all of their own group.
THEOREM TidsStayDistinct == RowsArePrivate /\ Spec => []TidsAreDistinct
<1>1. RowsArePrivate /\ CommInv => TidsAreDistinct
  <2> SUFFICES ASSUME RowsArePrivate, CommInv
               PROVE  TidsAreDistinct
    OBVIOUS
  <2>1. ASSUME NEW s \in Thread, NEW t \in Thread, s # t,
               pc[s] = pc[t], passed[s] = passed[t], tid[s] = tid[t]
        PROVE  FALSE
    <3>1. x[s] = x[t]
      BY <2>1 DEF CommInv, Values
    <3>2. Due(s) = Due(t)
      BY <2>1, <3>1 DEF Due
    <3>3. QED
      BY <2>1, <3>2 DEF CommInv, Owners
  <2>2. QED
    BY <2>1 DEF TidsAreDistinct, CommInv, TypeInv
<1>2. CASE RowsArePrivate
  <2>1. CommInv => TidsAreDistinct
    BY <1>1, <1>2
  <2>2. QED
    BY <2>1, CommAlways, PTL
<1>3. CASE ~ RowsArePrivate
  BY <1>3
<1>4. QED
  BY <1>2, <1>3

\* Every thread of every group hashes what a lone thread would, under every
\* schedule, whatever the permutations.
THEOREM CommIsDeterministic == RowsArePrivate /\ Spec => []Determinism
<1>1. CommInv => Determinism
  BY DEF CommInv, Results, Determinism, AllDone
<1>2. QED
  BY <1>1, CommAlways, PTL

=============================================================================
