------------------------ MODULE ProgramGenerationProofs ------------------------
(***************************************************************************)
(* Theorems about the program while it is generated and pruned, for all    *)
(* languages and programs of any size.                                     *)
(***************************************************************************)
EXTENDS GeneratorPhases, SequenceTheorems, FiniteSetTheorems, WellFoundedInduction, TLAPS

-----------------------------------------------------------------------------
(* Recursion.                                                              *)

\* Induction up to N: what holds at 0, and at n whenever at n - 1.
LEMMA Upwards ==
  ASSUME NEW N \in Nat, NEW G \in SUBSET (0 .. N), 0 \in G,
         \A n \in 1 .. N : n - 1 \in G => n \in G
  PROVE  G = 0 .. N
<1> DEFINE R == OpToRel(<, Nat)
           S == (0 .. N) \ G
<1>1. IsWellFoundedOn(R, Nat)
  BY NatLessThanWellFounded
<1>2. \A k, l \in Nat : k < l => <<k, l>> \in R
  BY SMT DEF OpToRel
<1> HIDE DEF R
<1>3. SUFFICES ASSUME S # {}
               PROVE  FALSE
  OBVIOUS
<1>4. S \in SUBSET Nat
  OBVIOUS
<1> HIDE DEF S
<1>5. PICK m \in S : \A k \in S : ~ (<<k, m>> \in R)
  BY <1>1, <1>3, <1>4, WFMin, Zenon
<1>6. m \in 0 .. N /\ m \notin G
  BY <1>5 DEF S
<1>7. m \in 1 .. N /\ m - 1 \in 0 .. N /\ m - 1 < m
  BY <1>6
<1>8. m - 1 \notin S
  <2>1. m - 1 \in Nat /\ m \in Nat
    BY <1>7
  <2>2. QED
    BY <1>2, <1>5, <1>7, <2>1
<1>9. m - 1 \in G
  BY <1>7, <1>8 DEF S
<1>10. QED
  BY <1>6, <1>7, <1>9

\* A run of N steps from a first state.
Stepping(N, S) == [1 .. N -> [S -> S]]
IsRun(f, N, S, first, step) ==
  /\ f \in [0 .. N -> S]
  /\ f[0] = first
  /\ \A n \in 1 .. N : f[n] = step[n][f[n - 1]]

\* From any first state, the steps lead through some states: a recursive function
\* that makes these steps is defined.
LEMMA RunExists ==
  ASSUME NEW N \in Nat, NEW S, NEW first \in S, NEW step \in Stepping(N, S)
  PROVE  \E f : IsRun(f, N, S, first, step)
<1> DEFINE Upto(m, f) == f[0] = first /\ \A n \in 1 .. m : f[n] = step[n][f[n - 1]]
           G == {m \in 0 .. N : \E f \in [0 .. m -> S] : Upto(m, f)}
<1>1. 0 \in G
  <2>1. PICK f : f = [n \in 0 .. 0 |-> first]
    OBVIOUS
  <2>2. f \in [0 .. 0 -> S] /\ Upto(0, f)
    BY <2>1
  <2>3. 0 \in 0 .. N /\ \E h \in [0 .. 0 -> S] : Upto(0, h)
    BY <2>2
  <2> HIDE DEF Upto
  <2>4. QED
    BY <2>3
<1>2. ASSUME NEW m \in 1 .. N, m - 1 \in G
      PROVE  m \in G
  <2>1. PICK f \in [0 .. m - 1 -> S] : Upto(m - 1, f)
    BY <1>2
  <2>2. m \in 0 .. N /\ m - 1 \in 0 .. m - 1 /\ f[m - 1] \in S
    BY <2>1
  <2>3. step[m][f[m - 1]] \in S
    BY <2>2 DEF Stepping
  <2>4. PICK g : g = [n \in 0 .. m |-> IF n = m THEN step[m][f[m - 1]] ELSE f[n]]
    OBVIOUS
  <2>5. g \in [0 .. m -> S]
    <3>1. \A n \in 0 .. m : n # m => n \in 0 .. m - 1
      OBVIOUS
    <3>2. QED
      BY <2>3, <2>4, <3>1
  <2>6. \A n \in 0 .. m - 1 : g[n] = f[n]
    BY <2>4
  <2>7. g[m] = step[m][f[m - 1]] /\ g[m - 1] = f[m - 1]
    BY <2>2, <2>4, <2>6
  <2>8. Upto(m, g)
    <3>1. g[0] = first
      BY <2>1, <2>6
    <3>2. ASSUME NEW n \in 1 .. m
          PROVE  g[n] = step[n][g[n - 1]]
      <4>1. CASE n = m
        BY <2>7, <4>1
      <4>2. CASE n # m
        <5>1. n \in 1 .. m - 1 /\ n \in 0 .. m - 1 /\ n - 1 \in 0 .. m - 1
          BY <4>2
        <5>2. QED
          BY <2>1, <2>6, <5>1
      <4>3. QED
        BY <4>1, <4>2
    <3>3. QED
      BY <3>1, <3>2
  <2>9. QED
    BY <2>2, <2>5, <2>8
<1>3. G = 0 .. N
  <2> HIDE DEF G
  <2>1. G \in SUBSET (0 .. N)
    BY DEF G
  <2>2. QED
    BY <1>1, <1>2, <2>1, Upwards
<1>4. QED
  BY <1>3 DEF IsRun

\* Two functions that make the same steps from the same value are one.
LEMMA RunsAgree ==
  ASSUME NEW N \in Nat, NEW f, NEW g, f[0] = g[0],
         \A n \in 1 .. N : f[n - 1] = g[n - 1] => f[n] = g[n]
  PROVE  \A n \in 0 .. N : f[n] = g[n]
<1> DEFINE G == {n \in 0 .. N : f[n] = g[n]}
<1>1. G \in SUBSET (0 .. N) /\ 0 \in G /\ \A n \in 1 .. N : n - 1 \in G => n \in G
  OBVIOUS
<1> HIDE DEF G
<1>2. G = 0 .. N
  BY <1>1, Upwards
<1>3. QED
  BY <1>2 DEF G

\* A function whose values stay in a set.
LEMMA RunsStay ==
  ASSUME NEW N \in Nat, NEW S, NEW f, f[0] \in S,
         \A n \in 1 .. N : f[n - 1] \in S => f[n] \in S
  PROVE  \A n \in 0 .. N : f[n] \in S
<1> DEFINE G == {n \in 0 .. N : f[n] \in S}
<1>1. G \in SUBSET (0 .. N) /\ 0 \in G /\ \A n \in 1 .. N : n - 1 \in G => n \in G
  OBVIOUS
<1> HIDE DEF G
<1>2. G = 0 .. N
  BY <1>1, Upwards
<1>3. QED
  BY <1>2 DEF G

-----------------------------------------------------------------------------
(* Sequences.                                                              *)

\* What a sequence and a value behind it have in them.
LEMMA AppendFacts ==
  ASSUME NEW S, NEW q \in Seq(S), NEW e \in S
  PROVE  /\ Append(q, e) \in Seq(S)
         /\ ToSet(Append(q, e)) = ToSet(q) \union {e}
         /\ IsInjective(q) /\ e \notin ToSet(q) => IsInjective(Append(q, e))
<1> DEFINE a == Append(q, e)
<1>1. PICK n \in Nat : n = Len(q)
  OBVIOUS
<1>2. /\ a \in Seq(S) /\ DOMAIN a = 1 .. n + 1 /\ DOMAIN q = 1 .. n
      /\ \A i \in 1 .. n : a[i] = q[i]
      /\ a[n + 1] = e
  BY <1>1
<1> HIDE DEF a
<1>3. ToSet(a) = ToSet(q) \union {e}
  <2>1. \A i \in 1 .. n + 1 : i \in 1 .. n \/ i = n + 1
    BY <1>1
  <2>2. 1 .. n \subseteq 1 .. n + 1 /\ n + 1 \in 1 .. n + 1
    BY <1>1
  <2>3. QED
    BY <1>2, <2>1, <2>2 DEF ToSet
<1>4. ASSUME IsInjective(q), e \notin ToSet(q)
      PROVE  IsInjective(a)
  <2>1. \A i \in 1 .. n + 1 : i \in 1 .. n \/ i = n + 1
    BY <1>1
  <2>2. \A i \in 1 .. n : q[i] # e
    BY <1>2, <1>4 DEF ToSet
  <2>3. \A i, j \in 1 .. n : q[i] = q[j] => i = j
    BY <1>2, <1>4 DEF IsInjective
  <2>4. QED
    BY <1>2, <2>1, <2>2, <2>3 DEF IsInjective
<1>5. QED
  BY <1>2, <1>3, <1>4 DEF a

\* What a concatenation has in it.
LEMMA ConcatFacts ==
  ASSUME NEW S, NEW q \in Seq(S), NEW r \in Seq(S)
  PROVE  /\ q \o r \in Seq(S)
         /\ ToSet(q \o r) = ToSet(q) \union ToSet(r)
         /\ IsInjective(q) /\ IsInjective(r) /\ ToSet(q) \intersect ToSet(r) = {}
              => IsInjective(q \o r)
<1> DEFINE c == q \o r
<1>1. PICK m \in Nat, n \in Nat : m = Len(q) /\ n = Len(r)
  OBVIOUS
<1>2. /\ c \in Seq(S) /\ DOMAIN c = 1 .. m + n /\ DOMAIN q = 1 .. m /\ DOMAIN r = 1 .. n
      /\ \A i \in 1 .. m + n : c[i] = IF i <= m THEN q[i] ELSE r[i - m]
  BY <1>1, ConcatProperties
<1> HIDE DEF c
<1>3. /\ \A i \in 1 .. m + n : \/ i \in 1 .. m /\ c[i] = q[i]
                               \/ i - m \in 1 .. n /\ i > m /\ c[i] = r[i - m]
      /\ \A i \in 1 .. m : i \in 1 .. m + n /\ c[i] = q[i]
      /\ \A i \in 1 .. n : i + m \in 1 .. m + n /\ c[i + m] = r[i]
  <2>1. \A i \in 1 .. m + n : IF i <= m THEN i \in 1 .. m ELSE i - m \in 1 .. n /\ i > m
    BY <1>1
  <2>2. \A i \in 1 .. m : i \in 1 .. m + n /\ i <= m
    BY <1>1
  <2>3. \A i \in 1 .. n : i + m \in 1 .. m + n /\ ~(i + m <= m) /\ i + m - m = i
    BY <1>1
  <2>4. \A i \in 1 .. m + n : c[i] = IF i <= m THEN q[i] ELSE r[i - m]
    BY <1>2
  <2>5. QED
    BY <2>1, <2>2, <2>3, <2>4
<1>4. ToSet(c) = ToSet(q) \union ToSet(r)
  <2>1. ASSUME NEW i \in 1 .. m + n
        PROVE  c[i] \in ToSet(q) \union ToSet(r)
    BY <1>2, <1>3 DEF ToSet
  <2>2. ASSUME NEW i \in 1 .. m
        PROVE  q[i] \in ToSet(c)
    BY <1>2, <1>3 DEF ToSet
  <2>3. ASSUME NEW i \in 1 .. n
        PROVE  r[i] \in ToSet(c)
    <3>1. i + m \in DOMAIN c /\ c[i + m] = r[i]
      BY <1>2, <1>3
    <3>2. QED
      BY <3>1 DEF ToSet
  <2>4. ToSet(c) = {c[i] : i \in 1 .. m + n} /\ ToSet(q) = {q[i] : i \in 1 .. m}
          /\ ToSet(r) = {r[i] : i \in 1 .. n}
    BY <1>2 DEF ToSet
  <2>5. QED
    BY <2>1, <2>2, <2>3, <2>4
<1>5. ASSUME IsInjective(q), IsInjective(r), ToSet(q) \intersect ToSet(r) = {}
      PROVE  IsInjective(c)
  <2>1. /\ \A i, j \in 1 .. m : q[i] = q[j] => i = j
        /\ \A i, j \in 1 .. n : r[i] = r[j] => i = j
        /\ \A i \in 1 .. m, j \in 1 .. n : q[i] # r[j]
    <3>1. /\ \A i, j \in 1 .. m : q[i] = q[j] => i = j
          /\ \A i, j \in 1 .. n : r[i] = r[j] => i = j
      BY <1>2, <1>5 DEF IsInjective
    <3>2. ASSUME NEW i \in 1 .. m, NEW j \in 1 .. n
          PROVE  q[i] # r[j]
      <4>1. q[i] \in ToSet(q) /\ r[j] \in ToSet(r)
        BY <1>2 DEF ToSet
      <4>2. QED
        BY <1>5, <4>1
    <3>3. QED
      BY <3>1, <3>2
  <2>2. SUFFICES ASSUME NEW i \in 1 .. m + n, NEW j \in 1 .. m + n, c[i] = c[j]
                 PROVE  i = j
    BY <1>2 DEF IsInjective
  <2>3. CASE i \in 1 .. m /\ c[i] = q[i]
    <3>1. j \in 1 .. m /\ c[j] = q[j]
      <4>1. CASE j - m \in 1 .. n /\ c[j] = r[j - m]
        <5>1. q[i] # r[j - m]
          BY <2>1, <2>3, <4>1
        <5>2. QED
          BY <2>2, <2>3, <4>1, <5>1
      <4>2. QED
        BY <1>3, <4>1
    <3>2. QED
      BY <2>1, <2>2, <2>3, <3>1
  <2>4. CASE i - m \in 1 .. n /\ i > m /\ c[i] = r[i - m]
    <3>1. j - m \in 1 .. n /\ c[j] = r[j - m]
      BY <1>3, <2>1, <2>2, <2>4
    <3>2. i - m = j - m
      BY <2>1, <2>2, <2>4, <3>1
    <3>3. QED
      BY <1>1, <3>2
  <2>5. QED
    BY <1>3, <2>3, <2>4
<1>6. QED
  BY <1>2, <1>4, <1>5 DEF c

\* How Keep goes through a sequence.
LEMMA KeepRuns ==
  ASSUME NEW S, NEW q \in Seq(S), NEW T
  PROVE  \E k : /\ Keep(q, T) = k[Len(q)] /\ k[0] = <<>>
                /\ \A n \in 1 .. Len(q) :
                     k[n] = IF q[n] \in T THEN Append(k[n - 1], q[n]) ELSE k[n - 1]
<1>1. PICK N \in Nat : N = Len(q)
  OBVIOUS
<1> DEFINE Body(h) == [n \in 0 .. N |-> IF n = 0 THEN <<>>
                         ELSE IF q[n] \in T THEN Append(h[n - 1], q[n]) ELSE h[n - 1]]
           k == CHOOSE h : h = Body(h)
           step == [n \in 1 .. N |-> [r \in Seq(S) |-> IF q[n] \in T THEN Append(r, q[n]) ELSE r]]
<1>2. \A n \in 1 .. N : q[n] \in S
  BY <1>1
<1>3. PICK f : IsRun(f, N, Seq(S), <<>>, step)
  <2>1. step \in Stepping(N, Seq(S))
    BY <1>2 DEF Stepping
  <2> HIDE DEF step
  <2>2. <<>> \in Seq(S)
    OBVIOUS
  <2>3. QED
    BY <1>1, <2>1, <2>2, RunExists
<1>4. f = Body(f)
  <2>1. f \in [0 .. N -> Seq(S)] /\ f[0] = <<>>
    BY <1>3 DEF IsRun
  <2>2. ASSUME NEW n \in 1 .. N
        PROVE  f[n] = IF q[n] \in T THEN Append(f[n - 1], q[n]) ELSE f[n - 1]
    <3>1. f[n] = step[n][f[n - 1]] /\ f[n - 1] \in Seq(S)
      <4>1. n - 1 \in 0 .. N
        BY <1>1
      <4> HIDE DEF step
      <4>2. QED
        BY <1>3, <2>1, <4>1 DEF IsRun
    <3>2. QED
      BY <3>1
  <2>3. \A n \in 0 .. N : n = 0 \/ n \in 1 .. N
    BY <1>1
  <2>4. QED
    BY <2>1, <2>2, <2>3
<1>5. k = Body(k)
  BY <1>4
<1>6. Keep(q, T) = k[N]
  BY <1>1 DEF Keep
<1> HIDE DEF k, step
<1>7. k[0] = <<>> /\ \A n \in 1 .. N : k[n] = IF q[n] \in T THEN Append(k[n - 1], q[n]) ELSE k[n - 1]
  <2>1. 0 \in 0 .. N /\ \A n \in 1 .. N : n \in 0 .. N /\ n # 0
    BY <1>1
  <2>2. QED
    BY <1>5, <2>1
<1>8. QED
  BY <1>1, <1>6, <1>7

\* Keep returns the elements of the set, each as often as before.
LEMMA KeepFacts ==
  ASSUME NEW S, NEW q \in Seq(S), NEW T
  PROVE  /\ Keep(q, T) \in Seq(S)
         /\ ToSet(Keep(q, T)) = ToSet(q) \intersect T
         /\ IsInjective(q) => IsInjective(Keep(q, T))
<1>1. PICK N \in Nat : N = Len(q)
  OBVIOUS
<1>2. \A n \in 1 .. N : q[n] \in S
  BY <1>1
<1>3. PICK k : /\ Keep(q, T) = k[N] /\ k[0] = <<>>
               /\ \A n \in 1 .. N : k[n] = IF q[n] \in T THEN Append(k[n - 1], q[n]) ELSE k[n - 1]
  <2>1. \E k : /\ Keep(q, T) = k[Len(q)] /\ k[0] = <<>>
               /\ \A n \in 1 .. Len(q) :
                    k[n] = IF q[n] \in T THEN Append(k[n - 1], q[n]) ELSE k[n - 1]
    BY KeepRuns
  <2>2. QED
    BY <1>1, <2>1, Zenon
<1>6. Keep(q, T) = k[N]
  BY <1>3
<1>7. k[0] = <<>> /\ \A n \in 1 .. N : k[n] = IF q[n] \in T THEN Append(k[n - 1], q[n]) ELSE k[n - 1]
  BY <1>3
<1> DEFINE Seen(n) == {q[i] : i \in 1 .. n}
           Good(n) == /\ k[n] \in Seq(S)
                      /\ ToSet(k[n]) = Seen(n) \intersect T
                      /\ IsInjective(q) => IsInjective(k[n])
           G == {n \in 0 .. N : Good(n)}
<1>8. Good(0)
  BY <1>7 DEF ToSet, IsInjective
<1>9. ASSUME NEW n \in 1 .. N, Good(n - 1)
      PROVE  Good(n)
  <2>1. Seen(n) = Seen(n - 1) \union {q[n]}
    <3>1. \A i \in 1 .. n : i \in 1 .. n - 1 \/ i = n
      BY <1>1
    <3>2. n \in 1 .. n /\ \A i \in 1 .. n - 1 : i \in 1 .. n
      BY <1>1
    <3>3. QED
      BY <3>1, <3>2
  <2>2. ASSUME IsInjective(q)
        PROVE  q[n] \notin Seen(n - 1)
    <3>1. \A i \in 1 .. n - 1 : i \in DOMAIN q /\ n \in DOMAIN q /\ i # n
      BY <1>1
    <3>2. QED
      BY <2>2, <3>1 DEF IsInjective
  <2> HIDE DEF Seen
  <2>3. CASE q[n] \in T
    <3>1. k[n] = Append(k[n - 1], q[n]) /\ q[n] \in S
      BY <1>2, <1>7, <2>3
    <3>2. /\ Append(k[n - 1], q[n]) \in Seq(S)
          /\ ToSet(Append(k[n - 1], q[n])) = ToSet(k[n - 1]) \union {q[n]}
          /\ IsInjective(k[n - 1]) /\ q[n] \notin ToSet(k[n - 1])
               => IsInjective(Append(k[n - 1], q[n]))
      BY <1>9, <3>1, AppendFacts
    <3>3. QED
      BY <1>9, <2>1, <2>2, <2>3, <3>1, <3>2
  <2>4. CASE q[n] \notin T
    BY <1>7, <1>9, <2>1, <2>2, <2>4
  <2>5. QED
    BY <2>3, <2>4
<1>10. G = 0 .. N
  <2> HIDE DEF Good
  <2>1. 0 \in G /\ \A n \in 1 .. N : n - 1 \in G => n \in G
    BY <1>1, <1>8, <1>9
  <2>2. G \in SUBSET (0 .. N)
    OBVIOUS
  <2> HIDE DEF G
  <2>3. QED
    BY <1>1, <2>1, <2>2, Upwards
<1>11. Good(N)
  <2> HIDE DEF Good
  <2>1. \A n \in G : Good(n)
    OBVIOUS
  <2> HIDE DEF G
  <2>2. N \in G
    BY <1>1, <1>10
  <2>3. QED
    BY <2>1, <2>2
<1>12. Seen(N) = ToSet(q)
  BY <1>1 DEF ToSet
<1>13. QED
  BY <1>6, <1>11, <1>12
\* Nothing is lost where everything is kept.
LEMMA KeepAll ==
  ASSUME NEW S, NEW q \in Seq(S), NEW T, ToSet(q) \subseteq T
  PROVE  Keep(q, T) = q
<1>1. PICK N \in Nat : N = Len(q)
  OBVIOUS
<1>2. PICK k : /\ Keep(q, T) = k[N] /\ k[0] = <<>>
               /\ \A n \in 1 .. N : k[n] = IF q[n] \in T THEN Append(k[n - 1], q[n]) ELSE k[n - 1]
  <2>1. \E k : /\ Keep(q, T) = k[Len(q)] /\ k[0] = <<>>
               /\ \A n \in 1 .. Len(q) :
                    k[n] = IF q[n] \in T THEN Append(k[n - 1], q[n]) ELSE k[n - 1]
    BY KeepRuns
  <2>2. QED
    BY <1>1, <2>1, Zenon
<1>3. \A n \in 1 .. N : q[n] \in T
  <2>1. DOMAIN q = 1 .. N
    BY <1>1
  <2>2. QED
    BY <2>1 DEF ToSet
<1> DEFINE g == [n \in 0 .. N |-> SubSeq(q, 1, n)]
<1>4. g[0] = <<>>
  <2>1. g[0] = SubSeq(q, 1, 0)
    BY <1>1
  <2>2. QED
    BY <2>1, SubSeqEmpty
<1>5. ASSUME NEW n \in 1 .. N
      PROVE  g[n] = Append(g[n - 1], q[n])
  <2>1. g[n] = SubSeq(q, 1, n) /\ g[n - 1] = SubSeq(q, 1, n - 1)
    BY <1>1
  <2>2. 1 \in 1 .. Len(q) /\ n \in 1 .. Len(q) /\ n - 1 \in 0 .. Len(q) /\ q[n] \in S
    BY <1>1
  <2>3. SubSeq(q, 1, n) = SubSeq(q, 1, n - 1) \o <<q[n]>>
    BY <2>2, SubSeqRecursiveSecond
  <2>4. SubSeq(q, 1, n - 1) \in Seq(S)
    <3>1. \A i \in 1 .. n - 1 : q[i] \in S
      BY <1>1
    <3>2. n - 1 \in Int
      BY <1>1
    <3>3. QED
      BY <3>1, <3>2, SubSeqProperties
  <2>5. Append(SubSeq(q, 1, n - 1), q[n]) = SubSeq(q, 1, n - 1) \o <<q[n]>>
    BY <2>2, <2>4, AppendIsConcat
  <2>6. QED
    BY <2>1, <2>3, <2>5
<1>6. \A n \in 1 .. N : k[n] = Append(k[n - 1], q[n])
  BY <1>2, <1>3
<1>7. g[N] = q
  <2>1. g[N] = SubSeq(q, 1, Len(q))
    BY <1>1
  <2>2. QED
    BY <2>1, SubSeqFull
<1> HIDE DEF g
<1>8. \A n \in 0 .. N : k[n] = g[n]
  <2>1. k[0] = g[0]
    BY <1>2, <1>4
  <2>2. \A n \in 1 .. N : k[n - 1] = g[n - 1] => k[n] = g[n]
    BY <1>5, <1>6
  <2>3. PICK f : f = g
    OBVIOUS
  <2>4. \A n \in 0 .. N : k[n] = f[n]
    BY <2>1, <2>2, <2>3, RunsAgree, SMTT(30)
  <2>5. QED
    BY <2>3, <2>4
<1>9. QED
  BY <1>1, <1>2, <1>7, <1>8

\* What a sequence has in it when another is put into it.
LEMMA SpliceFacts ==
  ASSUME NEW S, NEW q \in Seq(S), NEW r \in Seq(S), NEW at \in 1 .. Len(q) + 1
  PROVE  LET c == SubSeq(q, 1, at - 1) \o r \o SubSeq(q, at, Len(q))
         IN /\ c \in Seq(S)
            /\ ToSet(c) = ToSet(q) \union ToSet(r)
            /\ IsInjective(q) /\ IsInjective(r) /\ ToSet(q) \intersect ToSet(r) = {} => IsInjective(c)
<1>1. PICK N \in Nat : N = Len(q) /\ DOMAIN q = 1 .. N
  OBVIOUS
<1> DEFINE a == SubSeq(q, 1, at - 1)
           z == SubSeq(q, at, N)
<1>2. \A i \in 1 .. N : q[i] \in S
  BY <1>1
<1>3. /\ a \in Seq(S) /\ Len(a) = at - 1 /\ DOMAIN a = 1 .. at - 1
      /\ \A i \in 1 .. at - 1 : a[i] = q[i]
  <2>1. at - 1 \in Int /\ \A i \in 1 .. at - 1 : q[i] \in S
    BY <1>1, <1>2
  <2>2. /\ a \in Seq(S) /\ Len(a) = IF 1 <= at - 1 THEN at - 1 - 1 + 1 ELSE 0
        /\ \A i \in 1 .. at - 1 - 1 + 1 : a[i] = q[1 + i - 1]
    BY <2>1, SubSeqProperties
  <2> HIDE DEF a
  <2>3. Len(a) = at - 1
    BY <1>1, <2>2
  <2>4. \A i \in 1 .. at - 1 : i \in 1 .. at - 1 - 1 + 1 /\ 1 + i - 1 = i
    BY <1>1
  <2>5. QED
    BY <2>2, <2>3, <2>4
<1>4. /\ z \in Seq(S) /\ DOMAIN z = 1 .. N - at + 1
      /\ \A i \in 1 .. N - at + 1 : z[i] = q[at + i - 1]
  <2>1. at \in Int /\ N \in Int /\ \A i \in at .. N : q[i] \in S
    BY <1>1, <1>2
  <2>2. /\ z \in Seq(S) /\ Len(z) = IF at <= N THEN N - at + 1 ELSE 0
        /\ \A i \in 1 .. N - at + 1 : z[i] = q[at + i - 1]
    BY <2>1, SubSeqProperties
  <2> HIDE DEF z
  <2>3. Len(z) = N - at + 1
    BY <1>1, <2>2
  <2>4. QED
    BY <2>2, <2>3
<1> HIDE DEF a, z
<1>5. /\ \A i \in 1 .. N : i \in 1 .. at - 1 \/ (i - at + 1 \in 1 .. N - at + 1 /\ at + (i - at + 1) - 1 = i)
      /\ \A i \in 1 .. at - 1 : i \in 1 .. N /\ i < at
      /\ \A i \in 1 .. N - at + 1 : at + i - 1 \in 1 .. N /\ ~(at + i - 1 < at)
  BY <1>1
<1>6. ToSet(q) = ToSet(a) \union ToSet(z)
  <2>1. ASSUME NEW i \in 1 .. N
        PROVE  q[i] \in ToSet(a) \union ToSet(z)
    <3>1. CASE i \in 1 .. at - 1
      BY <1>3, <3>1 DEF ToSet
    <3>2. CASE i - at + 1 \in 1 .. N - at + 1 /\ at + (i - at + 1) - 1 = i
      <4>1. z[i - at + 1] = q[i]
        BY <1>4, <3>2
      <4>2. i - at + 1 \in DOMAIN z
        BY <1>4, <3>2
      <4>3. QED
        BY <4>1, <4>2 DEF ToSet
    <3>3. QED
      BY <1>5, <3>1, <3>2
  <2>2. ASSUME NEW i \in 1 .. at - 1
        PROVE  a[i] \in ToSet(q)
    BY <1>1, <1>3, <1>5 DEF ToSet
  <2>3. ASSUME NEW i \in 1 .. N - at + 1
        PROVE  z[i] \in ToSet(q)
    <3>1. at + i - 1 \in DOMAIN q /\ z[i] = q[at + i - 1]
      BY <1>1, <1>4, <1>5
    <3>2. QED
      BY <3>1 DEF ToSet
  <2>4. ToSet(q) = {q[i] : i \in 1 .. N} /\ ToSet(a) = {a[i] : i \in 1 .. at - 1}
          /\ ToSet(z) = {z[i] : i \in 1 .. N - at + 1}
    BY <1>1, <1>3, <1>4 DEF ToSet
  <2>5. QED
    BY <2>1, <2>2, <2>3, <2>4
<1>7. ASSUME IsInjective(q)
      PROVE  IsInjective(a) /\ IsInjective(z) /\ ToSet(a) \intersect ToSet(z) = {}
  <2>1. \A i, j \in 1 .. N : q[i] = q[j] => i = j
    BY <1>1, <1>7 DEF IsInjective
  <2>2. IsInjective(a)
    <3>1. SUFFICES ASSUME NEW i \in 1 .. at - 1, NEW j \in 1 .. at - 1, a[i] = a[j]
                   PROVE  i = j
      BY <1>3 DEF IsInjective
    <3>2. QED
      BY <1>3, <1>5, <2>1, <3>1
  <2>3. IsInjective(z)
    <3>1. SUFFICES ASSUME NEW i \in 1 .. N - at + 1, NEW j \in 1 .. N - at + 1, z[i] = z[j]
                   PROVE  i = j
      BY <1>4 DEF IsInjective
    <3>2. q[at + i - 1] = q[at + j - 1]
      BY <1>4, <3>1
    <3>3. at + i - 1 = at + j - 1
      BY <1>5, <2>1, <3>2
    <3>4. QED
      BY <1>1, <3>3
  <2>4. ASSUME NEW i \in 1 .. at - 1, NEW j \in 1 .. N - at + 1, a[i] = z[j]
        PROVE  FALSE
    <3>1. q[i] = q[at + j - 1]
      BY <1>3, <1>4, <2>4
    <3>2. i = at + j - 1
      BY <1>5, <2>1, <3>1
    <3>3. QED
      BY <1>5, <3>2
  <2>5. ToSet(a) \intersect ToSet(z) = {}
    BY <1>3, <1>4, <2>4 DEF ToSet
  <2>6. QED
    BY <2>2, <2>3, <2>5
<1>8. /\ a \o r \in Seq(S)
      /\ ToSet(a \o r) = ToSet(a) \union ToSet(r)
      /\ IsInjective(a) /\ IsInjective(r) /\ ToSet(a) \intersect ToSet(r) = {} => IsInjective(a \o r)
  BY <1>3, ConcatFacts
<1> DEFINE ar == a \o r
<1> HIDE DEF ar
<1>9. /\ ar \o z \in Seq(S)
      /\ ToSet(ar \o z) = ToSet(ar) \union ToSet(z)
      /\ IsInjective(ar) /\ IsInjective(z) /\ ToSet(ar) \intersect ToSet(z) = {} => IsInjective(ar \o z)
  <2>1. ar \in Seq(S)
    BY <1>8 DEF ar
  <2>2. QED
    BY <1>4, <2>1, ConcatFacts
<1>10. /\ ToSet(ar) = ToSet(a) \union ToSet(r)
       /\ IsInjective(a) /\ IsInjective(r) /\ ToSet(a) \intersect ToSet(r) = {} => IsInjective(ar)
  BY <1>8 DEF ar
<1>11. ar \o z = SubSeq(q, 1, at - 1) \o r \o SubSeq(q, at, Len(q))
  BY <1>1 DEF ar, a, z
<1>12. /\ ToSet(ar \o z) = ToSet(q) \union ToSet(r)
       /\ IsInjective(q) /\ IsInjective(r) /\ ToSet(q) \intersect ToSet(r) = {} => IsInjective(ar \o z)
  BY <1>6, <1>7, <1>9, <1>10
<1>13. QED
  BY <1>9, <1>11, <1>12
-----------------------------------------------------------------------------
(* Deleting statements.                                                    *)

\* Statements are numbered from 1.
Numbered == node \in Seq(ToSet(node))

\* The numbers of the statements.
LEMMA NumberFacts ==
  ASSUME Numbered
  PROVE  Len(node) \in Nat /\ Ids = 1 .. Len(node)
<1>1. PICK N \in Nat : N = Len(node) /\ DOMAIN node = 1 .. N
  <2>1. Len(node) \in Nat /\ DOMAIN node = 1 .. Len(node)
    BY LenProperties DEF Numbered
  <2>2. QED
    BY <2>1
<1>2. QED
  BY <1>1 DEF Ids

\* The programs with blocks D.
Programs(D) ==
  [stms : [D -> Seq(Ids)], deleted : [D -> Seq(Ids)], parent : [Ids -> D],
   edges : SUBSET Ids, blocks : SUBSET Int, live : SUBSET Int, undefined : BOOLEAN]

\* What is in a block or was deleted from it.
Placed(p, k) == ToSet(p.stms[k]) \union ToSet(p.deleted[k])

\* No statement is there twice.
Neat(p, k) ==
  /\ IsInjective(p.stms[k]) /\ IsInjective(p.deleted[k])
  /\ ToSet(p.stms[k]) \intersect ToSet(p.deleted[k]) = {}

Proper(p) ==
  /\ p \in Programs(DOMAIN p.stms) /\ DOMAIN p.stms \subseteq Int
  /\ \A k \in DOMAIN p.stms : Neat(p, k)
  /\ \A g \in p.edges : Kind(g) = "goto"

\* The programs p may become when some of the statements L, and gotos, are
\* deleted.  While iterators into blocks V are valid, these are as they were.
Reduced(p, L, V) ==
  {q \in Programs(DOMAIN p.stms) :
     /\ q.parent = p.parent /\ q.edges \subseteq p.edges /\ q.blocks \subseteq p.blocks
     /\ p.undefined => q.undefined
     /\ \A k \in DOMAIN p.stms :
          /\ Neat(q, k)
          /\ Placed(q, k) = Placed(p, k)
          /\ ToSet(q.stms[k]) \subseteq ToSet(p.stms[k])
          /\ \A x \in ToSet(p.stms[k]) \ ToSet(q.stms[k]) : x \in L \/ Kind(x) = "goto"
     /\ q.undefined \/ \A k \in V \intersect DOMAIN p.stms : q.stms[k] = p.stms[k]}

\* Gotos that go with a statement have an edge.
LEMMA SourcesAreEdges ==
  ASSUME Numbered, NEW p, p.edges \subseteq Ids, NEW s
  PROVE  Sources(p, s) \subseteq p.edges
<1> DEFINE jumps == p.edges \ Within(p, s)
           M == Cardinality(jumps)
           first == {g \in jumps : ContainsStmt(p, s, node[g].dest)}
           S == SUBSET jumps
           more(X) == X \union {g \in jumps : node[g].dest \in X}
           Body(h) == [n \in 0 .. M |-> LET found == h[n - 1]
                         IN IF n = 0 THEN first
                            ELSE found \union {g \in jumps : node[g].dest \in found}]
           k == CHOOSE h : h = Body(h)
           step == [n \in 1 .. M |-> [X \in S |-> more(X)]]
<1>1. M \in Nat
  <2>1. IsFiniteSet(Ids)
    <3>1. 1 \in Int /\ Len(node) \in Int /\ Ids = 1 .. Len(node)
      BY NumberFacts
    <3>2. QED
      BY <3>1, FS_Interval
  <2>2. jumps \in SUBSET Ids
    OBVIOUS
  <2>3. IsFiniteSet(jumps)
    BY <2>1, <2>2, FS_Subset
  <2>4. QED
    BY <2>3, FS_CardinalityType
<1>2. first \in S /\ \A X \in S : more(X) \in S
  OBVIOUS
<1>3. Sources(p, s) = k[M]
  BY DEF Sources
<1>4. jumps \subseteq p.edges
  OBVIOUS
<1> HIDE DEF jumps, M, first, more
<1>5. PICK f : IsRun(f, M, S, first, step)
  <2>1. step \in Stepping(M, S)
    BY <1>2 DEF Stepping
  <2> HIDE DEF step
  <2>2. QED
    BY <1>1, <1>2, <2>1, RunExists
<1>6. f \in [0 .. M -> S] /\ f[0] = first /\ \A n \in 1 .. M : f[n] = more(f[n - 1])
  <2>1. f \in [0 .. M -> S] /\ f[0] = first
    BY <1>5 DEF IsRun
  <2>2. ASSUME NEW n \in 1 .. M
        PROVE  f[n] = more(f[n - 1])
    <3>1. n - 1 \in 0 .. M
      BY <1>1
    <3>2. f[n - 1] \in S
      BY <2>1, <3>1
    <3>3. f[n] = step[n][f[n - 1]]
      BY <1>5 DEF IsRun
    <3>4. QED
      BY <3>2, <3>3
  <2>3. QED
    BY <2>1, <2>2
<1>7. f = Body(f)
  <2>1. \A n \in 0 .. M : n = 0 \/ n \in 1 .. M
    BY <1>1
  <2>2. QED
    BY <1>6, <2>1 DEF more
<1>8. k = Body(k)
  BY <1>7
<1> HIDE DEF k
<1>9. k[0] = first /\ \A n \in 1 .. M : k[n] = more(k[n - 1])
  <2>1. 0 \in 0 .. M /\ \A n \in 1 .. M : n \in 0 .. M /\ n # 0
    BY <1>1
  <2>2. QED
    BY <1>8, <2>1 DEF more
<1>10. k[M] = f[M]
  <2>1. \A n \in 1 .. M : k[n - 1] = f[n - 1] => k[n] = f[n]
    BY <1>6, <1>9
  <2>2. \A n \in 0 .. M : k[n] = f[n]
    <3>1. k[0] = f[0]
      BY <1>6, <1>9
    <3>2. QED
      BY <1>1, <2>1, <3>1, RunsAgree
  <2>3. QED
    BY <1>1, <2>2
<1>11. f[M] \subseteq jumps
  <2>1. M \in 0 .. M
    BY <1>1
  <2>2. QED
    BY <1>6, <2>1
<1>12. QED
  BY <1>3, <1>4, <1>10, <1>11
\* Deleting one of the statements L (Block::remove_stmt).
LEMMA RemoveStmtReduces ==
  ASSUME Numbered, NEW p, NEW L, NEW V, Proper(p),
         NEW q \in Reduced(p, L, V), V \subseteq q.live, NEW b, NEW s \in L
  PROVE  RemoveStmt(q, b, s) \in Reduced(p, L, V) /\ RemoveStmt(q, b, s).live = q.live
<1> DEFINE D == DOMAIN p.stms
           r == RemoveStmt(q, b, s)
           sources == Sources(q, s)
           From(k) == {g \in sources : q.parent[g] = k} \union (IF k = b THEN {s} ELSE {})
<1>1. /\ q \in Programs(D) /\ q.parent = p.parent /\ q.edges \subseteq p.edges
      /\ q.blocks \subseteq p.blocks
      /\ p.undefined => q.undefined
      /\ \A k \in D : /\ Neat(q, k) /\ Placed(q, k) = Placed(p, k)
                      /\ ToSet(q.stms[k]) \subseteq ToSet(p.stms[k])
                      /\ \A x \in ToSet(p.stms[k]) \ ToSet(q.stms[k]) : x \in L \/ Kind(x) = "goto"
      /\ q.undefined \/ \A k \in V \intersect D : q.stms[k] = p.stms[k]
  BY DEF Reduced
<1>2. /\ q.stms \in [D -> Seq(Ids)] /\ q.deleted \in [D -> Seq(Ids)] /\ q.edges \in SUBSET Ids
      /\ q.blocks \in SUBSET Int /\ q.live \in SUBSET Int /\ q.undefined \in BOOLEAN
      /\ q.parent \in [Ids -> D]
  BY <1>1 DEF Programs
<1>3. sources \subseteq q.edges /\ \A g \in sources : Kind(g) = "goto"
  <2>1. sources \subseteq q.edges
    BY <1>2, SourcesAreEdges
  <2>2. QED
    BY <1>1, <2>1 DEF Proper
<1>4. /\ r.stms = [k \in D |-> Keep(q.stms[k], Ids \ From(k))]
      /\ r.deleted = [k \in D |-> q.deleted[k] \o Keep(q.stms[k], From(k))]
      /\ r.edges = q.edges \ (Within(q, s) \union sources)
      /\ r.blocks = {k \in q.blocks : k = 0 \/ BlocksOf(s) \intersect Nest(k) = {}}
      /\ r.undefined = (q.undefined \/ \E k \in q.live : From(k) \intersect ToSet(q.stms[k]) # {})
      /\ r.parent = q.parent /\ r.live = q.live
      /\ r = [stms |-> r.stms, deleted |-> r.deleted, parent |-> r.parent, edges |-> r.edges,
              blocks |-> r.blocks, live |-> r.live, undefined |-> r.undefined]
  <2> HIDE DEF sources
  <2>1. r = [q EXCEPT !.stms = [k \in DOMAIN @ |-> Keep(@[k], Ids \ From(k))],
               !.deleted = [k \in DOMAIN @ |-> @[k] \o Keep(q.stms[k], From(k))],
               !.edges = @ \ (Within(q, s) \union sources),
               !.blocks = {k \in @ : k = 0 \/ BlocksOf(s) \intersect Nest(k) = {}},
               !.undefined = @ \/ \E k \in q.live : From(k) \intersect ToSet(q.stms[k]) # {}]
    BY DEF RemoveStmt, sources
  <2> HIDE DEF r, From
  <2>2. q \in Programs(D) /\ DOMAIN q.stms = D /\ DOMAIN q.deleted = D
    BY <1>1, <1>2
  <2>3. QED
    BY <2>1, <2>2 DEF Programs
<1> HIDE DEF r, sources
<1>5. ASSUME NEW k \in D
      PROVE  LET kept == Keep(q.stms[k], Ids \ From(k))
                 gone == Keep(q.stms[k], From(k))
             IN /\ kept \in Seq(Ids) /\ IsInjective(kept)
                /\ ToSet(kept) = ToSet(q.stms[k]) \ From(k)
                /\ gone \in Seq(Ids) /\ IsInjective(gone)
                /\ ToSet(gone) = ToSet(q.stms[k]) \intersect From(k)
                /\ ToSet(q.stms[k]) \subseteq Ids
  <2>1. q.stms[k] \in Seq(Ids) /\ IsInjective(q.stms[k])
    BY <1>1, <1>2 DEF Neat
  <2>2. ToSet(q.stms[k]) \subseteq Ids
    BY <2>1 DEF ToSet
  <2> HIDE DEF From
  <2>3. /\ Keep(q.stms[k], Ids \ From(k)) \in Seq(Ids)
        /\ ToSet(Keep(q.stms[k], Ids \ From(k))) = ToSet(q.stms[k]) \intersect (Ids \ From(k))
        /\ IsInjective(Keep(q.stms[k], Ids \ From(k)))
    BY <2>1, KeepFacts
  <2>4. /\ Keep(q.stms[k], From(k)) \in Seq(Ids)
        /\ ToSet(Keep(q.stms[k], From(k))) = ToSet(q.stms[k]) \intersect From(k)
        /\ IsInjective(Keep(q.stms[k], From(k)))
    BY <2>1, KeepFacts
  <2>5. QED
    BY <2>2, <2>3, <2>4
<1>6. ASSUME NEW k \in D
      PROVE  /\ r.stms[k] \in Seq(Ids) /\ r.deleted[k] \in Seq(Ids)
             /\ Neat(r, k)
             /\ Placed(r, k) = Placed(q, k)
             /\ ToSet(r.stms[k]) = ToSet(q.stms[k]) \ From(k)
  <2> DEFINE kept == Keep(q.stms[k], Ids \ From(k))
             gone == Keep(q.stms[k], From(k))
             old == q.deleted[k]
  <2>1. r.stms[k] = kept /\ r.deleted[k] = old \o gone
    BY <1>4
  <2>2. /\ kept \in Seq(Ids) /\ IsInjective(kept)
        /\ ToSet(kept) = ToSet(q.stms[k]) \ From(k)
        /\ gone \in Seq(Ids) /\ IsInjective(gone)
        /\ ToSet(gone) = ToSet(q.stms[k]) \intersect From(k)
    BY <1>5
  <2>3. /\ old \in Seq(Ids) /\ IsInjective(old)
        /\ ToSet(q.stms[k]) \intersect ToSet(old) = {}
    BY <1>1, <1>2 DEF Neat
  <2> HIDE DEF kept, gone, old, From
  <2>4. /\ old \o gone \in Seq(Ids)
        /\ ToSet(old \o gone) = ToSet(old) \union ToSet(gone)
        /\ ToSet(old) \intersect ToSet(gone) = {} => IsInjective(old \o gone)
    BY <2>2, <2>3, ConcatFacts
  <2>5. Neat(r, k)
    BY <2>1, <2>2, <2>3, <2>4 DEF Neat
  <2>6. Placed(r, k) = Placed(q, k)
    BY <2>1, <2>2, <2>4 DEF Placed, old
  <2>7. QED
    BY <2>1, <2>2, <2>4, <2>5, <2>6
<1>7. r \in Programs(D)
  <2>1. r.stms \in [D -> Seq(Ids)] /\ r.deleted \in [D -> Seq(Ids)]
    BY <1>4, <1>6
  <2>2. /\ r.edges \in SUBSET Ids /\ r.blocks \in SUBSET Int /\ r.live \in SUBSET Int
        /\ r.undefined \in BOOLEAN /\ r.parent \in [Ids -> D]
    <3> HIDE DEF From
    <3>1. QED
      BY <1>2, <1>4
  <2>3. QED
    BY <1>4, <2>1, <2>2 DEF Programs
<1>8. ASSUME NEW k \in D
      PROVE  /\ Neat(r, k)
             /\ Placed(r, k) = Placed(p, k)
             /\ ToSet(r.stms[k]) \subseteq ToSet(p.stms[k])
             /\ \A x \in ToSet(p.stms[k]) \ ToSet(r.stms[k]) : x \in L \/ Kind(x) = "goto"
  <2>1. \A x \in From(k) : x \in L \/ Kind(x) = "goto"
    BY <1>3
  <2> HIDE DEF From
  <2>2. /\ Placed(q, k) = Placed(p, k)
        /\ ToSet(q.stms[k]) \subseteq ToSet(p.stms[k])
        /\ \A x \in ToSet(p.stms[k]) \ ToSet(q.stms[k]) : x \in L \/ Kind(x) = "goto"
    BY <1>1
  <2>3. QED
    BY <1>6, <2>1, <2>2
<1>9. r.undefined \/ \A k \in V \intersect D : r.stms[k] = p.stms[k]
  <2>1. SUFFICES ASSUME ~r.undefined, NEW k \in V \intersect D
                 PROVE  r.stms[k] = p.stms[k]
    OBVIOUS
  <2> HIDE DEF From
  <2>2. k \in q.live /\ ~q.undefined /\ From(k) \intersect ToSet(q.stms[k]) = {}
    BY <1>4, <2>1
  <2>3. q.stms[k] \in Seq(Ids) /\ ToSet(q.stms[k]) \subseteq Ids
    BY <1>2, <1>5
  <2>4. ToSet(q.stms[k]) \subseteq Ids \ From(k)
    BY <2>2, <2>3
  <2>5. Keep(q.stms[k], Ids \ From(k)) = q.stms[k]
    BY <2>3, <2>4, KeepAll
  <2>6. r.stms[k] = Keep(q.stms[k], Ids \ From(k))
    BY <1>4
  <2>7. QED
    BY <1>1, <2>2, <2>5, <2>6
<1>10. /\ r.parent = p.parent /\ r.edges \subseteq p.edges /\ r.blocks \subseteq p.blocks
       /\ p.undefined => r.undefined
  <2> HIDE DEF From
  <2>1. QED
    BY <1>1, <1>4
<1>11. r \in Reduced(p, L, V)
  BY <1>7, <1>8, <1>9, <1>10 DEF Reduced
<1>12. QED
  BY <1>4, <1>11 DEF r
\* A program none of whose statements has been deleted yet.
LEMMA ReducedStart ==
  ASSUME NEW p, NEW L, NEW V, Proper(p)
  PROVE  p \in Reduced(p, L, V)
  BY DEF Proper, Reduced

\* Without gotos nothing else is deleted, and no iterator is invalidated but
\* those into the block itself.
LEMMA RemoveStmtIsLocal ==
  ASSUME Numbered, NEW D, NEW q \in Programs(D), q.edges = {}, NEW b, b \notin q.live, NEW s
  PROVE  RemoveStmt(q, b, s).undefined = q.undefined
<1> DEFINE sources == Sources(q, s)
           From(k) == {g \in sources : q.parent[g] = k} \union (IF k = b THEN {s} ELSE {})
<1>1. sources = {}
  <2>1. q.edges \subseteq Ids
    BY DEF Programs
  <2>2. QED
    BY <2>1, SourcesAreEdges
<1>2. RemoveStmt(q, b, s).undefined = (q.undefined \/ \E k \in q.live : From(k) \intersect ToSet(q.stms[k]) # {})
  BY DEF RemoveStmt, Programs
<1>3. \A k \in q.live : From(k) = {}
  BY <1>1
<1> HIDE DEF From
<1>4. QED
  BY <1>2, <1>3 DEF Programs

\* Where iterators stay valid.
Unharmed(p, b) == p.edges = {} /\ b \notin p.live /\ ~p.undefined

\* Deleting statements one after another.
LEMMA RemoveAllReduces ==
  ASSUME Numbered, NEW p, NEW L, NEW V, Proper(p), V \subseteq p.live, NEW b, NEW list \in Seq(L)
  PROVE  /\ RemoveAll(p, b, list) \in Reduced(p, L, V)
         /\ RemoveAll(p, b, list).live = p.live
         /\ Unharmed(p, b) => ~RemoveAll(p, b, list).undefined
<1>1. PICK N \in Nat : N = Len(list) /\ \A n \in 1 .. N : list[n] \in L
  OBVIOUS
<1> DEFINE S == {q \in Reduced(p, L, V) : q.live = p.live /\ (Unharmed(p, b) => ~q.undefined)}
           Body(h) == [n \in 0 .. N |-> IF n = 0 THEN p ELSE RemoveStmt(h[n - 1], b, list[n])]
           k == CHOOSE h : h = Body(h)
           step == [n \in 1 .. N |-> [q \in S |-> RemoveStmt(q, b, list[n])]]
<1>2. p \in S
  BY ReducedStart DEF Unharmed
<1>3. ASSUME NEW q \in S, NEW n \in 1 .. N
      PROVE  RemoveStmt(q, b, list[n]) \in S
  <2>1. q \in Reduced(p, L, V) /\ V \subseteq q.live /\ list[n] \in L
    BY <1>1, <1>3
  <2>2. /\ RemoveStmt(q, b, list[n]) \in Reduced(p, L, V)
        /\ RemoveStmt(q, b, list[n]).live = q.live
    BY <2>1, RemoveStmtReduces
  <2>3. ASSUME Unharmed(p, b)
        PROVE  ~RemoveStmt(q, b, list[n]).undefined
    <3>1. q \in Programs(DOMAIN p.stms) /\ q.edges = {} /\ b \notin q.live /\ ~q.undefined
      BY <1>3, <2>3 DEF Unharmed, Reduced
    <3>2. QED
      BY <3>1, RemoveStmtIsLocal
  <2>4. QED
    BY <2>2, <2>3
<1>4. RemoveAll(p, b, list) = k[N]
  BY <1>1 DEF RemoveAll
<1> HIDE DEF S
<1>5. PICK f : IsRun(f, N, S, p, step)
  <2>1. step \in Stepping(N, S)
    BY <1>3 DEF Stepping
  <2> HIDE DEF step
  <2>2. QED
    BY <1>1, <1>2, <2>1, RunExists
<1>6. f = Body(f)
  <2>1. f \in [0 .. N -> S] /\ f[0] = p
    BY <1>5 DEF IsRun
  <2>2. ASSUME NEW n \in 1 .. N
        PROVE  f[n] = RemoveStmt(f[n - 1], b, list[n])
    <3>1. n - 1 \in 0 .. N
      BY <1>1
    <3>2. f[n - 1] \in S
      BY <2>1, <3>1
    <3>3. f[n] = step[n][f[n - 1]]
      BY <1>5 DEF IsRun
    <3>4. QED
      BY <3>2, <3>3
  <2>3. \A n \in 0 .. N : n = 0 \/ n \in 1 .. N
    BY <1>1
  <2>4. QED
    BY <2>1, <2>2, <2>3
<1>7. k = Body(k)
  BY <1>6
<1> HIDE DEF k
<1>8. k[0] = p /\ \A n \in 1 .. N : k[n] = RemoveStmt(k[n - 1], b, list[n])
  <2>1. 0 \in 0 .. N /\ \A n \in 1 .. N : n \in 0 .. N /\ n # 0
    BY <1>1
  <2>2. QED
    BY <1>7, <2>1
<1>9. k[N] \in S
  <2>1. \A n \in 1 .. N : k[n - 1] \in S => k[n] \in S
    BY <1>3, <1>8
  <2>2. \A n \in 0 .. N : k[n] \in S
    BY <1>2, <1>8, <2>1, RunsStay
  <2>3. QED
    BY <1>1, <2>2
<1>10. QED
  BY <1>4, <1>9 DEF S

\* What follows a statement at which the analysis fails is deleted.
LEMMA TruncateReduces ==
  ASSUME Numbered, NEW p, Proper(p), NEW b \in DOMAIN p.stms, NEW i \in Nat \ {0}
  PROVE  /\ Truncate(p, b, i) \in Reduced(p, Ids, {})
         /\ Truncate(p, b, i).live = p.live
         /\ p.live = {} /\ ~p.undefined => ~Truncate(p, b, i).undefined
<1>1. PICK N \in Nat : N = Len(p.stms[b])
  <2>1. p.stms[b] \in Seq(Ids)
    BY DEF Proper, Programs
  <2>2. QED
    BY <2>1
<1> DEFINE S == {q \in Reduced(p, Ids, {}) :
                   q.live = p.live /\ (p.live = {} /\ ~p.undefined => ~q.undefined)}
           Cut(q) == IF i > Len(q.stms[b]) THEN q ELSE RemoveStmt(q, b, q.stms[b][i])
           Body(h) == [n \in 0 .. N |->
                         IF n = 0 THEN p
                         ELSE LET q == h[n - 1]
                              IN IF i > Len(q.stms[b]) THEN q ELSE RemoveStmt(q, b, q.stms[b][i])]
           k == CHOOSE h : h = Body(h)
           step == [n \in 1 .. N |-> [q \in S |-> Cut(q)]]
<1>2. p \in S
  BY ReducedStart
<1>3. ASSUME NEW q \in S
      PROVE  Cut(q) \in S
  <2>1. q \in Reduced(p, Ids, {}) /\ q \in Programs(DOMAIN p.stms)
    BY <1>3 DEF Reduced
  <2>2. CASE ~(i > Len(q.stms[b]))
    <3>1. q.stms[b] \in Seq(Ids)
      BY <2>1 DEF Programs
    <3>2. q.stms[b][i] \in Ids
      BY <2>2, <3>1
    <3> DEFINE x == q.stms[b][i]
    <3> HIDE DEF x
    <3>3. /\ RemoveStmt(q, b, x) \in Reduced(p, Ids, {})
          /\ RemoveStmt(q, b, x).live = q.live
      BY <2>1, <3>2, RemoveStmtReduces DEF x
    <3>4. ASSUME p.live = {}, ~p.undefined
          PROVE  ~RemoveStmt(q, b, x).undefined
      <4>1. q.live = {} /\ ~q.undefined
        BY <1>3, <3>4
      <4>2. RemoveStmt(q, b, x).undefined = (q.undefined \/ \E l \in q.live :
              ({g \in Sources(q, x) : q.parent[g] = l} \union (IF l = b THEN {x} ELSE {}))
                \intersect ToSet(q.stms[l]) # {})
        BY <2>1 DEF RemoveStmt, Programs
      <4>3. QED
        BY <4>1, <4>2
    <3>5. RemoveStmt(q, b, x) \in S
      BY <1>3, <3>3, <3>4
    <3>6. QED
      BY <2>2, <3>5 DEF x
  <2>3. CASE i > Len(q.stms[b])
    BY <1>3, <2>3
  <2>4. QED
    BY <2>2, <2>3
<1>4. Truncate(p, b, i) = k[N]
  BY <1>1 DEF Truncate
<1> HIDE DEF S
<1>5. PICK f : IsRun(f, N, S, p, step)
  <2>1. step \in Stepping(N, S)
    BY <1>3 DEF Stepping
  <2> HIDE DEF step
  <2>2. QED
    BY <1>1, <1>2, <2>1, RunExists
<1>6. f = Body(f)
  <2>1. f \in [0 .. N -> S] /\ f[0] = p
    BY <1>5 DEF IsRun
  <2>2. ASSUME NEW n \in 1 .. N
        PROVE  f[n] = Cut(f[n - 1])
    <3>1. n - 1 \in 0 .. N
      BY <1>1
    <3>2. f[n - 1] \in S
      BY <2>1, <3>1
    <3>3. f[n] = step[n][f[n - 1]]
      BY <1>5 DEF IsRun
    <3>4. QED
      BY <3>2, <3>3
  <2>3. \A n \in 0 .. N : n = 0 \/ n \in 1 .. N
    BY <1>1
  <2>4. QED
    BY <2>1, <2>2, <2>3
<1>7. k = Body(k)
  BY <1>6
<1> HIDE DEF k
<1>8. k[0] = p /\ \A n \in 1 .. N : k[n] = Cut(k[n - 1])
  <2>1. 0 \in 0 .. N /\ \A n \in 1 .. N : n \in 0 .. N /\ n # 0
    BY <1>1
  <2>2. QED
    BY <1>7, <2>1
<1>9. k[N] \in S
  <2> HIDE DEF Cut
  <2>1. \A n \in 1 .. N : k[n - 1] \in S => k[n] \in S
    BY <1>3, <1>8
  <2>2. \A n \in 0 .. N : k[n] \in S
    BY <1>2, <1>8, <2>1, RunsStay
  <2>3. QED
    BY <1>1, <2>2
<1>10. QED
  BY <1>4, <1>9 DEF S
-----------------------------------------------------------------------------
(* Searching blocks.                                                       *)

\* Blocks that hold no way out of B are left only for blocks of B.
LEMMA BelowStays ==
  ASSUME Numbered, NEW p, NEW of, NEW B, NEW b \in B,
         \A k \in B : \A s \in ToSet(p.stms[k]) : of[s] \subseteq B
  PROVE  Below(p, b, of) \subseteq B
<1>1. PICK N \in Nat : N = Len(node)
  BY NumberFacts
<1> DEFINE S == SUBSET B
           more(X) == X \union UNION {of[s] : s \in StmsIn(p, X)}
           Body(h) == [n \in 0 .. N |-> LET above == h[n - 1]
                         IN IF n = 0 THEN {b} ELSE above \union UNION {of[s] : s \in StmsIn(p, above)}]
           k == CHOOSE h : h = Body(h)
           step == [n \in 1 .. N |-> [X \in S |-> more(X)]]
<1>2. {b} \in S /\ \A X \in S : more(X) \in S
  BY DEF StmsIn
<1>3. Below(p, b, of) = k[N]
  BY <1>1 DEF Below
<1> HIDE DEF more
<1>5. PICK f : IsRun(f, N, S, {b}, step)
  <2>1. step \in Stepping(N, S)
    BY <1>2 DEF Stepping
  <2> HIDE DEF step
  <2>2. QED
    BY <1>1, <1>2, <2>1, RunExists
<1>6. f \in [0 .. N -> S] /\ f[0] = {b} /\ \A n \in 1 .. N : f[n] = more(f[n - 1])
  <2>1. f \in [0 .. N -> S] /\ f[0] = {b}
    BY <1>5 DEF IsRun
  <2>2. ASSUME NEW n \in 1 .. N
        PROVE  f[n] = more(f[n - 1])
    <3>1. n - 1 \in 0 .. N
      BY <1>1
    <3>2. f[n - 1] \in S
      BY <2>1, <3>1
    <3>3. f[n] = step[n][f[n - 1]]
      BY <1>5 DEF IsRun
    <3>4. QED
      BY <3>2, <3>3
  <2>3. QED
    BY <2>1, <2>2
<1>7. f = Body(f)
  <2>1. \A n \in 0 .. N : n = 0 \/ n \in 1 .. N
    BY <1>1
  <2>2. QED
    BY <1>6, <2>1 DEF more
<1>8. k = Body(k)
  BY <1>7
<1> HIDE DEF k
<1>9. k[0] = {b} /\ \A n \in 1 .. N : k[n] = more(k[n - 1])
  <2>1. 0 \in 0 .. N /\ \A n \in 1 .. N : n \in 0 .. N /\ n # 0
    BY <1>1
  <2>2. QED
    BY <1>8, <2>1 DEF more
<1>10. k[N] \in S
  <2>1. k[0] \in S /\ \A n \in 1 .. N : k[n - 1] \in S => k[n] \in S
    BY <1>2, <1>9
  <2> HIDE DEF S
  <2>2. \A n \in 0 .. N : k[n] \in S
    BY <1>1, <2>1, RunsStay
  <2>3. QED
    BY <1>1, <2>2
<1>11. QED
  BY <1>3, <1>10

\* What is in a block knows the block, and is younger than the statement that
\* holds the block; the blocks of what is in a block are there.
Rooted(p) ==
  \A k \in DOMAIN p.stms :
    /\ \A x \in Placed(p, k) : p.parent[x] = k /\ Owner(k) < x
    /\ \A x \in ToSet(p.stms[k]) : BlocksOf(x) \subseteq DOMAIN p.stms

\* In a block and below it, there are only blocks of younger statements.
LEMMA BelowIsYounger ==
  ASSUME Numbered, NEW p, Proper(p), Rooted(p), NEW b \in DOMAIN p.stms, NEW of,
         \A s \in Ids : of[s] \subseteq BlocksOf(s)
  PROVE  \A k \in Below(p, b, of) : k \in DOMAIN p.stms /\ Owner(b) <= Owner(k)
<1> DEFINE D == DOMAIN p.stms
           B == {k \in D : Owner(b) <= Owner(k)}
<1>1. D \subseteq Int /\ \A k \in D : p.stms[k] \in Seq(Ids)
  BY DEF Proper, Programs
<1>2. b \in B
  BY <1>1 DEF Owner
<1>3. ASSUME NEW k \in B, NEW s \in ToSet(p.stms[k])
      PROVE  of[s] \subseteq B
  <2>1. s \in Ids /\ s \in Placed(p, k) /\ k \in D
    BY <1>1, <1>3 DEF ToSet, Placed
  <2>2. Owner(k) < s /\ BlocksOf(s) \subseteq D
    BY <1>3, <2>1 DEF Rooted
  <2>3. s \in Int /\ Owner(k) \in Int /\ Owner(b) \in Int /\ s > 0
    BY <1>1, <2>1, NumberFacts DEF Owner
  <2>4. \A m \in BlocksOf(s) : m = s \/ m = -s
    BY DEF BlocksOf
  <2>5. Owner(s) = s /\ Owner(-s) = s
    BY <2>3 DEF Owner
  <2>6. Owner(b) <= s
    BY <1>3, <2>2, <2>3
  <2>7. \A m \in BlocksOf(s) : m \in D /\ Owner(b) <= Owner(m)
    BY <2>2, <2>4, <2>5, <2>6
  <2>8. QED
    BY <2>1, <2>7
<1> HIDE DEF B
<1>4. Below(p, b, of) \subseteq B
  BY <1>2, <1>3, BelowStays
<1>5. QED
  BY <1>4 DEF B

\* Iterators come and go.
LEMMA ReducedWithLive ==
  ASSUME NEW p, NEW L, NEW V, NEW q \in Reduced(p, L, V), NEW X \in SUBSET Int
  PROVE  LET r == [q EXCEPT !.live = X]
         IN /\ r \in Reduced(p, L, V)
            /\ r.live = X /\ r.edges = q.edges /\ r.undefined = q.undefined
<1> DEFINE D == DOMAIN p.stms
           r == [q EXCEPT !.live = X]
<1>1. q \in Programs(D)
  BY DEF Reduced
<1>2. /\ r \in Programs(D) /\ r.live = X /\ r.stms = q.stms /\ r.deleted = q.deleted
      /\ r.parent = q.parent /\ r.edges = q.edges /\ r.blocks = q.blocks /\ r.undefined = q.undefined
  BY <1>1 DEF Programs
<1> HIDE DEF r
<1>3. \A k \in D : Neat(r, k) <=> Neat(q, k)
  BY <1>2 DEF Neat
<1>4. \A k \in D : Placed(r, k) = Placed(q, k)
  BY <1>2 DEF Placed
<1>5. r \in Reduced(p, L, V)
  BY <1>2, <1>3, <1>4 DEF Reduced
<1>6. QED
  BY <1>2, <1>5 DEF r

\* What a loop body loses when it leaves its loop.
Leaves == {x \in Ids : Kind(x) \notin Compound}

\* Where the jumps of a loop body can be removed while iterators stay valid.
Clear(p, b) == p.edges = {} /\ ~p.undefined /\ \A k \in p.live : Owner(k) < Owner(b)

\* Removing the breaks and continues of a loop body.
LEMMA RemoveBreakContinueReduces ==
  ASSUME Numbered, NEW p, Proper(p), Rooted(p), NEW b \in DOMAIN p.stms,
         NEW V, V \subseteq p.live
  PROVE  LET q == RemoveBreakContinue(p, b)
         IN /\ q \in Reduced(p, Leaves, V)
            /\ q.live = p.live
            /\ Clear(p, b) => ~q.undefined
<1> DEFINE D == DOMAIN p.stms
           N == Len(node)
           of == [s \in Ids |-> IF Kind(s) = "if" THEN {s, -s} ELSE {}]
           jumps == {s \in StmsIn(p, Below(p, b, of)) : Kind(s) \in {"break", "continue"}}
           Around(k) == {l \in Below(p, b, of) : k # l /\ k \in Below(p, l, of)}
           During(q, n) == [q EXCEPT !.live = p.live \union Around(p.parent[n])]
           Del(q, n) == RemoveStmt(During(q, n), p.parent[n], n)
           S == {q \in Reduced(p, Leaves, V) : Clear(p, b) => ~q.undefined}
           Body(h) == [n \in 0 .. N |->
                         IF n = 0 THEN p ELSE IF n \notin jumps THEN h[n - 1]
                         ELSE RemoveStmt([h[n - 1] EXCEPT !.live = p.live \union Around(p.parent[n])],
                                         p.parent[n], n)]
           k == CHOOSE h : h = Body(h)
           One(q, n) == IF n \notin jumps THEN q ELSE Del(q, n)
           step == [n \in 1 .. N |-> [q \in S |-> One(q, n)]]
<1>1. N \in Nat /\ Ids = 1 .. N
  BY NumberFacts
<1>2. D \subseteq Int /\ p.live \subseteq Int /\ p \in Programs(D) /\ \A l \in D : p.stms[l] \in Seq(Ids)
  BY DEF Proper, Programs
<1>3. \A l \in Below(p, b, of) : l \in D /\ Owner(b) <= Owner(l)
  <2>1. \A s \in Ids : of[s] \subseteq BlocksOf(s)
    BY DEF BlocksOf
  <2> HIDE DEF of
  <2>2. QED
    BY <2>1, BelowIsYounger
<1>4. ASSUME NEW n \in jumps
      PROVE  /\ n \in Leaves
             /\ p.parent[n] \in D /\ Owner(b) <= Owner(p.parent[n])
             /\ p.live \union Around(p.parent[n]) \in SUBSET Int
  <2> HIDE DEF of
  <2>1. PICK l \in Below(p, b, of) : n \in ToSet(p.stms[l])
    BY <1>4 DEF StmsIn
  <2>2. n \in Placed(p, l) /\ l \in D
    BY <1>3, <2>1 DEF Placed
  <2>3. p.parent[n] = l
    BY <2>2 DEF Rooted
  <2>4. n \in Ids /\ Kind(n) \notin Compound
    <3>1. n \in Ids
      BY <1>2, <2>1, <2>2 DEF ToSet
    <3>2. Kind(n) \in {"break", "continue"}
      BY <1>4
    <3>3. QED
      BY <3>1, <3>2 DEF Compound
  <2>5. Around(p.parent[n]) \subseteq Int
    BY <1>2, <1>3
  <2>6. QED
    BY <1>2, <1>3, <2>1, <2>3, <2>4, <2>5 DEF Leaves
<1> HIDE DEF of
<1>5. p \in S
  BY ReducedStart DEF Clear
<1>6. ASSUME NEW q \in S, NEW n \in jumps
      PROVE  Del(q, n) \in S
  <2> DEFINE r == During(q, n)
             X == p.live \union Around(p.parent[n])
             m == p.parent[n]
  <2>1. X \in SUBSET Int /\ n \in Leaves
    BY <1>4
  <2>2. m \in D /\ Owner(b) <= Owner(m) /\ m \notin Around(m)
    BY <1>4
  <2> HIDE DEF jumps, Around
  <2>3. q \in Reduced(p, Leaves, V)
    BY <1>6
  <2>4. r \in Reduced(p, Leaves, V) /\ r.live = X /\ r.edges = q.edges /\ r.undefined = q.undefined
    <3> HIDE DEF X
    <3>1. r = [q EXCEPT !.live = X]
      BY DEF X
    <3> HIDE DEF r
    <3>2. QED
      BY <2>1, <2>3, <3>1, ReducedWithLive
  <2>5. V \subseteq r.live
    BY <2>4
  <2> HIDE DEF r, m
  <2>6. RemoveStmt(r, m, n) \in Reduced(p, Leaves, V)
    BY <2>1, <2>4, <2>5, RemoveStmtReduces
  <2>7. ASSUME Clear(p, b)
        PROVE  ~RemoveStmt(r, m, n).undefined
    <3>1. r \in Programs(D) /\ r.edges = {} /\ ~r.undefined
      BY <1>6, <2>4, <2>7 DEF Clear, Reduced
    <3>2. m \notin r.live
      <4>1. m \notin p.live
        <5>1. SUFFICES ASSUME m \in p.live PROVE FALSE
          OBVIOUS
        <5>2. Owner(m) < Owner(b) /\ Owner(b) <= Owner(m)
          BY <2>2, <2>7, <5>1 DEF Clear
        <5>3. Owner(m) \in Int /\ Owner(b) \in Int
          BY <1>2, <2>2 DEF Owner
        <5>4. QED
          BY <5>2, <5>3
      <4>2. QED
        BY <2>2, <2>4, <4>1 DEF m
    <3>3. QED
      BY <3>1, <3>2, RemoveStmtIsLocal
  <2>8. QED
    BY <2>6, <2>7 DEF r, m
<1>7. RemoveBreakContinue(p, b) = [k[N] EXCEPT !.live = p.live]
  BY DEF RemoveBreakContinue, of
<1> HIDE DEF S, jumps, Around
<1>8. \A q \in S, n \in 1 .. N : One(q, n) \in S
  BY <1>6
<1>9. PICK f : IsRun(f, N, S, p, step)
  <2>1. step \in Stepping(N, S)
    BY <1>8 DEF Stepping
  <2> HIDE DEF step, N
  <2>2. QED
    BY <1>1, <1>5, <2>1, RunExists
<1>10. f = Body(f)
  <2> HIDE DEF N
  <2>1. f \in [0 .. N -> S] /\ f[0] = p
    BY <1>9 DEF IsRun
  <2>2. ASSUME NEW n \in 1 .. N
        PROVE  f[n] = One(f[n - 1], n)
    <3>1. n - 1 \in 0 .. N
      BY <1>1
    <3>2. f[n - 1] \in S
      BY <2>1, <3>1
    <3>3. f[n] = step[n][f[n - 1]]
      BY <1>9 DEF IsRun
    <3>4. QED
      BY <3>2, <3>3
  <2>3. \A n \in 0 .. N : n = 0 \/ n \in 1 .. N
    BY <1>1
  <2>4. QED
    BY <2>1, <2>2, <2>3
<1>11. k = Body(k)
  BY <1>10
<1> HIDE DEF k, N
<1>12. k[0] = p /\ \A n \in 1 .. N : k[n] = One(k[n - 1], n)
  <2>1. 0 \in 0 .. N /\ \A n \in 1 .. N : n \in 0 .. N /\ n # 0
    BY <1>1
  <2>2. QED
    BY <1>11, <2>1
<1>13. k[N] \in S
  <2> HIDE DEF One
  <2>1. \A n \in 1 .. N : k[n - 1] \in S => k[n] \in S
    BY <1>8, <1>12
  <2>2. \A n \in 0 .. N : k[n] \in S
    <3>1. k[0] \in S
      BY <1>5, <1>12
    <3>2. QED
      BY <1>1, <2>1, <3>1, RunsStay
  <2>3. QED
    BY <1>1, <2>2
<1>14. k[N] \in Reduced(p, Leaves, V) /\ (Clear(p, b) => ~k[N].undefined)
  BY <1>13 DEF S
<1> DEFINE last == k[N]
<1> HIDE DEF last
<1>15. LET r == [last EXCEPT !.live = p.live]
       IN r \in Reduced(p, Leaves, V) /\ r.live = p.live /\ r.undefined = last.undefined
  <2>1. last \in Reduced(p, Leaves, V) /\ p.live \in SUBSET Int
    BY <1>2, <1>14 DEF last
  <2>2. QED
    BY <2>1, ReducedWithLive
<1>16. QED
  BY <1>7, <1>14, <1>15 DEF last
-----------------------------------------------------------------------------
(* Lifting.                                                                *)

\* What must not be in an atomic block.
Barred == Jump \union {"return", "sync", "call"}

\* In blocks A, nothing is barred, and nothing leads to blocks outside A.
Closed(p, A) ==
  \A k \in A \intersect DOMAIN p.stms : \A x \in ToSet(p.stms[k]) :
    Kind(x) \notin Barred /\ BlocksOf(x) \subseteq A

\* All statements but U have their place.
Whole(p, U, A) ==
  /\ Proper(p) /\ Rooted(p)
  /\ \A x \in Ids \ U : x \in Placed(p, p.parent[x])
  /\ \A k \in DOMAIN p.stms : Placed(p, k) \intersect U = {}
  /\ Closed(p, A)

\* Deleted statements keep their place.
LEMMA WholeReduced ==
  ASSUME NEW p, NEW U, NEW A, Whole(p, U, A), NEW L, NEW V, NEW q \in Reduced(p, L, V)
  PROVE  Whole(q, U, A)
<1> DEFINE D == DOMAIN p.stms
<1>1. /\ q \in Programs(D) /\ q.parent = p.parent /\ q.edges \subseteq p.edges
      /\ \A k \in D : /\ Neat(q, k) /\ Placed(q, k) = Placed(p, k)
                      /\ ToSet(q.stms[k]) \subseteq ToSet(p.stms[k])
  BY DEF Reduced
<1>2. DOMAIN q.stms = D /\ p.parent \in [Ids -> D]
  BY <1>1 DEF Programs
<1>3. Proper(q)
  BY <1>1, <1>2 DEF Whole, Proper
<1>4. Rooted(q)
  BY <1>1, <1>2 DEF Whole, Rooted
<1>5. Closed(q, A)
  BY <1>1, <1>2 DEF Whole, Closed
<1>6. \A x \in Ids \ U : x \in Placed(q, q.parent[x])
  <2>1. ASSUME NEW x \in Ids \ U
        PROVE  x \in Placed(q, q.parent[x])
    <3>1. p.parent[x] \in D
      BY <1>2
    <3>2. x \in Placed(p, p.parent[x])
      BY DEF Whole
    <3>3. QED
      BY <1>1, <3>1, <3>2
  <2>2. QED
    BY <2>1
<1>7. \A k \in DOMAIN q.stms : Placed(q, k) \intersect U = {}
  BY <1>1, <1>2 DEF Whole
<1>8. QED
  BY <1>3, <1>4, <1>5, <1>6, <1>7 DEF Whole

\* The programs p may become while block b is pruned and the statements K stay
\* where they are.  Iterators into the blocks around b stay valid.
Pruned(p, b, K, A) ==
  {q \in Programs(DOMAIN p.stms) :
     /\ Whole(q, {}, A)
     /\ q.edges \subseteq p.edges /\ q.live = p.live
     /\ p.undefined => q.undefined
     /\ K \subseteq ToSet(q.stms[b])
     /\ q.undefined \/ \A k \in p.live \intersect DOMAIN p.stms :
                         Owner(k) < Owner(b) => q.stms[k] = p.stms[k]
     /\ Clear(p, b) => ~q.undefined}

\* Deleting other statements.
LEMMA PrunedReduced ==
  ASSUME NEW p, NEW b \in DOMAIN p.stms, NEW K, NEW A, NEW q \in Pruned(p, b, K, A),
         NEW L, NEW r \in Reduced(q, L, q.live), NEW J \in SUBSET (K \ L),
         \A x \in J : Kind(x) # "goto",
         r.live = q.live, Clear(p, b) => ~r.undefined
  PROVE  r \in Pruned(p, b, J, A)
<1> DEFINE D == DOMAIN p.stms
<1>1. /\ q \in Programs(D) /\ Whole(q, {}, A)
      /\ q.edges \subseteq p.edges /\ q.live = p.live
      /\ p.undefined => q.undefined
      /\ K \subseteq ToSet(q.stms[b])
      /\ q.undefined \/ \A k \in p.live \intersect D : Owner(k) < Owner(b) => q.stms[k] = p.stms[k]
  BY DEF Pruned
<1>2. DOMAIN q.stms = D
  BY <1>1 DEF Programs
<1>3. /\ r \in Programs(D) /\ r.edges \subseteq q.edges /\ (q.undefined => r.undefined)
      /\ \A x \in ToSet(q.stms[b]) \ ToSet(r.stms[b]) : x \in L \/ Kind(x) = "goto"
      /\ r.undefined \/ \A k \in q.live \intersect D : r.stms[k] = q.stms[k]
  BY <1>2 DEF Reduced
<1>4. Whole(r, {}, A)
  BY <1>1, WholeReduced
<1>5. J \subseteq ToSet(r.stms[b])
  BY <1>1, <1>3
<1>6. r.undefined \/ \A k \in p.live \intersect D : Owner(k) < Owner(b) => r.stms[k] = p.stms[k]
  BY <1>1, <1>3
<1>7. QED
  BY <1>1, <1>3, <1>4, <1>5, <1>6 DEF Pruned

\* A block of a statement of block b is another block, further inside.
LEMMA HeldFacts ==
  ASSUME Numbered, NEW p, Proper(p), Rooted(p), NEW b \in DOMAIN p.stms,
         NEW s \in ToSet(p.stms[b]), NEW m \in BlocksOf(s)
  PROVE  /\ s \in Ids /\ m \in DOMAIN p.stms /\ m # b /\ Owner(m) = s /\ Owner(b) < Owner(m)
<1> DEFINE D == DOMAIN p.stms
<1>1. D \subseteq Int /\ p.stms[b] \in Seq(Ids)
  BY DEF Proper, Programs
<1>2. s \in Ids /\ s \in Placed(p, b)
  BY <1>1 DEF ToSet, Placed
<1>3. Owner(b) < s /\ m \in D
  BY <1>2 DEF Rooted
<1>4. s \in Int /\ s > 0 /\ Owner(b) \in Int
  BY <1>1, <1>2, NumberFacts DEF Owner
<1>5. m = s \/ m = -s
  BY DEF BlocksOf
<1>6. Owner(m) = s
  BY <1>4, <1>5 DEF Owner
<1>7. QED
  BY <1>2, <1>3, <1>4, <1>6

\* MergeBlock moves what the block holds, and nothing gets lost.
LEMMA MergeBlockWhole ==
  ASSUME Numbered, NEW A, NEW q, Whole(q, {}, A), NEW b \in DOMAIN q.stms,
         NEW s \in ToSet(q.stms[b]), NEW m \in BlocksOf(s)
  PROVE  LET r == MergeBlock(q, b, m, s)
         IN /\ Whole(r, {}, A) /\ r \in Programs(DOMAIN q.stms)
            /\ r.edges = q.edges /\ r.live = q.live
            /\ r.undefined = (q.undefined \/ b \in q.live)
            /\ ToSet(q.stms[b]) \subseteq ToSet(r.stms[b])
            /\ \A k \in DOMAIN q.stms \ {b, m} : r.stms[k] = q.stms[k]
<1> DEFINE D == DOMAIN q.stms
           text == q.stms[b]
           at == CHOOSE i \in DOMAIN text : text[i] = s
           r == MergeBlock(q, b, m, s)
           moved == ToSet(q.stms[m]) \union ToSet(q.deleted[m])
           joined == SubSeq(text, 1, at - 1) \o q.stms[m] \o SubSeq(text, at, Len(text))
           dropped == q.deleted[b] \o q.deleted[m]
<1>1. /\ Proper(q) /\ Rooted(q) /\ Closed(q, A)
      /\ \A x \in Ids : x \in Placed(q, q.parent[x])
  BY DEF Whole
<1>2. /\ q \in Programs(D) /\ D \subseteq Int
      /\ q.stms \in [D -> Seq(Ids)] /\ q.deleted \in [D -> Seq(Ids)] /\ q.edges \in SUBSET Ids
      /\ q.blocks \in SUBSET Int /\ q.live \in SUBSET Int /\ q.undefined \in BOOLEAN
      /\ q.parent \in [Ids -> D]
      /\ \A k \in D : Neat(q, k)
  BY <1>1 DEF Proper, Programs
<1>3. s \in Ids /\ m \in D /\ m # b /\ Owner(m) = s /\ Owner(b) < Owner(m)
  BY <1>1, HeldFacts
<1>4. at \in 1 .. Len(text) + 1
  <2>1. text \in Seq(Ids)
    BY <1>2
  <2>2. \E i \in DOMAIN text : text[i] = s
    BY DEF ToSet
  <2>3. at \in DOMAIN text
    BY <2>2
  <2> HIDE DEF at
  <2>4. QED
    BY <2>1, <2>3
<1>5. \A x \in Placed(q, b) : q.parent[x] = b
  BY <1>1 DEF Rooted
<1>6. \A x \in Placed(q, m) : q.parent[x] = m
  BY <1>1, <1>3 DEF Rooted
<1>7. Placed(q, b) \intersect Placed(q, m) = {}
  BY <1>3, <1>5, <1>6
<1>8. /\ joined \in Seq(Ids) /\ IsInjective(joined)
      /\ ToSet(joined) = ToSet(q.stms[b]) \union ToSet(q.stms[m])
  <2>1. /\ text \in Seq(Ids) /\ q.stms[m] \in Seq(Ids)
        /\ IsInjective(text) /\ IsInjective(q.stms[m])
        /\ ToSet(text) \intersect ToSet(q.stms[m]) = {}
    BY <1>2, <1>3, <1>7 DEF Neat, Placed
  <2> HIDE DEF at, text
  <2>2. /\ joined \in Seq(Ids)
        /\ ToSet(joined) = ToSet(text) \union ToSet(q.stms[m])
        /\ IsInjective(joined)
    BY <1>4, <2>1, SpliceFacts
  <2>3. QED
    BY <2>2 DEF text
<1>9. /\ dropped \in Seq(Ids) /\ IsInjective(dropped)
      /\ ToSet(dropped) = ToSet(q.deleted[b]) \union ToSet(q.deleted[m])
  <2>1. /\ q.deleted[b] \in Seq(Ids) /\ q.deleted[m] \in Seq(Ids)
        /\ IsInjective(q.deleted[b]) /\ IsInjective(q.deleted[m])
        /\ ToSet(q.deleted[b]) \intersect ToSet(q.deleted[m]) = {}
    BY <1>2, <1>3, <1>7 DEF Neat, Placed
  <2>2. QED
    BY <2>1, ConcatFacts
<1>10. /\ r.parent = [x \in Ids |-> IF x \in moved THEN b ELSE q.parent[x]]
       /\ r.deleted = [k \in D |-> IF k = m THEN <<>> ELSE IF k = b THEN dropped ELSE q.deleted[k]]
       /\ r.stms = [k \in D |-> IF k = m THEN <<>> ELSE IF k = b THEN joined ELSE q.stms[k]]
       /\ r.edges = q.edges /\ r.blocks = q.blocks /\ r.live = q.live
       /\ r.undefined = (q.undefined \/ b \in q.live)
       /\ r = [stms |-> r.stms, deleted |-> r.deleted, parent |-> r.parent, edges |-> r.edges,
               blocks |-> r.blocks, live |-> r.live, undefined |-> r.undefined]
  <2>1. r = [q EXCEPT !.parent = [x \in DOMAIN @ |-> IF x \in moved THEN b ELSE @[x]],
               !.deleted[b] = @ \o q.deleted[m], !.deleted[m] = <<>>,
               !.stms[b] = joined,
               !.stms[m] = <<>>,
               !.undefined = @ \/ b \in q.live]
    BY DEF MergeBlock
  <2> HIDE DEF r, moved, joined
  <2>2. r.parent = [x \in Ids |-> IF x \in moved THEN b ELSE q.parent[x]]
    BY <1>2, <2>1 DEF Programs
  <2>3. r.stms = [k \in D |-> IF k = m THEN <<>> ELSE IF k = b THEN joined ELSE q.stms[k]]
    <3>1. r.stms = [[q.stms EXCEPT ![b] = joined] EXCEPT ![m] = <<>>]
      BY <1>2, <2>1 DEF Programs
    <3>2. QED
      BY <1>2, <1>3, <3>1
  <2>4. r.deleted = [k \in D |-> IF k = m THEN <<>> ELSE IF k = b THEN dropped ELSE q.deleted[k]]
    <3>1. r.deleted = [[q.deleted EXCEPT ![b] = dropped] EXCEPT ![m] = <<>>]
      BY <1>2, <2>1 DEF Programs
    <3> HIDE DEF dropped
    <3>2. QED
      BY <1>2, <1>3, <3>1
  <2>5. /\ r.edges = q.edges /\ r.blocks = q.blocks /\ r.live = q.live
        /\ r.undefined = (q.undefined \/ b \in q.live)
    BY <1>2, <2>1 DEF Programs
  <2>6. r = [stms |-> r.stms, deleted |-> r.deleted, parent |-> r.parent, edges |-> r.edges,
             blocks |-> r.blocks, live |-> r.live, undefined |-> r.undefined]
    BY <1>2, <2>1 DEF Programs
  <2>7. QED
    BY <2>2, <2>3, <2>4, <2>5, <2>6
<1> HIDE DEF r, joined, dropped
<1>11. /\ r.stms[b] = joined /\ r.stms[m] = <<>>
       /\ r.deleted[b] = dropped /\ r.deleted[m] = <<>>
       /\ \A k \in D \ {b, m} : r.stms[k] = q.stms[k] /\ r.deleted[k] = q.deleted[k]
  BY <1>3, <1>10
<1>12. moved = Placed(q, m) /\ moved \subseteq Ids
  <2>1. q.stms[m] \in Seq(Ids) /\ q.deleted[m] \in Seq(Ids)
    BY <1>2, <1>3
  <2>2. QED
    BY <2>1 DEF Placed, ToSet
<1>13. ToSet(<<>>) = {} /\ IsInjective(<<>>)
  BY DEF ToSet, IsInjective
<1>14. /\ Placed(r, b) = Placed(q, b) \union moved
       /\ Placed(r, m) = {}
       /\ \A k \in D \ {b, m} : Placed(r, k) = Placed(q, k)
  BY <1>8, <1>9, <1>11, <1>12, <1>13 DEF Placed
<1>15. r \in Programs(D) /\ DOMAIN r.stms = D
  <2>1. <<>> \in Seq(Ids)
    OBVIOUS
  <2>2. /\ r.stms \in [D -> Seq(Ids)] /\ r.deleted \in [D -> Seq(Ids)] /\ r.parent \in [Ids -> D]
    BY <1>2, <1>8, <1>9, <1>10, <2>1
  <2>3. QED
    BY <1>2, <1>10, <2>2 DEF Programs
<1>16. Proper(r)
  <2>1. ToSet(joined) \intersect ToSet(dropped) = {}
    BY <1>2, <1>3, <1>7, <1>8, <1>9 DEF Neat, Placed
  <2>2. Neat(r, b)
    BY <1>8, <1>9, <1>11, <2>1 DEF Neat
  <2>3. Neat(r, m)
    BY <1>11, <1>13 DEF Neat
  <2>4. \A k \in D \ {b, m} : Neat(r, k)
    BY <1>2, <1>11 DEF Neat
  <2>5. \A k \in D : Neat(r, k)
    BY <2>2, <2>3, <2>4
  <2>6. \A g \in r.edges : Kind(g) = "goto"
    BY <1>1, <1>10 DEF Proper
  <2> HIDE DEF D
  <2>7. QED
    BY <1>2, <1>15, <2>5, <2>6 DEF Proper
<1>17. ASSUME NEW k \in D, NEW x \in Placed(r, k)
       PROVE  r.parent[x] = k /\ Owner(k) < x
  <2>1. r.parent = [y \in Ids |-> IF y \in moved THEN b ELSE q.parent[y]]
    BY <1>10
  <2>2. \A l \in D : Placed(q, l) \subseteq Ids
    <3>1. SUFFICES ASSUME NEW l \in D PROVE Placed(q, l) \subseteq Ids
      OBVIOUS
    <3>2. q.stms[l] \in Seq(Ids) /\ q.deleted[l] \in Seq(Ids)
      BY <1>2
    <3>3. QED
      BY <3>2 DEF Placed, ToSet
  <2> HIDE DEF moved
  <2>3. CASE k = b /\ x \in moved
    <3>1. r.parent[x] = b
      BY <1>12, <2>1, <2>3
    <3>2. Owner(m) < x /\ x \in Ids
      BY <1>1, <1>3, <1>12, <2>3 DEF Rooted
    <3>3. Owner(b) \in Int /\ Owner(m) \in Int /\ x \in Int
      BY <1>2, <1>3, <3>2, NumberFacts DEF Owner
    <3>4. Owner(b) < x
      BY <1>3, <3>2, <3>3
    <3>5. QED
      BY <2>3, <3>1, <3>4
  <2>4. CASE x \in Placed(q, k) /\ k # m
    <3>1. q.parent[x] = k /\ Owner(k) < x /\ x \in Ids
      BY <1>1, <2>2, <2>4 DEF Rooted
    <3>2. x \notin moved
      BY <1>6, <1>12, <2>4, <3>1
    <3>3. QED
      BY <2>1, <3>1, <3>2
  <2>5. QED
    BY <1>14, <1>17, <1>3, <2>3, <2>4
<1>18. ASSUME NEW k \in D, NEW x \in ToSet(r.stms[k])
       PROVE  \/ x \in ToSet(q.stms[k])
              \/ k = b /\ x \in ToSet(q.stms[m])
  <2>1. CASE k = b
    BY <1>8, <1>11, <1>18, <2>1
  <2>2. CASE k = m
    BY <1>11, <1>13, <1>18, <2>2
  <2>3. CASE k \in D \ {b, m}
    BY <1>11, <1>18, <2>3
  <2>4. QED
    BY <2>1, <2>2, <2>3
<1>19. Rooted(r)
  <2>1. \A k \in D : \A x \in ToSet(q.stms[k]) : BlocksOf(x) \subseteq D
    BY <1>1 DEF Rooted
  <2>2. \A k \in D : \A x \in ToSet(r.stms[k]) : BlocksOf(x) \subseteq D
    BY <1>3, <1>18, <2>1
  <2>3. QED
    BY <1>15, <1>17, <2>2 DEF Rooted
<1>20. Closed(r, A)
  <2>1. ASSUME NEW k \in A \intersect D, NEW x \in ToSet(r.stms[k])
        PROVE  Kind(x) \notin Barred /\ BlocksOf(x) \subseteq A
    <3>1. CASE x \in ToSet(q.stms[k])
      BY <1>1, <3>1 DEF Closed
    <3>2. CASE k = b /\ x \in ToSet(q.stms[m])
      <4>1. m \in A
        BY <1>1, <3>2 DEF Closed
      <4>2. QED
        BY <1>1, <1>3, <3>2, <4>1 DEF Closed
    <3>3. QED
      BY <1>18, <3>1, <3>2
  <2>2. QED
    BY <1>15, <2>1 DEF Closed
<1>21. ASSUME NEW x \in Ids
       PROVE  x \in Placed(r, r.parent[x])
  <2>1. r.parent[x] = IF x \in moved THEN b ELSE q.parent[x]
    BY <1>10
  <2>2. x \in Placed(q, q.parent[x]) /\ q.parent[x] \in D
    BY <1>1, <1>2
  <2> HIDE DEF moved
  <2>3. CASE x \in moved
    BY <1>14, <2>1, <2>3
  <2>4. CASE x \notin moved
    <3>1. q.parent[x] # m
      BY <1>12, <2>2, <2>4
    <3>2. QED
      BY <1>14, <2>1, <2>2, <2>4, <3>1
  <2>5. QED
    BY <2>3, <2>4
<1>22. Whole(r, {}, A)
  BY <1>16, <1>19, <1>20, <1>21 DEF Whole
<1>23. ToSet(q.stms[b]) \subseteq ToSet(r.stms[b])
  BY <1>8, <1>11
<1>24. QED
  BY <1>10, <1>11, <1>15, <1>22, <1>23 DEF r
\* Merging a block of one of the statements that stay into their block.
LEMMA MergeBlockPrunes ==
  ASSUME Numbered, NEW p, NEW b \in DOMAIN p.stms, NEW K, NEW A, NEW q \in Pruned(p, b, K, A),
         NEW s \in K, NEW m \in BlocksOf(s)
  PROVE  LET r == MergeBlock(q, b, m, s)
         IN r \in Pruned(p, b, K, A) /\ (b \in p.live => r.undefined)
<1> DEFINE D == DOMAIN p.stms
           r == MergeBlock(q, b, m, s)
<1>1. /\ q \in Programs(D) /\ Whole(q, {}, A)
      /\ q.edges \subseteq p.edges /\ q.live = p.live
      /\ p.undefined => q.undefined
      /\ K \subseteq ToSet(q.stms[b])
      /\ q.undefined \/ \A k \in p.live \intersect D : Owner(k) < Owner(b) => q.stms[k] = p.stms[k]
      /\ Clear(p, b) => ~q.undefined
  BY DEF Pruned
<1>2. DOMAIN q.stms = D /\ q.undefined \in BOOLEAN
  BY <1>1 DEF Programs
<1>3. /\ Whole(r, {}, A) /\ r \in Programs(D)
      /\ r.edges = q.edges /\ r.live = q.live
      /\ r.undefined = (q.undefined \/ b \in q.live)
      /\ ToSet(q.stms[b]) \subseteq ToSet(r.stms[b])
      /\ \A k \in D \ {b, m} : r.stms[k] = q.stms[k]
  <2>1. b \in DOMAIN q.stms /\ s \in ToSet(q.stms[b])
    BY <1>1, <1>2
  <2>2. QED
    BY <1>1, <1>2, <2>1, MergeBlockWhole
<1>4. Owner(b) < Owner(m) /\ D \subseteq Int /\ m \in D
  <2>1. Proper(q) /\ Rooted(q)
    BY <1>1 DEF Whole
  <2>2. s \in ToSet(q.stms[b])
    BY <1>1
  <2>3. QED
    BY <1>2, <2>1, <2>2, HeldFacts DEF Proper
<1> HIDE DEF r
<1>5. r.undefined \/ \A k \in p.live \intersect D : Owner(k) < Owner(b) => r.stms[k] = p.stms[k]
  <2>1. SUFFICES ASSUME ~r.undefined, NEW k \in p.live \intersect D, Owner(k) < Owner(b)
                 PROVE  r.stms[k] = p.stms[k]
    OBVIOUS
  <2>2. Owner(k) \in Int /\ Owner(b) \in Int /\ Owner(m) \in Int
    BY <1>4 DEF Owner
  <2>3. k # b /\ k # m
    BY <1>4, <2>1, <2>2
  <2>4. ~q.undefined
    BY <1>3, <2>1
  <2>5. QED
    BY <1>1, <1>3, <2>1, <2>3, <2>4
<1>6. Clear(p, b) => ~r.undefined
  <2>1. SUFFICES ASSUME Clear(p, b) PROVE ~r.undefined
    OBVIOUS
  <2>2. b \notin p.live
    <3>1. Owner(b) \in Int
      BY <1>4 DEF Owner
    <3>2. QED
      BY <2>1, <3>1 DEF Clear
  <2>3. QED
    BY <1>1, <1>3, <2>1, <2>2
<1>7. r \in Pruned(p, b, K, A)
  BY <1>1, <1>3, <1>5, <1>6 DEF Pruned
<1>8. b \in p.live => r.undefined
  BY <1>1, <1>3
<1>9. QED
  BY <1>7, <1>8 DEF r

\* A loop body without the jumps that belong to its loop.
LEMMA LoopBodyPrunes ==
  ASSUME Numbered, NEW p, NEW b \in DOMAIN p.stms, NEW K, NEW A, NEW q \in Pruned(p, b, K, A),
         NEW s \in K, Kind(s) = "for", \A x \in K : Kind(x) \in Compound
  PROVE  [RemoveBreakContinue([q EXCEPT !.live = @ \union {b}], s) EXCEPT !.live = q.live]
           \in Pruned(p, b, K, A)
<1> DEFINE D == DOMAIN p.stms
           X == q.live \union {b}
           q1 == [q EXCEPT !.live = X]
           r1 == RemoveBreakContinue(q1, s)
           r == [r1 EXCEPT !.live = q.live]
<1>1. /\ q \in Programs(D) /\ Whole(q, {}, A) /\ Proper(q) /\ Rooted(q)
      /\ q.edges \subseteq p.edges /\ q.live = p.live
      /\ K \subseteq ToSet(q.stms[b])
      /\ Clear(p, b) => ~q.undefined
  BY DEF Pruned, Whole
<1>2. DOMAIN q.stms = D /\ D \subseteq Int /\ q.live \in SUBSET Int
  BY <1>1 DEF Programs, Proper
<1>3. q1 = [q EXCEPT !.live = @ \union {b}]
  BY <1>1 DEF Programs
<1>4. /\ q1.stms = q.stms /\ q1.deleted = q.deleted /\ q1.parent = q.parent
      /\ q1.edges = q.edges /\ q1.blocks = q.blocks /\ q1.undefined = q.undefined /\ q1.live = X
      /\ q1 \in Programs(D)
  BY <1>1, <1>2 DEF Programs
<1> HIDE DEF q1, X
<1>5. Proper(q1)
  <2>1. \A k \in D : Neat(q1, k)
    BY <1>1, <1>2, <1>4 DEF Proper, Neat
  <2>2. QED
    BY <1>1, <1>2, <1>4, <2>1 DEF Proper
<1>6. Rooted(q1)
  <2>1. \A k \in D : Placed(q1, k) = Placed(q, k)
    BY <1>4 DEF Placed
  <2>2. QED
    BY <1>1, <1>2, <1>4, <2>1 DEF Rooted
<1>7. s \in Ids /\ s \in D /\ Owner(s) = s /\ Owner(b) < s
  <2>1. s \in BlocksOf(s) /\ s \in ToSet(q.stms[b])
    BY <1>1 DEF BlocksOf, Section
  <2>2. QED
    BY <1>1, <1>2, <2>1, HeldFacts
<1>8. /\ r1 \in Reduced(q1, Leaves, X)
      /\ Clear(q1, s) => ~r1.undefined
  <2>1. s \in DOMAIN q1.stms /\ X \subseteq q1.live
    BY <1>2, <1>4, <1>7
  <2>2. QED
    BY <1>5, <1>6, <2>1, RemoveBreakContinueReduces
<1> HIDE DEF r1
<1>9. /\ r \in Reduced(q1, Leaves, X) /\ r.live = q.live /\ r.undefined = r1.undefined
  BY <1>2, <1>8, ReducedWithLive
<1> HIDE DEF r
<1>10. r \in Reduced(q, Leaves, q.live)
  <2>1. DOMAIN q1.stms = DOMAIN q.stms /\ \A k \in DOMAIN q.stms : Placed(q1, k) = Placed(q, k)
    BY <1>4 DEF Placed
  <2>2. q.live \subseteq X
    BY DEF X
  <2>3. QED
    BY <1>4, <1>9, <2>1, <2>2 DEF Reduced
<1>11. ASSUME Clear(p, b)
       PROVE  ~r.undefined
  <2>1. q1.edges = {} /\ ~q1.undefined
    BY <1>1, <1>4, <1>11 DEF Clear
  <2>2. ASSUME NEW k \in q1.live
        PROVE  Owner(k) < Owner(s)
    <3>1. k \in Int /\ (k \in p.live \/ k = b)
      BY <1>1, <1>2, <1>4 DEF X
    <3>2. CASE k = b
      BY <1>7, <3>2
    <3>3. CASE k \in p.live
      <4>1. Owner(k) < Owner(b)
        BY <1>11, <3>3 DEF Clear
      <4>2. Owner(k) \in Int /\ Owner(b) \in Int /\ s \in Int
        BY <1>2, <1>7, <3>1 DEF Owner
      <4>3. QED
        BY <1>7, <4>1, <4>2
    <3>4. QED
      BY <3>1, <3>2, <3>3
  <2>3. Clear(q1, s)
    BY <2>1, <2>2 DEF Clear
  <2>4. QED
    BY <1>8, <1>9, <2>3
<1>12. K \in SUBSET (K \ Leaves) /\ \A x \in K : Kind(x) # "goto"
  BY DEF Leaves, Compound
<1>13. r \in Pruned(p, b, K, A)
  BY <1>9, <1>10, <1>11, <1>12, PrunedReduced
<1>14. QED
  BY <1>3, <1>13 DEF r, r1

\* Lifting one statement.
LEMMA LiftOnePrunes ==
  ASSUME Numbered, NEW p, NEW b \in DOMAIN p.stms, NEW K, NEW A, NEW q \in Pruned(p, b, K, A),
         NEW s \in K, \A x \in K : Kind(x) \in Compound
  PROVE  /\ LiftOne(q, b, s) \in Pruned(p, b, K, A)
         /\ b \in p.live => LiftOne(q, b, s).undefined
<1>1. CASE Kind(s) = "if"
  <2>1. s \in BlocksOf(s) /\ -s \in BlocksOf(s)
    BY <1>1 DEF BlocksOf, Section
  <2> DEFINE r == MergeBlock(q, b, s, s)
  <2>2. r \in Pruned(p, b, K, A)
    BY <2>1, MergeBlockPrunes
  <2> HIDE DEF r
  <2>3. /\ MergeBlock(r, b, -s, s) \in Pruned(p, b, K, A)
        /\ b \in p.live => MergeBlock(r, b, -s, s).undefined
    BY <2>1, <2>2, MergeBlockPrunes
  <2>4. QED
    BY <1>1, <2>3 DEF LiftOne, r
<1>2. CASE Kind(s) # "if"
  <2>1. Kind(s) = "for"
    BY <1>2 DEF Compound
  <2>2. s \in BlocksOf(s)
    BY <2>1 DEF BlocksOf, Section
  <2> DEFINE body == [RemoveBreakContinue([q EXCEPT !.live = @ \union {b}], s) EXCEPT !.live = q.live]
             r == IF InLoop(b) THEN q ELSE body
  <2>3. body \in Pruned(p, b, K, A)
    BY <2>1, LoopBodyPrunes
  <2> HIDE DEF body
  <2>4. r \in Pruned(p, b, K, A)
    BY <2>3
  <2>5. LiftOne(q, b, s) = MergeBlock(r, b, s, s)
    BY <1>2 DEF LiftOne, body
  <2> HIDE DEF r
  <2>6. /\ MergeBlock(r, b, s, s) \in Pruned(p, b, K, A)
        /\ b \in p.live => MergeBlock(r, b, s, s).undefined
    BY <2>2, <2>4, MergeBlockPrunes
  <2>7. QED
    BY <2>5, <2>6
<1>3. QED
  BY <1>1, <1>2

\* A program that nothing has been done to yet.
LEMMA PrunedStart ==
  ASSUME NEW p, NEW A, Whole(p, {}, A), NEW b, NEW K \in SUBSET ToSet(p.stms[b])
  PROVE  p \in Pruned(p, b, K, A)
  BY DEF Pruned, Whole, Proper, Clear

\* A sequence is one of its elements.
LEMMA SeqOfItsOwn ==
  ASSUME NEW S, NEW q \in Seq(S)
  PROVE  q \in Seq(ToSet(q)) /\ ToSet(q) \subseteq S
<1>1. ToSet(q) = Range(q)
  BY DEF ToSet, Range
<1>2. QED
  BY <1>1, SeqOfRange, RangeOfSeq

\* Deleting and lifting in a block.
LEMMA AppliedPrunes ==
  ASSUME Numbered, NEW p, NEW A, Whole(p, {}, A),
         NEW f, f.block \in DOMAIN p.stms, f.del \in Seq(Ids), f.lift \in Seq(Ids),
         ToSet(f.lift) \subseteq ToSet(p.stms[f.block]) \ ToSet(f.del),
         \A x \in ToSet(f.lift) : Kind(x) \in Compound
  PROVE  /\ Applied(p, f) \in Pruned(p, f.block, {}, A)
         /\ f.block \in p.live /\ f.lift # <<>> => Applied(p, f).undefined
<1> DEFINE b == f.block
           K == ToSet(f.lift)
           S == Pruned(p, b, K, A)
           first == RemoveAll(p, b, f.del)
<1>1. PICK N \in Nat : N = Len(f.lift) /\ DOMAIN f.lift = 1 .. N
  OBVIOUS
<1> DEFINE Body(h) == [i \in 0 .. N |-> IF i = 0 THEN RemoveAll(p, b, f.del)
                                        ELSE LiftOne(h[i - 1], b, f.lift[i])]
           k == CHOOSE h : h = Body(h)
           step == [n \in 1 .. N |-> [q \in S |-> LiftOne(q, b, f.lift[n])]]
<1>2. \A n \in 1 .. N : f.lift[n] \in K
  BY <1>1 DEF ToSet
<1>3. f.del \in Seq(ToSet(f.del)) /\ f.lift \in Seq(K)
  BY SeqOfItsOwn
<1>4. Applied(p, f) = RemoveAll(k[N], b, f.lift)
  BY <1>1 DEF Applied
<1>5. b \in DOMAIN p.stms /\ Proper(p) /\ K \subseteq ToSet(p.stms[b]) \ ToSet(f.del)
      /\ \A x \in K : Kind(x) \in Compound
  BY DEF Whole
<1> HIDE DEF b, K
<1>6. Clear(p, b) => Unharmed(p, b)
  <2>1. Owner(b) \in Int
    BY <1>5 DEF Proper, Owner
  <2>2. QED
    BY <2>1 DEF Clear, Unharmed
<1>7. first \in S
  <2>1. p \in S
    BY <1>5, PrunedStart
  <2>2. /\ first \in Reduced(p, ToSet(f.del), p.live)
        /\ first.live = p.live
        /\ Unharmed(p, b) => ~first.undefined
    <3>1. PICK L : L = ToSet(f.del)
      OBVIOUS
    <3>2. f.del \in Seq(L) /\ p.live \subseteq p.live
      BY <1>3, <3>1
    <3>3. /\ RemoveAll(p, b, f.del) \in Reduced(p, L, p.live)
          /\ RemoveAll(p, b, f.del).live = p.live
          /\ Unharmed(p, b) => ~RemoveAll(p, b, f.del).undefined
      BY <1>5, <3>2, RemoveAllReduces
    <3>4. QED
      BY <3>1, <3>3
  <2>3. K \in SUBSET (K \ ToSet(f.del)) /\ \A x \in K : Kind(x) # "goto"
    BY <1>5 DEF Compound
  <2> HIDE DEF first
  <2>4. Clear(p, b) => ~first.undefined
    BY <1>6, <2>2
  <2>5. QED
    BY <1>5, <2>1, <2>2, <2>3, <2>4, PrunedReduced
<1>8. \A q \in S, x \in K : LiftOne(q, b, x) \in S /\ (b \in p.live => LiftOne(q, b, x).undefined)
  BY <1>5, LiftOnePrunes
<1> HIDE DEF S
<1>9. PICK g : IsRun(g, N, S, first, step)
  <2>1. step \in Stepping(N, S)
    BY <1>2, <1>8 DEF Stepping
  <2> HIDE DEF step, first
  <2>2. QED
    BY <1>1, <1>7, <2>1, RunExists
<1> HIDE DEF first
<1>10. g = Body(g)
  <2>1. g \in [0 .. N -> S] /\ g[0] = first
    BY <1>9 DEF IsRun
  <2>2. ASSUME NEW n \in 1 .. N
        PROVE  g[n] = LiftOne(g[n - 1], b, f.lift[n])
    <3>1. n - 1 \in 0 .. N
      BY <1>1
    <3>2. g[n - 1] \in S
      BY <2>1, <3>1
    <3>3. g[n] = step[n][g[n - 1]]
      BY <1>9 DEF IsRun
    <3>4. QED
      BY <3>2, <3>3
  <2>3. \A n \in 0 .. N : n = 0 \/ n \in 1 .. N
    BY <1>1
  <2>4. QED
    BY <2>1, <2>2, <2>3 DEF first
<1>11. k = Body(k)
  BY <1>10
<1> HIDE DEF k
<1>12. k[0] = first /\ \A n \in 1 .. N : k[n] = LiftOne(k[n - 1], b, f.lift[n])
  <2>1. 0 \in 0 .. N /\ \A n \in 1 .. N : n \in 0 .. N /\ n # 0
    BY <1>1
  <2>2. QED
    BY <1>11, <2>1 DEF first
<1>13. \A n \in 0 .. N : k[n] \in S
  <2>1. \A n \in 1 .. N : k[n - 1] \in S => k[n] \in S
    BY <1>2, <1>8, <1>12
  <2>2. QED
    BY <1>1, <1>7, <1>12, <2>1, RunsStay
<1> DEFINE last == k[N]
<1>14. last \in S
  BY <1>1, <1>13
<1>15. ASSUME b \in p.live, f.lift # <<>>
       PROVE  last.undefined
  <2>1. N \in 1 .. N /\ N - 1 \in 0 .. N
    BY <1>1, <1>15
  <2>2. k[N] = LiftOne(k[N - 1], b, f.lift[N]) /\ k[N - 1] \in S /\ f.lift[N] \in K
    BY <1>2, <1>12, <1>13, <2>1
  <2>3. QED
    BY <1>8, <1>15, <2>2
<1> HIDE DEF last
<1> DEFINE r == RemoveAll(last, b, f.lift)
<1>16. /\ last \in Programs(DOMAIN p.stms) /\ Proper(last) /\ last.live = p.live
       /\ last.edges \subseteq p.edges /\ (Clear(p, b) => ~last.undefined)
  BY <1>14 DEF S, Pruned, Whole
<1>17. /\ r \in Reduced(last, K, last.live)
       /\ r.live = last.live
       /\ Unharmed(last, b) => ~r.undefined
  BY <1>3, <1>16, RemoveAllReduces
<1> HIDE DEF r
<1>18. Clear(p, b) => ~r.undefined
  BY <1>6, <1>16, <1>17 DEF Clear, Unharmed
<1>19. r \in Pruned(p, b, {}, A)
  <2>1. last \in Pruned(p, b, K, A) /\ {} \in SUBSET (K \ K)
    BY <1>14 DEF S
  <2>2. QED
    BY <1>5, <1>17, <1>18, <2>1, PrunedReduced
<1>20. last.undefined => r.undefined
  BY <1>17 DEF Reduced
<1>21. Applied(p, f) = r
  BY <1>4 DEF r, last
<1>22. QED
  BY <1>15, <1>19, <1>20, <1>21 DEF b
-----------------------------------------------------------------------------
(* Building a program, over any sequence of statements.                    *)

ProgramsOf(I, D) ==
  [stms : [D -> Seq(I)], deleted : [D -> Seq(I)], parent : [I -> D],
   edges : SUBSET I, blocks : SUBSET Int, live : SUBSET Int, undefined : BOOLEAN]

\* BlocksOf, for a statement of the sequence.
BlocksIn(nodes, s) == CASE nodes[s].kind \in {"if"} \union Section -> {s, -s}
                        [] nodes[s].kind = "for" -> {s}
                        [] OTHER -> {}

\* Whole, for the statements of the sequence.
WholeOf(nodes, p, U, A) ==
  /\ p \in ProgramsOf(DOMAIN nodes, DOMAIN p.stms) /\ DOMAIN p.stms \subseteq Int
  /\ \A g \in p.edges : nodes[g].kind = "goto"
  /\ \A k \in DOMAIN p.stms :
       /\ Neat(p, k)
       /\ \A x \in Placed(p, k) : p.parent[x] = k /\ Owner(k) < x /\ x \notin U
       /\ \A x \in ToSet(p.stms[k]) : BlocksIn(nodes, x) \subseteq DOMAIN p.stms
  /\ \A x \in DOMAIN nodes \ U : x \in Placed(p, p.parent[x])
  /\ \A k \in A \intersect DOMAIN p.stms : \A x \in ToSet(p.stms[k]) :
       nodes[x].kind \notin Barred /\ BlocksIn(nodes, x) \subseteq A

\* The two are one.
LEMMA WholeIsWholeOf ==
  ASSUME NEW p, NEW U, NEW A
  PROVE  Whole(p, U, A) <=> WholeOf(node, p, U, A)
<1>1. \A s : BlocksOf(s) = BlocksIn(node, s)
  BY DEF BlocksOf, BlocksIn, Kind
<1>2. \A D : Programs(D) = ProgramsOf(DOMAIN node, D)
  BY DEF Programs, ProgramsOf, Ids
<1>3. Proper(p) <=> /\ p \in ProgramsOf(DOMAIN node, DOMAIN p.stms) /\ DOMAIN p.stms \subseteq Int
                    /\ \A k \in DOMAIN p.stms : Neat(p, k)
                    /\ \A g \in p.edges : node[g].kind = "goto"
  BY <1>2 DEF Proper, Kind
<1>4. Closed(p, A) <=> \A k \in A \intersect DOMAIN p.stms : \A x \in ToSet(p.stms[k]) :
                         node[x].kind \notin Barred /\ BlocksIn(node, x) \subseteq A
  BY <1>1 DEF Closed, Kind
<1>5. Rooted(p) <=> \A k \in DOMAIN p.stms :
                      /\ \A x \in Placed(p, k) : p.parent[x] = k /\ Owner(k) < x
                      /\ \A x \in ToSet(p.stms[k]) : BlocksIn(node, x) \subseteq DOMAIN p.stms
  BY <1>1 DEF Rooted
<1>6. (\A k \in DOMAIN p.stms : Placed(p, k) \intersect U = {})
        <=> \A k \in DOMAIN p.stms : \A x \in Placed(p, k) : x \notin U
  OBVIOUS
<1> HIDE DEF Proper, Closed, Rooted
<1>7. Whole(p, U, A) <=>
        /\ Proper(p) /\ Rooted(p)
        /\ \A x \in DOMAIN node \ U : x \in Placed(p, p.parent[x])
        /\ \A k \in DOMAIN p.stms : \A x \in Placed(p, k) : x \notin U
        /\ Closed(p, A)
  BY <1>6 DEF Whole, Ids
<1>8. ASSUME Whole(p, U, A)
      PROVE  WholeOf(node, p, U, A)
  BY <1>3, <1>4, <1>5, <1>7, <1>8 DEF WholeOf
<1>9. ASSUME WholeOf(node, p, U, A)
      PROVE  Whole(p, U, A)
  BY <1>3, <1>4, <1>5, <1>7, <1>9 DEF WholeOf
<1>10. QED
  BY <1>8, <1>9

\* Statements X find their place, and new blocks are empty.
Edit(old, new, p, q, U, U2, A, A2, X) ==
  /\ q \in ProgramsOf(DOMAIN new, DOMAIN q.stms)
  /\ DOMAIN p.stms \subseteq DOMAIN q.stms /\ DOMAIN q.stms \subseteq Int
  /\ DOMAIN old \subseteq DOMAIN new
  /\ \A x \in DOMAIN old : new[x].kind = old[x].kind /\ q.parent[x] = p.parent[x]
  /\ \A g \in q.edges \ p.edges : new[g].kind = "goto"
  /\ \A k \in DOMAIN p.stms :
       /\ q.deleted[k] = p.deleted[k] /\ IsInjective(q.stms[k])
       /\ ToSet(q.stms[k]) = ToSet(p.stms[k]) \union {x \in X : q.parent[x] = k}
  /\ \A k \in DOMAIN q.stms \ DOMAIN p.stms : q.stms[k] = <<>> /\ q.deleted[k] = <<>>
  /\ X \subseteq DOMAIN new /\ X \intersect U2 = {}
  /\ \A x \in X : x \in U \/ x \notin DOMAIN old
  /\ DOMAIN new \ U2 \subseteq (DOMAIN old \ U) \union X /\ U2 \intersect (DOMAIN old \ U) = {}
  /\ \A x \in X : /\ q.parent[x] \in DOMAIN p.stms /\ Owner(q.parent[x]) < x
                  /\ BlocksIn(new, x) \subseteq DOMAIN q.stms
                  /\ q.parent[x] \in A2 => new[x].kind \notin Barred /\ BlocksIn(new, x) \subseteq A2
  /\ A \subseteq A2 /\ A2 \intersect DOMAIN p.stms \subseteq A

\* After an edit everything has its place as well.
LEMMA Edited ==
  ASSUME NEW old, NEW new, NEW p, NEW q, NEW U, NEW U2, NEW A, NEW A2, NEW X,
         WholeOf(old, p, U, A), Edit(old, new, p, q, U, U2, A, A2, X)
  PROVE  WholeOf(new, q, U2, A2)
<1> DEFINE D == DOMAIN p.stms
           D2 == DOMAIN q.stms
           I == DOMAIN old
           I2 == DOMAIN new
<1> USE DEF Edit
<1>1. /\ p \in ProgramsOf(I, D) /\ D \subseteq Int
      /\ \A g \in p.edges : old[g].kind = "goto"
      /\ \A k \in D :
           /\ Neat(p, k)
           /\ \A x \in Placed(p, k) : p.parent[x] = k /\ Owner(k) < x /\ x \notin U
           /\ \A x \in ToSet(p.stms[k]) : BlocksIn(old, x) \subseteq D
      /\ \A x \in I \ U : x \in Placed(p, p.parent[x])
      /\ \A k \in A \intersect D : \A x \in ToSet(p.stms[k]) :
           old[x].kind \notin Barred /\ BlocksIn(old, x) \subseteq A
  BY DEF WholeOf
<1>2. /\ p.stms \in [D -> Seq(I)] /\ p.deleted \in [D -> Seq(I)] /\ p.edges \subseteq I
      /\ p.parent \in [I -> D]
  BY <1>1 DEF ProgramsOf
<1>3. ASSUME NEW k \in D
      PROVE  Placed(p, k) \subseteq I \ U /\ ToSet(p.stms[k]) \subseteq I \ U
  <2>1. p.stms[k] \in Seq(I) /\ p.deleted[k] \in Seq(I)
    BY <1>2
  <2>2. ToSet(p.stms[k]) \subseteq I /\ ToSet(p.deleted[k]) \subseteq I
    BY <2>1 DEF ToSet
  <2>3. QED
    BY <1>1, <2>2 DEF Placed
<1>4. \A x \in I : BlocksIn(new, x) = BlocksIn(old, x)
  BY DEF BlocksIn
<1>5. \A k \in D : Placed(q, k) = Placed(p, k) \union {x \in X : q.parent[x] = k}
  BY DEF Placed
<1>6. ToSet(<<>>) = {} /\ IsInjective(<<>>)
  BY DEF ToSet, IsInjective
<1>7. \A k \in D2 \ D : Placed(q, k) = {} /\ ToSet(q.stms[k]) = {} /\ Neat(q, k)
  BY <1>6 DEF Placed, Neat
<1>8. ASSUME NEW k \in D
      PROVE  Neat(q, k)
  <2>1. Neat(p, k) /\ ToSet(p.deleted[k]) \subseteq I \ U
    BY <1>1, <1>3 DEF Placed
  <2>2. ToSet(p.deleted[k]) \intersect X = {}
    BY <2>1
  <2>3. QED
    BY <2>1, <2>2 DEF Neat
<1>9. \A g \in q.edges : new[g].kind = "goto"
  <2>1. SUFFICES ASSUME NEW g \in q.edges PROVE new[g].kind = "goto"
    OBVIOUS
  <2>2. CASE g \in p.edges
    <3>1. g \in I /\ old[g].kind = "goto"
      BY <1>1, <1>2, <2>2
    <3>2. QED
      BY <3>1
  <2>3. QED
    BY <2>2
<1>10. ASSUME NEW k \in D2, NEW x \in Placed(q, k)
       PROVE  q.parent[x] = k /\ Owner(k) < x /\ x \notin U2
  <2>1. k \in D
    BY <1>7, <1>10
  <2>2. CASE x \in Placed(p, k)
    <3>1. x \in I \ U /\ p.parent[x] = k /\ Owner(k) < x
      BY <1>1, <1>3, <2>1, <2>2
    <3>2. QED
      BY <3>1
  <2>3. CASE x \in X /\ q.parent[x] = k
    BY <2>3
  <2>4. QED
    BY <1>5, <1>10, <2>1, <2>2, <2>3
<1>11. ASSUME NEW k \in D2, NEW x \in ToSet(q.stms[k])
       PROVE  \/ k \in D /\ x \in ToSet(p.stms[k]) /\ x \in I
              \/ x \in X /\ q.parent[x] = k
  <2>1. k \in D
    BY <1>7, <1>11
  <2>2. ToSet(p.stms[k]) \subseteq I
    BY <1>3, <2>1
  <2>3. ToSet(q.stms[k]) = ToSet(p.stms[k]) \union {y \in X : q.parent[y] = k}
    BY <2>1
  <2>4. QED
    BY <1>11, <2>1, <2>2, <2>3
<1>12. ASSUME NEW k \in D2, NEW x \in ToSet(q.stms[k])
       PROVE  BlocksIn(new, x) \subseteq D2
  BY <1>1, <1>4, <1>11, <1>12
<1>13. ASSUME NEW x \in I2 \ U2
       PROVE  x \in Placed(q, q.parent[x])
  <2>1. CASE x \in X
    BY <1>5, <2>1
  <2>2. CASE x \in I \ U
    <3>1. p.parent[x] \in D /\ x \in Placed(p, p.parent[x]) /\ q.parent[x] = p.parent[x]
      BY <1>1, <1>2, <2>2
    <3>2. QED
      BY <1>5, <3>1
  <2>3. QED
    BY <2>1, <2>2
<1>14. ASSUME NEW k \in A2 \intersect D2, NEW x \in ToSet(q.stms[k])
       PROVE  new[x].kind \notin Barred /\ BlocksIn(new, x) \subseteq A2
  <2>1. CASE k \in D /\ x \in ToSet(p.stms[k]) /\ x \in I
    <3>1. k \in A \intersect D
      BY <1>14, <2>1
    <3>2. old[x].kind \notin Barred /\ BlocksIn(old, x) \subseteq A
      BY <1>1, <2>1, <3>1
    <3>3. QED
      BY <1>4, <2>1, <3>2
  <2>2. CASE x \in X /\ q.parent[x] = k
    BY <1>14, <2>2
  <2>3. QED
    BY <1>11, <1>14, <2>1, <2>2
<1>15. QED
  BY <1>7, <1>8, <1>9, <1>10, <1>12, <1>13, <1>14 DEF WholeOf
\* A sequence of statements becomes longer.
LEMMA LongerFacts ==
  ASSUME NEW nodes, nodes \in Seq(ToSet(nodes)), NEW r
  PROVE  LET new == Append(nodes, r)
             n == Len(nodes) + 1
         IN /\ Len(nodes) \in Nat /\ DOMAIN nodes = 1 .. Len(nodes)
            /\ new \in Seq(ToSet(new)) /\ Len(new) = n /\ DOMAIN new = 1 .. n
            /\ \A x \in DOMAIN nodes : new[x] = nodes[x]
            /\ new[n] = r
            /\ DOMAIN new = DOMAIN nodes \union {n} /\ n \notin DOMAIN nodes
<1> DEFINE new == Append(nodes, r)
           S == ToSet(nodes) \union {r}
<1>1. nodes \in Seq(S) /\ r \in S
  <2>1. ToSet(nodes) \subseteq S
    OBVIOUS
  <2> HIDE DEF S
  <2>2. nodes \in Seq(S)
    BY <2>1, SeqMonotonic
  <2>3. QED
    BY <2>2 DEF S
<1>2. PICK N \in Nat : N = Len(nodes) /\ DOMAIN nodes = 1 .. N
  BY <1>1, LenProperties
<1>3. new \in Seq(S) /\ ToSet(new) = S
  <2>1. ToSet(Append(nodes, r)) = ToSet(nodes) \union {r} /\ Append(nodes, r) \in Seq(S)
    BY <1>1, AppendFacts
  <2>2. QED
    BY <2>1
<1>4. /\ Len(new) = N + 1 /\ new[N + 1] = r /\ \A x \in 1 .. N : new[x] = nodes[x]
  <2> HIDE DEF S
  <2>1. QED
    BY <1>1, <1>2, AppendProperties
<1> HIDE DEF new, S
<1>5. DOMAIN new = 1 .. N + 1
  BY <1>3, <1>4, LenProperties
<1>6. 1 .. N + 1 = (1 .. N) \union {N + 1} /\ N + 1 \notin 1 .. N
  BY <1>2
<1>7. QED
  BY <1>2, <1>3, <1>4, <1>5, <1>6 DEF new

\* A function on a first segment, as a sequence that becomes longer.
FirstOnes(f, n, S) == n \in Nat /\ f \in [1 .. n -> S]

\* It keeps what it has, and the new element is the last.
LEMMA LongerFunction ==
  ASSUME NEW n, NEW S, NEW f, FirstOnes(f, n, S), NEW e \in S
  PROVE  /\ FirstOnes(Append(f, e), n + 1, S)
         /\ \A x \in 1 .. n : Append(f, e)[x] = f[x]
         /\ Append(f, e)[n + 1] = e
<1> USE DEF FirstOnes
<1>1. f \in Seq(S) /\ Len(f) = n
  <2>1. f \in Seq(S)
    BY SeqDef
  <2>2. Len(f) \in Nat /\ DOMAIN f = 1 .. Len(f)
    BY <2>1, LenProperties
  <2>3. 1 .. Len(f) = 1 .. n
    BY <2>2
  <2>4. QED
    BY <2>1, <2>2, <2>3
<1> DEFINE g == Append(f, e)
<1>2. /\ g \in Seq(S) /\ Len(g) = n + 1
      /\ \A x \in 1 .. n : g[x] = f[x]
      /\ g[n + 1] = e
  BY <1>1, AppendProperties
<1> HIDE DEF g
<1>3. g \in [1 .. n + 1 -> S]
  <2>1. g \in [1 .. Len(g) -> S]
    BY <1>2, LenProperties
  <2>2. QED
    BY <1>2, <2>1
<1>4. QED
  BY <1>2, <1>3 DEF g

\* Records of programs.
Shaped(q) ==
  /\ q = [stms |-> q.stms, deleted |-> q.deleted, parent |-> q.parent, edges |-> q.edges,
          blocks |-> q.blocks, live |-> q.live, undefined |-> q.undefined]
  /\ q.blocks \in SUBSET Int /\ q.live \in SUBSET Int /\ q.undefined \in BOOLEAN

\* A larger set of elements, or of statements.
LEMMA LargerSeq ==
  ASSUME NEW S, NEW T, S \subseteq T
  PROVE  Seq(S) \subseteq Seq(T)
  BY SeqMonotonic

\* A new statement without blocks makes the text of block b longer.
AddsLeaf(nodes, r, p, b, text, q) ==
  /\ b \in DOMAIN p.stms /\ Owner(b) < Len(nodes) + 1
  /\ r.kind \notin Compound \union Section
  /\ IsInjective(text) /\ text \in Seq(1 .. Len(nodes) + 1)
  /\ ToSet(text) = ToSet(p.stms[b]) \union {Len(nodes) + 1}
  /\ Shaped(q) /\ q.stms = [p.stms EXCEPT ![b] = text] /\ q.deleted = p.deleted
  /\ q.parent = Append(p.parent, b) /\ q.edges \subseteq p.edges \union {Len(nodes) + 1}
  /\ Len(nodes) + 1 \in q.edges => r.kind = "goto"

\* It has its place there.
LEMMA LeafAdded ==
  ASSUME NEW nodes, nodes \in Seq(ToSet(nodes)), NEW r, NEW p, NEW U, NEW A, WholeOf(nodes, p, U, A),
         U \subseteq DOMAIN nodes, NEW b, b \in A => r.kind \notin Barred,
         NEW text, NEW q, AddsLeaf(nodes, r, p, b, text, q)
  PROVE  WholeOf(Append(nodes, r), q, U, A)
<1> USE DEF AddsLeaf
<1> DEFINE D == DOMAIN p.stms
           I == DOMAIN nodes
           new == Append(nodes, r)
<1>1. PICK n \in Nat : n = Len(nodes) /\ I = 1 .. n
  BY LongerFacts
<1>2. /\ DOMAIN new = 1 .. n + 1 /\ 1 .. n + 1 = I \union {n + 1} /\ n + 1 \notin I
      /\ new[n + 1] = r /\ \A x \in I : new[x] = nodes[x]
  BY <1>1, LongerFacts
<1> HIDE DEF new
<1>3. /\ p.stms \in [D -> Seq(I)] /\ p.deleted \in [D -> Seq(I)] /\ p.edges \subseteq I
      /\ p.parent \in [1 .. n -> D] /\ D \subseteq Int
      /\ \A k \in D : Neat(p, k)
      /\ \A g \in p.edges : nodes[g].kind = "goto"
  BY <1>1 DEF WholeOf, ProgramsOf
<1>4. /\ q.parent \in [1 .. n + 1 -> D] /\ q.parent[n + 1] = b
      /\ \A x \in I : q.parent[x] = p.parent[x]
  <2>1. p.parent \in [1 .. n -> D] /\ b \in D /\ q.parent = Append(p.parent, b)
    BY <1>3
  <2> HIDE DEF D
  <2>2. FirstOnes(p.parent, n, D)
    BY <2>1 DEF FirstOnes
  <2>3. /\ FirstOnes(Append(p.parent, b), n + 1, D)
        /\ \A x \in 1 .. n : Append(p.parent, b)[x] = p.parent[x]
        /\ Append(p.parent, b)[n + 1] = b
    BY <2>1, <2>2, LongerFunction
  <2>4. QED
    BY <1>1, <2>1, <2>3 DEF FirstOnes
<1>5. Seq(I) \subseteq Seq(1 .. n + 1)
  BY <1>2, LargerSeq
<1>6. /\ q.stms \in [D -> Seq(1 .. n + 1)] /\ DOMAIN q.stms = D
      /\ q.stms[b] = text /\ \A k \in D \ {b} : q.stms[k] = p.stms[k]
  BY <1>1, <1>3, <1>5
<1>7. q.deleted \in [D -> Seq(1 .. n + 1)] /\ q.edges \subseteq 1 .. n + 1
  BY <1>1, <1>2, <1>3, <1>5
<1>8. q \in ProgramsOf(DOMAIN new, DOMAIN q.stms)
  BY <1>2, <1>4, <1>6, <1>7 DEF ProgramsOf, Shaped
<1> DEFINE X == {n + 1}
<1>9. BlocksIn(new, n + 1) = {}
  BY <1>2 DEF BlocksIn, Compound
<1>10. ASSUME NEW k \in D
       PROVE  /\ q.deleted[k] = p.deleted[k] /\ IsInjective(q.stms[k])
              /\ ToSet(q.stms[k]) = ToSet(p.stms[k]) \union {x \in X : q.parent[x] = k}
  <2>1. CASE k = b
    BY <1>1, <1>4, <1>6, <2>1
  <2>2. CASE k # b
    <3>1. q.stms[k] = p.stms[k] /\ IsInjective(p.stms[k])
      BY <1>3, <1>6, <2>2 DEF Neat
    <3>2. {x \in X : q.parent[x] = k} = {}
      BY <1>4, <2>2
    <3>3. QED
      BY <3>1, <3>2
  <2>3. QED
    BY <2>1, <2>2
<1>11. \A g \in q.edges \ p.edges : new[g].kind = "goto"
  BY <1>1, <1>2
<1>12. /\ X \subseteq DOMAIN new /\ X \intersect U = {}
       /\ \A x \in X : x \in U \/ x \notin I
       /\ DOMAIN new \ U \subseteq (I \ U) \union X /\ U \intersect (I \ U) = {}
  BY <1>1, <1>2
<1>13. \A x \in X : /\ q.parent[x] \in D /\ Owner(q.parent[x]) < x
                    /\ BlocksIn(new, x) \subseteq DOMAIN q.stms
                    /\ q.parent[x] \in A => new[x].kind \notin Barred /\ BlocksIn(new, x) \subseteq A
  BY <1>1, <1>2, <1>4, <1>9
<1>14. /\ D \subseteq DOMAIN q.stms /\ DOMAIN q.stms \subseteq Int /\ I \subseteq DOMAIN new
       /\ \A x \in I : new[x].kind = nodes[x].kind /\ q.parent[x] = p.parent[x]
       /\ \A k \in DOMAIN q.stms \ D : q.stms[k] = <<>> /\ q.deleted[k] = <<>>
  BY <1>2, <1>3, <1>4, <1>6
<1> HIDE DEF D, I, X
<1>15. WholeOf(new, q, U, A)
  <2>1. Edit(nodes, new, p, q, U, U, A, A, X)
    BY <1>8, <1>10, <1>11, <1>12, <1>13, <1>14 DEF D, I, Edit
  <2>2. QED
    BY <2>1, Edited
<1>16. QED
  BY <1>15 DEF new

\* The lists of blocks, with an empty one more.
ListsOf(lists, D, S) == lists \in [D -> Seq(S)]

\* The other lists stay.
LEMMA WithFacts ==
  ASSUME NEW D, NEW S, NEW lists, ListsOf(lists, D, S), NEW b
  PROVE  /\ ListsOf(With(lists, b), D \union {b}, S)
         /\ With(lists, b)[b] = <<>>
         /\ \A k \in D \ {b} : With(lists, b)[k] = lists[k]
<1>1. <<>> \in Seq(S)
  OBVIOUS
<1>2. QED
  BY <1>1 DEF With, ListsOf

\* A new statement opens its first block: it is not in a block yet.
LEMMA HolderAdded ==
  ASSUME NEW nodes, nodes \in Seq(ToSet(nodes)), NEW r, NEW p, NEW U, NEW A, NEW A2, WholeOf(nodes, p, U, A),
         U \subseteq DOMAIN nodes,
         NEW b \in DOMAIN p.stms, NEW s, s = Len(nodes) + 1, s \notin DOMAIN p.stms,
         A \subseteq A2, A2 \intersect DOMAIN p.stms \subseteq A,
         NEW q, Shaped(q), q.stms = With(p.stms, s), q.deleted = With(p.deleted, s),
         q.parent = Append(p.parent, b), q.edges = p.edges
  PROVE  WholeOf(Append(nodes, r), q, U \union {s}, A2)
<1> DEFINE D == DOMAIN p.stms
           D2 == D \union {s}
           I == DOMAIN nodes
           U2 == U \union {s}
           new == Append(nodes, r)
<1>1. PICK n \in Nat : n = Len(nodes) /\ I = 1 .. n /\ s = n + 1
  BY LongerFacts
<1>2. /\ DOMAIN new = 1 .. n + 1 /\ 1 .. n + 1 = I \union {n + 1} /\ n + 1 \notin I
      /\ \A x \in I : new[x] = nodes[x]
  BY <1>1, LongerFacts
<1> HIDE DEF new
<1>3. /\ p.stms \in [D -> Seq(I)] /\ p.deleted \in [D -> Seq(I)] /\ p.edges \subseteq I
      /\ p.parent \in [1 .. n -> D] /\ D \subseteq Int
      /\ \A k \in D : Neat(p, k)
  BY <1>1 DEF WholeOf, ProgramsOf
<1>4. q.parent \in [1 .. n + 1 -> D] /\ \A x \in I : q.parent[x] = p.parent[x]
  <2>1. p.parent \in [1 .. n -> D] /\ b \in D /\ q.parent = Append(p.parent, b)
    BY <1>3
  <2> HIDE DEF D
  <2>2. FirstOnes(p.parent, n, D)
    BY <2>1 DEF FirstOnes
  <2>3. /\ FirstOnes(Append(p.parent, b), n + 1, D)
        /\ \A x \in 1 .. n : Append(p.parent, b)[x] = p.parent[x]
        /\ Append(p.parent, b)[n + 1] = b
    BY <2>1, <2>2, LongerFunction
  <2>4. QED
    BY <1>1, <2>1, <2>3 DEF FirstOnes
<1>5. Seq(I) \subseteq Seq(1 .. n + 1)
  BY <1>2, LargerSeq
<1>6. /\ q.stms \in [D2 -> Seq(I)] /\ q.stms[s] = <<>>
      /\ \A k \in D : q.stms[k] = p.stms[k]
  <2>1. p.stms \in [D -> Seq(I)] /\ s \notin D
    BY <1>3
  <2> HIDE DEF D, I
  <2>2. ListsOf(p.stms, D, I)
    BY <2>1 DEF ListsOf
  <2>3. /\ ListsOf(With(p.stms, s), D \union {s}, I)
        /\ With(p.stms, s)[s] = <<>>
        /\ \A k \in D \ {s} : With(p.stms, s)[k] = p.stms[k]
    BY <2>2, WithFacts
  <2>4. QED
    BY <2>1, <2>3 DEF ListsOf
<1>7. /\ q.deleted \in [D2 -> Seq(I)] /\ q.deleted[s] = <<>>
      /\ \A k \in D : q.deleted[k] = p.deleted[k]
  <2>1. p.deleted \in [D -> Seq(I)] /\ s \notin D
    BY <1>3
  <2> HIDE DEF D, I
  <2>2. ListsOf(p.deleted, D, I)
    BY <2>1 DEF ListsOf
  <2>3. /\ ListsOf(With(p.deleted, s), D \union {s}, I)
        /\ With(p.deleted, s)[s] = <<>>
        /\ \A k \in D \ {s} : With(p.deleted, s)[k] = p.deleted[k]
    BY <2>2, WithFacts
  <2>4. QED
    BY <2>1, <2>3 DEF ListsOf
<1>8. /\ q.stms \in [D2 -> Seq(1 .. n + 1)] /\ q.deleted \in [D2 -> Seq(1 .. n + 1)]
      /\ DOMAIN q.stms = D2 /\ q.parent \in [1 .. n + 1 -> D2] /\ q.edges \subseteq 1 .. n + 1
  BY <1>2, <1>3, <1>4, <1>5, <1>6, <1>7
<1>9. q \in ProgramsOf(DOMAIN new, DOMAIN q.stms)
  BY <1>2, <1>8 DEF ProgramsOf, Shaped
<1>10. \A k \in D : /\ q.deleted[k] = p.deleted[k] /\ IsInjective(q.stms[k])
                    /\ ToSet(q.stms[k]) = ToSet(p.stms[k]) \union {x \in {} : q.parent[x] = k}
  BY <1>3, <1>6, <1>7 DEF Neat
<1>11. /\ DOMAIN new \ U2 \subseteq (I \ U) \union {} /\ U2 \intersect (I \ U) = {}
  BY <1>1, <1>2
<1>12. /\ D \subseteq DOMAIN q.stms /\ DOMAIN q.stms \subseteq Int /\ I \subseteq DOMAIN new
       /\ \A x \in I : new[x].kind = nodes[x].kind /\ q.parent[x] = p.parent[x]
       /\ \A k \in DOMAIN q.stms \ D : q.stms[k] = <<>> /\ q.deleted[k] = <<>>
       /\ \A g \in q.edges \ p.edges : new[g].kind = "goto"
  <2>1. s \in Int /\ D2 \subseteq Int
    BY <1>1, <1>3
  <2>2. I \subseteq DOMAIN new /\ \A x \in I : new[x].kind = nodes[x].kind /\ q.parent[x] = p.parent[x]
    BY <1>1, <1>2, <1>4
  <2>3. \A k \in DOMAIN q.stms \ D : q.stms[k] = <<>> /\ q.deleted[k] = <<>>
    BY <1>6, <1>7, <1>8
  <2>4. QED
    BY <1>8, <2>1, <2>2, <2>3
<1> DEFINE X == {}
<1> HIDE DEF D, I, U2, X
<1>13. /\ X \subseteq DOMAIN new /\ X \intersect U2 = {}
       /\ DOMAIN new \ U2 \subseteq (I \ U) \union X
       /\ \A x \in X : x \in U \/ x \notin I
       /\ \A x \in X : /\ q.parent[x] \in D /\ Owner(q.parent[x]) < x
                       /\ BlocksIn(new, x) \subseteq DOMAIN q.stms
                       /\ q.parent[x] \in A2 => new[x].kind \notin Barred /\ BlocksIn(new, x) \subseteq A2
       /\ \A k \in D : /\ q.deleted[k] = p.deleted[k] /\ IsInjective(q.stms[k])
                       /\ ToSet(q.stms[k]) = ToSet(p.stms[k]) \union {x \in X : q.parent[x] = k}
  BY <1>10, <1>11 DEF X
<1>14. WholeOf(new, q, U2, A2)
  <2>1. Edit(nodes, new, p, q, U, U2, A, A2, X)
    BY <1>9, <1>11, <1>12, <1>13 DEF D, I, Edit
  <2>2. QED
    BY <2>1, Edited
<1>15. QED
  BY <1>14 DEF new, U2

\* A statement opens its second block.
LEMMA BlockAdded ==
  ASSUME NEW nodes, NEW p, NEW U, NEW A, WholeOf(nodes, p, U, A),
         NEW m \in Int, m \notin DOMAIN p.stms,
         NEW q, Shaped(q), q.stms = With(p.stms, m), q.deleted = With(p.deleted, m),
         q.parent = p.parent, q.edges = p.edges
  PROVE  WholeOf(nodes, q, U, A)
<1> DEFINE D == DOMAIN p.stms
           D2 == D \union {m}
           I == DOMAIN nodes
<1>1. /\ p.stms \in [D -> Seq(I)] /\ p.deleted \in [D -> Seq(I)] /\ p.edges \subseteq I
      /\ p.parent \in [I -> D] /\ D \subseteq Int
      /\ \A k \in D : Neat(p, k)
  BY DEF WholeOf, ProgramsOf
<1>2. /\ q.stms \in [D2 -> Seq(I)] /\ q.stms[m] = <<>>
      /\ \A k \in D : q.stms[k] = p.stms[k]
  <2>1. p.stms \in [D -> Seq(I)] /\ m \notin D
    BY <1>1
  <2> HIDE DEF D, I
  <2>2. ListsOf(p.stms, D, I)
    BY <2>1 DEF ListsOf
  <2>3. /\ ListsOf(With(p.stms, m), D \union {m}, I)
        /\ With(p.stms, m)[m] = <<>>
        /\ \A k \in D \ {m} : With(p.stms, m)[k] = p.stms[k]
    BY <2>2, WithFacts
  <2>4. QED
    BY <2>1, <2>3 DEF ListsOf
<1>3. /\ q.deleted \in [D2 -> Seq(I)] /\ q.deleted[m] = <<>>
      /\ \A k \in D : q.deleted[k] = p.deleted[k]
  <2>1. p.deleted \in [D -> Seq(I)] /\ m \notin D
    BY <1>1
  <2> HIDE DEF D, I
  <2>2. ListsOf(p.deleted, D, I)
    BY <2>1 DEF ListsOf
  <2>3. /\ ListsOf(With(p.deleted, m), D \union {m}, I)
        /\ With(p.deleted, m)[m] = <<>>
        /\ \A k \in D \ {m} : With(p.deleted, m)[k] = p.deleted[k]
    BY <2>2, WithFacts
  <2>4. QED
    BY <2>1, <2>3 DEF ListsOf
<1>4. DOMAIN q.stms = D2 /\ q.parent \in [I -> D2]
  BY <1>1, <1>2
<1>5. q \in ProgramsOf(I, DOMAIN q.stms)
  BY <1>1, <1>2, <1>3, <1>4 DEF ProgramsOf, Shaped
<1> DEFINE X == {}
<1>6. \A k \in D : /\ q.deleted[k] = p.deleted[k] /\ IsInjective(q.stms[k])
                   /\ ToSet(q.stms[k]) = ToSet(p.stms[k]) \union {x \in X : q.parent[x] = k}
  BY <1>1, <1>2, <1>3 DEF Neat
<1>7. /\ D \subseteq DOMAIN q.stms /\ DOMAIN q.stms \subseteq Int
      /\ \A k \in DOMAIN q.stms \ D : q.stms[k] = <<>> /\ q.deleted[k] = <<>>
  BY <1>1, <1>2, <1>3, <1>4
<1>8. /\ X \subseteq I /\ X \intersect U = {}
      /\ I \ U \subseteq (I \ U) \union X /\ U \intersect (I \ U) = {}
      /\ \A x \in X : x \in U \/ x \notin I
      /\ \A x \in X : /\ q.parent[x] \in D /\ Owner(q.parent[x]) < x
                      /\ BlocksIn(nodes, x) \subseteq DOMAIN q.stms
                      /\ q.parent[x] \in A => nodes[x].kind \notin Barred /\ BlocksIn(nodes, x) \subseteq A
      /\ A \subseteq A /\ A \intersect D \subseteq A /\ I \subseteq I
      /\ \A x \in I : nodes[x].kind = nodes[x].kind /\ q.parent[x] = p.parent[x]
      /\ \A g \in q.edges \ p.edges : nodes[g].kind = "goto"
  OBVIOUS
<1> HIDE DEF D, I, X
<1>9. Edit(nodes, nodes, p, q, U, U, A, A, X)
  BY <1>5, <1>6, <1>7, <1>8 DEF D, I, Edit
<1>10. QED
  BY <1>9, Edited

\* A statement whose blocks are finished joins its block.
LEMMA HolderPlaced ==
  ASSUME NEW nodes, NEW p, NEW U, NEW A, WholeOf(nodes, p, U, A),
         NEW s \in U, s \in DOMAIN nodes, NEW h, h = p.parent[s], Owner(h) < s,
         BlocksIn(nodes, s) \subseteq DOMAIN p.stms,
         h \in A => nodes[s].kind \notin Barred /\ BlocksIn(nodes, s) \subseteq A
  PROVE  WholeOf(nodes, Join(p, h, s), U \ {s}, A)
<1> DEFINE D == DOMAIN p.stms
           I == DOMAIN nodes
           q == Join(p, h, s)
           text == Append(p.stms[h], s)
<1>1. /\ p \in ProgramsOf(I, D)
      /\ p.stms \in [D -> Seq(I)] /\ p.deleted \in [D -> Seq(I)] /\ p.edges \subseteq I
      /\ p.parent \in [I -> D] /\ D \subseteq Int
      /\ \A k \in D : Neat(p, k)
  BY DEF WholeOf, ProgramsOf
<1>2. h \in D /\ p.stms[h] \in Seq(I)
  BY <1>1
<1>3. s \notin ToSet(p.stms[h])
  BY <1>2 DEF WholeOf, Placed
<1>4. text \in Seq(I) /\ ToSet(text) = ToSet(p.stms[h]) \union {s} /\ IsInjective(text)
  BY <1>1, <1>2, <1>3, AppendFacts DEF Neat
<1>5. /\ q.stms = [p.stms EXCEPT ![h] = text] /\ q.deleted = p.deleted
      /\ q.parent = p.parent /\ q.edges = p.edges
      /\ q.blocks = p.blocks /\ q.live = p.live /\ q.undefined = p.undefined
      /\ q = [stms |-> q.stms, deleted |-> q.deleted, parent |-> q.parent, edges |-> q.edges,
              blocks |-> q.blocks, live |-> q.live, undefined |-> q.undefined]
  <2>1. q = [p EXCEPT !.stms[h] = text]
    BY DEF Join
  <2> HIDE DEF q, text
  <2>2. QED
    BY <1>1, <2>1 DEF ProgramsOf
<1> HIDE DEF q, text
<1>6. /\ q.stms \in [D -> Seq(I)] /\ DOMAIN q.stms = D
      /\ q.stms[h] = text /\ \A k \in D \ {h} : q.stms[k] = p.stms[k]
  BY <1>1, <1>2, <1>4, <1>5
<1>7. q \in ProgramsOf(I, DOMAIN q.stms)
  BY <1>1, <1>5, <1>6 DEF ProgramsOf
<1> DEFINE X == {s}
           U2 == U \ {s}
<1>8. ASSUME NEW k \in D
      PROVE  /\ q.deleted[k] = p.deleted[k] /\ IsInjective(q.stms[k])
             /\ ToSet(q.stms[k]) = ToSet(p.stms[k]) \union {x \in X : q.parent[x] = k}
  <2>1. CASE k = h
    BY <1>4, <1>5, <1>6, <2>1
  <2>2. CASE k # h
    BY <1>1, <1>5, <1>6, <2>2 DEF Neat
  <2>3. QED
    BY <2>1, <2>2
<1>9. /\ X \subseteq I /\ X \intersect U2 = {}
      /\ I \ U2 \subseteq (I \ U) \union X /\ U2 \intersect (I \ U) = {}
      /\ \A x \in X : x \in U \/ x \notin I
      /\ \A x \in X : /\ q.parent[x] \in D /\ Owner(q.parent[x]) < x
                      /\ BlocksIn(nodes, x) \subseteq DOMAIN q.stms
                      /\ q.parent[x] \in A => nodes[x].kind \notin Barred /\ BlocksIn(nodes, x) \subseteq A
      /\ A \subseteq A /\ A \intersect D \subseteq A /\ I \subseteq I
      /\ \A x \in I : nodes[x].kind = nodes[x].kind /\ q.parent[x] = p.parent[x]
      /\ \A g \in q.edges \ p.edges : nodes[g].kind = "goto"
      /\ \A k \in DOMAIN q.stms \ D : q.stms[k] = <<>> /\ q.deleted[k] = <<>>
      /\ D \subseteq DOMAIN q.stms /\ DOMAIN q.stms \subseteq Int
  BY <1>1, <1>2, <1>5, <1>6
<1> HIDE DEF D, I, X, U2
<1>10. WholeOf(nodes, q, U2, A)
  <2>1. Edit(nodes, nodes, p, q, U, U2, A, A, X)
    BY <1>7, <1>8, <1>9 DEF D, I, Edit
  <2>2. QED
    BY <2>1, Edited
<1>11. QED
  BY <1>10 DEF q, U2
-----------------------------------------------------------------------------
(* The inductive invariant.                                                *)

Frames ==
  [block : Int, atomic : BOOLEAN, loop : BOOLEAN, emi : BOOLEAN, tg : BOOLEAN, depth : Int,
   drawn : BOOLEAN, revisit : BOOLEAN, analysed : BOOLEAN]

\* The statements whose blocks are being filled.
Underway == {Owner(stack[i].block) : i \in 2 .. Len(stack)}

AllBlocks == DOMAIN prog.stms

\* Block 0 is there, and every other block belongs to a statement.
BlocksAreNumbered == 0 \in AllBlocks /\ \A k \in AllBlocks : Owner(k) \in Ids \union {0}

\* What the statement that holds an open block waits for.
Holds(b) ==
  /\ Owner(b) \in Ids /\ Kind(Owner(b)) \in Holder
  /\ node[Owner(b)].home = prog.parent[Owner(b)]
  /\ Owner(node[Owner(b)].home) < Owner(b)
  /\ b < 0 => Kind(Owner(b)) = "if" /\ -b \in AllBlocks
  /\ b > 0 /\ Kind(Owner(b)) \in {"if"} \union Section => -b \notin AllBlocks

\* Open blocks belong to younger and younger statements.
Pile ==
  /\ stack \in Seq(Frames)
  /\ \A i \in 1 .. Len(stack) : stack[i].block \in AllBlocks
  /\ stack # <<>> => stack[1].block = 0
  /\ \A i \in 2 .. Len(stack) : Holds(stack[i].block)
  /\ \A i, j \in 1 .. Len(stack) : i < j => Owner(stack[i].block) < Owner(stack[j].block)

\* The blocks A: atomic blocks and all blocks in them.
Enclosed(A) ==
  /\ \A k \in A : Owner(k) \in Ids /\ -k \in A /\ Kind(Owner(k)) # "call"
  /\ \A s \in Ids : node[s].atomic => s \in A /\ s \in AllBlocks
  /\ \A i \in 1 .. Len(stack) : /\ stack[i].block \in A => stack[i].atomic
                                /\ stack[i].atomic => "atomic" \in options
  /\ \A s \in Underway : prog.parent[s] \in A => s \in A
  /\ A # {} => "atomic" \in options

PruneFrames == [block : Int, i : Nat \ {0}, within : Nat, del : Seq(Ids), lift : Seq(Ids)]

\* What PruneBlock has chosen stands in front of where it is.
Chosen(f) ==
  /\ f.block \in AllBlocks
  /\ \A x \in ToSet(f.del) \union ToSet(f.lift) :
       \E j \in DOMAIN prog.stms[f.block] : j < f.i /\ prog.stms[f.block][j] = x
  /\ \A x \in ToSet(f.lift) : Kind(x) \in Compound /\ x \notin ToSet(f.del)

\* Calls of PruneBlock go further and further inside.
Calls(calls) ==
  /\ calls \in Seq(PruneFrames)
  /\ \A i \in 1 .. Len(calls) : Chosen(calls[i])
  /\ \A i, j \in 1 .. Len(calls) : i < j => Owner(calls[i].block) < Owner(calls[j].block)

Callers == ~prog.undefined => Calls(prune)

\* What is true of each phase.
Phased ==
  /\ options \in Languages
  /\ phase # "generate" => stack = <<>>
  /\ phase = "generate" => /\ prune = <<>> /\ todo = <<>> /\ prog.live = {} /\ ~prog.undefined
                           /\ prog.blocks \subseteq AllBlocks
  /\ sections \in Seq(Ids) /\ todo \in Seq(Ids)
  /\ \A s \in ToSet(sections) \union ToSet(todo) : s \in AllBlocks
  /\ "goto" \notin options => prog.edges = {} /\ (prog.undefined => phase = "tg")

Sound(A) ==
  /\ A \subseteq Int
  /\ Numbered
  /\ WholeOf(node, prog, Underway, A)
  /\ BlocksAreNumbered
  /\ Pile
  /\ Enclosed(A)
  /\ Callers
  /\ Phased

ProgramInv == \E A : Sound(A)

\* To begin with there is the body of func_1.
LEMMA SoundInit == PhaseInit => ProgramInv
<1> SUFFICES ASSUME PhaseInit PROVE Sound({})
  BY DEF ProgramInv
<1> USE DEF PhaseInit, Init, PruneInit
<1>1. /\ node = <<>> /\ prog = Empty /\ stack = <<Frame(0, FALSE, FALSE, FALSE, FALSE, 0)>>
      /\ sections = <<>> /\ todo = <<>> /\ prune = <<>> /\ phase = "generate" /\ options \in Languages
  OBVIOUS
<1>2. Len(stack) = 1 /\ stack[1].block = 0 /\ stack[1].atomic = FALSE /\ stack \in Seq(Frames)
  BY <1>1 DEF Frame, Frames
<1>3. DOMAIN node = {} /\ Numbered
  BY <1>1 DEF Numbered
<1>4. AllBlocks = {0} /\ Owner(0) = 0
  BY <1>1 DEF AllBlocks, Empty, Owner
<1>5. Underway = {}
  BY <1>2 DEF Underway
<1>6. ToSet(<<>>) = {} /\ IsInjective(<<>>)
  BY DEF ToSet, IsInjective
<1>7. WholeOf(node, prog, {}, {})
  <2>1. /\ prog.stms = [b \in {0} |-> <<>>] /\ prog.deleted = [b \in {0} |-> <<>>]
        /\ prog.parent = <<>> /\ prog.edges = {} /\ prog.blocks = {0} /\ prog.live = {}
        /\ prog.undefined = FALSE
    BY <1>1 DEF Empty
  <2>2. prog \in ProgramsOf({}, {0})
    <3>1. prog.parent \in [{} -> {0}]
      BY <2>1
    <3>2. prog.stms \in [{0} -> Seq({})] /\ prog.deleted \in [{0} -> Seq({})]
      BY <2>1
    <3>3. QED
      BY <1>1, <2>1, <3>1, <3>2 DEF ProgramsOf, Empty
  <2>3. Placed(prog, 0) = {} /\ Neat(prog, 0) /\ ToSet(prog.stms[0]) = {}
    BY <1>6, <2>1 DEF Placed, Neat
  <2>4. QED
    BY <1>3, <2>1, <2>2, <2>3 DEF WholeOf
<1>8. BlocksAreNumbered
  BY <1>4 DEF BlocksAreNumbered
<1>9. Pile
  <2>1. 1 .. Len(stack) = {1} /\ 2 .. Len(stack) = {}
    BY <1>2
  <2>2. 0 \in AllBlocks
    BY <1>4
  <2>3. ~(1 < 1)
    OBVIOUS
  <2>4. QED
    BY <1>2, <2>1, <2>2, <2>3, Zenon DEF Pile
<1>10. Enclosed({})
  <2>1. 1 .. Len(stack) = {1}
    BY <1>2
  <2>2. Ids = {}
    BY <1>3 DEF Ids
  <2>3. QED
    BY <1>2, <1>5, <2>1, <2>2, Zenon DEF Enclosed
<1>11. Callers
  <2>1. Len(prune) = 0 /\ prune \in Seq(PruneFrames)
    BY <1>1
  <2>2. QED
    BY <2>1 DEF Callers, Calls
<1>12. Phased
  <2>1. sections \in Seq(Ids) /\ todo \in Seq(Ids)
    BY <1>1
  <2>2. QED
    BY <1>1, <1>4, <1>6, <2>1 DEF Phased, Empty
<1>13. QED
  BY <1>3, <1>5, <1>7, <1>8, <1>9, <1>10, <1>11, <1>12 DEF Sound

\* The kind and the contents of open blocks.
LEMMA WholeProg ==
  ASSUME NEW A, Sound(A)
  PROVE  /\ Whole(prog, Underway, A) /\ Proper(prog) /\ Rooted(prog)
         /\ prog \in Programs(AllBlocks) /\ AllBlocks \subseteq Int
<1>1. Whole(prog, Underway, A)
  BY WholeIsWholeOf DEF Sound
<1>2. QED
  BY <1>1 DEF Whole, Proper, AllBlocks

\* A step of the generator that leaves the open blocks alone.
LEMMA QuietStep ==
  ASSUME NEW A, Sound(A), phase = "generate",
         UNCHANGED <<phase, options, sections, pruneVars>>,
         Numbered', WholeOf(node', prog', Underway, A),
         Ids \subseteq Ids', \A x \in Ids : node'[x] = node[x] /\ prog'.parent[x] = prog.parent[x],
         \A x \in Ids' \ Ids : ~node'[x].atomic,
         DOMAIN prog'.stms = DOMAIN prog.stms,
         stack' \in Seq(Frames), Len(stack') = Len(stack),
         \A i \in 1 .. Len(stack) : /\ stack'[i].block = stack[i].block
                                    /\ stack'[i].atomic = stack[i].atomic,
         prog'.live = {}, ~prog'.undefined, prog'.blocks \subseteq prog.blocks,
         "goto" \notin options => prog'.edges = {}
  PROVE  Sound(A)'
<1> USE DEF Sound
<1>1. AllBlocks' = AllBlocks
  BY DEF AllBlocks
<1>2. PICK n \in Nat : n = Len(stack) /\ Len(stack') = n
  BY DEF Pile
<1>3. \A i \in 1 .. n : stack'[i].block = stack[i].block /\ stack'[i].atomic = stack[i].atomic
  BY <1>2
<1>4. 2 .. n \subseteq 1 .. n
  BY <1>2
<1>5. Underway' = Underway
  BY <1>2, <1>3, <1>4 DEF Underway
<1>6. \A x \in Ids : Kind(x)' = Kind(x)
  BY DEF Kind
<1>7. BlocksAreNumbered'
  BY <1>1 DEF BlocksAreNumbered
<1>8. ASSUME NEW b, Holds(b)
      PROVE  Holds(b)'
  BY <1>1, <1>8, <1>6 DEF Holds
<1>9. Pile'
  <2>1. \A i \in 1 .. n : stack'[i].block \in AllBlocks
    BY <1>2, <1>3 DEF Pile
  <2>2. stack' # <<>> => stack'[1].block = 0
    <3>1. SUFFICES ASSUME stack' # <<>> PROVE stack'[1].block = 0
      OBVIOUS
    <3>2. n # 0
      BY <1>2, <3>1, EmptySeq
    <3>3. stack # <<>> /\ 1 \in 1 .. n
      BY <1>2, <3>2
    <3>4. QED
      BY <1>3, <3>3 DEF Pile
  <2>3. \A i \in 2 .. n : Holds(stack[i].block)'
    <3>1. SUFFICES ASSUME NEW i \in 2 .. n PROVE Holds(stack[i].block)'
      OBVIOUS
    <3>2. PICK b : b = stack[i].block
      OBVIOUS
    <3>3. stack'[i].block = b /\ Holds(b)
      BY <1>2, <1>3, <1>4, <3>2 DEF Pile
    <3>4. Holds(b)'
      BY <1>8, <3>3
    <3>5. QED
      BY <3>3, <3>4 DEF Holds
  <2>4. \A i, j \in 1 .. n : i < j => Owner(stack'[i].block) < Owner(stack'[j].block)
    BY <1>2, <1>3 DEF Pile
  <2>5. QED
    BY <1>1, <1>2, <2>1, <2>2, <2>3, <2>4 DEF Pile
<1>10. Enclosed(A)'
  <2>1. \A k \in A : Owner(k) \in Ids' /\ -k \in A /\ Kind(Owner(k))' # "call"
    BY <1>6 DEF Enclosed
  <2>2. \A s \in Ids' : node'[s].atomic => s \in A /\ s \in AllBlocks'
    BY <1>1 DEF Enclosed
  <2>3. \A i \in 1 .. n : /\ stack'[i].block \in A => stack'[i].atomic
                          /\ stack'[i].atomic => "atomic" \in options'
    BY <1>2, <1>3 DEF Enclosed
  <2>4. \A s \in Underway' : prog'.parent[s] \in A => s \in A
    <3>1. Underway \subseteq Ids
      BY <1>2 DEF Underway, Pile, Holds
    <3>2. QED
      BY <1>5, <3>1 DEF Enclosed
  <2>5. QED
    BY <1>2, <2>1, <2>2, <2>3, <2>4 DEF Enclosed
<1>11. prune' = <<>> /\ Callers'
  <2>1. prune' = <<>>
    BY DEF Phased, pruneVars
  <2>2. Len(prune') = 0 /\ prune' \in Seq(PruneFrames')
    BY <2>1
  <2>3. QED
    BY <2>1, <2>2 DEF Callers, Calls
<1>12. Phased'
  <2>1. sections' = sections /\ todo' = <<>> /\ options' = options /\ phase' = phase
    BY DEF Phased, pruneVars
  <2>2. sections \in Seq(Ids') /\ todo' \in Seq(Ids')
    <3>1. Seq(Ids) \subseteq Seq(Ids')
      BY LargerSeq
    <3>2. QED
      BY <2>1, <3>1 DEF Phased
  <2>3. \A s \in ToSet(sections') \union ToSet(todo') : s \in AllBlocks'
    BY <1>1, <2>1 DEF Phased
  <2>4. prog'.blocks \subseteq AllBlocks'
    BY <1>1 DEF Phased
  <2>5. QED
    BY <1>11, <2>1, <2>2, <2>3, <2>4 DEF Phased
<1>13. QED
  BY <1>5, <1>7, <1>9, <1>10, <1>11, <1>12

-----------------------------------------------------------------------------
(* Statements are drawn.                                                   *)

\* The block being filled.
LEMMA TopFacts ==
  ASSUME NEW A, Sound(A), stack # <<>>
  PROVE  /\ Len(stack) \in Nat \ {0} /\ stack \in Seq(Frames) /\ Top = stack[Len(stack)] /\ Top \in Frames
         /\ Top.block \in AllBlocks /\ Top.block \in Int /\ Owner(Top.block) < New
         /\ Top.block \in A => Top.atomic
         /\ Top.atomic => "atomic" \in options
<1>1. stack \in Seq(Frames) /\ AllBlocks \subseteq Int
  BY WholeProg DEF Sound, Pile
<1>2. PICK n \in Nat : n = Len(stack)
  BY <1>1
<1>3. n # 0
  BY <1>1, <1>2, EmptySeq
<1>4. n \in 1 .. n
  BY <1>2, <1>3
<1>5. Top = stack[n] /\ stack[n] \in Frames
  BY <1>1, <1>2, <1>4, ElementOfSeq DEF Top, Last
<1>6. stack[n].block \in AllBlocks
  BY <1>2, <1>4 DEF Sound, Pile
<1>7. Owner(stack[n].block) < New
  <2>1. Owner(stack[n].block) \in Ids \union {0}
    BY <1>6 DEF Sound, BlocksAreNumbered
  <2>2. Len(node) \in Nat /\ Ids = 1 .. Len(node)
    BY NumberFacts DEF Sound
  <2>3. QED
    BY <2>1, <2>2 DEF New
<1>8. stack[n].block \in A => stack[n].atomic
  BY <1>2, <1>4 DEF Sound, Enclosed
<1>9. stack[n].atomic => "atomic" \in options
  BY <1>2, <1>4 DEF Sound, Enclosed
<1>10. QED
  BY <1>1, <1>2, <1>3, <1>5, <1>6, <1>7, <1>8, <1>9

\* What a statement is like makes no difference to where it stands.
Like(kind, b, r) ==
  r.kind = kind /\ r.home = b /\ r.atomic = FALSE /\ DOMAIN r = DOMAIN Record(kind, b)

\* What a statement assigns and reads makes no difference to them.
LEMMA DetailFields ==
  ASSUME NEW kind, NEW b, NEW r \in Detailed(kind, b)
  PROVE  Like(kind, b, r)
<1>1. Like(kind, b, Record(kind, b))
  BY DEF Like, Record
<1>2. \A v, e, d : Like(kind, b, Detail(kind, b, v, e, d))
  BY DEF Like, Record, Detail
<1>3. CASE kind = "move"
  <2>1. \E m, k : r = Detail(kind, b, m[1], m[2], k)
    BY <1>3 DEF Detailed
  <2>2. QED
    BY <1>2, <2>1
<1>4. CASE kind # "move" /\ kind # "use" /\ ~Tracked
  <2>1. r = Record(kind, b)
    BY <1>4 DEF Detailed
  <2>2. QED
    BY <1>1, <2>1
<1>5. CASE kind # "move" /\ (kind = "use" \/ Tracked)
  <2>1. r \in {Detail(kind, b, v, e, 0) : v \in Targets(kind), e \in Expressions(kind)}
    BY <1>5 DEF Detailed
  <2>2. QED
    BY <1>2, <2>1
<1>6. QED
  BY <1>3, <1>4, <1>5

\* Marked as an atomic block, it keeps its kind and its place.
LEMMA AtomicDetail ==
  ASSUME NEW kind, NEW b, NEW r \in Detailed(kind, b), NEW a, NEW o, o = [r EXCEPT !.atomic = a]
  PROVE  o.kind = kind /\ o.home = b /\ o.atomic = a
<1>1. Like(kind, b, r)
  BY DetailFields
<1>2. QED
  BY <1>1 DEF Like, Record

\* Frames that are only marked.
SameFrames(q, t) ==
  /\ t \in Seq(Frames) /\ Len(t) = Len(q)
  /\ \A i \in 1 .. Len(q) : t[i].block = q[i].block /\ t[i].atomic = q[i].atomic

\* The block and the context of a frame stay.
LEMMA FramesStay ==
  ASSUME NEW q \in Seq(Frames), NEW i, NEW f,
         i \in 1 .. Len(q) => f \in Frames /\ f.block = q[i].block /\ f.atomic = q[i].atomic
  PROVE  SameFrames(q, [q EXCEPT ![i] = f])
<1> DEFINE t == [q EXCEPT ![i] = f]
<1>1. PICK n \in Nat : n = Len(q) /\ DOMAIN q = 1 .. n
  <2>1. Len(q) \in Nat /\ DOMAIN q = 1 .. Len(q)
    BY LenProperties
  <2>2. QED
    BY <2>1
<1>2. q \in [1 .. n -> Frames]
  BY <1>1
<1>3. t \in [1 .. n -> Frames]
  BY <1>1, <1>2
<1>4. t \in Seq(Frames)
  BY <1>3, SeqDef
<1>5. Len(t) = n
  <2> HIDE DEF t
  <2>1. Len(t) \in Nat /\ DOMAIN t = 1 .. Len(t)
    BY <1>4, LenProperties
  <2>2. PICK m \in Nat : m = Len(t)
    BY <2>1
  <2>3. DOMAIN t = 1 .. n
    BY <1>3
  <2>4. 1 .. m = 1 .. n
    BY <2>1, <2>2, <2>3, Zenon
  <2>5. m = n
    BY <2>4
  <2>6. QED
    BY <2>2, <2>5
<1>6. \A j \in 1 .. n : t[j].block = q[j].block /\ t[j].atomic = q[j].atomic
  BY <1>1, <1>2
<1>7. QED
  BY <1>1, <1>4, <1>5, <1>6 DEF SameFrames

\* Frames are only marked.
LEMMA MarkedFrames ==
  ASSUME NEW q \in Seq(Frames), NEW i
  PROVE  /\ SameFrames(q, [q EXCEPT ![i].drawn = TRUE])
         /\ SameFrames(q, [q EXCEPT ![i].revisit = TRUE])
         /\ SameFrames(q, [q EXCEPT ![i].analysed = TRUE])
<1>1. ASSUME i \in 1 .. Len(q)
      PROVE  q[i] \in Frames
  BY <1>1, ElementOfSeq
<1>2. \A f \in {[q[i] EXCEPT !.drawn = TRUE], [q[i] EXCEPT !.revisit = TRUE],
                [q[i] EXCEPT !.analysed = TRUE]} :
        i \in 1 .. Len(q) => f \in Frames /\ f.block = q[i].block /\ f.atomic = q[i].atomic
  BY <1>1 DEF Frames
<1>3. ASSUME NEW f \in {[q[i] EXCEPT !.drawn = TRUE], [q[i] EXCEPT !.revisit = TRUE],
                        [q[i] EXCEPT !.analysed = TRUE]}
      PROVE  SameFrames(q, [q EXCEPT ![i] = f])
  <2>1. i \in 1 .. Len(q) => f \in Frames /\ f.block = q[i].block /\ f.atomic = q[i].atomic
    BY <1>2
  <2>2. QED
    BY <2>1, FramesStay, Zenon
<1>4. QED
  BY <1>3

\* Frames may be marked twice.
LEMMA SameFramesAgain ==
  ASSUME NEW q, NEW r, NEW t, SameFrames(q, r), SameFrames(r, t)
  PROVE  SameFrames(q, t)
BY DEF SameFrames

\* The fields of a program that do not change.
SameBut(p, q, fields) ==
  /\ Shaped(q)
  /\ "stms" \notin fields => q.stms = p.stms
  /\ "deleted" \notin fields => q.deleted = p.deleted
  /\ "parent" \notin fields => q.parent = p.parent
  /\ "edges" \notin fields => q.edges = p.edges
  /\ q.blocks = p.blocks /\ q.live = p.live /\ q.undefined = p.undefined

\* Programs stay records.
LEMMA TextChanges ==
  ASSUME NEW p, Shaped(p), NEW x, NEW q, q = [p EXCEPT !.stms = x]
  PROVE  SameBut(p, q, {"stms"}) /\ q.stms = x
BY DEF Shaped, SameBut

\* The parents are one field of a program.
LEMMA ParentChanges ==
  ASSUME NEW p, Shaped(p), NEW x, NEW q, q = [p EXCEPT !.parent = x]
  PROVE  SameBut(p, q, {"parent"}) /\ q.parent = x
BY DEF Shaped, SameBut

\* So are its goto edges.
LEMMA EdgesChange ==
  ASSUME NEW p, Shaped(p), NEW x, NEW q, q = [p EXCEPT !.edges = x]
  PROVE  SameBut(p, q, {"edges"}) /\ q.edges = x
BY DEF Shaped, SameBut

\* A new statement with parent b is in the text of block h.
HasText(p, q, b, h, text) ==
  /\ SameBut(p, q, {"stms", "parent"})
  /\ q.stms = [p.stms EXCEPT ![h] = text] /\ q.parent = Append(p.parent, b)

\* A leaf joins a block.
LEMMA JoinFields ==
  ASSUME NEW p, Shaped(p), NEW b, NEW h, NEW s
  PROVE  HasText(p, Join(Known(p, b), h, s), b, h, Append(p.stms[h], s))
<1>1. PICK q : q = Known(p, b)
  OBVIOUS
<1>2. SameBut(p, q, {"parent"}) /\ q.parent = Append(p.parent, b)
  BY <1>1, ParentChanges DEF Known
<1>3. PICK stms : stms = [p.stms EXCEPT ![h] = Append(p.stms[h], s)]
  OBVIOUS
<1>4. Shaped(q) /\ q.stms = p.stms
  BY <1>2 DEF SameBut
<1>5. Join(q, h, s) = [q EXCEPT !.stms = stms]
  BY <1>3, <1>4 DEF Join
<1>6. PICK r : r = [q EXCEPT !.stms = stms]
  OBVIOUS
<1>7. SameBut(q, r, {"stms"}) /\ r.stms = stms
  BY <1>4, <1>6, TextChanges
<1>8. SameBut(p, r, {"stms", "parent"}) /\ r.parent = Append(p.parent, b)
  BY <1>2, <1>7 DEF SameBut
<1>9. QED
  BY <1>1, <1>3, <1>4, <1>5, <1>6, <1>7, <1>8 DEF HasText

\* Each program of the invariant is such a record.
LEMMA ProgramsShaped ==
  ASSUME NEW D, NEW p \in Programs(D)
  PROVE  Shaped(p)
BY DEF Programs, Shaped

\* Those that have a parent keep it.
LEMMA OldParents ==
  ASSUME NEW D, NEW f, NEW n, FirstOnes(f, n, D), NEW b \in D
  PROVE  \A x \in 1 .. n : Append(f, b)[x] = f[x]
<1>1. n \in Nat /\ f \in [1 .. n -> D]
  BY DEF FirstOnes
<1>2. /\ FirstOnes(Append(f, b), n + 1, D)
      /\ \A x \in 1 .. n : Append(f, b)[x] = f[x]
      /\ Append(f, b)[n + 1] = b
  BY <1>1, LongerFunction
<1>3. QED
  BY <1>2

\* A statement without blocks is put into a block.
LEMMA LeafStep ==
  ASSUME NEW A, Sound(A), phase = "generate", UNCHANGED <<phase, options, sections, pruneVars>>,
         NEW r, Create(r), r.atomic = FALSE, r.kind \notin Compound \union Section,
         NEW b \in AllBlocks, b \in A => r.kind \notin Barred,
         NEW text, IsInjective(text), text \in Seq(1 .. New), ToSet(text) = ToSet(prog.stms[b]) \union {New},
         SameBut(prog, prog', {"stms", "parent", "edges"}),
         prog'.stms = [prog.stms EXCEPT ![b] = text],
         prog'.parent = Append(prog.parent, b),
         prog'.edges = prog.edges \/ (/\ prog'.edges = prog.edges \union {New}
                                      /\ r.kind = "goto" /\ "goto" \in options),
         SameFrames(stack, stack')
  PROVE  Sound(A)'
<1>1. /\ Numbered /\ WholeOf(node, prog, Underway, A)
      /\ prog \in Programs(AllBlocks) /\ AllBlocks \subseteq Int /\ Proper(prog)
  BY WholeProg DEF Sound
<1>2. Len(node) \in Nat /\ Ids = 1 .. Len(node)
  BY <1>1, NumberFacts
<1>3. /\ Numbered' /\ Ids' = 1 .. New /\ node'[New] = r
      /\ \A x \in Ids : node'[x] = node[x]
  <2>1. node' = Append(node, r)
    BY DEF Create
  <2>2. QED
    BY <1>1, <1>2, <2>1, LongerFacts DEF Numbered, Ids, New
<1>4. Underway \subseteq Ids
  <2>1. stack \in Seq(Frames) /\ Len(stack) \in Nat
    BY DEF Sound, Pile
  <2>2. QED
    BY <2>1 DEF Sound, Underway, Pile, Holds
<1>5. Owner(b) < New
  <2>1. Owner(b) \in Ids \union {0}
    BY DEF Sound, BlocksAreNumbered
  <2>2. QED
    BY <1>2, <2>1 DEF New
<1>6. prog.edges \subseteq Ids
  BY <1>1 DEF Programs
<1>7. New \notin prog.edges
  BY <1>2, <1>6 DEF New
<1>8. PICK q : q = prog'
  OBVIOUS
<1>9. /\ Shaped(q) /\ q.stms = [prog.stms EXCEPT ![b] = text] /\ q.deleted = prog.deleted
      /\ q.parent = Append(prog.parent, b) /\ q.edges \subseteq prog.edges \union {New}
      /\ New \in q.edges => r.kind = "goto"
      /\ q.live = prog.live /\ q.undefined = prog.undefined
  BY <1>7, <1>8 DEF SameBut
<1>10. WholeOf(Append(node, r), q, Underway, A)
  <2>1. PICK nodes, p, U : nodes = node /\ p = prog /\ U = Underway
    OBVIOUS
  <2>2. nodes \in Seq(ToSet(nodes)) /\ WholeOf(nodes, p, U, A) /\ U \subseteq DOMAIN nodes
    BY <1>1, <1>4, <2>1 DEF Numbered, Ids
  <2>3. AddsLeaf(nodes, r, p, b, text, q)
    BY <1>5, <1>9, <2>1 DEF AddsLeaf, New, AllBlocks
  <2>4. WholeOf(Append(nodes, r), q, U, A)
    BY <2>2, <2>3, LeafAdded
  <2>5. QED
    BY <2>1, <2>4
<1>11. WholeOf(node', prog', Underway, A)
  BY <1>8, <1>10 DEF Create
<1>12. /\ Ids \subseteq Ids'
       /\ \A x \in Ids : node'[x] = node[x] /\ prog'.parent[x] = prog.parent[x]
       /\ \A x \in Ids' \ Ids : ~node'[x].atomic
  <2>1. \A x \in Ids : prog'.parent[x] = prog.parent[x]
    <3>1. PICK f, n, D : f = prog.parent /\ n = Len(node) /\ D = AllBlocks
      OBVIOUS
    <3>2. n \in Nat /\ f \in [1 .. n -> D] /\ b \in D
      BY <1>1, <1>2, <3>1 DEF Programs
    <3>3. FirstOnes(f, n, D)
      BY <3>2 DEF FirstOnes
    <3>4. \A x \in 1 .. n : Append(f, b)[x] = f[x]
      BY <3>2, <3>3, OldParents
    <3>5. QED
      BY <1>2, <3>1, <3>4
  <2>2. New \in 1 .. New /\ 1 .. New = Ids \union {New}
    BY <1>2 DEF New
  <2>3. Ids \subseteq Ids'
    BY <1>3, <2>2
  <2>4. \A x \in Ids' \ Ids : x = New
    BY <1>3, <2>2
  <2>5. ~node'[New].atomic
    BY <1>3
  <2>6. QED
    BY <1>3, <2>1, <2>3, <2>4, <2>5
<1>13. DOMAIN prog'.stms = DOMAIN prog.stms
  OBVIOUS
<1>14. prog'.live = {} /\ ~prog'.undefined /\ prog'.blocks = prog.blocks /\ ("goto" \notin options => prog'.edges = {})
  BY DEF Sound, Phased, SameBut
<1>15. QED
  BY <1>3, <1>11, <1>12, <1>13, <1>14, QuietStep DEF SameFrames

\* A new statement in the text of a block.
LEMMA NewInText ==
  ASSUME NEW A, Sound(A), NEW b \in AllBlocks
  PROVE  LET text == prog.stms[b]
         IN /\ Len(node) \in Nat /\ Ids = 1 .. Len(node) /\ New \in 1 .. New
            /\ text \in Seq(1 .. New) /\ IsInjective(text) /\ New \notin ToSet(text)
            /\ ToSet(text) \subseteq Ids
            /\ \A x \in ToSet(text) : prog.parent[x] = b
<1>1. /\ prog \in Programs(AllBlocks) /\ Proper(prog) /\ Rooted(prog) /\ Numbered
  BY WholeProg DEF Sound
<1>2. Len(node) \in Nat /\ Ids = 1 .. Len(node)
  BY <1>1, NumberFacts
<1>3. prog.stms[b] \in Seq(Ids)
  BY <1>1 DEF Programs
<1>4. ToSet(prog.stms[b]) \subseteq Ids
  BY <1>3 DEF ToSet
<1>5. Ids \subseteq 1 .. New /\ New \in 1 .. New /\ New \notin Ids
  BY <1>2 DEF New
<1>6. prog.stms[b] \in Seq(1 .. New)
  BY <1>3, <1>5, LargerSeq
<1>7. IsInjective(prog.stms[b])
  BY <1>1 DEF Proper, Neat, AllBlocks
<1>8. \A x \in ToSet(prog.stms[b]) : prog.parent[x] = b
  BY <1>1 DEF Rooted, Placed, AllBlocks
<1>9. QED
  BY <1>2, <1>4, <1>5, <1>6, <1>7, <1>8

\* Behind the text of a block, a new statement makes the text one longer.
LEMMA AppendedText ==
  ASSUME NEW A, Sound(A), NEW b \in AllBlocks
  PROVE  LET text == Append(prog.stms[b], New)
         IN /\ IsInjective(text) /\ text \in Seq(1 .. New)
            /\ ToSet(text) = ToSet(prog.stms[b]) \union {New}
BY NewInText, AppendFacts

\* Programs with gotos have no atomic blocks.
LEMMA GotosOutside ==
  ASSUME NEW A, Sound(A), "goto" \in options
  PROVE  A = {}
<1>1. options \in Languages
  BY DEF Sound, Phased
<1>2. "atomic" \notin options
  BY <1>1, AtomicWithoutGotos
<1>3. QED
  BY <1>2 DEF Sound, Enclosed

\* A statement without blocks joins the block being filled.
LEMMA LeafSound ==
  ASSUME NEW A, Sound(A), NEW kind, Leaf(kind), UNCHANGED pruneVars
  PROVE  Sound(A)'
<1> USE DEF Leaf
<1>1. phase = "generate" /\ stack # <<>> /\ Allowed(kind, Top)
  BY DEF Drawing
<1>2. PICK r \in Detailed(kind, Top.block) : Create(r)
  OBVIOUS
<1>3. r.kind = kind /\ r.atomic = FALSE
  <2>1. Like(kind, Top.block, r)
    BY <1>2, DetailFields
  <2>2. QED
    BY <2>1 DEF Like
<1>4. PICK b : b = Top.block
  OBVIOUS
<1>5. /\ Len(stack) \in Nat \ {0} /\ stack \in Seq(Frames) /\ b \in AllBlocks
      /\ b \in A => Top.atomic
  BY <1>1, <1>4, TopFacts
<1>6. kind \notin Compound \union Section
  BY DEF Simple, Compound, Section
<1>7. b \in A => r.kind \notin Barred
  BY <1>1, <1>3, <1>5 DEF Allowed, RefusedCUDA, Simple, Barred, Jump
<1>8. PICK text : text = Append(prog.stms[b], New)
  OBVIOUS
<1>9. IsInjective(text) /\ text \in Seq(1 .. New) /\ ToSet(text) = ToSet(prog.stms[b]) \union {New}
  BY <1>5, <1>8, AppendedText
<1>10. Shaped(prog)
  BY WholeProg, ProgramsShaped
<1>11. /\ SameBut(prog, prog', {"stms", "parent"})
       /\ prog'.stms = [prog.stms EXCEPT ![b] = text] /\ prog'.parent = Append(prog.parent, b)
  <2>1. HasText(prog, prog', b, b, text)
    BY <1>4, <1>8, <1>10, JoinFields, Zenon
  <2>2. QED
    BY <2>1 DEF HasText
<1>12. SameBut(prog, prog', {"stms", "parent", "edges"}) /\ prog'.edges = prog.edges
  BY <1>11 DEF SameBut
<1>13. SameFrames(stack, stack')
  BY <1>5, MarkedFrames, Zenon DEF Drawn
<1>14. QED
  BY <1>1, <1>2, <1>3, <1>5, <1>6, <1>7, <1>9, <1>11, <1>12, <1>13, LeafStep

\* A goto joins its block.
LEMMA BackwardGotoSound ==
  ASSUME NEW A, Sound(A), NEW other, NEW k, BackwardGoto(k, other), UNCHANGED pruneVars
  PROVE  Sound(A)'
<1> USE DEF BackwardGoto
<1>1. phase = "generate" /\ stack # <<>> /\ "goto" \in options
  BY DEF Drawing
<1>2. PICK r : r = [Record("goto", Top.block) EXCEPT !.dest = other] /\ Create(r)
  OBVIOUS
<1>3. r.kind = "goto" /\ r.atomic = FALSE
  BY <1>2 DEF Record
<1>4. PICK b : b = Top.block
  OBVIOUS
<1>5. Len(stack) \in Nat \ {0} /\ stack \in Seq(Frames) /\ b \in AllBlocks
  BY <1>1, <1>4, TopFacts
<1>6. r.kind \notin Compound \union Section
  BY <1>3 DEF Compound, Section
<1>7. A = {}
  BY <1>1, GotosOutside
<1>8. PICK text : text = Append(prog.stms[b], New)
  OBVIOUS
<1>9. IsInjective(text) /\ text \in Seq(1 .. New) /\ ToSet(text) = ToSet(prog.stms[b]) \union {New}
  BY <1>5, <1>8, AppendedText
<1>10. Shaped(prog)
  BY WholeProg, ProgramsShaped
<1>11. PICK p : p = Join(Known(prog, b), b, New)
  OBVIOUS
<1>12. /\ SameBut(prog, p, {"stms", "parent"})
       /\ p.stms = [prog.stms EXCEPT ![b] = text] /\ p.parent = Append(prog.parent, b)
  <2>1. HasText(prog, p, b, b, text)
    BY <1>8, <1>10, <1>11, JoinFields, Zenon
  <2>2. QED
    BY <2>1 DEF HasText
<1>13. Shaped(p) /\ p.edges = prog.edges
  BY <1>12 DEF SameBut
<1>14. PICK edges : edges = prog.edges \union {New}
  OBVIOUS
<1>15. prog' = [p EXCEPT !.edges = edges]
  <2>1. p.edges \union {New} = edges
    BY <1>13, <1>14
  <2>2. prog' = [p EXCEPT !.edges = @ \union {New}]
    BY <1>4, <1>11
  <2>3. QED
    BY <1>13, <2>1, <2>2 DEF Shaped
<1>16. SameBut(p, prog', {"edges"}) /\ prog'.edges = edges
  BY <1>13, <1>15, EdgesChange
<1>17. /\ SameBut(prog, prog', {"stms", "parent", "edges"}) /\ prog'.edges = prog.edges \union {New}
       /\ prog'.stms = [prog.stms EXCEPT ![b] = text] /\ prog'.parent = Append(prog.parent, b)
  BY <1>12, <1>14, <1>16 DEF SameBut
<1>18. SameFrames(stack, stack')
  <2>1. PICK i : stack' = [Drawn EXCEPT ![i].revisit = TRUE]
    BY DEF Revisited
  <2>2. SameFrames(stack, Drawn)
    BY <1>5, MarkedFrames, Zenon DEF Drawn
  <2>3. Drawn \in Seq(Frames)
    BY <2>2 DEF SameFrames
  <2>4. SameFrames(Drawn, stack')
    BY <2>1, <2>3, MarkedFrames, Zenon
  <2>5. QED
    BY <2>2, <2>4, SameFramesAgain
<1>19. QED
  BY <1>1, <1>2, <1>3, <1>5, <1>6, <1>7, <1>9, <1>17, <1>18, LeafStep

\* A goto goes behind an older statement.
LEMMA ForwardGotoSound ==
  ASSUME NEW A, Sound(A), NEW other, NEW k, ForwardGoto(k, other), UNCHANGED pruneVars
  PROVE  Sound(A)'
<1> USE DEF ForwardGoto
<1>1. phase = "generate" /\ stack # <<>> /\ "goto" \in options
  BY DEF Drawing
<1>2. k \in AllBlocks /\ other \in ToSet(prog.stms[k])
  BY <1>1 DEF JumpBlocks, Others, Sound, Phased
<1>3. PICK b : b = prog.parent[other]
  OBVIOUS
<1>4. b = k /\ b \in AllBlocks /\ other \in ToSet(prog.stms[b])
  BY <1>2, <1>3, NewInText
<1>5. PICK r : r.kind = "goto" /\ r.atomic = FALSE /\ Create(r)
  <2>1. PICK r : r = [Record("goto", b) EXCEPT !.dest = Last(prog.stms[Top.block])] /\ Create(r)
    BY <1>3
  <2>2. r.kind = "goto" /\ r.atomic = FALSE
    BY <2>1 DEF Record
  <2>3. QED
    BY <2>1, <2>2
<1>6. r.kind \notin Compound \union Section
  BY <1>5 DEF Compound, Section
<1>7. A = {}
  BY <1>1, GotosOutside
<1>8. PICK at : at = CHOOSE i \in DOMAIN prog.stms[b] : prog.stms[b][i] = other
  OBVIOUS
<1>9. /\ Len(node) \in Nat /\ Ids = 1 .. Len(node) /\ New \in 1 .. New
      /\ prog.stms[b] \in Seq(1 .. New) /\ IsInjective(prog.stms[b]) /\ New \notin ToSet(prog.stms[b])
  BY <1>4, NewInText
<1>10. at \in 1 .. Len(prog.stms[b]) /\ Len(prog.stms[b]) \in Nat
  <2>1. PICK i \in DOMAIN prog.stms[b] : prog.stms[b][i] = other
    BY <1>4 DEF ToSet
  <2>2. at \in DOMAIN prog.stms[b]
    BY <1>8, <2>1
  <2>3. QED
    BY <1>9, <2>2, LenProperties
<1>11. PICK text : text = InsertAt(prog.stms[b], at + 1, New)
  OBVIOUS
<1>12. IsInjective(text) /\ text \in Seq(1 .. New) /\ ToSet(text) = ToSet(prog.stms[b]) \union {New}
  <2>1. PICK q, one, pos, S : q = prog.stms[b] /\ one = <<New>> /\ pos = at + 1 /\ S = 1 .. New
    OBVIOUS
  <2>2. text = SubSeq(q, 1, pos - 1) \o one \o SubSeq(q, pos, Len(q))
    BY <1>11, <2>1 DEF InsertAt
  <2>3. one \in Seq(S) /\ ToSet(one) = {New} /\ IsInjective(one)
    BY <1>9, <2>1 DEF ToSet, IsInjective
  <2>4. pos \in 1 .. Len(q) + 1
    BY <1>10, <2>1
  <2>5. q \in Seq(S) /\ IsInjective(q) /\ ToSet(q) \intersect ToSet(one) = {}
    BY <1>9, <2>1, <2>3
  <2> DEFINE joined == SubSeq(q, 1, pos - 1) \o one \o SubSeq(q, pos, Len(q))
  <2>6. /\ joined \in Seq(S) /\ ToSet(joined) = ToSet(q) \union ToSet(one) /\ IsInjective(joined)
    BY <2>3, <2>4, <2>5, SpliceFacts
  <2>7. QED
    BY <2>1, <2>2, <2>3, <2>6
<1>13. Shaped(prog)
  BY WholeProg, ProgramsShaped
<1>14. PICK stms : stms = [prog.stms EXCEPT ![b] = text]
  OBVIOUS
<1>15. PICK edges : edges = prog.edges \union {New}
  OBVIOUS
<1>16. PICK p1 : p1 = Known(prog, b)
  OBVIOUS
<1>17. SameBut(prog, p1, {"parent"}) /\ p1.parent = Append(prog.parent, b)
  BY <1>13, <1>16, ParentChanges DEF Known
<1>18. Shaped(p1) /\ p1.stms = prog.stms /\ p1.edges = prog.edges
  BY <1>17 DEF SameBut
<1>19. PICK p2 : p2 = [p1 EXCEPT !.stms = stms]
  OBVIOUS
<1>20. SameBut(p1, p2, {"stms"}) /\ p2.stms = stms
  BY <1>18, <1>19, TextChanges
<1>21. Shaped(p2) /\ p2.edges = prog.edges
  BY <1>18, <1>20 DEF SameBut
<1>22. prog' = [p2 EXCEPT !.edges = edges]
  <2>1. prog' = [Known(prog, b) EXCEPT !.stms[b] = InsertAt(@, at + 1, New), !.edges = @ \union {New}]
    BY <1>3, <1>8
  <2>2. prog' = [p1 EXCEPT !.stms[b] = InsertAt(@, at + 1, New), !.edges = @ \union {New}]
    BY <1>16, <2>1
  <2>3. InsertAt(p1.stms[b], at + 1, New) = text /\ p1.edges \union {New} = edges
    BY <1>11, <1>15, <1>18
  <2>4. [p1.stms EXCEPT ![b] = text] = stms
    BY <1>14, <1>18
  <2> HIDE DEF ForwardGoto
  <2>5. prog' = [p1 EXCEPT !.stms = stms, !.edges = edges]
    BY <1>18, <2>2, <2>3, <2>4 DEF Shaped
  <2>6. QED
    BY <1>18, <1>19, <2>5 DEF Shaped
<1>23. SameBut(p2, prog', {"edges"}) /\ prog'.edges = edges
  <2>1. PICK p3 : p3 = [p2 EXCEPT !.edges = edges]
    OBVIOUS
  <2>2. SameBut(p2, p3, {"edges"}) /\ p3.edges = edges
    BY <1>21, <2>1, EdgesChange
  <2>3. QED
    BY <1>22, <2>1, <2>2
<1>24. /\ SameBut(prog, prog', {"stms", "parent", "edges"}) /\ prog'.edges = prog.edges \union {New}
       /\ prog'.stms = [prog.stms EXCEPT ![b] = text] /\ prog'.parent = Append(prog.parent, b)
  BY <1>14, <1>15, <1>17, <1>20, <1>23 DEF SameBut
<1>25. SameFrames(stack, stack')
  BY DEF SameFrames, Sound, Pile
<1>26. QED
  BY <1>1, <1>4, <1>5, <1>6, <1>7, <1>12, <1>24, <1>25, LeafStep

\* An analysis that fails deletes statements.
LEMMA FailAnalysisSound ==
  ASSUME NEW A, Sound(A), NEW i, FailAnalysis(i), UNCHANGED pruneVars
  PROVE  Sound(A)'
<1> USE DEF FailAnalysis
<1>1. phase = "generate" /\ stack # <<>>
  OBVIOUS
<1>2. /\ stack \in Seq(Frames) /\ Top.block \in AllBlocks
  BY <1>1, TopFacts
<1>3. PICK b : b = Top.block
  OBVIOUS
<1>4. /\ Whole(prog, Underway, A) /\ Proper(prog) /\ prog \in Programs(AllBlocks) /\ Numbered
      /\ prog.live = {} /\ ~prog.undefined
      /\ "goto" \notin options => prog.edges = {}
  BY <1>1, WholeProg DEF Sound, Phased
<1>5. i \in Nat \ {0} /\ b \in DOMAIN prog.stms
  <2>1. prog.stms[b] \in Seq(Ids)
    BY <1>2, <1>3, <1>4 DEF Programs
  <2>2. i \in 1 .. Len(prog.stms[b]) /\ Len(prog.stms[b]) \in Nat
    BY <1>3, <2>1
  <2>3. QED
    BY <1>2, <1>3, <2>2 DEF AllBlocks
<1>6. PICK q : q = Truncate(prog, b, i)
  OBVIOUS
<1>7. /\ q \in Reduced(prog, Ids, {}) /\ q.live = prog.live /\ ~q.undefined
  BY <1>4, <1>5, <1>6, TruncateReduces
<1>8. Whole(q, Underway, A)
  BY <1>4, <1>7, WholeReduced
<1>9. WholeOf(node, q, Underway, A)
  BY <1>8, WholeIsWholeOf
<1>10. /\ q \in Programs(AllBlocks) /\ q.edges \subseteq prog.edges /\ q.blocks \subseteq prog.blocks
       /\ q.parent = prog.parent
  BY <1>7 DEF Reduced, AllBlocks
<1>11. DOMAIN q.stms = DOMAIN prog.stms
  BY <1>10 DEF Programs, AllBlocks
<1>12. prog' = q /\ node' = node
  BY <1>3, <1>6
<1>13. SameFrames(stack, stack')
  <2>1. PICK mid : mid = [stack EXCEPT ![Len(stack)].analysed = TRUE]
    OBVIOUS
  <2>2. SameFrames(stack, mid)
    BY <1>2, <2>1, MarkedFrames, Zenon
  <2>3. mid \in Seq(Frames)
    BY <2>2 DEF SameFrames
  <2>4. PICK t : t = [mid EXCEPT ![Len(stack)].revisit = TRUE]
    OBVIOUS
  <2>5. SameFrames(mid, t) /\ stack' = t
    BY <2>1, <2>3, <2>4, MarkedFrames, Zenon
  <2>6. QED
    BY <2>2, <2>5, SameFramesAgain
<1>14. Numbered' /\ Ids' = Ids
  BY <1>4, <1>12 DEF Numbered, Ids
<1>15. WholeOf(node', prog', Underway, A)
  BY <1>9, <1>12
<1>16. QED
  BY <1>1, <1>4, <1>7, <1>10, <1>11, <1>12, <1>13, <1>14, <1>15, QuietStep DEF SameFrames

-----------------------------------------------------------------------------
(* Statements that hold blocks.                                            *)

\* While a program is generated, nothing is pruned.
LEMMA StillGenerated ==
  ASSUME NEW A, Sound(A), phase = "generate", UNCHANGED <<phase, options, pruneVars>>,
         sections' \in Seq(Ids'), \A s \in ToSet(sections') : s \in AllBlocks',
         prog'.live = {}, ~prog'.undefined, prog'.blocks \subseteq AllBlocks',
         "goto" \notin options => prog'.edges = {}
  PROVE  Callers' /\ Phased'
<1> USE DEF Sound
<1>1. prune' = <<>> /\ todo' = <<>> /\ phase' = phase /\ options' = options
  BY DEF Phased, pruneVars
<1>2. Len(prune') = 0 /\ prune' \in Seq(PruneFrames') /\ todo' \in Seq(Ids') /\ ToSet(todo') = {}
  BY <1>1 DEF ToSet
<1>3. Callers'
  BY <1>1, <1>2 DEF Callers, Calls
<1>4. Phased'
  BY <1>1, <1>2 DEF Phased
<1>5. QED
  BY <1>3, <1>4

\* A program with one block more.
HasBlock(p, q, m) ==
  /\ Shaped(q) /\ q.stms = With(p.stms, m) /\ q.deleted = With(p.deleted, m)
  /\ q.parent = p.parent /\ q.edges = p.edges
  /\ q.blocks = p.blocks \union {m} /\ q.live = p.live /\ q.undefined = p.undefined

\* Opening a block adds an empty text and an empty list of deleted statements.
LEMMA OpenedFields ==
  ASSUME NEW p, Shaped(p), NEW m \in Int
  PROVE  HasBlock(p, Opened(p, m), m)
<1>1. PICK stms, deleted, blocks : stms = With(p.stms, m) /\ deleted = With(p.deleted, m) /\ blocks = p.blocks \union {m}
  OBVIOUS
<1>2. PICK q : q = [p EXCEPT !.stms = stms, !.deleted = deleted, !.blocks = blocks]
  OBVIOUS
<1>3. Opened(p, m) = q
  BY <1>1, <1>2 DEF Opened, Shaped
<1>4. /\ q.stms = stms /\ q.deleted = deleted /\ q.blocks = blocks
      /\ q.parent = p.parent /\ q.edges = p.edges /\ q.live = p.live /\ q.undefined = p.undefined
      /\ q = [stms |-> q.stms, deleted |-> q.deleted, parent |-> q.parent, edges |-> q.edges,
              blocks |-> q.blocks, live |-> q.live, undefined |-> q.undefined]
  BY <1>2 DEF Shaped
<1>5. blocks \in SUBSET Int /\ q.live \in SUBSET Int /\ q.undefined \in BOOLEAN
  BY <1>1, <1>4 DEF Shaped
<1>6. Shaped(q)
  BY <1>4, <1>5 DEF Shaped
<1>7. QED
  BY <1>1, <1>3, <1>4, <1>6 DEF HasBlock

\* A frame on top of the others.
Pushed(q, f, t) ==
  /\ t \in Seq(Frames) /\ Len(t) = Len(q) + 1 /\ Len(q) \in Nat
  /\ t[Len(q) + 1].block = f.block /\ t[Len(q) + 1].atomic = f.atomic
  /\ \A i \in 1 .. Len(q) : t[i].block = q[i].block /\ t[i].atomic = q[i].atomic

\* The stack may be marked before a frame is pushed.
LEMMA PushedFrame ==
  ASSUME NEW q \in Seq(Frames), NEW r, SameFrames(q, r), NEW f \in Frames
  PROVE  Pushed(q, f, Append(r, f))
<1>1. /\ r \in Seq(Frames) /\ Len(r) = Len(q)
      /\ \A i \in 1 .. Len(q) : r[i].block = q[i].block /\ r[i].atomic = q[i].atomic
  BY DEF SameFrames
<1>2. PICK n \in Nat : n = Len(q) /\ Len(r) = n
  BY <1>1
<1>3. PICK t : t = Append(r, f)
  OBVIOUS
<1>4. /\ t \in Seq(Frames) /\ Len(t) = n + 1 /\ t[n + 1] = f
      /\ \A i \in 1 .. n : t[i] = r[i]
  BY <1>1, <1>2, <1>3, AppendProperties
<1>5. QED
  BY <1>1, <1>2, <1>3, <1>4 DEF Pushed

\* The context of what a statement holds.
LEMMA InnerFacts ==
  ASSUME NEW A, Sound(A), NEW kind, NEW atomic \in BOOLEAN, Open(kind, atomic)
  PROVE  LET f == Inner(kind, atomic, Top)
         IN /\ f \in Frames /\ f.block = New
            /\ f.atomic => kind # "call" /\ "atomic" \in options
            /\ Top.atomic \/ atomic => f.atomic
<1> USE DEF Open
<1>1. stack # <<>> /\ Allowed(kind, Top)
  BY DEF Drawing
<1>2. Top \in Frames /\ (Top.atomic => "atomic" \in options)
  BY <1>1, TopFacts
<1>3. PICK g : g = Top
  OBVIOUS
<1>4. /\ g \in Frames /\ New \in Int
      /\ g.depth \in Int /\ g.loop \in BOOLEAN /\ g.emi \in BOOLEAN /\ g.tg \in BOOLEAN /\ g.atomic \in BOOLEAN
  <2>1. Len(node) \in Nat
    BY NumberFacts DEF Sound
  <2>2. QED
    BY <1>2, <1>3, <2>1 DEF Frames, New
<1>5. /\ atomic => kind = "if" /\ "atomic" \in options
      /\ g.atomic => kind # "call" /\ "atomic" \in options
      /\ kind \in {"if", "for", "emi", "tg", "call"}
  BY <1>1, <1>2, <1>3 DEF Allowed, RefusedCUDA, Holder, Compound, Section
<1>6. PICK f : f = Inner(kind, atomic, g)
  OBVIOUS
<1> HIDE DEF Open
<1>7. SUFFICES f \in Frames /\ f.block = New /\ \E x \in BOOLEAN :
                 /\ f.atomic = x /\ (x => kind # "call" /\ "atomic" \in options)
                 /\ (g.atomic \/ atomic => x)
  BY <1>3, <1>6
<1>8. CASE kind = "if"
  <2>1. PICK x \in BOOLEAN : x = (g.atomic \/ atomic)
    BY <1>4
  <2>2. f = Frame(New, x, g.loop, g.emi, g.tg, g.depth + 1)
    BY <1>6, <1>8, <2>1 DEF Inner
  <2>3. f \in Frames /\ f.block = New /\ f.atomic = x
    BY <1>4, <2>2 DEF Frame, Frames
  <2>4. (x => kind # "call" /\ "atomic" \in options) /\ (g.atomic \/ atomic => x)
    BY <1>5, <1>8, <2>1
  <2>5. QED
    BY <2>3, <2>4
<1>9. CASE kind = "for"
  <2>1. PICK x \in BOOLEAN : x = g.atomic
    BY <1>4
  <2>2. f = Frame(New, x, TRUE, g.emi, g.tg, g.depth + 1)
    BY <1>6, <1>9, <2>1 DEF Inner
  <2>3. f \in Frames /\ f.block = New /\ f.atomic = x
    BY <1>4, <2>2 DEF Frame, Frames
  <2>4. (x => kind # "call" /\ "atomic" \in options) /\ (g.atomic \/ atomic => x)
    BY <1>5, <1>9, <2>1
  <2>5. QED
    BY <2>3, <2>4
<1>10. CASE kind = "emi"
  <2>1. PICK x \in BOOLEAN : x = g.atomic
    BY <1>4
  <2>2. f = Frame(New, x, g.loop, TRUE, g.tg, g.depth)
    BY <1>6, <1>10, <2>1 DEF Inner
  <2>3. f \in Frames /\ f.block = New /\ f.atomic = x
    BY <1>4, <2>2 DEF Frame, Frames
  <2>4. (x => kind # "call" /\ "atomic" \in options) /\ (g.atomic \/ atomic => x)
    BY <1>5, <1>10, <2>1
  <2>5. QED
    BY <2>3, <2>4
<1>11. CASE kind = "tg"
  <2>1. PICK x \in BOOLEAN : x = g.atomic
    BY <1>4
  <2>2. f = Frame(New, x, g.loop, g.emi, TRUE, g.depth)
    BY <1>6, <1>11, <2>1 DEF Inner
  <2>3. f \in Frames /\ f.block = New /\ f.atomic = x
    BY <1>4, <2>2 DEF Frame, Frames
  <2>4. (x => kind # "call" /\ "atomic" \in options) /\ (g.atomic \/ atomic => x)
    BY <1>5, <1>11, <2>1
  <2>5. QED
    BY <2>3, <2>4
<1>12. CASE kind = "call"
  <2>1. PICK x \in BOOLEAN : x = FALSE
    BY <1>4
  <2>2. f = Frame(New, x, FALSE, FALSE, FALSE, 0)
    BY <1>6, <1>12, <2>1 DEF Inner
  <2>3. f \in Frames /\ f.block = New /\ f.atomic = x
    BY <1>4, <2>2 DEF Frame, Frames
  <2>4. (x => kind # "call" /\ "atomic" \in options) /\ (g.atomic \/ atomic => x)
    BY <1>5, <1>12, <2>1
  <2>5. QED
    BY <2>3, <2>4
<1>13. QED
  BY <1>5, <1>8, <1>9, <1>10, <1>11, <1>12

\* A statement opens its first block.
LEMMA OpenSound ==
  ASSUME NEW A, Sound(A), NEW kind, NEW atomic \in BOOLEAN, Open(kind, atomic), UNCHANGED pruneVars
  PROVE  \E A2 : Sound(A2)'
<1>1. /\ phase = "generate" /\ stack # <<>> /\ Allowed(kind, Top) /\ kind \in Holder
      /\ UNCHANGED <<options, phase, sections>>
  BY DEF Open, Drawing
<1>2. PICK b, f, s : b = Top.block /\ f = Inner(kind, atomic, Top) /\ s = New
  OBVIOUS
<1>3. PICK r : /\ Create(r) /\ r.kind = kind /\ r.home = b /\ r.atomic = atomic
  <2>1. PICK r0 \in Detailed(kind, b) : Create([r0 EXCEPT !.atomic = atomic])
    BY <1>2 DEF Open
  <2>2. PICK r : r = [r0 EXCEPT !.atomic = atomic]
    OBVIOUS
  <2>3. r.kind = kind /\ r.home = b /\ r.atomic = atomic
    <3>1. Like(kind, b, r0)
      BY DetailFields, Zenon
    <3>2. r0.kind = kind /\ r0.home = b /\ {"kind", "home", "atomic"} \subseteq DOMAIN r0
      BY <3>1 DEF Like, Record
    <3>3. QED
      BY <2>2, <3>2
  <2>4. QED
    BY <2>1, <2>2, <2>3
<1>4. /\ stack \in Seq(Frames) /\ Len(stack) \in Nat \ {0} /\ Top = stack[Len(stack)]
      /\ b \in AllBlocks /\ Owner(b) < s /\ (b \in A => Top.atomic)
  BY <1>1, <1>2, TopFacts
<1>5. /\ f \in Frames /\ f.block = s /\ (f.atomic => kind # "call" /\ "atomic" \in options)
      /\ (Top.atomic \/ atomic => f.atomic)
  BY <1>2, InnerFacts
<1>6. Pushed(stack, f, stack')
  <2>1. SameFrames(stack, Drawn)
    BY <1>4, MarkedFrames, Zenon DEF Drawn
  <2>2. stack' = Append(Drawn, f)
    BY <1>2 DEF Open
  <2>3. QED
    BY <1>4, <1>5, <2>1, <2>2, PushedFrame
<1>7. PICK n \in Nat : n = Len(stack) /\ n # 0
  BY <1>4
<1>8. /\ stack' \in Seq(Frames) /\ Len(stack') = n + 1
      /\ stack'[n + 1].block = s /\ stack'[n + 1].atomic = f.atomic
      /\ \A i \in 1 .. n : stack'[i].block = stack[i].block /\ stack'[i].atomic = stack[i].atomic
  BY <1>5, <1>6, <1>7 DEF Pushed
<1>9. /\ Numbered /\ WholeOf(node, prog, Underway, A) /\ prog \in Programs(AllBlocks)
      /\ AllBlocks \subseteq Int /\ BlocksAreNumbered /\ Pile /\ Enclosed(A) /\ Phased /\ A \subseteq Int
  BY WholeProg DEF Sound
<1>10. /\ Len(node) \in Nat /\ Ids = 1 .. Len(node) /\ s = Len(node) + 1 /\ s \notin Ids
  BY <1>2, <1>9, NumberFacts DEF New
<1>11. /\ Numbered' /\ Ids' = 1 .. s /\ Ids' = Ids \union {s} /\ node'[s] = r
       /\ \A x \in Ids : node'[x] = node[x]
  <2>1. node' = Append(node, r)
    BY <1>3 DEF Create
  <2>2. QED
    BY <1>9, <1>10, <2>1, LongerFacts DEF Numbered, Ids
<1>12. \A k \in AllBlocks : Owner(k) < s /\ k # s /\ -k # s /\ k # -s
  <2>1. \A k \in AllBlocks : k \in Int /\ Owner(k) \in 0 .. Len(node)
    BY <1>9, <1>10 DEF BlocksAreNumbered
  <2>2. QED
    BY <1>10, <2>1 DEF Owner
<1>13. PICK p : p = Known(prog, b)
  OBVIOUS
<1>14. SameBut(prog, p, {"parent"}) /\ p.parent = Append(prog.parent, b)
  BY <1>9, <1>13, ProgramsShaped, ParentChanges DEF Known
<1>15. HasBlock(p, prog', s)
  <2>1. prog' = Opened(p, s)
    BY <1>2, <1>13 DEF Open
  <2>2. Shaped(p) /\ s \in Int
    BY <1>10, <1>14 DEF SameBut
  <2>3. QED
    BY <2>1, <2>2, OpenedFields
<1>16. PICK q : q = prog'
  OBVIOUS
<1>17. /\ Shaped(q) /\ q.stms = With(prog.stms, s) /\ q.deleted = With(prog.deleted, s)
       /\ q.parent = Append(prog.parent, b) /\ q.edges = prog.edges
       /\ q.blocks = prog.blocks \union {s} /\ q.live = prog.live /\ q.undefined = prog.undefined
  BY <1>14, <1>15, <1>16 DEF SameBut, HasBlock
<1>18. PICK A2 : A2 = IF f.atomic THEN A \union {s, -s} ELSE A
  OBVIOUS
<1>19. A \subseteq A2 /\ A2 \subseteq A \union {s, -s} /\ A2 \intersect AllBlocks \subseteq A /\ A2 \subseteq Int
  <2>1. A \subseteq A2 /\ \A k \in A2 : k \in A \/ k = s \/ k = -s
    BY <1>18
  <2>2. s \in Int /\ -s \in Int
    BY <1>10
  <2>3. \A k \in AllBlocks : k # s /\ k # -s
    BY <1>12
  <2>4. QED
    BY <1>9, <2>1, <2>2, <2>3
<1>20. Underway \subseteq Ids
  BY <1>9 DEF Underway, Pile, Holds
<1>21. WholeOf(node', prog', Underway \union {s}, A2)
  <2>1. WholeOf(Append(node, r), q, Underway \union {s}, A2)
    <3>1. s \notin DOMAIN prog.stms /\ b \in DOMAIN prog.stms /\ A2 \intersect DOMAIN prog.stms \subseteq A
      BY <1>4, <1>12, <1>19 DEF AllBlocks
    <3>2. node \in Seq(ToSet(node)) /\ Underway \subseteq DOMAIN node
      BY <1>9, <1>20 DEF Numbered, Ids
    <3>3. QED
      BY <1>9, <1>10, <1>17, <1>19, <3>1, <3>2, HolderAdded
  <2>2. QED
    BY <1>3, <1>16, <2>1 DEF Create
<1>22. AllBlocks' = AllBlocks \union {s}
  <2>1. ListsOf(prog.stms, AllBlocks, Ids)
    BY <1>9 DEF Programs, ListsOf
  <2>2. ListsOf(With(prog.stms, s), AllBlocks \union {s}, Ids)
    BY <2>1, WithFacts
  <2>3. QED
    BY <1>16, <1>17, <2>2 DEF ListsOf, AllBlocks
<1>23. prog'.parent[s] = b /\ \A x \in Ids : prog'.parent[x] = prog.parent[x]
  <2>1. PICK g, D, m : g = prog.parent /\ D = AllBlocks /\ m = Len(node)
    OBVIOUS
  <2>2. m \in Nat /\ g \in [1 .. m -> D] /\ b \in D
    BY <1>4, <1>9, <1>10, <2>1 DEF Programs
  <2>3. FirstOnes(g, m, D)
    BY <2>2 DEF FirstOnes
  <2>4. /\ FirstOnes(Append(g, b), m + 1, D)
        /\ \A x \in 1 .. m : Append(g, b)[x] = g[x]
        /\ Append(g, b)[m + 1] = b
    BY <2>2, <2>3, LongerFunction
  <2>5. QED
    BY <1>10, <1>16, <1>17, <2>1, <2>4
<1>24. Underway' = Underway \union {s}
  <2>1. Owner(s) = s
    BY <1>10 DEF Owner
  <2>2. 2 .. n + 1 = 2 .. n \union {n + 1} /\ 2 .. n \subseteq 1 .. n
    BY <1>7
  <2>3. \A i \in 2 .. n : stack'[i].block = stack[i].block
    BY <1>8, <2>2
  <2>4. QED
    BY <1>7, <1>8, <2>1, <2>2, <2>3 DEF Underway
<1>25. BlocksAreNumbered'
  <2>1. Owner(s) = s
    BY <1>10 DEF Owner
  <2>2. QED
    BY <1>9, <1>11, <1>22, <2>1 DEF BlocksAreNumbered
<1>26. \A x \in Ids : Kind(x)' = Kind(x)
  BY <1>11 DEF Kind
<1>27. Kind(s)' = kind
  BY <1>3, <1>11 DEF Kind
<1>28. ASSUME NEW k \in AllBlocks, Holds(k)
       PROVE  Holds(k)'
  BY <1>11, <1>12, <1>22, <1>23, <1>26, <1>28 DEF Holds
<1>29. Holds(s)'
  <2>1. Owner(s) = s /\ s > 0
    BY <1>10 DEF Owner
  <2>2. node'[s].home = b
    BY <1>3, <1>11
  <2>3. -s \notin AllBlocks'
    BY <1>10, <1>12, <1>22
  <2>4. s \in Ids'
    BY <1>11
  <2>5. QED
    BY <1>1, <1>4, <1>10, <1>23, <1>27, <2>1, <2>2, <2>3, <2>4 DEF Holds
<1>30. Pile'
  <2>1. \A i \in 1 .. n + 1 : i \in 1 .. n \/ i = n + 1
    BY <1>7
  <2>2. \A i \in 1 .. n : stack[i].block \in AllBlocks
    BY <1>7, <1>9 DEF Pile
  <2>3. \A i \in 1 .. n + 1 : stack'[i].block \in AllBlocks'
    BY <1>8, <1>22, <2>1, <2>2
  <2>4. stack' # <<>> => stack'[1].block = 0
    BY <1>1, <1>7, <1>8, <1>9 DEF Pile
  <2>5. \A i \in 2 .. n + 1 : Holds(stack[i].block)'
    <3>1. SUFFICES ASSUME NEW i \in 2 .. n + 1 PROVE Holds(stack[i].block)'
      OBVIOUS
    <3>2. PICK k : k = stack'[i].block
      OBVIOUS
    <3>3. Holds(k)'
      <4>1. CASE i = n + 1
        BY <1>8, <1>29, <3>2, <4>1
      <4>2. CASE i # n + 1
        <5>1. i \in 2 .. n /\ i \in 1 .. n
          BY <1>7, <4>2
        <5>2. k = stack[i].block /\ Holds(k) /\ k \in AllBlocks
          BY <1>7, <1>8, <1>9, <2>2, <3>2, <5>1 DEF Pile
        <5>3. QED
          BY <1>28, <5>2
      <4>3. QED
        BY <4>1, <4>2
    <3>4. QED
      BY <3>2, <3>3 DEF Holds
  <2>6. \A i, j \in 1 .. n + 1 : i < j => Owner(stack'[i].block) < Owner(stack'[j].block)
    <3>1. SUFFICES ASSUME NEW i \in 1 .. n + 1, NEW j \in 1 .. n + 1, i < j
                   PROVE  Owner(stack'[i].block) < Owner(stack'[j].block)
      OBVIOUS
    <3>2. i \in 1 .. n /\ (j = n + 1 \/ j \in 1 .. n)
      BY <1>7, <2>1, <3>1
    <3>3. CASE j = n + 1
      <4>1. Owner(s) = s
        BY <1>10 DEF Owner
      <4>2. QED
        BY <1>8, <1>12, <2>2, <3>2, <3>3, <4>1
    <3>4. CASE j \in 1 .. n
      BY <1>7, <1>8, <1>9, <3>1, <3>2, <3>4 DEF Pile
    <3>5. QED
      BY <3>2, <3>3, <3>4
  <2>7. QED
    BY <1>7, <1>8, <2>3, <2>4, <2>5, <2>6 DEF Pile
<1>31. Enclosed(A2)'
  <2>1. Owner(s) = s /\ Owner(-s) = s /\ -(-s) = s
    BY <1>10 DEF Owner
  <2>2. ASSUME NEW k \in A2
        PROVE  Owner(k) \in Ids' /\ -k \in A2 /\ Kind(Owner(k))' # "call"
    <3>1. CASE k \in A
      BY <1>9, <1>11, <1>19, <1>26, <3>1 DEF Enclosed
    <3>2. CASE k \notin A
      <4>1. f.atomic /\ k \in {s, -s} /\ s \in A2 /\ -s \in A2
        BY <1>18, <2>2, <3>2
      <4>2. kind # "call"
        BY <1>5, <4>1
      <4>3. QED
        BY <1>11, <1>27, <2>1, <4>1, <4>2
    <3>3. QED
      BY <3>1, <3>2
  <2>3. ASSUME NEW x \in Ids', node'[x].atomic
        PROVE  x \in A2 /\ x \in AllBlocks'
    <3>1. CASE x \in Ids
      BY <1>9, <1>11, <1>19, <1>22, <2>3, <3>1 DEF Enclosed
    <3>2. CASE x = s
      BY <1>3, <1>5, <1>11, <1>18, <1>22, <2>3, <3>2
    <3>3. QED
      BY <1>11, <3>1, <3>2
  <2>4. ASSUME NEW i \in 1 .. n + 1
        PROVE  /\ stack'[i].block \in A2 => stack'[i].atomic
               /\ stack'[i].atomic => "atomic" \in options'
    <3>1. CASE i = n + 1
      <4>1. s \in A2 => f.atomic
        <5>1. s \notin A
          BY <1>9, <1>10, <2>1 DEF Enclosed
        <5>2. QED
          BY <1>18, <5>1
      <4>2. QED
        BY <1>1, <1>5, <1>8, <3>1, <4>1
    <3>2. CASE i # n + 1
      <4>1. i \in 1 .. n
        BY <1>7, <3>2
      <4>2. stack[i].block \in AllBlocks
        BY <1>7, <1>9, <4>1 DEF Pile
      <4>3. stack[i].block \in A2 => stack[i].block \in A
        BY <1>19, <4>2
      <4>4. QED
        BY <1>1, <1>7, <1>8, <1>9, <4>1, <4>3 DEF Enclosed
    <3>3. QED
      BY <3>1, <3>2
  <2>5. ASSUME NEW x \in Underway \union {s}, prog'.parent[x] \in A2
        PROVE  x \in A2
    <3>1. CASE x \in Underway
      <4>1. x \in Ids /\ prog'.parent[x] = prog.parent[x]
        BY <1>20, <1>23, <3>1
      <4>2. prog.parent[x] \in AllBlocks
        BY <1>9, <4>1 DEF Programs
      <4>3. prog.parent[x] \in A
        BY <1>19, <2>5, <4>1, <4>2
      <4>4. QED
        BY <1>9, <1>19, <3>1, <4>3 DEF Enclosed
    <3>2. CASE x = s
      <4>1. b \in A
        BY <1>4, <1>19, <1>23, <2>5, <3>2
      <4>2. f.atomic
        BY <1>4, <1>5, <4>1
      <4>3. QED
        BY <1>18, <3>2, <4>2
    <3>3. QED
      BY <3>1, <3>2
  <2>6. A2 # {} => "atomic" \in options'
    BY <1>1, <1>5, <1>9, <1>18 DEF Enclosed
  <2>7. QED
    BY <1>8, <1>24, <2>2, <2>3, <2>4, <2>5, <2>6 DEF Enclosed
<1>32. Callers' /\ Phased'
  <2>1. sections' \in Seq(Ids') /\ \A x \in ToSet(sections') : x \in AllBlocks'
    <3>1. Seq(Ids) \subseteq Seq(Ids')
      BY <1>11, LargerSeq
    <3>2. QED
      BY <1>1, <1>9, <1>22, <3>1 DEF Phased
  <2>2. /\ prog'.live = {} /\ ~prog'.undefined /\ prog'.blocks \subseteq AllBlocks'
        /\ "goto" \notin options => prog'.edges = {}
    BY <1>1, <1>9, <1>16, <1>17, <1>22 DEF Phased
  <2>3. QED
    BY <1>1, <2>1, <2>2, StillGenerated
<1>33. WholeOf(node', prog', Underway', A2)
  BY <1>21, <1>24
<1>34. QED
  BY <1>11, <1>19, <1>25, <1>30, <1>31, <1>32, <1>33 DEF Sound

\* What more statements and more blocks D make of the program: nodes and p.
Later(nodes, p, U, A, D) ==
  /\ nodes \in Seq(ToSet(nodes)) /\ WholeOf(nodes, p, U, A) /\ Shaped(p)
  /\ Ids \subseteq DOMAIN nodes
  /\ \A x \in Ids : nodes[x] = node[x] /\ p.parent[x] = prog.parent[x]
  /\ \A x \in DOMAIN nodes \ Ids : ~nodes[x].atomic
  /\ DOMAIN p.stms = D
  /\ p.edges = prog.edges /\ p.live = prog.live /\ p.undefined = prog.undefined
  /\ p.blocks \subseteq prog.blocks \union D

\* The program as it is.
LEMMA LaterStart ==
  ASSUME NEW A, Sound(A)
  PROVE  Later(node, prog, Underway, A, AllBlocks)
<1>1. Shaped(prog)
  BY WholeProg, ProgramsShaped
<1>2. QED
  BY <1>1 DEF Later, Sound, Numbered, AllBlocks, Ids

\* A statement without blocks joins a block.
LEMMA LaterLeaf ==
  ASSUME NEW nodes, NEW p, NEW U \in SUBSET Ids, NEW A, NEW D, Later(nodes, p, U, A, D),
         NEW b \in D, Owner(b) < Len(nodes) + 1, NEW kind,
         kind \notin Compound \union Section, b \in A => kind \notin Barred
  PROVE  Later(Append(nodes, Record(kind, b)), Join(Known(p, b), b, Len(nodes) + 1), U, A, D)
<1> USE DEF Later
<1>1. PICK n \in Nat : n = Len(nodes) /\ DOMAIN nodes = 1 .. n
  OBVIOUS
<1>2. PICK r : r = Record(kind, b)
  OBVIOUS
<1>3. r.kind = kind /\ r.atomic = FALSE
  BY <1>2 DEF Record
<1>4. PICK text : text = Append(p.stms[b], n + 1)
  OBVIOUS
<1>5. IsInjective(text) /\ text \in Seq(1 .. n + 1) /\ ToSet(text) = ToSet(p.stms[b]) \union {n + 1}
  <2>1. PICK old : old = p.stms[b]
    OBVIOUS
  <2>2. old \in Seq(1 .. n) /\ IsInjective(old)
    BY <1>1, <2>1 DEF WholeOf, ProgramsOf, Neat
  <2>3. ToSet(old) \subseteq 1 .. n
    BY <2>2 DEF ToSet
  <2>4. old \in Seq(1 .. n + 1) /\ n + 1 \in 1 .. n + 1 /\ n + 1 \notin ToSet(old)
    <3>1. 1 .. n \subseteq 1 .. n + 1
      OBVIOUS
    <3>2. QED
      BY <2>2, <2>3, <3>1, LargerSeq
  <2>5. QED
    BY <1>4, <2>1, <2>2, <2>4, AppendFacts
<1>6. PICK q : q = Join(Known(p, b), b, n + 1)
  OBVIOUS
<1>7. HasText(p, q, b, b, text)
  BY <1>4, <1>6, JoinFields, Zenon
<1>8. /\ Shaped(q) /\ q.stms = [p.stms EXCEPT ![b] = text] /\ q.deleted = p.deleted
      /\ q.parent = Append(p.parent, b) /\ q.edges = p.edges
      /\ q.blocks = p.blocks /\ q.live = p.live /\ q.undefined = p.undefined
  BY <1>7 DEF HasText, SameBut
<1>9. n + 1 \notin q.edges
  BY <1>1, <1>8 DEF WholeOf, ProgramsOf
<1>10. WholeOf(Append(nodes, r), q, U, A)
  <2>1. U \subseteq DOMAIN nodes /\ nodes \in Seq(ToSet(nodes)) /\ WholeOf(nodes, p, U, A)
    OBVIOUS
  <2>2. AddsLeaf(nodes, r, p, b, text, q)
    BY <1>1, <1>3, <1>5, <1>8, <1>9 DEF AddsLeaf
  <2>3. b \in A => r.kind \notin Barred
    BY <1>3
  <2>4. QED
    BY <2>1, <2>2, <2>3, LeafAdded
<1>11. PICK more : more = Append(nodes, r)
  OBVIOUS
<1>12. /\ more \in Seq(ToSet(more)) /\ DOMAIN more = 1 .. n + 1 /\ more[n + 1] = r
       /\ \A x \in 1 .. n : more[x] = nodes[x]
  BY <1>1, <1>11, LongerFacts
<1>13. \A x \in 1 .. n : q.parent[x] = p.parent[x]
  <2>1. PICK g : g = p.parent
    OBVIOUS
  <2>2. n \in Nat /\ g \in [1 .. n -> D] /\ b \in D
    BY <1>1, <2>1 DEF WholeOf, ProgramsOf
  <2>3. FirstOnes(g, n, D)
    BY <2>2 DEF FirstOnes
  <2>4. \A x \in 1 .. n : Append(g, b)[x] = g[x]
    BY <2>2, <2>3, OldParents
  <2>5. QED
    BY <1>8, <2>1, <2>4
<1>14. \A x \in Ids : x \in 1 .. n /\ more[x] = node[x] /\ q.parent[x] = prog.parent[x]
  BY <1>1, <1>12, <1>13
<1>15. \A x \in DOMAIN more \ Ids : ~more[x].atomic
  BY <1>1, <1>3, <1>12
<1>16. DOMAIN q.stms = D
  BY <1>8
<1>17. Ids \subseteq DOMAIN more
  BY <1>1, <1>12
<1>18. q.blocks \subseteq prog.blocks \union D
  BY <1>8
<1>19. Later(more, q, U, A, D)
  BY <1>8, <1>10, <1>11, <1>12, <1>14, <1>15, <1>16, <1>17, <1>18
<1>20. QED
  BY <1>1, <1>2, <1>6, <1>11, <1>19

\* A statement opens its second block.
LEMMA LaterBlock ==
  ASSUME NEW nodes, NEW p, NEW U, NEW A, NEW D, Later(nodes, p, U, A, D),
         NEW m \in Int, m \notin D
  PROVE  Later(nodes, Opened(p, m), U, A, D \union {m})
<1> USE DEF Later
<1>1. PICK q : q = Opened(p, m)
  OBVIOUS
<1>2. HasBlock(p, q, m)
  BY <1>1, OpenedFields, Zenon
<1>3. /\ Shaped(q) /\ q.stms = With(p.stms, m) /\ q.deleted = With(p.deleted, m)
      /\ q.parent = p.parent /\ q.edges = p.edges
      /\ q.blocks = p.blocks \union {m} /\ q.live = p.live /\ q.undefined = p.undefined
  BY <1>2 DEF HasBlock
<1>4. WholeOf(nodes, q, U, A)
  BY <1>3, BlockAdded
<1>5. DOMAIN q.stms = D \union {m}
  BY <1>3 DEF With
<1>6. QED
  BY <1>1, <1>3, <1>4, <1>5

\* A statement whose blocks are finished joins its block.
LEMMA LaterPlaced ==
  ASSUME NEW nodes, NEW p, NEW U, NEW A, NEW D, Later(nodes, p, U, A, D),
         NEW s \in U, s \in Ids, NEW h, h = prog.parent[s], Owner(h) < s,
         BlocksIn(nodes, s) \subseteq D,
         h \in A => nodes[s].kind \notin Barred /\ BlocksIn(nodes, s) \subseteq A
  PROVE  Later(nodes, Join(p, h, s), U \ {s}, A, D)
<1> USE DEF Later
<1>1. PICK q : q = Join(p, h, s)
  OBVIOUS
<1>2. WholeOf(nodes, q, U \ {s}, A)
  <2>1. h = p.parent[s] /\ s \in DOMAIN nodes /\ BlocksIn(nodes, s) \subseteq DOMAIN p.stms
    OBVIOUS
  <2>2. QED
    BY <1>1, <2>1, HolderPlaced
<1>3. PICK stms : stms = [p.stms EXCEPT ![h] = Append(p.stms[h], s)]
  OBVIOUS
<1>4. q = [p EXCEPT !.stms = stms]
  BY <1>1, <1>3 DEF Join, Shaped
<1>5. SameBut(p, q, {"stms"}) /\ q.stms = stms
  <2>1. Shaped(p)
    OBVIOUS
  <2> HIDE DEF Later
  <2>2. QED
    BY <1>4, <2>1, TextChanges
<1>6. /\ Shaped(q) /\ q.parent = p.parent /\ q.edges = p.edges
      /\ q.blocks = p.blocks /\ q.live = p.live /\ q.undefined = p.undefined
  BY <1>5 DEF SameBut
<1>7. DOMAIN q.stms = D
  BY <1>3, <1>5
<1>8. QED
  BY <1>1, <1>2, <1>6, <1>7

\* The statement whose block is filled.
LEMMA TopOwner ==
  ASSUME NEW A, Sound(A), stack # <<>>, NEW b, b = Top.block, NEW s, s = Owner(b), NEW n, n = Len(stack)
  PROVE  /\ n \in Nat \ {0} /\ b = stack[n].block /\ b \in AllBlocks /\ b \in Int /\ s < New
         /\ Underway \subseteq Ids
         /\ b = 0 => Underway = {} /\ n = 1
         /\ b # 0 => /\ n >= 2 /\ s > 0 /\ s \in Int /\ s \in Ids /\ s \in Underway /\ b \in {s, -s} /\ Holds(b)
                     /\ {Owner(stack[i].block) : i \in 2 .. n - 1} = Underway \ {s}
                     /\ \A i \in 1 .. n - 1 : stack[i].block # b /\ Owner(stack[i].block) < s
<1> USE DEF Sound
<1>1. /\ n \in Nat \ {0} /\ b = stack[n].block /\ b \in AllBlocks /\ b \in Int /\ s < New
  BY TopFacts
<1>2. Underway \subseteq Ids
  BY <1>1 DEF Underway, Pile, Holds
<1>3. \A i, j \in 1 .. n : i < j => Owner(stack[i].block) < Owner(stack[j].block)
  BY DEF Pile
<1>4. stack[1].block = 0
  BY DEF Pile
<1>5. ASSUME b = 0 PROVE Underway = {} /\ n = 1
  <2>1. Owner(0) = 0
    BY DEF Owner
  <2>2. n = 1
    <3>1. SUFFICES ASSUME n # 1 PROVE FALSE
      OBVIOUS
    <3>2. 1 \in 1 .. n /\ n \in 1 .. n /\ 1 < n
      BY <1>1, <3>1
    <3>3. Owner(stack[1].block) < Owner(stack[n].block)
      BY <1>3, <3>2
    <3>4. QED
      BY <1>1, <1>4, <1>5, <2>1, <3>3
  <2>3. 2 .. n = {}
    BY <2>2
  <2>4. QED
    BY <2>2, <2>3 DEF Underway
<1>6. ASSUME b # 0
      PROVE  /\ n >= 2 /\ s > 0 /\ s \in Int /\ s \in Ids /\ s \in Underway /\ b \in {s, -s} /\ Holds(b)
             /\ {Owner(stack[i].block) : i \in 2 .. n - 1} = Underway \ {s}
             /\ \A i \in 1 .. n - 1 : stack[i].block # b /\ Owner(stack[i].block) < s
  <2>1. n # 1
    BY <1>1, <1>4, <1>6
  <2>2. n >= 2 /\ n \in 2 .. n /\ n \in 1 .. n
    BY <1>1, <2>1
  <2>3. s > 0 /\ s \in Int /\ b \in {s, -s}
    BY <1>1, <1>6 DEF Owner
  <2>4. Holds(b)
    BY <1>1, <2>2 DEF Pile
  <2>5. s \in Ids /\ s \in Underway
    BY <1>1, <2>2, <2>4 DEF Holds, Underway
  <2>6. \A i \in 1 .. n - 1 : i \in 1 .. n /\ i < n
    BY <1>1
  <2>7. \A i \in 1 .. n - 1 : Owner(stack[i].block) < s
    BY <1>1, <1>3, <2>2, <2>6
  <2>8. \A i \in 1 .. n - 1 : stack[i].block # b
    BY <1>1, <2>3, <2>7
  <2>9. 2 .. n = 2 .. n - 1 \union {n} /\ 2 .. n - 1 \subseteq 1 .. n - 1
    BY <1>1, <2>2
  <2>10. {Owner(stack[i].block) : i \in 2 .. n - 1} = Underway \ {s}
    <3>1. \A i \in 2 .. n - 1 : Owner(stack[i].block) # s
      BY <1>1, <2>3, <2>7, <2>9
    <3>2. Owner(stack[n].block) = s
      BY <1>1
    <3>3. QED
      BY <2>9, <3>1, <3>2 DEF Underway
  <2>11. QED
    BY <2>2, <2>3, <2>4, <2>5, <2>7, <2>8, <2>10
<1>7. QED
  BY <1>1, <1>2, <1>5, <1>6

\* The block on top is done with: it is left, or another one takes its place.
LEMMA ClosingStep ==
  ASSUME NEW A, Sound(A), phase = "generate", stack # <<>>, UNCHANGED <<options, phase, pruneVars>>,
         NEW b, b = Top.block, NEW s, s = Owner(b), NEW n, n = Len(stack), NEW D,
         Later(node', prog', Underway', A, D),
         AllBlocks \subseteq D, D \subseteq AllBlocks \union {-s}, b = 0 => D = AllBlocks,
         NEW m \in Nat, m <= n, stack' \in Seq(Frames), Len(stack') = m,
         \A i \in 1 .. m : i < n => stack'[i] = stack[i],
         m = n => /\ b > 0 /\ Kind(s) = "if" /\ -s \in D
                  /\ stack'[n].block = -s /\ stack'[n].atomic = Top.atomic,
         sections' \in Seq(Ids), \A x \in ToSet(sections') : x \in D
  PROVE  Sound(A)'
<1>1. /\ n \in Nat \ {0} /\ b = stack[n].block /\ b \in AllBlocks /\ b \in Int /\ s < New
      /\ Underway \subseteq Ids
      /\ b = 0 => Underway = {} /\ n = 1
      /\ b # 0 => /\ n >= 2 /\ s > 0 /\ s \in Int /\ s \in Ids /\ s \in Underway /\ b \in {s, -s} /\ Holds(b)
                  /\ \A i \in 1 .. n - 1 : stack[i].block # b /\ Owner(stack[i].block) < s
  BY TopOwner
<1>2. /\ Numbered' /\ Ids \subseteq Ids' /\ AllBlocks' = D /\ WholeOf(node', prog', Underway', A)
      /\ \A x \in Ids : node'[x] = node[x] /\ prog'.parent[x] = prog.parent[x]
      /\ \A x \in Ids' \ Ids : ~node'[x].atomic
      /\ prog'.edges = prog.edges /\ prog'.live = prog.live /\ prog'.undefined = prog.undefined
      /\ prog'.blocks \subseteq prog.blocks \union D
  BY DEF Later, Numbered, Ids, AllBlocks
<1>3. \A x \in Ids : Kind(x)' = Kind(x)
  BY <1>2 DEF Kind
<1>4. /\ BlocksAreNumbered /\ Pile /\ Enclosed(A) /\ Phased /\ A \subseteq Int /\ AllBlocks \subseteq Int
  BY WholeProg DEF Sound
<1>5. BlocksAreNumbered'
  <2>1. \A k \in D : k \in AllBlocks \/ (b # 0 /\ k = -s)
    OBVIOUS
  <2>2. b # 0 => Owner(-s) = s
    BY <1>1 DEF Owner
  <2>3. QED
    BY <1>1, <1>2, <1>4, <2>1, <2>2 DEF BlocksAreNumbered
<1>6. ASSUME NEW k \in AllBlocks, Holds(k), b = 0 \/ k # s
      PROVE  Holds(k)'
  <2>1. k \in Int /\ node'[Owner(k)] = node[Owner(k)] /\ Owner(k) \in Ids /\ Owner(k) \in Ids'
    BY <1>2, <1>4, <1>6 DEF Holds
  <2>2. -k \notin AllBlocks => -k \notin D
    BY <1>1, <1>6, <2>1
  <2>3. Kind(Owner(k))' = Kind(Owner(k)) /\ prog'.parent[Owner(k)] = prog.parent[Owner(k)]
    BY <1>2, <1>3, <2>1
  <2>4. QED
    BY <1>2, <1>6, <2>1, <2>2, <2>3 DEF Holds
<1>7. ASSUME NEW i \in 1 .. m, i < n
      PROVE  /\ i \in 1 .. n /\ i \in 1 .. n - 1 /\ stack'[i] = stack[i]
             /\ stack[i].block \in AllBlocks /\ stack[i].block \in Int
             /\ i >= 2 => Holds(stack[i].block) /\ stack[i].block # s
  <2>1. i \in 1 .. n /\ i \in 1 .. n - 1
    BY <1>1, <1>7
  <2>2. stack[i].block \in AllBlocks /\ stack[i].block \in Int
    BY <1>4, <2>1 DEF Pile
  <2>3. ASSUME i >= 2 PROVE Holds(stack[i].block) /\ stack[i].block # s
    <3>1. i \in 2 .. n /\ n # 1
      BY <1>1, <2>1, <2>3, <1>7
    <3>2. Owner(stack[i].block) < s /\ s > 0 /\ s \in Int
      BY <1>1, <2>1, <3>1
    <3>3. Owner(s) = s
      BY <3>2 DEF Owner
    <3>4. QED
      BY <1>4, <3>1, <3>2, <3>3 DEF Pile
  <2>4. QED
    BY <1>7, <2>1, <2>2, <2>3
<1>8. ASSUME m = n
      PROVE  /\ b > 0 /\ b = s /\ s \in Ids /\ -s \in D /\ -s \in Int /\ Owner(-s) = s /\ Kind(s) = "if" /\ n >= 2
             /\ stack'[n].block = -s /\ stack'[n].atomic = Top.atomic /\ Holds(-s)'
  <2>1. b > 0 /\ Kind(s) = "if" /\ -s \in D /\ stack'[n].block = -s /\ stack'[n].atomic = Top.atomic
    BY <1>8
  <2>2. b = s /\ s \in Ids /\ s \in Int /\ s > 0 /\ n >= 2 /\ Holds(b)
    BY <1>1, <2>1
  <2>3. Owner(-s) = s /\ -(-s) = s /\ -s < 0 /\ ~(-s > 0) /\ Owner(s) = s /\ -s \in Int
    BY <2>2 DEF Owner
  <2>4. PICK k : k = -s
    OBVIOUS
  <2>5. /\ Owner(k) = s /\ -k = s /\ ~(k > 0) /\ s \in Ids' /\ s \in AllBlocks'
    BY <1>1, <1>2, <2>2, <2>3, <2>4
  <2>6. Kind(s)' = Kind(s) /\ prog'.parent[s] = prog.parent[s] /\ node'[s] = node[s]
    BY <1>2, <1>3, <2>2
  <2>7. Holds(k)'
    BY <2>1, <2>2, <2>3, <2>5, <2>6 DEF Holds
  <2>8. QED
    BY <2>1, <2>2, <2>3, <2>4, <2>7 DEF Holds
<1>9. \A i \in 1 .. m : i < n \/ (i = n /\ m = n)
  BY <1>1
<1>10. Pile'
  <2>1. \A i \in 1 .. m : stack'[i].block \in AllBlocks'
    <3>1. SUFFICES ASSUME NEW i \in 1 .. m PROVE stack'[i].block \in D
      BY <1>2
    <3>2. CASE i < n
      BY <1>7, <3>2
    <3>3. CASE i = n /\ m = n
      BY <1>8, <3>3
    <3>4. QED
      BY <1>9, <3>2, <3>3
  <2>2. stack' # <<>> => stack'[1].block = 0
    <3>1. SUFFICES ASSUME stack' # <<>> PROVE stack'[1].block = 0
      OBVIOUS
    <3>2. m # 0 /\ 1 \in 1 .. m
      <4>1. m # 0
        BY <3>1, EmptySeq
      <4>2. QED
        BY <4>1
    <3>3. 1 < n
      <4>1. CASE m = n
        BY <1>1, <1>8, <4>1
      <4>2. CASE m # n
        BY <1>1, <3>2, <4>2
      <4>3. QED
        BY <4>1, <4>2
    <3>4. stack'[1] = stack[1] /\ stack[1].block = 0
      BY <1>4, <1>7, <3>2, <3>3 DEF Pile
    <3>5. QED
      BY <3>4
  <2>3. \A i \in 2 .. m : Holds(stack[i].block)'
    <3>1. SUFFICES ASSUME NEW i \in 2 .. m PROVE Holds(stack[i].block)'
      OBVIOUS
    <3>2. PICK k : k = stack'[i].block
      OBVIOUS
    <3>3. i \in 1 .. m /\ i >= 2
      OBVIOUS
    <3>4. Holds(k)'
      <4>1. CASE i < n
        <5>1. k = stack[i].block /\ k \in AllBlocks /\ Holds(k) /\ k # s
          BY <1>7, <3>2, <3>3, <4>1
        <5>2. QED
          BY <1>6, <5>1
      <4>2. CASE i = n /\ m = n
        <5>1. k = -s
          BY <1>8, <3>2, <4>2
        <5>2. Holds(-s)'
          BY <1>8, <4>2
        <5>3. QED
          BY <5>1, <5>2 DEF Holds
      <4>3. QED
        BY <1>9, <3>3, <4>1, <4>2
    <3>5. QED
      BY <3>2, <3>4 DEF Holds
  <2>4. \A i, j \in 1 .. m : i < j => Owner(stack'[i].block) < Owner(stack'[j].block)
    <3>1. SUFFICES ASSUME NEW i \in 1 .. m, NEW j \in 1 .. m, i < j
                   PROVE  Owner(stack'[i].block) < Owner(stack'[j].block)
      OBVIOUS
    <3>2. i < n
      BY <1>1, <3>1
    <3>3. stack'[i] = stack[i] /\ i \in 1 .. n - 1 /\ i \in 1 .. n
      BY <1>7, <3>2
    <3>4. CASE j < n
      <4>1. stack'[j] = stack[j] /\ j \in 1 .. n
        BY <1>7, <3>4
      <4>2. QED
        BY <1>4, <3>1, <3>3, <4>1 DEF Pile
    <3>5. CASE j = n /\ m = n
      <4>1. Owner(stack'[j].block) = s /\ b # 0
        BY <1>8, <3>5
      <4>2. QED
        BY <1>1, <3>3, <4>1
    <3>6. QED
      BY <1>9, <3>4, <3>5
  <2>5. QED
    BY <2>1, <2>2, <2>3, <2>4 DEF Pile
<1>11. Enclosed(A)'
  <2>1. \A k \in A : Owner(k) \in Ids' /\ -k \in A /\ Kind(Owner(k))' # "call"
    BY <1>2, <1>3, <1>4 DEF Enclosed
  <2>2. \A x \in Ids' : node'[x].atomic => x \in A /\ x \in AllBlocks'
    BY <1>2, <1>4 DEF Enclosed
  <2>3. \A i \in 1 .. m : /\ stack'[i].block \in A => stack'[i].atomic
                          /\ stack'[i].atomic => "atomic" \in options'
    <3>1. SUFFICES ASSUME NEW i \in 1 .. m
                   PROVE  /\ stack'[i].block \in A => stack'[i].atomic
                          /\ stack'[i].atomic => "atomic" \in options'
      OBVIOUS
    <3>2. CASE i < n
      <4>1. stack'[i] = stack[i] /\ i \in 1 .. n
        BY <1>7, <3>2
      <4>2. QED
        BY <1>4, <4>1 DEF Enclosed
    <3>3. CASE i = n /\ m = n
      <4>1. Top = stack[n] /\ n \in 1 .. n
        BY <1>1, TopFacts
      <4>2. /\ stack'[i].block = -s /\ stack'[i].atomic = stack[n].atomic /\ stack[n].block = s /\ -(-s) = s
        BY <1>1, <1>8, <3>3, <4>1
      <4>3. -s \in A => s \in A
        BY <1>4, <4>2 DEF Enclosed
      <4>4. QED
        BY <1>4, <4>1, <4>2, <4>3 DEF Enclosed
    <3>4. QED
      BY <1>9, <3>2, <3>3
  <2>4. \A x \in Underway' : prog'.parent[x] \in A => x \in A
    <3>1. Underway' \subseteq Underway
      <4>1. SUFFICES ASSUME NEW i \in 2 .. m PROVE Owner(stack'[i].block) \in Underway
        BY DEF Underway
      <4>2. CASE i < n
        <5>1. stack'[i] = stack[i] /\ i \in 2 .. n
          BY <1>7, <4>2
        <5>2. QED
          BY <5>1 DEF Underway
      <4>3. CASE i = n /\ m = n
        BY <1>1, <1>8, <4>3
      <4>4. QED
        BY <1>9, <4>2, <4>3
    <3>2. QED
      BY <1>1, <1>2, <1>4, <3>1 DEF Enclosed
  <2>5. QED
    BY <1>4, <2>1, <2>2, <2>3, <2>4 DEF Enclosed
<1>12. Callers' /\ Phased'
  <2>1. sections' \in Seq(Ids') /\ \A x \in ToSet(sections') : x \in AllBlocks'
    <3>1. Seq(Ids) \subseteq Seq(Ids')
      BY <1>2, LargerSeq
    <3>2. QED
      BY <1>2, <3>1
  <2>2. /\ prog'.live = {} /\ ~prog'.undefined /\ prog'.blocks \subseteq AllBlocks'
        /\ "goto" \notin options => prog'.edges = {}
    BY <1>2, <1>4 DEF Phased
  <2>3. QED
    BY <2>1, <2>2, StillGenerated
<1>13. QED
  BY <1>2, <1>4, <1>5, <1>10, <1>11, <1>12 DEF Sound

\* What is appended to a block that ends.
LEMMA CompletedLater ==
  ASSUME NEW A, Sound(A), stack # <<>>, NEW b, b = Top.block
  PROVE  Later(Completed(b).nodes, Completed(b).p, Underway, A, AllBlocks)
<1>1. Later(node, prog, Underway, A, AllBlocks)
  BY LaterStart
<1>2. PICK s : s = Owner(b)
  OBVIOUS
<1>3. /\ b \in AllBlocks /\ s < New /\ Underway \subseteq Ids
      /\ b # 0 => s \in Ids /\ Holds(b)
  BY <1>2, TopOwner
<1>4. CASE Appended(b) = "none"
  <2>1. Completed(b).nodes = node /\ Completed(b).p = prog
    BY <1>4 DEF Completed
  <2>2. QED
    BY <1>1, <2>1
<1>5. CASE Appended(b) # "none"
  <2>1. PICK kind : kind = Appended(b)
    OBVIOUS
  <2>2. kind \in {"return", "noop"}
    BY <1>5, <2>1 DEF Appended
  <2>3. kind \notin Compound \union Section
    BY <2>2 DEF Compound, Section
  <2>4. b \in A => kind \notin Barred
    <3>1. SUFFICES ASSUME b \in A PROVE kind # "return"
      BY <2>2 DEF Barred, Jump
    <3>2. Enclosed(A) /\ Numbered /\ prog \in Programs(AllBlocks) /\ AllBlocks \subseteq Int
      BY WholeProg DEF Sound
    <3>3. s \in Ids /\ Kind(s) # "call" /\ b # 0
      <4>1. Owner(0) = 0 /\ 0 \notin Ids
        BY <3>2, NumberFacts DEF Owner
      <4>2. QED
        BY <1>2, <3>1, <3>2, <4>1 DEF Enclosed
    <3>4. ParentOf(b) = node[s].home /\ node[s].home = prog.parent[s]
      BY <1>2, <1>3, <3>3 DEF ParentOf, Holds
    <3>5. ParentOf(b) \in Int
      BY <3>2, <3>3, <3>4 DEF Programs
    <3>6. ParentOf(b) # NoBlock
      BY <3>5, NoBlockIsNull
    <3>7. QED
      BY <2>1, <3>6 DEF Appended
  <2>5. Later(Append(node, Record(kind, b)), Join(Known(prog, b), b, Len(node) + 1), Underway, A, AllBlocks)
    <3>1. Owner(b) < Len(node) + 1 /\ Underway \in SUBSET Ids
      BY <1>2, <1>3 DEF New
    <3>2. QED
      BY <1>1, <1>3, <2>3, <2>4, <3>1, LaterLeaf
  <2>6. /\ Completed(b).nodes = Append(node, Record(kind, b))
        /\ Completed(b).p = Join(Known(prog, b), b, Len(node) + 1)
    BY <1>5, <2>1 DEF Completed, New
  <2>7. QED
    BY <2>5, <2>6
<1>6. QED
  BY <1>4, <1>5

\* Where a statement that holds blocks is put.
LEMMA HolderHome ==
  ASSUME NEW A, Sound(A), NEW s \in Underway, NEW b \in {s, -s}, s \in Ids, Holds(b), s > 0, s \in Int,
         NEW nodes, NEW p, NEW D, Later(nodes, p, Underway, A, D), BlocksIn(nodes, s) \subseteq D
  PROVE  Later(nodes, Join(p, node[s].home, s), Underway \ {s}, A, D)
<1>1. Owner(b) = s
  BY DEF Owner
<1>2. PICK h : h = node[s].home
  OBVIOUS
<1>3. h = prog.parent[s] /\ Owner(h) < s
  BY <1>1, <1>2 DEF Holds
<1>4. h \in A => nodes[s].kind \notin Barred /\ BlocksIn(nodes, s) \subseteq A
  <2>1. SUFFICES ASSUME h \in A PROVE nodes[s].kind \notin Barred /\ BlocksIn(nodes, s) \subseteq A
    OBVIOUS
  <2>2. Enclosed(A)
    BY DEF Sound
  <2>3. s \in A /\ -s \in A
    BY <1>3, <2>1, <2>2 DEF Enclosed
  <2>4. Owner(s) = s
    BY DEF Owner
  <2>5. Kind(s) # "call" /\ Kind(s) \in Holder /\ nodes[s].kind = Kind(s)
    BY <1>1, <2>2, <2>3, <2>4 DEF Enclosed, Holds, Later, Kind
  <2>6. nodes[s].kind \notin Barred
    BY <2>5 DEF Holder, Compound, Section, Barred, Jump
  <2>7. BlocksIn(nodes, s) \subseteq {s, -s}
    BY DEF BlocksIn
  <2>8. QED
    BY <2>3, <2>6, <2>7
<1>5. QED
  BY <1>2, <1>3, <1>4, LaterPlaced

\* A block ends.
LEMMA CloseSound ==
  ASSUME NEW A, Sound(A), Close, UNCHANGED pruneVars
  PROVE  Sound(A)'
<1>1. /\ phase = "generate" /\ stack # <<>> /\ UNCHANGED <<options, phase>>
  BY DEF Close
<1>2. PICK b, s, n : b = Top.block /\ s = Owner(b) /\ n = Len(stack)
  OBVIOUS
<1>3. PICK nodes, p : nodes = Completed(b).nodes /\ p = Completed(b).p
  OBVIOUS
<1>4. Later(nodes, p, Underway, A, AllBlocks)
  BY <1>1, <1>2, <1>3, CompletedLater
<1>5. /\ n \in Nat \ {0} /\ b = stack[n].block /\ b \in AllBlocks /\ b \in Int /\ s < New
      /\ Underway \subseteq Ids
      /\ b = 0 => Underway = {} /\ n = 1
      /\ b # 0 => /\ n >= 2 /\ s > 0 /\ s \in Int /\ s \in Ids /\ s \in Underway /\ b \in {s, -s} /\ Holds(b)
                  /\ {Owner(stack[i].block) : i \in 2 .. n - 1} = Underway \ {s}
  BY <1>1, <1>2, TopOwner
<1>6. stack \in Seq(Frames) /\ Top = stack[n] /\ Top \in Frames /\ sections \in Seq(Ids)
      /\ (\A x \in ToSet(sections) : x \in AllBlocks) /\ AllBlocks \subseteq Int
  BY <1>1, <1>2, TopFacts, WholeProg DEF Sound, Phased
<1>7. PICK rest : rest = Front(stack)
  OBVIOUS
<1>8. rest \in Seq(Frames) /\ Len(rest) = n - 1 /\ \A i \in 1 .. n - 1 : rest[i] = stack[i]
  BY <1>2, <1>5, <1>6, <1>7 DEF Front
<1>9. \/ b = 0 /\ node' = nodes /\ prog' = p /\ stack' = <<>> /\ UNCHANGED sections
      \/ /\ b # 0 /\ Kind(s) = "if" /\ b > 0
         /\ node' = nodes /\ prog' = Opened(p, -s)
         /\ stack' = Append(rest, [Top EXCEPT !.block = -s, !.drawn = FALSE,
                                            !.revisit = FALSE, !.analysed = FALSE])
         /\ UNCHANGED sections
      \/ /\ b # 0 /\ Kind(s) = "if" /\ b > 0
         /\ node' = Append(nodes, Record("noop", -s))
         /\ prog' = Join(Join(Known(Opened(p, -s), -s), -s, Len(nodes) + 1), node[s].home, s)
         /\ stack' = rest /\ UNCHANGED sections
      \/ /\ b # 0 /\ ~(Kind(s) = "if" /\ b > 0)
         /\ node' = nodes
         /\ prog' = Join(IF Kind(s) \in Section THEN Opened(p, -s) ELSE p, node[s].home, s)
         /\ stack' = rest
         /\ sections' = IF Kind(s) \in Section THEN Append(sections, s) ELSE sections
  BY <1>2, <1>3, <1>7 DEF Close
<1>10. ASSUME b # 0, stack' = rest
       PROVE  /\ Underway' = Underway \ {s} /\ stack' \in Seq(Frames) /\ Len(stack') = n - 1 /\ n - 1 \in Nat
              /\ \A i \in 1 .. n - 1 : stack'[i] = stack[i]
  <2>1. Len(stack') = n - 1 /\ n - 1 \in Nat /\ \A i \in 2 .. n - 1 : i \in 1 .. n - 1 /\ stack'[i] = stack[i]
    BY <1>5, <1>8, <1>10
  <2>2. Underway' = {Owner(stack[i].block) : i \in 2 .. n - 1}
    BY <2>1 DEF Underway
  <2>3. QED
    BY <1>5, <1>8, <1>10, <2>1, <2>2
<1>11. b # 0 => -s \in Int /\ -s # s /\ Owner(-s) = s
  BY <1>5 DEF Owner
<1>12. b > 0 /\ Kind(s) \in {"if"} \union Section => b = s /\ -s \notin AllBlocks
  BY <1>2, <1>5 DEF Holds
<1>13. s \in Ids => nodes[s].kind = Kind(s)
  BY <1>4 DEF Later, Kind
<1>14. CASE b = 0 /\ node' = nodes /\ prog' = p /\ stack' = <<>> /\ UNCHANGED sections
  <2>1. Underway' = {}
    BY <1>14 DEF Underway
  <2>2. Later(node', prog', Underway', A, AllBlocks)
    BY <1>4, <1>5, <1>14, <2>1
  <2>3. stack' \in Seq(Frames) /\ Len(stack') = 0 /\ 0 \in Nat /\ 0 <= n /\ 0 # n /\ 1 .. 0 = {}
    BY <1>5, <1>14
  <2>4. QED
    BY <1>1, <1>2, <1>6, <1>14, <2>2, <2>3, ClosingStep
<1>15. CASE /\ b # 0 /\ Kind(s) = "if" /\ b > 0
            /\ node' = nodes /\ prog' = Opened(p, -s)
            /\ stack' = Append(rest, [Top EXCEPT !.block = -s, !.drawn = FALSE,
                                               !.revisit = FALSE, !.analysed = FALSE])
            /\ UNCHANGED sections
  <2>1. PICK D : D = AllBlocks \union {-s}
    OBVIOUS
  <2>2. Later(nodes, Opened(p, -s), Underway, A, D)
    BY <1>4, <1>11, <1>12, <1>15, <2>1, LaterBlock
  <2>3. PICK f : f = [Top EXCEPT !.block = -s, !.drawn = FALSE, !.revisit = FALSE, !.analysed = FALSE]
    OBVIOUS
  <2>4. f \in Frames /\ f.block = -s /\ f.atomic = Top.atomic
    BY <1>6, <1>11, <1>15, <2>3 DEF Frames
  <2>5. /\ stack' \in Seq(Frames) /\ Len(stack') = n /\ stack'[n] = f
        /\ \A i \in 1 .. n - 1 : stack'[i] = stack[i]
    <3>1. stack' = Append(rest, f)
      BY <1>15, <2>3
    <3>2. QED
      BY <1>5, <1>8, <2>4, <3>1, AppendProperties
  <2>6. Underway' = Underway
    <3>1. 2 .. n = 2 .. n - 1 \union {n} /\ \A i \in 2 .. n - 1 : stack'[i] = stack[i]
      BY <1>5, <1>15, <2>5
    <3>2. Owner(stack'[n].block) = s /\ Owner(stack[n].block) = s
      BY <1>2, <1>5, <1>11, <1>15, <2>4, <2>5
    <3>3. QED
      BY <1>2, <2>5, <3>1, <3>2 DEF Underway
  <2>7. Later(node', prog', Underway', A, D)
    BY <1>15, <2>2, <2>6
  <2>8. /\ AllBlocks \subseteq D /\ D \subseteq AllBlocks \union {-s} /\ (b = 0 => D = AllBlocks) /\ -s \in D
        /\ n \in Nat /\ n <= n /\ sections' \in Seq(Ids)
        /\ \A i \in 1 .. n : i < n => stack'[i] = stack[i]
        /\ \A x \in ToSet(sections') : x \in D
    <3>1. \A i \in 1 .. n : i < n => i \in 1 .. n - 1
      BY <1>5
    <3>2. QED
      BY <1>5, <1>6, <1>15, <2>1, <2>5, <3>1
  <2>9. QED
    BY <1>1, <1>2, <1>15, <2>4, <2>5, <2>7, <2>8, ClosingStep
<1>16. CASE /\ b # 0 /\ Kind(s) = "if" /\ b > 0
            /\ node' = Append(nodes, Record("noop", -s))
            /\ prog' = Join(Join(Known(Opened(p, -s), -s), -s, Len(nodes) + 1), node[s].home, s)
            /\ stack' = rest /\ UNCHANGED sections
  <2>1. PICK D : D = AllBlocks \union {-s}
    OBVIOUS
  <2>2. Later(nodes, Opened(p, -s), Underway, A, D)
    BY <1>4, <1>11, <1>12, <1>16, <2>1, LaterBlock
  <2>3. PICK p2, nodes2 : p2 = Join(Known(Opened(p, -s), -s), -s, Len(nodes) + 1) /\ nodes2 = Append(nodes, Record("noop", -s))
    OBVIOUS
  <2>4. Later(nodes2, p2, Underway, A, D)
    <3>1. s < Len(nodes) + 1
      <4>1. s \in DOMAIN nodes /\ nodes \in Seq(ToSet(nodes))
        BY <1>4, <1>5, <1>16 DEF Later
      <4>2. QED
        BY <4>1
    <3>2. Owner(-s) < Len(nodes) + 1 /\ -s \in D /\ Underway \in SUBSET Ids
      BY <1>5, <1>11, <1>16, <2>1, <3>1
    <3>3. "noop" \notin Compound \union Section /\ "noop" \notin Barred
      BY DEF Compound, Section, Barred, Jump
    <3>4. Later(Append(nodes, Record("noop", -s)), Join(Known(Opened(p, -s), -s), -s, Len(nodes) + 1), Underway, A, D)
      BY <2>2, <3>2, <3>3, LaterLeaf
    <3>5. QED
      BY <2>3, <3>4
  <2>5. Later(nodes2, Join(p2, node[s].home, s), Underway \ {s}, A, D)
    <3>1. BlocksIn(nodes2, s) \subseteq D
      BY <1>5, <1>12, <1>16, <2>1, <2>4 DEF BlocksIn, Later, Kind, Section
    <3>2. QED
      BY <1>5, <1>16, <2>4, <3>1, HolderHome
  <2>6. Later(node', prog', Underway', A, D)
    BY <1>10, <1>16, <2>3, <2>5
  <2>7. /\ AllBlocks \subseteq D /\ D \subseteq AllBlocks \union {-s} /\ (b = 0 => D = AllBlocks)
    BY <1>16, <2>1
  <2>8. sections' \in Seq(Ids) /\ \A x \in ToSet(sections') : x \in D
    BY <1>6, <1>16, <2>1
  <2>9. stack' = rest /\ b # 0
    BY <1>16
  <2>10. PICK m \in Nat : /\ m <= n /\ m # n /\ stack' \in Seq(Frames) /\ Len(stack') = m
                          /\ \A i \in 1 .. m : i < n => stack'[i] = stack[i]
    BY <1>5, <1>10, <2>9
  <2>11. QED
    BY <1>1, <1>2, <2>6, <2>7, <2>8, <2>10, ClosingStep
<1>17. CASE /\ b # 0 /\ ~(Kind(s) = "if" /\ b > 0)
            /\ node' = nodes
            /\ prog' = Join(IF Kind(s) \in Section THEN Opened(p, -s) ELSE p, node[s].home, s)
            /\ stack' = rest
            /\ sections' = IF Kind(s) \in Section THEN Append(sections, s) ELSE sections
  <2>1. PICK D, p2 : /\ D = (IF Kind(s) \in Section THEN AllBlocks \union {-s} ELSE AllBlocks)
                     /\ p2 = (IF Kind(s) \in Section THEN Opened(p, -s) ELSE p)
    OBVIOUS
  <2>2. Kind(s) # "if" => b > 0
    BY <1>2, <1>5, <1>17 DEF Holds
  <2>3. Later(nodes, p2, Underway, A, D)
    <3>1. CASE Kind(s) \in Section
      <4>1. b > 0
        BY <2>2, <3>1 DEF Section
      <4>2. QED
        BY <1>4, <1>11, <1>12, <1>17, <2>1, <3>1, <4>1, LaterBlock
    <3>2. CASE Kind(s) \notin Section
      BY <1>4, <2>1, <3>2
    <3>3. QED
      BY <3>1, <3>2
  <2>4. BlocksIn(nodes, s) \subseteq D
    <3>1. CASE Kind(s) = "if"
      <4>1. b < 0 /\ b = -s /\ -b = s
        BY <1>5, <1>17, <3>1
      <4>2. {s, -s} \subseteq AllBlocks
        BY <1>2, <1>5, <4>1 DEF Holds
      <4>3. QED
        BY <1>5, <1>13, <1>17, <2>1, <3>1, <4>2 DEF BlocksIn, Section
    <3>2. CASE Kind(s) \in Section
      BY <1>5, <1>12, <1>13, <1>17, <2>1, <2>2, <3>2 DEF BlocksIn, Section
    <3>3. CASE Kind(s) = "for"
      <4>1. b = s
        BY <1>5, <1>17, <2>2, <3>3
      <4>2. QED
        BY <1>5, <1>13, <1>17, <2>1, <3>3, <4>1 DEF BlocksIn, Section
    <3>4. CASE Kind(s) \notin {"if", "for"} \union Section
      BY <1>5, <1>13, <1>17, <3>4 DEF BlocksIn
    <3>5. QED
      BY <3>1, <3>2, <3>3, <3>4
  <2>5. Later(nodes, Join(p2, node[s].home, s), Underway \ {s}, A, D)
    BY <1>5, <1>17, <2>3, <2>4, HolderHome
  <2>6. Later(node', prog', Underway', A, D)
    BY <1>10, <1>17, <2>1, <2>5
  <2>7. sections' \in Seq(Ids) /\ \A x \in ToSet(sections') : x \in D
    <3>1. CASE Kind(s) \in Section
      <4>1. sections' = Append(sections, s) /\ s \in Ids /\ s \in D /\ AllBlocks \subseteq D
        BY <1>5, <1>12, <1>17, <2>1, <2>2, <3>1 DEF Section
      <4>2. sections' \in Seq(Ids) /\ ToSet(sections') = ToSet(sections) \union {s}
        BY <1>6, <4>1, AppendFacts
      <4>3. QED
        BY <1>6, <4>1, <4>2
    <3>2. CASE Kind(s) \notin Section
      BY <1>6, <1>17, <2>1, <3>2
    <3>3. QED
      BY <3>1, <3>2
  <2>8. /\ AllBlocks \subseteq D /\ D \subseteq AllBlocks \union {-s} /\ (b = 0 => D = AllBlocks)
    BY <1>17, <2>1
  <2>9. stack' = rest /\ b # 0
    BY <1>17
  <2>10. PICK m \in Nat : /\ m <= n /\ m # n /\ stack' \in Seq(Frames) /\ Len(stack') = m
                          /\ \A i \in 1 .. m : i < n => stack'[i] = stack[i]
    BY <1>5, <1>10, <2>9
  <2>11. QED
    BY <1>1, <1>2, <2>6, <2>7, <2>8, <2>10, ClosingStep
<1>18. QED
  BY <1>9, <1>14, <1>15, <1>16, <1>17

\* A step of the generator.
LEMMA GenerateSound ==
  ASSUME NEW A, Sound(A), Generate, UNCHANGED pruneVars
  PROVE  ProgramInv'
<1>1. CASE \E kind \in options : Leaf(kind)
  <2>1. PICK kind \in options : Leaf(kind)
    BY <1>1
  <2>2. Sound(A)'
    BY <2>1, LeafSound
  <2>3. QED
    BY <2>2 DEF ProgramInv
<1>2. CASE \E kind \in options, atomic \in BOOLEAN : Open(kind, atomic)
  <2>1. PICK kind \in options, atomic \in BOOLEAN : Open(kind, atomic)
    BY <1>2
  <2>2. \E A2 : Sound(A2)'
    BY <2>1, OpenSound
  <2>3. QED
    BY <2>2 DEF ProgramInv
<1>3. CASE \E b \in prog.blocks : \E other \in ToSet(prog.stms[b]) : BackwardGoto(b, other) \/ ForwardGoto(b, other)
  <2>1. PICK b, other : BackwardGoto(b, other) \/ ForwardGoto(b, other)
    BY <1>3
  <2>2. Sound(A)'
    BY <2>1, BackwardGotoSound, ForwardGotoSound
  <2>3. QED
    BY <2>2 DEF ProgramInv
<1>4. CASE \E i \in Ids : FailAnalysis(i)
  <2>1. PICK i \in Ids : FailAnalysis(i)
    BY <1>4
  <2>2. Sound(A)'
    BY <2>1, FailAnalysisSound
  <2>3. QED
    BY <2>2 DEF ProgramInv
<1>5. CASE Close
  <2>1. Sound(A)'
    BY <1>5, CloseSound
  <2>2. QED
    BY <2>1 DEF ProgramInv
<1>6. QED
  BY <1>1, <1>2, <1>3, <1>4, <1>5 DEF Generate

-----------------------------------------------------------------------------
(* Pruning.                                                                *)

\* Once the program is built, only its text changes.
LEMMA BuiltStep ==
  ASSUME NEW A, Sound(A), stack = <<>>, phase' # "generate", UNCHANGED genVars,
         WholeOf(node, prog', {}, A), DOMAIN prog'.stms = DOMAIN prog.stms, prog'.edges \subseteq prog.edges,
         todo' \in Seq(Ids), \A s \in ToSet(todo') : s \in AllBlocks,
         "goto" \notin options /\ prog'.undefined => phase' = "tg",
         Callers'
  PROVE  Sound(A)'
<1> USE DEF Sound, genVars
<1>1. node' = node /\ options' = options /\ stack' = <<>> /\ sections' = sections
  OBVIOUS
<1>2. Ids' = Ids /\ AllBlocks' = AllBlocks /\ Len(stack') = 0
  BY <1>1 DEF Ids, AllBlocks
<1>3. \A x : Kind(x)' = Kind(x)
  BY <1>1 DEF Kind
<1>4. Underway' = {}
  BY <1>2 DEF Underway
<1>5. Numbered' /\ BlocksAreNumbered'
  BY <1>1, <1>2 DEF Numbered, BlocksAreNumbered
<1>6. Pile'
  BY <1>1, <1>2 DEF Pile
<1>7. Enclosed(A)'
  BY <1>1, <1>2, <1>3, <1>4 DEF Enclosed
<1>8. Phased'
  BY <1>1, <1>2 DEF Phased
<1>9. QED
  BY <1>1, <1>4, <1>5, <1>6, <1>7, <1>8

\* What is true once the program is built.
LEMMA BuiltFacts ==
  ASSUME NEW A, Sound(A), phase # "generate"
  PROVE  /\ stack = <<>> /\ Underway = {} /\ Whole(prog, {}, A) /\ WholeOf(node, prog, {}, A)
         /\ prog \in Programs(AllBlocks) /\ AllBlocks \subseteq Int /\ Shaped(prog)
<1>1. stack = <<>>
  BY DEF Sound, Phased
<1>2. 2 .. Len(stack) = {}
  BY <1>1
<1>3. Underway = {}
  BY <1>2 DEF Underway
<1>4. QED
  BY <1>1, <1>3, WholeProg, ProgramsShaped DEF Sound

\* The text does not change either.
LEMMA ProgStays ==
  ASSUME NEW A, Sound(A), stack = <<>>, phase' # "generate", UNCHANGED <<genVars, prog>>,
         todo' \in Seq(Ids), \A s \in ToSet(todo') : s \in AllBlocks,
         ~prog.undefined, Calls(prune')
  PROVE  Sound(A)'
<1>1. 2 .. Len(stack) = {}
  OBVIOUS
<1>2. Underway = {}
  BY <1>1 DEF Underway
<1>3. WholeOf(node, prog', {}, A)
  BY <1>2 DEF Sound
<1>4. Callers'
  <2>1. node' = node /\ prog' = prog
    BY DEF genVars
  <2>2. PICK calls : calls = prune'
    OBVIOUS
  <2>3. Calls(calls)
    BY <2>2
  <2>4. Calls(calls)'
    BY <2>1, <2>3 DEF Calls, Chosen, PruneFrames, Ids, AllBlocks, Kind
  <2>5. Calls(prune)'
    BY <2>2, <2>4 DEF Calls
  <2>6. QED
    BY <2>5 DEF Callers
<1>5. QED
  BY <1>3, <1>4, BuiltStep

\* The next phase starts.
LEMMA PhaseSound ==
  ASSUME NEW A, Sound(A), NEW step, StartSections(step) \/ OtherStep(step), step # "generate"
  PROVE  Sound(A)'
<1>1. /\ phase' = step /\ UNCHANGED <<genVars, prog>> /\ ~prog.undefined
      /\ stack = <<>> /\ prune = <<>> /\ todo = <<>> /\ prune' = prune
  BY DEF StartSections, OtherStep, NextStep, StepEnds, StartPruning, pruneVars
<1>2. todo' \in Seq(Ids) /\ \A s \in ToSet(todo') : s \in AllBlocks
  <2>1. sections \in Seq(Ids) /\ \A s \in ToSet(sections) : s \in AllBlocks
    BY DEF Sound, Phased
  <2>2. CASE OtherStep(step)
    <3>1. todo' = <<>> /\ ToSet(todo') = {}
      BY <1>1, <2>2 DEF OtherStep, pruneVars, ToSet
    <3>2. QED
      BY <3>1
  <2>3. CASE StartSections(step)
    <3>1. PICK T : todo' = Keep(sections, T)
      BY <2>3 DEF StartSections, StartPruning
    <3>2. todo' \in Seq(Ids) /\ ToSet(todo') = ToSet(sections) \intersect T
      BY <2>1, <3>1, KeepFacts
    <3>3. QED
      BY <2>1, <3>2
  <2>4. QED
    BY <2>2, <2>3
<1>3. Calls(prune')
  <2>1. prune' = <<>> /\ Len(prune') = 0 /\ prune' \in Seq(PruneFrames)
    BY <1>1
  <2>2. QED
    BY <2>1 DEF Calls
<1>4. QED
  BY <1>1, <1>2, <1>3, ProgStays

\* PruneBlock is called.
LEMMA FirstFrame ==
  ASSUME NEW b \in AllBlocks, AllBlocks \subseteq Int
  PROVE  PruneFrame(b) \in PruneFrames /\ PruneFrame(b).block = b /\ Chosen(PruneFrame(b))
<1>1. PICK f : f = PruneFrame(b)
  OBVIOUS
<1>2. f.block = b /\ f.i = 1 /\ f.within = 0 /\ f.del = <<>> /\ f.lift = <<>>
  BY <1>1 DEF PruneFrame
<1>3. <<>> \in Seq(Ids) /\ ToSet(<<>>) = {} /\ b \in Int
  BY DEF ToSet
<1>4. f \in PruneFrames
  BY <1>1, <1>3 DEF PruneFrame, PruneFrames
<1>5. Chosen(f)
  BY <1>2, <1>3 DEF Chosen
<1>6. QED
  BY <1>1, <1>2, <1>4, <1>5

\* A section is pruned.
LEMMA PruneSectionSound ==
  ASSUME NEW A, Sound(A), PruneSection
  PROVE  Sound(A)'
<1>1. /\ phase' # "generate" /\ stack = <<>> /\ ~prog.undefined /\ UNCHANGED <<genVars, prog>>
      /\ AllBlocks \subseteq Int
  BY BuiltFacts DEF PruneSection, Section
<1>2. todo \in Seq(Ids) /\ todo # <<>> /\ \A s \in ToSet(todo) : s \in AllBlocks
  BY DEF Sound, Phased, PruneSection
<1>3. PICK b : b = Head(todo)
  OBVIOUS
<1>4. b \in AllBlocks
  BY <1>2, <1>3 DEF ToSet
<1>5. todo' \in Seq(Ids) /\ \A s \in ToSet(todo') : s \in AllBlocks
  <2>1. todo' = Tail(todo)
    BY DEF PruneSection
  <2>2. ToSet(Tail(todo)) \subseteq ToSet(todo)
    BY <1>2 DEF ToSet
  <2>3. QED
    BY <1>2, <2>1, <2>2
<1>6. Calls(prune')
  <2>1. PICK f : f = PruneFrame(b)
    OBVIOUS
  <2>2. f \in PruneFrames /\ Chosen(f)
    BY <1>1, <1>4, <2>1, FirstFrame
  <2>3. prune' = <<f>>
    BY <1>3, <2>1 DEF PruneSection
  <2>4. QED
    BY <2>2, <2>3 DEF Calls
<1>7. QED
  BY <1>1, <1>5, <1>6, ProgStays

\* The call on top goes on, in its block.
LEMMA CallsBecome ==
  ASSUME NEW calls, Calls(calls), calls # <<>>, NEW f \in PruneFrames,
         f.block = Last(calls).block, Chosen(f)
  PROVE  Calls([calls EXCEPT ![Len(calls)] = f])
<1> USE DEF Calls
<1>1. PICK n \in Nat : n = Len(calls) /\ n # 0 /\ Last(calls) = calls[n]
  BY DEF Last
<1>2. PICK t : t = [calls EXCEPT ![n] = f]
  OBVIOUS
<1>3. /\ t \in Seq(PruneFrames) /\ Len(t) = n /\ t[n] = f
      /\ \A i \in 1 .. n : i # n => t[i] = calls[i]
  BY <1>1, <1>2
<1>4. \A i \in 1 .. n : Chosen(t[i]) /\ t[i].block = calls[i].block
  BY <1>1, <1>3
<1>5. \A i, j \in 1 .. n : i < j => Owner(t[i].block) < Owner(t[j].block)
  BY <1>1, <1>4
<1>6. QED
  BY <1>1, <1>2, <1>3, <1>4, <1>5

\* Another block is pruned first.
LEMMA CallsLonger ==
  ASSUME NEW calls, Calls(calls), calls # <<>>, AllBlocks \subseteq Int, NEW f \in PruneFrames, Chosen(f),
         Owner(Last(calls).block) < Owner(f.block)
  PROVE  Calls(Append(calls, f))
<1> USE DEF Calls
<1>1. PICK n \in Nat : n = Len(calls) /\ n # 0 /\ Last(calls) = calls[n]
  BY DEF Last
<1>2. PICK t : t = Append(calls, f)
  OBVIOUS
<1>3. /\ t \in Seq(PruneFrames) /\ Len(t) = n + 1 /\ t[n + 1] = f
      /\ \A i \in 1 .. n : t[i] = calls[i]
  BY <1>1, <1>2, AppendProperties
<1>4. \A i \in 1 .. n + 1 : Chosen(t[i])
  BY <1>1, <1>3
<1>5. \A i \in 1 .. n : Owner(calls[i].block) \in Int
  <2>1. \A i \in 1 .. n : calls[i].block \in Int
    BY <1>1 DEF Chosen
  <2>2. QED
    BY <2>1 DEF Owner
<1>6. f.block \in Int /\ Owner(f.block) \in Int
  <2>1. f.block \in Int
    BY DEF PruneFrames
  <2>2. QED
    BY <2>1 DEF Owner
<1>7. \A i \in 1 .. n : Owner(calls[i].block) < Owner(f.block)
  <2>1. \A i \in 1 .. n : i = n \/ Owner(calls[i].block) < Owner(calls[n].block)
    BY <1>1
  <2>2. n \in 1 .. n
    BY <1>1
  <2>3. QED
    BY <1>1, <1>5, <1>6, <2>1, <2>2
<1>8. \A i, j \in 1 .. n + 1 : i < j => Owner(t[i].block) < Owner(t[j].block)
  <2>1. SUFFICES ASSUME NEW i \in 1 .. n + 1, NEW j \in 1 .. n + 1, i < j
                 PROVE  Owner(t[i].block) < Owner(t[j].block)
    OBVIOUS
  <2>2. i \in 1 .. n /\ t[i] = calls[i]
    BY <1>1, <1>3, <2>1
  <2>3. CASE j = n + 1
    BY <1>3, <1>7, <2>2, <2>3
  <2>4. CASE j # n + 1
    <3>1. j \in 1 .. n /\ t[j] = calls[j]
      BY <1>1, <1>3, <2>1, <2>4
    <3>2. QED
      BY <1>1, <2>1, <2>2, <3>1
  <2>5. QED
    BY <2>3, <2>4
<1>9. QED
  BY <1>1, <1>2, <1>3, <1>4, <1>8

\* The statement that PruneBlock is at.
LEMMA AtFacts ==
  ASSUME NEW A, Sound(A), Pruning
  PROVE  /\ phase # "generate"
         /\ stack = <<>> /\ ~prog.undefined
         /\ Calls(prune) /\ prune # <<>> /\ This \in PruneFrames /\ Chosen(This)
         /\ This.block \in AllBlocks /\ AllBlocks \subseteq Int
         /\ todo \in Seq(Ids) /\ \A s \in ToSet(todo) : s \in AllBlocks
         /\ prog.stms[This.block] \in Seq(Ids) /\ IsInjective(prog.stms[This.block])
         /\ AtStatement => /\ This.i \in DOMAIN prog.stms[This.block] /\ This.i \in Nat /\ Current \in Ids
                           /\ Current = prog.stms[This.block][This.i] /\ Current \in ToSet(prog.stms[This.block])
<1> USE DEF Pruning
<1>1. phase # "generate" /\ prune # <<>> /\ ~prog.undefined
  BY DEF Section
<1>2. /\ stack = <<>> /\ prog \in Programs(AllBlocks) /\ AllBlocks \subseteq Int /\ Whole(prog, {}, A)
  BY <1>1, BuiltFacts
<1>3. Calls(prune) /\ todo \in Seq(Ids) /\ \A s \in ToSet(todo) : s \in AllBlocks
  BY <1>1 DEF Sound, Callers, Phased
<1>4. This \in PruneFrames /\ Chosen(This)
  BY <1>1, <1>3 DEF Calls, This, Last
<1>5. This.block \in AllBlocks
  BY <1>4 DEF Chosen
<1>6. prog.stms[This.block] \in Seq(Ids) /\ IsInjective(prog.stms[This.block])
  BY <1>2, <1>5 DEF Programs, Whole, Proper, Neat, AllBlocks
<1>7. ASSUME AtStatement
      PROVE  /\ This.i \in DOMAIN prog.stms[This.block] /\ This.i \in Nat /\ Current \in Ids
             /\ Current = prog.stms[This.block][This.i] /\ Current \in ToSet(prog.stms[This.block])
  <2>1. PICK f, text : f = This /\ text = prog.stms[f.block]
    OBVIOUS
  <2>2. text \in Seq(Ids) /\ f.i \in Nat \ {0} /\ f.i <= Len(text)
    BY <1>4, <1>6, <1>7, <2>1 DEF AtStatement, PruneFrames
  <2>3. f.i \in DOMAIN text /\ f.i \in Nat /\ text[f.i] \in Ids /\ text[f.i] \in ToSet(text)
    BY <2>2 DEF ToSet
  <2>4. QED
    BY <2>1, <2>3 DEF Current
<1>8. QED
  BY <1>1, <1>2, <1>3, <1>4, <1>5, <1>6, <1>7

\* What becomes of a call when a statement is passed.
Passed(f, g, cur) ==
  /\ g \in PruneFrames /\ g.block = f.block /\ g.i = f.i + 1
  /\ \/ g.del = f.del /\ g.lift = f.lift
     \/ g.del = Append(f.del, cur) /\ g.lift = f.lift
     \/ g.del = f.del /\ g.lift = Append(f.lift, cur) /\ Kind(cur) \in Compound

\* It is chosen or it is not.
LEMMA PassedChosen ==
  ASSUME NEW f \in PruneFrames, Chosen(f), NEW g, NEW cur \in Ids, Passed(f, g, cur),
         prog.stms[f.block] \in Seq(Ids), IsInjective(prog.stms[f.block]),
         f.i \in DOMAIN prog.stms[f.block], cur = prog.stms[f.block][f.i]
  PROVE  Chosen(g)
<1> USE DEF Passed
<1>1. PICK text, n : text = prog.stms[f.block] /\ n = f.i
  OBVIOUS
<1>2. n \in Nat /\ n \in DOMAIN text /\ text[n] = cur /\ text \in Seq(Ids) /\ IsInjective(text)
  BY <1>1 DEF PruneFrames
<1>3. f.del \in Seq(Ids) /\ f.lift \in Seq(Ids)
  BY DEF PruneFrames
<1>4. \/ ToSet(g.del) = ToSet(f.del) /\ ToSet(g.lift) = ToSet(f.lift)
      \/ ToSet(g.del) = ToSet(f.del) \union {cur} /\ ToSet(g.lift) = ToSet(f.lift)
      \/ ToSet(g.del) = ToSet(f.del) /\ ToSet(g.lift) = ToSet(f.lift) \union {cur} /\ Kind(cur) \in Compound
  <2>1. /\ ToSet(Append(f.del, cur)) = ToSet(f.del) \union {cur}
        /\ ToSet(Append(f.lift, cur)) = ToSet(f.lift) \union {cur}
    BY <1>3, AppendFacts
  <2>2. QED
    BY <2>1
<1>5. \A x \in ToSet(f.del) \union ToSet(f.lift) : \E j \in DOMAIN text : j < n /\ text[j] = x
  BY <1>1 DEF Chosen
<1>6. cur \notin ToSet(f.del) /\ cur \notin ToSet(f.lift)
  <2>1. \A j \in DOMAIN text : j < n => text[j] # cur
    <3>1. SUFFICES ASSUME NEW j \in DOMAIN text, j < n, text[j] = cur PROVE FALSE
      OBVIOUS
    <3>2. j = n
      BY <1>2, <3>1 DEF IsInjective
    <3>3. QED
      BY <1>2, <3>1, <3>2
  <2>2. QED
    BY <1>5, <2>1
<1>7. \A x \in ToSet(g.del) \union ToSet(g.lift) : \E j \in DOMAIN text : j < n + 1 /\ text[j] = x
  <2>1. SUFFICES ASSUME NEW x \in ToSet(g.del) \union ToSet(g.lift) PROVE \E j \in DOMAIN text : j < n + 1 /\ text[j] = x
    OBVIOUS
  <2>2. CASE x = cur
    BY <1>2, <2>2
  <2>3. CASE x # cur
    <3>1. x \in ToSet(f.del) \union ToSet(f.lift)
      BY <1>4, <2>1, <2>3
    <3>2. PICK j \in DOMAIN text : j < n /\ text[j] = x
      BY <1>5, <3>1
    <3>3. j \in Nat
      BY <1>2
    <3>4. QED
      BY <1>2, <3>2, <3>3
  <2>4. QED
    BY <2>2, <2>3
<1>8. \A x \in ToSet(g.lift) : Kind(x) \in Compound /\ x \notin ToSet(g.del)
  <2>1. \A x \in ToSet(f.lift) : Kind(x) \in Compound /\ x \notin ToSet(f.del)
    BY DEF Chosen
  <2>2. QED
    BY <1>4, <1>6, <2>1
<1>9. f.block \in AllBlocks
  BY DEF Chosen
<1>10. QED
  BY <1>1, <1>7, <1>8, <1>9 DEF Chosen

\* A leaf is passed.
LEMMA PruneLeafSound ==
  ASSUME NEW A, Sound(A), NEW delete \in BOOLEAN, PruneLeaf(delete)
  PROVE  Sound(A)'
<1>1. AtStatement /\ UNCHANGED <<genVars, phase, prog, todo>>
  BY DEF PruneLeaf
<1>2. Pruning
  BY <1>1 DEF AtStatement
<1>3. PICK f, cur : f = This /\ cur = Current
  OBVIOUS
<1>4. /\ phase # "generate" /\ stack = <<>> /\ ~prog.undefined
      /\ Calls(prune) /\ prune # <<>> /\ f \in PruneFrames /\ Chosen(f)
      /\ todo \in Seq(Ids) /\ \A s \in ToSet(todo) : s \in AllBlocks
  BY <1>1, <1>2, <1>3, AtFacts
<1>5. /\ prog.stms[f.block] \in Seq(Ids) /\ IsInjective(prog.stms[f.block])
      /\ f.i \in DOMAIN prog.stms[f.block] /\ cur \in Ids /\ cur = prog.stms[f.block][f.i]
  BY <1>1, <1>2, <1>3, AtFacts
<1>6. PICK g : g = [f EXCEPT !.i = @ + 1, !.del = IF delete THEN Append(@, cur) ELSE @]
  OBVIOUS
<1>7. Passed(f, g, cur)
  <2>1. f.i \in Nat /\ f.i + 1 \in Nat \ {0} /\ f.del \in Seq(Ids) /\ Append(f.del, cur) \in Seq(Ids)
    BY <1>4, <1>5 DEF PruneFrames
  <2>2. PICK d \in Seq(Ids) : d = (IF delete THEN Append(f.del, cur) ELSE f.del)
    BY <2>1
  <2>3. g = [f EXCEPT !.i = f.i + 1, !.del = d]
    BY <1>4, <1>6, <2>2 DEF PruneFrames
  <2>4. PICK j \in Nat \ {0} : j = f.i + 1
    BY <2>1
  <2>5. g = [f EXCEPT !.i = j, !.del = d]
    BY <2>3, <2>4
  <2>6. g \in PruneFrames /\ g.block = f.block /\ g.i = f.i + 1 /\ g.del = d /\ g.lift = f.lift
    BY <1>4, <2>4, <2>5 DEF PruneFrames
  <2>7. QED
    BY <2>2, <2>6 DEF Passed
<1>8. Chosen(g) /\ g \in PruneFrames /\ g.block = f.block
  BY <1>4, <1>5, <1>7, PassedChosen DEF Passed
<1>9. Calls(prune')
  <2>1. prune' = [prune EXCEPT ![Len(prune)] = g]
    BY <1>3, <1>6 DEF PruneLeaf, Become
  <2>2. f = Last(prune)
    BY <1>3 DEF This
  <2>3. QED
    BY <1>4, <1>8, <2>1, <2>2, CallsBecome
<1>10. QED
  BY <1>1, <1>4, <1>9, ProgStays

\* A block of the statement is pruned before it.
LEMMA PruneInsideSound ==
  ASSUME NEW A, Sound(A), PruneInside
  PROVE  Sound(A)'
<1>1. AtStatement /\ UNCHANGED <<genVars, phase, prog, todo>>
  BY DEF PruneInside
<1>2. Pruning
  BY <1>1 DEF AtStatement
<1>3. PICK f, cur, b : f = This /\ cur = Current /\ b = This.block
  OBVIOUS
<1>4. /\ phase # "generate" /\ stack = <<>> /\ ~prog.undefined
      /\ Calls(prune) /\ prune # <<>> /\ f \in PruneFrames /\ Chosen(f) /\ AllBlocks \subseteq Int
      /\ b = f.block /\ b \in AllBlocks /\ cur \in Ids /\ cur \in ToSet(prog.stms[b])
      /\ todo \in Seq(Ids) /\ \A s \in ToSet(todo) : s \in AllBlocks
  BY <1>1, <1>2, <1>3, AtFacts
<1>5. PICK g : g = [f EXCEPT !.within = @ + 1]
  OBVIOUS
<1>6. g \in PruneFrames /\ g.block = b /\ g.i = f.i /\ g.del = f.del /\ g.lift = f.lift
  <2>1. f.within \in Nat /\ f.within + 1 \in Nat
    BY <1>4 DEF PruneFrames
  <2>2. PICK w \in Nat : w = f.within + 1
    BY <2>1
  <2>3. g = [f EXCEPT !.within = w]
    BY <1>4, <1>5, <2>2 DEF PruneFrames
  <2>4. QED
    BY <1>4, <2>3 DEF PruneFrames
<1>7. Chosen(g)
  BY <1>4, <1>6 DEF Chosen
<1>8. PICK k : k = Blocks(cur)[f.within + 1]
  OBVIOUS
<1>9. k \in BlocksOf(cur)
  <2>1. Kind(cur) \in {"if", "for"} /\ f.within < Len(Blocks(cur)) /\ f.within \in Nat
    BY <1>3, <1>4 DEF PruneInside, Compound, PruneFrames
  <2>2. CASE Kind(cur) = "if"
    <3>1. Blocks(cur) = <<cur, -cur>> /\ BlocksOf(cur) = {cur, -cur}
      BY <2>2 DEF Blocks, BlocksOf, Section
    <3>2. f.within + 1 \in {1, 2}
      BY <2>1, <3>1
    <3>3. QED
      BY <1>8, <3>1, <3>2
  <2>3. CASE Kind(cur) = "for"
    <3>1. Blocks(cur) = <<cur>> /\ BlocksOf(cur) = {cur}
      BY <2>3 DEF Blocks, BlocksOf, Section
    <3>2. f.within + 1 = 1
      BY <2>1, <3>1
    <3>3. QED
      BY <1>8, <3>1, <3>2
  <2>4. QED
    BY <2>1, <2>2, <2>3
<1>10. k \in AllBlocks /\ Owner(b) < Owner(k)
  <2>1. Numbered /\ Proper(prog) /\ Rooted(prog) /\ b \in DOMAIN prog.stms
    BY <1>4, WholeProg DEF Sound, AllBlocks
  <2>2. QED
    BY <1>4, <1>9, <2>1, HeldFacts DEF AllBlocks
<1>11. Calls(prune')
  <2>1. PICK calls : calls = [prune EXCEPT ![Len(prune)] = g]
    OBVIOUS
  <2>2. f = Last(prune)
    BY <1>3 DEF This
  <2>3. Calls(calls)
    BY <1>4, <1>6, <1>7, <2>1, <2>2, CallsBecome
  <2>4. calls # <<>> /\ Last(calls).block = b
    <3>1. Len(calls) = Len(prune) /\ Len(prune) \in Nat \ {0} /\ calls[Len(prune)] = g
      BY <1>4, <2>1 DEF Calls
    <3>2. QED
      BY <1>6, <3>1 DEF Last
  <2>5. PICK h : h = PruneFrame(k)
    OBVIOUS
  <2>6. h \in PruneFrames /\ h.block = k /\ Chosen(h)
    BY <1>4, <1>10, <2>5, FirstFrame
  <2>7. prune' = Append(calls, h)
    BY <1>3, <1>5, <1>8, <2>1, <2>5 DEF PruneInside, Become
  <2>8. Owner(Last(calls).block) < Owner(h.block)
    BY <1>10, <2>4, <2>6
  <2>9. QED
    BY <1>4, <2>3, <2>4, <2>6, <2>7, <2>8, CallsLonger
<1>12. QED
  BY <1>1, <1>4, <1>11, ProgStays

\* Iterators into some blocks.
LEMMA LiveWhole ==
  ASSUME NEW A, NEW p, Shaped(p), WholeOf(node, p, {}, A), NEW X \in SUBSET Int,
         NEW q, q = [p EXCEPT !.live = X]
  PROVE  /\ Shaped(q) /\ WholeOf(node, q, {}, A) /\ q.live = X
         /\ q.stms = p.stms /\ q.edges = p.edges /\ q.undefined = p.undefined
<1>1. /\ q.stms = p.stms /\ q.deleted = p.deleted /\ q.parent = p.parent /\ q.edges = p.edges
      /\ q.blocks = p.blocks /\ q.live = X /\ q.undefined = p.undefined
      /\ q = [stms |-> q.stms, deleted |-> q.deleted, parent |-> q.parent, edges |-> q.edges,
              blocks |-> q.blocks, live |-> q.live, undefined |-> q.undefined]
  BY DEF Shaped
<1>2. Shaped(q)
  BY <1>1 DEF Shaped
<1>3. q \in ProgramsOf(DOMAIN node, DOMAIN q.stms)
  <2>1. /\ p.stms \in [DOMAIN p.stms -> Seq(DOMAIN node)] /\ p.deleted \in [DOMAIN p.stms -> Seq(DOMAIN node)]
        /\ p.parent \in [DOMAIN node -> DOMAIN p.stms] /\ p.edges \in SUBSET DOMAIN node
    BY DEF WholeOf, ProgramsOf
  <2>2. q.blocks \in SUBSET Int /\ q.live \in SUBSET Int /\ q.undefined \in BOOLEAN
    BY <1>2 DEF Shaped
  <2>3. QED
    BY <1>1, <2>1, <2>2 DEF ProgramsOf
<1>4. \A k : Placed(q, k) = Placed(p, k) /\ (Neat(q, k) <=> Neat(p, k))
  BY <1>1 DEF Placed, Neat
<1>5. WholeOf(node, q, {}, A)
  BY <1>1, <1>3, <1>4 DEF WholeOf
<1>6. QED
  BY <1>1, <1>2, <1>5

\* A compound statement is passed, and perhaps lifted at once.
LEMMA PruneCompoundSound ==
  ASSUME NEW A, Sound(A), NEW draw, PruneCompound(draw)
  PROVE  Sound(A)'
<1>1. AtStatement /\ UNCHANGED <<genVars, phase, todo>>
  BY DEF PruneCompound
<1>2. Pruning
  BY <1>1 DEF AtStatement
<1>3. PICK f, cur : f = This /\ cur = Current
  OBVIOUS
<1>4. /\ phase # "generate" /\ stack = <<>> /\ ~prog.undefined
      /\ Calls(prune) /\ prune # <<>> /\ f \in PruneFrames /\ Chosen(f) /\ f.block \in AllBlocks
      /\ todo \in Seq(Ids) /\ \A s \in ToSet(todo) : s \in AllBlocks
  BY <1>1, <1>2, <1>3, AtFacts
<1>5. /\ prog.stms[f.block] \in Seq(Ids) /\ IsInjective(prog.stms[f.block]) /\ cur \in ToSet(prog.stms[f.block])
      /\ f.i \in DOMAIN prog.stms[f.block] /\ cur \in Ids /\ cur = prog.stms[f.block][f.i]
      /\ Kind(cur) \in Compound
  BY <1>1, <1>2, <1>3, AtFacts DEF PruneCompound
<1>6. PICK g : g = [f EXCEPT !.i = @ + 1, !.within = 0,
                             !.del = IF draw = "delete" THEN Append(@, cur) ELSE @,
                             !.lift = IF draw = "lift" THEN Append(@, cur) ELSE @]
  OBVIOUS
<1>7. Passed(f, g, cur) /\ (draw = "lift" => g.lift = Append(f.lift, cur))
  <2>1. /\ f.i \in Nat /\ f.i + 1 \in Nat \ {0} /\ f.del \in Seq(Ids) /\ f.lift \in Seq(Ids)
        /\ Append(f.del, cur) \in Seq(Ids) /\ Append(f.lift, cur) \in Seq(Ids)
    BY <1>4, <1>5 DEF PruneFrames
  <2>2. PICK d \in Seq(Ids) : d = (IF draw = "delete" THEN Append(f.del, cur) ELSE f.del)
    BY <2>1
  <2>3. PICK l \in Seq(Ids) : l = (IF draw = "lift" THEN Append(f.lift, cur) ELSE f.lift)
    BY <2>1
  <2>4. PICK j \in Nat \ {0} : j = f.i + 1
    BY <2>1
  <2>5. g = [f EXCEPT !.i = j, !.within = 0, !.del = d, !.lift = l]
    BY <1>4, <1>6, <2>2, <2>3, <2>4 DEF PruneFrames
  <2>6. g \in PruneFrames /\ g.block = f.block /\ g.i = f.i + 1 /\ g.del = d /\ g.lift = l
    BY <1>4, <2>4, <2>5 DEF PruneFrames
  <2>7. ~(draw = "delete" /\ draw = "lift")
    OBVIOUS
  <2>8. \/ d = f.del /\ l = f.lift
        \/ d = Append(f.del, cur) /\ l = f.lift
        \/ d = f.del /\ l = Append(f.lift, cur)
    BY <2>2, <2>3, <2>7
  <2>9. QED
    BY <1>5, <2>3, <2>6, <2>8 DEF Passed
<1>8. Chosen(g) /\ g \in PruneFrames /\ g.block = f.block
  BY <1>4, <1>5, <1>7, PassedChosen DEF Passed
<1>9. prune' = [prune EXCEPT ![Len(prune)] = g]
  BY <1>3, <1>6 DEF PruneCompound, Become
<1>10. prog' = IF phase = "tg" /\ draw = "lift" THEN Applied([prog EXCEPT !.live = Held(Len(prune))], g) ELSE prog
  BY <1>3, <1>6 DEF PruneCompound
<1>11. CASE ~(phase = "tg" /\ draw = "lift")
  <2>1. prog' = prog
    BY <1>10, <1>11
  <2>2. f = Last(prune)
    BY <1>3 DEF This
  <2>3. Calls(prune')
    BY <1>4, <1>8, <1>9, <2>2, CallsBecome
  <2>4. QED
    BY <1>1, <1>4, <2>1, <2>3, ProgStays
<1>12. CASE phase = "tg" /\ draw = "lift"
  <2>1. Shaped(prog) /\ WholeOf(node, prog, {}, A)
    BY <1>4, BuiltFacts
  <2>2. PICK X : X = Held(Len(prune))
    OBVIOUS
  <2>3. X \in SUBSET Int /\ f.block \in X
    <3>1. PICK n \in Nat \ {0} : n = Len(prune) /\ prune[n] = f
      BY <1>3, <1>4 DEF Calls, This, Last
    <3>2. \A i \in 1 .. n : prune[i].block \in Int
      <4>1. \A i \in 1 .. n : prune[i] \in PruneFrames
        BY <1>4, <3>1 DEF Calls
      <4>2. QED
        BY <4>1 DEF PruneFrames
    <3>3. n \in 1 .. n
      OBVIOUS
    <3>4. QED
      BY <2>2, <3>1, <3>2, <3>3 DEF Held
  <2>4. PICK p : p = [prog EXCEPT !.live = X]
    OBVIOUS
  <2>5. /\ Shaped(p) /\ WholeOf(node, p, {}, A) /\ p.live = X
        /\ p.stms = prog.stms /\ p.edges = prog.edges /\ p.undefined = prog.undefined
    BY <2>1, <2>3, <2>4, LiveWhole
  <2>6. Numbered /\ Whole(p, {}, A)
    BY <2>5, WholeIsWholeOf DEF Sound
  <2>7. /\ g.block \in DOMAIN p.stms /\ g.del \in Seq(Ids) /\ g.lift \in Seq(Ids)
        /\ ToSet(g.lift) \subseteq ToSet(p.stms[g.block]) \ ToSet(g.del)
        /\ \A x \in ToSet(g.lift) : Kind(x) \in Compound
    <3>1. g.block \in DOMAIN p.stms /\ g.del \in Seq(Ids) /\ g.lift \in Seq(Ids)
      BY <1>4, <1>8, <2>5 DEF PruneFrames, AllBlocks
    <3>2. \A x \in ToSet(g.lift) : Kind(x) \in Compound /\ x \notin ToSet(g.del)
      BY <1>8 DEF Chosen
    <3>3. \A x \in ToSet(g.lift) : x \in ToSet(p.stms[g.block])
      <4>1. \A x \in ToSet(g.lift) : \E j \in DOMAIN prog.stms[g.block] : prog.stms[g.block][j] = x
        BY <1>8 DEF Chosen
      <4>2. QED
        BY <2>5, <4>1 DEF ToSet
    <3>4. QED
      BY <3>1, <3>2, <3>3
  <2>8. g.lift # <<>> /\ g.block \in p.live
    <3>1. f.lift \in Seq(Ids)
      BY <1>4 DEF PruneFrames
    <3>2. g.lift = Append(f.lift, cur)
      BY <1>7, <1>12
    <3>3. g.lift # <<>>
      BY <1>5, <3>1, <3>2, AppendProperties, EmptySeq
    <3>4. QED
      BY <1>8, <2>3, <2>5, <3>3
  <2>9. PICK q : q = Applied(p, g)
    OBVIOUS
  <2>10. q \in Pruned(p, g.block, {}, A) /\ q.undefined
    BY <2>6, <2>7, <2>8, <2>9, AppliedPrunes
  <2>11. Whole(q, {}, A) /\ DOMAIN q.stms = DOMAIN p.stms /\ q.edges \subseteq p.edges
    BY <2>10 DEF Pruned, Programs
  <2>12. WholeOf(node, q, {}, A)
    BY <2>11, WholeIsWholeOf
  <2>13. prog' = q
    BY <1>10, <1>12, <2>2, <2>4, <2>9
  <2>14. Callers'
    BY <2>10, <2>13 DEF Callers
  <2>15. QED
    BY <1>1, <1>4, <1>12, <2>5, <2>11, <2>12, <2>13, <2>14, BuiltStep
<1>13. QED
  BY <1>11, <1>12

\* A block has been pruned.
LEMMA PruneEndSound ==
  ASSUME NEW A, Sound(A), PruneEnd
  PROVE  Sound(A)'
<1>1. Pruning /\ UNCHANGED <<genVars, phase, todo>>
  BY DEF PruneEnd
<1>2. PICK f, b : f = This /\ b = f.block
  OBVIOUS
<1>3. /\ phase # "generate" /\ stack = <<>> /\ ~prog.undefined
      /\ Calls(prune) /\ prune # <<>> /\ f \in PruneFrames /\ Chosen(f) /\ b \in AllBlocks /\ AllBlocks \subseteq Int
      /\ todo \in Seq(Ids) /\ \A s \in ToSet(todo) : s \in AllBlocks
  BY <1>1, <1>2, AtFacts
<1>4. PICK n \in Nat \ {0} : n = Len(prune) /\ prune[n] = f
  BY <1>2, <1>3 DEF Calls, This, Last
<1>5. PICK X : X = Held(n - 1)
  OBVIOUS
<1>6. \A i \in 1 .. n - 1 : i \in 1 .. n /\ i < n
  BY <1>4
<1>7. X \in SUBSET Int /\ \A k \in X : Owner(k) < Owner(b)
  <2>1. \A i \in 1 .. n : prune[i] \in PruneFrames
    BY <1>3, <1>4 DEF Calls
  <2>2. \A i \in 1 .. n : prune[i].block \in Int
    BY <2>1 DEF PruneFrames
  <2>3. n \in 1 .. n /\ Owner(prune[n].block) = Owner(b)
    BY <1>2, <1>4
  <2>4. \A i \in 1 .. n - 1 : Owner(prune[i].block) < Owner(b)
    BY <1>3, <1>4, <1>6, <2>3 DEF Calls
  <2>5. QED
    BY <1>5, <1>6, <2>2, <2>4 DEF Held
<1>8. Shaped(prog) /\ WholeOf(node, prog, {}, A)
  BY <1>3, BuiltFacts
<1>9. PICK p : p = [prog EXCEPT !.live = X]
  OBVIOUS
<1>10. /\ Shaped(p) /\ WholeOf(node, p, {}, A) /\ p.live = X
       /\ p.stms = prog.stms /\ p.edges = prog.edges /\ p.undefined = prog.undefined
  BY <1>7, <1>8, <1>9, LiveWhole
\* What is left of it, and what the callers see.
<1>11. PICK q : q = EndBlock(f)
  OBVIOUS
<1>12. /\ Shaped(q) /\ WholeOf(node, q, {}, A) /\ DOMAIN q.stms = AllBlocks /\ q.edges \subseteq prog.edges
       /\ q.undefined \/ \A k \in X \intersect AllBlocks : q.stms[k] = prog.stms[k]
       /\ prog.edges = {} => ~q.undefined
  <2>1. CASE phase # "emi"
    <3>1. q = prog
      BY <1>11, <2>1 DEF EndBlock
    <3>2. QED
      BY <1>3, <1>8, <3>1 DEF AllBlocks
  <2>2. CASE phase = "emi"
    <3>1. q = Applied(p, f)
      BY <1>4, <1>5, <1>9, <1>11, <2>2 DEF EndBlock
    <3>2. Numbered /\ Whole(p, {}, A)
      BY <1>10, WholeIsWholeOf DEF Sound
    <3>3. /\ f.block \in DOMAIN p.stms /\ f.del \in Seq(Ids) /\ f.lift \in Seq(Ids)
          /\ ToSet(f.lift) \subseteq ToSet(p.stms[f.block]) \ ToSet(f.del)
          /\ \A x \in ToSet(f.lift) : Kind(x) \in Compound
      <4>1. f.block \in DOMAIN p.stms /\ f.del \in Seq(Ids) /\ f.lift \in Seq(Ids)
        BY <1>2, <1>3, <1>10 DEF PruneFrames, AllBlocks
      <4>2. \A x \in ToSet(f.lift) : Kind(x) \in Compound /\ x \notin ToSet(f.del)
        BY <1>3 DEF Chosen
      <4>3. \A x \in ToSet(f.lift) : x \in ToSet(p.stms[f.block])
        <5>1. \A x \in ToSet(f.lift) : \E j \in DOMAIN prog.stms[f.block] : prog.stms[f.block][j] = x
          BY <1>3 DEF Chosen
        <5>2. QED
          BY <1>10, <5>1 DEF ToSet
      <4>4. QED
        BY <4>1, <4>2, <4>3
    <3>4. q \in Pruned(p, b, {}, A)
      BY <1>2, <3>1, <3>2, <3>3, AppliedPrunes
    <3>5. /\ Whole(q, {}, A) /\ q \in Programs(DOMAIN p.stms) /\ DOMAIN q.stms = DOMAIN p.stms
          /\ q.edges \subseteq p.edges
          /\ q.undefined \/ \A k \in p.live \intersect DOMAIN p.stms : Owner(k) < Owner(b) => q.stms[k] = p.stms[k]
          /\ Clear(p, b) => ~q.undefined
      BY <3>4 DEF Pruned, Programs
    <3>6. Shaped(q) /\ WholeOf(node, q, {}, A)
      BY <3>5, WholeIsWholeOf, ProgramsShaped
    <3>7. prog.edges = {} => Clear(p, b)
      BY <1>3, <1>7, <1>10 DEF Clear
    <3>8. QED
      BY <1>7, <1>10, <3>5, <3>6, <3>7 DEF AllBlocks
  <2>3. QED
    BY <2>1, <2>2
<1>13. PICK r : r = [q EXCEPT !.live = {}]
  OBVIOUS
<1>14. WholeOf(node, r, {}, A) /\ r.stms = q.stms /\ r.edges = q.edges /\ r.undefined = q.undefined
  <2>1. {} \in SUBSET Int
    OBVIOUS
  <2>2. QED
    BY <1>12, <1>13, <2>1, LiveWhole
<1>15. prog' = r /\ prune' = Front(prune)
  BY <1>2, <1>11, <1>13 DEF PruneEnd
<1>16. Callers'
  <2>1. SUFFICES ASSUME ~prog'.undefined PROVE Calls(prune)'
    BY DEF Callers
  <2>2. PICK calls : calls = Front(prune)
    OBVIOUS
  <2>3. calls \in Seq(PruneFrames) /\ Len(calls) = n - 1 /\ \A i \in 1 .. n - 1 : calls[i] = prune[i]
    BY <1>3, <1>4, <2>2 DEF Front, Calls
  <2>4. node' = node /\ Ids' = Ids
    BY <1>1 DEF genVars, Ids
  <2>5. AllBlocks' = AllBlocks
    BY <1>12, <1>14, <1>15 DEF AllBlocks
  <2>6. \A i \in 1 .. n - 1 : Chosen(prune[i]) /\ prune[i].block \in X /\ prune[i].block \in AllBlocks
    <3>1. \A i \in 1 .. n - 1 : Chosen(prune[i])
      BY <1>3, <1>4, <1>6 DEF Calls
    <3>2. \A i \in 1 .. n - 1 : prune[i].block \in AllBlocks
      BY <3>1 DEF Chosen
    <3>3. QED
      BY <1>5, <3>1, <3>2 DEF Held
  <2>7. \A k \in X \intersect AllBlocks : prog'.stms[k] = prog.stms[k]
    BY <1>12, <1>14, <1>15, <2>1
  <2>8. ASSUME NEW g, Chosen(g), g.block \in X, g.block \in AllBlocks
        PROVE  Chosen(g)'
    BY <2>4, <2>5, <2>7, <2>8 DEF Chosen, Kind
  <2>9. \A i \in 1 .. n - 1 : Chosen(calls[i])'
    <3>1. SUFFICES ASSUME NEW i \in 1 .. n - 1 PROVE Chosen(calls[i])'
      OBVIOUS
    <3>2. PICK g : g = calls[i]
      OBVIOUS
    <3>3. Chosen(g) /\ g.block \in X /\ g.block \in AllBlocks
      BY <2>3, <2>6, <3>2
    <3>4. Chosen(g)'
      BY <2>8, <3>3
    <3>5. QED
      BY <3>2, <3>4 DEF Chosen
  <2>10. \A i, j \in 1 .. n - 1 : i < j => Owner(calls[i].block) < Owner(calls[j].block)
    BY <1>3, <1>4, <1>6, <2>3 DEF Calls
  <2>11. Calls(calls)'
    BY <2>3, <2>4, <2>9, <2>10 DEF Calls, PruneFrames
  <2>12. prune' = calls
    BY <1>15, <2>2
  <2>13. QED
    BY <2>11, <2>12 DEF Calls
<1>17. "goto" \notin options => ~prog'.undefined
  <2>1. "goto" \notin options => prog.edges = {}
    BY DEF Sound, Phased
  <2>2. QED
    BY <1>12, <1>14, <1>15, <2>1
<1>18. DOMAIN prog'.stms = DOMAIN prog.stms /\ prog'.edges \subseteq prog.edges /\ WholeOf(node, prog', {}, A)
  BY <1>12, <1>14, <1>15 DEF AllBlocks
<1>19. QED
  BY <1>1, <1>3, <1>16, <1>17, <1>18, BuiltStep

\* A step of the pruning.
LEMMA PruneSound ==
  ASSUME NEW A, Sound(A), Prune
  PROVE  Sound(A)'
BY PruneSectionSound, PruneLeafSound, PruneInsideSound, PruneCompoundSound, PruneEndSound DEF Prune

\* A step that changes nothing.
LEMMA StutterSound ==
  ASSUME NEW A, Sound(A), UNCHANGED phaseVars
  PROVE  Sound(A)'
<1>1. /\ options' = options /\ phase' = phase /\ node' = node /\ prog' = prog /\ stack' = stack
      /\ sections' = sections /\ todo' = todo /\ prune' = prune
  BY DEF phaseVars, genVars, pruneVars
<1>2. Underway' = Underway /\ Numbered' /\ BlocksAreNumbered'
  BY <1>1 DEF Sound, Underway, Numbered, BlocksAreNumbered, AllBlocks, Ids
<1>3. Pile'
  BY <1>1 DEF Sound, Pile, Holds, AllBlocks, Ids, Kind
<1>4. Enclosed(A)'
  BY <1>1, <1>2 DEF Sound, Enclosed, AllBlocks, Ids, Kind
<1>5. Callers'
  BY <1>1 DEF Sound, Callers, Calls, Chosen, PruneFrames, AllBlocks, Ids, Kind
<1>6. Phased'
  BY <1>1 DEF Sound, Phased, AllBlocks, Ids
<1>7. QED
  BY <1>1, <1>2, <1>3, <1>4, <1>5, <1>6 DEF Sound

-----------------------------------------------------------------------------
(* What follows for every program.                                         *)

\* The inductive invariant: every statement has its place in some block, atomic
\* blocks and all in them are closed, blocks are filled and pruned from the
\* outside in.
THEOREM ProgramInvHolds == PhaseSpec => []ProgramInv
<1>1. PhaseInit => ProgramInv
  BY SoundInit
<1>2. ProgramInv /\ [PhaseNext]_phaseVars => ProgramInv'
  <2>1. SUFFICES ASSUME ProgramInv, [PhaseNext]_phaseVars PROVE ProgramInv'
    OBVIOUS
  <2>2. PICK A : Sound(A)
    BY <2>1 DEF ProgramInv
  <2>3. CASE Generate /\ UNCHANGED pruneVars
    BY <2>2, <2>3, GenerateSound
  <2>4. CASE \E step \in Section : StartSections(step)
    <3>1. PICK step \in Section : StartSections(step)
      BY <2>4
    <3>2. step # "generate"
      BY DEF Section
    <3>3. Sound(A)'
      BY <2>2, <3>1, <3>2, PhaseSound
    <3>4. QED
      BY <3>3 DEF ProgramInv
  <2>5. CASE \E step \in {"diverged", "done"} : OtherStep(step)
    <3>1. PICK step \in {"diverged", "done"} : OtherStep(step)
      BY <2>5
    <3>2. step # "generate"
      OBVIOUS
    <3>3. Sound(A)'
      BY <2>2, <3>1, <3>2, PhaseSound
    <3>4. QED
      BY <3>3 DEF ProgramInv
  <2>6. CASE Prune
    <3>1. Sound(A)'
      BY <2>2, <2>6, PruneSound
    <3>2. QED
      BY <3>1 DEF ProgramInv
  <2>7. CASE UNCHANGED phaseVars
    <3>1. Sound(A)'
      BY <2>2, <2>7, StutterSound
    <3>2. QED
      BY <3>1 DEF ProgramInv
  <2>8. QED
    BY <2>1, <2>3, <2>4, <2>5, <2>6, <2>7 DEF PhaseNext
<1>3. QED
  BY <1>1, <1>2, PTL DEF PhaseSpec

\* No statement is lost or there twice (OneOwner): moving and deleting statements,
\* in Block::remove_stmt and MergeBlock, keeps all of them where they know they are.
THEOREM EveryStatementHasOnePlace == PhaseSpec => []OneOwner
<1>1. ProgramInv => OneOwner
  <2>1. SUFFICES ASSUME NEW A, Sound(A) PROVE OneOwner
    BY DEF ProgramInv
  <2>2. Whole(prog, Underway, A) /\ prog \in Programs(AllBlocks)
    BY <2>1, WholeProg
  <2>3. ASSUME NEW k \in AllBlocks
        PROVE  /\ IsInjective(prog.stms[k] \o prog.deleted[k])
               /\ ToSet(prog.stms[k] \o prog.deleted[k]) = Placed(prog, k)
    <3>1. PICK q, r : q = prog.stms[k] /\ r = prog.deleted[k]
      OBVIOUS
    <3>2. /\ q \in Seq(Ids) /\ r \in Seq(Ids) /\ IsInjective(q) /\ IsInjective(r)
          /\ ToSet(q) \intersect ToSet(r) = {} /\ Placed(prog, k) = ToSet(q) \union ToSet(r)
      BY <2>2, <3>1 DEF Programs, Whole, Proper, Neat, Placed, AllBlocks
    <3>3. QED
      BY <3>1, <3>2, ConcatFacts
  <2>4. ASSUME Built, NEW s \in Ids
        PROVE  Places(s) = {prog.parent[s]}
    <3>1. Underway = {}
      BY <2>1, <2>4, BuiltFacts DEF Built
    <3>2. s \in Placed(prog, prog.parent[s]) /\ prog.parent[s] \in AllBlocks
      BY <2>2, <3>1 DEF Whole, Programs
    <3>3. \A k \in AllBlocks : s \in Placed(prog, k) => k = prog.parent[s]
      BY <2>2 DEF Whole, Rooted, AllBlocks
    <3>4. QED
      BY <2>3, <3>2, <3>3 DEF Places, AllBlocks
  <2>5. QED
    BY <2>3, <2>4 DEF OneOwner, AllBlocks
<1>2. QED
  BY <1>1, ProgramInvHolds, PTL

\* No barrier is in an atomic block, and nothing leaves it early
\* (AtomicBlocksAreClosed), whatever message nodes there are in it: what is drawn,
\* moved and deleted keeps to the context that StatementFilter and
\* CUDAStatement::make_random look at.
THEOREM AtomicBlocksStayClosed == PhaseSpec => []AtomicBlocksAreClosed
<1>1. ProgramInv => AtomicBlocksAreClosed
  <2>1. SUFFICES ASSUME NEW A, Sound(A), NEW s \in Ids, node[s].atomic
                 PROVE  /\ \A x \in RunIn(s) : Kind(x) # "sync"
                        /\ \A x \in PrintedIn(prog, s) : Kind(x) \notin Jump \union {"return"}
    BY DEF ProgramInv, AtomicBlocksAreClosed
  <2>2. Whole(prog, Underway, A) /\ prog \in Programs(AllBlocks) /\ Numbered /\ Enclosed(A)
    BY <2>1, WholeProg DEF Sound
  <2>3. PICK B : B = A \intersect AllBlocks
    OBVIOUS
  <2>4. s \in B
    BY <2>1, <2>2, <2>3 DEF Enclosed
  <2>5. \A k \in B : \A x \in ToSet(prog.stms[k]) : x \in Ids /\ Kind(x) \notin Barred /\ BlocksOf(x) \subseteq B
    <3>1. SUFFICES ASSUME NEW k \in B, NEW x \in ToSet(prog.stms[k])
                   PROVE  x \in Ids /\ Kind(x) \notin Barred /\ BlocksOf(x) \subseteq B
      OBVIOUS
    <3>2. k \in A /\ k \in DOMAIN prog.stms /\ prog.stms[k] \in Seq(Ids)
      BY <2>2, <2>3 DEF AllBlocks, Programs
    <3>3. Kind(x) \notin Barred /\ BlocksOf(x) \subseteq A
      BY <2>2, <3>1, <3>2 DEF Whole, Closed
    <3>4. BlocksOf(x) \subseteq AllBlocks
      BY <2>2, <3>1, <3>2 DEF Whole, Rooted, AllBlocks
    <3>5. x \in Ids
      BY <3>1, <3>2 DEF ToSet
    <3>6. QED
      BY <2>3, <3>3, <3>4, <3>5
  <2>6. ASSUME NEW of, \A x \in Ids : Kind(x) # "call" => of[x] \subseteq BlocksOf(x),
               NEW x \in StmsIn(prog, Below(prog, s, of))
        PROVE  Kind(x) \notin Barred
    <3>1. \A k \in B : \A y \in ToSet(prog.stms[k]) : of[y] \subseteq B
      BY <2>5, <2>6 DEF Barred
    <3>2. Below(prog, s, of) \subseteq B
      BY <2>2, <2>4, <3>1, BelowStays
    <3>3. PICK k \in B : x \in ToSet(prog.stms[k])
      BY <2>6, <3>2 DEF StmsIn
    <3>4. QED
      BY <2>5, <3>3
  <2>7. \A x \in RunIn(s) : Kind(x) \notin Barred
    <3>1. PICK of : of = [x \in Ids |-> IF Kind(x) = "call" THEN {x} ELSE BlocksOf(x)]
      OBVIOUS
    <3>2. \A x \in Ids : Kind(x) # "call" => of[x] \subseteq BlocksOf(x)
      BY <3>1
    <3>3. RunIn(s) = StmsIn(prog, Below(prog, s, of))
      BY <3>1 DEF RunIn
    <3>4. QED
      BY <2>6, <3>2, <3>3
  <2>8. \A x \in PrintedIn(prog, s) : Kind(x) \notin Barred
    <3>1. PICK of : of = [x \in Ids |-> IF Kind(x) = "tg" THEN {} ELSE BlocksOf(x)]
      OBVIOUS
    <3>2. \A x \in Ids : Kind(x) # "call" => of[x] \subseteq BlocksOf(x)
      BY <3>1
    <3>3. PrintedIn(prog, s) = StmsIn(prog, Below(prog, s, of))
      BY <3>1 DEF PrintedIn
    <3>4. QED
      BY <2>6, <3>2, <3>3
  <2>9. QED
    BY <2>7, <2>8 DEF Barred
<1>2. QED
  BY <1>1, ProgramInvHolds, PTL

\* Vectors are changed under the loops that walk them only where a true-guard
\* section lifts, or where gotos go with their labels (IteratorsBreakOnlyThere).
THEOREM IteratorsStayValid == PhaseSpec => []IteratorsBreakOnlyThere
<1>1. ProgramInv => IteratorsBreakOnlyThere
  BY DEF ProgramInv, Sound, Phased, IteratorsBreakOnlyThere, NoGotos
<1>2. QED
  BY <1>1, ProgramInvHolds, PTL

=============================================================================
