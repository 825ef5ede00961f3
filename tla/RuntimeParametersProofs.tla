----------------------- MODULE RuntimeParametersProofs -----------------------
(***************************************************************************)
(* Theorems about the dimensions of the grid and the identifiers of its    *)
(* threads, for every value of the three limits: those of the code (10000, *)
(* 100 and 256) are out of TLC's reach.                                    *)
(***************************************************************************)
EXTENDS RuntimeParameters, FiniteSetTheorems, FunctionTheorems, TLAPS

-----------------------------------------------------------------------------
(* Arithmetic.                                                             *)

\* C++'s integer division, for the positive numbers divided here.
LEMMA Quotient ==
  ASSUME NEW a \in Nat \ {0}, NEW b \in Nat
  PROVE  /\ b \div a \in Nat /\ b % a \in Nat
         /\ b = (a * (b \div a)) + (b % a)
BY SMT

\* What the limit on the threads left is for: n times as many still fit.
LEMMA QuotientFits ==
  ASSUME NEW a \in Nat \ {0}, NEW b \in Nat, NEW n \in Nat, n <= b \div a
  PROVE  a * n <= b
<1>1. a * n <= a * (b \div a)
  BY Quotient, SMT
<1>2. a * (b \div a) <= b
  BY Quotient, SMT
<1>3. QED
  BY <1>1, <1>2, Quotient, SMT

\* An exact quotient is the other factor.
LEMMA ExactQuotient ==
  ASSUME NEW a \in Nat \ {0}, NEW q \in Nat
  PROVE  (a * q) \div a = q
BY SMT

\* get_divisors returns divisors only.
LEMMA DivisorsDivide ==
  ASSUME NEW val \in Nat \ {0}, NEW n \in GetDivisors(val)
  PROVE  n \in 1 .. val /\ \E q \in Nat \ {0} : val = n * q
<1>1. CASE n \in {1, val}
  BY <1>1, SMT
<1>2. CASE \E d \in 2 .. val : val % d = 0 /\ n \in {d, val \div d}
  <2>1. PICK d \in 2 .. val : val % d = 0 /\ n \in {d, val \div d}
    BY <1>2
  <2>2. val = d * (val \div d) /\ val \div d \in Nat
    BY <2>1, Quotient, SMT
  <2>3. val \div d # 0
    BY <2>2, SMT
  <2>4. val \div d <= val /\ val = (val \div d) * d
    BY <2>1, <2>2, <2>3, SMT
  <2>5. QED
    BY <2>1, <2>2, <2>3, <2>4
<1>3. CASE \E d \in 2 .. val : d * d = val /\ n = d
  BY <1>3, SMT
<1>4. QED
  BY <1>1, <1>2, <1>3 DEF GetDivisors

-----------------------------------------------------------------------------
(* The grid stays within its limits.                                       *)

\* The loops have gone past local dimension d.
LocalDrawn(d) == loop \in {"groups", "done"} \/ (loop = "local" /\ d < i)
Divides(d) == \E q \in Nat \ {0} : globalDim[d] = localDim[d] * q

\* The dimensions still to be drawn are 1, so that the threads counted so far
\* are the product of all three; and a local dimension, once drawn, divides
\* the global one, so that no number of groups is 0.
GridInv ==
  /\ TypeOK
  /\ ThreadsWithinLimit
  /\ loop = "global" => \A d \in Dim : d >= i => globalDim[d] = 1
  /\ \A d \in Dim : LocalDrawn(d) => Divides(d)

\* No dimension is drawn at first.
LEMMA GridInit == Init => GridInv
BY MaxThreadsAssumption, MaxPerDimAssumption
   DEF Init, GridInv, TypeOK, ThreadsWithinLimit, Product, Dim, LocalDrawn

\* A global dimension is drawn within what the limit leaves.
LEMMA GlobalStep == GridInv /\ DrawGlobalDim => GridInv'
<1> SUFFICES ASSUME GridInv, DrawGlobalDim
             PROVE  GridInv'
  OBVIOUS
<1> DEFINE limit == MaxThreads \div noThreads
<1>1. noThreads \in Nat \ {0} /\ limit \in Nat
  BY Quotient, MaxThreadsAssumption DEF GridInv, TypeOK
<1> HIDE DEF limit
<1>2. PICK n \in Choices(limit) : /\ globalDim' = [globalDim EXCEPT ![i] = n]
                                  /\ noThreads' = noThreads * n
  BY DEF DrawGlobalDim, limit
<1>3. n \in 1 .. MaxThreadsPerDim /\ n <= limit
  BY <1>1, MaxPerDimAssumption DEF Choices, Smaller
<1>4. noThreads' <= MaxThreads
  BY <1>1, <1>2, <1>3, QuotientFits, MaxThreadsAssumption, MaxPerDimAssumption DEF limit
<1>5. noThreads' \in Nat \ {0}
  <2>1. n \in Nat \ {0}
    BY <1>3, MaxPerDimAssumption
  <2>2. QED
    BY <1>1, <1>2, <2>1
<1>6. i \in Dim /\ globalDim[i] = 1 /\ globalDim \in [Dim -> 1 .. MaxThreadsPerDim]
  BY DEF GridInv, TypeOK, DrawGlobalDim, Dim
<1>7. noThreads' = Product(globalDim')
  <2>1. /\ globalDim[1] \in Nat /\ globalDim[2] \in Nat /\ globalDim[3] \in Nat
        /\ n \in Nat /\ noThreads = globalDim[1] * globalDim[2] * globalDim[3]
    BY <1>3, <1>6, MaxPerDimAssumption DEF GridInv, ThreadsWithinLimit, Product, Dim
  <2>2. CASE i = 1
    BY <1>2, <1>6, <2>1, <2>2 DEF Product, Dim
  <2>3. CASE i = 2
    BY <1>2, <1>6, <2>1, <2>3 DEF Product, Dim
  <2>4. CASE i = 3
    BY <1>2, <1>6, <2>1, <2>4 DEF Product, Dim
  <2>5. QED
    BY <1>6, <2>2, <2>3, <2>4 DEF Dim
<1>8. TypeOK'
  BY <1>2, <1>3, <1>5 DEF GridInv, TypeOK, DrawGlobalDim, Dim
<1>9. (loop = "global" => \A d \in Dim : d >= i => globalDim[d] = 1)'
  BY <1>2, <1>6 DEF GridInv, DrawGlobalDim, Dim
<1>10. \A d \in Dim : ~ LocalDrawn(d)'
  BY DEF DrawGlobalDim, LocalDrawn, Dim
<1>11. QED
  BY <1>4, <1>7, <1>8, <1>9, <1>10 DEF GridInv, ThreadsWithinLimit

\* Every step keeps the dimensions within the limits, local ones dividing global ones.
LEMMA GridNext == GridInv /\ [Next]_vars => GridInv'
<1> SUFFICES ASSUME GridInv, [Next]_vars
             PROVE  GridInv'
  OBVIOUS
<1>1. CASE DrawGlobalDim
  BY <1>1, GlobalStep
<1>2. CASE DrawLocalDim
  <2>1. i \in Dim /\ globalDim[i] \in Nat \ {0} /\ globalDim[i] <= MaxThreadsPerDim
    BY <1>2, MaxPerDimAssumption DEF DrawLocalDim, GridInv, TypeOK
  <2>2. PICK n \in GetDivisors(globalDim[i]) : /\ localDim' = [localDim EXCEPT ![i] = n]
                                               /\ curr' = curr * n
    BY <1>2 DEF DrawLocalDim
  <2>3. n \in 1 .. globalDim[i] /\ \E q \in Nat \ {0} : globalDim[i] = n * q
    BY <2>1, DivisorsDivide
  <2>4. n \in 1 .. MaxThreadsPerDim /\ n \in Nat \ {0}
    BY <2>1, <2>3, MaxPerDimAssumption
  <2>5. curr' \in Nat \ {0}
    BY <2>2, <2>4 DEF GridInv, TypeOK
  <2>6. TypeOK' /\ ThreadsWithinLimit'
    BY <1>2, <2>1, <2>2, <2>4, <2>5
       DEF DrawLocalDim, GridInv, TypeOK, ThreadsWithinLimit, Dim
  <2>7. ASSUME NEW d \in Dim, LocalDrawn(d)'
        PROVE  Divides(d)'
    <3>1. globalDim' = globalDim /\ loop = "local" /\ i' = i + 1 /\ loop' = loop
      BY <1>2 DEF DrawLocalDim
    <3>2. CASE d = i
      <4>1. localDim'[d] = n
        BY <2>1, <2>2, <3>2 DEF GridInv, TypeOK
      <4>2. QED
        BY <2>3, <3>1, <3>2, <4>1 DEF Divides
    <3>3. CASE d # i
      <4>1. localDim'[d] = localDim[d]
        BY <2>2, <3>3 DEF GridInv, TypeOK
      <4>2. LocalDrawn(d)
        BY <2>7, <2>1, <3>1, <3>3 DEF LocalDrawn, Dim
      <4>3. QED
        BY <3>1, <4>1, <4>2 DEF GridInv, Divides
    <3>4. QED
      BY <3>2, <3>3
  <2>8. QED
    BY <1>2, <2>6, <2>7 DEF DrawLocalDim, GridInv
<1>3. CASE RetryLocalDims
  <2>1. TypeOK' /\ ThreadsWithinLimit'
    BY <1>3 DEF RetryLocalDims, GridInv, TypeOK, ThreadsWithinLimit
  <2>2. \A d \in Dim : ~ LocalDrawn(d)'
    BY <1>3 DEF RetryLocalDims, LocalDrawn, Dim
  <2>3. QED
    BY <1>3, <2>1, <2>2 DEF RetryLocalDims, GridInv
<1>4. CASE AcceptLocalDims
  <2>1. TypeOK' /\ ThreadsWithinLimit'
    BY <1>4 DEF AcceptLocalDims, GridInv, TypeOK, ThreadsWithinLimit, Dim
  <2>2. \A d \in Dim : LocalDrawn(d)
    BY <1>4 DEF AcceptLocalDims, LocalDrawn, Dim
  <2>3. QED
    BY <1>4, <2>1, <2>2 DEF AcceptLocalDims, GridInv, Divides
<1>5. CASE CountGroups
  <2>1. i \in Dim /\ loop = "groups"
    BY <1>5 DEF CountGroups, GridInv, TypeOK
  <2>2. globalDim[i] \div localDim[i] \in Nat \ {0}
    <3>1. localDim[i] \in Nat \ {0}
      BY <2>1, MaxPerDimAssumption DEF GridInv, TypeOK
    <3>2. PICK q \in Nat \ {0} : globalDim[i] = localDim[i] * q
      BY <2>1 DEF GridInv, LocalDrawn, Divides
    <3>3. QED
      BY <3>1, <3>2, ExactQuotient
  <2>3. noGroups' \in Nat \ {0}
    <3>1. noGroups \in Nat \ {0}
      BY DEF GridInv, TypeOK
    <3>2. noGroups' = noGroups * (globalDim[i] \div localDim[i])
      BY <1>5 DEF CountGroups
    <3> DEFINE quotient == globalDim[i] \div localDim[i]
    <3>3. quotient \in Nat \ {0}
      BY <2>2
    <3> HIDE DEF quotient
    <3>4. noGroups' = noGroups * quotient
      BY <3>2 DEF quotient
    <3>5. QED
      BY <3>1, <3>3, <3>4
  <2>4. TypeOK' /\ ThreadsWithinLimit'
    BY <1>5, <2>1, <2>3 DEF CountGroups, GridInv, TypeOK, ThreadsWithinLimit, Dim
  <2>5. \A d \in Dim : LocalDrawn(d)
    BY <2>1 DEF LocalDrawn
  <2>6. loop' # "global"
    BY <1>5, <2>1 DEF CountGroups
  <2>7. globalDim' = globalDim /\ localDim' = localDim
    BY <1>5 DEF CountGroups
  <2>8. QED
    BY <2>4, <2>5, <2>6, <2>7 DEF GridInv, Divides
<1>6. CASE UNCHANGED vars
  BY <1>6 DEF vars, GridInv, TypeOK, ThreadsWithinLimit, LocalDrawn, Divides
<1>7. QED
  BY <1>1, <1>2, <1>3, <1>4, <1>5, <1>6 DEF Next, Done

\* The parameters stay within their types: no dimension and no count is ever 0.
THEOREM TypeCorrect == Spec => []TypeOK
<1>1. GridInv => TypeOK
  BY DEF GridInv
<1>2. QED
  BY <1>1, GridInit, GridNext, PTL DEF Spec

\* Whatever the dice, a grid has at most max_threads threads.
THEOREM GridWithinLimit == Spec => []ThreadsWithinLimit
<1>1. GridInv => ThreadsWithinLimit
  BY DEF GridInv
<1>2. QED
  BY <1>1, GridInit, GridNext, PTL DEF Spec

-----------------------------------------------------------------------------
(* The groups tile the grid.                                               *)

\* What the two counts have been multiplied by so far, one factor a dimension.
LocalFactor(d) == IF LocalDrawn(d) THEN localDim[d] ELSE 1
GroupsCounted(d) == loop = "done" \/ (loop = "groups" /\ d < i)
GroupFactor(d) == IF GroupsCounted(d) THEN globalDim[d] \div localDim[d] ELSE 1

GroupsInv ==
  /\ curr = LocalFactor(1) * LocalFactor(2) * LocalFactor(3)
  /\ loop \in {"groups", "done"} => curr <= MaxThreadsPerGroup
  /\ noGroups = GroupFactor(1) * GroupFactor(2) * GroupFactor(3)

\* A factor of a counter is positive.
LEMMA FactorsTyped ==
  ASSUME GridInv, NEW d \in Dim
  PROVE  LocalFactor(d) \in Nat \ {0} /\ GroupFactor(d) \in Nat \ {0}
<1>1. localDim[d] \in Nat \ {0}
  BY MaxPerDimAssumption DEF GridInv, TypeOK
<1>2. CASE GroupsCounted(d)
  <2>1. PICK q \in Nat \ {0} : globalDim[d] = localDim[d] * q
    BY <1>2 DEF GridInv, GroupsCounted, LocalDrawn, Divides
  <2>2. QED
    BY <1>1, <1>2, <2>1, ExactQuotient DEF LocalFactor, GroupFactor
<1>3. CASE ~ GroupsCounted(d)
  BY <1>1, <1>3 DEF LocalFactor, GroupFactor
<1>4. QED
  BY <1>2, <1>3

\* One factor of a product of three is multiplied.
LEMMA OneFactor ==
  ASSUME NEW a \in Nat, NEW b \in Nat, NEW c \in Nat, NEW n \in Nat
  PROVE  /\ (1 * b * c) * n = n * b * c
         /\ (a * 1 * c) * n = a * n * c
         /\ (a * b * 1) * n = a * b * n
BY SMT

\* No group is counted at first.
LEMMA GroupsInit == Init => GroupsInv
BY DEF Init, GroupsInv, LocalFactor, LocalDrawn, GroupFactor, GroupsCounted

\* Every step multiplies a counter by the factor of one dimension.
LEMMA GroupsNext == GridInv /\ GridInv' /\ GroupsInv /\ [Next]_vars => GroupsInv'
<1> SUFFICES ASSUME GridInv, GridInv', GroupsInv, [Next]_vars
             PROVE  GroupsInv'
  OBVIOUS
<1> USE DEF Dim
<1>0. /\ i \in 1 .. 4
      /\ \A d \in Dim : LocalFactor(d) \in Nat /\ GroupFactor(d) \in Nat
      /\ \A d \in Dim : LocalFactor(d)' \in Nat /\ GroupFactor(d)' \in Nat
  <2>1. i \in 1 .. 4
    BY DEF GridInv, TypeOK
  <2>2. \A d \in Dim : LocalFactor(d) \in Nat /\ GroupFactor(d) \in Nat
    BY FactorsTyped
  <2>3. \A d \in Dim : LocalFactor(d)' \in Nat /\ GroupFactor(d)' \in Nat
    <3>1. SUFFICES ASSUME NEW d \in Dim
                   PROVE  (LocalFactor(d) \in Nat /\ GroupFactor(d) \in Nat)'
      OBVIOUS
    <3>2. GridInv' => (LocalFactor(d) \in Nat \ {0} /\ GroupFactor(d) \in Nat \ {0})'
      BY FactorsTyped, PTL
    <3>3. QED
      BY <3>2
  <2>4. QED
    BY <2>1, <2>2, <2>3
<1>1. CASE DrawGlobalDim
  <2>1. \A d \in Dim : /\ LocalFactor(d) = 1 /\ LocalFactor(d)' = 1
                       /\ GroupFactor(d) = 1 /\ GroupFactor(d)' = 1
    BY <1>1, <1>0 DEF DrawGlobalDim, LocalFactor, LocalDrawn, GroupFactor, GroupsCounted
  <2>2. QED
    BY <1>1, <2>1 DEF DrawGlobalDim, GroupsInv
<1>2. CASE DrawLocalDim
  <2>1. loop = "local" /\ i' = i + 1 /\ loop' = loop /\ noGroups' = noGroups
    BY <1>2 DEF DrawLocalDim
  <2>2. PICK e \in Dim : e = i
    BY <1>2 DEF DrawLocalDim
  <2>3. PICK n \in GetDivisors(globalDim[i]) : /\ localDim' = [localDim EXCEPT ![i] = n]
                                               /\ curr' = curr * n
    BY <1>2 DEF DrawLocalDim
  <2>4. \A d \in Dim : GroupFactor(d) = 1 /\ GroupFactor(d)' = 1
    BY <2>1 DEF GroupFactor, GroupsCounted
  <2>5. LocalFactor(e) = 1 /\ LocalFactor(e)' = n
    <3>1. localDim'[e] = n
      BY <2>2, <2>3 DEF GridInv, TypeOK
    <3>2. ~ LocalDrawn(e) /\ LocalDrawn(e)'
      BY <2>1, <2>2 DEF LocalDrawn
    <3>3. QED
      BY <3>1, <3>2 DEF LocalFactor
  <2>6. \A d \in Dim : d # e => LocalFactor(d)' = LocalFactor(d)
    <3> SUFFICES ASSUME NEW d \in Dim, d # e
                 PROVE  LocalFactor(d)' = LocalFactor(d)
      OBVIOUS
    <3>1. localDim'[d] = localDim[d]
      BY <2>2, <2>3 DEF GridInv, TypeOK
    <3>2. LocalDrawn(d)' <=> LocalDrawn(d)
      BY <2>1, <2>2 DEF LocalDrawn
    <3>3. QED
      BY <3>1, <3>2 DEF LocalFactor
  <2>7. n \in Nat
    BY <2>2, <2>5, <1>0
  <2>8. curr' = (LocalFactor(1) * LocalFactor(2) * LocalFactor(3)) * n
    BY <2>3 DEF GroupsInv
  <2>9. curr' = LocalFactor(1)' * LocalFactor(2)' * LocalFactor(3)'
    <3>1. CASE e = 1
      BY <1>0, <2>5, <2>6, <2>7, <2>8, <3>1, OneFactor
    <3>2. CASE e = 2
      BY <1>0, <2>5, <2>6, <2>7, <2>8, <3>2, OneFactor
    <3>3. CASE e = 3
      BY <1>0, <2>5, <2>6, <2>7, <2>8, <3>3, OneFactor
    <3>4. QED
      BY <3>1, <3>2, <3>3
  <2>10. QED
    BY <2>1, <2>4, <2>9 DEF GroupsInv
<1>3. CASE RetryLocalDims
  <2>1. \A d \in Dim : /\ LocalFactor(d)' = 1
                       /\ GroupFactor(d) = 1 /\ GroupFactor(d)' = 1
    BY <1>3 DEF RetryLocalDims, LocalFactor, LocalDrawn, GroupFactor, GroupsCounted
  <2>2. QED
    BY <1>3, <2>1 DEF RetryLocalDims, GroupsInv
<1>4. CASE AcceptLocalDims
  <2>1. \A d \in Dim : /\ LocalFactor(d)' = LocalFactor(d)
                       /\ GroupFactor(d) = 1 /\ GroupFactor(d)' = 1
    BY <1>4 DEF AcceptLocalDims, LocalFactor, LocalDrawn, GroupFactor, GroupsCounted
  <2>2. QED
    BY <1>4, <2>1 DEF AcceptLocalDims, GroupsInv
<1>5. CASE CountGroups
  <2>1. /\ loop = "groups" /\ globalDim' = globalDim
        /\ localDim' = localDim /\ curr' = curr
        /\ IF i < 3 THEN i' = i + 1 /\ loop' = loop ELSE i' = i /\ loop' = "done"
    BY <1>5 DEF CountGroups
  <2>2. PICK e \in Dim : e = i
    BY <1>5 DEF CountGroups, GridInv, TypeOK
  <2>3. PICK n : n = globalDim[e] \div localDim[e]
    OBVIOUS
  <2>4. \A d \in Dim : LocalFactor(d)' = LocalFactor(d)
    BY <2>1 DEF LocalFactor, LocalDrawn
  <2>5. GroupFactor(e) = 1 /\ GroupFactor(e)' = n
    <3>1. ~ GroupsCounted(e) /\ GroupsCounted(e)'
      BY <2>1, <2>2 DEF GroupsCounted
    <3>2. QED
      BY <3>1, <2>1, <2>3 DEF GroupFactor
  <2>6. \A d \in Dim : d # e => GroupFactor(d)' = GroupFactor(d)
    <3> SUFFICES ASSUME NEW d \in Dim, d # e
                 PROVE  GroupFactor(d)' = GroupFactor(d)
      OBVIOUS
    <3>1. GroupsCounted(d)' <=> GroupsCounted(d)
      BY <2>1, <2>2 DEF GroupsCounted
    <3>2. QED
      BY <3>1, <2>1 DEF GroupFactor
  <2>7. n \in Nat
    BY <2>2, <2>5, <1>0
  <2>8. noGroups' = (GroupFactor(1) * GroupFactor(2) * GroupFactor(3)) * n
    BY <1>5, <2>2, <2>3 DEF CountGroups, GroupsInv
  <2>9. noGroups' = GroupFactor(1)' * GroupFactor(2)' * GroupFactor(3)'
    <3>1. CASE e = 1
      BY <1>0, <2>5, <2>6, <2>7, <2>8, <3>1, OneFactor
    <3>2. CASE e = 2
      BY <1>0, <2>5, <2>6, <2>7, <2>8, <3>2, OneFactor
    <3>3. CASE e = 3
      BY <1>0, <2>5, <2>6, <2>7, <2>8, <3>3, OneFactor
    <3>4. QED
      BY <3>1, <3>2, <3>3
  <2>10. QED
    BY <2>1, <2>4, <2>9 DEF GroupsInv
<1>6. CASE UNCHANGED vars
  BY <1>6 DEF vars, GroupsInv, LocalFactor, LocalDrawn, GroupFactor, GroupsCounted
<1>7. QED
  BY <1>1, <1>2, <1>3, <1>4, <1>5, <1>6 DEF Next, Done

\* Sizes and numbers of groups of the three dimensions multiply to the grid.
LEMMA ProductsPair ==
  ASSUME NEW a \in Nat, NEW b \in Nat, NEW c \in Nat,
         NEW x \in Nat, NEW y \in Nat, NEW z \in Nat
  PROVE  (a * x) * (b * y) * (c * z) = (x * y * z) * (a * b * c)
BY SMT

\* At the end no factor is missing from either count, and every dimension is
\* the product of its two factors.
LEMMA GridIsTiled == GridInv /\ GroupsInv => GroupsTileTheGrid
<1> SUFFICES ASSUME GridInv, GroupsInv, loop = "done"
             PROVE  /\ get_threads_per_group = Product(localDim)
                    /\ noGroups * get_threads_per_group = noThreads
                    /\ get_threads_per_group <= MaxThreadsPerGroup
  BY DEF GroupsTileTheGrid
<1>1. \A d \in Dim : localDim[d] \in Nat \ {0}
  BY MaxPerDimAssumption DEF GridInv, TypeOK
<1>2. \A d \in Dim : \E q \in Nat \ {0} : /\ globalDim[d] = localDim[d] * q
                                          /\ GroupFactor(d) = q
  <2> SUFFICES ASSUME NEW d \in Dim
               PROVE  \E q \in Nat \ {0} : /\ globalDim[d] = localDim[d] * q
                                           /\ GroupFactor(d) = q
    OBVIOUS
  <2>1. PICK q \in Nat \ {0} : globalDim[d] = localDim[d] * q
    BY DEF GridInv, LocalDrawn, Divides
  <2>2. GroupFactor(d) = globalDim[d] \div localDim[d]
    BY DEF GroupFactor, GroupsCounted
  <2>3. QED
    BY <1>1, <2>1, <2>2, ExactQuotient
<1>3. PICK x \in Nat \ {0} : globalDim[1] = localDim[1] * x /\ GroupFactor(1) = x
  BY <1>2 DEF Dim
<1>4. PICK y \in Nat \ {0} : globalDim[2] = localDim[2] * y /\ GroupFactor(2) = y
  BY <1>2 DEF Dim
<1>5. PICK z \in Nat \ {0} : globalDim[3] = localDim[3] * z /\ GroupFactor(3) = z
  BY <1>2 DEF Dim
<1>6. noGroups = x * y * z /\ noGroups \in Nat \ {0}
  BY <1>3, <1>4, <1>5 DEF GroupsInv, GridInv, TypeOK
<1>7. curr = Product(localDim) /\ curr \in Nat /\ curr <= MaxThreadsPerGroup
  BY DEF GroupsInv, LocalFactor, LocalDrawn, Product, GridInv, TypeOK
<1>8. noThreads = noGroups * curr
  <2>1. noThreads = (localDim[1] * x) * (localDim[2] * y) * (localDim[3] * z)
    BY <1>3, <1>4, <1>5 DEF GridInv, ThreadsWithinLimit, Product
  <2>2. QED
    BY <2>1, <1>1, <1>6, <1>7, ProductsPair DEF Product, Dim
<1>9. get_threads_per_group = curr
  BY <1>6, <1>7, <1>8, ExactQuotient DEF get_threads_per_group
<1>10. QED
  BY <1>7, <1>8, <1>9

\* The groups tile the grid, for every limit on threads, dimensions and groups:
\* dividing the counts of threads and of groups loses nothing, and no group is
\* larger than max_threads_per_group.
THEOREM GroupsTile == Spec => []GroupsTileTheGrid
<1>1. GridInv /\ GroupsInv /\ [Next]_vars => GridInv' /\ GroupsInv'
  BY GridNext, GroupsNext
<1>2. QED
  BY <1>1, GridInit, GroupsInit, GridIsTiled, PTL DEF Spec

-----------------------------------------------------------------------------
(* Divisors.                                                               *)

\* A product has no remainder, and the other factor as its quotient.
LEMMA ExactProduct ==
  ASSUME NEW a \in Nat \ {0}, NEW q \in Nat
  PROVE  (a * q) % a = 0 /\ (a * q) \div a = q
<1>1. PICK b \in Nat : b = a * q
  OBVIOUS
<1>2. b \div a = q
  BY <1>1, ExactQuotient
<1>3. b = (a * (b \div a)) + (b % a) /\ b % a \in Nat
  BY Quotient
<1>4. b = b + (b % a)
  BY <1>1, <1>2, <1>3
<1>5. b % a = 0
  BY <1>3, <1>4
<1>6. QED
  BY <1>1, <1>2, <1>5

\* get_divisors misses no divisor: one above the square root is the quotient of
\* one below it.
LEMMA DivisorsComplete ==
  ASSUME NEW val \in Nat \ {0}, NEW d \in 1 .. val, val % d = 0
  PROVE  d \in GetDivisors(val)
<1>1. PICK q \in Nat : q = val \div d
  BY Quotient
<1>2. val = d * q
  BY <1>1, Quotient
<1>3. q \in Nat \ {0}
  BY <1>2, SMT
<1>4. CASE d = 1 \/ d = val
  BY <1>4 DEF GetDivisors
<1>5. CASE d # 1 /\ d # val
  <2>1. d \in 2 .. val
    BY <1>5
  <2>2. CASE d * d < val
    BY <2>1, <2>2 DEF GetDivisors
  <2>3. CASE d * d = val
    BY <2>1, <2>3 DEF GetDivisors
  <2>4. CASE d * d > val
    <3>1. q < d
      <4>1. CASE q >= d
        <5>1. PICK k \in Nat : q = d + k
          <6>1. q - d \in Nat /\ q = d + (q - d)
            BY <1>3, <4>1
          <6>2. QED
            BY <6>1
        <5>2. d * q = (d * d) + (d * k) /\ d * k \in Nat /\ d * d \in Nat
          BY <5>1, SMT
        <5>3. QED
          BY <1>2, <2>4, <5>2
      <4>2. QED
        BY <1>3, <4>1
    <3>2. q # 1
      BY <1>2, <1>5, SMT
    <3>3. PICK k \in Nat \ {0} : d = q + k
      <4>1. d - q \in Nat \ {0} /\ d = q + (d - q)
        BY <1>3, <3>1
      <4>2. QED
        BY <4>1
    <3>4. val = (q * q) + (q * k) /\ q * k \in Nat \ {0} /\ q * q \in Nat
      BY <1>2, <1>3, <3>3, SMT
    <3>5. q * q < val /\ val \in Nat
      BY <3>4
    <3>6. val = q * d
      BY <1>2
    <3>7. val % q = 0 /\ val \div q = d
      BY <1>3, <3>6, ExactProduct
    <3>8. q <= q * q
      BY <1>3, SMT
    <3>9. q \in 2 .. val
      BY <1>3, <3>2, <3>4, <3>5, <3>8
    <3>10. d \in {q, val \div q}
      BY <3>7
    <3>11. QED
      BY <3>5, <3>7, <3>9, <3>10 DEF GetDivisors
  <2>5. d * d \in Nat
    OBVIOUS
  <2>6. QED
    BY <2>2, <2>3, <2>4, <2>5
<1>6. QED
  BY <1>4, <1>5

\* The local dimension is drawn from all divisors of the global one and from
\* nothing else, whatever the limits.
THEOREM DivisorsAreExact == Spec => []DivisorsExact
<1>1. GridInv => DivisorsExact
  <2> SUFFICES ASSUME GridInv, i \in Dim
               PROVE  GetDivisors(globalDim[i]) = {d \in 1 .. globalDim[i] : globalDim[i] % d = 0}
    BY DEF DivisorsExact
  <2>1. PICK val \in Nat \ {0} : val = globalDim[i]
    BY MaxPerDimAssumption DEF GridInv, TypeOK
  <2>2. ASSUME NEW n \in GetDivisors(val)
        PROVE  n \in 1 .. val /\ val % n = 0
    <3>1. n \in 1 .. val /\ \E q \in Nat \ {0} : val = n * q
      BY DivisorsDivide
    <3>2. n \in Nat \ {0}
      BY <3>1
    <3>3. QED
      BY <3>1, <3>2, ExactProduct
  <2>3. \A d \in 1 .. val : val % d = 0 => d \in GetDivisors(val)
    BY DivisorsComplete
  <2>4. QED
    BY <2>1, <2>2, <2>3
<1>2. QED
  BY <1>1, GridInit, GridNext, PTL DEF Spec

-----------------------------------------------------------------------------
(* Identifiers.                                                            *)

\* a * n + b, for a below m and b below n, numbers the pairs from 0 up.
LEMMA PairNumber ==
  ASSUME NEW m \in Nat \ {0}, NEW n \in Nat \ {0}
  PROVE  /\ \A a \in 0 .. m - 1, b \in 0 .. n - 1 : (a * n) + b \in 0 .. (m * n) - 1
         /\ \A a, c \in 0 .. m - 1, b, d \in 0 .. n - 1 :
              (a * n) + b = (c * n) + d => a = c /\ b = d
         /\ \A k \in 0 .. (m * n) - 1 : \E a \in 0 .. m - 1, b \in 0 .. n - 1 : k = (a * n) + b
<1>1. ASSUME NEW a \in Nat, NEW c \in Nat, a < c
      PROVE  \E e \in Nat : c * n = (a * n) + n + e
  <2>1. PICK e \in Nat : c = (a + 1) + e
    <3>1. c - (a + 1) \in Nat /\ c = (a + 1) + (c - (a + 1))
      BY <1>1
    <3>2. QED
      BY <3>1
  <2>2. c * n = (a * n) + n + (e * n) /\ e * n \in Nat
    BY <2>1, SMT
  <2>3. QED
    BY <2>2
<1>2. ASSUME NEW a \in 0 .. m - 1, NEW b \in 0 .. n - 1
      PROVE  (a * n) + b \in 0 .. (m * n) - 1
  <2>1. PICK e \in Nat : m * n = (a * n) + n + e
    BY <1>1
  <2>2. a * n \in Nat /\ m * n \in Nat
    BY SMT
  <2>3. QED
    BY <2>1, <2>2
<1>3. ASSUME NEW a \in 0 .. m - 1, NEW c \in 0 .. m - 1, NEW b \in 0 .. n - 1, NEW d \in 0 .. n - 1,
             (a * n) + b = (c * n) + d
      PROVE  a = c /\ b = d
  <2>1. a * n \in Nat /\ c * n \in Nat
    BY SMT
  <2>2. CASE a < c
    <3>1. PICK e \in Nat : c * n = (a * n) + n + e
      BY <1>1, <2>2
    <3>2. QED
      BY <1>3, <2>1, <3>1
  <2>3. CASE c < a
    <3>1. PICK e \in Nat : a * n = (c * n) + n + e
      BY <1>1, <2>3
    <3>2. QED
      BY <1>3, <2>1, <3>1
  <2>4. CASE a = c
    BY <1>3, <2>1, <2>4
  <2>5. QED
    BY <2>2, <2>3, <2>4
<1>4. ASSUME NEW k \in 0 .. (m * n) - 1
      PROVE  \E a \in 0 .. m - 1, b \in 0 .. n - 1 : k = (a * n) + b
  <2>1. m * n \in Nat /\ k \in Nat /\ k < m * n
    BY SMT
  <2>2. PICK a \in Nat : a = k \div n
    BY <2>1, Quotient
  <2>3. PICK b \in Nat : b = k % n
    BY <2>1, Quotient
  <2>4. k = (n * a) + b
    BY <2>1, <2>2, <2>3, Quotient
  <2>5. b < n
    BY <2>1, <2>3, SMT
  <2>6. n * a = a * n /\ a * n \in Nat
    BY SMT
  <2>7. a < m
    <3>1. CASE m < a
      <4>1. PICK e \in Nat : a * n = (m * n) + n + e
        BY <1>1, <3>1
      <4>2. QED
        BY <2>1, <2>4, <2>6, <4>1
    <3>2. CASE m = a
      BY <2>1, <2>4, <2>6, <3>2
    <3>3. QED
      BY <3>1, <3>2
  <2>8. QED
    BY <2>4, <2>5, <2>6, <2>7
<1>5. QED
  BY <1>2, <1>3, <1>4

\* CUDA.h numbers the indices of any grid from 0 up, without gap or repetition.
LEMMA LinearNumbers ==
  ASSUME NEW size \in [Dim -> 1 .. MaxThreadsPerDim]
  PROVE  /\ \A x \in Index(size) : Linear(x, size) \in 0 .. Product(size) - 1
         /\ \A x, y \in Index(size) : Linear(x, size) = Linear(y, size) => x = y
         /\ \A k \in 0 .. Product(size) - 1 : \E x \in Index(size) : Linear(x, size) = k
<1>1. PICK a \in Nat \ {0} : a = size[1]
  BY MaxPerDimAssumption DEF Dim
<1>2. PICK b \in Nat \ {0} : b = size[2]
  BY MaxPerDimAssumption DEF Dim
<1>3. PICK c \in Nat \ {0} : c = size[3]
  BY MaxPerDimAssumption DEF Dim
<1>4. PICK m \in Nat \ {0} : m = c * b
  BY SMT
<1>5. m * a = Product(size)
  <2>1. (c * b) * a = a * b * c
    BY SMT
  <2>2. QED
    BY <1>1, <1>2, <1>3, <1>4, <2>1 DEF Product
<1>6. \A x \in Index(size) : /\ x[1] \in 0 .. a - 1 /\ x[2] \in 0 .. b - 1 /\ x[3] \in 0 .. c - 1
                             /\ x \in [Dim -> 0 .. MaxThreadsPerDim - 1]
  BY <1>1, <1>2, <1>3, MaxPerDimAssumption DEF Index, Dim
<1>7. \A x : Linear(x, size) = (((x[3] * b) + x[2]) * a) + x[1]
  BY <1>1, <1>2 DEF Linear
<1>8. ASSUME NEW x \in Index(size)
      PROVE  (x[3] * b) + x[2] \in 0 .. m - 1 /\ Linear(x, size) \in 0 .. Product(size) - 1
  <2>1. (x[3] * b) + x[2] \in 0 .. m - 1
    BY <1>4, <1>6, PairNumber
  <2>2. PICK r \in 0 .. m - 1 : r = (x[3] * b) + x[2]
    BY <2>1
  <2>3. (r * a) + x[1] \in 0 .. (m * a) - 1
    BY <1>6, PairNumber
  <2>4. QED
    BY <1>5, <1>7, <2>1, <2>2, <2>3
<1>9. ASSUME NEW x \in Index(size), NEW y \in Index(size), Linear(x, size) = Linear(y, size)
      PROVE  x = y
  <2>1. PICK r \in 0 .. m - 1 : r = (x[3] * b) + x[2]
    BY <1>8
  <2>2. PICK s \in 0 .. m - 1 : s = (y[3] * b) + y[2]
    BY <1>8
  <2>3. (r * a) + x[1] = (s * a) + y[1]
    BY <1>7, <1>9, <2>1, <2>2
  <2>4. r = s /\ x[1] = y[1]
    BY <1>6, <2>3, PairNumber
  <2>5. x[3] = y[3] /\ x[2] = y[2]
    <3>1. PICK u \in 0 .. c - 1, v \in 0 .. b - 1 : u = x[3] /\ v = x[2]
      BY <1>6
    <3>2. PICK w \in 0 .. c - 1, z \in 0 .. b - 1 : w = y[3] /\ z = y[2]
      BY <1>6
    <3>3. (u * b) + v = (w * b) + z
      BY <2>1, <2>2, <2>4, <3>1, <3>2
    <3>4. u = w /\ v = z
      BY <3>3, PairNumber
    <3>5. QED
      BY <3>1, <3>2, <3>4
  <2>6. \A d \in Dim : x[d] = y[d]
    BY <2>4, <2>5 DEF Dim
  <2>7. QED
    BY <1>6, <2>6
<1>10. ASSUME NEW k \in 0 .. Product(size) - 1
       PROVE  \E x \in Index(size) : Linear(x, size) = k
  <2>1. PICK r \in 0 .. m - 1, e \in 0 .. a - 1 : k = (r * a) + e
    <3>1. \A n \in 0 .. (m * a) - 1 : \E r \in 0 .. m - 1, e \in 0 .. a - 1 : n = (r * a) + e
      BY PairNumber
    <3>2. k \in 0 .. (m * a) - 1
      BY <1>5
    <3>3. QED
      BY <3>1, <3>2
  <2>2. PICK g \in 0 .. c - 1, f \in 0 .. b - 1 : r = (g * b) + f
    <3>1. \A n \in 0 .. (c * b) - 1 : \E g \in 0 .. c - 1, f \in 0 .. b - 1 : n = (g * b) + f
      BY PairNumber
    <3>2. r \in 0 .. (c * b) - 1
      BY <1>4
    <3>3. QED
      BY <3>1, <3>2
  <2>3. PICK x : x = [d \in Dim |-> IF d = 1 THEN e ELSE IF d = 2 THEN f ELSE g]
    OBVIOUS
  <2>4. x[1] = e /\ x[2] = f /\ x[3] = g
    BY <2>3 DEF Dim
  <2>5. \A d \in Dim : x[d] \in 0 .. MaxThreadsPerDim - 1 /\ x[d] < size[d]
    BY <1>1, <1>2, <1>3, <2>4, MaxPerDimAssumption DEF Dim
  <2>6. x \in Index(size)
    BY <2>3, <2>5 DEF Index
  <2>7. QED
    BY <1>7, <2>1, <2>2, <2>4, <2>6
<1>11. QED
  BY <1>8, <1>9, <1>10

\* Once the groups are counted, the launch has noGroups of them.
LEMMA GroupsCount ==
  ASSUME GridInv, GroupsInv, loop = "done"
  PROVE  /\ numGroups \in [Dim -> 1 .. MaxThreadsPerDim]
         /\ \A d \in Dim : globalDim[d] = numGroups[d] * localDim[d]
         /\ noGroups = Product(numGroups)
<1>1. \A d \in Dim : /\ globalDim[d] \in Nat \ {0} /\ globalDim[d] <= MaxThreadsPerDim
                     /\ localDim[d] \in Nat \ {0}
  BY MaxPerDimAssumption DEF GridInv, TypeOK
<1>2. ASSUME NEW d \in Dim
      PROVE  /\ numGroups[d] \in 1 .. MaxThreadsPerDim
             /\ globalDim[d] = numGroups[d] * localDim[d]
             /\ numGroups[d] = GroupFactor(d)
  <2>1. PICK q \in Nat \ {0} : globalDim[d] = localDim[d] * q
    BY DEF GridInv, LocalDrawn, Divides
  <2>2. numGroups[d] = globalDim[d] \div localDim[d] /\ GroupFactor(d) = globalDim[d] \div localDim[d]
    BY DEF GroupFactor, GroupsCounted, numGroups
  <2>3. numGroups[d] = q /\ GroupFactor(d) = q
    BY <1>1, <2>1, <2>2, ExactQuotient
  <2>4. q <= localDim[d] * q /\ localDim[d] * q = q * localDim[d]
    BY <1>1, SMT
  <2>5. QED
    BY <1>1, <2>1, <2>3, <2>4, MaxPerDimAssumption
<1>3. numGroups \in [Dim -> 1 .. MaxThreadsPerDim]
  BY <1>2 DEF numGroups
<1>4. noGroups = Product(numGroups)
  BY <1>2 DEF GroupsInv, Product, Dim
<1>5. QED
  BY <1>2, <1>3, <1>4

\* A block and a thread of it make up an index of the grid, and every index of
\* the grid is made up of some block and thread.
LEMMA BlocksCoverTheGrid ==
  ASSUME NEW blocks \in [Dim -> 1 .. MaxThreadsPerDim],
         NEW size \in [Dim -> 1 .. MaxThreadsPerDim],
         NEW grid \in [Dim -> 1 .. MaxThreadsPerDim],
         \A d \in Dim : grid[d] = blocks[d] * size[d]
  PROVE  /\ \A b \in Index(blocks), t \in Index(size) :
              [d \in Dim |-> b[d] * size[d] + t[d]] \in Index(grid)
         /\ \A x \in Index(grid) : \E b \in Index(blocks), t \in Index(size) :
              x = [d \in Dim |-> b[d] * size[d] + t[d]]
<1>1. \A d \in Dim : /\ blocks[d] \in Nat \ {0} /\ size[d] \in Nat \ {0} /\ grid[d] \in Nat \ {0}
                     /\ blocks[d] <= MaxThreadsPerDim /\ size[d] <= MaxThreadsPerDim
                     /\ grid[d] <= MaxThreadsPerDim
  BY MaxPerDimAssumption
<1>2. ASSUME NEW b \in Index(blocks), NEW t \in Index(size)
      PROVE  [d \in Dim |-> b[d] * size[d] + t[d]] \in Index(grid)
  <2>1. ASSUME NEW d \in Dim
        PROVE  /\ b[d] * size[d] + t[d] \in 0 .. MaxThreadsPerDim - 1
               /\ b[d] * size[d] + t[d] < grid[d]
    <3>1. b[d] \in 0 .. blocks[d] - 1 /\ t[d] \in 0 .. size[d] - 1
      BY <1>1, MaxPerDimAssumption DEF Index
    <3>2. (b[d] * size[d]) + t[d] \in 0 .. (blocks[d] * size[d]) - 1
      BY <1>1, <3>1, PairNumber
    <3>3. (b[d] * size[d]) + t[d] \in 0 .. grid[d] - 1
      BY <3>2
    <3>4. QED
      BY <1>1, <3>3, MaxPerDimAssumption
  <2>2. QED
    BY <2>1 DEF Index
<1>3. ASSUME NEW x \in Index(grid)
      PROVE  \E b \in Index(blocks), t \in Index(size) :
               x = [d \in Dim |-> b[d] * size[d] + t[d]]
  <2>1. ASSUME NEW d \in Dim
        PROVE  \E u \in 0 .. blocks[d] - 1, v \in 0 .. size[d] - 1 : x[d] = (u * size[d]) + v
    <3>1. x[d] \in 0 .. grid[d] - 1
      BY <1>1, MaxPerDimAssumption DEF Index
    <3>2. x[d] \in 0 .. (blocks[d] * size[d]) - 1
      BY <3>1
    <3>3. \A n \in 0 .. (blocks[d] * size[d]) - 1 :
            \E u \in 0 .. blocks[d] - 1, v \in 0 .. size[d] - 1 : n = (u * size[d]) + v
      BY <1>1, PairNumber
    <3>4. QED
      BY <3>2, <3>3
  <2>2. PICK b : b = [d \in Dim |-> CHOOSE u \in 0 .. blocks[d] - 1 :
                        \E v \in 0 .. size[d] - 1 : x[d] = (u * size[d]) + v]
    OBVIOUS
  <2>3. \A d \in Dim : /\ b[d] \in 0 .. blocks[d] - 1
                       /\ \E v \in 0 .. size[d] - 1 : x[d] = (b[d] * size[d]) + v
    BY <2>1, <2>2
  <2>4. PICK t : t = [d \in Dim |-> CHOOSE v \in 0 .. size[d] - 1 :
                        x[d] = (b[d] * size[d]) + v]
    OBVIOUS
  <2>5. \A d \in Dim : t[d] \in 0 .. size[d] - 1 /\ x[d] = (b[d] * size[d]) + t[d]
    BY <2>3, <2>4
  <2>6. b \in Index(blocks)
    <3>1. \A d \in Dim : b[d] \in 0 .. MaxThreadsPerDim - 1 /\ b[d] < blocks[d]
      BY <1>1, <2>3, MaxPerDimAssumption
    <3>2. QED
      BY <2>2, <3>1 DEF Index
  <2>7. t \in Index(size)
    <3>1. \A d \in Dim : t[d] \in 0 .. MaxThreadsPerDim - 1 /\ t[d] < size[d]
      BY <1>1, <2>5, MaxPerDimAssumption
    <3>2. QED
      BY <2>4, <3>1 DEF Index
  <2>8. x = [d \in Dim |-> b[d] * size[d] + t[d]]
    BY <2>5 DEF Index
  <2>9. QED
    BY <2>6, <2>7, <2>8
<1>4. QED
  BY <1>2, <1>3

\* The group and the thread in it, as the kernel numbers a thread for a comm.
CommNumber(p) == get_linear_group_id(p[1]) * get_threads_per_group + get_linear_local_id(p[2])

\* Both numberings of the threads of the launch are onto 0 .. noThreads - 1;
\* the one by group and local identifier is seen to repeat nothing as well, so
\* that the launch has noThreads threads, and the other repeats nothing either.
LEMMA IdsAreUnique == GridInv /\ GroupsInv => LinearIdsAreUnique
<1> DEFINE Launched == Index(numGroups) \X Index(localDim)
           globals == {get_linear_global_id(p[1], p[2]) : p \in Launched}
           comms == {CommNumber(p) : p \in Launched}
<1> SUFFICES ASSUME GridInv, GroupsInv, loop = "done"
             PROVE  /\ Cardinality(Launched) = noThreads
                    /\ globals = 0 .. noThreads - 1
                    /\ comms = 0 .. noThreads - 1
                    /\ noThreads <= get_total_threads
  BY DEF LinearIdsAreUnique, CommNumber
<1>1. /\ globalDim \in [Dim -> 1 .. MaxThreadsPerDim]
      /\ localDim \in [Dim -> 1 .. MaxThreadsPerDim]
      /\ noThreads \in Nat \ {0} /\ noGroups \in Nat \ {0}
      /\ noThreads = Product(globalDim)
  BY DEF GridInv, TypeOK, ThreadsWithinLimit
<1>2. /\ numGroups \in [Dim -> 1 .. MaxThreadsPerDim]
      /\ \A d \in Dim : globalDim[d] = numGroups[d] * localDim[d]
      /\ noGroups = Product(numGroups)
  BY GroupsCount
<1>3. PICK size \in Nat \ {0} : /\ size = get_threads_per_group /\ size = Product(localDim)
                                /\ noThreads = noGroups * size
  <2>1. /\ get_threads_per_group = Product(localDim)
        /\ noThreads = noGroups * get_threads_per_group
    BY GridIsTiled DEF GroupsTileTheGrid
  <2>2. /\ localDim[1] \in Nat \ {0} /\ localDim[2] \in Nat \ {0} /\ localDim[3] \in Nat \ {0}
    BY <1>1, MaxPerDimAssumption DEF Dim
  <2>3. localDim[1] * localDim[2] \in Nat \ {0}
    BY <2>2, SMT
  <2>4. Product(localDim) \in Nat \ {0}
    BY <2>2, <2>3, SMT DEF Product
  <2>5. QED
    BY <2>1, <2>4
<1>4. \A k \in 0 .. noThreads - 1 : \E p \in Launched : CommNumber(p) = k
  <2> SUFFICES ASSUME NEW k \in 0 .. noThreads - 1
               PROVE  \E p \in Launched : CommNumber(p) = k
    OBVIOUS
  <2>1. \A n \in 0 .. (noGroups * size) - 1 :
          \E g \in 0 .. noGroups - 1, t \in 0 .. size - 1 : n = (g * size) + t
    BY <1>1, PairNumber
  <2>2. PICK g \in 0 .. noGroups - 1, t \in 0 .. size - 1 : k = (g * size) + t
    BY <1>3, <2>1
  <2>3. PICK b \in Index(numGroups) : Linear(b, numGroups) = g
    BY <1>2, LinearNumbers
  <2>4. PICK x \in Index(localDim) : Linear(x, localDim) = t
    BY <1>1, <1>3, LinearNumbers
  <2>5. CommNumber(<<b, x>>) = k
    BY <1>3, <2>2, <2>3, <2>4 DEF CommNumber, get_linear_group_id, get_linear_local_id
  <2>6. QED
    BY <2>5
<1>5. ASSUME NEW p \in Launched
      PROVE  CommNumber(p) \in 0 .. noThreads - 1
  <2>1. PICK g \in 0 .. noGroups - 1 : g = get_linear_group_id(p[1])
    BY <1>2, LinearNumbers DEF get_linear_group_id
  <2>2. PICK t \in 0 .. size - 1 : t = get_linear_local_id(p[2])
    BY <1>1, <1>3, LinearNumbers DEF get_linear_local_id
  <2>3. (g * size) + t \in 0 .. (noGroups * size) - 1
    BY <1>1, PairNumber
  <2>4. QED
    BY <1>3, <2>1, <2>2, <2>3 DEF CommNumber
<1>6. ASSUME NEW p \in Launched, NEW q \in Launched, CommNumber(p) = CommNumber(q)
      PROVE  p = q
  <2>1. PICK g \in 0 .. noGroups - 1, t \in 0 .. size - 1 :
          g = get_linear_group_id(p[1]) /\ t = get_linear_local_id(p[2])
    BY <1>1, <1>2, <1>3, LinearNumbers DEF get_linear_group_id, get_linear_local_id
  <2>2. PICK h \in 0 .. noGroups - 1, u \in 0 .. size - 1 :
          h = get_linear_group_id(q[1]) /\ u = get_linear_local_id(q[2])
    BY <1>1, <1>2, <1>3, LinearNumbers DEF get_linear_group_id, get_linear_local_id
  <2>3. (g * size) + t = (h * size) + u
    BY <1>3, <1>6, <2>1, <2>2 DEF CommNumber
  <2>4. g = h /\ t = u
    BY <1>1, <2>3, PairNumber
  <2>5. p[1] = q[1]
    BY <1>2, <2>1, <2>2, <2>4, LinearNumbers DEF get_linear_group_id
  <2>6. p[2] = q[2]
    BY <1>1, <2>1, <2>2, <2>4, LinearNumbers DEF get_linear_local_id
  <2>7. QED
    BY <2>5, <2>6
<1>7. Cardinality(Launched) = noThreads
  <2> DEFINE number == [p \in Launched |-> CommNumber(p)]
             ids == 0 .. noThreads - 1
  <2>1. number \in [Launched -> ids]
    BY <1>5
  <2>2. \A p, q \in Launched : number[p] = number[q] => p = q
    BY <1>6
  <2>3. \A k \in ids : \E p \in Launched : number[p] = k
    BY <1>4
  <2> HIDE DEF Launched, number
  <2>4. number \in Bijection(Launched, ids)
    BY <2>1, <2>2, <2>3, Fun_IsBij
  <2>5. ExistsBijection(Launched, ids)
    BY <2>4, Fun_ExistsBij
  <2>6. ExistsBijection(ids, Launched)
    BY <2>5, Fun_ExistsBijSymmetric
  <2>7. IsFiniteSet(ids) /\ Cardinality(ids) = noThreads
    <3>1. /\ 0 \in Int /\ noThreads - 1 \in Int /\ ~ (0 > noThreads - 1)
          /\ (noThreads - 1) - 0 + 1 = noThreads
      BY <1>1
    <3>2. QED
      BY <3>1, FS_Interval
  <2>8. QED
    BY <2>6, <2>7, FS_Bijection
<1>8. globals = 0 .. noThreads - 1
  <2>1. ASSUME NEW p \in Launched
        PROVE  get_linear_global_id(p[1], p[2]) \in 0 .. noThreads - 1
    <3>1. [d \in Dim |-> p[1][d] * localDim[d] + p[2][d]] \in Index(globalDim)
      BY <1>1, <1>2, BlocksCoverTheGrid
    <3>2. QED
      BY <1>1, <3>1, LinearNumbers DEF get_linear_global_id
  <2>2. ASSUME NEW k \in 0 .. noThreads - 1
        PROVE  \E p \in Launched : get_linear_global_id(p[1], p[2]) = k
    <3>1. PICK x \in Index(globalDim) : Linear(x, globalDim) = k
      BY <1>1, LinearNumbers
    <3>2. PICK b \in Index(numGroups), t \in Index(localDim) :
            x = [d \in Dim |-> b[d] * localDim[d] + t[d]]
      <4>1. \A y \in Index(globalDim) : \E b \in Index(numGroups), t \in Index(localDim) :
              y = [d \in Dim |-> b[d] * localDim[d] + t[d]]
        BY <1>1, <1>2, BlocksCoverTheGrid
      <4>2. QED
        BY <4>1
    <3>3. get_linear_global_id(b, t) = k
      BY <3>1, <3>2 DEF get_linear_global_id
    <3>4. <<b, t>> \in Launched
      OBVIOUS
    <3>5. get_linear_global_id(<<b, t>>[1], <<b, t>>[2]) = k
      BY <3>3
    <3>6. QED
      BY <3>4, <3>5
  <2>3. QED
    BY <2>1, <2>2
<1>9. comms = 0 .. noThreads - 1
  BY <1>4, <1>5
<1>10. noThreads <= get_total_threads
  BY <1>1, SMT DEF get_total_threads
<1>11. QED
  BY <1>7, <1>8, <1>9, <1>10

\* For every limit, threads of the launch have linear identifiers of their own,
\* from 0 up to noThreads, both globally and as group and local identifier: no
\* two threads share an element of a buffer, none is out of its buffer's bounds.
THEOREM IdentifiersAreUnique == Spec => []LinearIdsAreUnique
<1>1. GridInv /\ GroupsInv /\ [Next]_vars => GridInv' /\ GroupsInv'
  BY GridNext, GroupsNext
<1>2. QED
  BY <1>1, GridInit, GroupsInit, IdsAreUnique, PTL DEF Spec

=============================================================================
