-------------------------- MODULE RandomChoicesProofs --------------------------
(***************************************************************************)
(* Theorems about the random-number generators, for every depth limit and  *)
(* every builder: whatever it draws, the exhaustive search writes each     *)
(* program once and leaves none out, and what is recorded of a program is  *)
(* enough to build it again.                                               *)
(***************************************************************************)
EXTENDS RandomChoices, SequenceTheorems, FiniteSetTheorems, WellFoundedInduction, TLAPS

-----------------------------------------------------------------------------
(* Invariants.                                                             *)

\* Every generator's position is the number of values the builder has been
\* given, and those values are what it has recorded.
RecordInv ==
  /\ gen \in {"dfs", "debug", "default", "delta"}
  /\ running \in BOOLEAN /\ all_done \in BOOLEAN
  /\ path \in Seq(Nat)
  /\ current_pos \in Int /\ rand_depth \in Nat /\ random_point \in Nat
  /\ error = "SUCCESS" =>
       /\ gen \in {"dfs", "debug"} => current_pos = Len(path) - 1
       /\ gen = "default" => rand_depth = Len(path)
       /\ gen = "delta" => current_pos = Len(path) /\ rand_depth = Len(path)
  /\ RecordIsTheRun

\* The choices of the search, up to the k-th: a stack kept between its runs.
Stack(k) == [i \in 1 .. k |-> states[i - 1].value]

\* A draw the search has found a value for.
Chosen(p, v) ==
  /\ p \in DOMAIN tree
  /\ IsDraw(tree[p])
  /\ Allowed(p)
  /\ v \in Passes(tree[p])

\* Where the builder has been, and the ends of its programs.
TreeInv ==
  /\ DOMAIN tree \subseteq Seq(Nat)
  /\ \A p \in DOMAIN tree : /\ tree[p].bound \in Nat
                            /\ Len(p) <= MaxDepth
  /\ <<>> \in DOMAIN tree /\ IsDraw(tree[<<>>])

\* The stack leads through draws the builder makes again, to values that passed
\* their filters, and a run of the builder follows it.
StackInv ==
  /\ states \in [Position -> [init : BOOLEAN, value : Nat]]
  /\ decision_depth \in -1 .. MaxDepth - 1
  /\ \A i \in Position : states[i].init <=> i <= decision_depth
  /\ \A k \in 0 .. decision_depth : Chosen(Stack(k), states[k].value)
  /\ Len(path) <= decision_depth + 1
  /\ \A i \in 1 .. Len(path) : path[i] = states[i - 1].value
  /\ ~running => all_done
  /\ all_done => decision_depth = -1 /\ (running => error # "SUCCESS")
  /\ decision_depth = -1 /\ ~all_done => good = <<>> /\ error = "SUCCESS"

\* The last program written is behind the stack: either the stack has come to a
\* later value, or it is still the beginning of that program, and then the run
\* in progress has not yet come to its top.
Beyond(g) ==
  \E k \in 1 .. Len(g) :
    /\ k <= decision_depth + 1
    /\ g[k] < states[k - 1].value
    /\ \A j \in 1 .. k - 1 : g[j] = states[j - 1].value
Within(g) ==
  /\ decision_depth + 1 <= Len(g)
  /\ \A j \in 1 .. decision_depth + 1 : g[j] = states[j - 1].value
  /\ running /\ error = "SUCCESS" => Len(path) <= decision_depth
LastWritten == IF good = <<>> THEN {} ELSE {good[Len(good)]}
OnceInv ==
  /\ good \in Seq(Seq(Nat))
  /\ EachProgramOnce
  /\ \A g \in LastWritten : Beyond(g) \/ Within(g)

\* A value of a draw is still to come as long as the draw is on the stack, with
\* a smaller value, or the builder is on its way to either of them.
Open(p) == Len(p) <= decision_depth /\ p = Stack(Len(p))
Busy == running /\ error = "SUCCESS"
Reached(p, v) ==
  \/ Append(p, v) \in DOMAIN tree
  \/ Busy /\ Append(p, v) = path
  \/ Open(p) /\ v > states[Len(p)].value
SkipInv ==
  \A p \in DOMAIN tree :
    /\ IsDraw(tree[p]) /\ Allowed(p) =>
         \/ Busy /\ p = path /\ Len(p) = decision_depth + 1
         \/ \A v \in Passes(tree[p]) : Reached(p, v)
    /\ ~IsDraw(tree[p]) /\ tree[p].error = "SUCCESS" =>
         \E i \in DOMAIN good : good[i] = p

\* A program that was written: its draws, and its end.
Written(g) ==
  /\ g \in Seq(Nat) /\ g # <<>>
  /\ \A k \in 0 .. Len(g) - 1 : Chosen(SubSeq(g, 1, k), g[k + 1])
  /\ g \in DOMAIN tree /\ ~IsDraw(tree[g]) /\ tree[g].error = "SUCCESS"

Names == {good[i] : i \in DOMAIN good}
SearchInv ==
  gen = "dfs" =>
    /\ TreeInv
    /\ StackInv
    /\ OnceInv
    /\ SkipInv
    /\ \A g \in Names : Written(g)

\* A program built again from its name.
DebugInv ==
  gen = "debug" =>
    LET g == Values(want) IN
      /\ DOMAIN want = 0 .. Len(g) - 1
      /\ Written(g)
      /\ error = "SUCCESS"
      /\ decision_depth = -1
      /\ running => /\ seq = want
                    /\ good = <<>>
                    /\ Len(path) <= Len(g)
                    /\ path = SubSeq(g, 1, Len(path))
                    /\ all_done <=> Len(path) = Len(g)
      /\ ~running => good = <<g>>

\* A random program as it is saved: the bound of each draw, and a value that
\* passed its filter.
Saved(s, p) ==
  /\ DOMAIN s = 0 .. Len(p) - 1
  /\ \A k \in 0 .. Len(p) - 1 :
       /\ SubSeq(p, 1, k) \in DOMAIN tree
       /\ IsDraw(tree[SubSeq(p, 1, k)])
       /\ s[k] = <<p[k + 1], tree[SubSeq(p, 1, k)].bound>>
       /\ p[k + 1] \in Passes(tree[SubSeq(p, 1, k)])
Ended(p) == p \in DOMAIN tree /\ ~IsDraw(tree[p]) /\ tree[p].error = "SUCCESS"

RandomInv ==
  gen \in {"default", "delta"} =>
    /\ Saved(seq, path)
    /\ ~running /\ error = "SUCCESS" => want = seq /\ Ended(path)
    /\ gen = "delta" /\ running =>
         LET g == Values(want) IN
           /\ g \in Seq(Nat)
           /\ Saved(want, g)
           /\ Ended(g)
           /\ Len(path) <= Len(g)
           /\ path = SubSeq(g, 1, Len(path))
    /\ gen = "delta" => error = "SUCCESS"

-----------------------------------------------------------------------------
(* The operators of the model.                                             *)

\* Every set of natural numbers that is not empty has a least element.
LEMMA LeastElement ==
  ASSUME NEW T, T \subseteq Nat, T # {}
  PROVE  \E x \in T : \A y \in T : x <= y
<1>1. IsWellFoundedOn(OpToRel(<, Nat), Nat)
  BY NatLessThanWellFounded
<1>2. PICK x \in T : \A y \in T : ~ (<<y, x>> \in OpToRel(<, Nat))
  BY <1>1, WFMin, Zenon
<1>3. ASSUME NEW y \in T
      PROVE  x <= y
  <2>1. x \in Nat /\ y \in Nat
    OBVIOUS
  <2>2. CASE y < x
    <3>1. <<y, x>> \in OpToRel(<, Nat)
      BY <2>1, <2>2 DEF OpToRel
    <3>2. QED
      BY <1>2, <3>1
  <2>3. QED
    BY <2>1, <2>2
<1>4. QED
  BY <1>3

\* The search for a value stops at the first that passes the filter, or at the
\* bound when none is left.
LEMMA FirstFromIs ==
  ASSUME NEW n, n.bound \in Nat, NEW v \in 0 .. n.bound
  PROVE  /\ FirstFrom(n, v) \in v .. n.bound
         /\ FirstFrom(n, v) \in Passes(n) \/ FirstFrom(n, v) = n.bound
         /\ \A w \in v .. FirstFrom(n, v) - 1 : w \notin Passes(n)
<1> DEFINE T == {u \in v .. n.bound : u \in Passes(n) \/ u = n.bound}
           First(u) == /\ u \in Passes(n) \/ u = n.bound
                       /\ \A w \in v .. u - 1 : w \notin Passes(n)
<1>1. T \subseteq Nat /\ n.bound \in T
  OBVIOUS
<1>2. PICK x \in T : \A y \in T : x <= y
  BY <1>1, LeastElement
<1>3. x \in v .. n.bound /\ First(x)
  <2>1. \A w \in v .. x - 1 : w \in Passes(n) => w \in T
    BY <1>1
  <2>2. \A w \in v .. x - 1 : w \notin Passes(n)
    BY <1>1, <1>2, <2>1
  <2>3. QED
    BY <1>2, <2>2
<1>4. FirstFrom(n, v) = CHOOSE u \in v .. n.bound : First(u)
  BY DEF FirstFrom
<1> HIDE DEF First
<1>5. FirstFrom(n, v) \in v .. n.bound /\ First(FirstFrom(n, v))
  BY <1>3, <1>4
<1>6. QED
  BY <1>5 DEF First

\* What the builder does at its place, it will do there again.
Grows(n) ==
  /\ DOMAIN tree' = DOMAIN tree \union {path}
  /\ tree'[path] = n
  /\ \A p \in DOMAIN tree : tree'[p] = tree[p]

\* What the builder has drawn it draws again.
LEMMA TreeGrows ==
  ASSUME NEW n \in Here, At(n)
  PROVE  Grows(n)
<1>1. tree' = With(tree, path, n)
  BY DEF At
<1>2. path \in DOMAIN tree => n = tree[path]
  BY DEF Here
<1>3. QED
  BY <1>1, <1>2 DEF With, Grows

\* The record grows by the value the builder is given.
LEMMA RecordGrows ==
  ASSUME NEW v, NEW n, NEW pos, Give(v, n, pos)
  PROVE  /\ DOMAIN seq' = DOMAIN seq \union {pos}
         /\ seq'[pos] = <<v, n.bound>>
         /\ \A k \in DOMAIN seq : k # pos => seq'[k] = seq[k]
BY DEF Give, With

\* The choices on the stack, as a sequence.
LEMMA StackIs ==
  ASSUME StackInv, NEW k \in 0 .. decision_depth + 1
  PROVE  /\ Stack(k) \in Seq(Nat)
         /\ Len(Stack(k)) = k
         /\ \A i \in 1 .. k : Stack(k)[i] = states[i - 1].value
<1>1. \A i \in 1 .. k : states[i - 1].value \in Nat
  BY MaxDepthAssumption DEF StackInv, Position
<1>2. k \in Nat
  BY MaxDepthAssumption DEF StackInv
<1>3. QED
  BY <1>1, <1>2 DEF Stack

\* A run of the builder has come up the stack.
LEMMA PathIsOnStack ==
  ASSUME StackInv, path \in Seq(Nat)
  PROVE  path = Stack(Len(path))
<1>1. Len(path) \in 0 .. decision_depth + 1
  BY DEF StackInv
<1>2. /\ Stack(Len(path)) \in Seq(Nat)
      /\ Len(Stack(Len(path))) = Len(path)
      /\ \A i \in 1 .. Len(path) : Stack(Len(path))[i] = path[i]
  BY <1>1, StackIs DEF StackInv
<1>3. QED
  BY <1>2, SeqEqual

-----------------------------------------------------------------------------
(* The exhaustive search, one draw at a time.                              *)

\* A draw of the search is made at or below the top of its stack, and below it
\* the draw is the one the stack was built by.
LEMMA SearchDraws ==
  ASSUME RecordInv, SearchInv, gen = "dfs", NEW n \in Here, Drawing(n)
  PROVE  /\ n.bound \in Nat \ {0}
         /\ path \in Seq(Nat)
         /\ current_pos \in Int /\ current_pos + 1 = Len(path)
         /\ Len(path) \in 0 .. decision_depth + 1
         /\ decision_depth \in -1 .. MaxDepth - 1
         /\ running /\ error = "SUCCESS" /\ ~all_done
         /\ Grows(n)
         /\ Len(path) <= decision_depth =>
              /\ n = tree[path]
              /\ Chosen(path, states[Len(path)].value)
              /\ Len(path) < MaxDepth /\ ~GuardFails(n, current_pos)
<1>1. TreeInv /\ StackInv
  BY DEF SearchInv
<1>2. running /\ error = "SUCCESS" /\ ~all_done
  BY <1>1 DEF Drawing, At, StackInv
<1>3. /\ path \in Seq(Nat) /\ Len(path) \in Nat /\ current_pos \in Int
      /\ current_pos + 1 = Len(path)
  BY <1>2 DEF RecordInv
<1>4. decision_depth \in -1 .. MaxDepth - 1 /\ Len(path) \in 0 .. decision_depth + 1
  BY <1>1, <1>3, MaxDepthAssumption DEF StackInv
<1>5. n.bound \in Nat \ {0}
  <2>1. n.bound > 0
    BY DEF Drawing, IsDraw
  <2>2. CASE path \in DOMAIN tree
    <3>1. n = tree[path]
      BY <2>2 DEF Here
    <3>2. QED
      BY <1>1, <2>1, <2>2, <3>1 DEF TreeInv
  <2>3. CASE n \in Finished(Len(path))
    BY <2>1, <2>3 DEF Finished
  <2>4. CASE n \in Draws(Len(path))
    BY <1>4, <2>4, BoundsAssumption, MaxDepthAssumption
  <2>5. QED
    BY <2>2, <2>3, <2>4 DEF Here
<1>6. Grows(n)
  BY TreeGrows DEF Drawing
<1>7. Len(path) <= decision_depth =>
        /\ n = tree[path]
        /\ Chosen(path, states[Len(path)].value)
        /\ Len(path) < MaxDepth /\ ~GuardFails(n, current_pos)
  <2> SUFFICES ASSUME Len(path) <= decision_depth
               PROVE  /\ n = tree[path]
                      /\ Chosen(path, states[Len(path)].value)
                      /\ Len(path) < MaxDepth /\ ~GuardFails(n, current_pos)
    OBVIOUS
  <2>1. Chosen(Stack(Len(path)), states[Len(path)].value)
    BY <1>1, <1>4 DEF StackInv
  <2>2. path = Stack(Len(path))
    BY <1>1, <1>3, PathIsOnStack
  <2>3. Chosen(path, states[Len(path)].value)
    BY <2>1, <2>2
  <2>4. n = tree[path]
    BY <2>3 DEF Chosen, Here
  <2>5. Len(path) < MaxDepth /\ ~GuardFails(tree[path], Len(path) - 1)
    BY <2>3 DEF Chosen, Allowed
  <2>6. current_pos = Len(path) - 1
    BY <1>3
  <2>7. QED
    BY <2>3, <2>4, <2>5, <2>6
<1>8. QED
  BY <1>2, <1>3, <1>4, <1>5, <1>6, <1>7

\* The tree stays well formed, and a draw stays what it is.
LEMMA TreeKeeps ==
  ASSUME TreeInv, path \in Seq(Nat), Len(path) <= MaxDepth,
         NEW n, n.bound \in Nat, Grows(n)
  PROVE  TreeInv'
<1>1. DOMAIN tree' \subseteq Seq(Nat)
  BY DEF TreeInv, Grows
<1>2. \A p \in DOMAIN tree' : tree'[p].bound \in Nat /\ Len(p) <= MaxDepth
  <2> SUFFICES ASSUME NEW p \in DOMAIN tree'
               PROVE  tree'[p].bound \in Nat /\ Len(p) <= MaxDepth
    OBVIOUS
  <2>1. CASE p = path
    BY <2>1 DEF Grows
  <2>2. CASE p # path
    <3>1. p \in DOMAIN tree /\ tree'[p] = tree[p]
      BY <2>2 DEF Grows
    <3>2. QED
      BY <3>1 DEF TreeInv
  <2>3. QED
    BY <2>1, <2>2
<1>3. <<>> \in DOMAIN tree' /\ IsDraw(tree'[<<>>])
  BY DEF TreeInv, Grows
<1>4. QED
  BY <1>1, <1>2, <1>3 DEF TreeInv

\* A value that was chosen at a node stays one of its choices.
LEMMA ChosenStays ==
  ASSUME NEW n, Grows(n), NEW p, NEW v, Chosen(p, v)
  PROVE  Chosen(p, v)'
<1>1. p \in DOMAIN tree' /\ tree'[p] = tree[p]
  BY DEF Chosen, Grows
<1>2. QED
  BY <1>1 DEF Chosen, Allowed, GuardFails, IsDraw, Passes

\* Programs that were written stay written.
LEMMA WrittenStays ==
  ASSUME NEW n, Grows(n), NEW g, Written(g)
  PROVE  Written(g)'
<1>1. g \in DOMAIN tree' /\ tree'[g] = tree[g]
  BY DEF Written, Grows
<1>2. \A k \in 0 .. Len(g) - 1 : Chosen(SubSeq(g, 1, k), g[k + 1])'
  <2> SUFFICES ASSUME NEW k \in 0 .. Len(g) - 1
               PROVE  Chosen(SubSeq(g, 1, k), g[k + 1])'
    OBVIOUS
  <2>1. PICK p : p = SubSeq(g, 1, k)
    OBVIOUS
  <2>2. PICK v : v = g[k + 1]
    OBVIOUS
  <2>3. Chosen(p, v)
    BY <2>1, <2>2 DEF Written
  <2>4. Chosen(p, v)'
    BY <2>3, ChosenStays
  <2>5. QED
    BY <2>1, <2>2, <2>4
<1>3. QED
  BY <1>1, <1>2 DEF Written, IsDraw

\* Forgetting leaves the values of the choices where they are.
LEMMA ForgetIs ==
  ASSUME states \in [Position -> [init : BOOLEAN, value : Nat]],
         NEW from \in Int, states' = Forget(from)
  PROVE  /\ states' \in [Position -> [init : BOOLEAN, value : Nat]]
         /\ \A i \in Position : /\ states'[i].value = states[i].value
                                /\ states'[i].init <=> states[i].init /\ i < from
<1>1. ASSUME NEW i \in Position
      PROVE  /\ states'[i] \in [init : BOOLEAN, value : Nat]
             /\ states'[i].value = states[i].value
             /\ states'[i].init <=> states[i].init /\ i < from
  <2>1. states[i] \in [init : BOOLEAN, value : Nat] /\ i \in Int
    BY DEF Position
  <2>2. PICK b \in BOOLEAN : b = IF i >= from THEN FALSE ELSE states[i].init
    BY <2>1
  <2>3. states'[i] = [states[i] EXCEPT !.init = b]
    BY <2>2 DEF Forget
  <2>4. /\ states'[i] \in [init : BOOLEAN, value : Nat]
        /\ states'[i].value = states[i].value
        /\ states'[i].init = b
    BY <2>1, <2>3
  <2>5. b <=> states[i].init /\ i < from
    BY <2>1, <2>2
  <2>6. QED
    BY <2>4, <2>5
<1>2. states' \in [Position -> [init : BOOLEAN, value : Nat]]
  BY <1>1 DEF Forget
<1>3. QED
  BY <1>1, <1>2

\* As long as the choices below k keep their values, so does that much of the
\* stack.
LEMMA StackKeeps ==
  ASSUME NEW k, \A i \in 1 .. k : states'[i - 1].value = states[i - 1].value
  PROVE  Stack(k)' = Stack(k)
BY DEF Stack

\* The builder is refused a value for a draw that may not be made here.
Refused(n) ==
  /\ Grows(n)
  /\ ~ Allowed(path)'
  /\ error' # "SUCCESS"
  /\ UNCHANGED <<gen, running, path, seq, good, decision_depth, all_done>>
  /\ states' \in [Position -> [init : BOOLEAN, value : Nat]]
  /\ \A i \in Position : /\ states'[i].value = states[i].value
                         /\ states'[i].init <=> states[i].init

\* EagerBacktracking leaves the stack alone: below its top the guard has let
\* the builder through before.
LEMMA EagerIsRefused ==
  ASSUME RecordInv, SearchInv, gen = "dfs", NEW n \in Here, EagerBacktracking(n)
  PROVE  Refused(n) /\ decision_depth >= 0
<1>1. Drawing(n) /\ GuardFails(n, current_pos)
  BY DEF EagerBacktracking
<1>2. /\ path \in Seq(Nat) /\ current_pos \in Int /\ current_pos + 1 = Len(path)
      /\ Len(path) \in 0 .. decision_depth + 1
      /\ decision_depth \in -1 .. MaxDepth - 1
      /\ Grows(n)
      /\ Len(path) <= decision_depth => ~GuardFails(n, current_pos)
  BY <1>1, SearchDraws
<1>3. current_pos = decision_depth
  BY <1>1, <1>2, MaxDepthAssumption
<1>4. decision_depth >= 0
  BY <1>1, <1>2, <1>3, MaxDepthAssumption DEF GuardFails
<1>5. decision_depth' = decision_depth /\ states' = Forget(decision_depth + 1)
  BY <1>2, <1>3, MaxDepthAssumption DEF EagerBacktracking
<1>6. StackInv
  BY DEF SearchInv
<1>7. /\ states' \in [Position -> [init : BOOLEAN, value : Nat]]
      /\ \A i \in Position : /\ states'[i].value = states[i].value
                             /\ states'[i].init <=> states[i].init /\ i < decision_depth + 1
  BY <1>2, <1>5, <1>6, ForgetIs, MaxDepthAssumption DEF StackInv
<1>8. \A i \in Position : states'[i].init <=> states[i].init
  BY <1>2, <1>6, <1>7, MaxDepthAssumption DEF StackInv, Position
<1>9. path' = path /\ error' # "SUCCESS"
      /\ UNCHANGED <<gen, running, seq, good, all_done>>
  BY DEF EagerBacktracking, Refuse
<1>10. ~ Allowed(path)'
  <2>1. tree'[path] = n
    BY <1>2 DEF Grows
  <2>2. Len(path) - 1 = current_pos
    BY <1>2
  <2>3. GuardFails(tree'[path], Len(path) - 1)
    BY <1>1, <2>1, <2>2
  <2>4. QED
    BY <1>9, <2>3 DEF Allowed, GuardFails
<1>11. QED
  BY <1>2, <1>4, <1>5, <1>7, <1>8, <1>9, <1>10 DEF Refused

\* Nor does the limit on the depth change it.
LEMMA TooDeepIsRefused ==
  ASSUME RecordInv, SearchInv, gen = "dfs", NEW n \in Here, TooDeep(n)
  PROVE  Refused(n) /\ decision_depth >= 0
<1>1. Drawing(n) /\ current_pos' = current_pos + 1
  BY DEF TooDeep, Choice
<1>2. /\ path \in Seq(Nat) /\ current_pos \in Int /\ current_pos + 1 = Len(path)
      /\ Len(path) \in 0 .. decision_depth + 1
      /\ decision_depth \in -1 .. MaxDepth - 1
      /\ Grows(n)
  BY <1>1, SearchDraws
<1>3. Len(path) >= MaxDepth
  BY <1>1, <1>2, MaxDepthAssumption DEF TooDeep
<1>4. decision_depth >= 0
  BY <1>2, <1>3, MaxDepthAssumption
<1>5. /\ path' = path /\ error' # "SUCCESS"
      /\ UNCHANGED <<gen, running, seq, good, all_done, states, decision_depth>>
  BY DEF TooDeep, Choice, Refuse, dfsVars
<1>6. ~ Allowed(path)'
  BY <1>2, <1>3, <1>5, MaxDepthAssumption DEF Allowed
<1>7. /\ states' \in [Position -> [init : BOOLEAN, value : Nat]]
      /\ \A i \in Position : /\ states'[i].value = states[i].value
                             /\ states'[i].init <=> states[i].init
  BY <1>5 DEF SearchInv, StackInv
<1>8. QED
  BY <1>2, <1>4, <1>5, <1>6, <1>7 DEF Refused

\* The part of the stack that keeps its values is still one of draws the
\* builder makes.
LEMMA StackStaysChosen ==
  ASSUME StackInv, NEW n, Grows(n), NEW m \in Int, m <= decision_depth,
         \A i \in 0 .. m : states'[i].value = states[i].value
  PROVE  \A k \in 0 .. m : Chosen(Stack(k), states[k].value)'
<1> SUFFICES ASSUME NEW k \in 0 .. m
             PROVE  Chosen(Stack(k), states[k].value)'
  OBVIOUS
<1>1. PICK p : p = Stack(k)
  OBVIOUS
<1>2. PICK v : v = states[k].value
  OBVIOUS
<1>3. Chosen(p, v)
  BY <1>1, <1>2, MaxDepthAssumption DEF StackInv
<1>4. Chosen(p, v)'
  BY <1>3, ChosenStays
<1>5. Stack(k)' = p
  BY <1>1, StackKeeps
<1>6. states'[k].value = v
  BY <1>2
<1>7. QED
  BY <1>4, <1>5, <1>6

\* A draw is still on the stack if the stack still reaches above it and has
\* kept its values up to there.
LEMMA OpenStays ==
  ASSUME NEW p \in Seq(Nat), Open(p), Len(p) <= decision_depth',
         \A i \in 0 .. Len(p) : states'[i].value = states[i].value
  PROVE  Open(p)' /\ states'[Len(p)].value = states[Len(p)].value
<1>1. PICK k \in Nat : k = Len(p)
  OBVIOUS
<1>2. Stack(k)' = Stack(k)
  BY <1>1, StackKeeps
<1>3. p = Stack(k)
  BY <1>1 DEF Open
<1>4. QED
  BY <1>1, <1>2, <1>3 DEF Open

\* What a step of the builder at its place has to show for nothing to be
\* skipped: what it has left of the choice it makes there, and that it leaves
\* the other draws on the stack.
LEMMA NothingIsLost ==
  ASSUME SkipInv, TreeInv, NEW n, Grows(n), NEW q \in Seq(Nat), q = path,
         \A p \in DOMAIN tree, v \in Nat :
           p # q /\ Open(p) /\ v > states[Len(p)].value =>
             (Open(p) /\ v > states[Len(p)].value)',
         IsDraw(n) /\ Allowed(q)' => \A v \in Passes(n) : Reached(q, v)',
         ~IsDraw(n) /\ n.error = "SUCCESS" => \E i \in DOMAIN good' : good'[i] = q,
         \A i \in DOMAIN good : i \in DOMAIN good' /\ good'[i] = good[i]
  PROVE  SkipInv'
<1> SUFFICES ASSUME NEW p \in DOMAIN tree'
             PROVE  /\ IsDraw(tree'[p]) /\ Allowed(p)' =>
                         \A v \in Passes(tree'[p]) : Reached(p, v)'
                    /\ ~IsDraw(tree'[p]) /\ tree'[p].error = "SUCCESS" =>
                         \E i \in DOMAIN good' : good'[i] = p
  BY DEF SkipInv, IsDraw, Passes
<1>1. CASE p = q
  <2>1. tree'[q] = n
    BY DEF Grows
  <2>2. QED
    BY <1>1, <2>1
<1>2. CASE p # q
  <2>1. p \in DOMAIN tree /\ tree'[p] = tree[p]
    BY <1>2 DEF Grows
  <2>2. ASSUME IsDraw(tree'[p]), Allowed(p)', NEW v \in Passes(tree'[p])
        PROVE  Reached(p, v)'
    <3>1. IsDraw(tree[p]) /\ Allowed(p) /\ v \in Passes(tree[p])
      BY <2>1, <2>2 DEF Allowed, GuardFails
    <3>2. v \in Nat
      BY <3>1 DEF Passes
    <3>3. Reached(p, v)
      BY <1>2, <2>1, <3>1 DEF SkipInv
    <3>4. CASE Append(p, v) \in DOMAIN tree \/ Append(p, v) = path
      BY <3>4 DEF Reached, Grows
    <3>5. CASE Open(p) /\ v > states[Len(p)].value
      BY <1>2, <2>1, <3>2, <3>5 DEF Reached
    <3>6. QED
      BY <3>3, <3>4, <3>5 DEF Reached
  <2>3. ASSUME ~IsDraw(tree'[p]), tree'[p].error = "SUCCESS"
        PROVE  \E i \in DOMAIN good' : good'[i] = p
    BY <2>1, <2>3 DEF SkipInv
  <2>4. QED
    BY <2>2, <2>3
<1>3. QED
  BY <1>1, <1>2

\* Taking choices off the stack leaves the last program behind it: what is left
\* is later than the program, or its beginning.
Cut ==
  /\ decision_depth \in -1 .. MaxDepth - 1 /\ decision_depth' \in -1 .. decision_depth
  /\ \A i \in 0 .. decision_depth' : states'[i].value = states[i].value
  /\ running' /\ error' = "SUCCESS" => Len(path') <= decision_depth'

\* What is behind the search stays behind it when the stack is cut.
LEMMA BehindStays ==
  ASSUME Cut, NEW g \in Seq(Nat), Beyond(g) \/ Within(g)
  PROVE  (Beyond(g) \/ Within(g))'
<1>1. PICK d \in Int : d = decision_depth
  BY MaxDepthAssumption DEF Cut
<1>2. PICK e \in Int : e = decision_depth'
  BY MaxDepthAssumption DEF Cut
<1>3. -1 <= e /\ e <= d
  BY <1>1, <1>2, MaxDepthAssumption DEF Cut
<1>4. \A i \in 0 .. e : states'[i].value = states[i].value
  BY <1>2 DEF Cut
<1>5. (running /\ error = "SUCCESS" => Len(path) <= decision_depth)'
  BY DEF Cut
<1>6. Len(g) \in Nat
  OBVIOUS
<1>7. CASE Within(g)
  <2>1. d + 1 <= Len(g) /\ \A j \in 1 .. d + 1 : g[j] = states[j - 1].value
    BY <1>1, <1>7 DEF Within
  <2>2. e + 1 <= Len(g)
    BY <1>3, <1>6, <2>1
  <2>3. \A j \in 1 .. e + 1 : j \in 1 .. d + 1 /\ j - 1 \in 0 .. e
    BY <1>3
  <2>4. \A j \in 1 .. e + 1 : g[j] = states'[j - 1].value
    BY <1>4, <2>1, <2>3
  <2>5. QED
    BY <1>2, <1>5, <2>2, <2>4 DEF Within
<1>8. CASE Beyond(g)
  <2>1. PICK k \in 1 .. Len(g) :
          /\ k <= decision_depth + 1
          /\ g[k] < states[k - 1].value
          /\ \A j \in 1 .. k - 1 : g[j] = states[j - 1].value
    BY <1>8 DEF Beyond
  <2>2. k \in Int /\ 1 <= k /\ k <= Len(g)
    BY <1>6
  <2>3. CASE k <= e + 1
    <3>1. \A j \in 1 .. k : j - 1 \in 0 .. e
      BY <1>3, <2>2, <2>3
    <3>2. \A j \in 1 .. k : states'[j - 1].value = states[j - 1].value
      BY <1>4, <3>1
    <3>3. g[k] < states'[k - 1].value /\ \A j \in 1 .. k - 1 : g[j] = states'[j - 1].value
      BY <2>1, <2>2, <3>2
    <3>4. QED
      BY <1>2, <2>2, <2>3, <3>3 DEF Beyond
  <2>4. CASE k > e + 1
    <3>1. e + 1 <= Len(g)
      BY <1>3, <1>6, <2>2, <2>4
    <3>2. \A j \in 1 .. e + 1 : j \in 1 .. k - 1 /\ j - 1 \in 0 .. e
      BY <1>3, <2>2, <2>4
    <3>3. \A j \in 1 .. e + 1 : g[j] = states'[j - 1].value
      BY <1>4, <2>1, <3>2
    <3>4. QED
      BY <1>2, <1>5, <3>1, <3>3 DEF Within
  <2>5. k <= e + 1 \/ k > e + 1
    BY <2>2
  <2>6. QED
    BY <2>3, <2>4, <2>5
<1>9. QED
  BY <1>7, <1>8

\* The invariant of the programs written so far, when none is added.
LEMMA OnceStays ==
  ASSUME OnceInv, UNCHANGED <<gen, good>>,
         \A g \in Seq(Nat) : Beyond(g) \/ Within(g) => (Beyond(g) \/ Within(g))'
  PROVE  OnceInv'
<1>1. good' = good /\ EachProgramOnce'
  BY DEF OnceInv, EachProgramOnce
<1>2. \A g \in LastWritten : g \in Seq(Nat) /\ (Beyond(g) \/ Within(g))
  BY DEF OnceInv, LastWritten
<1>3. LastWritten' = LastWritten
  BY <1>1 DEF LastWritten
<1>4. \A g \in LastWritten' : (Beyond(g) \/ Within(g))'
  BY <1>2, <1>3
<1>5. QED
  BY <1>1, <1>4 DEF OnceInv

\* The programs written so far stay written when none is added.
LEMMA NamesStay ==
  ASSUME \A g \in Names : Written(g), good' = good, NEW n, Grows(n)
  PROVE  \A g \in Names' : Written(g)'
<1>1. Names' = Names
  BY DEF Names
<1>2. QED
  BY <1>1, WrittenStays

\* The two ways to be refused change no choice.
LEMMA RefusedKeeps ==
  ASSUME RecordInv, SearchInv, gen = "dfs", NEW n \in Here, Drawing(n),
         Refused(n), decision_depth >= 0
  PROVE  SearchInv'
<1>1. /\ TreeInv /\ StackInv /\ OnceInv /\ SkipInv
      /\ \A g \in Names : Written(g)
  BY DEF SearchInv
<1>2. /\ n.bound \in Nat \ {0} /\ path \in Seq(Nat)
      /\ Len(path) \in 0 .. decision_depth + 1
      /\ decision_depth \in -1 .. MaxDepth - 1
      /\ running /\ error = "SUCCESS" /\ ~all_done /\ Grows(n)
  BY SearchDraws
<1>3. /\ UNCHANGED <<gen, running, path, seq, good, decision_depth, all_done>>
      /\ error' # "SUCCESS" /\ ~ Allowed(path)'
      /\ states' \in [Position -> [init : BOOLEAN, value : Nat]]
      /\ \A i \in Position : /\ states'[i].value = states[i].value
                             /\ states'[i].init <=> states[i].init
  BY DEF Refused
<1>4. \A i \in 0 .. decision_depth : states'[i].value = states[i].value
  BY <1>2, <1>3, MaxDepthAssumption DEF Position
<1>5. TreeInv'
  <2>1. Len(path) <= MaxDepth
    BY <1>2, MaxDepthAssumption
  <2>2. QED
    BY <1>1, <1>2, <2>1, TreeKeeps
<1>6. StackInv'
  <2>1. \A k \in 0 .. decision_depth : Chosen(Stack(k), states[k].value)'
    <3>1. PICK d \in Int : d = decision_depth
      BY <1>2, MaxDepthAssumption
    <3>2. d <= decision_depth
      BY <3>1
    <3>3. \A i \in 0 .. d : states'[i].value = states[i].value
      BY <1>4, <3>1
    <3>4. \A k \in 0 .. d : Chosen(Stack(k), states[k].value)'
      BY <1>1, <1>2, <3>2, <3>3, StackStaysChosen
    <3>5. QED
      BY <3>1, <3>4
  <2>2. \A i \in 1 .. Len(path) : path[i] = states'[i - 1].value
    <3>1. \A i \in 1 .. Len(path) : i - 1 \in 0 .. decision_depth
      BY <1>2, MaxDepthAssumption
    <3>2. QED
      BY <1>1, <1>4, <3>1 DEF StackInv
  <2>3. QED
    BY <1>1, <1>2, <1>3, <2>1, <2>2 DEF StackInv
<1>7. OnceInv'
  <2>1. \A g \in Seq(Nat) : Beyond(g) \/ Within(g) => (Beyond(g) \/ Within(g))'
    <3>1. Cut
      BY <1>2, <1>3, <1>4, MaxDepthAssumption DEF Cut
    <3>2. QED
      BY <3>1, BehindStays
  <2>2. QED
    BY <1>1, <1>3, <2>1, OnceStays
<1>8. SkipInv'
  <2>1. PICK q \in Seq(Nat) : q = path
    BY <1>2
  <2>2. ASSUME NEW p \in DOMAIN tree, NEW v \in Nat, Open(p), v > states[Len(p)].value
        PROVE  (Open(p) /\ v > states[Len(p)].value)'
    <3>1. p \in Seq(Nat) /\ Len(p) <= decision_depth
      BY <1>1, <2>2 DEF TreeInv, Open
    <3>2. \A i \in 0 .. Len(p) : states'[i].value = states[i].value
      BY <1>2, <1>4, <3>1, MaxDepthAssumption
    <3>3. Open(p)' /\ states'[Len(p)].value = states[Len(p)].value
      BY <1>3, <2>2, <3>1, <3>2, OpenStays
    <3>4. QED
      BY <2>2, <3>3
  <2>3. ~ Allowed(q)'
    BY <1>3, <2>1
  <2>4. IsDraw(n)
    BY DEF Drawing
  <2>5. \A i \in DOMAIN good : i \in DOMAIN good' /\ good'[i] = good[i]
    BY <1>3
  <2>6. QED
    BY <1>1, <1>2, <2>1, <2>2, <2>3, <2>4, <2>5, NothingIsLost
<1>9. \A g \in Names' : Written(g)'
  BY <1>1, <1>2, <1>3, NamesStay
<1>10. QED
  BY <1>5, <1>6, <1>7, <1>8, <1>9 DEF SearchInv

\* Going up the stack changes nothing but how far the builder has come.
LEMMA RevisitKeeps ==
  ASSUME RecordInv, SearchInv, gen = "dfs", NEW n \in Here, Revisit(n)
  PROVE  SearchInv'
<1>1. /\ TreeInv /\ StackInv /\ OnceInv /\ SkipInv
      /\ \A g \in Names : Written(g)
  BY DEF SearchInv
<1>2. Drawing(n) /\ current_pos' = current_pos + 1
  BY DEF Revisit, InDepth, Choice
<1>3. /\ n.bound \in Nat \ {0} /\ path \in Seq(Nat)
      /\ current_pos \in Int /\ current_pos + 1 = Len(path)
      /\ Len(path) \in 0 .. decision_depth + 1
      /\ decision_depth \in -1 .. MaxDepth - 1
      /\ running /\ error = "SUCCESS" /\ ~all_done /\ Grows(n)
      /\ Len(path) <= decision_depth => n = tree[path] /\ Chosen(path, states[Len(path)].value)
  BY <1>2, SearchDraws
<1>4. PICK k \in Nat : k = Len(path)
  BY <1>3
<1>5. current_pos' = k /\ k < decision_depth
  BY <1>2, <1>3, <1>4 DEF Revisit
<1>6. PICK v \in Nat : v = states[k].value
  BY <1>1, <1>3, <1>4, <1>5, MaxDepthAssumption DEF StackInv, Position
<1>7. /\ path' = Append(path, v) /\ error' = "SUCCESS"
      /\ UNCHANGED <<gen, running, good, states, decision_depth, all_done>>
  BY <1>5, <1>6 DEF Revisit, InDepth, Choice, Give, dfsVars
<1>8. /\ path' \in Seq(Nat) /\ Len(path') = k + 1
      /\ \A i \in 1 .. k : path'[i] = path[i]
      /\ path'[k + 1] = v
  BY <1>3, <1>4, <1>7
<1>9. path \in DOMAIN tree
  BY <1>3, <1>4, <1>5 DEF Chosen
<1>10. TreeInv'
  <2>1. Len(path) <= MaxDepth
    BY <1>3, MaxDepthAssumption
  <2>2. QED
    BY <1>1, <1>3, <2>1, TreeKeeps
<1>11. StackInv'
  <2>1. PICK d \in Int : d = decision_depth
    BY <1>3, MaxDepthAssumption
  <2>2. d <= decision_depth /\ k < d
    BY <1>5, <2>1
  <2>3. \A m \in 0 .. d : Chosen(Stack(m), states[m].value)'
    BY <1>1, <1>3, <1>7, <2>2, StackStaysChosen
  <2>4. \A i \in 1 .. k : path[i] = states[i - 1].value
    BY <1>1, <1>4 DEF StackInv
  <2>5. \A i \in 1 .. k + 1 : path'[i] = states[i - 1].value
    <3>1. path'[k + 1] = states[(k + 1) - 1].value
      BY <1>6, <1>8
    <3>2. \A i \in 1 .. k + 1 : i \in 1 .. k \/ i = k + 1
      OBVIOUS
    <3>3. QED
      BY <1>8, <2>4, <3>1, <3>2
  <2>6. Len(path') <= decision_depth + 1
    BY <1>8, <2>1, <2>2
  <2>7. decision_depth # -1
    BY <2>1, <2>2
  <2>8. QED
    BY <1>1, <1>3, <1>7, <1>8, <2>1, <2>3, <2>5, <2>6, <2>7 DEF StackInv
<1>12. OnceInv'
  <2>1. Len(path') <= decision_depth'
    BY <1>5, <1>7, <1>8, <1>3, MaxDepthAssumption
  <2>2. Cut
    BY <1>3, <1>7, <2>1, MaxDepthAssumption DEF Cut
  <2>3. \A g \in Seq(Nat) : Beyond(g) \/ Within(g) => (Beyond(g) \/ Within(g))'
    BY <2>2, BehindStays
  <2>4. QED
    BY <1>1, <1>7, <2>3, OnceStays
<1>13. SkipInv'
  <2>1. PICK q \in Seq(Nat) : q = path
    BY <1>3
  <2>2. ASSUME NEW p \in DOMAIN tree, NEW u \in Nat, Open(p), u > states[Len(p)].value
        PROVE  (Open(p) /\ u > states[Len(p)].value)'
    <3>1. p \in Seq(Nat) /\ Len(p) <= decision_depth
      BY <1>1, <2>2 DEF TreeInv, Open
    <3>2. Open(p)' /\ states'[Len(p)].value = states[Len(p)].value
      BY <1>7, <2>2, <3>1, OpenStays
    <3>3. QED
      BY <2>2, <3>2
  <2>3. ASSUME IsDraw(n), Allowed(q)', NEW u \in Passes(n)
        PROVE  Reached(q, u)'
    <3>1. q \in DOMAIN tree /\ n = tree[q] /\ Len(q) = k
      BY <1>3, <1>4, <1>5, <1>9, <2>1
    <3>2. IsDraw(tree[q]) /\ Allowed(q) /\ u \in Passes(tree[q])
      BY <1>3, <1>4, <1>5, <2>1, <2>3, <3>1 DEF Chosen
    <3>3. Len(q) # decision_depth + 1
      BY <1>5, <1>3, <3>1, MaxDepthAssumption
    <3>4. Reached(q, u)
      BY <1>1, <3>1, <3>2, <3>3 DEF SkipInv
    <3>5. u \in Nat /\ Append(q, u) # q
      <4>1. u \in Nat
        BY <1>3, <2>3 DEF Passes
      <4>2. Len(Append(q, u)) # Len(q)
        BY <2>1, <4>1
      <4>3. QED
        BY <4>1, <4>2
    <3>6. CASE Append(q, u) \in DOMAIN tree
      BY <1>3, <3>6 DEF Reached, Grows
    <3>7. CASE Open(q) /\ u > states[Len(q)].value
      BY <2>2, <3>1, <3>5, <3>7 DEF Reached
    <3>8. QED
      BY <2>1, <3>4, <3>5, <3>6, <3>7 DEF Reached
  <2>4. IsDraw(n)
    BY <1>2 DEF Drawing
  <2>5. \A i \in DOMAIN good : i \in DOMAIN good' /\ good'[i] = good[i]
    BY <1>7
  <2>6. QED
    BY <1>1, <1>3, <2>1, <2>2, <2>3, <2>4, <2>5, NothingIsLost
<1>14. \A g \in Names' : Written(g)'
  BY <1>1, <1>3, <1>7, NamesStay
<1>15. QED
  BY <1>10, <1>11, <1>12, <1>13, <1>14 DEF SearchInv

\* A branch is switched at the top of the stack, to the next value that passes
\* the filter.
LEMMA SwitchIsAtTop ==
  ASSUME RecordInv, SearchInv, gen = "dfs", NEW n \in Here, SwitchBranch(n)
  PROVE  \E k \in Nat, old \in Passes(n), v \in Nat :
           /\ k = Len(path) /\ k = decision_depth /\ k = current_pos + 1 /\ k < MaxDepth
           /\ n = tree[path] /\ path \in DOMAIN tree /\ Allowed(path)
           /\ old = states[k].value /\ v = NextValue(n)
           /\ old < v /\ v <= n.bound
           /\ v < n.bound => v \in Passes(n)
           /\ \A w \in Passes(n) : w <= old \/ w >= v
<1>1. Drawing(n) /\ current_pos' = current_pos + 1 /\ current_pos' < MaxDepth
  BY DEF SwitchBranch, InDepth, Choice
<1>2. /\ n.bound \in Nat \ {0} /\ path \in Seq(Nat)
      /\ current_pos \in Int /\ current_pos + 1 = Len(path)
      /\ Len(path) \in 0 .. decision_depth + 1
      /\ decision_depth \in -1 .. MaxDepth - 1
      /\ Len(path) <= decision_depth => n = tree[path] /\ Chosen(path, states[Len(path)].value)
  BY <1>1, SearchDraws
<1>3. PICK k \in Nat : k = Len(path)
  BY <1>2
<1>4. current_pos' = k /\ k < MaxDepth /\ k = current_pos + 1
  BY <1>1, <1>2, <1>3
<1>5. k = decision_depth
  <2>1. states[k].init /\ k >= decision_depth
    BY <1>4 DEF SwitchBranch
  <2>2. k \in Position
    BY <1>4, MaxDepthAssumption DEF Position
  <2>3. k <= decision_depth
    BY <2>1, <2>2 DEF SearchInv, StackInv
  <2>4. QED
    BY <1>2, <2>1, <2>3, MaxDepthAssumption
<1>6. n = tree[path] /\ Chosen(path, states[k].value)
  BY <1>2, <1>3, <1>5, MaxDepthAssumption
<1>7. PICK old \in Passes(n) : old = states[k].value
  BY <1>6 DEF Chosen
<1>8. old \in Nat /\ old + 1 \in 0 .. n.bound
  BY <1>2, <1>7 DEF Passes
<1>9. NextValue(n) = FirstFrom(n, old + 1)
  BY <1>4, <1>7 DEF NextValue
<1>10. /\ FirstFrom(n, old + 1) \in old + 1 .. n.bound
       /\ FirstFrom(n, old + 1) \in Passes(n) \/ FirstFrom(n, old + 1) = n.bound
       /\ \A w \in old + 1 .. FirstFrom(n, old + 1) - 1 : w \notin Passes(n)
  BY <1>2, <1>8, FirstFromIs
<1>11. PICK v \in Nat : v = FirstFrom(n, old + 1)
  BY <1>2, <1>8, <1>10
<1>12. old < v /\ v <= n.bound /\ (v < n.bound => v \in Passes(n))
  BY <1>2, <1>8, <1>10, <1>11
<1>13. \A w \in Passes(n) : w <= old \/ w >= v
  <2> SUFFICES ASSUME NEW w \in Passes(n), ~ (w <= old), ~ (w >= v)
               PROVE  FALSE
    OBVIOUS
  <2>1. w \in Int
    BY DEF Passes
  <2>2. w \in old + 1 .. v - 1
    BY <1>8, <2>1
  <2>3. QED
    BY <1>10, <1>11, <2>2
<1>14. path \in DOMAIN tree /\ Allowed(path)
  BY <1>6 DEF Chosen
<1>15. QED
  BY <1>3, <1>4, <1>5, <1>6, <1>7, <1>9, <1>11, <1>12, <1>13, <1>14

\* A choice at the top of the stack is changed to a later value.
LEMMA SwitchGivesKeeps ==
  ASSUME RecordInv, SearchInv, gen = "dfs", NEW n \in Here, SwitchBranch(n),
         NextValue(n) < n.bound
  PROVE  SearchInv'
<1>1. /\ TreeInv /\ StackInv /\ OnceInv /\ SkipInv
      /\ \A g \in Names : Written(g)
  BY DEF SearchInv
<1>2. Drawing(n) /\ current_pos' = current_pos + 1
  BY DEF SwitchBranch, InDepth, Choice
<1>3. /\ n.bound \in Nat \ {0} /\ path \in Seq(Nat)
      /\ running /\ error = "SUCCESS" /\ ~all_done /\ Grows(n)
  BY <1>2, SearchDraws
<1>4. PICK k \in Nat, old \in Passes(n), v \in Nat :
           /\ k = Len(path) /\ k = decision_depth /\ k = current_pos + 1 /\ k < MaxDepth
           /\ n = tree[path] /\ path \in DOMAIN tree /\ Allowed(path)
           /\ old = states[k].value /\ v = NextValue(n)
           /\ old < v /\ v <= n.bound
           /\ v < n.bound => v \in Passes(n)
           /\ \A w \in Passes(n) : w <= old \/ w >= v
  BY SwitchIsAtTop
<1>5. v \in Passes(n) /\ old \in Nat
  BY <1>3, <1>4 DEF Passes
<1>6. /\ path' = Append(path, v) /\ error' = "SUCCESS"
      /\ states' = [states EXCEPT ![k].value = v]
      /\ UNCHANGED <<gen, running, good, decision_depth, all_done>>
  BY <1>4 DEF SwitchBranch, InDepth, Choice, Give
<1>7. k \in Position
  BY <1>4, MaxDepthAssumption DEF Position
<1>8. /\ states' \in [Position -> [init : BOOLEAN, value : Nat]]
      /\ \A i \in Position : states'[i].init <=> states[i].init
      /\ states'[k].value = v
      /\ \A i \in Position : i # k => states'[i].value = states[i].value
  <2>1. states \in [Position -> [init : BOOLEAN, value : Nat]]
    BY <1>1 DEF StackInv
  <2>2. QED
    BY <1>6, <1>7, <2>1
<1>9. /\ path' \in Seq(Nat) /\ Len(path') = k + 1
      /\ \A i \in 1 .. k : path'[i] = path[i]
      /\ path'[k + 1] = v
  <2>1. Len(path) = k
    BY <1>4
  <2>2. QED
    BY <1>3, <1>6, <2>1
<1>10. \A i \in 0 .. k - 1 : states'[i].value = states[i].value
  <2>1. \A i \in 0 .. k - 1 : i \in Position /\ i # k
    BY <1>7, MaxDepthAssumption DEF Position
  <2>2. QED
    BY <1>8, <2>1
<1>11. TreeInv'
  <2>1. Len(path) <= MaxDepth
    BY <1>4, MaxDepthAssumption
  <2>2. QED
    BY <1>1, <1>3, <2>1, TreeKeeps
<1>12. StackInv'
  <2>1. k - 1 \in Int /\ k - 1 <= decision_depth
    BY <1>4
  <2>2. \A m \in 0 .. k - 1 : Chosen(Stack(m), states[m].value)'
    BY <1>1, <1>3, <1>10, <2>1, StackStaysChosen
  <2>3. Chosen(Stack(k), states[k].value)'
    <3>1. PICK p : p = path
      OBVIOUS
    <3>2. Chosen(p, v)
      BY <1>3, <1>4, <1>5, <3>1, <1>2 DEF Chosen, Drawing
    <3>3. Chosen(p, v)'
      BY <1>3, <3>2, ChosenStays
    <3>4. p = Stack(k)
      BY <1>1, <1>3, <1>4, <3>1, PathIsOnStack
    <3>5. \A i \in 1 .. k : states'[i - 1].value = states[i - 1].value
      BY <1>10
    <3>6. Stack(k)' = p
      BY <3>4, <3>5, StackKeeps
    <3>7. QED
      BY <1>8, <3>3, <3>6
  <2>4. \A m \in 0 .. k : Chosen(Stack(m), states[m].value)'
    <3>1. \A m \in 0 .. k : m \in 0 .. k - 1 \/ m = k
      OBVIOUS
    <3>2. QED
      BY <2>2, <2>3, <3>1
  <2>5. \A i \in 1 .. k : path[i] = states[i - 1].value
    BY <1>1, <1>4 DEF StackInv
  <2>6. \A i \in 1 .. k + 1 : path'[i] = states'[i - 1].value
    <3>1. path'[k + 1] = states'[(k + 1) - 1].value
      BY <1>8, <1>9
    <3>2. \A i \in 1 .. k + 1 : i = k + 1 \/ (i \in 1 .. k /\ i - 1 \in 0 .. k - 1)
      OBVIOUS
    <3>3. QED
      BY <1>9, <1>10, <2>5, <3>1, <3>2
  <2>7. decision_depth' \in -1 .. MaxDepth - 1 /\ decision_depth' # -1 /\ k = decision_depth'
    <3>1. decision_depth' = k /\ k < MaxDepth
      BY <1>4, <1>6
    <3>2. k \in -1 .. MaxDepth - 1 /\ k # -1
      BY <3>1, MaxDepthAssumption
    <3>3. QED
      BY <3>1, <3>2
  <2>8. \A i \in Position : states'[i].init <=> i <= decision_depth'
    BY <1>1, <1>6, <1>8 DEF StackInv
  <2>9. QED
    BY <1>3, <1>6, <1>8, <1>9, <2>4, <2>6, <2>7, <2>8 DEF StackInv
<1>13. OnceInv'
  <2>1. ASSUME NEW g \in Seq(Nat), Beyond(g) \/ Within(g)
        PROVE  Beyond(g)'
    <3>1. Len(g) \in Nat
      OBVIOUS
    <3>2. decision_depth' = k
      BY <1>4, <1>6
    <3>3. CASE Within(g)
      <4>1. k + 1 \in 1 .. Len(g) /\ \A j \in 1 .. k + 1 : g[j] = states[j - 1].value
        BY <1>4, <3>1, <3>3 DEF Within
      <4>2. g[k + 1] = old
        BY <1>4, <4>1
      <4>3. \A j \in 1 .. (k + 1) - 1 : g[j] = states'[j - 1].value
        BY <1>10, <4>1
      <4>4. g[k + 1] < states'[(k + 1) - 1].value
        BY <1>4, <1>5, <1>8, <4>2
      <4>5. k + 1 <= decision_depth' + 1
        BY <3>2
      <4>6. QED
        BY <4>1, <4>3, <4>4, <4>5 DEF Beyond
    <3>4. CASE Beyond(g)
      <4>1. PICK m \in 1 .. Len(g) :
              /\ m <= k + 1
              /\ g[m] < states[m - 1].value
              /\ \A j \in 1 .. m - 1 : g[j] = states[j - 1].value
        BY <1>4, <3>4 DEF Beyond
      <4>2. m \in Int /\ 1 <= m /\ m <= Len(g) /\ g[m] \in Nat
        BY <3>1
      <4>3. \A j \in 1 .. m - 1 : g[j] = states'[j - 1].value
        <5>1. \A j \in 1 .. m - 1 : j - 1 \in 0 .. k - 1
          BY <4>1, <4>2
        <5>2. QED
          BY <1>10, <4>1, <5>1
      <4>4. CASE m = k + 1
        <5>1. g[m] < v
          BY <1>4, <1>5, <4>1, <4>2, <4>4
        <5>2. g[m] < states'[m - 1].value
          <6>1. m - 1 = k
            BY <4>4
          <6>2. QED
            BY <1>8, <5>1, <6>1
        <5>3. m <= decision_depth' + 1
          BY <3>2, <4>1
        <5>4. QED
          BY <4>1, <4>3, <5>2, <5>3 DEF Beyond
      <4>5. CASE m # k + 1
        <5>1. m - 1 \in 0 .. k - 1
          BY <4>1, <4>2, <4>5
        <5>2. g[m] < states'[m - 1].value
          BY <1>10, <4>1, <5>1
        <5>3. QED
          BY <3>2, <4>1, <4>3, <5>2 DEF Beyond
      <4>6. QED
        BY <4>4, <4>5
    <3>5. QED
      BY <2>1, <3>3, <3>4
  <2>2. QED
    BY <1>1, <1>6, <2>1, OnceStays
<1>14. SkipInv'
  <2>1. PICK q \in Seq(Nat) : q = path
    BY <1>3
  <2>2. Len(q) = k /\ q = Stack(k) /\ q \in DOMAIN tree /\ n = tree[q]
    BY <1>1, <1>3, <1>4, <2>1, PathIsOnStack
  <2>3. ASSUME NEW p \in DOMAIN tree, NEW u \in Nat, p # q, Open(p), u > states[Len(p)].value
        PROVE  (Open(p) /\ u > states[Len(p)].value)'
    <3>1. p \in Seq(Nat) /\ Len(p) <= decision_depth /\ p = Stack(Len(p))
      BY <1>1, <2>3 DEF TreeInv, Open
    <3>2. Len(p) # k
      BY <2>2, <2>3, <3>1
    <3>3. Len(p) \in Nat /\ Len(p) < k
      BY <1>4, <3>1, <3>2
    <3>4. \A i \in 0 .. Len(p) : states'[i].value = states[i].value
      BY <1>10, <3>3
    <3>5. Len(p) <= decision_depth'
      BY <1>6, <3>1
    <3>6. Open(p)' /\ states'[Len(p)].value = states[Len(p)].value
      BY <2>3, <3>1, <3>4, <3>5, OpenStays
    <3>7. QED
      BY <2>3, <3>6
  <2>4. ASSUME IsDraw(n), Allowed(q)', NEW u \in Passes(n)
        PROVE  Reached(q, u)'
    <3>1. u \in Nat /\ Append(q, u) # q
      <4>1. u \in Nat
        BY <1>3, <2>4 DEF Passes
      <4>2. Len(Append(q, u)) # Len(q)
        BY <2>1, <4>1
      <4>3. QED
        BY <4>1, <4>2
    <3>2. CASE u <= old
      <4>1. Allowed(q) /\ Len(q) # decision_depth + 1
        <5>1. Allowed(path)
          BY <1>4
        <5>2. k # decision_depth + 1
          BY <1>4
        <5>3. QED
          BY <2>1, <2>2, <5>1, <5>2
      <4>2. Reached(q, u)
        BY <1>1, <2>2, <2>4, <4>1 DEF SkipInv
      <4>3. ~ (u > states[Len(q)].value)
        BY <1>4, <1>5, <2>2, <3>1, <3>2
      <4>4. Append(q, u) \in DOMAIN tree
        BY <2>1, <3>1, <4>2, <4>3 DEF Reached
      <4>5. QED
        BY <1>3, <4>4 DEF Reached, Grows
    <3>3. CASE u = v
      BY <1>3, <1>6, <2>1, <3>3 DEF Reached, Busy
    <3>4. CASE u > v
      <4>1. \A i \in 1 .. Len(q) : states'[i - 1].value = states[i - 1].value
        BY <1>10, <2>2
      <4>2. Stack(Len(q))' = Stack(Len(q))
        BY <4>1, StackKeeps
      <4>3. Open(q)'
        <5>1. Len(q) <= decision_depth'
          <6>1. decision_depth' = k
            BY <1>4, <1>6
          <6>2. k <= k
            OBVIOUS
          <6>3. QED
            BY <2>2, <6>1, <6>2
        <5>2. q = Stack(Len(q))
          BY <2>2
        <5>3. QED
          BY <4>2, <5>1, <5>2 DEF Open
      <4>4. QED
        BY <1>8, <2>2, <3>4, <4>3 DEF Reached
    <3>5. u <= old \/ u = v \/ u > v
      BY <1>4, <3>1
    <3>6. QED
      BY <3>2, <3>3, <3>4, <3>5
  <2>5. IsDraw(n)
    BY <1>2 DEF Drawing
  <2>6. \A i \in DOMAIN good : i \in DOMAIN good' /\ good'[i] = good[i]
    BY <1>6
  <2>7. QED
    BY <1>1, <1>3, <2>1, <2>3, <2>4, <2>5, <2>6, NothingIsLost
<1>15. \A g \in Names' : Written(g)'
  BY <1>1, <1>3, <1>6, NamesStay
<1>16. QED
  BY <1>11, <1>12, <1>13, <1>14, <1>15 DEF SearchInv

\* No value is left at place k of the stack, where the builder is: the choice
\* below is on top now.
OutOfValues(n, k) ==
  /\ k = Len(path) /\ decision_depth \in {k - 1, k}
  /\ error' # "SUCCESS"
  /\ states' = Forget(k)
  /\ decision_depth' = k - 1
  /\ all_done' = (all_done \/ decision_depth' < 0)
  /\ UNCHANGED <<gen, running, path, good>>
  /\ \A v \in Passes(n) : Append(path, v) \in DOMAIN tree

\* A choice without a value left is given up with all that is below it.
LEMMA ExhaustedKeeps ==
  ASSUME RecordInv, SearchInv, gen = "dfs", NEW n \in Here, Drawing(n),
         NEW k \in 0 .. MaxDepth - 1, OutOfValues(n, k)
  PROVE  SearchInv'
<1>1. /\ TreeInv /\ StackInv /\ OnceInv /\ SkipInv
      /\ \A g \in Names : Written(g)
  BY DEF SearchInv
<1>2. /\ n.bound \in Nat \ {0} /\ path \in Seq(Nat)
      /\ decision_depth \in -1 .. MaxDepth - 1
      /\ running /\ error = "SUCCESS" /\ ~all_done /\ Grows(n)
  BY SearchDraws
<1>3. k \in Nat /\ k < MaxDepth /\ k - 1 \in Int
  BY MaxDepthAssumption
<1>4. k = Len(path) /\ decision_depth' = k - 1 /\ UNCHANGED <<gen, running, path, good>>
  BY DEF OutOfValues
<1>5. k - 1 <= decision_depth /\ decision_depth <= k
  BY <1>3 DEF OutOfValues
<1>6. /\ states' \in [Position -> [init : BOOLEAN, value : Nat]]
      /\ \A i \in Position : /\ states'[i].value = states[i].value
                             /\ states'[i].init <=> states[i].init /\ i < k
  <2>1. states' = Forget(k) /\ k \in Int
    BY <1>3 DEF OutOfValues
  <2>2. QED
    BY <1>1, <2>1, ForgetIs DEF StackInv
<1>7. \A i \in 0 .. k - 1 : states'[i].value = states[i].value
  <2>1. \A i \in 0 .. k - 1 : i \in Position
    BY <1>3, MaxDepthAssumption DEF Position
  <2>2. QED
    BY <1>6, <2>1
<1>8. TreeInv'
  <2>1. Len(path) <= MaxDepth
    BY <1>3, <1>4, MaxDepthAssumption
  <2>2. QED
    BY <1>1, <1>2, <2>1, TreeKeeps
<1>9. StackInv'
  <2>1. \A m \in 0 .. k - 1 : Chosen(Stack(m), states[m].value)'
    BY <1>1, <1>2, <1>7, <1>3, <1>5, StackStaysChosen
  <2>2. \A i \in 1 .. k : path'[i] = states'[i - 1].value
    <3>1. \A i \in 1 .. k : i - 1 \in 0 .. k - 1
      BY <1>3
    <3>2. \A i \in 1 .. k : path[i] = states[i - 1].value
      BY <1>1, <1>4 DEF StackInv
    <3>3. QED
      BY <1>7, <1>4, <3>1, <3>2
  <2>3. PICK d \in Int : d = decision_depth
    BY <1>2, MaxDepthAssumption
  <2>4. \A i \in Position : states'[i].init <=> i <= k - 1
    <3>1. \A i \in Position : i \in Int /\ (states[i].init <=> i <= d)
      BY <1>1, <2>3, MaxDepthAssumption DEF StackInv, Position
    <3>2. k - 1 <= d
      BY <1>5, <2>3
    <3>3. \A i \in Position : (i <= d /\ i < k) <=> i <= k - 1
      BY <1>3, <3>1, <3>2
    <3>4. QED
      BY <1>6, <3>1, <3>3
  <2>5. k - 1 \in -1 .. MaxDepth - 1 /\ (k - 1 < 0 <=> k - 1 = -1) /\ k <= (k - 1) + 1
    BY <1>3, MaxDepthAssumption
  <2>6. all_done' <=> decision_depth' = -1
    BY <1>2, <1>4, <2>5 DEF OutOfValues
  <2>7. running' /\ Len(path') = k /\ error' # "SUCCESS"
    BY <1>2, <1>4 DEF OutOfValues
  <2>8. QED
    BY <1>6, <1>4, <2>1, <2>2, <2>4, <2>5, <2>6, <2>7 DEF StackInv
<1>10. OnceInv'
  <2>1. Cut
    <3>1. k - 1 \in -1 .. decision_depth
      BY <1>2, <1>3, <1>5, MaxDepthAssumption
    <3>2. error' # "SUCCESS"
      BY DEF OutOfValues
    <3>3. QED
      BY <1>2, <1>7, <1>4, <3>1, <3>2 DEF Cut
  <2>2. \A g \in Seq(Nat) : Beyond(g) \/ Within(g) => (Beyond(g) \/ Within(g))'
    BY <2>1, BehindStays
  <2>3. QED
    BY <1>1, <1>4, <2>2, OnceStays
<1>11. SkipInv'
  <2>1. PICK q \in Seq(Nat) : q = path
    BY <1>2
  <2>2. ASSUME NEW p \in DOMAIN tree, NEW u \in Nat, p # q, Open(p), u > states[Len(p)].value
        PROVE  (Open(p) /\ u > states[Len(p)].value)'
    <3>1. p \in Seq(Nat) /\ Len(p) \in Nat /\ Len(p) <= decision_depth /\ p = Stack(Len(p))
      BY <1>1, <2>2 DEF TreeInv, Open
    <3>2. q = Stack(k)
      BY <1>1, <1>2, <1>4, <2>1, PathIsOnStack
    <3>3. Len(p) # k
      BY <2>2, <3>1, <3>2
    <3>4. CASE Len(p) < k
      <4>1. Len(p) <= decision_depth'
        <5>1. Len(p) <= k - 1
          BY <1>3, <3>1, <3>4
        <5>2. QED
          BY <1>4, <5>1
      <4>2. \A i \in 0 .. Len(p) : states'[i].value = states[i].value
        BY <1>7, <1>3, <3>1, <3>4
      <4>3. Open(p)' /\ states'[Len(p)].value = states[Len(p)].value
        BY <2>2, <3>1, <4>1, <4>2, OpenStays
      <4>4. QED
        BY <2>2, <4>3
    <3>5. Len(p) <= k
      BY <1>2, <1>3, <1>5, <3>1, MaxDepthAssumption
    <3>6. Len(p) < k
      BY <1>3, <3>1, <3>3, <3>5
    <3>7. QED
      BY <3>4, <3>6
  <2>3. ASSUME IsDraw(n), Allowed(q)', NEW u \in Passes(n)
        PROVE  Reached(q, u)'
    BY <1>2, <2>1, <2>3 DEF Reached, Grows, OutOfValues
  <2>4. IsDraw(n)
    BY DEF Drawing
  <2>5. \A i \in DOMAIN good : i \in DOMAIN good' /\ good'[i] = good[i]
    BY <1>4
  <2>6. QED
    BY <1>1, <1>2, <2>1, <2>2, <2>3, <2>4, <2>5, NothingIsLost
<1>12. \A g \in Names' : Written(g)'
  BY <1>1, <1>2, <1>4, NamesStay
<1>13. QED
  BY <1>8, <1>9, <1>10, <1>11, <1>12 DEF SearchInv

\* A choice has taken its last value.
LEMMA SwitchExhaustedKeeps ==
  ASSUME RecordInv, SearchInv, gen = "dfs", NEW n \in Here, SwitchBranch(n),
         ~ (NextValue(n) < n.bound)
  PROVE  SearchInv'
<1>1. Drawing(n) /\ current_pos' = current_pos + 1
  BY DEF SwitchBranch, InDepth, Choice
<1>2. n.bound \in Nat \ {0} /\ path \in Seq(Nat)
  BY <1>1, SearchDraws
<1>3. PICK k \in Nat, old \in Passes(n), v \in Nat :
           /\ k = Len(path) /\ k = decision_depth /\ k = current_pos + 1 /\ k < MaxDepth
           /\ n = tree[path] /\ path \in DOMAIN tree /\ Allowed(path)
           /\ old = states[k].value /\ v = NextValue(n)
           /\ old < v /\ v <= n.bound
           /\ v < n.bound => v \in Passes(n)
           /\ \A w \in Passes(n) : w <= old \/ w >= v
  BY SwitchIsAtTop
<1>4. v = n.bound
  BY <1>2, <1>3
<1>5. /\ error' # "SUCCESS" /\ states' = Forget(k) /\ decision_depth' = decision_depth - 1
      /\ all_done' = (all_done \/ decision_depth' < 0)
      /\ UNCHANGED <<gen, running, path, good>>
  BY <1>1, <1>3 DEF SwitchBranch, InDepth, Choice, Exhausted, Refuse
<1>6. \A w \in Passes(n) : Append(path, w) \in DOMAIN tree
  <2> SUFFICES ASSUME NEW w \in Passes(n)
               PROVE  Append(path, w) \in DOMAIN tree
    OBVIOUS
  <2>1. w \in Nat /\ w < n.bound
    BY <1>2 DEF Passes
  <2>2. w <= old
    BY <1>3, <1>4, <2>1
  <2>3. Reached(path, w)
    <3>1. Len(path) # decision_depth + 1
      BY <1>3
    <3>2. IsDraw(n)
      BY <1>1 DEF Drawing
    <3>3. n = tree[path] /\ path \in DOMAIN tree /\ Allowed(path)
      BY <1>3
    <3>4. QED
      BY <3>1, <3>2, <3>3 DEF SearchInv, SkipInv
  <2>4. Append(path, w) # path
    <3>1. Len(Append(path, w)) # Len(path)
      BY <1>2, <2>1
    <3>2. QED
      BY <3>1
  <2>5. ~ (w > states[Len(path)].value)
    <3>1. old = states[Len(path)].value /\ old \in Nat
      BY <1>2, <1>3 DEF Passes
    <3>2. QED
      BY <2>1, <2>2, <3>1
  <2>6. QED
    BY <2>3, <2>4, <2>5 DEF Reached
<1>7. OutOfValues(n, k)
  <2>1. k = Len(path) /\ k = decision_depth
    BY <1>3
  <2>2. QED
    BY <1>5, <1>6, <2>1 DEF OutOfValues
<1>8. k \in 0 .. MaxDepth - 1
  BY <1>3, MaxDepthAssumption
<1>9. QED
  BY <1>1, <1>7, <1>8, ExhaustedKeeps

\* A new choice is made above the top of the stack.
LEMMA FirstIsAboveTop ==
  ASSUME RecordInv, SearchInv, gen = "dfs", NEW n \in Here, FirstVisit(n)
  PROVE  \E k \in Nat, v \in Nat :
           /\ k = Len(path) /\ k - 1 = decision_depth /\ k - 1 = current_pos /\ k < MaxDepth
           /\ ~GuardFails(n, k - 1)
           /\ v = FirstFrom(n, 0)
           /\ v <= n.bound
           /\ v < n.bound => v \in Passes(n)
           /\ \A w \in Passes(n) : w >= v
<1>1. /\ Drawing(n) /\ current_pos' = current_pos + 1 /\ current_pos' < MaxDepth
      /\ ~GuardFails(n, current_pos)
  BY DEF FirstVisit, InDepth, Choice
<1>2. /\ n.bound \in Nat \ {0} /\ path \in Seq(Nat)
      /\ current_pos \in Int /\ current_pos + 1 = Len(path)
      /\ Len(path) \in 0 .. decision_depth + 1
      /\ decision_depth \in -1 .. MaxDepth - 1
  BY <1>1, SearchDraws
<1>3. PICK k \in Nat : k = Len(path)
  BY <1>2
<1>4. current_pos' = k /\ k < MaxDepth /\ k - 1 = current_pos
  BY <1>1, <1>2, <1>3
<1>5. k - 1 = decision_depth
  <2>1. ~ states[k].init
    BY <1>4 DEF FirstVisit
  <2>2. k \in Position
    BY <1>4, MaxDepthAssumption DEF Position
  <2>3. ~ (k <= decision_depth)
    BY <2>1, <2>2 DEF SearchInv, StackInv
  <2>4. QED
    BY <1>2, <1>3, <2>3, MaxDepthAssumption
<1>6. /\ FirstFrom(n, 0) \in 0 .. n.bound
      /\ FirstFrom(n, 0) \in Passes(n) \/ FirstFrom(n, 0) = n.bound
      /\ \A w \in 0 .. FirstFrom(n, 0) - 1 : w \notin Passes(n)
  BY <1>2, FirstFromIs
<1>7. PICK v \in Nat : v = FirstFrom(n, 0)
  BY <1>2, <1>6
<1>8. v <= n.bound /\ (v < n.bound => v \in Passes(n))
  BY <1>2, <1>6, <1>7
<1>9. \A w \in Passes(n) : w >= v
  <2> SUFFICES ASSUME NEW w \in Passes(n), ~ (w >= v)
               PROVE  FALSE
    OBVIOUS
  <2>1. w \in Nat
    BY <1>2 DEF Passes
  <2>2. w \in 0 .. v - 1
    BY <2>1
  <2>3. QED
    BY <1>6, <1>7, <2>2
<1>10. ~GuardFails(n, k - 1)
  BY <1>1, <1>4
<1>11. QED
  BY <1>3, <1>4, <1>5, <1>7, <1>8, <1>9, <1>10

\* A draw whose filter passes nothing.
LEMMA FirstExhaustedKeeps ==
  ASSUME RecordInv, SearchInv, gen = "dfs", NEW n \in Here, FirstVisit(n),
         ~ (FirstFrom(n, 0) < n.bound)
  PROVE  SearchInv'
<1>1. Drawing(n) /\ current_pos' = current_pos + 1
  BY DEF FirstVisit, InDepth, Choice
<1>2. n.bound \in Nat \ {0} /\ path \in Seq(Nat)
  BY <1>1, SearchDraws
<1>3. PICK k \in Nat, v \in Nat :
           /\ k = Len(path) /\ k - 1 = decision_depth /\ k - 1 = current_pos /\ k < MaxDepth
           /\ ~GuardFails(n, k - 1)
           /\ v = FirstFrom(n, 0)
           /\ v <= n.bound
           /\ v < n.bound => v \in Passes(n)
           /\ \A w \in Passes(n) : w >= v
  BY FirstIsAboveTop
<1>4. current_pos' = k
  <2>1. k - 1 = current_pos
    BY <1>3
  <2>2. (k - 1) + 1 = k
    OBVIOUS
  <2>3. QED
    BY <1>1, <2>1, <2>2
<1>5. /\ error' # "SUCCESS" /\ states' = Forget(k) /\ decision_depth' = k - 1
      /\ all_done' = (all_done \/ decision_depth' < 0)
      /\ UNCHANGED <<gen, running, path, good>>
  BY <1>4 DEF FirstVisit, InDepth, Choice, Exhausted, Refuse
<1>6. Passes(n) = {}
  <2> SUFFICES ASSUME NEW w \in Passes(n)
               PROVE  FALSE
    OBVIOUS
  <2>1. w \in Nat /\ w < n.bound
    BY <1>2 DEF Passes
  <2>2. v = n.bound
    BY <1>2, <1>3
  <2>3. w >= v
    BY <1>3
  <2>4. QED
    BY <1>2, <2>1, <2>2, <2>3
<1>7. OutOfValues(n, k)
  <2>1. k = Len(path) /\ decision_depth = k - 1
    BY <1>3
  <2>2. QED
    BY <1>5, <1>6, <2>1 DEF OutOfValues
<1>8. k \in 0 .. MaxDepth - 1
  BY <1>3, MaxDepthAssumption
<1>9. QED
  BY <1>1, <1>7, <1>8, ExhaustedKeeps

\* A new choice is put on the stack.
LEMMA FirstGivesKeeps ==
  ASSUME RecordInv, SearchInv, gen = "dfs", NEW n \in Here, FirstVisit(n),
         FirstFrom(n, 0) < n.bound
  PROVE  SearchInv'
<1>1. /\ TreeInv /\ StackInv /\ OnceInv /\ SkipInv
      /\ \A g \in Names : Written(g)
  BY DEF SearchInv
<1>2. Drawing(n) /\ current_pos' = current_pos + 1
  BY DEF FirstVisit, InDepth, Choice
<1>3. /\ n.bound \in Nat \ {0} /\ path \in Seq(Nat)
      /\ decision_depth \in -1 .. MaxDepth - 1
      /\ running /\ error = "SUCCESS" /\ ~all_done /\ Grows(n)
  BY <1>2, SearchDraws
<1>4. PICK k \in Nat, v \in Nat :
           /\ k = Len(path) /\ k - 1 = decision_depth /\ k - 1 = current_pos /\ k < MaxDepth
           /\ ~GuardFails(n, k - 1)
           /\ v = FirstFrom(n, 0)
           /\ v <= n.bound
           /\ v < n.bound => v \in Passes(n)
           /\ \A w \in Passes(n) : w >= v
  BY FirstIsAboveTop
<1>5. /\ v \in Passes(n) /\ \A w \in Passes(n) : w >= v
      /\ Len(path) = k /\ decision_depth = k - 1
  BY <1>4
<1>6. current_pos' = k
  <2>1. k - 1 = current_pos
    BY <1>4
  <2>2. (k - 1) + 1 = k
    OBVIOUS
  <2>3. QED
    BY <1>2, <2>1, <2>2
<1>7. /\ path' = Append(path, v) /\ error' = "SUCCESS"
      /\ states' = [states EXCEPT ![current_pos + 1] = [init |-> TRUE, value |-> v]]
      /\ decision_depth' = k
      /\ UNCHANGED <<gen, running, good, all_done>>
  BY <1>4, <1>6 DEF FirstVisit, InDepth, Choice, Give
<1>8. states' = [states EXCEPT ![k] = [init |-> TRUE, value |-> v]]
  BY <1>2, <1>6, <1>7
<1>9. k \in Position
  BY <1>4, MaxDepthAssumption DEF Position
<1>10. /\ states' \in [Position -> [init : BOOLEAN, value : Nat]]
       /\ states'[k].init /\ states'[k].value = v
       /\ \A i \in Position : i # k => states'[i] = states[i]
  <2>1. states \in [Position -> [init : BOOLEAN, value : Nat]]
    BY <1>1 DEF StackInv
  <2>2. PICK r \in [init : BOOLEAN, value : Nat] : r = [init |-> TRUE, value |-> v]
    OBVIOUS
  <2>3. r.init /\ r.value = v
    BY <2>2
  <2>4. states' = [states EXCEPT ![k] = r]
    BY <1>8, <2>2
  <2>5. QED
    BY <1>9, <2>1, <2>3, <2>4
<1>11. /\ path' \in Seq(Nat) /\ Len(path') = k + 1
       /\ \A i \in 1 .. k : path'[i] = path[i]
       /\ path'[k + 1] = v
  BY <1>3, <1>5, <1>7
<1>12. \A i \in 0 .. k - 1 : states'[i].value = states[i].value
  <2>1. \A i \in 0 .. k - 1 : i \in Position /\ i # k
    BY <1>9, MaxDepthAssumption DEF Position
  <2>2. QED
    BY <1>10, <2>1
<1>13. TreeInv'
  <2>1. Len(path) <= MaxDepth
    BY <1>4, MaxDepthAssumption
  <2>2. QED
    BY <1>1, <1>3, <2>1, TreeKeeps
<1>14. StackInv'
  <2>1. k - 1 \in Int /\ k - 1 <= decision_depth
    BY <1>5
  <2>2. \A m \in 0 .. k - 1 : Chosen(Stack(m), states[m].value)'
    BY <1>1, <1>3, <1>12, <2>1, StackStaysChosen
  <2>3. Chosen(Stack(k), states[k].value)'
    <3>1. PICK p : p = path
      OBVIOUS
    <3>2. p \in DOMAIN tree' /\ tree'[p] = n
      BY <1>3, <3>1 DEF Grows
    <3>3. IsDraw(n) /\ v \in Passes(n)
      BY <1>2, <1>5 DEF Drawing
    <3>4. Len(p) < MaxDepth /\ ~GuardFails(n, Len(p) - 1)
      <4>1. Len(p) = k
        BY <1>5, <3>1
      <4>2. k < MaxDepth /\ ~GuardFails(n, k - 1)
        BY <1>4
      <4>3. QED
        BY <4>1, <4>2
    <3>5. Chosen(p, v)'
      BY <3>2, <3>3, <3>4 DEF Chosen, Allowed, GuardFails
    <3>6. p = Stack(k)
      BY <1>1, <1>3, <1>5, <3>1, PathIsOnStack
    <3>7. \A i \in 1 .. k : states'[i - 1].value = states[i - 1].value
      BY <1>12
    <3>8. Stack(k)' = p
      BY <3>6, <3>7, StackKeeps
    <3>9. QED
      BY <1>10, <3>5, <3>8
  <2>4. \A m \in 0 .. k : Chosen(Stack(m), states[m].value)'
    <3>1. \A m \in 0 .. k : m \in 0 .. k - 1 \/ m = k
      OBVIOUS
    <3>2. QED
      BY <2>2, <2>3, <3>1
  <2>5. \A i \in 1 .. k : path[i] = states[i - 1].value
    BY <1>1, <1>5 DEF StackInv
  <2>6. \A i \in 1 .. k + 1 : path'[i] = states'[i - 1].value
    <3>1. path'[k + 1] = states'[(k + 1) - 1].value
      BY <1>10, <1>11
    <3>2. \A i \in 1 .. k + 1 : i = k + 1 \/ (i \in 1 .. k /\ i - 1 \in 0 .. k - 1)
      OBVIOUS
    <3>3. QED
      BY <1>11, <1>12, <2>5, <3>1, <3>2
  <2>7. k \in -1 .. MaxDepth - 1 /\ k # -1
    BY <1>9, MaxDepthAssumption DEF Position
  <2>8. \A i \in Position : states'[i].init <=> i <= k
    <3>1. \A i \in Position : i \in Int
      BY MaxDepthAssumption DEF Position
    <3>2. \A i \in Position : states[i].init <=> i <= k - 1
      BY <1>1, <1>5 DEF StackInv
    <3>3. \A i \in Position : i # k => (states'[i].init <=> i <= k)
      BY <1>10, <3>1, <3>2
    <3>4. states'[k].init /\ k <= k
      BY <1>10
    <3>5. QED
      BY <3>3, <3>4
  <2>9. QED
    BY <1>3, <1>7, <1>10, <1>11, <2>4, <2>6, <2>7, <2>8 DEF StackInv
<1>15. OnceInv'
  <2>1. ASSUME NEW g \in Seq(Nat), Beyond(g) \/ Within(g)
        PROVE  Beyond(g)'
    <3>1. Len(g) \in Nat
      OBVIOUS
    <3>2. ~ Within(g)
      <4>1. ~ (Len(path) <= decision_depth)
        BY <1>5
      <4>2. QED
        BY <1>3, <4>1 DEF Within
    <3>3. Beyond(g)
      BY <2>1, <3>2
    <3>4. PICK m \in 1 .. Len(g) :
            /\ m <= (k - 1) + 1
            /\ g[m] < states[m - 1].value
            /\ \A j \in 1 .. m - 1 : g[j] = states[j - 1].value
      BY <1>5, <3>3 DEF Beyond
    <3>5. m \in Int /\ 1 <= m /\ m <= k
      BY <3>1, <3>4
    <3>6. \A j \in 1 .. m : j - 1 \in 0 .. k - 1
      BY <3>5
    <3>7. /\ g[m] < states'[m - 1].value
          /\ \A j \in 1 .. m - 1 : g[j] = states'[j - 1].value
      BY <1>12, <3>4, <3>5, <3>6
    <3>8. m <= decision_depth' + 1
      BY <1>7, <3>5
    <3>9. QED
      BY <3>4, <3>7, <3>8 DEF Beyond
  <2>2. QED
    BY <1>1, <1>7, <2>1, OnceStays
<1>16. SkipInv'
  <2>1. PICK q \in Seq(Nat) : q = path
    BY <1>3
  <2>2. Len(q) = k /\ q = Stack(k)
    BY <1>1, <1>3, <1>5, <2>1, PathIsOnStack
  <2>3. ASSUME NEW p \in DOMAIN tree, NEW u \in Nat, p # q, Open(p), u > states[Len(p)].value
        PROVE  (Open(p) /\ u > states[Len(p)].value)'
    <3>1. p \in Seq(Nat) /\ Len(p) \in Nat
      BY <1>1, <2>3 DEF TreeInv
    <3>2. Len(p) <= k - 1
      BY <1>5, <2>3 DEF Open
    <3>3. \A i \in 0 .. Len(p) : states'[i].value = states[i].value
      BY <1>12, <3>1, <3>2
    <3>4. Len(p) <= decision_depth'
      BY <1>7, <3>1, <3>2
    <3>5. Open(p)' /\ states'[Len(p)].value = states[Len(p)].value
      BY <2>3, <3>1, <3>3, <3>4, OpenStays
    <3>6. QED
      BY <2>3, <3>5
  <2>4. ASSUME IsDraw(n), Allowed(q)', NEW u \in Passes(n)
        PROVE  Reached(q, u)'
    <3>1. u \in Nat /\ u >= v
      BY <1>3, <1>5, <2>4 DEF Passes
    <3>2. CASE u = v
      BY <1>3, <1>7, <2>1, <3>2 DEF Reached, Busy
    <3>3. CASE u > v
      <4>1. \A i \in 1 .. Len(q) : states'[i - 1].value = states[i - 1].value
        BY <1>12, <2>2
      <4>2. Stack(Len(q))' = Stack(Len(q))
        BY <4>1, StackKeeps
      <4>3. Open(q)'
        <5>1. Len(q) <= decision_depth'
          <6>1. k <= k
            OBVIOUS
          <6>2. QED
            BY <1>7, <2>2, <6>1
        <5>2. q = Stack(Len(q))
          BY <2>2
        <5>3. QED
          BY <4>2, <5>1, <5>2 DEF Open
      <4>4. QED
        BY <1>10, <2>2, <3>3, <4>3 DEF Reached
    <3>4. QED
      BY <3>1, <3>2, <3>3
  <2>5. IsDraw(n)
    BY <1>2 DEF Drawing
  <2>6. \A i \in DOMAIN good : i \in DOMAIN good' /\ good'[i] = good[i]
    BY <1>7
  <2>7. QED
    BY <1>1, <1>3, <2>1, <2>3, <2>4, <2>5, <2>6, NothingIsLost
<1>17. \A g \in Names' : Written(g)'
  BY <1>1, <1>3, <1>7, NamesStay
<1>18. QED
  BY <1>13, <1>14, <1>15, <1>16, <1>17 DEF SearchInv

\* The indices of a record of k values are k.
LEMMA IntervalSize ==
  ASSUME NEW k \in Nat
  PROVE  Cardinality(0 .. k - 1) = k
<1>1. k - 1 \in Int
  OBVIOUS
<1>2. CASE k = 0
  <2>1. 0 .. k - 1 = {}
    BY <1>2
  <2>2. QED
    BY <1>2, <2>1, FS_EmptySet
<1>3. CASE k # 0
  <2>1. \A m \in Int : m = k - 1 => Cardinality(0 .. m) = k
    <3>1. SUFFICES ASSUME NEW m \in Int, m = k - 1
                   PROVE  Cardinality(0 .. m) = k
      OBVIOUS
    <3>2. ~ (0 > m)
      BY <1>3, <3>1
    <3>3. Cardinality(0 .. m) = m - 0 + 1
      BY <3>2, FS_Interval
    <3>4. QED
      BY <3>1, <3>3
  <2>2. QED
    BY <1>1, <2>1
<1>4. QED
  BY <1>2, <1>3

\* The name of a program is what the builder was given.
LEMMA NameIsThePath ==
  ASSUME NEW p \in Seq(Nat), NEW s, DOMAIN s = 0 .. Len(p) - 1,
         \A i \in 1 .. Len(p) : s[i - 1][1] = p[i]
  PROVE  Cardinality(DOMAIN s) = Len(p) /\ Values(s) = p
<1>1. Cardinality(0 .. Len(p) - 1) = Len(p)
  <2>1. PICK k \in Nat : k = Len(p)
    OBVIOUS
  <2>2. QED
    BY <2>1, IntervalSize
<1>2. Cardinality(DOMAIN s) = Len(p)
  BY <1>1
<1>3. Values(s) = [i \in 1 .. Len(p) |-> s[i - 1][1]]
  BY <1>2 DEF Values
<1>4. [i \in 1 .. Len(p) |-> s[i - 1][1]] = [i \in 1 .. Len(p) |-> p[i]]
  OBVIOUS
<1>5. p = [i \in 1 .. Len(p) |-> p[i]]
  OBVIOUS
<1>6. QED
  BY <1>2, <1>3, <1>4, <1>5

\* A run of the builder that comes to an end is above the top of the stack.
LEMMA EndIsAboveTop ==
  ASSUME RecordInv, SearchInv, gen = "dfs", NEW n \in Here, At(n), ~IsDraw(n)
  PROVE  /\ n.bound \in Nat /\ path \in Seq(Nat)
         /\ decision_depth \in 0 .. MaxDepth - 1
         /\ Len(path) = decision_depth + 1
         /\ ~all_done /\ Grows(n)
<1>1. TreeInv /\ StackInv
  BY DEF SearchInv
<1>2. running /\ error = "SUCCESS" /\ ~all_done
  BY <1>1 DEF At, StackInv
<1>3. path \in Seq(Nat) /\ Len(path) \in Nat
  BY DEF RecordInv
<1>4. decision_depth \in -1 .. MaxDepth - 1 /\ Len(path) \in 0 .. decision_depth + 1
  BY <1>1, <1>3, MaxDepthAssumption DEF StackInv
<1>5. n.bound \in Nat
  <2>1. CASE path \in DOMAIN tree
    BY <1>1, <2>1 DEF Here, TreeInv
  <2>2. CASE n \in Finished(Len(path))
    BY <2>2 DEF Finished
  <2>3. CASE n \in Draws(Len(path))
    BY <1>4, <2>3, BoundsAssumption, MaxDepthAssumption
  <2>4. QED
    BY <2>1, <2>2, <2>3 DEF Here
<1>6. ~ (Len(path) <= decision_depth)
  <2> SUFFICES ASSUME Len(path) <= decision_depth
               PROVE  FALSE
    OBVIOUS
  <2>1. Chosen(Stack(Len(path)), states[Len(path)].value)
    BY <1>1, <1>4, MaxDepthAssumption DEF StackInv
  <2>2. path = Stack(Len(path))
    BY <1>1, <1>3, PathIsOnStack
  <2>3. Chosen(path, states[Len(path)].value)
    BY <2>1, <2>2
  <2>4. QED
    BY <2>3 DEF Chosen, Here
<1>7. Len(path) # 0
  <2> SUFFICES ASSUME Len(path) = 0
               PROVE  FALSE
    OBVIOUS
  <2>1. path = <<>>
    BY <1>3
  <2>2. QED
    BY <1>1, <2>1 DEF TreeInv, Here
<1>8. Len(path) = decision_depth + 1 /\ decision_depth \in 0 .. MaxDepth - 1
  BY <1>4, <1>6, <1>7, MaxDepthAssumption
<1>9. QED
  BY <1>2, <1>3, <1>5, <1>8, TreeGrows

\* The next turn of the loop begins at the bottom of the stack as it is.
Restart ==
  /\ path' = <<>> /\ error' = "SUCCESS"
  /\ running' = ~all_done
  /\ UNCHANGED <<gen, states, decision_depth, all_done>>

\* A new run keeps the stack, which it walks again from the bottom.
LEMMA RestartStack ==
  ASSUME StackInv, Restart, all_done \/ decision_depth # -1,
         \A k \in 0 .. decision_depth : Chosen(Stack(k), states[k].value)'
  PROVE  StackInv'
<1>1. PICK d \in Int : d = decision_depth
  BY MaxDepthAssumption DEF StackInv
<1>2. 0 <= d + 1
  BY <1>1, MaxDepthAssumption DEF StackInv
<1>3. UNCHANGED <<states, decision_depth, all_done>> /\ Len(path') = 0
  BY DEF Restart
<1>4. Len(path') <= decision_depth' + 1
  BY <1>1, <1>2, <1>3
<1>5. \A i \in 1 .. Len(path') : path'[i] = states'[i - 1].value
  BY <1>3
<1>6. (~running' => all_done') /\ (all_done' => ~running')
  BY DEF Restart
<1>7. QED
  BY <1>3, <1>4, <1>5, <1>6 DEF StackInv, Restart

\* So it leaves the last program written where it was.
LEMMA RestartCuts ==
  ASSUME StackInv, Restart, all_done \/ decision_depth # -1
  PROVE  Cut
<1>1. PICK d \in Int : d = decision_depth
  BY MaxDepthAssumption DEF StackInv
<1>2. d \in -1 .. MaxDepth - 1 /\ d \in -1 .. d
  BY <1>1, MaxDepthAssumption DEF StackInv
<1>3. running' => 0 <= decision_depth'
  <2>1. running' => d # -1 /\ decision_depth' = d
    BY <1>1 DEF Restart
  <2>2. QED
    BY <1>2, <2>1, MaxDepthAssumption
<1>4. running' => Len(path') <= decision_depth'
  BY <1>3 DEF Restart
<1>5. states' = states /\ decision_depth' = d
  BY <1>1 DEF Restart
<1>6. QED
  BY <1>1, <1>2, <1>4, <1>5 DEF Cut

\* The program the builder has come to the end of was not written before, and
\* comes after the last one that was.
LEMMA WriteOnce ==
  ASSUME StackInv, OnceInv, Restart, running, error = "SUCCESS",
         NEW q \in Seq(Nat), q = path, Len(q) = decision_depth + 1,
         decision_depth \in Nat, good' = Append(good, q)
  PROVE  OnceInv'
<1>1. PICK k \in Nat : k = decision_depth
  OBVIOUS
<1>2. Len(q) = k + 1 /\ k + 1 \in 1 .. Len(q)
  BY <1>1
<1>3. good \in Seq(Seq(Nat))
  BY DEF OnceInv
<1>4. /\ good' \in Seq(Seq(Nat)) /\ Len(good') = Len(good) + 1
      /\ \A i \in 1 .. Len(good) : good'[i] = good[i]
      /\ good'[Len(good) + 1] = q
  BY <1>3
<1>5. \A i \in 1 .. k + 1 : q[i] = states[i - 1].value
  BY <1>2 DEF StackInv
<1>6. ASSUME NEW g \in LastWritten
      PROVE  Before(g, q)
  <2>1. Beyond(g)
    <3>1. ~ (Len(path) <= decision_depth)
      BY <1>1, <1>2
    <3>2. QED
      BY <3>1 DEF OnceInv, Within
  <2>2. PICK m \in 1 .. Len(g) :
          /\ m <= k + 1
          /\ g[m] < states[m - 1].value
          /\ \A j \in 1 .. m - 1 : g[j] = states[j - 1].value
    BY <1>1, <2>1 DEF Beyond
  <2>3. Len(g) \in Nat
    BY <1>3 DEF LastWritten
  <2>4. m \in Int /\ 1 <= m /\ m <= k + 1
    BY <2>2, <2>3
  <2>5. \A j \in 1 .. m : j \in 1 .. k + 1
    BY <2>4
  <2>6. g[m] < q[m] /\ \A j \in 1 .. m - 1 : g[j] = q[j]
    BY <1>5, <2>2, <2>4, <2>5
  <2>7. QED
    BY <1>2, <2>2, <2>6 DEF Before
<1>7. EachProgramOnce'
  <2> SUFFICES ASSUME gen = "dfs", NEW i \in 1 .. Len(good') - 1
               PROVE  Before(good'[i], good'[i + 1])
    BY DEF EachProgramOnce, Before, Restart
  <2>1. Len(good) \in Nat /\ i \in Int /\ 1 <= i /\ i <= Len(good)
    BY <1>3, <1>4
  <2>2. CASE i = Len(good)
    <3>1. good'[i] \in LastWritten
      BY <1>3, <1>4, <2>1, <2>2 DEF LastWritten
    <3>2. good'[i + 1] = q
      BY <1>4, <2>2
    <3>3. QED
      BY <1>6, <3>1, <3>2
  <2>3. CASE i # Len(good)
    <3>1. i \in 1 .. Len(good) - 1 /\ i + 1 \in 1 .. Len(good) /\ i \in 1 .. Len(good)
      BY <2>1, <2>3
    <3>2. Before(good[i], good[i + 1])
      BY <3>1 DEF OnceInv, EachProgramOnce
    <3>3. QED
      BY <1>4, <3>1, <3>2
  <2>4. QED
    BY <2>2, <2>3
<1>8. \A g \in LastWritten' : Within(g)'
  <2>1. LastWritten' = {q}
    BY <1>3, <1>4 DEF LastWritten
  <2>2. states' = states /\ decision_depth' = k /\ Len(path') = 0
    BY <1>1 DEF Restart
  <2>3. k + 1 <= Len(q) /\ 0 <= k
    BY <1>2
  <2>4. Within(q)'
    BY <1>5, <2>2, <2>3 DEF Within
  <2>5. QED
    BY <2>1, <2>4
<1>9. QED
  BY <1>4, <1>7, <1>8 DEF OnceInv

\* A draw that is on the stack stays there while nothing on the stack changes.
LEMMA OpenStaysSame ==
  ASSUME UNCHANGED <<states, decision_depth>>, NEW p
  PROVE  Open(p)' <=> Open(p)
BY DEF Open, Stack

\* The builder comes to the end of a program or gives it up.
LEMMA EndKeeps ==
  ASSUME RecordInv, SearchInv, gen = "dfs", NEW n \in Here, At(n), ~IsDraw(n),
         Restart,
         good' = IF n.error = "SUCCESS" THEN Append(good, Values(seq)) ELSE good
  PROVE  SearchInv'
<1>1. /\ TreeInv /\ StackInv /\ OnceInv /\ SkipInv
      /\ \A g \in Names : Written(g)
  BY DEF SearchInv
<1>2. /\ n.bound \in Nat /\ path \in Seq(Nat)
      /\ decision_depth \in 0 .. MaxDepth - 1
      /\ Len(path) = decision_depth + 1
      /\ ~all_done /\ Grows(n)
  BY EndIsAboveTop
<1>3. running /\ error = "SUCCESS"
  BY DEF At
<1>4. UNCHANGED <<gen, states, decision_depth, all_done>>
  BY DEF Restart
<1>5. PICK q \in Seq(Nat) : q = path
  BY <1>2
<1>6. Values(seq) = q
  <2>1. DOMAIN seq = 0 .. Len(path) - 1 /\ \A i \in DOMAIN path : seq[i - 1][1] = path[i]
    BY DEF RecordInv, RecordIsTheRun
  <2>2. DOMAIN path = 1 .. Len(path)
    BY <1>2
  <2>3. QED
    BY <1>5, <2>1, <2>2, NameIsThePath
<1>7. decision_depth # -1 /\ decision_depth \in Nat
  BY <1>2, MaxDepthAssumption
<1>8. TreeInv'
  <2>1. Len(path) <= MaxDepth
    BY <1>2, MaxDepthAssumption
  <2>2. QED
    BY <1>1, <1>2, <2>1, TreeKeeps
<1>9. \A m \in 0 .. decision_depth : Chosen(Stack(m), states[m].value)'
  <2>1. PICK d \in Int : d = decision_depth
    BY <1>2, MaxDepthAssumption
  <2>2. d <= decision_depth
    BY <2>1
  <2>3. \A m \in 0 .. d : Chosen(Stack(m), states[m].value)'
    BY <1>1, <1>2, <1>4, <2>2, StackStaysChosen
  <2>4. QED
    BY <2>1, <2>3
<1>10. StackInv'
  BY <1>1, <1>7, <1>9, RestartStack
<1>11. OnceInv'
  <2>1. CASE n.error = "SUCCESS"
    <3>1. good' = Append(good, q)
      BY <1>6, <2>1
    <3>2. Len(q) = decision_depth + 1
      BY <1>2, <1>5
    <3>3. QED
      BY <1>1, <1>3, <1>5, <1>7, <3>1, <3>2, WriteOnce
  <2>2. CASE n.error # "SUCCESS"
    <3>1. Cut
      BY <1>1, <1>7, RestartCuts
    <3>2. \A g \in Seq(Nat) : Beyond(g) \/ Within(g) => (Beyond(g) \/ Within(g))'
      BY <3>1, BehindStays
    <3>3. QED
      BY <1>1, <1>4, <2>2, <3>2, OnceStays
  <2>3. QED
    BY <2>1, <2>2
<1>12. good \in Seq(Seq(Nat))
  BY <1>1 DEF OnceInv
<1>13. SkipInv'
  <2>1. ASSUME NEW p \in DOMAIN tree, NEW v \in Nat, Open(p), v > states[Len(p)].value
        PROVE  (Open(p) /\ v > states[Len(p)].value)'
    BY <1>4, <2>1, OpenStaysSame
  <2>2. \A i \in DOMAIN good : i \in DOMAIN good' /\ good'[i] = good[i]
    BY <1>6, <1>12
  <2>3. n.error = "SUCCESS" => \E i \in DOMAIN good' : good'[i] = q
    <3> SUFFICES ASSUME n.error = "SUCCESS"
                 PROVE  \E i \in DOMAIN good' : good'[i] = q
      OBVIOUS
    <3>1. good' = Append(good, q)
      BY <1>6
    <3>2. Len(good) + 1 \in DOMAIN good' /\ good'[Len(good) + 1] = q
      BY <1>12, <3>1
    <3>3. QED
      BY <3>2
  <2>4. QED
    BY <1>1, <1>2, <1>5, <2>1, <2>2, <2>3, NothingIsLost
<1>14. \A g \in Names' : Written(g)'
  <2>1. CASE n.error # "SUCCESS"
    BY <1>1, <1>2, <2>1, NamesStay
  <2>2. CASE n.error = "SUCCESS"
    <3>1. good' = Append(good, q)
      BY <1>6, <2>2
    <3>2. Names' \subseteq Names \union {q}
      <4>1. PICK l \in Nat : l = Len(good)
        BY <1>12
      <4>2. /\ DOMAIN good' = 1 .. l + 1 /\ DOMAIN good = 1 .. l
            /\ \A i \in 1 .. l : good'[i] = good[i]
            /\ good'[l + 1] = q
        BY <1>12, <3>1, <4>1
      <4>3. \A i \in 1 .. l + 1 : i \in 1 .. l \/ i = l + 1
        OBVIOUS
      <4>4. QED
        BY <4>2, <4>3 DEF Names
    <3>3. Written(q)'
      <4>1. PICK d \in Nat : d = decision_depth
        BY <1>7
      <4>2. Len(q) = d + 1 /\ q # <<>>
        BY <1>2, <1>5, <4>1
      <4>3. ASSUME NEW k \in 0 .. Len(q) - 1
            PROVE  Chosen(SubSeq(q, 1, k), q[k + 1])'
        <5>1. k \in 0 .. d /\ k \in Nat /\ k + 1 \in 1 .. d + 1
          BY <4>2
        <5>2. Chosen(Stack(k), states[k].value)'
          BY <1>9, <4>1, <5>1
        <5>3. Stack(k)' = Stack(k) /\ states' = states
          BY <1>4 DEF Stack
        <5>4. \A i \in 1 .. d + 1 : q[i] = states[i - 1].value
          BY <1>1, <1>5, <4>2 DEF StackInv
        <5>5. q[k + 1] = states[k].value
          BY <5>1, <5>4
        <5>6. SubSeq(q, 1, k) = [i \in 1 .. k |-> q[i]]
          BY <4>2, <5>1
        <5>7. \A i \in 1 .. k : i \in 1 .. d + 1
          BY <5>1
        <5>8. SubSeq(q, 1, k) = Stack(k)
          BY <5>4, <5>6, <5>7 DEF Stack
        <5>9. PICK s : s = Stack(k)
          OBVIOUS
        <5>10. PICK v : v = states[k].value
          OBVIOUS
        <5>11. Chosen(s, v)'
          BY <5>2, <5>3, <5>9, <5>10
        <5>12. QED
          BY <5>5, <5>8, <5>9, <5>10, <5>11
      <4>4. q \in DOMAIN tree' /\ tree'[q] = n
        BY <1>2, <1>5 DEF Grows
      <4>5. QED
        BY <2>2, <4>2, <4>3, <4>4 DEF Written, IsDraw
    <3>4. QED
      BY <1>1, <1>2, <3>2, <3>3, WrittenStays
  <2>3. QED
    BY <2>1, <2>2
<1>15. QED
  BY <1>8, <1>10, <1>11, <1>13, <1>14 DEF SearchInv

\* A run of the builder that was refused a value leaves nothing behind.
LEMMA GivenUpKeeps ==
  ASSUME RecordInv, SearchInv, gen = "dfs", error # "SUCCESS",
         Restart, UNCHANGED <<tree, good>>
  PROVE  SearchInv'
<1>1. /\ TreeInv /\ StackInv /\ OnceInv /\ SkipInv
      /\ \A g \in Names : Written(g)
  BY DEF SearchInv
<1>2. UNCHANGED <<gen, states, decision_depth, all_done, tree, good>>
  BY DEF Restart
<1>3. all_done \/ decision_depth # -1
  BY <1>1 DEF StackInv
<1>4. TreeInv'
  BY <1>1, <1>2 DEF TreeInv, IsDraw
<1>5. StackInv'
  <2>1. \A k \in 0 .. decision_depth : Chosen(Stack(k), states[k].value)
    BY <1>1 DEF StackInv
  <2>2. \A k \in 0 .. decision_depth : Chosen(Stack(k), states[k].value)'
    BY <1>2, <2>1 DEF Chosen, IsDraw, Allowed, GuardFails, Passes, Stack
  <2>3. QED
    BY <1>1, <1>3, <2>2, RestartStack
<1>6. OnceInv'
  <2>1. Cut
    BY <1>1, <1>3, RestartCuts
  <2>2. \A g \in Seq(Nat) : Beyond(g) \/ Within(g) => (Beyond(g) \/ Within(g))'
    BY <2>1, BehindStays
  <2>3. QED
    BY <1>1, <1>2, <2>2, OnceStays
<1>7. SkipInv'
  <2>1. ~ Busy
    BY DEF Busy
  <2>2. ASSUME NEW p, NEW v, Reached(p, v)
        PROVE  Reached(p, v)'
    <3>1. CASE Append(p, v) \in DOMAIN tree
      BY <1>2, <3>1 DEF Reached
    <3>2. CASE Open(p) /\ v > states[Len(p)].value
      <4>1. Open(p)'
        BY <1>2, <3>2, OpenStaysSame
      <4>2. QED
        BY <1>2, <3>2, <4>1 DEF Reached
    <3>3. QED
      BY <2>1, <2>2, <3>1, <3>2 DEF Reached
  <2>3. ASSUME NEW p \in DOMAIN tree, IsDraw(tree[p]), Allowed(p), NEW v \in Passes(tree[p])
        PROVE  Reached(p, v)'
    BY <1>1, <2>1, <2>2, <2>3 DEF SkipInv
  <2>4. ASSUME NEW p \in DOMAIN tree, ~IsDraw(tree[p]), tree[p].error = "SUCCESS"
        PROVE  \E i \in DOMAIN good : good[i] = p
    BY <1>1, <2>4 DEF SkipInv
  <2>5. \A p \in DOMAIN tree : Allowed(p)' <=> Allowed(p)
    BY <1>2 DEF Allowed, GuardFails
  <2>6. QED
    BY <1>2, <2>3, <2>4, <2>5 DEF SkipInv, IsDraw, Passes
<1>8. \A g \in Names' : Written(g)'
  <2>1. Names' = Names
    BY <1>2 DEF Names
  <2>2. ASSUME NEW g \in Names
        PROVE  Written(g)'
    <3>1. Written(g)
      BY <1>1
    <3>2. QED
      BY <1>2, <3>1 DEF Written, Chosen, IsDraw, Allowed, GuardFails, Passes
  <2>3. QED
    BY <2>1, <2>2
<1>9. QED
  BY <1>4, <1>5, <1>6, <1>7, <1>8 DEF SearchInv

\* The turns of the loop of the exhaustive search.
LEMMA FinishKeepsSearch ==
  ASSUME RecordInv, SearchInv, gen = "dfs", NEW e, FinishExhaustive(e)
  PROVE  SearchInv'
<1>1. Restart /\ gen' = gen
  BY DEF FinishExhaustive, Restart, ResetState, ClearError, dfsVars, Empty
<1>2. CASE error = "SUCCESS"
  <2>1. PICK n \in Here : At(n) /\ ~IsDraw(n) /\ e = n.error
    BY <1>2 DEF FinishExhaustive, RunEnds
  <2>2. good' = IF n.error = "SUCCESS" THEN Append(good, Values(seq)) ELSE good
    BY <2>1 DEF FinishExhaustive
  <2>3. QED
    BY <1>1, <2>1, <2>2, EndKeeps
<1>3. CASE error # "SUCCESS"
  <2>1. UNCHANGED <<tree, good>>
    BY <1>3 DEF FinishExhaustive, RunEnds
  <2>2. QED
    BY <1>1, <1>3, <2>1, GivenUpKeeps
<1>4. QED
  BY <1>2, <1>3

\* At the start the stack is empty and the builder is at its first draw.
LEMMA SearchInit == Init => SearchInv
<1> SUFFICES ASSUME Init, gen = "dfs"
             PROVE  SearchInv
  BY DEF SearchInv
<1>1. /\ path = <<>> /\ good = <<>> /\ running /\ error = "SUCCESS" /\ ~all_done
      /\ decision_depth = -1 /\ states = Fresh
  BY DEF Init, Empty
<1>2. PICK n \in Draws(0) : DOMAIN tree = {<<>>} /\ tree[<<>>] = n
  BY DEF Init
<1>3. n.bound \in Nat \ {0}
  <2>1. 0 \in 0 .. MaxDepth
    BY MaxDepthAssumption
  <2>2. QED
    BY <2>1, BoundsAssumption
<1>4. TreeInv
  <2>1. <<>> \in Seq(Nat) /\ Len(<<>>) <= MaxDepth
    BY MaxDepthAssumption
  <2>2. IsDraw(n) /\ n.bound \in Nat
    BY <1>3 DEF IsDraw
  <2>3. QED
    BY <1>2, <2>1, <2>2 DEF TreeInv
<1>5. StackInv
  <2>1. states \in [Position -> [init : BOOLEAN, value : Nat]]
    BY <1>1 DEF Fresh
  <2>2. \A i \in Position : states[i].init <=> i <= -1
    BY <1>1, MaxDepthAssumption DEF Fresh, Position
  <2>3. -1 \in -1 .. MaxDepth - 1
    BY MaxDepthAssumption
  <2>4. Len(path) <= -1 + 1 /\ 1 .. Len(path) = {} /\ 0 .. -1 = {}
    BY <1>1
  <2>5. QED
    BY <1>1, <2>1, <2>2, <2>3, <2>4 DEF StackInv
<1>6. OnceInv
  <2>1. good \in Seq(Seq(Nat)) /\ 1 .. Len(good) - 1 = {}
    BY <1>1
  <2>2. QED
    BY <1>1, <2>1 DEF OnceInv, EachProgramOnce, LastWritten
<1>7. SkipInv
  <2>1. IsDraw(tree[<<>>])
    BY <1>4 DEF TreeInv
  <2>2. Len(<<>>) = decision_depth + 1
    BY <1>1
  <2>3. QED
    BY <1>1, <1>2, <2>1, <2>2 DEF SkipInv, Busy
<1>8. \A g \in Names : Written(g)
  BY <1>1 DEF Names
<1>9. QED
  BY <1>4, <1>5, <1>6, <1>7, <1>8 DEF SearchInv

\* Every step of the search keeps its invariant.
LEMMA SearchNext ==
  ASSUME RecordInv, SearchInv, [Next]_vars
  PROVE  SearchInv'
<1> SUFFICES ASSUME gen' = "dfs"
             PROVE  SearchInv'
  BY DEF SearchInv
<1>1. ASSUME NEW n \in Here, EagerBacktracking(n)
      PROVE  SearchInv'
  <2>1. gen = "dfs" /\ Drawing(n)
    BY <1>1 DEF EagerBacktracking
  <2>2. QED
    BY <1>1, <2>1, EagerIsRefused, RefusedKeeps
<1>2. ASSUME NEW n \in Here, TooDeep(n)
      PROVE  SearchInv'
  <2>1. gen = "dfs" /\ Drawing(n)
    BY <1>2 DEF TooDeep, Choice
  <2>2. QED
    BY <1>2, <2>1, TooDeepIsRefused, RefusedKeeps
<1>3. ASSUME NEW n \in Here, Revisit(n)
      PROVE  SearchInv'
  <2>1. gen = "dfs"
    BY <1>3 DEF Revisit, InDepth, Choice
  <2>2. QED
    BY <1>3, <2>1, RevisitKeeps
<1>4. ASSUME NEW n \in Here, SwitchBranch(n)
      PROVE  SearchInv'
  <2>1. gen = "dfs"
    BY <1>4 DEF SwitchBranch, InDepth, Choice
  <2>2. QED
    BY <1>4, <2>1, SwitchGivesKeeps, SwitchExhaustedKeeps
<1>5. ASSUME NEW n \in Here, FirstVisit(n)
      PROVE  SearchInv'
  <2>1. gen = "dfs"
    BY <1>5 DEF FirstVisit, InDepth, Choice
  <2>2. QED
    BY <1>5, <2>1, FirstGivesKeeps, FirstExhaustedKeeps
<1>6. ASSUME NEW n \in Here, DebugChoice(n) \/ DefaultChoice(n) \/ DeltaChoice(n)
      PROVE  SearchInv'
  BY <1>6 DEF DebugChoice, DefaultChoice, DeltaChoice, HandOver
<1>7. ASSUME NEW e, FinishExhaustive(e)
      PROVE  SearchInv'
  <2>1. gen = "dfs"
    BY <1>7 DEF FinishExhaustive
  <2>2. QED
    BY <1>7, <2>1, FinishKeepsSearch
<1>8. ASSUME NEW e, FinishRandom(e)
      PROVE  SearchInv'
  BY <1>8 DEF FinishRandom
<1>9. CASE StartDebug \/ StartDelta
  BY <1>9 DEF StartDebug, StartDelta, Process
<1>10. CASE UNCHANGED vars
  <2>1. UNCHANGED <<tree, gen, running, error, path, good, states, decision_depth, all_done>>
    BY <1>10 DEF vars, dfsVars
  <2>2. TreeInv' = TreeInv
    BY <2>1 DEF TreeInv, IsDraw
  <2>3. StackInv' = StackInv
    BY <2>1 DEF StackInv, Stack, Chosen, Allowed, GuardFails, IsDraw, Passes
  <2>4. OnceInv' = OnceInv
    BY <2>1 DEF OnceInv, EachProgramOnce, LastWritten, Beyond, Within
  <2>5. SkipInv' = SkipInv
    BY <2>1 DEF SkipInv, Reached, Open, Busy, Stack, Allowed, GuardFails, IsDraw, Passes
  <2>6. (\A g \in Names : Written(g))' = \A g \in Names : Written(g)
    BY <2>1 DEF Names, Written, Chosen, Allowed, GuardFails, IsDraw, Passes
  <2>7. QED
    BY <2>1, <2>2, <2>3, <2>4, <2>5, <2>6 DEF SearchInv
<1>11. QED
  BY <1>1, <1>2, <1>3, <1>4, <1>5, <1>6, <1>7, <1>8, <1>9, <1>10 DEF Next, Draw, Finish

-----------------------------------------------------------------------------
(* Building a program again.                                               *)

\* The beginnings of a sequence.
LEMMA Beginnings ==
  ASSUME NEW g \in Seq(Nat), NEW k \in 0 .. Len(g)
  PROVE  /\ SubSeq(g, 1, k) \in Seq(Nat)
         /\ Len(SubSeq(g, 1, k)) = k
         /\ \A i \in 1 .. k : SubSeq(g, 1, k)[i] = g[i]
         /\ k = Len(g) => SubSeq(g, 1, k) = g
         /\ k < Len(g) => Append(SubSeq(g, 1, k), g[k + 1]) = SubSeq(g, 1, k + 1)
         /\ \A j \in 0 .. k : SubSeq(SubSeq(g, 1, k), 1, j) = SubSeq(g, 1, j)
<1>1. k \in Nat /\ k <= Len(g)
  OBVIOUS
<1>2. PICK s : s = SubSeq(g, 1, k)
  OBVIOUS
<1>3. s \in Seq(Nat) /\ Len(s) = k /\ \A i \in 1 .. k : s[i] = g[i]
  BY <1>1, <1>2
<1>4. k = Len(g) => s = g
  BY <1>3, SeqEqual
<1>5. k < Len(g) => Append(s, g[k + 1]) = SubSeq(g, 1, k + 1)
  <2> SUFFICES ASSUME k < Len(g)
               PROVE  Append(s, g[k + 1]) = SubSeq(g, 1, k + 1)
    OBVIOUS
  <2>1. k + 1 \in 1 .. Len(g) /\ g[k + 1] \in Nat
    BY <1>1
  <2>2. PICK a : a = Append(s, g[k + 1])
    OBVIOUS
  <2>3. /\ a \in Seq(Nat) /\ Len(a) = k + 1 /\ \A i \in 1 .. k : a[i] = s[i]
        /\ a[k + 1] = g[k + 1]
    BY <1>3, <2>1, <2>2
  <2>4. PICK b : b = SubSeq(g, 1, k + 1)
    OBVIOUS
  <2>5. b \in Seq(Nat) /\ Len(b) = k + 1 /\ \A i \in 1 .. k + 1 : b[i] = g[i]
    BY <2>1, <2>4
  <2>6. \A i \in 1 .. k + 1 : i \in 1 .. k \/ i = k + 1
    BY <1>1
  <2>7. \A i \in 1 .. Len(a) : a[i] = b[i]
    BY <1>3, <2>3, <2>5, <2>6
  <2>8. a = b
    BY <2>3, <2>5, <2>7, SeqEqual
  <2>9. QED
    BY <2>2, <2>4, <2>8
<1>6. \A j \in 0 .. k : SubSeq(s, 1, j) = SubSeq(g, 1, j)
  <2> SUFFICES ASSUME NEW j \in 0 .. k
               PROVE  SubSeq(s, 1, j) = SubSeq(g, 1, j)
    OBVIOUS
  <2>1. j \in Nat /\ j <= Len(s) /\ j <= Len(g) /\ j <= k
    BY <1>1, <1>3
  <2>2. PICK a : a = SubSeq(s, 1, j)
    OBVIOUS
  <2>3. PICK b : b = SubSeq(g, 1, j)
    OBVIOUS
  <2>4. a \in Seq(Nat) /\ Len(a) = j /\ \A i \in 1 .. j : a[i] = s[i]
    BY <1>3, <2>1, <2>2
  <2>5. b \in Seq(Nat) /\ Len(b) = j /\ \A i \in 1 .. j : b[i] = g[i]
    BY <2>1, <2>3
  <2>6. \A i \in 1 .. j : i \in 1 .. k
    BY <1>1, <2>1
  <2>7. a = b
    BY <1>3, <2>4, <2>5, <2>6, SeqEqual
  <2>8. QED
    BY <2>2, <2>3, <2>7
<1>7. QED
  BY <1>2, <1>3, <1>4, <1>5, <1>6

\* A process that is given the name of a program follows it to its end, without
\* being refused a value.
LEMMA DebugFollows ==
  ASSUME RecordInv, DebugInv, gen = "debug", NEW n \in Here, At(n),
         NEW g, g = Values(want)
  PROVE  /\ g \in Seq(Nat) /\ Grows(n) /\ Written(g)
         /\ path \in Seq(Nat) /\ path = SubSeq(g, 1, Len(path))
         /\ Len(path) \in 0 .. Len(g) /\ current_pos \in Int /\ current_pos + 1 = Len(path)
         /\ IsDraw(n) => Len(path) < Len(g) /\ ~GuardFails(n, current_pos)
         /\ ~IsDraw(n) => path = g /\ n.error = "SUCCESS"
<1>1. running /\ error = "SUCCESS"
  BY DEF At
<1>2. /\ path \in Seq(Nat) /\ Len(path) \in Nat /\ current_pos \in Int
      /\ current_pos = Len(path) - 1
  BY <1>1 DEF RecordInv
<1>3. Written(g) /\ g \in Seq(Nat) /\ Len(path) <= Len(g) /\ path = SubSeq(g, 1, Len(path))
  BY <1>1 DEF DebugInv, Written
<1>4. PICK k \in 0 .. Len(g) : k = Len(path)
  BY <1>2, <1>3
<1>5. CASE k = Len(g)
  <2>1. path = g
    BY <1>3, <1>4, <1>5, Beginnings
  <2>2. n = tree[g]
    BY <1>3, <2>1 DEF Here, Written
  <2>3. ~IsDraw(n) /\ n.error = "SUCCESS"
    BY <1>3, <2>2 DEF Written
  <2>4. QED
    BY <1>2, <1>3, <1>4, <2>1, <2>3, TreeGrows
<1>6. CASE k # Len(g)
  <2>1. k \in 0 .. Len(g) - 1
    BY <1>3, <1>6
  <2>2. Chosen(SubSeq(g, 1, k), g[k + 1])
    BY <1>3, <2>1 DEF Written
  <2>3. Chosen(path, g[k + 1])
    BY <1>3, <1>4, <2>2
  <2>4. n = tree[path]
    BY <2>3 DEF Here, Chosen
  <2>5. IsDraw(n) /\ ~GuardFails(n, Len(path) - 1)
    BY <2>3, <2>4 DEF Chosen, Allowed
  <2>6. Len(path) < Len(g)
    BY <1>3, <1>4, <2>1
  <2>7. QED
    BY <1>2, <1>3, <1>4, <2>5, <2>6, TreeGrows
<1>7. QED
  BY <1>5, <1>6

\* The name is followed by one value more.
LEMMA DebugChoiceKeeps ==
  ASSUME RecordInv, DebugInv, NEW n \in Here, DebugChoice(n)
  PROVE  DebugInv' /\ RecordInv'
<1>1. gen = "debug" /\ At(n) /\ IsDraw(n) /\ current_pos' = current_pos + 1
  BY DEF DebugChoice, Drawing
<1>2. PICK g : g = Values(want)
  OBVIOUS
<1>3. /\ g \in Seq(Nat) /\ Grows(n) /\ Written(g)
      /\ path \in Seq(Nat) /\ path = SubSeq(g, 1, Len(path))
      /\ Len(path) \in 0 .. Len(g) /\ current_pos \in Int /\ current_pos + 1 = Len(path)
      /\ Len(path) < Len(g)
  BY <1>1, <1>2, DebugFollows
<1>4. PICK k \in Nat : k = Len(path)
  <2>1. path \in Seq(Nat)
    BY <1>3
  <2>2. Len(path) \in Nat
    BY <2>1
  <2>3. QED
    BY <2>2
<1>5. running /\ error = "SUCCESS"
  BY <1>1 DEF At
<1>6. /\ DOMAIN want = 0 .. Len(g) - 1 /\ seq = want /\ good = <<>>
      /\ all_done <=> Len(path) = Len(g)
      /\ decision_depth = -1
  BY <1>1, <1>2, <1>5 DEF DebugInv
<1>7. current_pos' = k /\ k \in DOMAIN seq /\ k + 1 \in 1 .. Len(g) /\ Len(g) \in Nat
  <2>1. k + 1 \in 1 .. Len(g) /\ Len(g) \in Nat /\ k \in 0 .. Len(g) - 1
    BY <1>3, <1>4
  <2>2. current_pos' = k
    BY <1>1, <1>3, <1>4
  <2>3. DOMAIN seq = 0 .. Len(g) - 1
    BY <1>6
  <2>4. QED
    BY <2>1, <2>2, <2>3
<1>8. Cardinality(DOMAIN want) = Len(g)
  <2>1. Cardinality(DOMAIN want) \in Nat
    <3>1. IsFiniteSet(0 .. Len(g) - 1)
      BY <1>3, FS_Interval
    <3>2. QED
      BY <1>6, <3>1, FS_CardinalityType
  <2>2. g = [i \in 1 .. Cardinality(DOMAIN want) |-> want[i - 1][1]]
    BY <1>2 DEF Values
  <2>3. QED
    BY <1>3, <2>1, <2>2
<1>9. seq[k][1] = g[k + 1]
  <2>1. \A i \in 1 .. Len(g) : g[i] = want[i - 1][1]
    BY <1>2, <1>8 DEF Values
  <2>2. g[k + 1] = want[(k + 1) - 1][1]
    BY <1>7, <2>1
  <2>3. (k + 1) - 1 = k
    OBVIOUS
  <2>4. QED
    BY <1>6, <2>2, <2>3
<1>10. /\ UNCHANGED <<gen, running, error, good, decision_depth, want, rand_depth, random_point>>
       /\ seq' = seq /\ path' = Append(path, g[k + 1])
       /\ all_done' = (all_done \/ k >= Cardinality(DOMAIN seq) - 1)
  BY <1>7, <1>9 DEF DebugChoice, LastPosition
<1>11. path' = SubSeq(g, 1, k + 1) /\ Len(path') = k + 1 /\ path' \in Seq(Nat)
  <2>1. k \in 0 .. Len(g) /\ k < Len(g) /\ k + 1 \in 0 .. Len(g)
    BY <1>3, <1>4, <1>7
  <2>2. path' = SubSeq(g, 1, k + 1)
    BY <1>3, <1>4, <1>10, <2>1, Beginnings
  <2>3. QED
    BY <1>3, <2>1, <2>2, Beginnings
<1>12. all_done' = (k + 1 = Len(g))
  <2>1. all_done' = (all_done \/ k >= Len(g) - 1)
    BY <1>6, <1>8, <1>10
  <2>2. ~all_done
    BY <1>3, <1>6
  <2>3. k >= Len(g) - 1 <=> k + 1 = Len(g)
    BY <1>3, <1>4
  <2>4. QED
    BY <2>1, <2>2, <2>3
<1>13. DebugInv'
  <2>1. Values(want)' = g
    BY <1>2, <1>10 DEF Values
  <2>2. Written(g)'
    BY <1>3, WrittenStays
  <2>3. k + 1 <= Len(g)
    BY <1>7
  <2>4. QED
    BY <1>5, <1>6, <1>10, <1>11, <1>12, <2>1, <2>2, <2>3 DEF DebugInv
<1>14. RecordInv'
  <2>1. \A i \in 1 .. k + 1 : i - 1 \in DOMAIN seq /\ seq[i - 1][1] = path'[i]
    <3>1. \A i \in 1 .. k + 1 : i - 1 \in DOMAIN seq /\ i \in 1 .. Len(g) /\ (i - 1) + 1 = i
      BY <1>6, <1>7
    <3>2. \A i \in 1 .. Len(g) : want[i - 1][1] = g[i]
      BY <1>2, <1>8 DEF Values
    <3>3. \A i \in 1 .. k + 1 : path'[i] = g[i]
      BY <1>3, <1>7, <1>11, Beginnings
    <3>4. QED
      BY <1>6, <3>1, <3>2, <3>3
  <2>2. DOMAIN path' = 1 .. k + 1
    BY <1>11
  <2>3. RecordIsTheRun'
    BY <1>1, <1>10, <2>1, <2>2 DEF RecordIsTheRun
  <2>4. all_done' \in BOOLEAN
    BY <1>12
  <2>5. current_pos' = Len(path') - 1 /\ current_pos' \in Int
    BY <1>7, <1>11
  <2>6. QED
    BY <1>1, <1>10, <1>11, <2>3, <2>4, <2>5 DEF RecordInv
<1>15. QED
  BY <1>13, <1>14

\* At its end the program is written and the process stops.
LEMMA DebugFinishKeeps ==
  ASSUME RecordInv, DebugInv, gen = "debug", NEW e, FinishExhaustive(e)
  PROVE  DebugInv'
<1>1. PICK g : g = Values(want)
  OBVIOUS
<1>2. error = "SUCCESS" /\ running /\ decision_depth = -1
  BY DEF DebugInv, FinishExhaustive, RunEnds
<1>3. PICK n \in Here : At(n) /\ ~IsDraw(n) /\ e = n.error
  BY <1>2 DEF FinishExhaustive, RunEnds
<1>4. /\ g \in Seq(Nat) /\ Grows(n) /\ Written(g)
      /\ path = g /\ n.error = "SUCCESS"
  BY <1>1, <1>3, DebugFollows
<1>5. /\ DOMAIN want = 0 .. Len(g) - 1 /\ seq = want /\ good = <<>>
      /\ all_done <=> Len(path) = Len(g)
  BY <1>1, <1>2 DEF DebugInv
<1>6. all_done
  BY <1>4, <1>5
<1>7. /\ good' = Append(good, Values(seq)) /\ error' = "SUCCESS" /\ ~running'
      /\ UNCHANGED <<gen, decision_depth, want>>
  BY <1>3, <1>4, <1>6 DEF FinishExhaustive, ClearError, dfsVars
<1>8. good' = <<g>>
  BY <1>1, <1>5, <1>7
<1>9. Values(want)' = g
  BY <1>1, <1>7 DEF Values
<1>10. Written(g)'
  BY <1>4, WrittenStays
<1>11. QED
  BY <1>2, <1>5, <1>7, <1>8, <1>9, <1>10 DEF DebugInv

\* A new process builds along its file as the one before did.
LEMMA KeptAlong ==
  ASSUME NEW g \in Seq(Nat), NEW s, Values(s) = g, Cardinality(DOMAIN s) = Len(g),
         tree' = [p \in {SubSeq(Values(s), 1, k) : k \in 0 .. Cardinality(DOMAIN s)} |-> tree[p]],
         NEW k \in 0 .. Len(g)
  PROVE  SubSeq(g, 1, k) \in DOMAIN tree' /\ tree'[SubSeq(g, 1, k)] = tree[SubSeq(g, 1, k)]
<1>1. PICK p : p = SubSeq(g, 1, k)
  OBVIOUS
<1>2. p \in {SubSeq(Values(s), 1, i) : i \in 0 .. Cardinality(DOMAIN s)}
  BY <1>1
<1>3. p \in DOMAIN tree' /\ tree'[p] = tree[p]
  BY <1>2
<1>4. QED
  BY <1>1, <1>3

\* Only a program that was written is built again from its name.
LEMMA StartDebugKeeps ==
  ASSUME RecordInv, SearchInv, StartDebug
  PROVE  DebugInv' /\ RecordInv'
<1>1. PICK i \in DOMAIN good :
        Process("debug", [k \in 0 .. Len(good[i]) - 1 |-> <<good[i][k + 1], 0>>])
  BY DEF StartDebug
<1>2. PICK g : g = good[i]
  OBVIOUS
<1>3. Written(g) /\ g \in Seq(Nat) /\ g # <<>> /\ random_point' = random_point
  <2>1. g \in Names
    BY <1>2 DEF Names
  <2>2. QED
    BY <2>1 DEF SearchInv, StartDebug, Written
<1>4. /\ want' = [k \in 0 .. Len(g) - 1 |-> <<g[k + 1], 0>>]
      /\ gen' = "debug" /\ running' = TRUE /\ error' = "SUCCESS" /\ path' = <<>>
      /\ decision_depth' = -1 /\ all_done' = FALSE /\ rand_depth' = 0
      /\ tree' = [p \in {SubSeq(Values(want'), 1, k) : k \in 0 .. Cardinality(DOMAIN want')} |-> tree[p]]
  BY <1>1, <1>2 DEF Process, Empty
<1>5. /\ seq' = want' /\ current_pos' = -1 /\ good' = <<>>
  BY DEF StartDebug
<1>6. Len(g) \in Nat /\ Len(g) # 0
  BY <1>3
<1>7. PICK s : s = want'
  OBVIOUS
<1>8. Cardinality(DOMAIN s) = Len(g) /\ Values(s) = g
  <2>1. DOMAIN s = 0 .. Len(g) - 1
    BY <1>4, <1>7
  <2>2. \A j \in 1 .. Len(g) : s[j - 1][1] = g[j]
    <3>1. \A j \in 1 .. Len(g) : j - 1 \in 0 .. Len(g) - 1 /\ (j - 1) + 1 = j
      BY <1>6
    <3>2. \A k \in 0 .. Len(g) - 1 : s[k][1] = g[k + 1]
      BY <1>4, <1>7
    <3>3. QED
      BY <3>1, <3>2
  <2>3. QED
    BY <1>3, <2>1, <2>2, NameIsThePath
<1>9. \A k \in 0 .. Len(g) : /\ SubSeq(g, 1, k) \in DOMAIN tree'
                             /\ tree'[SubSeq(g, 1, k)] = tree[SubSeq(g, 1, k)]
  BY <1>3, <1>4, <1>7, <1>8, KeptAlong
<1>10. Written(g)'
  <2>1. ASSUME NEW k \in 0 .. Len(g) - 1
        PROVE  Chosen(SubSeq(g, 1, k), g[k + 1])'
    <3>1. PICK p : p = SubSeq(g, 1, k)
      OBVIOUS
    <3>2. PICK v : v = g[k + 1]
      OBVIOUS
    <3>3. Chosen(p, v)
      BY <1>3, <3>1, <3>2 DEF Written
    <3>4. k \in 0 .. Len(g)
      BY <1>6
    <3>5. p \in DOMAIN tree' /\ tree'[p] = tree[p]
      BY <1>9, <3>1, <3>4
    <3>6. Chosen(p, v)'
      BY <3>3, <3>5 DEF Chosen, Allowed, GuardFails, IsDraw, Passes
    <3>7. QED
      BY <3>1, <3>2, <3>6
  <2>2. g \in DOMAIN tree' /\ tree'[g] = tree[g]
    <3>1. Len(g) \in 0 .. Len(g)
      BY <1>6
    <3>2. SubSeq(g, 1, Len(g)) = g
      BY <1>3, <3>1, Beginnings
    <3>3. QED
      BY <1>9, <3>1, <3>2
  <2>3. QED
    BY <1>3, <2>1, <2>2 DEF Written, IsDraw
<1>11. DebugInv'
  <2>1. Values(want)' = g
    BY <1>7, <1>8 DEF Values
  <2>2. DOMAIN want' = 0 .. Len(g) - 1
    BY <1>4
  <2>3. Len(path') = 0 /\ path' = SubSeq(g, 1, 0) /\ 0 <= Len(g)
    <3>1. 0 \in 0 .. Len(g)
      BY <1>6
    <3>2. SubSeq(g, 1, 0) \in Seq(Nat) /\ Len(SubSeq(g, 1, 0)) = 0
      BY <1>3, <3>1, Beginnings
    <3>3. SubSeq(g, 1, 0) = <<>>
      BY <3>2
    <3>4. QED
      BY <1>4, <1>6, <3>3
  <2>4. QED
    BY <1>4, <1>5, <1>6, <1>10, <2>1, <2>2, <2>3 DEF DebugInv
<1>12. RecordInv'
  <2>1. RecordIsTheRun'
    BY <1>4 DEF RecordIsTheRun
  <2>2. random_point' \in Nat
    BY <1>3 DEF RecordInv
  <2>3. path' \in Seq(Nat) /\ Len(path') = 0
    BY <1>4
  <2>4. current_pos' = Len(path') - 1 /\ current_pos' \in Int /\ rand_depth' \in Nat
    BY <1>4, <1>5, <2>3
  <2>5. gen' = "debug" /\ running' \in BOOLEAN /\ all_done' \in BOOLEAN
    BY <1>4
  <2>6. QED
    BY <2>1, <2>2, <2>3, <2>4, <2>5 DEF RecordInv
<1>13. QED
  BY <1>11, <1>12

\* Every step of a process that builds a program again keeps its invariant.
LEMMA DebugNext ==
  ASSUME RecordInv, SearchInv, DebugInv, [Next]_vars
  PROVE  DebugInv'
<1> SUFFICES ASSUME gen' = "debug"
             PROVE  DebugInv'
  BY DEF DebugInv
<1>1. ASSUME NEW n \in Here, EagerBacktracking(n)
      PROVE  FALSE
  <2>1. gen = "debug" /\ At(n) /\ IsDraw(n) /\ GuardFails(n, current_pos)
    BY <1>1 DEF EagerBacktracking, Drawing
  <2>2. QED
    BY <2>1, DebugFollows
<1>2. ASSUME NEW n \in Here, TooDeep(n) \/ Revisit(n) \/ SwitchBranch(n) \/ FirstVisit(n)
      PROVE  FALSE
  BY <1>2 DEF TooDeep, Revisit, SwitchBranch, FirstVisit, InDepth, Choice
<1>3. ASSUME NEW n \in Here, DebugChoice(n)
      PROVE  DebugInv'
  BY <1>3, DebugChoiceKeeps
<1>4. ASSUME NEW n \in Here, DefaultChoice(n) \/ DeltaChoice(n)
      PROVE  FALSE
  BY <1>4 DEF DefaultChoice, DeltaChoice, HandOver
<1>5. ASSUME NEW e, FinishExhaustive(e)
      PROVE  DebugInv'
  <2>1. gen = "debug"
    BY <1>5 DEF FinishExhaustive
  <2>2. QED
    BY <1>5, <2>1, DebugFinishKeeps
<1>6. ASSUME NEW e, FinishRandom(e)
      PROVE  FALSE
  BY <1>6 DEF FinishRandom
<1>7. CASE StartDebug
  BY <1>7, StartDebugKeeps
<1>8. CASE StartDelta
  BY <1>8 DEF StartDelta, Process
<1>9. CASE UNCHANGED vars
  <2>1. UNCHANGED <<tree, gen, running, error, path, seq, good, decision_depth, all_done, want>>
    BY <1>9 DEF vars, dfsVars
  <2>2. UNCHANGED Values(want)
    BY <2>1 DEF Values
  <2>3. UNCHANGED Written(Values(want))
    BY <2>1, <2>2 DEF Written, Chosen, Allowed, GuardFails, IsDraw, Passes
  <2>4. QED
    BY <2>1, <2>2, <2>3 DEF DebugInv
<1>10. QED
  BY <1>1, <1>2, <1>3, <1>4, <1>5, <1>6, <1>7, <1>8, <1>9 DEF Next, Draw, Finish

-----------------------------------------------------------------------------
(* Random programs and their reduction.                                    *)

\* The choices saved of a program name it.
LEMMA SavedName ==
  ASSUME NEW p \in Seq(Nat), NEW s, Saved(s, p)
  PROVE  Cardinality(DOMAIN s) = Len(p) /\ Values(s) = p
<1>1. \A i \in 1 .. Len(p) : s[i - 1][1] = p[i]
  <2> SUFFICES ASSUME NEW i \in 1 .. Len(p)
               PROVE  s[i - 1][1] = p[i]
    OBVIOUS
  <2>1. PICK k \in 0 .. Len(p) - 1 : k = i - 1 /\ k + 1 = i
    OBVIOUS
  <2>2. s[k] = <<p[k + 1], tree[SubSeq(p, 1, k)].bound>>
    BY DEF Saved
  <2>3. QED
    BY <2>1, <2>2
<1>2. DOMAIN s = 0 .. Len(p) - 1
  BY DEF Saved
<1>3. QED
  BY <1>1, <1>2, NameIsThePath

\* What was saved stays true of what the builder does.
LEMMA SavedStays ==
  ASSUME NEW n, Grows(n), NEW s, NEW p, Saved(s, p)
  PROVE  Saved(s, p)'
<1>1. ASSUME NEW k \in 0 .. Len(p) - 1
      PROVE  SubSeq(p, 1, k) \in DOMAIN tree' /\ tree'[SubSeq(p, 1, k)] = tree[SubSeq(p, 1, k)]
  <2>1. PICK q : q = SubSeq(p, 1, k)
    OBVIOUS
  <2>2. q \in DOMAIN tree
    BY <2>1 DEF Saved
  <2>3. q \in DOMAIN tree' /\ tree'[q] = tree[q]
    BY <2>2 DEF Grows
  <2>4. QED
    BY <2>1, <2>3
<1>2. QED
  BY <1>1 DEF Saved, IsDraw, Passes

\* And so do the ends of programs.
LEMMA EndedStays ==
  ASSUME NEW n, Grows(n), NEW p, Ended(p)
  PROVE  Ended(p)'
<1>1. p \in DOMAIN tree' /\ tree'[p] = tree[p]
  BY DEF Ended, Grows
<1>2. QED
  BY <1>1 DEF Ended, IsDraw

\* The record of a program grows by its next draw.
LEMMA SavedGrows ==
  ASSUME NEW n, Grows(n), IsDraw(n), NEW p \in Seq(Nat), p = path, Saved(seq, p),
         NEW v \in Passes(n), v \in Nat, Give(v, n, Len(p))
  PROVE  Saved(seq, path)' /\ path' \in Seq(Nat) /\ Len(path') = Len(p) + 1
<1>1. PICK k \in Nat : k = Len(p)
  OBVIOUS
<1>2. PICK q : q = Append(p, v)
  OBVIOUS
<1>3. /\ q \in Seq(Nat) /\ Len(q) = k + 1 /\ q[k + 1] = v
      /\ \A i \in 1 .. k : q[i] = p[i]
      /\ path' = q
  BY <1>1, <1>2 DEF Give
<1>4. /\ DOMAIN seq' = DOMAIN seq \union {k}
      /\ seq'[k] = <<v, n.bound>>
      /\ \A j \in DOMAIN seq : j # k => seq'[j] = seq[j]
  BY <1>1, RecordGrows
<1>5. DOMAIN seq' = 0 .. Len(q) - 1
  <2>1. DOMAIN seq = 0 .. k - 1
    BY <1>1 DEF Saved
  <2>2. (0 .. k - 1) \union {k} = 0 .. (k + 1) - 1
    OBVIOUS
  <2>3. QED
    BY <1>3, <1>4, <2>1, <2>2
<1>6. SubSeq(q, 1, k) = p /\ \A j \in 0 .. k : SubSeq(q, 1, j) = SubSeq(p, 1, j)
  <2>1. k \in 0 .. Len(q)
    BY <1>3
  <2>2. /\ SubSeq(q, 1, k) \in Seq(Nat) /\ Len(SubSeq(q, 1, k)) = k
        /\ \A i \in 1 .. k : SubSeq(q, 1, k)[i] = q[i]
        /\ \A j \in 0 .. k : SubSeq(SubSeq(q, 1, k), 1, j) = SubSeq(q, 1, j)
    BY <1>3, <2>1, Beginnings
  <2>3. SubSeq(q, 1, k) = p
    BY <1>1, <1>3, <2>2, SeqEqual
  <2>4. QED
    BY <2>2, <2>3
<1>7. ASSUME NEW j \in 0 .. k - 1
      PROVE  /\ SubSeq(q, 1, j) \in DOMAIN tree'
             /\ IsDraw(tree'[SubSeq(q, 1, j)])
             /\ seq'[j] = <<q[j + 1], tree'[SubSeq(q, 1, j)].bound>>
             /\ q[j + 1] \in Passes(tree'[SubSeq(q, 1, j)])
  <2>1. PICK r : r = SubSeq(p, 1, j)
    OBVIOUS
  <2>2. r = SubSeq(q, 1, j)
    BY <1>6, <2>1
  <2>3. /\ r \in DOMAIN tree /\ IsDraw(tree[r])
        /\ seq[j] = <<p[j + 1], tree[r].bound>>
        /\ p[j + 1] \in Passes(tree[r])
    BY <1>1, <2>1 DEF Saved
  <2>4. tree'[r] = tree[r] /\ r \in DOMAIN tree'
    BY <2>3 DEF Grows
  <2>5. j \in DOMAIN seq /\ j # k /\ j + 1 \in 1 .. k
    BY <1>1 DEF Saved
  <2>6. seq'[j] = seq[j] /\ q[j + 1] = p[j + 1]
    BY <1>3, <1>4, <2>5
  <2>7. QED
    BY <2>2, <2>3, <2>4, <2>6
<1>8. /\ p \in DOMAIN tree' /\ IsDraw(tree'[p])
      /\ seq'[k] = <<q[k + 1], tree'[p].bound>>
      /\ q[k + 1] \in Passes(tree'[p])
  BY <1>3, <1>4 DEF Grows
<1>9. \A j \in 0 .. Len(q) - 1 : j \in 0 .. k - 1 \/ j = k
  BY <1>3
<1>10. Saved(seq, q)'
  BY <1>5, <1>6, <1>7, <1>8, <1>9 DEF Saved, IsDraw, Passes
<1>11. QED
  BY <1>1, <1>3, <1>10

\* The values that pass a filter are natural numbers.
LEMMA PassesAreNumbers ==
  ASSUME NEW n
  PROVE  Passes(n) \subseteq Nat
BY DEF Passes

\* A saved record is what the builder was given.
LEMMA SavedIsTheRun == path \in Seq(Nat) /\ Saved(seq, path) => RecordIsTheRun
<1> SUFFICES ASSUME path \in Seq(Nat), Saved(seq, path)
             PROVE  RecordIsTheRun
  OBVIOUS
<1>1. \A i \in 1 .. Len(path) : i - 1 \in 0 .. Len(path) - 1 /\ seq[i - 1][1] = path[i]
  <2> SUFFICES ASSUME NEW i \in 1 .. Len(path)
               PROVE  i - 1 \in 0 .. Len(path) - 1 /\ seq[i - 1][1] = path[i]
    OBVIOUS
  <2>1. PICK k \in 0 .. Len(path) - 1 : k = i - 1 /\ k + 1 = i
    OBVIOUS
  <2>2. seq[k] = <<path[k + 1], tree[SubSeq(path, 1, k)].bound>>
    BY DEF Saved
  <2>3. QED
    BY <2>1, <2>2
<1>2. DOMAIN seq = 0 .. Len(path) - 1 /\ DOMAIN path = 1 .. Len(path)
  BY DEF Saved
<1>3. QED
  BY <1>1, <1>2 DEF RecordIsTheRun

\* Drawing at random.
LEMMA DefaultKeeps ==
  ASSUME RecordInv, RandomInv, NEW n \in Here, DefaultChoice(n)
  PROVE  RandomInv' /\ RecordInv'
<1>1. gen = "default" /\ At(n) /\ IsDraw(n) /\ running /\ error = "SUCCESS"
  BY DEF DefaultChoice, Drawing, At
<1>2. path \in Seq(Nat) /\ rand_depth = Len(path)
  BY <1>1 DEF RecordInv
<1>3. PICK v \in Passes(n) : Give(v, n, rand_depth)
  BY DEF DefaultChoice
<1>4. PICK p \in Seq(Nat) : p = path
  BY <1>2
<1>5. Grows(n) /\ v \in Nat /\ Saved(seq, p) /\ Give(v, n, Len(p))
  BY <1>1, <1>2, <1>3, <1>4, TreeGrows, PassesAreNumbers DEF RandomInv
<1>6. Saved(seq, path)' /\ path' \in Seq(Nat) /\ Len(path') = Len(p) + 1
  BY <1>1, <1>4, <1>5, SavedGrows
<1>7. /\ UNCHANGED <<gen, running, all_done, current_pos, random_point>>
      /\ rand_depth' = rand_depth + 1 /\ error' = "SUCCESS"
  BY <1>3 DEF DefaultChoice, dfsVars, Give
<1>8. RandomInv'
  BY <1>1, <1>6, <1>7 DEF RandomInv
<1>9. RecordIsTheRun'
  <2>1. (path \in Seq(Nat) /\ Saved(seq, path) => RecordIsTheRun)'
    BY SavedIsTheRun, PTL
  <2>2. QED
    BY <1>6, <2>1
<1>10. RecordInv'
  <2>1. rand_depth' = Len(path') /\ rand_depth' \in Nat
    BY <1>2, <1>4, <1>6, <1>7
  <2>2. QED
    BY <1>1, <1>6, <1>7, <1>9, <2>1 DEF RecordInv
<1>11. QED
  BY <1>8, <1>10

\* The values of the saved program a reduction goes along.
OnTheWay(g) ==
  /\ g \in Seq(Nat) /\ Saved(want, g) /\ Ended(g)
  /\ Len(path) <= Len(g) /\ path = SubSeq(g, 1, Len(path))

\* Up to the random point a reduction is never refused a value: the builder
\* asks for what it asked for when the file was saved.
LEMMA DeltaFollows ==
  ASSUME RecordInv, RandomInv, gen = "delta", NEW n \in Here, At(n),
         NEW g, g = Values(want)
  PROVE  /\ OnTheWay(g) /\ Grows(n) /\ path \in Seq(Nat)
         /\ error = "SUCCESS"
         /\ current_pos = Len(path) /\ rand_depth = Len(path)
         /\ IsDraw(n) => /\ Len(path) < Len(g)
                         /\ g[Len(path) + 1] \in Passes(n)
                         /\ Len(path) \in DOMAIN want
                         /\ want[Len(path)] = <<g[Len(path) + 1], n.bound>>
         /\ ~IsDraw(n) => path = g /\ n.error = "SUCCESS"
<1>1. running /\ error = "SUCCESS"
  BY DEF At
<1>2. path \in Seq(Nat) /\ current_pos = Len(path) /\ rand_depth = Len(path)
  BY <1>1 DEF RecordInv
<1>3. OnTheWay(g)
  BY <1>1 DEF RandomInv, OnTheWay
<1>4. Grows(n)
  BY TreeGrows
<1>5. PICK k \in Nat : k = Len(path)
  BY <1>2
<1>6. g \in Seq(Nat) /\ k <= Len(g) /\ path = SubSeq(g, 1, k) /\ Saved(want, g) /\ Ended(g)
  BY <1>3, <1>5 DEF OnTheWay
<1>7. CASE k = Len(g)
  <2>1. k \in 0 .. Len(g)
    BY <1>6
  <2>2. path = g
    BY <1>6, <1>7, <2>1, Beginnings
  <2>3. n = tree[g] /\ ~IsDraw(n) /\ n.error = "SUCCESS"
    BY <1>6, <2>2 DEF Here, Ended
  <2>4. QED
    BY <1>1, <1>2, <1>3, <1>4, <2>2, <2>3
<1>8. CASE k # Len(g)
  <2>1. k \in 0 .. Len(g) - 1
    BY <1>6, <1>8
  <2>2. /\ SubSeq(g, 1, k) \in DOMAIN tree
        /\ IsDraw(tree[SubSeq(g, 1, k)])
        /\ want[k] = <<g[k + 1], tree[SubSeq(g, 1, k)].bound>>
        /\ g[k + 1] \in Passes(tree[SubSeq(g, 1, k)])
        /\ DOMAIN want = 0 .. Len(g) - 1
    BY <1>6, <2>1 DEF Saved
  <2>3. n = tree[SubSeq(g, 1, k)]
    BY <1>6, <2>2 DEF Here
  <2>4. /\ k < Len(g) /\ IsDraw(n) /\ g[k + 1] \in Passes(n) /\ k \in DOMAIN want
        /\ want[k] = <<g[k + 1], n.bound>>
    BY <1>6, <1>8, <2>1, <2>2, <2>3
  <2>5. QED
    BY <1>1, <1>2, <1>3, <1>4, <1>5, <2>4
<1>9. QED
  BY <1>7, <1>8

\* The saved choice is made again, and the generator handed over at the point.
LEMMA DeltaKeeps ==
  ASSUME RecordInv, RandomInv, NEW n \in Here, DeltaChoice(n)
  PROVE  RandomInv' /\ RecordInv'
<1>1. gen = "delta" /\ At(n) /\ IsDraw(n) /\ running
  BY DEF DeltaChoice, Drawing, At
<1>2. PICK g : g = Values(want)
  OBVIOUS
<1>3. /\ OnTheWay(g) /\ Grows(n) /\ path \in Seq(Nat)
      /\ error = "SUCCESS"
      /\ current_pos = Len(path) /\ rand_depth = Len(path)
      /\ Len(path) < Len(g)
      /\ g[Len(path) + 1] \in Passes(n)
      /\ Len(path) \in DOMAIN want
      /\ want[Len(path)] = <<g[Len(path) + 1], n.bound>>
  BY <1>1, <1>2, DeltaFollows
<1>4. PICK p \in Seq(Nat) : p = path
  BY <1>3
<1>5. PICK k \in Nat : k = Len(p)
  OBVIOUS
<1>6. PICK v \in Passes(n) : v = g[k + 1]
  BY <1>3, <1>4, <1>5
<1>7. /\ k \in DOMAIN want /\ want[k][1] = v /\ want[k][2] = n.bound
      /\ v \notin n.invalid /\ current_pos = k /\ rand_depth = k
  BY <1>3, <1>4, <1>5, <1>6 DEF Passes
<1>8. /\ Give(v, n, k) /\ HandOver(k + 1) /\ current_pos' = k + 1
      /\ UNCHANGED <<running, all_done, want, random_point>>
  BY <1>7 DEF DeltaChoice, dfsVars
<1>9. v \in Nat /\ Saved(seq, p)
  BY <1>1, <1>4, PassesAreNumbers DEF RandomInv
<1>10. Saved(seq, path)' /\ path' \in Seq(Nat) /\ Len(path') = k + 1
  BY <1>1, <1>3, <1>4, <1>5, <1>8, <1>9, SavedGrows
<1>11. gen' \in {"default", "delta"} /\ rand_depth' = k + 1 /\ error' = "SUCCESS"
  BY <1>1, <1>8 DEF HandOver, Give
<1>12. OnTheWay(g)'
  <2>1. g \in Seq(Nat) /\ Saved(want, g) /\ Ended(g) /\ p = SubSeq(g, 1, k) /\ k < Len(g)
    BY <1>3, <1>4, <1>5 DEF OnTheWay
  <2>2. PICK w : w = want
    OBVIOUS
  <2>3. Saved(w, g)' /\ Ended(g)'
    BY <1>3, <2>1, <2>2, SavedStays, EndedStays
  <2>4. k \in 0 .. Len(g) /\ k + 1 <= Len(g)
    BY <2>1
  <2>5. path' = SubSeq(g, 1, k + 1)
    BY <1>4, <1>6, <1>8, <2>1, <2>4, Beginnings DEF Give
  <2>6. QED
    BY <1>8, <1>10, <2>1, <2>2, <2>3, <2>4, <2>5 DEF OnTheWay
<1>13. RandomInv'
  <2>1. Values(want)' = g
    BY <1>2, <1>8 DEF Values
  <2>2. running'
    BY <1>1, <1>8
  <2>3. QED
    BY <1>10, <1>11, <1>12, <2>1, <2>2 DEF RandomInv, OnTheWay
<1>14. RecordInv'
  <2>1. (path \in Seq(Nat) /\ Saved(seq, path) => RecordIsTheRun)'
    BY SavedIsTheRun, PTL
  <2>2. RecordIsTheRun'
    BY <1>10, <2>1
  <2>3. current_pos' = Len(path') /\ rand_depth' = Len(path')
        /\ rand_depth' \in Nat /\ current_pos' \in Int
    BY <1>8, <1>10, <1>11
  <2>4. running' \in BOOLEAN /\ all_done' \in BOOLEAN /\ random_point' \in Nat
    BY <1>8 DEF RecordInv
  <2>5. QED
    BY <1>10, <1>11, <2>2, <2>3, <2>4 DEF RecordInv
<1>15. QED
  BY <1>13, <1>14

\* A program that is finished is saved with its choices.
LEMMA RandomFinishKeeps ==
  ASSUME RecordInv, RandomInv, NEW e, FinishRandom(e)
  PROVE  RandomInv' /\ RecordInv'
<1>1. /\ gen \in {"default", "delta"} /\ error' = e /\ running' = FALSE
      /\ want' = (IF e = "SUCCESS" THEN seq ELSE want)
      /\ UNCHANGED <<gen, path, seq, all_done, current_pos, rand_depth, random_point>>
  BY DEF FinishRandom, dfsVars
<1>2. Saved(seq, path)
  BY <1>1 DEF RandomInv
<1>3. CASE error = "SUCCESS"
  <2>1. PICK n \in Here : At(n) /\ ~IsDraw(n) /\ e = n.error
    BY <1>3 DEF FinishRandom, RunEnds
  <2>2. Grows(n)
    BY <2>1, TreeGrows
  <2>3. PICK s : s = seq
    OBVIOUS
  <2>4. PICK p : p = path
    OBVIOUS
  <2>5. Saved(s, p)'
    BY <1>2, <2>2, <2>3, <2>4, SavedStays
  <2>6. e = "SUCCESS" => Ended(p)'
    BY <2>1, <2>2, <2>4 DEF Ended, Grows, IsDraw
  <2>7. gen = "delta" => e = "SUCCESS"
    BY <2>1, DeltaFollows
  <2>8. RandomInv'
    BY <1>1, <2>3, <2>4, <2>5, <2>6, <2>7 DEF RandomInv
  <2>9. RecordInv'
    BY <1>1, <1>3 DEF RecordInv, RecordIsTheRun
  <2>10. QED
    BY <2>8, <2>9
<1>4. CASE error # "SUCCESS"
  <2>1. e = error /\ tree' = tree
    BY <1>4 DEF FinishRandom, RunEnds
  <2>2. gen # "delta"
    BY <1>4 DEF RandomInv
  <2>3. Saved(seq, path)'
    BY <1>1, <1>2, <2>1 DEF Saved, IsDraw, Passes
  <2>4. RandomInv'
    BY <1>1, <1>4, <2>1, <2>2, <2>3 DEF RandomInv
  <2>5. RecordInv'
    BY <1>1, <1>4, <2>1 DEF RecordInv, RecordIsTheRun
  <2>6. QED
    BY <2>4, <2>5
<1>5. QED
  BY <1>3, <1>4

\* A process that reduces starts with what the last one saved.
LEMMA StartDeltaKeeps ==
  ASSUME RecordInv, RandomInv, StartDelta
  PROVE  RandomInv' /\ RecordInv'
<1>1. /\ ~running /\ gen \in {"default", "delta"} /\ error = "SUCCESS"
      /\ random_point' \in 0 .. Cardinality(DOMAIN want) + 1
      /\ seq' = <<>> /\ current_pos' = 0
  BY DEF StartDelta, Empty
<1>2. /\ gen' = "delta" /\ running' = TRUE /\ error' = "SUCCESS" /\ path' = <<>>
      /\ rand_depth' = 0 /\ all_done' = FALSE /\ want' = want
      /\ tree' = [p \in {SubSeq(Values(want), 1, k) : k \in 0 .. Cardinality(DOMAIN want)} |-> tree[p]]
  BY DEF StartDelta, Process, Empty
<1>3. want = seq /\ Ended(path) /\ Saved(seq, path) /\ path \in Seq(Nat)
  BY <1>1 DEF RandomInv, RecordInv
<1>4. PICK g \in Seq(Nat) : g = path
  BY <1>3
<1>5. PICK w : w = want
  OBVIOUS
<1>6. Saved(w, g) /\ Ended(g)
  BY <1>3, <1>4, <1>5
<1>7. Cardinality(DOMAIN w) = Len(g) /\ Values(w) = g
  BY <1>6, SavedName
<1>8. \A k \in 0 .. Len(g) : /\ SubSeq(g, 1, k) \in DOMAIN tree'
                             /\ tree'[SubSeq(g, 1, k)] = tree[SubSeq(g, 1, k)]
  BY <1>2, <1>5, <1>7, KeptAlong
<1>9. Saved(w, g)'
  <2>1. \A k \in 0 .. Len(g) - 1 : k \in 0 .. Len(g)
    OBVIOUS
  <2>2. QED
    BY <1>6, <1>8, <2>1 DEF Saved, IsDraw, Passes
<1>10. Ended(g)'
  <2>1. Len(g) \in 0 .. Len(g)
    OBVIOUS
  <2>2. SubSeq(g, 1, Len(g)) = g
    BY <2>1, Beginnings
  <2>3. g \in DOMAIN tree' /\ tree'[g] = tree[g]
    BY <1>8, <2>1, <2>2
  <2>4. QED
    BY <1>6, <2>3 DEF Ended, IsDraw
<1>11. path' \in Seq(Nat) /\ Len(path') = 0 /\ path' = SubSeq(g, 1, 0) /\ 0 <= Len(g)
  <2>1. 0 \in 0 .. Len(g)
    OBVIOUS
  <2>2. SubSeq(g, 1, 0) \in Seq(Nat) /\ Len(SubSeq(g, 1, 0)) = 0
    BY <2>1, Beginnings
  <2>3. SubSeq(g, 1, 0) = <<>>
    BY <2>2
  <2>4. QED
    BY <1>2, <2>3
<1>12. Saved(seq, path)'
  <2>1. DOMAIN seq' = 0 .. Len(path') - 1
    BY <1>1, <1>11
  <2>2. 0 .. Len(path') - 1 = {}
    BY <1>11
  <2>3. QED
    BY <2>1, <2>2 DEF Saved
<1>13. RandomInv'
  <2>1. Values(want)' = g
    BY <1>2, <1>5, <1>7 DEF Values
  <2>2. QED
    BY <1>2, <1>5, <1>9, <1>10, <1>11, <1>12, <2>1 DEF RandomInv
<1>14. RecordInv'
  <2>1. (path \in Seq(Nat) /\ Saved(seq, path) => RecordIsTheRun)'
    BY SavedIsTheRun, PTL
  <2>2. RecordIsTheRun'
    BY <1>11, <1>12, <2>1
  <2>3. current_pos' = Len(path') /\ rand_depth' = Len(path')
        /\ rand_depth' \in Nat /\ current_pos' \in Int
    BY <1>1, <1>2, <1>11
  <2>4. random_point' \in Nat
    BY <1>1, <1>5, <1>7
  <2>5. QED
    BY <1>2, <1>11, <2>2, <2>3, <2>4 DEF RecordInv
<1>15. QED
  BY <1>13, <1>14

\* Every step of a random process keeps its invariant.
LEMMA RandomNext ==
  ASSUME RecordInv, RandomInv, [Next]_vars
  PROVE  RandomInv'
<1> SUFFICES ASSUME gen' \in {"default", "delta"}
             PROVE  RandomInv'
  BY DEF RandomInv
<1>1. ASSUME NEW n \in Here, EagerBacktracking(n) \/ TooDeep(n) \/ Revisit(n) \/ SwitchBranch(n)
                             \/ FirstVisit(n) \/ DebugChoice(n)
      PROVE  FALSE
  BY <1>1 DEF EagerBacktracking, TooDeep, Revisit, SwitchBranch, FirstVisit, InDepth, Choice, DebugChoice
<1>2. ASSUME NEW n \in Here, DefaultChoice(n)
      PROVE  RandomInv'
  BY <1>2, DefaultKeeps
<1>3. ASSUME NEW n \in Here, DeltaChoice(n)
      PROVE  RandomInv'
  BY <1>3, DeltaKeeps
<1>4. ASSUME NEW e, FinishExhaustive(e)
      PROVE  FALSE
  BY <1>4 DEF FinishExhaustive
<1>5. ASSUME NEW e, FinishRandom(e)
      PROVE  RandomInv'
  BY <1>5, RandomFinishKeeps
<1>6. CASE StartDebug
  BY <1>6 DEF StartDebug, Process
<1>7. CASE StartDelta
  BY <1>7, StartDeltaKeeps
<1>8. CASE UNCHANGED vars
  <2>1. UNCHANGED <<tree, gen, running, error, path, seq, want>>
    BY <1>8 DEF vars, dfsVars
  <2>2. UNCHANGED Values(want)
    BY <2>1 DEF Values
  <2>3. UNCHANGED <<Saved(seq, path), Saved(want, Values(want)), Ended(path), Ended(Values(want))>>
    BY <2>1, <2>2 DEF Saved, Ended, IsDraw, Passes
  <2>4. QED
    BY <2>1, <2>2, <2>3 DEF RandomInv
<1>9. QED
  BY <1>1, <1>2, <1>3, <1>4, <1>5, <1>6, <1>7, <1>8 DEF Next, Draw, Finish

-----------------------------------------------------------------------------
(* The record of a run.                                                    *)

\* A value that is given is recorded at its position.
LEMMA GivenIsRecorded ==
  ASSUME path \in Seq(Nat), RecordIsTheRun, gen # "debug", gen' = gen,
         NEW v \in Nat, NEW n, NEW k, k = Len(path), Give(v, n, k)
  PROVE  RecordIsTheRun' /\ path' \in Seq(Nat) /\ Len(path') = k + 1
<1>1. k \in Nat
  OBVIOUS
<1>2. /\ path' \in Seq(Nat) /\ Len(path') = k + 1 /\ path'[k + 1] = v
      /\ \A i \in 1 .. k : path'[i] = path[i]
      /\ DOMAIN path' = 1 .. k + 1 /\ DOMAIN path = 1 .. k
  BY DEF Give
<1>3. /\ DOMAIN seq' = DOMAIN seq \union {k}
      /\ seq'[k] = <<v, n.bound>>
      /\ \A j \in DOMAIN seq : j # k => seq'[j] = seq[j]
  BY RecordGrows
<1>4. DOMAIN seq = 0 .. k - 1 /\ \A i \in 1 .. k : seq[i - 1][1] = path[i]
  BY <1>2 DEF RecordIsTheRun
<1>5. DOMAIN seq' = 0 .. (k + 1) - 1
  <2>1. (0 .. k - 1) \union {k} = 0 .. (k + 1) - 1
    BY <1>1
  <2>2. QED
    BY <1>3, <1>4, <2>1
<1>6. \A i \in 1 .. k + 1 : i - 1 \in DOMAIN seq' /\ seq'[i - 1][1] = path'[i]
  <2> SUFFICES ASSUME NEW i \in 1 .. k + 1
               PROVE  i - 1 \in DOMAIN seq' /\ seq'[i - 1][1] = path'[i]
    OBVIOUS
  <2>1. PICK j \in Nat : j = i - 1 /\ j \in 0 .. (k + 1) - 1
    BY <1>1
  <2>2. CASE i = k + 1
    <3>1. j = k
      BY <1>1, <2>1, <2>2
    <3>2. seq'[j][1] = v
      BY <1>3, <3>1
    <3>3. QED
      BY <1>2, <1>5, <2>1, <2>2, <3>2
  <2>3. CASE i # k + 1
    <3>1. i \in 1 .. k /\ j \in 0 .. k - 1 /\ j # k
      BY <1>1, <2>1, <2>3
    <3>2. seq'[j] = seq[j]
      BY <1>3, <1>4, <3>1
    <3>3. seq[j][1] = path[i]
      BY <1>4, <2>1, <3>1
    <3>4. QED
      BY <1>2, <1>5, <2>1, <3>1, <3>2, <3>3
  <2>4. QED
    BY <2>2, <2>3
<1>7. QED
  BY <1>2, <1>5, <1>6 DEF RecordIsTheRun

\* A value of the search.
LEMMA GiveKeepsRecord ==
  ASSUME RecordInv, gen = "dfs", error = "SUCCESS", NEW n, NEW v \in Nat,
         Give(v, n, current_pos'), current_pos' = current_pos + 1, all_done' = all_done,
         UNCHANGED <<gen, running, rand_depth, random_point>>
  PROVE  RecordInv'
<1>1. PICK k \in Nat : k = Len(path)
  BY DEF RecordInv
<1>2. path \in Seq(Nat) /\ RecordIsTheRun /\ current_pos = k - 1
  BY <1>1 DEF RecordInv
<1>3. current_pos' = k
  <2>1. (k - 1) + 1 = k
    OBVIOUS
  <2>2. QED
    BY <1>2, <2>1
<1>4. RecordIsTheRun' /\ path' \in Seq(Nat) /\ Len(path') = k + 1
  BY <1>1, <1>2, <1>3, GivenIsRecorded
<1>5. current_pos' \in Int /\ current_pos' = Len(path') - 1
  BY <1>3, <1>4
<1>6. /\ running' \in BOOLEAN /\ all_done' \in BOOLEAN /\ gen' = "dfs"
      /\ rand_depth' \in Nat /\ random_point' \in Nat
  BY DEF RecordInv
<1>7. QED
  BY <1>4, <1>5, <1>6 DEF RecordInv

\* A value that is refused leaves the record alone.
LEMMA RefuseKeepsRecord ==
  ASSUME RecordInv, error' # "SUCCESS", gen' = gen, running' = running,
         path' = path, seq' = seq, all_done' \in BOOLEAN, current_pos' \in Int,
         rand_depth' = rand_depth, random_point' = random_point
  PROVE  RecordInv'
BY DEF RecordInv, RecordIsTheRun

\* Every step of every generator keeps the record.
LEMMA RecordNext ==
  ASSUME RecordInv, SearchInv, DebugInv, RandomInv, [Next]_vars
  PROVE  RecordInv'
<1>1. ASSUME NEW n \in Here, EagerBacktracking(n)
      PROVE  RecordInv'
  <2>1. /\ error' # "SUCCESS" /\ gen' = gen /\ running' = running
        /\ path' = path /\ seq' = seq /\ all_done' = all_done /\ current_pos' = current_pos
        /\ rand_depth' = rand_depth /\ random_point' = random_point
    BY <1>1 DEF EagerBacktracking, Refuse
  <2>2. all_done' \in BOOLEAN /\ current_pos' \in Int
    BY <2>1 DEF RecordInv
  <2>3. QED
    BY <2>1, <2>2, RefuseKeepsRecord
<1>2. ASSUME NEW n \in Here, TooDeep(n)
      PROVE  RecordInv'
  <2>1. /\ error' # "SUCCESS" /\ gen' = gen /\ running' = running
        /\ path' = path /\ seq' = seq /\ all_done' = all_done /\ current_pos' = current_pos + 1
        /\ rand_depth' = rand_depth /\ random_point' = random_point
    BY <1>2 DEF TooDeep, Choice, Refuse, dfsVars
  <2>2. all_done' \in BOOLEAN /\ current_pos' \in Int
    BY <2>1 DEF RecordInv
  <2>3. QED
    BY <2>1, <2>2, RefuseKeepsRecord
<1>3. ASSUME NEW n \in Here, Revisit(n)
      PROVE  RecordInv'
  <2>1. /\ gen = "dfs" /\ error = "SUCCESS" /\ current_pos' = current_pos + 1
        /\ Give(states[current_pos'].value, n, current_pos') /\ all_done' = all_done
        /\ UNCHANGED <<gen, running, rand_depth, random_point>>
    BY <1>3 DEF Revisit, InDepth, Choice, Drawing, At, dfsVars
  <2>2. current_pos' \in Position
    <3>1. current_pos' = Len(path)
      BY <2>1 DEF RecordInv
    <3>2. Len(path) \in 0 .. MaxDepth - 1
      BY <1>3, <3>1, MaxDepthAssumption DEF Revisit, InDepth, RecordInv
    <3>3. QED
      BY <3>1, <3>2 DEF Position
  <2>3. PICK v \in Nat : v = states[current_pos'].value
    BY <2>1, <2>2 DEF SearchInv, StackInv
  <2>4. QED
    BY <2>1, <2>3, GiveKeepsRecord
<1>4. ASSUME NEW n \in Here, SwitchBranch(n)
      PROVE  RecordInv'
  <2>1. /\ gen = "dfs" /\ error = "SUCCESS" /\ current_pos' = current_pos + 1
        /\ UNCHANGED <<gen, running, rand_depth, random_point>>
    BY <1>4 DEF SwitchBranch, InDepth, Choice, Drawing, At
  <2>2. CASE NextValue(n) < n.bound
    <3>1. Give(NextValue(n), n, current_pos') /\ all_done' = all_done
      BY <1>4, <2>2 DEF SwitchBranch
    <3>2. PICK v \in Nat : v = NextValue(n)
      BY <1>4, <2>1, SwitchIsAtTop
    <3>3. QED
      BY <2>1, <3>1, <3>2, GiveKeepsRecord
  <2>3. CASE ~ (NextValue(n) < n.bound)
    <3>1. /\ error' # "SUCCESS" /\ path' = path /\ seq' = seq
          /\ all_done' = (all_done \/ decision_depth' < 0)
      BY <1>4, <2>3 DEF SwitchBranch, Exhausted, Refuse
    <3>2. all_done' \in BOOLEAN /\ current_pos' \in Int
      BY <2>1, <3>1 DEF RecordInv
    <3>3. QED
      BY <2>1, <3>1, <3>2, RefuseKeepsRecord
  <2>4. QED
    BY <2>2, <2>3
<1>5. ASSUME NEW n \in Here, FirstVisit(n)
      PROVE  RecordInv'
  <2>1. /\ gen = "dfs" /\ error = "SUCCESS" /\ current_pos' = current_pos + 1
        /\ UNCHANGED <<gen, running, rand_depth, random_point>>
    BY <1>5 DEF FirstVisit, InDepth, Choice, Drawing, At
  <2>2. CASE FirstFrom(n, 0) < n.bound
    <3>1. Give(FirstFrom(n, 0), n, current_pos') /\ all_done' = all_done
      BY <1>5, <2>2 DEF FirstVisit
    <3>2. PICK v \in Nat : v = FirstFrom(n, 0)
      BY <1>5, <2>1, FirstIsAboveTop
    <3>3. QED
      BY <2>1, <3>1, <3>2, GiveKeepsRecord
  <2>3. CASE ~ (FirstFrom(n, 0) < n.bound)
    <3>1. /\ error' # "SUCCESS" /\ path' = path /\ seq' = seq
          /\ all_done' = (all_done \/ decision_depth' < 0)
      BY <1>5, <2>3 DEF FirstVisit, Exhausted, Refuse
    <3>2. all_done' \in BOOLEAN /\ current_pos' \in Int
      BY <2>1, <3>1 DEF RecordInv
    <3>3. QED
      BY <2>1, <3>1, <3>2, RefuseKeepsRecord
  <2>4. QED
    BY <2>2, <2>3
<1>6. ASSUME NEW n \in Here, DebugChoice(n)
      PROVE  RecordInv'
  BY <1>6, DebugChoiceKeeps
<1>7. ASSUME NEW n \in Here, DefaultChoice(n)
      PROVE  RecordInv'
  BY <1>7, DefaultKeeps
<1>8. ASSUME NEW n \in Here, DeltaChoice(n)
      PROVE  RecordInv'
  BY <1>8, DeltaKeeps
<1>9. ASSUME NEW e, FinishExhaustive(e)
      PROVE  RecordInv'
  <2>1. /\ gen \in {"dfs", "debug"} /\ current_pos' = -1 /\ path' = <<>> /\ seq' = <<>>
        /\ running' = ~all_done
        /\ UNCHANGED <<gen, all_done, rand_depth, random_point>>
    BY <1>9 DEF FinishExhaustive, ResetState, Empty, dfsVars
  <2>2. path' \in Seq(Nat) /\ Len(path') = 0 /\ DOMAIN path' = {} /\ DOMAIN seq' = {}
    BY <2>1
  <2>3. 0 .. 0 - 1 = {}
    OBVIOUS
  <2>4. RecordIsTheRun'
    BY <2>2, <2>3 DEF RecordIsTheRun
  <2>5. current_pos' = Len(path') - 1 /\ current_pos' \in Int
    BY <2>1, <2>2
  <2>6. /\ running' \in BOOLEAN /\ all_done' \in BOOLEAN /\ gen' \in {"dfs", "debug"}
        /\ rand_depth' \in Nat /\ random_point' \in Nat
    BY <2>1 DEF RecordInv
  <2>7. QED
    BY <2>2, <2>4, <2>5, <2>6 DEF RecordInv
<1>10. ASSUME NEW e, FinishRandom(e)
       PROVE  RecordInv'
  BY <1>10, RandomFinishKeeps
<1>11. CASE StartDebug
  BY <1>11, StartDebugKeeps
<1>12. CASE StartDelta
  BY <1>12, StartDeltaKeeps
<1>13. CASE UNCHANGED vars
  <2>1. /\ UNCHANGED <<gen, running, all_done, path, current_pos, rand_depth, random_point>>
        /\ UNCHANGED <<error, seq>>
    BY <1>13 DEF vars, dfsVars
  <2>2. QED
    BY <2>1 DEF RecordInv, RecordIsTheRun
<1>14. QED
  BY <1>1, <1>2, <1>3, <1>4, <1>5, <1>6, <1>7, <1>8, <1>9, <1>10, <1>11, <1>12, <1>13
     DEF Next, Draw, Finish

-----------------------------------------------------------------------------
(* The theorems.                                                           *)

\* The stack as the search leaves it to the other generators.
StoreOK ==
  /\ states \in [Position -> [init : BOOLEAN, value : Nat]]
  /\ decision_depth \in -1 .. MaxDepth - 1

ChoicesInv == RecordInv /\ SearchInv /\ DebugInv /\ RandomInv /\ StoreOK

\* No other generator touches the stack: a name is followed without backing off.
LEMMA StoreNext ==
  ASSUME RecordInv, SearchInv, DebugInv, StoreOK, [Next]_vars
  PROVE  StoreOK'
<1>1. SearchInv'
  BY SearchNext
<1>2. CASE gen' = "dfs"
  BY <1>1, <1>2 DEF SearchInv, StackInv, StoreOK
<1>3. CASE gen' # "dfs"
  <2>1. ASSUME NEW n \in Here, EagerBacktracking(n)
        PROVE  FALSE
    <3>1. gen = "debug" /\ At(n) /\ IsDraw(n) /\ GuardFails(n, current_pos)
      BY <1>3, <2>1 DEF EagerBacktracking, Drawing
    <3>2. QED
      BY <3>1, DebugFollows
  <2>2. ASSUME NEW n \in Here, TooDeep(n) \/ Revisit(n) \/ SwitchBranch(n) \/ FirstVisit(n)
        PROVE  FALSE
    BY <1>3, <2>2 DEF TooDeep, Revisit, SwitchBranch, FirstVisit, InDepth, Choice
  <2>3. ASSUME NEW n \in Here, DebugChoice(n) \/ DefaultChoice(n) \/ DeltaChoice(n)
        PROVE  UNCHANGED <<states, decision_depth>>
    BY <2>3 DEF DebugChoice, DefaultChoice, DeltaChoice, dfsVars
  <2>4. ASSUME NEW e, FinishExhaustive(e) \/ FinishRandom(e)
        PROVE  UNCHANGED <<states, decision_depth>>
    BY <2>4 DEF FinishExhaustive, FinishRandom, dfsVars
  <2>5. ASSUME StartDebug \/ StartDelta
        PROVE  states' = Fresh /\ decision_depth' = -1
    BY <2>5 DEF StartDebug, StartDelta, Process
  <2>6. ASSUME UNCHANGED vars
        PROVE  UNCHANGED <<states, decision_depth>>
    BY <2>6 DEF vars, dfsVars
  <2>7. Fresh \in [Position -> [init : BOOLEAN, value : Nat]] /\ -1 \in -1 .. MaxDepth - 1
    BY MaxDepthAssumption DEF Fresh
  <2>8. UNCHANGED <<states, decision_depth>> \/ (states' = Fresh /\ decision_depth' = -1)
    BY <2>1, <2>2, <2>3, <2>4, <2>5, <2>6 DEF Next, Draw, Finish
  <2>9. QED
    BY <2>7, <2>8 DEF StoreOK
<1>4. QED
  BY <1>2, <1>3

\* A process starts with nothing drawn and nothing recorded.
LEMMA ChoicesInit == Init => ChoicesInv
<1> SUFFICES ASSUME Init
             PROVE  ChoicesInv
  OBVIOUS
<1>1. /\ gen \in {"dfs", "default"} /\ running = TRUE /\ error = "SUCCESS"
      /\ path = <<>> /\ seq = <<>> /\ states = Fresh /\ decision_depth = -1 /\ all_done = FALSE
      /\ current_pos = -1 /\ rand_depth = 0 /\ random_point = 0
  BY DEF Init, Empty
<1>2. path \in Seq(Nat) /\ Len(path) = 0 /\ DOMAIN path = {} /\ DOMAIN seq = {}
  BY <1>1
<1>3. 0 .. Len(path) - 1 = {} /\ current_pos = Len(path) - 1 /\ rand_depth = Len(path)
  BY <1>1, <1>2
<1>4. RecordIsTheRun
  BY <1>2, <1>3 DEF RecordIsTheRun
<1>5. RecordInv
  <2>1. /\ gen \in {"dfs", "default"} /\ running \in BOOLEAN /\ all_done \in BOOLEAN
    BY <1>1
  <2>2. current_pos = -1 /\ rand_depth = 0 /\ random_point = 0
    BY <1>1
  <2>3. current_pos \in Int /\ rand_depth \in Nat /\ random_point \in Nat
    BY <2>2
  <2>4. QED
    BY <1>2, <1>3, <1>4, <2>1, <2>3 DEF RecordInv
<1>6. Saved(seq, path)
  BY <1>2, <1>3 DEF Saved
<1>7. RandomInv
  BY <1>1, <1>6 DEF RandomInv
<1>8. DebugInv
  BY <1>1 DEF DebugInv
<1>9. StoreOK
  BY <1>1, MaxDepthAssumption DEF StoreOK, Fresh
<1>10. QED
  BY <1>5, <1>7, <1>8, <1>9, SearchInit DEF ChoicesInv

\* The inductive invariant of the four generators and the loops around them.
THEOREM ChoicesAlways == Spec => []ChoicesInv
<1>1. ChoicesInv /\ [Next]_vars => ChoicesInv'
  BY RecordNext, SearchNext, DebugNext, RandomNext, StoreNext DEF ChoicesInv
<1>2. QED
  BY <1>1, ChoicesInit, PTL DEF Spec

\* The values and the positions have the types the code declares, and the array
\* of the search is in use up to its next decision and no further.
THEOREM TypesAreKept == Spec => []TypeOK
<1>1. ChoicesInv => TypeOK
  BY DEF ChoicesInv, RecordInv, SearchInv, StackInv, StoreOK, TypeOK
<1>2. QED
  BY <1>1, ChoicesAlways, PTL

\* Whatever the builder draws, the exhaustive search writes its programs in
\* lexicographic order of their choices, so none of them twice.
THEOREM ProgramsAreWrittenOnce == Spec => []EachProgramOnce
<1>1. ChoicesInv => EachProgramOnce
  BY DEF ChoicesInv, SearchInv, OnceInv, EachProgramOnce
<1>2. QED
  BY <1>1, ChoicesAlways, PTL

\* When it stops it has taken every value that passes a filter of every draw it
\* may make, and has written every program it came to the end of.
THEOREM SearchIsExhaustive == Spec => []NothingSkipped
<1>1. ChoicesInv => NothingSkipped
  <2> SUFFICES ASSUME ChoicesInv, gen = "dfs", ~running, NEW p \in DOMAIN tree
               PROVE  /\ IsDraw(tree[p]) /\ Allowed(p) =>
                           \A v \in Passes(tree[p]) : Append(p, v) \in DOMAIN tree
                      /\ ~IsDraw(tree[p]) /\ tree[p].error = "SUCCESS" =>
                           \E i \in DOMAIN good : good[i] = p
    BY DEF NothingSkipped
  <2>1. TreeInv /\ StackInv /\ SkipInv
    BY DEF ChoicesInv, SearchInv
  <2>2. decision_depth = -1 /\ ~Busy
    BY <2>1 DEF StackInv, Busy
  <2>3. ~Open(p)
    <3>1. Len(p) \in Nat
      BY <2>1 DEF TreeInv
    <3>2. ~ (Len(p) <= -1)
      BY <3>1
    <3>3. QED
      BY <2>2, <3>2 DEF Open
  <2>4. QED
    BY <2>1, <2>2, <2>3 DEF SkipInv, Reached
<1>2. QED
  BY <1>1, ChoicesAlways, PTL

\* What is recorded is what the builder was given, also by two generators one
\* after the other in the same program.
THEOREM RecordsAreTrue == Spec => []RecordIsTheRun
<1>1. ChoicesInv => RecordIsTheRun
  BY DEF ChoicesInv, RecordInv
<1>2. QED
  BY <1>1, ChoicesAlways, PTL

\* A process that is given the recorded choices of a program is never refused
\* one of them and writes that program.
THEOREM RecordsRebuild == Spec => []RebuildsTheProgram
<1>1. ChoicesInv => RebuildsTheProgram
  <2> SUFFICES ASSUME ChoicesInv
               PROVE  RebuildsTheProgram
    OBVIOUS
  <2>1. RecordInv /\ DebugInv /\ RandomInv
    BY DEF ChoicesInv
  <2>2. gen \in {"debug", "delta"} => error = "SUCCESS"
    BY <2>1 DEF DebugInv, RandomInv
  <2>3. ASSUME gen = "debug", NEW i \in DOMAIN good
        PROVE  i = 1 /\ good[i] = Values(want)
    <3>1. running \/ good = <<Values(want)>>
      BY <2>1, <2>3 DEF DebugInv
    <3>2. running => good = <<>>
      BY <2>1, <2>3 DEF DebugInv
    <3>3. QED
      BY <2>3, <3>1, <3>2
  <2>4. ASSUME gen = "delta", running, NEW i \in DOMAIN path
        PROVE  path[i] = want[i - 1][1]
    <3>1. PICK g : g = Values(want)
      OBVIOUS
    <3>2. g \in Seq(Nat) /\ Saved(want, g) /\ Len(path) <= Len(g) /\ path = SubSeq(g, 1, Len(path))
      BY <2>1, <2>4, <3>1 DEF RandomInv
    <3>3. path \in Seq(Nat)
      BY <2>1 DEF RecordInv
    <3>4. PICK k \in Nat : k = Len(path)
      BY <3>3
    <3>5. i \in 1 .. k /\ k \in 0 .. Len(g)
      BY <2>4, <3>2, <3>3, <3>4
    <3>6. path[i] = g[i]
      BY <3>2, <3>4, <3>5, Beginnings
    <3>7. Cardinality(DOMAIN want) = Len(g) /\ i \in 1 .. Len(g)
      BY <3>2, <3>5, SavedName
    <3>8. g[i] = want[i - 1][1]
      BY <3>1, <3>7 DEF Values
    <3>9. QED
      BY <3>6, <3>8
  <2>5. QED
    BY <2>2, <2>3, <2>4 DEF RebuildsTheProgram
<1>2. QED
  BY <1>1, ChoicesAlways, PTL

=============================================================================
