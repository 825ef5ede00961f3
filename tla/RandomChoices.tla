----------------------------- MODULE RandomChoices -----------------------------
(***************************************************************************)
(* The random-number generators every part of the program generator draws  *)
(* from, and the loop around them.  Building a program is a deterministic  *)
(* function of the values drawn, so the builder is a tree: after the       *)
(* values `path' it either draws again, below a bound and through a        *)
(* filter, or has finished the program or given up.                        *)
(*                                                                         *)
(*   "dfs"      --dfs-exhaustive: build every program, one run of the      *)
(*              builder each, keeping a stack of choices between the runs  *)
(*   "debug"    --dfs-debug-sequence: rebuild one from its recorded name   *)
(*   "default"  --delta-monitor: draw at random and save the choices       *)
(*   "delta"    --go-delta: follow a saved file up to a random point, then *)
(*              draw at random, and save the choices made                  *)
(***************************************************************************)
EXTENDS Integers, Sequences, FiniteSets

CONSTANTS
  MaxDepth,    \* CGOptions::max_exhaustive_depth
  Ends(_),     \* the errors a run of the builder can end with after n values
  Draws(_)     \* the draws the builder may make after n values

ASSUME MaxDepthAssumption == MaxDepth \in Nat \ {0}

\* The search asks for values below positive bounds, at every depth it allows.
ASSUME BoundsAssumption ==
  \A k \in 0 .. MaxDepth : \A n \in Draws(k) : n.bound \in Nat \ {0}

VARIABLES
  tree,            \* what the builder does after each path it has come to
  gen,             \* RandomNumber::curr_generator_
  running,         \* FALSE when the process has ended
  error,           \* Error::get_error()
  path,            \* the values this run of the builder has been given
  seq,             \* the Sequence: position -> <<value, bound>>
  good,            \* the names of the programs written, in order
  states,          \* DFSRndNumGenerator::states_
  decision_depth, current_pos, all_done,
  want,            \* the sequence the process was started with
  rand_depth,      \* DefaultRndNumGenerator::rand_depth_
  random_point     \* SimpleDeltaRndNumGenerator::random_point_

dfsVars == <<states, decision_depth, all_done>>
vars == <<tree, gen, running, error, path, seq, good, dfsVars, current_pos,
          want, rand_depth, random_point>>

Position == 0 .. MaxDepth - 1
Empty == <<>>

\* f with x mapped to v, whether or not it had a value there.
With(f, x, v) == [y \in DOMAIN f \union {x} |-> IF y = x THEN v ELSE f[y]]

Fresh == [i \in Position |-> [init |-> FALSE, value |-> 0]]

-----------------------------------------------------------------------------
(* The builder.  A node with bound 0 is the end of a run, with an error or *)
(* without; any other is one draw: a bound, the values its filter rejects  *)
(* and the depth the guard in front of it asks for.                        *)

IsDraw(n) == n.bound > 0
Passes(n) == (0 .. n.bound - 1) \ n.invalid

Finished(n) == [bound : {0}, invalid : {{}}, need : {0}, error : Ends(n)]

\* The default generator draws until a value passes the filter, and its
\* callers never ask for one that cannot.
Askable(n) == (gen = "default" /\ IsDraw(n)) => Passes(n) # {}

\* What the builder does here: as before if it has been here, else anything.
Here == IF path \in DOMAIN tree THEN {tree[path]}
        ELSE {n \in Finished(Len(path)) \union Draws(Len(path)) : Askable(n)}

At(n) == running /\ error = "SUCCESS" /\ tree' = With(tree, path, n)
Drawing(n) == At(n) /\ IsDraw(n)

\* A value the builder is given, and its record.
Give(v, n, pos) ==
  /\ path' = Append(path, v)
  /\ seq' = With(seq, pos, <<v, n.bound>>)
  /\ error' = "SUCCESS"

Refuse(e) == error' = e /\ UNCHANGED <<path, seq>>

-----------------------------------------------------------------------------
(* The exhaustive generator.                                               *)

\* The first value from v up that the filter lets through, the bound if none.
FirstFrom(n, v) ==
  CHOOSE u \in v .. n.bound :
    (u \in Passes(n) \/ u = n.bound) /\ \A w \in v .. u - 1 : w \notin Passes(n)

\* Mutant: the states below an exhausted choice stay as they are.
ForgetNothing(from) == states

Forget(from) == [i \in Position |->
                   [states[i] EXCEPT !.init = IF i >= from THEN FALSE ELSE @]]

\* DepthSpec: too little depth is left for what is to be built next.
GuardFails(n, pos) == pos > 0 /\ MaxDepth - pos < n.need

EagerBacktracking(n) ==
  /\ gen \in {"dfs", "debug"} /\ Drawing(n)
  /\ GuardFails(n, current_pos)
  /\ Refuse("BACKTRACKING_ERROR")
  /\ IF current_pos > decision_depth
       THEN UNCHANGED <<decision_depth, states>>
       ELSE /\ decision_depth' = current_pos
            /\ states' = Forget(current_pos + 1)
  /\ UNCHANGED <<gen, running, good, all_done, current_pos, want, rand_depth, random_point>>

\* random_choice() from the point where the guard has let the builder through.
Choice(n) ==
  /\ gen = "dfs" /\ Drawing(n)
  /\ ~GuardFails(n, current_pos)
  /\ current_pos' = current_pos + 1
  /\ UNCHANGED <<gen, running, good, want, rand_depth, random_point>>

TooDeep(n) ==
  /\ Choice(n)
  /\ current_pos' >= MaxDepth \/ decision_depth >= MaxDepth
  /\ Refuse("EXCEED_MAX_DEPTH_ERROR")
  /\ UNCHANGED dfsVars

InDepth(n) == Choice(n) /\ current_pos' < MaxDepth /\ decision_depth < MaxDepth

Revisit(n) ==
  /\ InDepth(n)
  /\ current_pos' < decision_depth /\ states[current_pos'].init
  /\ Give(states[current_pos'].value, n, current_pos')
  /\ UNCHANGED dfsVars

\* Mutant: the first value is taken again when the search switches branch.
BackToFirst(n) == FirstFrom(n, 0)

\* Mutant: the value is increased once more before the filter is asked.
ValueAfterNext(n) ==
  LET v == states[current_pos + 1].value + 2 IN IF v > n.bound THEN n.bound ELSE FirstFrom(n, v)

NextValue(n) == FirstFrom(n, states[current_pos + 1].value + 1)

\* No value is left: the choice before this one is the next to be changed.
Exhausted(pos, depth) ==
  /\ Refuse("BACKTRACKING_ERROR")
  /\ states' = Forget(pos)
  /\ decision_depth' = depth - 1
  /\ all_done' = (all_done \/ decision_depth' < 0)

SwitchBranch(n) ==
  /\ InDepth(n)
  /\ current_pos' >= decision_depth /\ states[current_pos'].init
  /\ LET v == NextValue(n) IN
       IF v < n.bound
         THEN /\ Give(v, n, current_pos')
              /\ states' = [states EXCEPT ![current_pos + 1].value = v]
              /\ UNCHANGED <<decision_depth, all_done>>
         ELSE Exhausted(current_pos', decision_depth)

FirstVisit(n) ==
  /\ InDepth(n)
  /\ ~states[current_pos'].init
  /\ LET v == FirstFrom(n, 0) IN
       IF v < n.bound
         THEN /\ Give(v, n, current_pos')
              /\ states' = [states EXCEPT ![current_pos + 1] = [init |-> TRUE, value |-> v]]
              /\ decision_depth' = current_pos'
              /\ UNCHANGED all_done
         ELSE Exhausted(current_pos', current_pos')

\* Mutant: the end is noticed one draw late.
PastLastPosition(known, pos) == pos >= Cardinality(DOMAIN known)

\* Whether a position is the last the sequence has.
LastPosition(known, pos) == pos >= Cardinality(DOMAIN known) - 1

\* With --dfs-debug-sequence the values come from the sequence; a position
\* that it does not have reads as 0 and is then there.
DebugChoice(n) ==
  /\ gen = "debug" /\ Drawing(n)
  /\ ~GuardFails(n, current_pos)
  /\ current_pos' = current_pos + 1
  /\ LET known == IF current_pos' \in DOMAIN seq THEN seq
                  ELSE With(seq, current_pos', <<0, 0>>) IN
       /\ seq' = known
       /\ path' = Append(path, known[current_pos'][1])
       /\ all_done' = (all_done \/ LastPosition(known, current_pos'))
  /\ UNCHANGED <<gen, running, error, good, states, decision_depth, want, rand_depth, random_point>>

-----------------------------------------------------------------------------
(* The default generator, and following a file of saved choices.           *)

DefaultChoice(n) ==
  /\ gen = "default" /\ Drawing(n)
  /\ \E v \in Passes(n) : Give(v, n, rand_depth)
  /\ rand_depth' = rand_depth + 1
  /\ UNCHANGED <<gen, running, good, dfsVars, current_pos, want, random_point>>

\* Mutant: the default generator starts to count where it stood.
HandOverOnly(depth) ==
  IF depth < random_point THEN rand_depth' = depth /\ UNCHANGED gen
  ELSE gen' = "default" /\ rand_depth' = 0

\* switch_to_default_generator(), which hands over the number of draws.
HandOver(depth) ==
  IF depth < random_point THEN rand_depth' = depth /\ UNCHANGED gen
  ELSE gen' = "default" /\ rand_depth' = depth

DeltaChoice(n) ==
  /\ gen = "delta" /\ Drawing(n)
  /\ IF current_pos \notin DOMAIN want \/ want[current_pos][2] # n.bound
       THEN Refuse("ABORT") /\ UNCHANGED <<gen, current_pos, rand_depth>>
       ELSE LET v == want[current_pos][1] IN
         /\ current_pos' = current_pos + 1
         /\ IF v \in n.invalid
              THEN Refuse("FILTER_ERROR") /\ UNCHANGED <<gen, rand_depth>>
              ELSE Give(v, n, current_pos) /\ HandOver(rand_depth + 1)
  /\ UNCHANGED <<running, good, dfsVars, want, random_point>>

-----------------------------------------------------------------------------
(* The loop around the builder.                                            *)

Values(s) == [i \in 1 .. Cardinality(DOMAIN s) |-> s[i - 1][1]]

\* reset_state()
ResetState == current_pos' = -1 /\ seq' = Empty /\ path' = Empty

\* Mutant: the error of one run is still there in the next.
KeepError == UNCHANGED error

\* The next turn of the loop starts without an error.
ClearError == error' = "SUCCESS"

\* A run of the builder ends, at the end of the program or on an error.
RunEnds(e) ==
  /\ running
  /\ \/ error = "SUCCESS" /\ \E n \in Here : At(n) /\ ~IsDraw(n) /\ e = n.error
     \/ error # "SUCCESS" /\ e = error /\ UNCHANGED tree

\* DFSProgramGenerator::goGenerator(), one turn of the loop.
FinishExhaustive(e) ==
  /\ gen \in {"dfs", "debug"} /\ RunEnds(e)
  /\ good' = IF e = "SUCCESS" THEN Append(good, Values(seq)) ELSE good
  /\ ResetState /\ ClearError
  /\ running' = ~all_done
  /\ UNCHANGED <<gen, dfsVars, want, rand_depth, random_point>>

\* DefaultProgramGenerator::goGenerator() and DeltaMonitor::Output().
FinishRandom(e) ==
  /\ gen \in {"default", "delta"} /\ RunEnds(e)
  /\ good' = IF e = "SUCCESS" THEN Append(good, Values(seq)) ELSE good
  /\ want' = IF e = "SUCCESS" THEN seq ELSE want
  /\ error' = e
  /\ running' = FALSE
  /\ UNCHANGED <<gen, path, seq, dfsVars, current_pos, rand_depth, random_point>>

\* A new process builds along what is saved as the process that saved it did; what it
\* does elsewhere may be anything again.
Process(g, saved) ==
  /\ gen' = g /\ running' = TRUE /\ error' = "SUCCESS" /\ path' = Empty
  /\ states' = Fresh /\ decision_depth' = -1 /\ all_done' = FALSE
  /\ rand_depth' = 0
  /\ want' = saved
  /\ tree' = [p \in {SubSeq(Values(saved), 1, k) : k \in 0 .. Cardinality(DOMAIN saved)} |-> tree[p]]

\* A program of an exhaustive search is built again from its name.
StartDebug ==
  /\ ~running /\ gen = "dfs"
  /\ \E i \in DOMAIN good :
       Process("debug", [k \in 0 .. Len(good[i]) - 1 |-> <<good[i][k + 1], 0>>])
  /\ seq' = want' /\ current_pos' = -1 /\ good' = <<>>
  /\ UNCHANGED random_point

\* A saved file is followed up to a random point; with --no-delta-reduction,
\* which a point past the end stands for, to the end.
StartDelta ==
  /\ ~running /\ gen \in {"default", "delta"} /\ error = "SUCCESS"
  /\ DOMAIN want # {}
  /\ random_point' \in 0 .. Cardinality(DOMAIN want) + 1
  /\ Process("delta", want)
  /\ seq' = Empty /\ current_pos' = 0 /\ good' = <<>>

-----------------------------------------------------------------------------

\* The builder always draws: a program without a choice is never asked for.
Init ==
  /\ gen \in {"dfs", "default"} /\ running = TRUE /\ error = "SUCCESS"
  /\ tree \in [{<<>>} -> {n \in Draws(0) : Askable(n)}]
  /\ path = Empty /\ seq = Empty /\ good = <<>> /\ want = Empty
  /\ states = Fresh /\ decision_depth = -1 /\ all_done = FALSE
  /\ current_pos = -1 /\ rand_depth = 0 /\ random_point = 0

Draw ==
  \E n \in Here :
    \/ EagerBacktracking(n) \/ TooDeep(n) \/ Revisit(n) \/ SwitchBranch(n) \/ FirstVisit(n)
    \/ DebugChoice(n) \/ DefaultChoice(n) \/ DeltaChoice(n)

Finish ==
  \E e \in Ends(Len(path)) \union {"BACKTRACKING_ERROR", "EXCEED_MAX_DEPTH_ERROR", "FILTER_ERROR", "ABORT"} :
    FinishExhaustive(e) \/ FinishRandom(e)

Next == Draw \/ Finish \/ StartDebug \/ StartDelta

Spec == Init /\ [][Next]_vars

\* A process that runs goes on until it ends.
FairSpec == Spec /\ WF_vars(Draw) /\ WF_vars(Finish)

-----------------------------------------------------------------------------
(* Properties.                                                             *)

\* The types of the variables.  The array of states is a stack: it is in use
\* up to the depth of the next decision, and nothing above that is left over
\* from a run of the builder that went further.
TypeOK ==
  /\ gen \in {"dfs", "debug", "default", "delta"}
  /\ running \in BOOLEAN /\ all_done \in BOOLEAN
  /\ states \in [Position -> [init : BOOLEAN, value : Nat]]
  /\ decision_depth \in -1 .. MaxDepth - 1
  /\ current_pos \in Int /\ rand_depth \in Nat /\ random_point \in Nat
  /\ gen = "dfs" => \A i \in Position : states[i].init <=> i <= decision_depth

\* The search writes each program once: the choices of the next program it
\* writes come after those of the one before, in lexicographic order.
Before(p, q) ==
  \E k \in 1 .. Len(p) :
    k <= Len(q) /\ p[k] < q[k] /\ \A j \in 1 .. k - 1 : p[j] = q[j]
EachProgramOnce ==
  gen = "dfs" => \A i \in 1 .. Len(good) - 1 : Before(good[i], good[i + 1])

\* When the search says it is done it has left nothing out: of each choice the
\* depth limit and the guards allow it has taken every value that passes the
\* filter, and has written every program it came to the end of.
Allowed(p) == Len(p) < MaxDepth /\ ~GuardFails(tree[p], Len(p) - 1)
NothingSkipped ==
  (gen = "dfs" /\ ~running) =>
    \A p \in DOMAIN tree :
      /\ IsDraw(tree[p]) /\ Allowed(p) =>
           \A v \in Passes(tree[p]) : Append(p, v) \in DOMAIN tree
      /\ ~IsDraw(tree[p]) /\ tree[p].error = "SUCCESS" =>
           \E i \in DOMAIN good : good[i] = p

\* What is recorded is what the builder was given, whichever generator gave it
\* and also when one hands over to another in the middle of a program.
RecordIsTheRun ==
  /\ \A i \in DOMAIN path : i - 1 \in DOMAIN seq /\ seq[i - 1][1] = path[i]
  /\ gen # "debug" => DOMAIN seq = 0 .. Len(path) - 1

\* A recorded program can be rebuilt: a process that is given its choices is
\* never refused, and what it writes is that program and no other; up to the
\* random point a reduction makes the same choices too.
RebuildsTheProgram ==
  /\ gen \in {"debug", "delta"} => error = "SUCCESS" \/ (~running /\ error \in Ends(Len(path)))
  /\ gen = "debug" => \A i \in DOMAIN good : i = 1 /\ good[i] = Values(want)
  /\ gen = "delta" /\ running => \A i \in DOMAIN path : path[i] = want[i - 1][1]

\* Every process ends: the search runs out of choices and says so.
EveryProcessEnds == running ~> ~running

=============================================================================
