---------------------------- MODULE MessagePassing ----------------------------
(***************************************************************************)
(* The kernel's half of message passing: the threads of one work group     *)
(* running the code StatementMessage::Output and Message::OutputEndChecks  *)
(* write for the plan MessageOrdering has drawn.                           *)
(*                                                                         *)
(* A thread runs the random program, in which it reaches its own nodes in  *)
(* an order, and as often, as control flow has it: a node may be skipped,  *)
(* sit in a loop, or be run before one registered earlier.  Every read and *)
(* every write of a flag, and of a field of the message, is a step of its  *)
(* own; the conjuncts of a condition are read in any order, since the      *)
(* generator writes them in the order of pointers in a std::set.  Reads    *)
(* and writes are sequentially consistent: each wait starts and each       *)
(* signal ends with a fence.                                               *)
(***************************************************************************)
EXTENDS MessageOrdering

CONSTANT MaxVisits  \* bound on the nodes one thread reaches

ASSUME VisitsAssumption == MaxVisits \in Nat

VARIABLES
  mem,      \* the four flags of the message in local memory
  message,  \* field -> the updates it holds, in the order they were applied
  pc,       \* thread -> [at, node, i, todo]
  tmp,      \* thread -> the value of a field it has loaded and not yet stored
  visits,   \* thread -> nodes reached so far
  high,     \* thread -> the last of its nodes in registration order reached
  due       \* history: the nodes that control flow has made the threads run

runVars == <<mem, message, pc, tmp, visits, high, due>>
vars == <<genVars, runVars>>

-----------------------------------------------------------------------------

At(t, place) == phase = "run" /\ pc[t].at = place
Place(at, n, i, todo) == [at |-> at, node |-> n, i |-> i, todo |-> todo]
Goto(t, place) == pc' = [pc EXCEPT ![t] = place]
Body == Place("body", 0, 0, {})

Lt(c) == mem[c[1]] < c[2]

\* Mutant: a flag that has yet to come passes.
Eq_Le(c) == mem[c[1]] <= c[2]
Eq(c) == mem[c[1]] = c[2]

\* The locks a spin loop goes through: those of a node's wait block, or
\* (node 0) those of the end checks of the thread.
Locks(t) == IF pc[t].node = 0 THEN endChecks[t] ELSE wait[pc[t].node].unlocks

\* Mutant: the signal is left out of the condition.
Passed_NoSignal(lock) == lock.checks

\* The condition that ends a spin loop early: all of a lock passed.
Passed(lock) == lock.checks \union {lock.signal}
Last(s) == s[Len(s)]

\* After i locks of its loop, thread t is at the next one, or past them all.
AfterLock(t, n, locks, i) ==
  IF i < Len(locks) THEN Place("unlock", n, i + 1, locks[i + 1].checks)
  ELSE IF n = 0 THEN Place("break", 0, 0, Passed(Last(locks)))
  ELSE Place("check", n, 0, wait[n].lock.checks)

EarlyBreak(n) == Place("early", n, 0, Passed(wait[n].lock))

-----------------------------------------------------------------------------

RunInit ==
  /\ mem = [f \in Flag |-> 0]
  /\ message = [f \in Fields |-> <<>>]
  /\ pc = [t \in Tid |-> Body]
  /\ tmp = [t \in Tid |-> <<>>]
  /\ visits = [t \in Tid |-> 0]
  /\ high = [t \in Tid |-> 0]
  /\ due = {}

\* Thread t reaches node n: the other threads skip it, and a node without a
\* wait block was written out as nothing at all.
Visit(t, n) ==
  /\ At(t, "body")
  /\ visits[t] < MaxVisits
  /\ n \in DOMAIN wait
  /\ nodes[n] = t
  /\ visits' = [visits EXCEPT ![t] = @ + 1]
  /\ high' = [high EXCEPT ![t] = IF n > @ THEN n ELSE @]
  /\ due' = IF n > high[t] THEN due \union {n} ELSE due
  /\ Goto(t, EarlyBreak(n))
  /\ UNCHANGED <<mem, message, tmp>>

\* Break out if the node has already run or been unlocked.
ReadEarly(t, c) ==
  LET n == pc[t].node
      todo == pc[t].todo \ {c}
  IN  /\ At(t, "early")
      /\ c \in pc[t].todo
      /\ Goto(t, IF Lt(c) THEN AfterLock(t, n, wait[n].unlocks, 0)
                 ELSE IF todo = {} THEN Body
                 ELSE [pc[t] EXCEPT !.todo = todo])
      /\ UNCHANGED <<mem, message, tmp, visits, high, due>>

\* Is it the turn of a node this thread has skipped?
ReadUnlock(t, c) ==
  LET n == pc[t].node
      todo == pc[t].todo \ {c}
  IN  /\ At(t, "unlock")
      /\ c \in pc[t].todo
      /\ Goto(t, IF ~ Eq(c) THEN AfterLock(t, n, Locks(t), pc[t].i)
                 ELSE IF todo = {} THEN [pc[t] EXCEPT !.at = "set", !.todo = {}]
                 ELSE [pc[t] EXCEPT !.todo = todo])
      /\ UNCHANGED <<mem, message, tmp, visits, high, due>>

\* Then signal on its behalf.
SetUnlock(t) ==
  LET signal == Locks(t)[pc[t].i].signal
  IN  /\ At(t, "set")
      /\ mem' = [mem EXCEPT ![signal[1]] = signal[2]]
      /\ Goto(t, AfterLock(t, pc[t].node, Locks(t), pc[t].i))
      /\ UNCHANGED <<message, tmp, visits, high, due>>

\* The first field of an update block, or what follows the block.
NextUpdate(n, todo) == Place(IF todo = {} THEN "signal" ELSE "load", n, 0, todo)

\* Is it the turn of the node itself?  If not, go round again.
ReadCheck(t, c) ==
  LET n == pc[t].node
      todo == pc[t].todo \ {c}
  IN  /\ At(t, "check")
      /\ c \in pc[t].todo
      /\ Goto(t, IF ~ Eq(c) THEN EarlyBreak(n)
                 ELSE IF todo = {} THEN NextUpdate(n, updates[n])
                 ELSE [pc[t] EXCEPT !.todo = todo])
      /\ UNCHANGED <<mem, message, tmp, visits, high, due>>

\* field = f(field, y), a read and a write of shared memory.
LoadField(t, f) ==
  /\ At(t, "load")
  /\ f \in pc[t].todo
  /\ tmp' = [tmp EXCEPT ![t] = Append(message[f], pc[t].node)]
  /\ Goto(t, [pc[t] EXCEPT !.at = "store", !.i = f])
  /\ UNCHANGED <<mem, message, visits, high, due>>

StoreField(t) ==
  /\ At(t, "store")
  /\ message' = [message EXCEPT ![pc[t].i] = tmp[t]]
  /\ tmp' = [tmp EXCEPT ![t] = <<>>]
  /\ Goto(t, NextUpdate(pc[t].node, pc[t].todo \ {pc[t].i}))
  /\ UNCHANGED <<mem, visits, high, due>>

\* Set the node's flag and leave its loop.
Signal(t) ==
  LET signal == wait[pc[t].node].lock.signal
  IN  /\ At(t, "signal")
      /\ mem' = [mem EXCEPT ![signal[1]] = signal[2]]
      /\ Goto(t, Body)
      /\ UNCHANGED <<message, tmp, visits, high, due>>

\* func_1 returns, and the thread enters its end checks if it has any.
Return(t) ==
  /\ At(t, "body")
  /\ Goto(t, IF endChecks[t] = <<>> THEN Place("done", 0, 0, {})
             ELSE AfterLock(t, 0, endChecks[t], 0))
  /\ UNCHANGED <<mem, message, tmp, visits, high, due>>

\* Leave the end checks once all of the thread's nodes have been passed.
ReadBreak(t, c) ==
  LET todo == pc[t].todo \ {c}
  IN  /\ At(t, "break")
      /\ c \in pc[t].todo
      /\ Goto(t, IF Lt(c) THEN AfterLock(t, 0, endChecks[t], 0)
                 ELSE IF todo = {} THEN Place("done", 0, 0, {})
                 ELSE [pc[t] EXCEPT !.todo = todo])
      /\ UNCHANGED <<mem, message, tmp, visits, high, due>>

Reads(t) == \E c \in pc[t].todo :
  ReadEarly(t, c) \/ ReadUnlock(t, c) \/ ReadCheck(t, c) \/ ReadBreak(t, c)

Thread(t) ==
  /\ \/ \E n \in Node : Visit(t, n)
     \/ Reads(t)
     \/ SetUnlock(t)
     \/ \E f \in Fields : LoadField(t, f)
     \/ StoreField(t)
     \/ Signal(t)
     \/ Return(t)
  /\ UNCHANGED genVars

Generate == GenNext /\ UNCHANGED runVars

AllDone == phase = "run" /\ \A t \in Tid : pc[t].at = "done"

Init == GenInit /\ RunInit

-----------------------------------------------------------------------------
(* Properties.                                                             *)

Updating == {n \in DOMAIN wait : \E t \in Tid :
               /\ pc[t].node = n
               /\ pc[t].at \in {"load", "store", "signal"}}

\* Thread t has yet to read, or to write back, field f.
Touches(t, f) == \/ At(t, "load") /\ f \in pc[t].todo
                 \/ At(t, "store") /\ f \in pc[t].todo

\* Two nodes update the message at the same time only when the generator drew
\* them as a pair, and even then never the same field: the spin loops of the
\* waits give mutual exclusion, whatever the threads skip, repeat or reorder.
UpdatesDoNotRace ==
  \A t, u \in Tid : LET m == pc[t].node
                        n == pc[u].node
                    IN  t # u /\ {m, n} \subseteq Updating =>
                          /\ n \in async[m] \/ m \in async[n]
                          /\ \A f \in Fields : ~ (Touches(t, f) /\ Touches(u, f))

\* The updates of field f by the nodes of D, in the order drawn: the i-th is that
\* of the i-th step in which a node of D updates f.
Updaters(f, D, k) == {n \in Step(k) \intersect D : f \in updates[n]}
Applied(f, D) ==
  LET steps  == {k \in DOMAIN order : Updaters(f, D, k) # {}}
      Nth(i) == CHOOSE k \in steps : Cardinality({j \in steps : j <= k}) = i
  IN  [i \in 1 .. Cardinality(steps) |-> First(Updaters(f, D, Nth(i)))]

\* The generated kernel is deterministic: when all threads are done, each field
\* of the message holds the updates of exactly the nodes their control flow
\* made due, each once, in the order the generator drew, under every schedule.
\* (A node reached after a later one of its thread has been passed by then.)
Determinism ==
  AllDone => \A f \in Fields : message[f] = Applied(f, due)

\* The nodes passed: their flag has reached the value they signal.
PassedNodes ==
  {n \in DOMAIN wait : mem[wait[n].lock.signal[1]] >= wait[n].lock.signal[2]}

\* What message passing is for: nodes updating one step of a drawn order after
\* another.  MessageDAG says it without flags, spin loops or unlocks.
Drawn == phase = "run"
DAG == INSTANCE MessageDAG WITH
         Node    <- Node,
         drawn   <- Drawn,
         steps   <- IF Drawn THEN [k \in DOMAIN order |-> Step(k)] ELSE <<>>,
         inside  <- Updating,
         settled <- IF Drawn THEN PassedNodes ELSE {}

\* The threads of the kernel implement the drawn order of updates.
ImplementsDAG == DAG!Spec

=============================================================================
