---------------------------- MODULE PthreadSpin ----------------------------
(***************************************************************************)
(* lab3/1/1_1/1_1.c: two threads increment the volatile counter a under a  *)
(* pthread spin lock.  "a = a + 1" is a load and a store, two steps that   *)
(* other threads may come between; the lock is the library's, taken and    *)
(* released in one step.                                                   *)
(***************************************************************************)
EXTENDS Integers, Sequences

CONSTANT N            \* iterations of each thread's loop (10000 in the code)

Threads == {1, 2}

VARIABLES
  a,                  \* the shared counter
  locked,             \* the state of the spin lock
  pc,                 \* where each thread is in its loop
  i,                  \* the loop counter of each thread
  tmp,                \* the register holding the loaded value of a
  mpc,                \* where main is
  out                 \* values main has written to 1.txt

vars == <<a, locked, pc, i, tmp, mpc, out>>

Init ==
  /\ a = 0
  /\ locked = FALSE
  /\ pc = [t \in Threads |-> "none"]
  /\ i = [t \in Threads |-> 0]
  /\ tmp = [t \in Threads |-> 0]
  /\ mpc = "create1"
  /\ out = <<>>

Go(t, from, to) == pc[t] = from /\ pc' = [pc EXCEPT ![t] = to]

SpinLock(t) ==
  /\ Go(t, "lock", "load")
  /\ ~locked
  /\ locked' = TRUE
  /\ UNCHANGED <<a, i, tmp, mpc, out>>

Load(t) ==
  /\ Go(t, "load", "store")
  /\ tmp' = [tmp EXCEPT ![t] = a]
  /\ UNCHANGED <<a, locked, i, mpc, out>>

Store(t) ==
  /\ Go(t, "store", "unlock")
  /\ a' = tmp[t] + 1
  /\ UNCHANGED <<locked, i, tmp, mpc, out>>

SpinUnlock(t) ==
  /\ Go(t, "unlock", IF i[t] + 1 < N THEN "lock" ELSE "done")
  /\ locked' = FALSE
  /\ i' = [i EXCEPT ![t] = @ + 1]
  /\ UNCHANGED <<a, tmp, mpc, out>>

Thread(t) == SpinLock(t) \/ Load(t) \/ Store(t) \/ SpinUnlock(t)

\* main: pthread_create for t1 and for t2, pthread_join of both, fprintf.
MainAt(from, to) == mpc = from /\ mpc' = to

Create(t) ==
  /\ IF t = 1 THEN MainAt("create1", "create2") ELSE MainAt("create2", "join1")
  /\ Go(t, "none", "lock")
  /\ UNCHANGED <<a, locked, i, tmp, out>>

Join(t) ==
  /\ IF t = 1 THEN MainAt("join1", "join2") ELSE MainAt("join2", "print")
  /\ pc[t] = "done"
  /\ UNCHANGED <<a, locked, pc, i, tmp, out>>

Fprintf ==
  /\ MainAt("print", "exit")
  /\ out' = Append(out, a)
  /\ UNCHANGED <<a, locked, pc, i, tmp>>

Main == (\E t \in Threads : Create(t) \/ Join(t)) \/ Fprintf

\* The process has ended: nothing is left to run.
Ended == mpc = "exit" /\ UNCHANGED vars

Next == (\E t \in Threads : Thread(t)) \/ Main \/ Ended

Spec == Init /\ [][Next]_vars
-----------------------------------------------------------------------------
\* Every variable of the program holds a value the code can store in it.
TypeOK ==
  /\ a \in Nat
  /\ locked \in BOOLEAN
  /\ pc \in [Threads -> {"none", "lock", "load", "store", "unlock", "done"}]
  /\ i \in [Threads -> 0 .. N]
  /\ tmp \in [Threads -> Nat]
  /\ mpc \in {"create1", "create2", "join1", "join2", "print", "exit"}
  /\ out \in Seq(Nat)

\* Additions a thread has made so far: its finished iterations, and the one
\* under way once its store is done.
Done(t) == i[t] + (IF pc[t] = "unlock" THEN 1 ELSE 0)

\* What main prints is the sum of both threads' additions.
PrintsTotal == out # <<>> => out = <<2 * N>>

\* The program implements the atomic counter: an addition takes effect at the
\* store, no addition is lost, and main prints after the last one.
Abstract == INSTANCE AtomicCounter WITH cnt <- [t \in Threads |-> Done(t)]

ImplementsAtomicCounter == Abstract!Spec
=============================================================================
