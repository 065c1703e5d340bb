----------------------------- MODULE XchgSpin -----------------------------
(***************************************************************************)
(* lab3/1/1_2/1_2.c: the same two threads as 1_1.c under a spin lock       *)
(* written in x86 assembly.  Every instruction that touches memory is a    *)
(* step of its own; xchg with a memory operand is atomic.                  *)
(***************************************************************************)
EXTENDS Integers, Sequences

CONSTANT N            \* iterations of each thread's loop (10000 in the code)

ASSUME NAssumption == N \in Nat \ {0}

Threads == {1, 2}

LOCK == 0
UNLOCK == 1

VARIABLES
  a,                  \* the shared counter
  lock,               \* the lock word
  pc,                 \* where each thread is in its loop
  eax,                \* the register eax of each thread
  i,                  \* the loop counter of each thread
  tmp,                \* the register holding the loaded value of a
  mpc,                \* where main is
  out                 \* values main has written to 1.txt

vars == <<a, lock, pc, eax, i, tmp, mpc, out>>

Init ==
  /\ a = 0
  /\ lock = UNLOCK
  /\ pc = [t \in Threads |-> "none"]
  /\ eax = [t \in Threads |-> 0]
  /\ i = [t \in Threads |-> 0]
  /\ tmp = [t \in Threads |-> 0]
  /\ mpc = "create1"
  /\ out = <<>>

Go(t, from, to) == pc[t] = from /\ pc' = [pc EXCEPT ![t] = to]

SetEax(t, v) == eax' = [eax EXCEPT ![t] = v]

\* xchg %[lock], %%eax
Xchg(t) == lock' = eax[t] /\ SetEax(t, lock)

\* spin_lock: "loop: mov $0, %eax"
LockMov(t) ==
  /\ Go(t, "mov", "xchg")
  /\ SetEax(t, 0)
  /\ UNCHANGED <<a, lock, i, tmp, mpc, out>>

\* Mutant: the word is read into eax but 0 is not written back (mov for xchg).
LockReadOnly(t) ==
  /\ Go(t, "xchg", "js")
  /\ SetEax(t, lock)
  /\ UNCHANGED <<a, lock, i, tmp, mpc, out>>

LockXchg(t) ==
  /\ Go(t, "xchg", "js")
  /\ Xchg(t)
  /\ UNCHANGED <<a, i, tmp, mpc, out>>

\* Mutant: the jump taken on a zero result as if it were the free case (jns).
LockJns(t) ==
  /\ Go(t, "js", IF eax[t] - 1 >= 0 THEN "mov" ELSE "load")
  /\ SetEax(t, eax[t] - 1)
  /\ UNCHANGED <<a, lock, i, tmp, mpc, out>>

\* spin_lock: "sub $1, %eax; js loop"
LockJs(t) ==
  /\ Go(t, "js", IF eax[t] - 1 < 0 THEN "mov" ELSE "load")
  /\ SetEax(t, eax[t] - 1)
  /\ UNCHANGED <<a, lock, i, tmp, mpc, out>>

Load(t) ==
  /\ Go(t, "load", "store")
  /\ tmp' = [tmp EXCEPT ![t] = a]
  /\ UNCHANGED <<a, lock, eax, i, mpc, out>>

Store(t) ==
  /\ Go(t, "store", "umov")
  /\ a' = tmp[t] + 1
  /\ UNCHANGED <<lock, eax, i, tmp, mpc, out>>

\* spin_unlock: "mov $1, %eax"
UnlockMov(t) ==
  /\ Go(t, "umov", "uxchg")
  /\ SetEax(t, 1)
  /\ UNCHANGED <<a, lock, i, tmp, mpc, out>>

\* Mutant: the iteration ends and the lock word keeps its value.
UnlockForgotten(t) ==
  /\ Go(t, "uxchg", IF i[t] + 1 < N THEN "mov" ELSE "done")
  /\ i' = [i EXCEPT ![t] = @ + 1]
  /\ UNCHANGED <<a, lock, eax, tmp, mpc, out>>

\* spin_unlock's xchg, then the end of the iteration
UnlockXchg(t) ==
  /\ Go(t, "uxchg", IF i[t] + 1 < N THEN "mov" ELSE "done")
  /\ Xchg(t)
  /\ i' = [i EXCEPT ![t] = @ + 1]
  /\ UNCHANGED <<a, tmp, mpc, out>>

Thread(t) ==
  \/ LockMov(t) \/ LockXchg(t) \/ LockJs(t)
  \/ Load(t) \/ Store(t)
  \/ UnlockMov(t) \/ UnlockXchg(t)

MainAt(from, to) == mpc = from /\ mpc' = to

Create(t) ==
  /\ IF t = 1 THEN MainAt("create1", "create2") ELSE MainAt("create2", "join1")
  /\ Go(t, "none", "mov")
  /\ UNCHANGED <<a, lock, eax, i, tmp, out>>

Join(t) ==
  /\ IF t = 1 THEN MainAt("join1", "join2") ELSE MainAt("join2", "print")
  /\ pc[t] = "done"
  /\ UNCHANGED <<a, lock, pc, eax, i, tmp, out>>

Fprintf ==
  /\ MainAt("print", "exit")
  /\ out' = Append(out, a)
  /\ UNCHANGED <<a, lock, pc, eax, i, tmp>>

Main == (\E t \in Threads : Create(t) \/ Join(t)) \/ Fprintf

\* The process has ended: nothing is left to run.
Ended == mpc = "exit" /\ UNCHANGED vars

Next == (\E t \in Threads : Thread(t)) \/ Main \/ Ended

Spec == Init /\ [][Next]_vars

\* The scheduler runs every thread that can take a step, main included.
FairSpec == Spec /\ WF_vars(Main) /\ \A t \in Threads : WF_vars(Thread(t))
-----------------------------------------------------------------------------
\* Every register, word and position holds a value the instructions can put
\* there; in particular the lock word is only ever LOCK or UNLOCK.
TypeOK ==
  /\ a \in Nat
  /\ lock \in {LOCK, UNLOCK}
  /\ pc \in [Threads -> {"none", "mov", "xchg", "js", "load", "store",
                         "umov", "uxchg", "done"}]
  /\ eax \in [Threads -> -1 .. 1]
  /\ i \in [Threads -> 0 .. N]
  /\ tmp \in [Threads -> Nat]
  /\ mpc \in {"create1", "create2", "join1", "join2", "print", "exit"}
  /\ out \in Seq(Nat)

\* A thread owns the lock from the xchg that brought 1 into eax until the
\* xchg that puts 1 back.
Owns(t) ==
  \/ pc[t] \in {"load", "store", "umov", "uxchg"}
  \/ pc[t] = "js" /\ eax[t] = 1

\* The lock word and the owners agree: at most one thread is between
\* spin_lock and spin_unlock, and the word is LOCK exactly when one is.
LockExclusive ==
  /\ ~(Owns(1) /\ Owns(2))
  /\ lock = LOCK <=> (Owns(1) \/ Owns(2))

\* Where the thread is in 1_1.c: one that has not yet won the xchg is still at
\* pthread_spin_lock, one that has won it is past it.
PthreadPc(t) ==
  CASE pc[t] \in {"mov", "xchg"} -> "lock"
    [] pc[t] = "js" -> IF eax[t] = 1 THEN "load" ELSE "lock"
    [] pc[t] \in {"umov", "uxchg"} -> "unlock"
    [] OTHER -> pc[t]

Pthread == INSTANCE PthreadSpin WITH
  locked <- lock = LOCK,
  pc <- [t \in Threads |-> PthreadPc(t)]

\* The assembly implements the library's lock: every behaviour of 1_2.c is one
\* of 1_1.c once the spinning and the moves to registers are hidden.
ImplementsPthreadSpin == Pthread!Spec

\* The assembly program, seen through the library's lock, loses no addition
\* and prints only the finished sum: it implements the atomic counter.
ImplementsAtomicCounter == Pthread!ImplementsAtomicCounter

\* Both loops end, however the threads spin, and main prints: a spinning
\* thread can only lose to the finitely many iterations of the other.
Terminates == <>(mpc = "exit")

\* What main writes to 1.txt is 2 * N: no addition was lost to a load and
\* store of the other thread, and none was still to come.
PrintsTotal == out # <<>> => out = <<2 * N>>
=============================================================================
