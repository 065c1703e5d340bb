----------------------------- MODULE SpinProofs -----------------------------
(***************************************************************************)
(* The two counters of lab3/1 for every number N of iterations: the one    *)
(* under the library's spin lock (Library) and the one under the assembly  *)
(* lock.  Each implements the atomic counter and prints 2 * N, and the     *)
(* assembly implements the library's lock.  The argument is the usual one  *)
(* for a lock: only the thread that holds it is between its load and its   *)
(* store, so the loaded value is still the counter when the store happens. *)
(***************************************************************************)
EXTENDS XchgSpin, TLAPS

-----------------------------------------------------------------------------
(* 1_1.c.  The library's program keeps its own lock and positions.         *)

VARIABLES
  locked,             \* the state of the library's lock
  at                  \* where each of its threads is in its loop

Library == INSTANCE PthreadSpin WITH pc <- at

Inside(t) == at[t] \in {"load", "store", "unlock"}

\* The lock is held exactly when one thread is inside, and by one only.
LibraryLockInv ==
  /\ ~(Inside(1) /\ Inside(2))
  /\ locked <=> (Inside(1) \/ Inside(2))

\* The counter is the sum of the additions, and a loaded value is current.
LibrarySumInv ==
  /\ a = Library!Done(1) + Library!Done(2)
  /\ \A t \in Library!Threads : at[t] = "store" => tmp[t] = a

\* A thread has iterations left until it is done, and none after.
LibraryLoopInv ==
  \A t \in Library!Threads : i[t] = N <=> at[t] = "done"

\* main has created a thread when it runs, and has joined it when it is done.
LibraryMainInv ==
  /\ at[1] = "none" <=> mpc = "create1"
  /\ at[2] = "none" <=> mpc \in {"create1", "create2"}
  /\ mpc \in {"join2", "print", "exit"} => at[1] = "done"
  /\ mpc \in {"print", "exit"} => at[2] = "done"
  /\ \A t \in Library!Threads : at[t] = "none" => i[t] = 0
  /\ out = IF mpc = "exit" THEN <<2 * N>> ELSE <<>>

LibraryInv == Library!TypeOK /\ LibraryLockInv /\ LibrarySumInv /\ LibraryLoopInv /\ LibraryMainInv

LEMMA PthreadInit ==
  Library!Init => LibraryInv
<1> SUFFICES ASSUME Library!Init PROVE LibraryInv
  OBVIOUS
<1> USE NAssumption DEF Library!Init, Library!Threads
<1>1. Library!TypeOK
  <2>1. 0 \in 0 .. N /\ out \in Seq(Nat)
    OBVIOUS
  <2>2. QED
    BY <2>1 DEF Library!TypeOK
<1>2. LibraryLockInv
  BY DEF LibraryLockInv, Inside
<1>3. LibrarySumInv
  BY DEF LibrarySumInv, Library!Done
<1>4. LibraryLoopInv
  BY DEF LibraryLoopInv
<1>5. LibraryMainInv
  BY DEF LibraryMainInv
<1>6. QED
  BY <1>1, <1>2, <1>3, <1>4, <1>5 DEF LibraryInv

LEMMA PthreadStep ==
  ASSUME LibraryInv, [Library!Next]_Library!vars PROVE LibraryInv'
<1> USE NAssumption DEF LibraryInv, Library!Threads
<1>1. ASSUME NEW t \in Library!Threads, Library!SpinLock(t) PROVE LibraryInv'
  <2>1. Library!TypeOK'
    BY <1>1 DEF Library!SpinLock, Library!Go, Library!TypeOK
  <2>2. LibraryLockInv'
    BY <1>1 DEF Library!SpinLock, Library!Go, Library!TypeOK, LibraryLockInv, Inside
  <2>3. LibrarySumInv'
    BY <1>1 DEF Library!SpinLock, Library!Go, Library!TypeOK, LibraryLockInv, Inside, LibrarySumInv, Library!Done
  <2>4. LibraryLoopInv'
    BY <1>1 DEF Library!SpinLock, Library!Go, Library!TypeOK, LibraryLoopInv
  <2>5. LibraryMainInv'
    BY <1>1 DEF Library!SpinLock, Library!Go, Library!TypeOK, LibraryLoopInv, LibraryMainInv
  <2>6. QED
    BY <2>1, <2>2, <2>3, <2>4, <2>5
<1>2. ASSUME NEW t \in Library!Threads, Library!Load(t) PROVE LibraryInv'
  <2>1. Library!TypeOK'
    BY <1>2 DEF Library!Load, Library!Go, Library!TypeOK
  <2>2. LibraryLockInv'
    BY <1>2 DEF Library!Load, Library!Go, Library!TypeOK, LibraryLockInv, Inside
  <2>3. LibrarySumInv'
    BY <1>2 DEF Library!Load, Library!Go, Library!TypeOK, LibraryLockInv, Inside, LibrarySumInv, Library!Done
  <2>4. LibraryLoopInv'
    BY <1>2 DEF Library!Load, Library!Go, Library!TypeOK, LibraryLoopInv
  <2>5. LibraryMainInv'
    BY <1>2 DEF Library!Load, Library!Go, Library!TypeOK, LibraryLoopInv, LibraryMainInv
  <2>6. QED
    BY <2>1, <2>2, <2>3, <2>4, <2>5
<1>3. ASSUME NEW t \in Library!Threads, Library!Store(t) PROVE LibraryInv'
  <2>1. Library!TypeOK'
    BY <1>3 DEF Library!Store, Library!Go, Library!TypeOK
  <2>2. LibraryLockInv'
    BY <1>3 DEF Library!Store, Library!Go, Library!TypeOK, LibraryLockInv, Inside
  <2>3. LibrarySumInv'
    BY <1>3 DEF Library!Store, Library!Go, Library!TypeOK, LibraryLockInv, Inside, LibrarySumInv, Library!Done
  <2>4. LibraryLoopInv'
    BY <1>3 DEF Library!Store, Library!Go, Library!TypeOK, LibraryLoopInv
  <2>5. LibraryMainInv'
    BY <1>3 DEF Library!Store, Library!Go, Library!TypeOK, LibraryLoopInv, LibraryMainInv
  <2>6. QED
    BY <2>1, <2>2, <2>3, <2>4, <2>5
<1>4. ASSUME NEW t \in Library!Threads, Library!SpinUnlock(t) PROVE LibraryInv'
  <2>1. Library!TypeOK'
    <3>1. i[t] + 1 \in 0 .. N
      BY <1>4 DEF Library!SpinUnlock, Library!Go, Library!TypeOK, LibraryLoopInv
    <3>2. i' \in [Library!Threads -> 0 .. N]
      BY <1>4, <3>1 DEF Library!SpinUnlock, Library!TypeOK
    <3>3. QED
      BY <1>4, <3>2 DEF Library!SpinUnlock, Library!Go, Library!TypeOK
  <2>2. LibraryLockInv'
    BY <1>4 DEF Library!SpinUnlock, Library!Go, Library!TypeOK, LibraryLockInv, Inside
  <2>3. LibrarySumInv'
    BY <1>4 DEF Library!SpinUnlock, Library!Go, Library!TypeOK, LibraryLockInv, Inside, LibrarySumInv, Library!Done
  <2>4. LibraryLoopInv'
    BY <1>4 DEF Library!SpinUnlock, Library!Go, Library!TypeOK, LibraryLoopInv
  <2>5. LibraryMainInv'
    BY <1>4 DEF Library!SpinUnlock, Library!Go, Library!TypeOK, LibraryLoopInv, LibraryMainInv
  <2>6. QED
    BY <2>1, <2>2, <2>3, <2>4, <2>5
<1>5. ASSUME NEW t \in Library!Threads, Library!Create(t) PROVE LibraryInv'
  <2>1. Library!TypeOK'
    BY <1>5 DEF Library!Create, Library!Go, Library!MainAt, Library!TypeOK
  <2>2. LibraryLockInv'
    BY <1>5 DEF Library!Create, Library!Go, Library!MainAt, Library!TypeOK, LibraryLockInv, Inside
  <2>3. LibrarySumInv'
    BY <1>5 DEF Library!Create, Library!Go, Library!MainAt, Library!TypeOK, LibraryLockInv, Inside, LibrarySumInv, Library!Done
  <2>4. LibraryLoopInv'
    BY <1>5 DEF Library!Create, Library!Go, Library!MainAt, Library!TypeOK, LibraryLoopInv
  <2>5. LibraryMainInv'
    BY <1>5 DEF Library!Create, Library!Go, Library!MainAt, Library!TypeOK, LibraryLoopInv, LibraryMainInv
  <2>6. QED
    BY <2>1, <2>2, <2>3, <2>4, <2>5
<1>6. ASSUME NEW t \in Library!Threads, Library!Join(t) PROVE LibraryInv'
  <2>1. Library!TypeOK'
    BY <1>6 DEF Library!Join, Library!MainAt, Library!TypeOK
  <2>2. LibraryLockInv'
    BY <1>6 DEF Library!Join, Library!MainAt, Library!TypeOK, LibraryLockInv, Inside
  <2>3. LibrarySumInv'
    BY <1>6 DEF Library!Join, Library!MainAt, Library!TypeOK, LibraryLockInv, Inside, LibrarySumInv, Library!Done
  <2>4. LibraryLoopInv'
    BY <1>6 DEF Library!Join, Library!MainAt, Library!TypeOK, LibraryLoopInv
  <2>5. LibraryMainInv'
    BY <1>6 DEF Library!Join, Library!MainAt, Library!TypeOK, LibraryLoopInv, LibraryMainInv
  <2>6. QED
    BY <2>1, <2>2, <2>3, <2>4, <2>5
<1>7. CASE Library!Fprintf
  <2>1. Library!TypeOK'
    BY <1>7 DEF Library!Fprintf, Library!MainAt, Library!TypeOK
  <2>2. LibraryLockInv'
    BY <1>7 DEF Library!Fprintf, Library!MainAt, Library!TypeOK, LibraryLockInv, Inside
  <2>3. LibrarySumInv'
    BY <1>7 DEF Library!Fprintf, Library!MainAt, Library!TypeOK, LibraryLockInv, Inside, LibrarySumInv, Library!Done
  <2>4. LibraryLoopInv'
    BY <1>7 DEF Library!Fprintf, Library!MainAt, Library!TypeOK, LibraryLoopInv
  <2>5. LibraryMainInv'
    BY <1>7 DEF Library!Fprintf, Library!MainAt, Library!TypeOK, LibrarySumInv, Library!Done, LibraryLoopInv, LibraryMainInv
  <2>6. QED
    BY <2>1, <2>2, <2>3, <2>4, <2>5
<1>8. CASE UNCHANGED Library!vars
  BY <1>8 DEF Library!vars, Library!TypeOK, LibraryLockInv, Inside, LibrarySumInv, Library!Done, LibraryLoopInv, LibraryMainInv
<1>9. QED
  BY <1>1, <1>2, <1>3, <1>4, <1>5, <1>6, <1>7, <1>8
  DEF Library!Next, Library!Thread, Library!Main, Library!Ended

\* What main prints is 2 * N, whatever the interleaving and whatever N.
THEOREM PthreadPrintsTotal ==
  Library!Spec => []Library!PrintsTotal
<1>1. Library!Init => LibraryInv
  BY PthreadInit
<1>2. LibraryInv /\ [Library!Next]_Library!vars => LibraryInv'
  BY PthreadStep
<1>3. LibraryInv => Library!PrintsTotal
  BY DEF LibraryInv, LibraryMainInv, Library!PrintsTotal
<1>4. QED
  BY <1>1, <1>2, <1>3, PTL DEF Library!Spec

\* The threads under the library's lock implement the atomic counter: the
\* store is the atomic addition and every other step of a thread is hidden.
THEOREM PthreadImplementsAtomicCounter ==
  Library!Spec => Library!ImplementsAtomicCounter
<1>1. Library!Init => LibraryInv
  BY PthreadInit
<1>2. LibraryInv /\ [Library!Next]_Library!vars => LibraryInv'
  BY PthreadStep
<1>3. Library!Init => Library!Abstract!Init
  BY DEF Library!Init, Library!Abstract!Init, Library!Done, Library!Threads, Library!Abstract!Threads
<1>4. LibraryInv /\ [Library!Next]_Library!vars => [Library!Abstract!Next]_Library!Abstract!vars
  <2> SUFFICES ASSUME LibraryInv, [Library!Next]_Library!vars PROVE [Library!Abstract!Next]_Library!Abstract!vars
    OBVIOUS
  <2> DEFINE cnt == [t \in Library!Threads |-> Library!Done(t)]
  <2> USE NAssumption DEF Library!Threads, Library!Abstract!Threads, Library!Done, Library!Abstract!vars
  <2>1. ASSUME NEW t \in Library!Threads, Library!SpinLock(t) \/ Library!Load(t) PROVE UNCHANGED <<a, cnt, out>>
    BY <2>1 DEF Library!SpinLock, Library!Load, Library!Go, LibraryInv, Library!TypeOK
  <2>2. ASSUME NEW t \in Library!Threads, Library!Store(t) PROVE Library!Abstract!Add(t)
    <3>1. a' = a + 1
      BY <2>2 DEF Library!Store, Library!Go, LibraryInv, Library!TypeOK, LibrarySumInv
    <3>2. cnt[t] < N
      BY <2>2 DEF Library!Store, Library!Go, LibraryInv, Library!TypeOK, LibraryLoopInv
    <3>3. cnt' = [cnt EXCEPT ![t] = @ + 1]
      <4>1. \A u \in Library!Threads : Library!Done(u)' = IF u = t THEN Library!Done(u) + 1 ELSE Library!Done(u)
        BY <2>2 DEF Library!Store, Library!Go, LibraryInv, Library!TypeOK
      <4>2. QED
        BY <4>1
    <3>4. QED
      BY <2>2, <3>1, <3>2, <3>3 DEF Library!Store, Library!Abstract!Add
  <2>3. ASSUME NEW t \in Library!Threads, Library!SpinUnlock(t) PROVE UNCHANGED <<a, cnt, out>>
    BY <2>3 DEF Library!SpinUnlock, Library!Go, LibraryInv, Library!TypeOK
  <2>4. ASSUME NEW t \in Library!Threads, Library!Create(t) \/ Library!Join(t) PROVE UNCHANGED <<a, cnt, out>>
    BY <2>4 DEF Library!Create, Library!Join, Library!Go, Library!MainAt, LibraryInv, Library!TypeOK
  <2>5. CASE Library!Fprintf
    <3>1. \A t \in Library!Threads : cnt[t] = N
      BY <2>5 DEF Library!Fprintf, Library!MainAt, LibraryInv, Library!TypeOK, LibraryLoopInv, LibraryMainInv
    <3>2. out = <<>> /\ out' = <<a>> /\ UNCHANGED <<a, cnt>>
      BY <2>5 DEF Library!Fprintf, Library!MainAt, LibraryInv, LibraryMainInv
    <3>3. QED
      BY <3>1, <3>2 DEF Library!Abstract!Next, Library!Abstract!Fprintf
  <2>6. CASE UNCHANGED Library!vars
    BY <2>6 DEF Library!vars
  <2>7. QED
    BY <2>1, <2>2, <2>3, <2>4, <2>5, <2>6
    DEF Library!Next, Library!Thread, Library!Main, Library!Ended, Library!Abstract!Next
<1>5. QED
  BY <1>1, <1>2, <1>3, <1>4, PTL DEF Library!Spec, Library!ImplementsAtomicCounter, Library!Abstract!Spec

-----------------------------------------------------------------------------
(* 1_2.c.                                                                  *)

\* What each thread has put into eax when it reaches its next instruction.
EaxInv ==
  \A t \in Threads :
    /\ pc[t] = "xchg" => eax[t] = 0
    /\ pc[t] = "js" => eax[t] \in {0, 1}
    /\ pc[t] = "uxchg" => eax[t] = 1

\* A thread has iterations left until it is done.
LoopInv ==
  \A t \in Threads : i[t] = N <=> pc[t] = "done"

\* Additions a thread has made so far: its finished iterations, and the one
\* under way once its store is done.
Additions(t) == i[t] + (IF pc[t] \in {"umov", "uxchg"} THEN 1 ELSE 0)

\* The counter is the sum of the additions, and a loaded value is current.
SumInv ==
  /\ a = Additions(1) + Additions(2)
  /\ \A t \in Threads : pc[t] = "store" => tmp[t] = a

\* main has created a thread when it runs, and has joined it when it is done.
MainInv ==
  /\ pc[1] = "none" <=> mpc = "create1"
  /\ pc[2] = "none" <=> mpc \in {"create1", "create2"}
  /\ mpc \in {"join2", "print", "exit"} => pc[1] = "done"
  /\ mpc \in {"print", "exit"} => pc[2] = "done"
  /\ \A t \in Threads : pc[t] = "none" => i[t] = 0
  /\ out = IF mpc = "exit" THEN <<2 * N>> ELSE <<>>

IInv == TypeOK /\ LockExclusive /\ EaxInv /\ LoopInv /\ SumInv /\ MainInv

LEMMA XchgInit == Init => IInv
<1> SUFFICES ASSUME Init PROVE IInv
  OBVIOUS
<1> USE NAssumption DEF Init, Threads, LOCK, UNLOCK
<1>1. 0 \in 0 .. N /\ out \in Seq(Nat) /\ 0 \in -1 .. 1
  OBVIOUS
<1>2. TypeOK
  BY <1>1 DEF TypeOK
<1>3. LockExclusive
  BY DEF LockExclusive, Owns
<1>4. EaxInv /\ LoopInv
  BY DEF EaxInv, LoopInv
<1>5. SumInv
  BY DEF SumInv, Additions
<1>6. MainInv
  BY DEF MainInv
<1>7. QED
  BY <1>2, <1>3, <1>4, <1>5, <1>6 DEF IInv

LEMMA XchgStep ==
  ASSUME IInv, [Next]_vars PROVE IInv'
<1> USE NAssumption DEF IInv, Threads, LOCK, UNLOCK
<1>1. ASSUME NEW t \in Threads, LockMov(t) PROVE IInv'
  <2>1. TypeOK'
    BY <1>1 DEF LockMov, Go, SetEax, TypeOK
  <2>2. LockExclusive'
    BY <1>1 DEF LockMov, Go, SetEax, TypeOK, LockExclusive, Owns, EaxInv
  <2>3. EaxInv'
    BY <1>1 DEF LockMov, Go, SetEax, TypeOK, EaxInv
  <2>4. LoopInv'
    BY <1>1 DEF LockMov, Go, SetEax, TypeOK, LoopInv
  <2>5. SumInv'
    BY <1>1 DEF LockMov, Go, SetEax, TypeOK, LockExclusive, Owns, SumInv, Additions
  <2>6. MainInv'
    BY <1>1 DEF LockMov, Go, SetEax, TypeOK, LoopInv, MainInv
  <2>7. QED
    BY <2>1, <2>2, <2>3, <2>4, <2>5, <2>6
<1>2. ASSUME NEW t \in Threads, LockXchg(t) PROVE IInv'
  <2>1. TypeOK'
    <3>1. lock' \in {LOCK, UNLOCK} /\ eax' \in [Threads -> -1 .. 1]
      BY <1>2 DEF LockXchg, Go, SetEax, Xchg, TypeOK, EaxInv
    <3>2. QED
      BY <1>2, <3>1 DEF LockXchg, Go, TypeOK
  <2>2. LockExclusive'
    BY <1>2 DEF LockXchg, Go, SetEax, Xchg, TypeOK, LockExclusive, Owns, EaxInv
  <2>3. EaxInv'
    BY <1>2 DEF LockXchg, Go, SetEax, Xchg, TypeOK, EaxInv
  <2>4. LoopInv'
    BY <1>2 DEF LockXchg, Go, SetEax, Xchg, TypeOK, LoopInv
  <2>5. SumInv'
    BY <1>2 DEF LockXchg, Go, SetEax, Xchg, TypeOK, LockExclusive, Owns, SumInv, Additions
  <2>6. MainInv'
    BY <1>2 DEF LockXchg, Go, SetEax, Xchg, TypeOK, LoopInv, MainInv
  <2>7. QED
    BY <2>1, <2>2, <2>3, <2>4, <2>5, <2>6
<1>3. ASSUME NEW t \in Threads, LockJs(t) PROVE IInv'
  <2>1. TypeOK'
    <3>1. eax[t] - 1 \in -1 .. 1
      BY <1>3 DEF LockJs, Go, TypeOK, EaxInv
    <3>2. eax' \in [Threads -> -1 .. 1]
      BY <1>3, <3>1 DEF LockJs, SetEax, TypeOK
    <3>3. QED
      BY <1>3, <3>2 DEF LockJs, Go, TypeOK
  <2>2. LockExclusive'
    BY <1>3 DEF LockJs, Go, SetEax, TypeOK, LockExclusive, Owns, EaxInv
  <2>3. EaxInv'
    BY <1>3 DEF LockJs, Go, SetEax, TypeOK, EaxInv
  <2>4. LoopInv'
    BY <1>3 DEF LockJs, Go, SetEax, TypeOK, LoopInv
  <2>5. SumInv'
    BY <1>3 DEF LockJs, Go, SetEax, TypeOK, LockExclusive, Owns, SumInv, Additions
  <2>6. MainInv'
    BY <1>3 DEF LockJs, Go, SetEax, TypeOK, LoopInv, MainInv
  <2>7. QED
    BY <2>1, <2>2, <2>3, <2>4, <2>5, <2>6
<1>4. ASSUME NEW t \in Threads, Load(t) PROVE IInv'
  <2>1. TypeOK'
    BY <1>4 DEF Load, Go, TypeOK
  <2>2. LockExclusive'
    BY <1>4 DEF Load, Go, TypeOK, LockExclusive, Owns, EaxInv
  <2>3. EaxInv'
    BY <1>4 DEF Load, Go, TypeOK, EaxInv
  <2>4. LoopInv'
    BY <1>4 DEF Load, Go, TypeOK, LoopInv
  <2>5. SumInv'
    BY <1>4 DEF Load, Go, TypeOK, LockExclusive, Owns, SumInv, Additions
  <2>6. MainInv'
    BY <1>4 DEF Load, Go, TypeOK, LoopInv, MainInv
  <2>7. QED
    BY <2>1, <2>2, <2>3, <2>4, <2>5, <2>6
<1>5. ASSUME NEW t \in Threads, Store(t) PROVE IInv'
  <2>1. TypeOK'
    BY <1>5 DEF Store, Go, TypeOK
  <2>2. LockExclusive'
    BY <1>5 DEF Store, Go, TypeOK, LockExclusive, Owns, EaxInv
  <2>3. EaxInv'
    BY <1>5 DEF Store, Go, TypeOK, EaxInv
  <2>4. LoopInv'
    BY <1>5 DEF Store, Go, TypeOK, LoopInv
  <2>5. SumInv'
    BY <1>5 DEF Store, Go, TypeOK, LockExclusive, Owns, SumInv, Additions
  <2>6. MainInv'
    BY <1>5 DEF Store, Go, TypeOK, LoopInv, MainInv
  <2>7. QED
    BY <2>1, <2>2, <2>3, <2>4, <2>5, <2>6
<1>6. ASSUME NEW t \in Threads, UnlockMov(t) PROVE IInv'
  <2>1. TypeOK'
    BY <1>6 DEF UnlockMov, Go, SetEax, TypeOK
  <2>2. LockExclusive'
    BY <1>6 DEF UnlockMov, Go, SetEax, TypeOK, LockExclusive, Owns, EaxInv
  <2>3. EaxInv'
    BY <1>6 DEF UnlockMov, Go, SetEax, TypeOK, EaxInv
  <2>4. LoopInv'
    BY <1>6 DEF UnlockMov, Go, SetEax, TypeOK, LoopInv
  <2>5. SumInv'
    BY <1>6 DEF UnlockMov, Go, SetEax, TypeOK, LockExclusive, Owns, SumInv, Additions
  <2>6. MainInv'
    BY <1>6 DEF UnlockMov, Go, SetEax, TypeOK, LoopInv, MainInv
  <2>7. QED
    BY <2>1, <2>2, <2>3, <2>4, <2>5, <2>6
<1>7. ASSUME NEW t \in Threads, UnlockXchg(t) PROVE IInv'
  <2>1. TypeOK'
    <3>1. i[t] + 1 \in 0 .. N
      BY <1>7 DEF UnlockXchg, Go, TypeOK, LoopInv
    <3>2. i' \in [Threads -> 0 .. N]
      BY <1>7, <3>1 DEF UnlockXchg, TypeOK
    <3>3. lock' \in {LOCK, UNLOCK} /\ eax' \in [Threads -> -1 .. 1]
      BY <1>7 DEF UnlockXchg, Go, SetEax, Xchg, TypeOK, EaxInv
    <3>4. QED
      BY <1>7, <3>2, <3>3 DEF UnlockXchg, Go, TypeOK
  <2>2. LockExclusive'
    BY <1>7 DEF UnlockXchg, Go, SetEax, Xchg, TypeOK, LockExclusive, Owns, EaxInv
  <2>3. EaxInv'
    BY <1>7 DEF UnlockXchg, Go, SetEax, Xchg, TypeOK, EaxInv
  <2>4. LoopInv'
    <3>1. i[t] \in 0 .. N /\ i[t] # N
      BY <1>7 DEF UnlockXchg, Go, TypeOK, LoopInv
    <3>2. i'[t] = N <=> pc'[t] = "done"
      BY <1>7, <3>1 DEF UnlockXchg, Go, TypeOK
    <3>3. QED
      BY <1>7, <3>2 DEF UnlockXchg, Go, TypeOK, LoopInv
  <2>5. SumInv'
    BY <1>7 DEF UnlockXchg, Go, SetEax, Xchg, TypeOK, LockExclusive, Owns, SumInv, Additions
  <2>6. MainInv'
    BY <1>7 DEF UnlockXchg, Go, SetEax, Xchg, TypeOK, LoopInv, MainInv
  <2>7. QED
    BY <2>1, <2>2, <2>3, <2>4, <2>5, <2>6
<1>8. ASSUME NEW t \in Threads, Create(t) PROVE IInv'
  <2>1. TypeOK'
    BY <1>8 DEF Create, Go, MainAt, TypeOK
  <2>2. LockExclusive'
    BY <1>8 DEF Create, Go, MainAt, TypeOK, LockExclusive, Owns, EaxInv
  <2>3. EaxInv'
    BY <1>8 DEF Create, Go, MainAt, TypeOK, EaxInv
  <2>4. LoopInv'
    BY <1>8 DEF Create, Go, MainAt, TypeOK, LoopInv
  <2>5. SumInv'
    BY <1>8 DEF Create, Go, MainAt, TypeOK, LockExclusive, Owns, SumInv, Additions
  <2>6. MainInv'
    BY <1>8 DEF Create, Go, MainAt, TypeOK, LoopInv, MainInv
  <2>7. QED
    BY <2>1, <2>2, <2>3, <2>4, <2>5, <2>6
<1>9. ASSUME NEW t \in Threads, Join(t) PROVE IInv'
  <2>1. TypeOK'
    BY <1>9 DEF Join, MainAt, TypeOK
  <2>2. LockExclusive'
    BY <1>9 DEF Join, MainAt, TypeOK, LockExclusive, Owns, EaxInv
  <2>3. EaxInv'
    BY <1>9 DEF Join, MainAt, TypeOK, EaxInv
  <2>4. LoopInv'
    BY <1>9 DEF Join, MainAt, TypeOK, LoopInv
  <2>5. SumInv'
    BY <1>9 DEF Join, MainAt, TypeOK, LockExclusive, Owns, SumInv, Additions
  <2>6. MainInv'
    BY <1>9 DEF Join, MainAt, TypeOK, LoopInv, MainInv
  <2>7. QED
    BY <2>1, <2>2, <2>3, <2>4, <2>5, <2>6
<1>10. CASE Fprintf
  <2>1. TypeOK'
    BY <1>10 DEF Fprintf, MainAt, TypeOK
  <2>2. LockExclusive'
    BY <1>10 DEF Fprintf, MainAt, TypeOK, LockExclusive, Owns, EaxInv
  <2>3. EaxInv'
    BY <1>10 DEF Fprintf, MainAt, TypeOK, EaxInv
  <2>4. LoopInv'
    BY <1>10 DEF Fprintf, MainAt, TypeOK, LoopInv
  <2>5. SumInv'
    BY <1>10 DEF Fprintf, MainAt, TypeOK, LockExclusive, Owns, SumInv, Additions
  <2>6. MainInv'
    BY <1>10 DEF Fprintf, MainAt, TypeOK, LoopInv, SumInv, Additions, MainInv
  <2>7. QED
    BY <2>1, <2>2, <2>3, <2>4, <2>5, <2>6
<1>11. CASE UNCHANGED vars
  BY <1>11 DEF vars, TypeOK, LockExclusive, Owns, EaxInv, LoopInv, SumInv, Additions, MainInv
<1>12. QED
  BY <1>1, <1>2, <1>3, <1>4, <1>5, <1>6, <1>7, <1>8, <1>9, <1>10, <1>11
  DEF Next, Thread, Main, Ended

\* At most one thread is between spin_lock and spin_unlock, and the lock word
\* is LOCK exactly then; every register keeps to its values.
THEOREM XchgLockExclusive == Spec => [](TypeOK /\ LockExclusive)
<1>1. IInv => TypeOK /\ LockExclusive
  BY DEF IInv
<1>2. QED
  BY <1>1, XchgInit, XchgStep, PTL DEF Spec

\* The assembly lock implements the library's: the xchg that wins is the
\* acquisition, the xchg that stores 1 the release, and spinning is hidden.
THEOREM XchgImplementsPthreadSpin == Spec => ImplementsPthreadSpin
<1>1. Init => Pthread!Init
  BY DEF Init, Pthread!Init, Threads, Pthread!Threads, LOCK, UNLOCK, PthreadPc
<1>2. IInv /\ [Next]_vars => [Pthread!Next]_Pthread!vars
  <2> SUFFICES ASSUME IInv, [Next]_vars PROVE [Pthread!Next]_Pthread!vars
    OBVIOUS
  <2> DEFINE
    Moves(t, from, to) ==
      /\ PthreadPc(t) = from
      /\ \A u \in Threads : PthreadPc(u)' = IF u = t THEN to ELSE PthreadPc(u)
    Stays == \A u \in Threads : PthreadPc(u)' = PthreadPc(u)
  <2>0. /\ \A t \in Threads : \A from, to : Moves(t, from, to) => Pthread!Go(t, from, to)
        /\ Stays => UNCHANGED [t \in Threads |-> PthreadPc(t)]
    <3>1. ASSUME NEW t \in Threads, NEW from, NEW to, Moves(t, from, to)
          PROVE  Pthread!Go(t, from, to)
      BY <3>1 DEF Pthread!Go
    <3>2. QED
      BY <3>1
  <2> USE DEF IInv, TypeOK, Threads, Pthread!Threads, LOCK, UNLOCK, Go
  <2>1. ASSUME NEW t \in Threads, LockMov(t) PROVE UNCHANGED Pthread!vars
    <3>1. Stays
      BY <2>1 DEF PthreadPc, LockMov, SetEax
    <3>2. QED
      BY <2>0, <2>1, <3>1 DEF LockMov, Pthread!vars
  <2>2. ASSUME NEW t \in Threads, LockXchg(t), lock = LOCK PROVE UNCHANGED Pthread!vars
    <3>1. Stays
      BY <2>2 DEF PthreadPc, LockXchg, Xchg, SetEax
    <3>2. QED
      BY <2>0, <2>2, <3>1 DEF LockXchg, Xchg, Pthread!vars, EaxInv
  <2>3. ASSUME NEW t \in Threads, LockXchg(t), lock = UNLOCK PROVE Pthread!SpinLock(t)
    <3>1. Moves(t, "lock", "load")
      BY <2>3 DEF PthreadPc, LockXchg, Xchg, SetEax
    <3>2. lock # LOCK /\ (lock = LOCK)' = TRUE
      BY <2>3 DEF LockXchg, Xchg, EaxInv
    <3>3. UNCHANGED <<a, i, tmp, mpc, out>>
      BY <2>3 DEF LockXchg
    <3>4. QED
      BY <2>0, <3>1, <3>2, <3>3 DEF Pthread!SpinLock
  <2>4. ASSUME NEW t \in Threads, LockJs(t) PROVE UNCHANGED Pthread!vars
    <3>1. Stays
      BY <2>4 DEF PthreadPc, LockJs, SetEax, EaxInv
    <3>2. QED
      BY <2>0, <2>4, <3>1 DEF LockJs, Pthread!vars
  <2>5. ASSUME NEW t \in Threads, Load(t) PROVE Pthread!Load(t)
    <3>1. Moves(t, "load", "store")
      BY <2>5 DEF PthreadPc, Load
    <3>2. QED
      BY <2>0, <2>5, <3>1 DEF Load, Pthread!Load
  <2>6. ASSUME NEW t \in Threads, Store(t) PROVE Pthread!Store(t)
    <3>1. Moves(t, "store", "unlock")
      BY <2>6 DEF PthreadPc, Store
    <3>2. QED
      BY <2>0, <2>6, <3>1 DEF Store, Pthread!Store
  <2>7. ASSUME NEW t \in Threads, UnlockMov(t) PROVE UNCHANGED Pthread!vars
    <3>1. Stays
      BY <2>7 DEF PthreadPc, UnlockMov, SetEax
    <3>2. QED
      BY <2>0, <2>7, <3>1 DEF UnlockMov, Pthread!vars
  <2>8. ASSUME NEW t \in Threads, UnlockXchg(t) PROVE Pthread!SpinUnlock(t)
    <3>1. Moves(t, "unlock", IF i[t] + 1 < N THEN "lock" ELSE "done")
      BY <2>8 DEF PthreadPc, UnlockXchg, Xchg, SetEax
    <3>2. (lock = LOCK)' = FALSE
      BY <2>8 DEF UnlockXchg, Xchg, EaxInv
    <3>3. i' = [i EXCEPT ![t] = @ + 1] /\ UNCHANGED <<a, tmp, mpc, out>>
      BY <2>8 DEF UnlockXchg
    <3>4. QED
      BY <2>0, <3>1, <3>2, <3>3 DEF Pthread!SpinUnlock
  <2>9. ASSUME NEW t \in Threads, Create(t) PROVE Pthread!Create(t)
    <3>1. Moves(t, "none", "lock")
      BY <2>9 DEF PthreadPc, Create
    <3>2. QED
      BY <2>0, <2>9, <3>1 DEF Create, MainAt, Pthread!Create, Pthread!MainAt
  <2>10. ASSUME NEW t \in Threads, Join(t) PROVE Pthread!Join(t)
    <3>1. PthreadPc(t) = "done" /\ Stays
      BY <2>10 DEF PthreadPc, Join
    <3>2. QED
      BY <2>0, <2>10, <3>1 DEF Join, MainAt, Pthread!Join, Pthread!MainAt
  <2>11. CASE Fprintf
    <3>1. Stays
      BY <2>11 DEF PthreadPc, Fprintf
    <3>2. Pthread!Fprintf
      BY <2>0, <2>11, <3>1 DEF Fprintf, MainAt, Pthread!Fprintf, Pthread!MainAt
    <3>3. QED
      BY <3>2 DEF Pthread!Next, Pthread!Main
  <2>12. CASE UNCHANGED vars
    BY <2>12 DEF vars, Pthread!vars, PthreadPc
  <2>13. QED
    BY <2>1, <2>2, <2>3, <2>4, <2>5, <2>6, <2>7, <2>8, <2>9, <2>10, <2>11, <2>12
    DEF Next, Thread, Main, Ended, Pthread!Next, Pthread!Thread, Pthread!Main
<1>3. QED
  BY <1>1, <1>2, XchgInit, XchgStep, PTL DEF Spec, ImplementsPthreadSpin, Pthread!Spec

\* What 1_2.c prints is 2 * N: no addition is lost to the assembly, and none is
\* still to come when main prints.
THEOREM XchgPrintsTotal == Spec => []PrintsTotal
<1>1. IInv => PrintsTotal
  BY DEF IInv, MainInv, PrintsTotal
<1>2. QED
  BY <1>1, XchgInit, XchgStep, PTL DEF Spec

\* The additions of a thread are those 1_1.c has made when it is where the
\* thread is.
LEMMA SameAdditions ==
  ASSUME TypeOK, NEW t \in Threads PROVE Pthread!Done(t) = Additions(t)
BY DEF TypeOK, Pthread!Done, Additions, PthreadPc

\* 1_2.c as a whole implements the atomic counter: no addition is lost to the
\* assembly, and main prints after the last one.
THEOREM XchgImplementsAtomicCounter == Spec => ImplementsAtomicCounter
<1> DEFINE cnt == [t \in Pthread!Threads |-> Pthread!Done(t)]
<1>1. Init => Pthread!Abstract!Init
  BY DEF Init, Pthread!Abstract!Init, Pthread!Done, Threads, PthreadPc,
     Pthread!Threads, Pthread!Abstract!Threads
<1>2. IInv /\ [Next]_vars => [Pthread!Abstract!Next]_Pthread!Abstract!vars
  <2> SUFFICES ASSUME IInv, [Next]_vars
               PROVE  [Pthread!Abstract!Next]_Pthread!Abstract!vars
    OBVIOUS
  <2> DEFINE Adds(t) == \A u \in Threads :
                          Additions(u)' = IF u = t THEN Additions(u) + 1 ELSE Additions(u)
             Stays == \A u \in Threads : Additions(u)' = Additions(u)
  <2>0. /\ cnt = [t \in Threads |-> Additions(t)]
        /\ cnt' = [t \in Threads |-> Additions(t)']
    <3>1. IInv'
      BY XchgStep
    <3>2. \A t \in Threads : Pthread!Done(t) = Additions(t)
      BY SameAdditions DEF IInv
    <3>3. \A t \in Threads : (Pthread!Done(t) = Additions(t))'
      BY <3>1 DEF IInv, TypeOK, Pthread!Done, Additions, PthreadPc
    <3> HIDE DEF Pthread!Done, Additions
    <3>4. QED
      BY <3>2, <3>3 DEF Threads, Pthread!Threads
  <2> USE NAssumption DEF Threads, Pthread!Abstract!vars, Additions
  <2>1. ASSUME NEW t \in Threads,
               LockMov(t) \/ LockXchg(t) \/ LockJs(t) \/ Load(t)
        PROVE  UNCHANGED <<a, out>> /\ Stays
    BY <2>1 DEF LockMov, LockXchg, LockJs, Load, Go, IInv, TypeOK
  <2>2. ASSUME NEW t \in Threads, Store(t)
        PROVE  a' = a + 1 /\ Additions(t) < N /\ Adds(t) /\ UNCHANGED out
    BY <2>2 DEF Store, Go, IInv, TypeOK, SumInv, LoopInv
  <2>3. ASSUME NEW t \in Threads, UnlockMov(t) \/ UnlockXchg(t)
        PROVE  UNCHANGED <<a, out>> /\ Stays
    BY <2>3 DEF UnlockMov, UnlockXchg, Go, IInv, TypeOK
  <2>4. ASSUME NEW t \in Threads, Create(t) \/ Join(t)
        PROVE  UNCHANGED <<a, out>> /\ Stays
    BY <2>4 DEF Create, Join, Go, MainAt, IInv, TypeOK
  <2>5. ASSUME Fprintf
        PROVE  /\ out = <<>> /\ out' = <<a>> /\ UNCHANGED a /\ Stays
               /\ \A t \in Threads : Additions(t) = N
    BY <2>5 DEF Fprintf, MainAt, IInv, TypeOK, LoopInv, MainInv
  <2>6. ASSUME UNCHANGED vars PROVE UNCHANGED <<a, out>> /\ Stays
    BY <2>6 DEF vars
  <2>7. ASSUME UNCHANGED <<a, out>>, Stays
        PROVE  UNCHANGED Pthread!Abstract!vars
    BY <2>0, <2>7
  <2>8. ASSUME NEW t \in Threads, Store(t) PROVE Pthread!Abstract!Add(t)
    <3>1. cnt' = [cnt EXCEPT ![t] = @ + 1] /\ cnt[t] < N
      BY <2>0, <2>2, <2>8
    <3>2. QED
      BY <2>2, <2>8, <3>1 DEF Pthread!Abstract!Add
  <2>9. ASSUME Fprintf PROVE Pthread!Abstract!Fprintf
    <3>1. cnt' = cnt /\ \A t \in Threads : cnt[t] = N
      BY <2>0, <2>5, <2>9
    <3>2. QED
      BY <2>5, <2>9, <3>1 DEF Pthread!Abstract!Fprintf, Pthread!Abstract!Threads
  <2> HIDE DEF Adds, Stays
  <2>10. QED
    BY <2>1, <2>3, <2>4, <2>6, <2>7, <2>8, <2>9
    DEF Next, Thread, Main, Ended, Pthread!Abstract!Next, Pthread!Abstract!Threads
<1>3. QED
  BY <1>1, <1>2, XchgInit, XchgStep, PTL
  DEF Spec, ImplementsAtomicCounter, Pthread!ImplementsAtomicCounter, Pthread!Abstract!Spec
=============================================================================
