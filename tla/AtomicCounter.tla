--------------------------- MODULE AtomicCounter ---------------------------
(***************************************************************************)
(* What the two programs of lab3/1 promise: two threads add 1 to the       *)
(* shared counter a, N times each, no addition is lost, and main prints    *)
(* the counter only when every addition has been made.                     *)
(***************************************************************************)
EXTENDS Integers, Sequences

CONSTANT N            \* additions made by each thread (10000 in the code)

Threads == {1, 2}     \* t1 and t2

VARIABLES
  a,                  \* the shared counter
  cnt,                \* cnt[t]: additions made by thread t
  out                 \* what main has printed

vars == <<a, cnt, out>>

Init ==
  /\ a = 0
  /\ cnt = [t \in Threads |-> 0]
  /\ out = <<>>

Add(t) ==
  /\ cnt[t] < N
  /\ a' = a + 1
  /\ cnt' = [cnt EXCEPT ![t] = @ + 1]
  /\ UNCHANGED out

Fprintf ==
  /\ out = <<>>
  /\ \A t \in Threads : cnt[t] = N
  /\ out' = <<a>>
  /\ UNCHANGED <<a, cnt>>

Next == (\E t \in Threads : Add(t)) \/ Fprintf

Spec == Init /\ [][Next]_vars
=============================================================================
