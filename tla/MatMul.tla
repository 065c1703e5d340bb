------------------------------- MODULE MatMul -------------------------------
(***************************************************************************)
(* The products of lab3/2 and lab3/3: which thread adds which products to  *)
(* which elements, and the load and store of every z[i][j] += x * y.       *)
(***************************************************************************)
EXTENDS Integers, Sequences, FiniteSetsExt

CONSTANTS
  Row, Col, Inner,   \* matrix_row_x, matrix_col_y, matrix_row_y
  X, Y               \* the matrices of m1.txt and m2.txt

ASSUME SizesAssumption == Row \in Nat \ {0} /\ Col \in Nat \ {0} /\ Inner \in Nat \ {0}
\* The two files hold no negative number; sums that an int cannot hold are left out.
ASSUME EntriesAssumption ==
  /\ X \in [0..Row - 1 -> [0..Inner - 1 -> Nat]]
  /\ Y \in [0..Inner - 1 -> [0..Col - 1 -> Nat]]

Thread == {1, 2}
\* 3_2 is compiled for two threads or for one.
Program == {"2_1", "2_2", "3_1", "3_2", "3_2 one"}

VARIABLES
  program,  \* the one that runs
  z,        \* the result; malloc takes it from pages that are still zero
  done,     \* additions each thread has finished
  loaded,   \* is the thread between the load and the store of an addition?
  reg,      \* what it has loaded (2_1: its variable res)
  out,      \* numbers written to the output file
  met       \* elements both threads were adding to at one time

matrixVars == <<program, z, done, loaded, reg, out, met>>

Element == (0..Row - 1) \X (0..Col - 1)

InitMatrix ==
  /\ program \in Program
  /\ z = [e \in Element |-> 0]
  /\ done = [t \in Thread |-> 0]
  /\ loaded = [t \in Thread |-> FALSE]
  /\ reg = [t \in Thread |-> 0]
  /\ out = <<>>
  /\ met = {}

Active == IF program \in {"2_1", "3_2 one"} THEN {1} ELSE Thread

\* Mutant: both threads take n \div 2, so that nobody has the last of an odd number.
HalfShort(t, n) == [first |-> IF t = 1 THEN 0 ELSE n \div 2, size |-> n \div 2]

\* A part of 0..n-1: the first half is thread 1's, the other thread 2's.
Half(t, n) == IF t = 1 THEN [first |-> 0, size |-> n \div 2]
                       ELSE [first |-> n \div 2, size |-> n - n \div 2]

Whole(n) == [first |-> 0, size |-> n]

Rows(t) == IF program \in {"3_1", "3_2"} THEN Half(t, Row) ELSE Whole(Row)
Inners(t) == IF program = "2_2" THEN Half(t, Inner) ELSE Whole(Inner)

\* The place of a thread's next addition in its three loops.
Additions(t) == Rows(t).size * Col * Inners(t).size
Target(t) == LET e == done[t] \div Inners(t).size
               IN <<Rows(t).first + (e \div Col), e % Col>>
Index(t) == Inners(t).first + (done[t] % Inners(t).size)
Term(e, k) == X[e[1]][k] * Y[k][e[2]]

Load(t) ==
  /\ program # "2_1"
  /\ done[t] < Additions(t) /\ ~loaded[t]
  /\ loaded' = [loaded EXCEPT ![t] = TRUE]
  /\ reg' = [reg EXCEPT ![t] = z[Target(t)]]
  /\ met' = IF \E u \in Active \ {t} : loaded[u] /\ Target(u) = Target(t)
            THEN met \cup {Target(t)} ELSE met
  /\ UNCHANGED <<program, z, done, out>>

Store(t) ==
  /\ loaded[t]
  /\ z' = [z EXCEPT ![Target(t)] = reg[t] + Term(Target(t), Index(t))]
  /\ loaded' = [loaded EXCEPT ![t] = FALSE]
  /\ done' = [done EXCEPT ![t] = @ + 1]
  /\ UNCHANGED <<program, reg, out, met>>

\* 2_1 sums in a variable of the thread and writes each sum when it is complete.
AddLocal(t) ==
  LET sum == (IF Index(t) = 0 THEN 0 ELSE reg[t]) + Term(Target(t), Index(t)) IN
  /\ program = "2_1"
  /\ done[t] < Additions(t)
  /\ reg' = [reg EXCEPT ![t] = sum]
  /\ out' = IF Index(t) = Inner - 1 THEN Append(out, sum) ELSE out
  /\ done' = [done EXCEPT ![t] = @ + 1]
  /\ UNCHANGED <<program, z, loaded, met>>

Multiply(t) == Load(t) \/ Store(t) \/ AddLocal(t)
Multiplied(t) == done[t] = Additions(t)

\* The loop of main over all elements, when no thread runs any more.
PrintMatrix ==
  /\ out' = out \o [n \in 1..Row * Col |-> z[<<(n - 1) \div Col, (n - 1) % Col>>]]
  /\ UNCHANGED <<program, z, done, loaded, reg, met>>

\* The element of the product.
Product(e) == MapThenSumSet(LAMBDA k : Term(e, k), 0..Inner - 1)

Printed(e) == out[e[1] * Col + e[2] + 1]
=============================================================================
