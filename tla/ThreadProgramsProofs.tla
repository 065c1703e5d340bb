------------------------ MODULE ThreadProgramsProofs ------------------------
(***************************************************************************)
(* For matrices of every size, whatever they hold: what the programs of    *)
(* lab3/2 and lab3/3 write is the product; where the threads share the     *)
(* work by rows they never add to one element at one time; the file is     *)
(* written when all additions have been made; and what goes through the    *)
(* proc file of lab3/3 reaches those it is for.                            *)
(***************************************************************************)
EXTENDS ThreadPrograms, FiniteSetTheorems, WellFoundedInduction, TLAPS

\* No two threads are ever between the load and the store of one element, except
\* in 2_2 (3_1.c:51-67, 3_2.c:57-107 against 2_2.c:50-70).
RowsApart == met # {} => program = "2_2"

\* Every addition has been made when main writes the result.
AllAdded == mpc = "print" => \A t \in Active : done[t] = Additions(t)

\* An addition can be lost only at an element both threads were at, and that makes
\* it too small: this is all that holds of 2_2, whose answer file (2_2_ans.txt) wants
\* the product of it too (run ThreadAnswers).
OnlyMeetingLoses ==
  mpc = "done" =>
    /\ Len(out) = Row * Col
    /\ \A e \in Element :
         IF e \in met THEN Printed(e) <= Product(e) ELSE Printed(e) = Product(e)

-----------------------------------------------------------------------------
(* Rows.                                                                   *)

LEMMA DivBound ==
  ASSUME NEW a \in Nat, NEW b \in Nat, NEW c \in Nat \ {0}, a < b * c
  PROVE  a \div c \in Nat /\ a \div c < b
<1> DEFINE q == a \div c
<1>1. q \in Nat /\ q * c <= a
  BY Z3
<1>2. ASSUME q >= b PROVE FALSE
  <2>1. q * c >= b * c
    BY <1>1, <1>2, Z3
  <2>2. QED
    BY <1>1, <2>1
<1>3. QED
  BY <1>1, <1>2

\* The first row of the second half lies behind every row of the first one.
LEMMA HalvesApart ==
  ASSUME program \in {"3_1", "3_2"}, done \in [Thread -> Nat],
         done[1] < Additions(1), done[2] < Additions(2)
  PROVE  Target(1) # Target(2)
<1> DEFINE e(t) == done[t] \div Inner
<1> USE SizesAssumption DEF Thread
<1>1. Rows(1).size = Row \div 2 /\ Rows(1).first = 0 /\ Rows(2).first = Row \div 2
      /\ Rows(2).size = Row - Row \div 2 /\ Inners(1) = Whole(Inner) /\ Inners(2) = Whole(Inner)
  BY DEF Rows, Inners, Half, Whole
<1>2. Row \div 2 \in Nat
  BY Z3
<1>3. Rows(1).size * Col \in Nat
  BY <1>1, <1>2, Z3
<1>4. e(1) \in Nat /\ e(1) < Rows(1).size * Col
  <2>1. done[1] < (Rows(1).size * Col) * Inner
    BY <1>1 DEF Additions, Whole
  <2>2. QED
    BY <1>3, <2>1, DivBound
<1>5. e(1) \div Col \in Nat /\ e(1) \div Col < Row \div 2
  BY <1>1, <1>2, <1>4, DivBound
<1>6. e(2) \div Col \in Nat
  <2>1. done[2] \in Nat
    OBVIOUS
  <2>2. e(2) \in Nat
    BY <2>1, Z3
  <2>3. QED
    BY <2>2, Z3
<1>7. Target(1)[1] = e(1) \div Col /\ Target(2)[1] = Row \div 2 + (e(2) \div Col)
  BY <1>1, <1>5 DEF Target, Whole
<1>8. QED
  BY <1>2, <1>5, <1>6, <1>7

-----------------------------------------------------------------------------
(* The invariant.                                                          *)

\* A thread is where main has sent it, it adds only what is left to be added, and
\* it goes on from its loops when nothing is left.
Working ==
  /\ program \in Program
  /\ done \in [Thread -> Nat]
  /\ loaded \in [Thread -> BOOLEAN]
  /\ tpc \in [Thread -> {"none", "work", "write", "text", "length", "append", "copy", "clear",
                         "failed", "exited"}]
  /\ \A t \in Thread : loaded[t] => program # "2_1" /\ tpc[t] = "work" /\ done[t] < Additions(t)
  /\ \A t \in Thread : tpc[t] \notin {"none", "work"} => Multiplied(t)

\* main has created the threads it joins, and no others.
Created ==
  /\ mpc \in {"create1", "create2", "list", "walk", "listed", "join1", "join2", "print", "done",
              "crashed"}
  /\ mpc = "create2" => 2 \in Active
  /\ \A t \in Thread \ Active : tpc[t] = "none"
  /\ mpc \in {"create1", "create2"} => tpc[2] = "none"
  /\ mpc = "create1" => tpc[1] = "none"
  /\ mpc \in {"join2", "print"} => Joinable(1)
  /\ mpc = "print" /\ 2 \in Active => Joinable(2)

IInv == Working /\ Created /\ RowsApart

LEMMA InitIInv == Init => IInv
<1> SUFFICES ASSUME Init PROVE IInv
  OBVIOUS
<1>1. Working
  <2>1. program \in Program /\ done \in [Thread -> Nat] /\ loaded \in [Thread -> BOOLEAN]
    BY DEF Init, InitMatrix
  <2>2. \A t \in Thread : tpc[t] = "none" /\ ~loaded[t]
    BY DEF Init, InitMatrix
  <2>3. QED
    BY <2>1, <2>2 DEF Init, Working
<1>2. Created
  BY DEF Init, Created, Thread, Active
<1>3. QED
  BY <1>1, <1>2 DEF Init, InitMatrix, IInv, RowsApart

\* While one thread is between load and store, the load of another one of the same
\* element can only be in 2_2.
LEMMA LoadApart ==
  ASSUME IInv, NEW t \in Thread, Work(t), Load(t)
  PROVE  RowsApart'
<1>2. CASE program \in {"3_1", "3_2"}
  <2>1. ASSUME NEW v \in Active \ {t}, loaded[v] PROVE Target(v) # Target(t)
    <3>1. v \in Thread /\ done[v] < Additions(v) /\ done[t] < Additions(t)
      BY <2>1 DEF IInv, Working, Load, Active, Thread
    <3>2. (t = 1 /\ v = 2) \/ (t = 2 /\ v = 1)
      BY <2>1, <3>1 DEF Thread
    <3>3. Target(1) # Target(2)
      BY <1>2, <3>1, <3>2, HalvesApart DEF IInv, Working
    <3>4. QED
      BY <3>2, <3>3
  <2>2. met' = met /\ program' = program
    BY <2>1 DEF Load
  <2>3. QED
    BY <2>2 DEF IInv, RowsApart
<1>3. CASE program = "3_2 one"
  <2>1. \A v \in Active \ {t} : ~loaded[v]
    BY <1>3 DEF IInv, Working, Created, Active, Thread, Work
  <2>2. met' = met /\ program' = program
    BY <2>1 DEF Load
  <2>3. QED
    BY <2>2 DEF IInv, RowsApart
<1>4. CASE program = "2_2"
  BY <1>4 DEF Load, RowsApart
<1>5. QED
  BY <1>2, <1>3, <1>4 DEF Load, IInv, Working, Program

\* The loops are what the program's text says, so no step changes them.
LEMMA SameLoops ==
  ASSUME UNCHANGED program
  PROVE  Active' = Active /\ \A t \in Thread : Additions(t)' = Additions(t)
BY DEF Active, Additions, Rows, Inners, Half, Whole

\* A step that adds nothing, and may move one thread out of its finished loops.
LEMMA NotAddingStep ==
  ASSUME IInv, UNCHANGED matrixVars, Created',
         tpc' \in [Thread -> {"none", "work", "write", "text", "length", "append", "copy",
                              "clear", "failed", "exited"}],
         \A t \in Thread : tpc[t] = "work" /\ tpc'[t] # "work" => Multiplied(t) /\ ~loaded[t],
         \A t \in Thread : tpc'[t] \notin {"none", "work"} => tpc[t] # "none"
  PROVE  IInv'
<1>1. UNCHANGED <<program, done, loaded, met>>
  BY DEF matrixVars
<1>2. Working'
  BY <1>1, SameLoops DEF IInv, Working, Multiplied
<1>3. RowsApart'
  BY <1>1 DEF IInv, RowsApart
<1>4. QED
  BY <1>2, <1>3 DEF IInv

LEMMA WorkStep ==
  ASSUME IInv, NEW t \in Thread, Work(t)
  PROVE  IInv'
<1> USE DEF IInv
<1>1. UNCHANGED <<program, tpc, mpc>>
  BY DEF Work, Multiply, Load, Store, AddLocal
<1>2. Created'
  BY <1>1, SameLoops DEF Created, Joinable
<1>3. CASE Load(t)
  <2>1. Working'
    BY <1>1, <1>3, SameLoops DEF Work, Load, Working, Multiplied
  <2>2. QED
    BY <1>2, <1>3, <2>1, LoadApart
<1>4. CASE Store(t)
  <2>1. Working'
    BY <1>1, <1>4, SameLoops DEF Work, Store, Working, Multiplied
  <2>2. RowsApart'
    BY <1>4 DEF Store, RowsApart
  <2>3. QED
    BY <1>2, <2>1, <2>2
<1>5. CASE AddLocal(t)
  <2>1. Working'
    BY <1>1, <1>5, SameLoops DEF Work, AddLocal, Working, Multiplied
  <2>2. RowsApart'
    BY <1>5 DEF AddLocal, RowsApart
  <2>3. QED
    BY <1>2, <2>1, <2>2
<1>6. QED
  BY <1>3, <1>4, <1>5 DEF Work, Multiply

LEMMA ThreadIInv ==
  ASSUME IInv, NEW t \in Thread, ThreadStep(t)
  PROVE  IInv'
<1>1. CASE Work(t)
  BY <1>1, WorkStep
<1>2. CASE WorkDone(t)
  <2>1. Created'
    <3>1. /\ UNCHANGED <<program, mpc>>
          /\ tpc[t] = "work"
          /\ \A u \in Thread \ {t} : tpc'[u] = tpc[u]
      BY <1>2 DEF IInv, Working, WorkDone, Go, matrixVars
    <3>2. Active' = Active
      BY <3>1, SameLoops
    <3>3. QED
      BY <3>1, <3>2 DEF IInv, Created, Joinable, Thread
  <2>2. ~loaded[t]
    <3>1. done[t] \in Nat /\ done[t] = Additions(t)
      BY <1>2 DEF IInv, Working, WorkDone, Multiplied
    <3>2. ~(done[t] < Additions(t))
      BY <3>1
    <3>3. QED
      BY <3>2 DEF IInv, Working
  <2>3. QED
    BY <1>2, <2>1, <2>2, NotAddingStep DEF IInv, Working, WorkDone, Go
<1>3. ASSUME NEW from \in {"write", "text", "length", "append", "copy", "clear"},
             NEW to \in {"text", "length", "append", "copy", "clear", "failed", "exited"},
             Go(t, from, to), UNCHANGED <<matrixVars, mpc>>
      PROVE  IInv'
  <2>1. Created'
    BY <1>3, SameLoops DEF IInv, Working, Created, Joinable, Go, matrixVars
  <2>2. QED
    BY <1>3, <2>1, NotAddingStep DEF IInv, Working, Go
<1>4. CASE Write(t)
  BY <1>3, <1>4 DEF Write, Call
<1>5. CASE Read(t)
  BY <1>3, <1>5 DEF Read, Call
<1>6. CASE EndOfFile(t)
  BY <1>3, <1>6 DEF EndOfFile
<1>7. CASE OpenFails(t)
  BY <1>3, <1>7 DEF OpenFails
<1>8. QED
  BY <1>1, <1>2, <1>4, <1>5, <1>6, <1>7 DEF ThreadStep

LEMMA MainIInv ==
  ASSUME IInv, MainStep
  PROVE  IInv'
<1>1. ASSUME NEW t \in Thread, Create(t) PROVE IInv'
  <2>1. Created'
    <3>1. /\ program' = program
          /\ tpc' = [tpc EXCEPT ![t] = "work"]
          /\ DOMAIN tpc = Thread
      BY <1>1 DEF Create, matrixVars, IInv, Working
    <3>2. Active' = Active /\ 1 \in Active
      BY <3>1, SameLoops DEF Active, Thread
    <3>3. CASE t = 1
      <4>1. mpc = "create1" /\ mpc' = IF 2 \in Active THEN "create2" ELSE "join1"
        BY <1>1, <3>3 DEF Create, GoMain
      <4>2. QED
        BY <3>1, <3>2, <3>3, <4>1 DEF IInv, Created, Thread
    <3>4. CASE t = 2
      <4>1. mpc = "create2" /\ mpc' = IF program = "3_1" THEN "list" ELSE "join1"
        BY <1>1, <3>4 DEF Create, GoMain
      <4>2. QED
        BY <3>1, <3>2, <3>4, <4>1 DEF IInv, Created, Thread
    <3>5. QED
      BY <3>3, <3>4 DEF Thread
  <2>2. tpc[t] = "none"
    BY <1>1 DEF IInv, Created, Create, GoMain, Thread
  <2>3. QED
    BY <1>1, <2>1, <2>2, NotAddingStep DEF IInv, Working, Create
<1>2. ASSUME NEW t \in Thread, Join(t) PROVE IInv'
  <2>1. Created'
    BY <1>2, SameLoops DEF IInv, Working, Created, Join, Joinable, GoMain, Active, Thread,
       matrixVars, Program
  <2>2. QED
    BY <1>2, <2>1, NotAddingStep DEF IInv, Working, Join
<1>3. ASSUME mpc \in {"list", "walk", "listed"}, UNCHANGED <<matrixVars, tpc>>,
             mpc' \in {"list", "walk", "listed", "join1"}
      PROVE  IInv'
  <2>1. Created'
    BY <1>3, SameLoops DEF IInv, Created, matrixVars
  <2>2. QED
    BY <1>3, <2>1, NotAddingStep DEF IInv, Working
<1>4. CASE BeginList
  BY <1>3, <1>4 DEF BeginList, GoMain
<1>5. CASE Walk
  BY <1>3, <1>5 DEF Walk, GoMain
<1>6. CASE EndList
  BY <1>3, <1>6 DEF EndList, AfterList, GoMain
<1>7. CASE PrintResult
  <2>1. UNCHANGED <<program, done, loaded, met, tpc>> /\ mpc' = "done"
    BY <1>7 DEF PrintResult, PrintMatrix, GoMain
  <2>2. Created'
    BY <2>1, SameLoops DEF IInv, Created
  <2>3. Working'
    BY <2>1, SameLoops DEF IInv, Working, Multiplied
  <2>4. QED
    BY <2>1, <2>2, <2>3 DEF IInv, RowsApart
<1>8. QED
  BY <1>1, <1>2, <1>4, <1>5, <1>6, <1>7 DEF MainStep

LEMMA StepIInv == IInv /\ [Next]_vars => IInv'
<1>1. ASSUME IInv, UNCHANGED vars PROVE IInv'
  <2>1. UNCHANGED <<matrixVars, program, tpc, mpc>>
    BY <1>1 DEF vars, matrixVars
  <2>2. Created'
    BY <2>1, <1>1, SameLoops DEF IInv, Created, Joinable
  <2>3. QED
    BY <1>1, <2>1, <2>2, NotAddingStep DEF IInv, Working
<1>2. QED
  BY <1>1, ThreadIInv, MainIInv DEF Next, Terminated

-----------------------------------------------------------------------------
LEMMA InvariantHolds == Spec => []IInv
BY InitIInv, StepIInv, PTL DEF Spec

\* For every size of the matrices: where the threads of one program have rows of
\* their own, no load or store of one comes between those of another at one element.
THEOREM ThreadsKeepApart == Spec => []RowsApart
<1>1. IInv => RowsApart
  BY DEF IInv
<1>2. QED
  BY <1>1, InvariantHolds, PTL

\* For every size: main writes the result when every thread it has created has made
\* all its additions, with or without the proc file between (pthread_join).
THEOREM ResultComplete == Spec => []AllAdded
<1>1. IInv => AllAdded
  BY DEF IInv, Working, Created, Joinable, AllAdded, Multiplied, Active, Thread
<1>2. QED
  BY <1>1, InvariantHolds, PTL
-----------------------------------------------------------------------------
(* The proc file of lab3/3.                                                *)

LEMMA LinesDiffer ==
  /\ \A c : Hello(c) # Nul /\ Info(c) # Nul
  /\ \A c, d : Hello(c) # Info(d)
  /\ Info(1) # Info(2)
<1>1. "hello" # "info" /\ 1 # 2
  OBVIOUS
<1>2. \A c : Len(Hello(c)) = 2 /\ Len(Info(c)) = 2
  BY DEF Hello, Info
<1>3. Len(Nul) = 1
  BY DEF Nul
<1>4. \A c, d : Hello(c)[1] = "hello" /\ Info(d)[1] = "info" /\ Info(d)[2] = d
  BY DEF Hello, Info
<1>5. QED
  BY <1>1, <1>2, <1>3, <1>4

LEMMA PrintFirst == \A b, l : PrintAt(b, 0, l) = <<l>>
<1> SUFFICES ASSUME NEW b, NEW l PROVE PrintAt(b, 0, l) = <<l>>
  OBVIOUS
<1>1. [i \in 1 .. 0 |-> LineAt(b, i)] = <<>>
  <2>1. 1 .. 0 = {}
    OBVIOUS
  <2>2. QED
    BY <2>1
<1>2. QED
  BY <1>1 DEF PrintAt

LEMMA PrintSecond == \A h, l : PrintAt(<<h>>, 1, l) = <<h, l>>
<1> SUFFICES ASSUME NEW h, NEW l PROVE PrintAt(<<h>>, 1, l) = <<h, l>>
  OBVIOUS
<1>1. [i \in 1 .. 1 |-> LineAt(<<h>>, i)] = <<h>>
  BY DEF LineAt
<1>2. Append(<<h>>, l) = <<h, l>>
  <2> DEFINE a == Append(<<h>>, l)
             b == <<h, l>>
  <2>1. <<h>> \in Seq({h, l}) /\ Len(<<h>>) = 1 /\ b \in Seq({h, l})
    OBVIOUS
  <2>2. a \in Seq({h, l}) /\ Len(a) = 2 /\ a[1] = h /\ a[2] = l
    BY <2>1
  <2>3. Len(b) = 2 /\ b[1] = h /\ b[2] = l
    OBVIOUS
  <2> HIDE DEF a, b
  <2>4. a = b
    <3>1. \A i \in 1 .. 2 : a[i] = b[i]
      BY <2>2, <2>3
    <3>2. a = [i \in 1 .. 2 |-> a[i]] /\ b = [i \in 1 .. 2 |-> b[i]]
      BY <2>1, <2>2, <2>3
    <3>3. QED
      BY <3>1, <3>2
  <2>5. QED
    BY <2>4 DEF a, b
<1>3. PrintAt(<<h>>, 1, l) = Append(<<h>>, l)
  BY <1>1 DEF PrintAt
<1>4. QED
  BY <1>2, <1>3

\* What copy_to_user gives the caller of a buffer of n lines.
Copied(b, n) == [i \in 1 .. n |-> LineAt(b, i)]

LEMMA CopiedIs ==
  /\ \A b : <<>> \o Copied(b, 0) = <<>>
  /\ \A l : <<>> \o Copied(<<l>>, 1) = <<l>>
  /\ \A l, m : <<>> \o Copied(<<l, m>>, 2) = <<l, m>>
<1>1. \A b : Copied(b, 0) = <<>>
  <2>1. 1 .. 0 = {}
    OBVIOUS
  <2>2. QED
    BY <2>1 DEF Copied
<1>2. \A l : Copied(<<l>>, 1) = <<l>>
  BY DEF Copied, LineAt
<1>3. \A l, m : Copied(<<l, m>>, 2) = <<l, m>>
  BY DEF Copied, LineAt
<1>4. QED
  BY <1>1, <1>2, <1>3

LEMMA StrlenHello == \A t : strlen(<<Hello(t)>>) = 1
<1> SUFFICES ASSUME NEW t PROVE strlen(<<Hello(t)>>) = 1
  OBVIOUS
<1> DEFINE b == <<Hello(t)>>
           Q(n) == (\A i \in 1 .. n : b[i] # Nul) /\ (n < Len(b) => b[n + 1] = Nul)
<1>1. Len(b) = 1 /\ b[1] # Nul
  BY LinesDiffer
<1>2. 1 \in 0 .. Len(b) /\ Q(1)
  BY <1>1
<1>3. \A n \in 0 .. Len(b) : Q(n) => n = 1
  BY <1>1
<1>4. strlen(b) = CHOOSE n \in 0 .. Len(b) : Q(n)
  BY DEF strlen
<1> HIDE DEF Q, b
<1>5. strlen(b) = 1
  BY <1>2, <1>3, <1>4
<1>6. QED
  BY <1>5 DEF b

\* Only the threads of 3_2, and main of 3_1, use the file.
Users ==
  /\ program \notin {"3_2", "3_2 one"} => \A t \in Thread : tpc[t] \in {"none", "work", "exited"}
  /\ program # "3_1" => mpc \notin {"list", "walk", "listed"}
  /\ DOMAIN buf_len = Thread \cup {Main}
  /\ DOMAIN offset = Thread \cup {Main}
  /\ DOMAIN heard = Thread \cup {Main}

Nothing(c) == heard[c] = <<>> /\ offset[c] = 0
Heard(t) == heard[t] = <<Hello(t), Info(t)>> /\ offset[t] > 0

\* What thread t finds at each step of its write and its read while nothing comes
\* between them.
Undisturbed(t) ==
  /\ tpc[t] = "text" => buf = <<>> /\ Nothing(t)
  /\ tpc[t] = "length" => (buf = <<Hello(t)>> /\ Nothing(t)) \/ Heard(t)
  /\ tpc[t] = "append" => buf = <<Hello(t)>> /\ buf_len[t] = 1 /\ Nothing(t)
  /\ tpc[t] = "copy" => buf = <<Hello(t), Info(t)>> /\ buf_len[t] = 2 /\ Nothing(t)
  /\ tpc[t] = "clear" => Heard(t)
  /\ tpc[t] = "exited" => Heard(t)

Hearing ==
  program \in {"3_2", "3_2 one"} =>
    \A t \in Thread : /\ tpc[t] \in {"none", "work", "write"} => Nothing(t)
                      /\ t \notin crossed => Undisturbed(t)

\* A list of the threads, each at most once and those at work in any case.
Complete(h) ==
  /\ h \in {<<>>, <<Info(1)>>, <<Info(2)>>, <<Info(1), Info(2)>>}
  /\ \A t \in Thread : tpc[t] # "exited" => \E i \in DOMAIN h : h[i] = Info(t)

\* What main of 3_1 has when it asks, and what the kernel has while it answers.
Listing ==
  program = "3_1" =>
    /\ mpc \in {"create1", "create2", "walk", "listed"} => Nothing(Main)
    /\ mpc = "list" => Nothing(Main) \/ (offset[Main] > 0 /\ Complete(heard[Main]))
    /\ mpc = "walk" =>
         \/ walk = 1 /\ buf = <<>> /\ buf_len[Main] = 0
         \/ walk = 2 /\ buf = <<Info(1)>> /\ buf_len[Main] = 1
         \/ walk = 2 /\ buf = <<>> /\ buf_len[Main] = 0 /\ tpc[1] = "exited"
    /\ mpc = "listed" => Complete(buf) /\ buf_len[Main] = Len(buf)
    /\ mpc = "join1" => Complete(heard[Main])

FInv == Users /\ Hearing /\ Listing

LEMMA InitFInv == Init => FInv
<1> SUFFICES ASSUME Init PROVE FInv
  OBVIOUS
<1>1. /\ \A t \in Thread : tpc[t] = "none"
      /\ mpc = "create1" /\ crossed = {}
      /\ \A c \in Thread \cup {Main} : heard[c] = <<>> /\ offset[c] = 0
      /\ DOMAIN buf_len = Thread \cup {Main}
      /\ DOMAIN offset = Thread \cup {Main}
      /\ DOMAIN heard = Thread \cup {Main}
  BY DEF Init, InitProc
<1>2. Users
  BY <1>1 DEF Users
<1>3. Hearing
  BY <1>1 DEF Hearing, Undisturbed, Nothing
<1>4. Listing
  BY <1>1 DEF Listing, Nothing
<1>5. QED
  BY <1>2, <1>3, <1>4 DEF FInv

\* A step that leaves the file alone and moves one thread, if any, towards it.
LEMMA FileStays ==
  ASSUME FInv, UNCHANGED <<buf, buf_len, offset, heard, program, crossed>>,
         \A t \in Thread : \/ tpc'[t] = tpc[t]
                           \/ tpc'[t] = "work" /\ tpc[t] = "none"
                           \/ tpc'[t] = "write" /\ tpc[t] = "work" /\ program \in {"3_2", "3_2 one"}
                           \/ tpc'[t] = "failed" /\ tpc[t] = "write" /\ program \in {"3_2", "3_2 one"}
                           \/ /\ tpc'[t] = "exited" /\ tpc[t] = "work"
                              /\ program \notin {"3_2", "3_2 one"}
                           \/ tpc'[t] = "exited" /\ tpc[t] = "length" /\ (t \notin crossed => Heard(t))
  PROVE  /\ Hearing'
         /\ \A h : Complete(h) => Complete(h)'
         /\ program \notin {"3_2", "3_2 one"} => \A t \in Thread : tpc'[t] \in {"none", "work", "exited"}
<1>1. Hearing'
  <2> SUFFICES ASSUME program \in {"3_2", "3_2 one"}, NEW t \in Thread
               PROVE  /\ tpc'[t] \in {"none", "work", "write"} => Nothing(t)'
                      /\ t \notin crossed => Undisturbed(t)'
    BY DEF Hearing
  <2>1. Nothing(t)' <=> Nothing(t)
    BY DEF Nothing
  <2>2. Heard(t)' <=> Heard(t)
    BY DEF Heard
  <2>3. /\ tpc[t] \in {"none", "work", "write"} => Nothing(t)
        /\ t \notin crossed => Undisturbed(t)
    BY DEF FInv, Hearing
  <2>4. QED
    BY <2>1, <2>2, <2>3 DEF Undisturbed
<1>2. ASSUME NEW h, Complete(h) PROVE Complete(h)'
  <2>1. \A t \in Thread : tpc'[t] # "exited" => tpc[t] # "exited"
    OBVIOUS
  <2>2. QED
    BY <1>2, <2>1 DEF Complete
<1>3. program \notin {"3_2", "3_2 one"} => \A t \in Thread : tpc'[t] \in {"none", "work", "exited"}
  BY DEF FInv, Users
<1>4. QED
  BY <1>1, <1>2, <1>3

\* A step that main has no part in.
LEMMA MainStays ==
  ASSUME FInv, UNCHANGED <<buf, buf_len, offset, heard, program, mpc, walk>>,
         \A h : Complete(h) => Complete(h)', \A t \in Thread : tpc[t] = "exited" => tpc'[t] = "exited"
  PROVE  Listing'
<1> SUFFICES ASSUME program = "3_1" PROVE Listing'
  BY DEF Listing
<1>1. Nothing(Main)' <=> Nothing(Main)
  BY DEF Nothing
<1>2. Complete(buf) => Complete(buf)'
  OBVIOUS
<1>3. Complete(heard[Main]) => Complete(heard[Main])'
  OBVIOUS
<1>4. QED
  BY <1>1, <1>2, <1>3 DEF FInv, Listing, Thread

\* A step of thread t in the kernel: whoever else is between its write and the end
\* of its read, and t then, has been crossed.
LEMMA CallKeeps ==
  ASSUME IInv, FInv, NEW t \in Thread, program \in {"3_2", "3_2 one"},
         NEW from, NEW to \in {"text", "length", "append", "copy", "clear"}, Go(t, from, to),
         LET others == {u \in Thread \ {t} : Exposed(u)}
         IN  crossed' = IF others = {} THEN crossed ELSE crossed \cup others \cup {t},
         UNCHANGED <<program, mpc, walk>>,
         \A u \in Thread \ {t} : heard'[u] = heard[u] /\ offset'[u] = offset[u] /\ buf_len'[u] = buf_len[u],
         DOMAIN heard' = DOMAIN heard, DOMAIN offset' = DOMAIN offset, DOMAIN buf_len' = DOMAIN buf_len,
         t \notin crossed => Undisturbed(t)'
  PROVE  FInv'
<1>1. tpc'[t] = to /\ \A u \in Thread \ {t} : tpc'[u] = tpc[u]
  BY DEF IInv, Working, Go
<1>2. crossed \subseteq crossed'
  OBVIOUS
<1>3. Hearing'
  <2>1. ASSUME NEW u \in Thread
        PROVE  /\ tpc'[u] \in {"none", "work", "write"} => Nothing(u)'
               /\ u \notin crossed' => Undisturbed(u)'
    <3>1. CASE u = t
      BY <1>1, <1>2, <3>1
    <3>2. CASE u # t
      <4>1. /\ tpc[u] \in {"none", "work", "write"} => Nothing(u)
            /\ u \notin crossed => Undisturbed(u)
        BY DEF FInv, Hearing
      <4>2. (Nothing(u)' <=> Nothing(u)) /\ (Heard(u)' <=> Heard(u))
        BY <3>2 DEF Nothing, Heard
      <4>3. tpc'[u] = tpc[u]
        BY <1>1, <3>2
      <4>4. ASSUME u \notin crossed' PROVE ~Exposed(u) /\ u \notin crossed
        BY <1>2, <3>2, <4>4
      <4>5. ASSUME u \notin crossed' PROVE Undisturbed(u)'
        BY <4>1, <4>2, <4>3, <4>4, <4>5 DEF Undisturbed, Exposed
      <4>6. QED
        BY <4>1, <4>2, <4>3, <4>5
    <3>3. QED
      BY <3>1, <3>2
  <2>2. QED
    BY <2>1 DEF Hearing
<1>4. Users'
  BY DEF FInv, Users
<1>5. Listing'
  BY DEF Listing
<1>6. QED
  BY <1>3, <1>4, <1>5 DEF FInv

LEMMA CallersAre ==
  ASSUME IInv, FInv, NEW t \in Thread, tpc[t] \in {"write", "text", "length", "append", "copy", "clear"}
  PROVE  program \in {"3_2", "3_2 one"} /\ t \in Thread \cup {Main}
BY DEF FInv, Users, IInv, Working, Program

LEMMA WriteKeeps ==
  ASSUME IInv, FInv, NEW t \in Thread, Write(t)
  PROVE  FInv'
<1> USE DEF Call, matrixVars
<1>1. CASE Call(t, "write", "text", WriteClear(t))
  <2>1. tpc[t] = "write" /\ tpc'[t] = "text" /\ UNCHANGED <<buf_len, offset, heard>> /\ buf' = <<>>
    BY <1>1 DEF Go, WriteClear, IInv, Working
  <2>2. program \in {"3_2", "3_2 one"}
    BY <2>1, CallersAre
  <2>3. Nothing(t)
    BY <2>1, <2>2 DEF FInv, Hearing
  <2>4. Undisturbed(t)'
    BY <2>1, <2>3 DEF Undisturbed, Nothing
  <2>5. QED
    BY <1>1, <2>1, <2>2, <2>4, CallKeeps
<1>2. CASE Call(t, "text", "length", WriteText(t))
  <2>1. /\ tpc[t] = "text" /\ tpc'[t] = "length" /\ UNCHANGED <<buf_len, offset, heard>>
        /\ buf' = <<Hello(t)>>
    BY <1>2, PrintFirst DEF Go, WriteText, IInv, Working
  <2>2. program \in {"3_2", "3_2 one"}
    BY <2>1, CallersAre
  <2>3. ASSUME t \notin crossed PROVE Nothing(t)
    BY <2>1, <2>2, <2>3 DEF FInv, Hearing, Undisturbed
  <2>4. t \notin crossed => Undisturbed(t)'
    BY <2>1, <2>3 DEF Undisturbed, Nothing
  <2>5. QED
    BY <1>2, <2>1, <2>2, <2>4, CallKeeps
<1>3. QED
  BY <1>1, <1>2 DEF Write

LEMMA ReadKeeps ==
  ASSUME IInv, FInv, NEW t \in Thread, Read(t)
  PROVE  FInv'
<1> USE DEF Call, matrixVars
<1>0. tpc[t] \in {"length", "append", "copy", "clear"}
  BY DEF Read, Go
<1>1. program \in {"3_2", "3_2 one"} /\ t \in Thread \cup {Main}
  BY <1>0, CallersAre
<1>2. t \notin crossed => Undisturbed(t)
  BY <1>1 DEF FInv, Hearing
<1>3. CASE ~AtEnd(t) /\ Call(t, "length", "append", ReadLength(t))
  <2>1. /\ tpc[t] = "length" /\ tpc'[t] = "append" /\ UNCHANGED <<buf, offset, heard>>
        /\ buf_len' = [buf_len EXCEPT ![t] = strlen(buf)]
    BY <1>3 DEF Go, ReadLength, IInv, Working
  <2>2. ASSUME t \notin crossed PROVE buf = <<Hello(t)>> /\ Nothing(t)
    BY <1>2, <1>3, <2>1, <2>2 DEF Undisturbed, Heard, AtEnd
  <2>3. t \notin crossed => Undisturbed(t)'
    <3>1. t \notin crossed => buf_len'[t] = 1
      BY <1>1, <2>1, <2>2, StrlenHello DEF FInv, Users
    <3>2. QED
      BY <2>1, <2>2, <3>1 DEF Undisturbed, Nothing
  <2>4. QED
    BY <1>1, <1>3, <2>1, <2>3, CallKeeps DEF FInv, Users
<1>4. CASE Call(t, "append", "copy", ReadAppend(t))
  <2>1. /\ tpc[t] = "append" /\ tpc'[t] = "copy" /\ UNCHANGED <<offset, heard>>
        /\ buf_len' = [buf_len EXCEPT ![t] = @ + 1]
        /\ buf' = PrintAt(buf, buf_len[t], Info(t))
    BY <1>4 DEF Go, ReadAppend, IInv, Working
  <2>2. ASSUME t \notin crossed PROVE buf = <<Hello(t)>> /\ buf_len[t] = 1 /\ Nothing(t)
    BY <1>2, <2>1, <2>2 DEF Undisturbed
  <2>3. t \notin crossed => Undisturbed(t)'
    <3>1. t \notin crossed => buf_len'[t] = 2 /\ buf' = <<Hello(t), Info(t)>>
      <4> SUFFICES ASSUME t \notin crossed
                   PROVE  buf_len'[t] = 2 /\ buf' = <<Hello(t), Info(t)>>
        OBVIOUS
      <4>1. buf_len'[t] = buf_len[t] + 1
        BY <1>1, <2>1 DEF FInv, Users
      <4>2. buf' = PrintAt(<<Hello(t)>>, 1, Info(t))
        BY <2>1, <2>2
      <4>3. QED
        BY <2>2, <4>1, <4>2, PrintSecond
    <3>2. QED
      BY <2>1, <2>2, <3>1 DEF Undisturbed, Nothing
  <2>4. QED
    BY <1>1, <1>4, <2>1, <2>3, CallKeeps DEF FInv, Users
<1>5. CASE Call(t, "copy", "clear", ReadCopy(t))
  <2>1. /\ tpc[t] = "copy" /\ tpc'[t] = "clear" /\ UNCHANGED <<buf, buf_len>>
        /\ heard' = [heard EXCEPT ![t] = @ \o Copied(buf, buf_len[t])]
        /\ offset' = [offset EXCEPT ![t] = @ + buf_len[t]]
    BY <1>5 DEF Go, ReadCopy, IInv, Working, Copied
  <2>2. ASSUME t \notin crossed PROVE buf = <<Hello(t), Info(t)>> /\ buf_len[t] = 2 /\ Nothing(t)
    BY <1>2, <2>1, <2>2 DEF Undisturbed
  <2>3. t \notin crossed => Undisturbed(t)'
    <3>1. t \notin crossed => heard'[t] = <<Hello(t), Info(t)>> /\ offset'[t] = 2
      <4> SUFFICES ASSUME t \notin crossed
                   PROVE  heard'[t] = <<Hello(t), Info(t)>> /\ offset'[t] = 2
        OBVIOUS
      <4>1. heard[t] = <<>> /\ offset[t] = 0
        BY <2>2 DEF Nothing
      <4>2. heard'[t] = heard[t] \o Copied(buf, buf_len[t]) /\ offset'[t] = offset[t] + buf_len[t]
        BY <1>1, <2>1 DEF FInv, Users
      <4>3. QED
        BY <2>2, <4>1, <4>2, CopiedIs
    <3>2. QED
      BY <2>1, <3>1 DEF Undisturbed, Heard
  <2>4. QED
    BY <1>1, <1>5, <2>1, <2>3, CallKeeps DEF FInv, Users
<1>6. CASE Call(t, "clear", "length", ReadClear(t))
  <2>1. tpc[t] = "clear" /\ tpc'[t] = "length" /\ UNCHANGED <<buf_len, offset, heard>>
    BY <1>6 DEF Go, ReadClear, IInv, Working
  <2>2. t \notin crossed => Undisturbed(t)'
    BY <1>2, <2>1 DEF Undisturbed, Heard
  <2>3. QED
    BY <1>1, <1>6, <2>1, <2>2, CallKeeps
<1>7. QED
  BY <1>3, <1>4, <1>5, <1>6 DEF Read

LEMMA ThreadFInv ==
  ASSUME IInv, FInv, NEW t \in Thread, ThreadStep(t)
  PROVE  FInv'
<1>1. ASSUME UNCHANGED <<procfs, mpc, walk, crossed, program>>,
             \A u \in Thread : tpc'[u] = tpc[u] \/ (u = t /\
               \/ tpc'[u] = "write" /\ tpc[u] = "work" /\ program \in {"3_2", "3_2 one"}
               \/ tpc'[u] = "failed" /\ tpc[u] = "write" /\ program \in {"3_2", "3_2 one"}
               \/ tpc'[u] = "exited" /\ tpc[u] = "work" /\ program \notin {"3_2", "3_2 one"}
               \/ tpc'[u] = "exited" /\ tpc[u] = "length" /\ (u \notin crossed => Heard(u)))
      PROVE  FInv'
  <2>1. UNCHANGED <<buf, buf_len, offset, heard, program, crossed, mpc, walk>>
    BY <1>1 DEF procfs
  <2>2. /\ Hearing'
        /\ \A h : Complete(h) => Complete(h)'
        /\ program \notin {"3_2", "3_2 one"} => \A u \in Thread : tpc'[u] \in {"none", "work", "exited"}
    BY <1>1, <2>1, FileStays
  <2>3. Listing'
    BY <1>1, <2>1, <2>2, MainStays
  <2>4. Users'
    BY <2>1, <2>2 DEF FInv, Users
  <2>5. QED
    BY <2>2, <2>3, <2>4 DEF FInv
<1>2. CASE Work(t)
  <2>1. UNCHANGED <<procfs, tpc, mpc, walk, crossed, program>>
    BY <1>2 DEF Work, Multiply, Load, Store, AddLocal
  <2>2. QED
    BY <1>1, <2>1
<1>3. CASE WorkDone(t)
  <2>1. /\ UNCHANGED <<procfs, mpc, walk, crossed, program>>
        /\ tpc[t] = "work" /\ \A u \in Thread \ {t} : tpc'[u] = tpc[u]
        /\ tpc'[t] = IF program \in {"3_2", "3_2 one"} THEN "write" ELSE "exited"
    BY <1>3 DEF WorkDone, Go, matrixVars, IInv, Working
  <2>2. QED
    BY <1>1, <2>1
<1>4. CASE EndOfFile(t)
  <2>1. /\ UNCHANGED <<procfs, mpc, walk, crossed, program>>
        /\ tpc[t] = "length" /\ tpc'[t] = "exited" /\ \A u \in Thread \ {t} : tpc'[u] = tpc[u]
        /\ AtEnd(t)
    BY <1>4 DEF EndOfFile, Go, matrixVars, IInv, Working
  <2>2. ASSUME t \notin crossed PROVE Heard(t)
    <3>1. (buf = <<Hello(t)>> /\ Nothing(t)) \/ Heard(t)
      BY <2>1, <2>2, CallersAre DEF FInv, Hearing, Undisturbed
    <3>2. ~(buf = <<Hello(t)>> /\ Nothing(t))
      BY <2>1, StrlenHello, BufferAssumption DEF AtEnd, Nothing
    <3>3. QED
      BY <3>1, <3>2
  <2>3. QED
    BY <1>1, <2>1, <2>2
<1>5. CASE OpenFails(t)
  <2>1. /\ UNCHANGED <<procfs, mpc, walk, crossed, program>>
        /\ tpc[t] = "write" /\ tpc'[t] = "failed" /\ \A u \in Thread \ {t} : tpc'[u] = tpc[u]
    BY <1>5 DEF OpenFails, Go, matrixVars, IInv, Working
  <2>2. program \in {"3_2", "3_2 one"}
    BY <2>1, CallersAre
  <2>3. QED
    BY <1>1, <2>1, <2>2
<1>6. QED
  BY <1>2, <1>3, <1>4, <1>5, WriteKeeps, ReadKeeps DEF ThreadStep

\* What a thread of 3_1 does is of no matter to the others, and the reverse.
LEMMA AskKeeps ==
  ASSUME FInv, program = "3_1", UNCHANGED <<program, tpc, crossed>>,
         DOMAIN heard' = DOMAIN heard, DOMAIN offset' = DOMAIN offset, DOMAIN buf_len' = DOMAIN buf_len,
         Listing'
  PROVE  FInv'
<1>1. Users'
  BY DEF FInv, Users
<1>2. Hearing'
  BY DEF Hearing
<1>3. QED
  BY <1>1, <1>2 DEF FInv

LEMMA BeginListKeeps == FInv /\ BeginList => FInv'
<1> SUFFICES ASSUME FInv, BeginList PROVE FInv'
  OBVIOUS
<1>1. /\ mpc = "list" /\ mpc' = IF offset[Main] > 0 THEN "join1" ELSE "walk"
      /\ walk' = 1 /\ UNCHANGED <<program, tpc, crossed>>
      /\ IF offset[Main] > 0 THEN UNCHANGED procfs ELSE ListStart(Main)
  BY DEF BeginList, GoMain, matrixVars
<1>2. program = "3_1"
  BY <1>1 DEF FInv, Users
<1>3. Nothing(Main) \/ (offset[Main] > 0 /\ Complete(heard[Main]))
  BY <1>1, <1>2 DEF FInv, Listing
<1>4. CASE offset[Main] > 0
  <2>1. UNCHANGED <<buf, buf_len, offset, heard>> /\ mpc' = "join1"
    BY <1>1, <1>4 DEF procfs
  <2>2. Complete(heard[Main])
    BY <1>3, <1>4 DEF Nothing
  <2>3. Listing'
    BY <1>1, <2>1, <2>2 DEF Listing, Complete
  <2>4. QED
    BY <1>1, <1>2, <2>1, <2>3, AskKeeps
<1>5. CASE ~(offset[Main] > 0)
  <2>1. /\ UNCHANGED <<offset, heard>> /\ buf' = <<>> /\ mpc' = "walk"
        /\ buf_len' = [buf_len EXCEPT ![Main] = 0]
    BY <1>1, <1>5 DEF ListStart
  <2>2. buf_len'[Main] = 0
    BY <2>1 DEF FInv, Users
  <2>3. Nothing(Main)'
    BY <1>3, <1>5, <2>1 DEF Nothing
  <2>4. Listing'
    BY <1>1, <2>1, <2>2, <2>3 DEF Listing
  <2>5. QED
    BY <1>1, <1>2, <2>1, <2>4, AskKeeps DEF FInv, Users
<1>6. QED
  BY <1>4, <1>5

LEMMA WalkKeeps == IInv /\ FInv /\ Walk => FInv'
<1> SUFFICES ASSUME IInv, FInv, Walk PROVE FInv'
  OBVIOUS
<1>1. /\ mpc = "walk" /\ mpc' = IF walk = 2 THEN "listed" ELSE "walk"
      /\ walk' = walk + 1 /\ walk \in Thread /\ UNCHANGED <<program, tpc, crossed>>
      /\ IF Meets(walk) THEN ListThread(Main, walk) ELSE UNCHANGED procfs
  BY DEF Walk, GoMain, matrixVars
<1>2. program = "3_1"
  BY <1>1 DEF FInv, Users
<1>3. /\ Nothing(Main)
      /\ \/ walk = 1 /\ buf = <<>> /\ buf_len[Main] = 0
         \/ walk = 2 /\ buf = <<Info(1)>> /\ buf_len[Main] = 1
         \/ walk = 2 /\ buf = <<>> /\ buf_len[Main] = 0 /\ tpc[1] = "exited"
  BY <1>1, <1>2 DEF FInv, Listing
<1>4. Meets(walk) <=> tpc[walk] # "exited"
  BY <1>3, BufferAssumption DEF Meets
<1>5. /\ UNCHANGED <<offset, heard>>
      /\ DOMAIN buf_len' = DOMAIN buf_len
      /\ IF tpc[walk] # "exited"
         THEN buf' = PrintAt(buf, buf_len[Main], Info(walk)) /\ buf_len'[Main] = buf_len[Main] + 1
         ELSE UNCHANGED <<buf, buf_len>>
  BY <1>1, <1>4 DEF ListThread, procfs, FInv, Users
<1>6. Nothing(Main)'
  BY <1>3, <1>5 DEF Nothing
<1>7. CASE walk = 1
  <2>1. mpc' = "walk" /\ walk' = 2
    BY <1>1, <1>7
  <2>2. CASE tpc[1] # "exited"
    <3>1. buf' = <<Info(1)>> /\ buf_len'[Main] = 1
      BY <1>3, <1>5, <1>7, <2>2, PrintFirst
    <3>2. Listing'
      BY <1>6, <2>1, <3>1 DEF Listing
    <3>3. QED
      BY <1>1, <1>2, <1>5, <3>2, AskKeeps
  <2>3. CASE tpc[1] = "exited"
    <3>1. buf' = <<>> /\ buf_len'[Main] = 0 /\ tpc'[1] = "exited"
      BY <1>1, <1>3, <1>5, <1>7, <2>3
    <3>2. Listing'
      BY <1>6, <2>1, <3>1 DEF Listing
    <3>3. QED
      BY <1>1, <1>2, <1>5, <3>2, AskKeeps
  <2>4. QED
    BY <2>2, <2>3
<1>8. CASE walk = 2
  <2>1. mpc' = "listed"
    BY <1>1, <1>8
  <2>2. \/ tpc[1] # "exited" /\ buf = <<Info(1)>> /\ buf_len[Main] = 1
        \/ tpc[1] = "exited" /\ buf = <<Info(1)>> /\ buf_len[Main] = 1
        \/ tpc[1] = "exited" /\ buf = <<>> /\ buf_len[Main] = 0
    BY <1>3, <1>8
  <2>3. Complete(buf') /\ buf_len'[Main] = Len(buf')
    <3>1. CASE tpc[2] # "exited" /\ buf = <<Info(1)>> /\ buf_len[Main] = 1
      <4>1. buf' = <<Info(1), Info(2)>> /\ buf_len'[Main] = 2
        BY <1>5, <1>8, <3>1, PrintSecond
      <4>2. QED
        BY <4>1 DEF Complete, Thread
    <3>2. CASE tpc[2] # "exited" /\ buf = <<>> /\ buf_len[Main] = 0
      <4>1. buf' = <<Info(2)>> /\ buf_len'[Main] = 1
        BY <1>5, <1>8, <3>2, PrintFirst
      <4>2. QED
        BY <2>2, <3>2, <4>1 DEF Complete, Thread
    <3>3. CASE tpc[2] = "exited"
      <4>1. buf' = buf /\ buf_len' = buf_len
        BY <1>5, <1>8, <3>3
      <4>2. CASE buf = <<Info(1)>> /\ buf_len[Main] = 1
        <5>1. \A t \in Thread : tpc[t] # "exited" => t = 1
          BY <3>3 DEF Thread
        <5>2. DOMAIN buf = {1} /\ buf[1] = Info(1) /\ Len(buf) = 1
          BY <4>2
        <5>3. QED
          BY <4>1, <4>2, <5>1, <5>2 DEF Complete
      <4>3. CASE buf = <<>> /\ buf_len[Main] = 0 /\ tpc[1] = "exited"
        <5>1. \A t \in Thread : tpc[t] = "exited"
          BY <3>3, <4>3 DEF Thread
        <5>2. QED
          BY <4>1, <4>3, <5>1 DEF Complete
      <4>4. QED
        BY <2>2, <4>2, <4>3
    <3>4. QED
      BY <2>2, <3>1, <3>2, <3>3
  <2>4. Complete(buf)'
    BY <1>1, <2>3 DEF Complete
  <2>5. Listing'
    BY <1>6, <2>1, <2>3, <2>4 DEF Listing
  <2>6. QED
    BY <1>1, <1>2, <1>5, <2>5, AskKeeps
<1>9. QED
  BY <1>1, <1>7, <1>8 DEF Thread

LEMMA EndListKeeps == FInv /\ EndList => FInv'
<1> SUFFICES ASSUME FInv, EndList PROVE FInv'
  OBVIOUS
<1>1. /\ mpc = "listed" /\ mpc' = IF buf_len[Main] = 0 THEN "join1" ELSE "list"
      /\ UNCHANGED <<program, tpc, crossed, buf, buf_len, walk>>
      /\ heard' = [heard EXCEPT ![Main] = @ \o Copied(buf, buf_len[Main])]
      /\ offset' = [offset EXCEPT ![Main] = @ + buf_len[Main]]
  BY DEF EndList, GoMain, AfterList, ReadCopy, Copied, matrixVars
<1>2. program = "3_1"
  BY <1>1 DEF FInv, Users
<1>3. Complete(buf) /\ buf_len[Main] = Len(buf) /\ heard[Main] = <<>> /\ offset[Main] = 0
  BY <1>1, <1>2 DEF FInv, Listing, Nothing
<1>4. /\ heard'[Main] = heard[Main] \o Copied(buf, buf_len[Main])
      /\ offset'[Main] = offset[Main] + buf_len[Main]
      /\ DOMAIN heard' = DOMAIN heard /\ DOMAIN offset' = DOMAIN offset
  BY <1>1 DEF FInv, Users
<1>5. buf \in {<<>>, <<Info(1)>>, <<Info(2)>>, <<Info(1), Info(2)>>}
  BY <1>3 DEF Complete
<1>6. Len(buf) \in {0, 1, 2} /\ heard'[Main] = buf
  <2>1. CASE buf = <<>>
    BY <1>3, <1>4, <2>1, CopiedIs
  <2>2. ASSUME NEW l, buf = <<l>> PROVE Len(buf) = 1 /\ heard'[Main] = buf
    <3>1. Len(buf) = 1
      BY <2>2
    <3>2. QED
      BY <1>3, <1>4, <2>2, <3>1, CopiedIs
  <2>3. ASSUME NEW l, NEW m, buf = <<l, m>> PROVE Len(buf) = 2 /\ heard'[Main] = buf
    <3>1. Len(buf) = 2
      BY <2>3
    <3>2. QED
      BY <1>3, <1>4, <2>3, <3>1, CopiedIs
  <2>4. QED
    BY <1>5, <2>1, <2>2, <2>3
<1>7. Complete(heard[Main])'
  BY <1>1, <1>3, <1>6 DEF Complete
<1>8. Listing'
  <2>1. CASE buf_len[Main] = 0
    BY <1>1, <1>7, <2>1 DEF Listing
  <2>2. CASE buf_len[Main] # 0
    <3>1. mpc' = "list" /\ offset'[Main] > 0
      BY <1>1, <1>3, <1>4, <1>6, <2>2
    <3>2. QED
      BY <1>7, <3>1 DEF Listing
  <2>3. QED
    BY <2>1, <2>2
<1>9. QED
  BY <1>1, <1>2, <1>4, <1>8, AskKeeps

LEMMA MainFInv ==
  ASSUME IInv, FInv, MainStep
  PROVE  FInv'
<1>1. ASSUME UNCHANGED <<procfs, crossed, program, walk>>,
             mpc' \notin {"list", "walk", "listed", "create1", "create2"}, mpc \notin {"walk", "listed"},
             program = "3_1" /\ mpc' = "join1" => mpc = "join1",
             UNCHANGED tpc
      PROVE  FInv'
  <2>1. UNCHANGED <<buf, buf_len, offset, heard, program, crossed>>
    BY <1>1 DEF procfs
  <2>2. Hearing' /\ \A h : Complete(h) => Complete(h)'
    BY <1>1, <2>1, FileStays
  <2>3. Users'
    BY <1>1, <2>1 DEF FInv, Users
  <2>4. Complete(heard[Main]) => Complete(heard[Main])'
    BY <1>1, <2>1 DEF Complete
  <2>5. Listing'
    BY <1>1, <2>1, <2>4 DEF FInv, Listing
  <2>6. QED
    BY <2>2, <2>3, <2>5 DEF FInv
<1>2. ASSUME NEW t \in Thread, Create(t) PROVE FInv'
  <2>1. /\ UNCHANGED <<buf, buf_len, offset, heard, program, crossed>>
        /\ tpc[t] = "none" /\ tpc'[t] = "work" /\ \A u \in Thread \ {t} : tpc'[u] = tpc[u]
        /\ mpc \in {"create1", "create2"}
        /\ mpc' = CASE t = 1 /\ 2 \in Active -> "create2"
                    [] t = 2 /\ program = "3_1" -> "list"
                    [] OTHER -> "join1"
    BY <1>2 DEF Create, GoMain, procfs, matrixVars, IInv, Working, Created, Thread
  <2>2. /\ Hearing'
        /\ program \notin {"3_2", "3_2 one"} => \A u \in Thread : tpc'[u] \in {"none", "work", "exited"}
    BY <2>1, FileStays
  <2>3. Users'
    BY <2>1, <2>2 DEF FInv, Users
  <2>4. Listing'
    <3>1. CASE program = "3_1"
      <4>1. mpc' \in {"create2", "list"}
        BY <2>1, <3>1 DEF Active, Thread
      <4>2. Nothing(Main)'
        BY <2>1, <3>1 DEF FInv, Listing, Nothing
      <4>3. QED
        BY <2>1, <4>1, <4>2 DEF Listing
    <3>2. QED
      BY <2>1, <3>1 DEF Listing
  <2>5. QED
    BY <2>2, <2>3, <2>4 DEF FInv
<1>3. ASSUME NEW t \in Thread, Join(t) PROVE FInv'
  <2>1. /\ UNCHANGED <<procfs, crossed, program, walk, tpc>>
        /\ mpc \in {"join1", "join2"} /\ mpc' \in {"join2", "print", "done", "crashed"}
    BY <1>3 DEF Join, GoMain, matrixVars
  <2>2. QED
    BY <1>1, <2>1
<1>4. CASE PrintResult
  <2>1. UNCHANGED <<procfs, crossed, program, walk, tpc>> /\ mpc = "print" /\ mpc' = "done"
    BY <1>4 DEF PrintResult, GoMain, PrintMatrix
  <2>2. QED
    BY <1>1, <2>1
<1>5. QED
  BY <1>2, <1>3, <1>4, BeginListKeeps, WalkKeeps, EndListKeeps DEF MainStep

LEMMA StepFInv == IInv /\ FInv /\ [Next]_vars => FInv'
<1>1. ASSUME IInv, FInv, UNCHANGED vars PROVE FInv'
  <2>1. UNCHANGED <<buf, buf_len, offset, heard, program, crossed, mpc, walk, tpc>>
    BY <1>1 DEF vars, procfs, matrixVars
  <2>2. Hearing' /\ \A h : Complete(h) => Complete(h)'
    BY <1>1, <2>1, FileStays
  <2>3. Listing'
    BY <1>1, <2>1, <2>2, MainStays
  <2>4. Users'
    BY <1>1, <2>1 DEF FInv, Users
  <2>5. QED
    BY <2>2, <2>3, <2>4 DEF FInv
<1>2. QED
  BY <1>1, ThreadFInv, MainFInv DEF Next, Terminated

LEMMA FileInvariant == Spec => [](IInv /\ FInv)
<1>1. Init => IInv /\ FInv
  BY InitIInv, InitFInv
<1>2. (IInv /\ FInv) /\ [Next]_vars => (IInv /\ FInv)'
  BY StepIInv, StepFInv
<1>3. QED
  BY <1>1, <1>2, PTL DEF Spec

\* A thread of 3_2 whose write and read nothing has come between reads its own
\* greeting and its own line after it, in whatever order the calls come.
THEOREM ThreadHearsItself == Spec => []HearsItself
<1>1. FInv => HearsItself
  BY DEF FInv, Hearing, Undisturbed, Heard, HearsItself
<1>2. QED
  BY <1>1, FileInvariant, PTL

\* main of 3_1 is told once of every thread that is still at work, whichever exit
\* while the kernel walks over them.
THEOREM MainListsWorking == Spec => []ListsWorking
<1>1. FInv => ListsWorking
  <2> SUFFICES ASSUME FInv, mpc = "join1", program = "3_1", NEW t \in Thread
               PROVE  LET told == {i \in DOMAIN heard[Main] : heard[Main][i] = Info(t)}
                      IN  Cardinality(told) <= 1 /\ (tpc[t] # "exited" => told # {})
    BY DEF ListsWorking
  <2> DEFINE h == heard[Main]
             told == {i \in DOMAIN h : h[i] = Info(t)}
  <2>1. /\ h \in {<<>>, <<Info(1)>>, <<Info(2)>>, <<Info(1), Info(2)>>}
        /\ tpc[t] # "exited" => \E i \in DOMAIN h : h[i] = Info(t)
    BY DEF FInv, Listing, Complete
  <2>2. \E i \in {1, 2} : told \subseteq {i}
    <3>1. CASE t = 1
      <4>1. \A i \in DOMAIN h : h[i] = Info(1) => i = 1
        BY <2>1, LinesDiffer
      <4>2. QED
        BY <3>1, <4>1
    <3>2. CASE t = 2
      <4>1. h \in {<<>>, <<Info(1)>>, <<Info(2)>>} => \A i \in DOMAIN h : h[i] = Info(2) => i = 1
        BY LinesDiffer
      <4>2. h = <<Info(1), Info(2)>> => \A i \in DOMAIN h : h[i] = Info(2) => i = 2
        BY LinesDiffer
      <4>3. QED
        BY <2>1, <3>2, <4>1, <4>2
    <3>3. QED
      BY <3>1, <3>2 DEF Thread
  <2>3. told # {} => \E i : told = {i}
    BY <2>2
  <2>4. Cardinality(told) <= 1
    <3>1. Cardinality({}) = 0 /\ \A i : Cardinality({i}) = 1
      BY FS_EmptySet, FS_Singleton
    <3> HIDE DEF told
    <3>2. QED
      BY <2>3, <3>1
  <2>5. QED
    BY <2>1, <2>4
<1>2. QED
  BY <1>1, FileInvariant, PTL

-----------------------------------------------------------------------------
(* Numbers.                                                                *)

\* Every set of numbers has a least one, and so there is induction over a set.
LEMMA Least ==
  ASSUME NEW T \in SUBSET Nat, T # {}
  PROVE  \E x \in T : \A y \in T : x <= y
<1> DEFINE R == OpToRel(<, Nat)
<1>1. IsWellFoundedOn(R, Nat)
  BY NatLessThanWellFounded
<1>2. \A x, y \in Nat : x < y => <<x, y>> \in R
  BY DEF OpToRel
<1> HIDE DEF R
<1>3. PICK x \in T : \A y \in T : ~ (<<y, x>> \in R)
  BY <1>1, WFMin
<1>4. ASSUME NEW y \in T PROVE x <= y
  <2>1. x \in Nat /\ y \in Nat /\ ~(y < x)
    BY <1>2, <1>3
  <2>2. QED
    BY <2>1
<1>5. QED
  BY <1>4

LEMMA Induct ==
  ASSUME NEW S, 0 \in S, \A n \in Nat : n \in S => n + 1 \in S
  PROVE  Nat \subseteq S
<1> SUFFICES ASSUME Nat \ S # {} PROVE FALSE
  OBVIOUS
<1>1. PICK x \in Nat \ S : \A y \in Nat \ S : x <= y
  BY Least
<1>2. QED
  BY <1>1

LEMMA DivIs ==
  ASSUME NEW x \in Nat, NEW m \in Nat \ {0}
  PROVE  x \div m \in Nat /\ x % m \in Nat /\ x % m < m /\ x = ((x \div m) * m) + (x % m)
OBVIOUS

LEMMA DivUnique ==
  ASSUME NEW m \in Nat \ {0}, NEW q \in Nat, NEW r \in Nat, r < m
  PROVE  ((q * m) + r) \div m = q /\ ((q * m) + r) % m = r
OBVIOUS

\* Counting on: within a group of m, or to the next group.
LEMMA NextDiv ==
  ASSUME NEW n \in Nat, NEW m \in Nat \ {0}
  PROVE  /\ n % m = m - 1 => (n + 1) % m = 0 /\ (n + 1) \div m = (n \div m) + 1
         /\ n % m # m - 1 => (n + 1) % m = (n % m) + 1 /\ (n + 1) \div m = n \div m
<1> DEFINE q == n \div m
           r == n % m
<1>1. q \in Nat /\ r \in Nat /\ r < m /\ n = (q * m) + r
  BY DivIs
<1> HIDE DEF q, r
<1>2. CASE r = m - 1
  <2>1. n + 1 = ((q + 1) * m) + 0 /\ q + 1 \in Nat /\ 0 < m
    BY <1>1, <1>2
  <2>2. (n + 1) % m = 0 /\ (n + 1) \div m = q + 1
    <3>1. (((q + 1) * m) + 0) \div m = q + 1 /\ (((q + 1) * m) + 0) % m = 0
      BY <2>1, DivUnique
    <3>2. QED
      BY <2>1, <3>1
  <2>3. QED
    BY <1>2, <2>2 DEF q, r
<1>3. CASE r # m - 1
  <2>1. n + 1 = (q * m) + (r + 1) /\ r + 1 < m /\ r + 1 \in Nat
    BY <1>1, <1>3
  <2>2. (n + 1) % m = r + 1 /\ (n + 1) \div m = q
    BY <1>1, <2>1, DivUnique
  <2>3. QED
    BY <1>3, <2>2 DEF q, r
<1>4. QED
  BY <1>2, <1>3

-----------------------------------------------------------------------------
(* Sums of products.                                                       *)

LEMMA TermIs ==
  ASSUME NEW e \in Element, NEW k \in 0 .. Inner - 1
  PROVE  Term(e, k) \in Nat
<1>1. e[1] \in 0 .. Row - 1 /\ e[2] \in 0 .. Col - 1
  BY DEF Element
<1>2. X[e[1]][k] \in Nat /\ Y[k][e[2]] \in Nat
  BY <1>1, EntriesAssumption
<1>3. QED
  BY <1>2 DEF Term

All == 0 .. Inner - 1
Pick(s) == CHOOSE x \in s : TRUE

\* What MapThenSumSet computes for the sets in D, one element after the other.
SumsOver(g, e, D) ==
  g = [s \in D |-> IF s = {} THEN 0 ELSE Term(e, Pick(s)) + g[s \ {Pick(s)}]]

LEMMA SetsOfProducts ==
  /\ IsFiniteSet(All) /\ Cardinality(All) = Inner
  /\ \A s \in SUBSET All : IsFiniteSet(s) /\ Cardinality(s) \in Nat /\ Cardinality(s) <= Inner
  /\ \A s \in SUBSET All : \A x \in s : Cardinality(s \ {x}) = Cardinality(s) - 1
  /\ \A s \in SUBSET All : Cardinality(s) = 0 <=> s = {}
<1>1. IsFiniteSet(All) /\ Cardinality(All) = Inner
  BY SizesAssumption, FS_Interval DEF All
<1>2. \A s \in SUBSET All : IsFiniteSet(s) /\ Cardinality(s) \in Nat /\ Cardinality(s) <= Inner
  BY <1>1, FS_Subset, FS_CardinalityType
<1>3. \A s \in SUBSET All : \A x \in s : Cardinality(s \ {x}) = Cardinality(s) - 1
  BY <1>2, FS_RemoveElement
<1>4. \A s \in SUBSET All : Cardinality(s) = 0 <=> s = {}
  BY <1>2, FS_EmptySet
<1>5. QED
  BY <1>1, <1>2, <1>3, <1>4

LEMMA PickIs == \A s : s # {} => Pick(s) \in s
BY DEF Pick

LEMMA SumExists ==
  ASSUME NEW e
  PROVE  \E g : SumsOver(g, e, SUBSET All)
<1> DEFINE D(n) == {s \in SUBSET All : Cardinality(s) <= n}
           S == {n \in Nat : \E g : SumsOver(g, e, D(n))}
<1>1. 0 \in S
  <2> DEFINE g == [s \in D(0) |-> 0]
  <2>1. \A s \in D(0) : s = {}
    BY SetsOfProducts
  <2>2. SumsOver(g, e, D(0))
    BY <2>1 DEF SumsOver
  <2>3. QED
    BY <2>2
<1>2. ASSUME NEW n \in Nat, n \in S PROVE n + 1 \in S
  <2>1. PICK g : SumsOver(g, e, D(n))
    BY <1>2
  <2> DEFINE h == [s \in D(n + 1) |-> IF s = {} THEN 0 ELSE Term(e, Pick(s)) + g[s \ {Pick(s)}]]
  <2>2. ASSUME NEW u \in D(n) PROVE h[u] = g[u]
    <3>1. u \in D(n + 1)
      BY SetsOfProducts
    <3>2. g[u] = IF u = {} THEN 0 ELSE Term(e, Pick(u)) + g[u \ {Pick(u)}]
      BY <2>1 DEF SumsOver
    <3>3. QED
      BY <3>1, <3>2
  <2>3. ASSUME NEW s \in D(n + 1), s # {} PROVE s \ {Pick(s)} \in D(n)
    <3>1. Pick(s) \in s /\ s \in SUBSET All /\ Cardinality(s) <= n + 1
      BY <2>3, PickIs
    <3>2. Cardinality(s \ {Pick(s)}) = Cardinality(s) - 1 /\ Cardinality(s) \in Nat
      BY <3>1, SetsOfProducts
    <3>3. QED
      BY <3>1, <3>2
  <2>4. \A s \in D(n + 1) : h[s] = IF s = {} THEN 0 ELSE Term(e, Pick(s)) + h[s \ {Pick(s)}]
    BY <2>2, <2>3
  <2>5. SumsOver(h, e, D(n + 1))
    <3>1. h = [s \in D(n + 1) |-> h[s]]
      OBVIOUS
    <3> HIDE DEF h, D
    <3>2. QED
      BY <2>4, <3>1 DEF SumsOver
  <2> HIDE DEF h, D
  <2>6. QED
    BY <2>5
<1>3. Inner \in S
  <2> HIDE DEF S
  <2>1. Nat \subseteq S
    BY <1>1, <1>2, Induct
  <2>2. QED
    BY <2>1, SizesAssumption
<1>4. D(Inner) = SUBSET All
  BY SetsOfProducts
<1>5. QED
  BY <1>3, <1>4

\* The sum does not depend on the order.
AnyOrder(g, e) ==
  /\ g[{}] = 0
  /\ \A s \in SUBSET All : g[s] \in Nat
  /\ \A s \in SUBSET All : \A x \in s : g[s] = Term(e, x) + g[s \ {x}]

LEMMA SumAnyOrder ==
  ASSUME NEW e \in Element, NEW g, SumsOver(g, e, SUBSET All)
  PROVE  AnyOrder(g, e)
<1>1. \A s \in SUBSET All : g[s] = IF s = {} THEN 0 ELSE Term(e, Pick(s)) + g[s \ {Pick(s)}]
  BY DEF SumsOver
<1>2. \A x \in All : Term(e, x) \in Nat
  BY TermIs DEF All
<1> DEFINE Ok(s) == g[s] \in Nat /\ \A x \in s : g[s] = Term(e, x) + g[s \ {x}]
           S == {n \in Nat : \A s \in SUBSET All : Cardinality(s) <= n => Ok(s)}
<1>3. Ok({})
  <2>1. {} \in SUBSET All
    OBVIOUS
  <2>2. g[{}] = 0
    BY <1>1, <2>1
  <2>3. QED
    BY <2>2
<1>4. 0 \in S
  <2>1. ASSUME NEW s \in SUBSET All, Cardinality(s) <= 0 PROVE Ok(s)
    <3>1. s = {}
      BY <2>1, SetsOfProducts
    <3> HIDE DEF Ok
    <3>2. QED
      BY <1>3, <3>1
  <2> HIDE DEF Ok
  <2>2. QED
    BY <2>1
<1>5. ASSUME NEW n \in Nat, n \in S PROVE n + 1 \in S
  <2>1. ASSUME NEW s \in SUBSET All, Cardinality(s) <= n + 1, s # {} PROVE Ok(s)
    <3> DEFINE p == Pick(s)
    <3>1. p \in s /\ g[s] = Term(e, p) + g[s \ {p}]
      BY <1>1, <2>1, PickIs
    <3> HIDE DEF p
    <3>2. ASSUME NEW x \in s PROVE s \ {x} \in SUBSET All /\ Ok(s \ {x})
      <4>1. Cardinality(s \ {x}) = Cardinality(s) - 1 /\ Cardinality(s) \in Nat
        BY SetsOfProducts
      <4>2. Cardinality(s \ {x}) <= n /\ s \ {x} \in SUBSET All
        BY <2>1, <4>1
      <4> HIDE DEF Ok
      <4>3. QED
        BY <1>5, <4>2
    <3>3. ASSUME NEW x \in s PROVE g[s] = Term(e, x) + g[s \ {x}]
      <4>1. CASE x = p
        BY <3>1, <4>1
      <4>2. CASE x # p
        <5>1. g[s \ {p}] = Term(e, x) + g[(s \ {p}) \ {x}]
          BY <3>1, <3>2, <4>2
        <5>2. g[s \ {x}] = Term(e, p) + g[(s \ {x}) \ {p}]
          BY <3>1, <3>2, <4>2
        <5>3. (s \ {p}) \ {x} = (s \ {x}) \ {p}
          OBVIOUS
        <5>4. g[s \ {p}] \in Nat /\ g[s \ {x}] \in Nat
          BY <3>1, <3>2
        <5>5. (s \ {x}) \ {p} \in SUBSET All /\ Term(e, x) \in Nat /\ Term(e, p) \in Nat
          BY <1>2, <3>1
        <5>6. g[(s \ {x}) \ {p}] \in Nat
          <6>1. s \ {x} \in SUBSET All /\ p \in s \ {x}
            BY <3>1, <4>2
          <6>2. Cardinality(s \ {x}) = Cardinality(s) - 1
            BY SetsOfProducts
          <6>3. Cardinality((s \ {x}) \ {p}) = Cardinality(s \ {x}) - 1
            BY <6>1, SetsOfProducts
          <6>4. Cardinality(s) \in Nat
            BY SetsOfProducts
          <6>5. Cardinality((s \ {x}) \ {p}) <= n
            BY <2>1, <6>2, <6>3, <6>4
          <6>6. Ok((s \ {x}) \ {p})
            <7> HIDE DEF Ok
            <7>1. QED
              BY <1>5, <5>5, <6>5
          <6>7. QED
            BY <6>6
        <5>7. PICK a \in Nat, b \in Nat, c \in Nat :
                a = Term(e, x) /\ b = Term(e, p) /\ c = g[(s \ {x}) \ {p}]
          BY <5>5, <5>6
        <5>8. g[s \ {p}] = a + c /\ g[s \ {x}] = b + c
          BY <5>1, <5>2, <5>3, <5>7
        <5>9. g[s] = b + (a + c)
          BY <3>1, <5>7, <5>8
        <5>10. QED
          BY <5>7, <5>8, <5>9
      <4>3. QED
        BY <4>1, <4>2
    <3>4. g[s] \in Nat
      BY <1>2, <3>1, <3>2
    <3>5. QED
      BY <3>3, <3>4
  <2>2. ASSUME NEW s \in SUBSET All, Cardinality(s) <= n + 1 PROVE Ok(s)
    <3> HIDE DEF Ok
    <3>1. QED
      BY <1>3, <2>1, <2>2
  <2> HIDE DEF Ok
  <2>3. QED
    BY <2>2
<1>6. \A s \in SUBSET All : Ok(s)
  <2> HIDE DEF Ok
  <2>1. Nat \subseteq S
    <3> HIDE DEF S
    <3>1. QED
      BY <1>4, <1>5, Induct
  <2>2. QED
    BY <2>1, SetsOfProducts
<1>7. QED
  BY <1>1, <1>6 DEF AnyOrder

\* The sum of the first n products of element e.
SumTo(e, n) == (CHOOSE g : SumsOver(g, e, SUBSET All))[0 .. n - 1]

LEMMA ProductIs == \A e \in Element : Product(e) = SumTo(e, Inner)
BY DEF Product, SumTo, SumsOver, MapThenSumSet, MapThenFoldSet, Pick, All

LEMMA SumSteps ==
  ASSUME NEW e \in Element
  PROVE  /\ SumTo(e, 0) = 0
         /\ \A n \in 0 .. Inner : SumTo(e, n) \in Nat
         /\ \A n \in 0 .. Inner - 1 : SumTo(e, n + 1) = SumTo(e, n) + Term(e, n)
<1> DEFINE g == CHOOSE g : SumsOver(g, e, SUBSET All)
<1>1. SumsOver(g, e, SUBSET All)
  BY SumExists
<1> HIDE DEF g
<1>2. AnyOrder(g, e)
  BY <1>1, SumAnyOrder
<1>3. \A n : SumTo(e, n) = g[0 .. n - 1]
  BY DEF SumTo, g
<1>4. SumTo(e, 0) = 0
  <2>1. 0 .. 0 - 1 = {}
    OBVIOUS
  <2>2. QED
    BY <1>2, <1>3, <2>1 DEF AnyOrder
<1>5. ASSUME NEW n \in 0 .. Inner PROVE SumTo(e, n) \in Nat
  <2>1. 0 .. n - 1 \in SUBSET All
    BY SizesAssumption DEF All
  <2>2. QED
    BY <1>2, <1>3, <2>1 DEF AnyOrder
<1>6. ASSUME NEW n \in 0 .. Inner - 1 PROVE SumTo(e, n + 1) = SumTo(e, n) + Term(e, n)
  <2>1. 0 .. (n + 1) - 1 \in SUBSET All /\ n \in 0 .. (n + 1) - 1
    BY SizesAssumption DEF All
  <2>2. (0 .. (n + 1) - 1) \ {n} = 0 .. n - 1
    BY SizesAssumption
  <2>3. SumTo(e, n + 1) = Term(e, n) + SumTo(e, n)
    BY <1>2, <1>3, <2>1, <2>2 DEF AnyOrder
  <2>4. Term(e, n) \in Nat /\ SumTo(e, n) \in Nat
    BY <1>5, TermIs, SizesAssumption
  <2>5. QED
    BY <2>3, <2>4
<1>7. QED
  BY <1>4, <1>5, <1>6

-----------------------------------------------------------------------------
(* What a thread has added to an element.                                  *)

LEMMA LoopsAre ==
  ASSUME NEW t \in Thread
  PROVE  /\ Rows(t).first \in Nat /\ Rows(t).size \in Nat /\ Rows(t).first + Rows(t).size <= Row
         /\ Inners(t).first \in Nat /\ Inners(t).size \in Nat
         /\ Inners(t).first + Inners(t).size <= Inner
<1>1. \A n \in Nat : n \div 2 \in Nat /\ n \div 2 <= n
  OBVIOUS
<1>2. ASSUME NEW n \in Nat
      PROVE  /\ Half(t, n).first \in Nat /\ Half(t, n).size \in Nat
             /\ Half(t, n).first + Half(t, n).size <= n
             /\ Whole(n).first \in Nat /\ Whole(n).size \in Nat
             /\ Whole(n).first + Whole(n).size <= n
  <2>1. n \div 2 \in Nat /\ n \div 2 <= n
    BY <1>1
  <2> DEFINE h == n \div 2
  <2>2. /\ Half(t, n).first = IF t = 1 THEN 0 ELSE h
        /\ Half(t, n).size = IF t = 1 THEN h ELSE n - h
        /\ Whole(n).first = 0 /\ Whole(n).size = n
    BY DEF Half, Whole
  <2> HIDE DEF h
  <2>3. h \in Nat /\ h <= n
    BY <2>1 DEF h
  <2>4. QED
    BY <2>2, <2>3
<1>3. Row \in Nat /\ Inner \in Nat
  BY SizesAssumption
<1>4. QED
  BY <1>2, <1>3 DEF Rows, Inners

Mine(t, e) == e[1] >= Rows(t).first /\ e[1] < Rows(t).first + Rows(t).size
Place(t, e) == ((e[1] - Rows(t).first) * Col) + e[2]

\* How many of its products of element e thread t has added.
Progress(t, e) ==
  IF ~Mine(t, e) \/ Inners(t).size = 0 THEN 0
  ELSE IF Place(t, e) < done[t] \div Inners(t).size THEN Inners(t).size
  ELSE IF Place(t, e) = done[t] \div Inners(t).size THEN done[t] % Inners(t).size
  ELSE 0

Added(t, e) == SumTo(e, Inners(t).first + Progress(t, e)) - SumTo(e, Inners(t).first)

LEMMA ElementIs ==
  ASSUME NEW e \in Element
  PROVE  e[1] \in Nat /\ e[1] < Row /\ e[2] \in Nat /\ e[2] < Col /\ e = <<e[1], e[2]>>
BY SizesAssumption DEF Element

LEMMA PlaceIs ==
  ASSUME NEW t \in Thread, NEW e \in Element, Mine(t, e)
  PROVE  /\ Place(t, e) \in Nat /\ Place(t, e) < Rows(t).size * Col
         /\ Place(t, e) \div Col = e[1] - Rows(t).first
         /\ Place(t, e) % Col = e[2]
<1> DEFINE a == e[1] - Rows(t).first
           s == Rows(t).size
<1>1. a \in Nat /\ a < s /\ s \in Nat
  BY LoopsAre, ElementIs DEF Mine
<1>2. e[2] \in Nat /\ e[2] < Col /\ Col \in Nat \ {0}
  BY ElementIs, SizesAssumption
<1>3. Place(t, e) = (a * Col) + e[2]
  BY DEF Place
<1> HIDE DEF a, s
<1>4. (a * Col) + e[2] \in Nat /\ (a + 1) * Col <= s * Col /\ (a + 1) * Col = (a * Col) + Col
  BY <1>1, <1>2
<1>5. a * Col \in Nat /\ s * Col \in Nat
  BY <1>1, <1>2
<1>6. Place(t, e) < s * Col /\ Place(t, e) \in Nat
  BY <1>2, <1>3, <1>4, <1>5
<1>7. Place(t, e) \div Col = a /\ Place(t, e) % Col = e[2]
  <2>1. PICK j \in Nat : j = e[2] /\ j < Col
    BY <1>2
  <2>2. ((a * Col) + j) \div Col = a /\ ((a * Col) + j) % Col = j
    BY <1>1, <1>2, <2>1, DivUnique
  <2>3. QED
    BY <1>3, <2>1, <2>2
<1>8. QED
  BY <1>6, <1>7 DEF a, s

LEMMA TargetIs ==
  ASSUME done \in [Thread -> Nat], NEW t \in Thread, done[t] < Additions(t)
  PROVE  /\ Inners(t).size # 0
         /\ Target(t) \in Element /\ Mine(t, Target(t))
         /\ \A e \in Element : Mine(t, e) => (Place(t, e) = done[t] \div Inners(t).size <=> e = Target(t))
         /\ done[t] % Inners(t).size \in Nat /\ done[t] % Inners(t).size < Inners(t).size
         /\ Index(t) = Inners(t).first + (done[t] % Inners(t).size)
         /\ Index(t) \in 0 .. Inner - 1
<1> DEFINE d == done[t]
           s == Rows(t).size
           f == Rows(t).first
           I == Inners(t).size
           g == Inners(t).first
           q == d \div I
<1>1. /\ d \in Nat /\ s \in Nat /\ f \in Nat /\ I \in Nat /\ g \in Nat
      /\ f + s <= Row /\ g + I <= Inner
      /\ Row \in Nat /\ Inner \in Nat /\ Col \in Nat \ {0}
  BY LoopsAre, SizesAssumption
<1>2. d < (s * Col) * I
  BY DEF Additions
<1>3. Target(t) = <<f + (q \div Col), q % Col>>
  BY DEF Target
<1>4. Index(t) = g + (d % I)
  BY DEF Index
<1>40. \A e : /\ Mine(t, e) <=> (e[1] >= f /\ e[1] < f + s)
              /\ Place(t, e) = ((e[1] - f) * Col) + e[2]
  BY DEF Mine, Place
<1> HIDE DEF d, s, f, I, g
<1>5. I # 0
  <2> SUFFICES ASSUME I = 0 PROVE FALSE
    OBVIOUS
  <2>1. (s * Col) * I = 0
    BY <1>1
  <2>2. QED
    BY <1>1, <1>2, <2>1
<1>6. s * Col \in Nat
  BY <1>1
<1>7. q \in Nat /\ q < s * Col /\ d % I \in Nat /\ d % I < I
  BY <1>1, <1>2, <1>5, <1>6, DivBound, DivIs
<1> DEFINE i == q \div Col
           j == q % Col
<1> HIDE DEF q
<1>8. i \in Nat /\ i < s /\ j \in Nat /\ j < Col /\ q = (i * Col) + j
  BY <1>1, <1>7, DivBound, DivIs
<1> HIDE DEF i, j
<1>9. Target(t) = <<f + i, j>>
  BY <1>3 DEF i, j
<1>10. f + i \in Nat /\ f + i < Row /\ f + i >= f /\ f + i < f + s
  BY <1>1, <1>8
<1>11. Target(t) \in Element /\ Mine(t, Target(t))
  <2>1. f + i \in 0 .. Row - 1 /\ j \in 0 .. Col - 1
    BY <1>1, <1>8, <1>10
  <2>2. Target(t)[1] = f + i
    BY <1>9
  <2>3. QED
    BY <1>9, <1>10, <1>40, <2>1, <2>2 DEF Element
<1>12. ASSUME NEW e \in Element, Mine(t, e)
       PROVE  Place(t, e) = q <=> e = Target(t)
  <2>1. /\ Place(t, e) \div Col = e[1] - f /\ Place(t, e) % Col = e[2]
        /\ e[1] \in Nat /\ e = <<e[1], e[2]>>
    BY <1>12, PlaceIs, ElementIs DEF f
  <2>2. ASSUME Place(t, e) = q PROVE e = Target(t)
    <3>1. i = e[1] - f /\ j = e[2]
      BY <2>1, <2>2 DEF i, j
    <3>2. e[1] = f + i
      BY <1>1, <1>8, <2>1, <3>1
    <3>3. QED
      BY <1>9, <2>1, <3>1, <3>2
  <2>3. ASSUME e = Target(t) PROVE Place(t, e) = q
    <3>1. e[1] = f + i /\ e[2] = j
      BY <1>9, <2>3
    <3>2. e[1] - f = i
      BY <1>1, <1>8, <3>1
    <3>3. QED
      BY <1>8, <1>40, <3>1, <3>2
  <2>4. QED
    BY <2>2, <2>3
<1>13. Index(t) \in 0 .. Inner - 1
  BY <1>1, <1>4, <1>7
<1>14. QED
  BY <1>4, <1>5, <1>7, <1>11, <1>12, <1>13 DEF d, I, g, q

LEMMA ProgressIs ==
  ASSUME done \in [Thread -> Nat], NEW t \in Thread, NEW e \in Element
  PROVE  /\ Progress(t, e) \in Nat /\ Progress(t, e) <= Inners(t).size
         /\ SumTo(e, Inners(t).first) \in Nat
         /\ SumTo(e, Inners(t).first + Progress(t, e)) \in Nat
         /\ Added(t, e) \in Int
<1> DEFINE I == Inners(t).size
           g == Inners(t).first
           d == done[t]
           p == Progress(t, e)
<1>1. I \in Nat /\ g \in Nat /\ g + I <= Inner /\ Inner \in Nat /\ d \in Nat
  BY LoopsAre, SizesAssumption
<1>2. I # 0 => d % I \in Nat /\ d % I < I
  <2> HIDE DEF I, d
  <2>1. QED
    BY <1>1, DivIs
<1>3. p = 0 \/ p = I \/ (I # 0 /\ p = d % I)
  BY DEF Progress
<1> HIDE DEF I, g, d, p
<1>4. p \in Nat /\ p <= I
  BY <1>1, <1>2, <1>3
<1>5. g \in 0 .. Inner /\ g + p \in 0 .. Inner
  BY <1>1, <1>4
<1>6. SumTo(e, g) \in Nat /\ SumTo(e, g + p) \in Nat
  BY <1>5, SumSteps
<1>7. Added(t, e) = SumTo(e, g + p) - SumTo(e, g)
  BY DEF Added, g, p
<1>8. QED
  BY <1>4, <1>6, <1>7 DEF I, g, p

\* An addition is the next product of its target, and nothing to other elements.
LEMMA AddedNext ==
  ASSUME done \in [Thread -> Nat], NEW t \in Thread, done[t] < Additions(t),
         done' = [done EXCEPT ![t] = @ + 1], program' = program,
         NEW e \in Element
  PROVE  /\ Added(t, e)' = IF e = Target(t) THEN Added(t, e) + Term(e, Index(t)) ELSE Added(t, e)
         /\ \A u \in Thread \ {t} : Added(u, e)' = Added(u, e)
<1> DEFINE I == Inners(t).size
           g == Inners(t).first
           d == done[t]
           q == d \div I
           r == d % I
           p == Place(t, e)
<1>1. \A u \in Thread : Rows(u)' = Rows(u) /\ Inners(u)' = Inners(u)
  BY DEF Rows, Inners, Half, Whole
<1>2. \A u \in Thread : Mine(u, e)' = Mine(u, e) /\ Place(u, e)' = Place(u, e)
  BY <1>1 DEF Mine, Place
<1>3. ASSUME NEW u \in Thread \ {t} PROVE Added(u, e)' = Added(u, e)
  <2>1. done'[u] = done[u]
    OBVIOUS
  <2>2. Progress(u, e)' = Progress(u, e)
    BY <1>1, <1>2, <2>1 DEF Progress
  <2>3. QED
    BY <1>1, <2>2 DEF Added, SumTo, SumsOver, Term, All, Pick
<1>4. Added(t, e)' = SumTo(e, g + Progress(t, e)') - SumTo(e, g)
  BY <1>1 DEF Added, SumTo, SumsOver, Term, All, Pick
<1>5. /\ d \in Nat /\ I \in Nat \ {0} /\ r \in Nat /\ r < I
      /\ (Mine(t, e) => (p = q <=> e = Target(t)))
      /\ Mine(t, Target(t))
      /\ Index(t) = g + r /\ Index(t) \in 0 .. Inner - 1
  BY LoopsAre, TargetIs
<1>6. /\ r = I - 1 => (d + 1) % I = 0 /\ (d + 1) \div I = q + 1
      /\ r # I - 1 => (d + 1) % I = r + 1 /\ (d + 1) \div I = q
  <2> HIDE DEF d, I
  <2>1. QED
    BY <1>5, NextDiv
<1>7. q \in Nat
  <2> HIDE DEF d, I
  <2>1. QED
    BY <1>5, DivIs
<1>8. done'[t] = d + 1
  OBVIOUS
<1>9. Progress(t, e) = IF ~Mine(t, e) THEN 0 ELSE IF p < q THEN I ELSE IF p = q THEN r ELSE 0
  BY <1>5 DEF Progress
<1>10. Progress(t, e)' = IF ~Mine(t, e) THEN 0
                         ELSE IF p < (d + 1) \div I THEN I
                         ELSE IF p = (d + 1) \div I THEN (d + 1) % I ELSE 0
  BY <1>1, <1>2, <1>5, <1>8 DEF Progress
<1>11. Mine(t, e) => p \in Nat
  BY PlaceIs
<1> HIDE DEF d, I, g, q, r, p
<1>12. CASE e = Target(t)
  <2>1. Progress(t, e) = r /\ Progress(t, e)' = r + 1
    BY <1>5, <1>6, <1>7, <1>9, <1>10, <1>11, <1>12
  <2>2. PICK k \in 0 .. Inner - 1 : k = g + r /\ Index(t) = k
    BY <1>5
  <2>3. g \in Nat
    BY LoopsAre DEF g
  <2>4. g + (r + 1) = k + 1
    BY <1>5, <2>2, <2>3
  <2>5. SumTo(e, k + 1) = SumTo(e, k) + Term(e, k) /\ Term(e, k) \in Nat
    BY <2>2, SumSteps, TermIs
  <2>6. SumTo(e, k) \in Nat /\ SumTo(e, g) \in Nat
    BY <2>1, <2>2, ProgressIs DEF g
  <2>7. Added(t, e) = SumTo(e, k) - SumTo(e, g)
    BY <2>1, <2>2 DEF Added, g
  <2>8. Added(t, e)' = (SumTo(e, k) + Term(e, k)) - SumTo(e, g)
    BY <1>4, <2>1, <2>4, <2>5
  <2>9. Added(t, e)' = Added(t, e) + Term(e, k)
    BY <2>5, <2>6, <2>7, <2>8
  <2>10. QED
    BY <1>3, <1>12, <2>2, <2>9
<1>13. CASE e # Target(t)
  <2>1. Progress(t, e)' = Progress(t, e)
    BY <1>5, <1>6, <1>7, <1>9, <1>10, <1>11, <1>13
  <2>2. QED
    BY <1>3, <1>4, <1>13, <2>1 DEF Added, g
<1>14. QED
  BY <1>12, <1>13

LEMMA AddedNone ==
  ASSUME done \in [Thread -> Nat], NEW t \in Thread, done[t] = 0, NEW e \in Element
  PROVE  Added(t, e) = 0
<1> DEFINE I == Inners(t).size
<1>1. I \in Nat
  BY LoopsAre
<1>2. I # 0 => 0 \div I = 0 /\ 0 % I = 0
  <2> HIDE DEF I
  <2>1. ASSUME I # 0 PROVE ((0 * I) + 0) \div I = 0 /\ ((0 * I) + 0) % I = 0
    BY <1>1, <2>1, DivUnique
  <2>2. 0 * I = 0
    BY <1>1
  <2>3. QED
    BY <2>1, <2>2
<1>3. Mine(t, e) => Place(t, e) \in Nat
  BY PlaceIs
<1>4. Progress(t, e) = 0
  BY <1>2, <1>3 DEF Progress
<1>5. Inners(t).first + 0 = Inners(t).first
  BY LoopsAre
<1>6. SumTo(e, Inners(t).first) \in Nat
  BY ProgressIs
<1>7. QED
  BY <1>4, <1>5, <1>6 DEF Added

LEMMA AddedFull ==
  ASSUME done \in [Thread -> Nat], NEW t \in Thread, Multiplied(t), NEW e \in Element
  PROVE  Added(t, e) = IF Mine(t, e)
                       THEN SumTo(e, Inners(t).first + Inners(t).size) - SumTo(e, Inners(t).first)
                       ELSE 0
<1> DEFINE I == Inners(t).size
           g == Inners(t).first
           s == Rows(t).size
<1>1. I \in Nat /\ g \in Nat /\ s \in Nat /\ Col \in Nat
  BY LoopsAre, SizesAssumption
<1>2. SumTo(e, g) \in Nat /\ g + 0 = g
  BY <1>1, ProgressIs
<1>3. CASE ~Mine(t, e)
  <2>1. Progress(t, e) = 0
    BY <1>3 DEF Progress
  <2>2. QED
    BY <1>2, <1>3, <2>1 DEF Added
<1>4. CASE Mine(t, e) /\ I = 0
  <2>1. Progress(t, e) = I
    BY <1>4 DEF Progress
  <2>2. QED
    BY <1>4, <2>1 DEF Added
<1>5. CASE Mine(t, e) /\ I # 0
  <2>1. done[t] = (s * Col) * I
    BY DEF Multiplied, Additions
  <2>2. done[t] \div I = s * Col
    <3> HIDE DEF I, s
    <3>1. PICK n \in Nat : n = s * Col
      BY <1>1
    <3>2. ((n * I) + 0) \div I = n
      BY <1>1, <1>5, DivUnique
    <3>3. (n * I) + 0 = n * I
      BY <1>1
    <3>4. QED
      BY <2>1, <3>1, <3>2, <3>3
  <2>3. Place(t, e) < s * Col
    BY <1>5, PlaceIs
  <2>4. Progress(t, e) = I
    BY <1>5, <2>2, <2>3 DEF Progress
  <2>5. QED
    BY <1>5, <2>4 DEF Added
<1>6. QED
  BY <1>3, <1>4, <1>5

\* Together the threads add every product of every element once.
LEMMA AddedAll ==
  ASSUME done \in [Thread -> Nat], program \in Program, program # "2_1",
         \A t \in Active : Multiplied(t), \A t \in Thread \ Active : done[t] = 0,
         NEW e \in Element
  PROVE  Added(1, e) + Added(2, e) = Product(e)
<1>1. Product(e) = SumTo(e, Inner) /\ SumTo(e, 0) = 0 /\ SumTo(e, Inner) \in Nat
  BY ProductIs, SumSteps, SizesAssumption
<1>2. e[1] \in Nat /\ e[1] < Row
  BY ElementIs
<1>3. Row \in Nat /\ Inner \in Nat /\ 1 \in Thread /\ 2 \in Thread /\ 0 + Inner = Inner
  BY SizesAssumption DEF Thread
<1>4. CASE program = "2_2"
  <2> DEFINE h == Inner \div 2
  <2>1. h \in Nat /\ h <= Inner
    BY <1>3
  <2>2. /\ Inners(1).first = 0 /\ Inners(1).size = h
        /\ Inners(2).first = h /\ Inners(2).size = Inner - h
        /\ \A t \in Thread : Rows(t).first = 0 /\ Rows(t).size = Row
        /\ Active = Thread
    BY <1>4 DEF Rows, Inners, Half, Whole, Active
  <2> HIDE DEF h
  <2>3. Mine(1, e) /\ Mine(2, e)
    BY <1>2, <1>3, <2>2 DEF Mine
  <2>4. 0 + h = h /\ h + (Inner - h) = Inner /\ h \in 0 .. Inner
    BY <1>3, <2>1
  <2>5. Added(1, e) = SumTo(e, h) - SumTo(e, 0)
    BY <1>3, <2>2, <2>3, <2>4, AddedFull
  <2>6. Added(2, e) = SumTo(e, Inner) - SumTo(e, h)
    BY <1>3, <2>2, <2>3, <2>4, AddedFull
  <2>7. SumTo(e, h) \in Nat
    BY <2>4, SumSteps
  <2>8. QED
    BY <1>1, <2>5, <2>6, <2>7
<1>5. CASE program \in {"3_1", "3_2"}
  <2> DEFINE h == Row \div 2
  <2>1. h \in Nat /\ h <= Row
    BY <1>3
  <2>2. /\ Rows(1).first = 0 /\ Rows(1).size = h
        /\ Rows(2).first = h /\ Rows(2).size = Row - h
        /\ \A t \in Thread : Inners(t).first = 0 /\ Inners(t).size = Inner
        /\ Active = Thread
    <3>1. program # "2_1" /\ program # "2_2" /\ program # "3_2 one"
      BY <1>5
    <3>2. \A t \in Thread : Rows(t) = Half(t, Row) /\ Inners(t) = Whole(Inner)
      BY <1>5, <3>1 DEF Rows, Inners
    <3>3. Rows(1) = Half(1, Row) /\ Rows(2) = Half(2, Row)
      BY <1>3, <3>2
    <3>4. Active = Thread
      BY <3>1 DEF Active
    <3>5. QED
      BY <3>2, <3>3, <3>4 DEF Half, Whole
  <2> HIDE DEF h
  <2>3. Mine(1, e) <=> ~Mine(2, e)
    BY <1>2, <1>3, <2>1, <2>2 DEF Mine
  <2>4. ASSUME NEW t \in Thread
        PROVE  Added(t, e) = IF Mine(t, e) THEN SumTo(e, Inner) - SumTo(e, 0) ELSE 0
    BY <1>3, <2>2, AddedFull
  <2>5. QED
    BY <1>1, <1>3, <2>3, <2>4
<1>6. CASE program = "3_2 one"
  <2>1. /\ Inners(1).first = 0 /\ Inners(1).size = Inner
        /\ Rows(1).first = 0 /\ Rows(1).size = Row
        /\ Active = {1} /\ 2 \in Thread \ Active
    <3>1. Rows(1) = Whole(Row) /\ Inners(1) = Whole(Inner)
      BY <1>6 DEF Rows, Inners
    <3>2. Active = {1}
      BY <1>6 DEF Active
    <3>3. QED
      BY <3>1, <3>2 DEF Whole, Thread
  <2>2. Mine(1, e)
    BY <1>2, <1>3, <2>1 DEF Mine
  <2>3. Added(1, e) = SumTo(e, Inner) - SumTo(e, 0)
    BY <1>3, <2>1, <2>2, AddedFull
  <2>4. Added(2, e) = 0
    BY <1>3, <2>1, AddedNone
  <2>5. QED
    BY <1>1, <2>3, <2>4
<1>7. QED
  BY <1>4, <1>5, <1>6 DEF Program

-----------------------------------------------------------------------------
(* The invariant of the sums.                                              *)

AddedTo(e) == Added(1, e) + Added(2, e)

Numbers == z \in [Element -> Nat] /\ reg \in [Thread -> Nat] /\ out \in Seq(Nat)

Idle == \A t \in Thread : tpc[t] = "none" => done[t] = 0

Finished ==
  /\ mpc = "done" => \A t \in Active : Multiplied(t)
  /\ program = "2_1" => mpc \notin {"join2", "print"}

\* An element holds what has been added to it; where two threads have met it holds
\* at most that, for a store can undo another one's.
Elements ==
  \A e \in Element : z[e] <= AddedTo(e) /\ (e \notin met => z[e] = AddedTo(e))

\* What is loaded was there, and is there still where no other thread has come.
Registers ==
  /\ \A t \in Thread : loaded[t] => /\ reg[t] <= AddedTo(Target(t))
                                    /\ Target(t) \notin met => reg[t] = z[Target(t)]
  /\ \A t, u \in Thread : t # u /\ loaded[t] /\ loaded[u] /\ Target(t) = Target(u) => Target(t) \in met

Written ==
  IF mpc = "done" THEN Len(out) = Row * Col /\ \A e \in Element : Printed(e) = z[e]
                  ELSE out = <<>>

\* 2_1 has written the sums that are complete, and res is the one it is at.
Local ==
  /\ Len(out) = done[1] \div Inner
  /\ \A e \in Element : (e[1] * Col) + e[2] < Len(out) => Printed(e) = Product(e)
  /\ done[1] % Inner # 0 => reg[1] = SumTo(Target(1), done[1] % Inner)

SInv ==
  /\ Numbers /\ Idle /\ Finished
  /\ program # "2_1" => Elements /\ Registers /\ Written
  /\ program = "2_1" => Local

LEMMA AddedSame ==
  ASSUME UNCHANGED <<program, done>>
  PROVE  /\ \A t, e : Added(t, e)' = Added(t, e)
         /\ \A e : AddedTo(e)' = AddedTo(e) /\ Product(e)' = Product(e)
         /\ \A t : Target(t)' = Target(t) /\ Index(t)' = Index(t)
         /\ \A t : Multiplied(t)' = Multiplied(t)
         /\ Active' = Active
<1>1. \A t : Rows(t)' = Rows(t) /\ Inners(t)' = Inners(t)
  BY DEF Rows, Inners, Half, Whole
<1>2. \A t, e : Mine(t, e)' = Mine(t, e) /\ Place(t, e)' = Place(t, e)
  BY <1>1 DEF Mine, Place
<1>3. \A t, e : Progress(t, e)' = Progress(t, e)
  BY <1>1, <1>2 DEF Progress
<1>4. \A t, e : Added(t, e)' = Added(t, e)
  BY <1>1, <1>3 DEF Added, SumTo, SumsOver, Term, All, Pick
<1>5. \A e : AddedTo(e)' = AddedTo(e) /\ Product(e)' = Product(e)
  <2>1. \A e : Product(e)' = Product(e)
    BY DEF Product, Term, MapThenSumSet, MapThenFoldSet
  <2>2. QED
    BY <1>4, <2>1 DEF AddedTo
<1>6. \A t : Target(t)' = Target(t) /\ Index(t)' = Index(t)
  BY <1>1 DEF Target, Index
<1>7. \A t : Multiplied(t)' = Multiplied(t)
  BY <1>1 DEF Multiplied, Additions
<1>8. QED
  BY <1>4, <1>5, <1>6, <1>7 DEF Active

LEMMA AddedToIs ==
  ASSUME done \in [Thread -> Nat]
  PROVE  \A e \in Element : AddedTo(e) \in Int
<1>1. \A e \in Element : Added(1, e) \in Int /\ Added(2, e) \in Int
  BY ProgressIs DEF Thread
<1>2. QED
  BY <1>1 DEF AddedTo

LEMMA AddedNotAll ==
  ASSUME NEW t \in Thread, done \in [Thread -> Nat], done[t] < Additions(t)
  PROVE  ~Multiplied(t)
<1>1. done[t] \in Nat
  OBVIOUS
<1>2. QED
  BY <1>1 DEF Multiplied

LEMMA InitSInv == Init => SInv
<1> SUFFICES ASSUME Init PROVE SInv
  OBVIOUS
<1>1. /\ z = [e \in Element |-> 0] /\ done = [t \in Thread |-> 0] /\ out = <<>> /\ met = {}
      /\ loaded = [t \in Thread |-> FALSE] /\ reg = [t \in Thread |-> 0] /\ mpc = "create1"
  BY DEF Init, InitMatrix
<1>2. Numbers /\ Idle /\ Finished
  BY <1>1 DEF Numbers, Idle, Finished
<1>3. \A e \in Element : AddedTo(e) = 0
  <2>1. done \in [Thread -> Nat] /\ \A t \in Thread : done[t] = 0
    BY <1>1
  <2>2. \A e \in Element : Added(1, e) = 0 /\ Added(2, e) = 0
    BY <2>1, AddedNone DEF Thread
  <2>3. QED
    BY <2>2 DEF AddedTo
<1>4. Elements /\ Registers /\ Written
  BY <1>1, <1>3 DEF Elements, Registers, Written
<1>5. Local
  <2>1. done[1] = 0 /\ Len(out) = 0
    BY <1>1 DEF Thread
  <2>2. Inner \in Nat \ {0}
    BY SizesAssumption
  <2>3. 0 \div Inner = 0 /\ 0 % Inner = 0
    <3>1. ((0 * Inner) + 0) \div Inner = 0 /\ ((0 * Inner) + 0) % Inner = 0
      BY <2>2, DivUnique
    <3>2. 0 * Inner = 0
      BY <2>2
    <3>3. QED
      BY <3>1, <3>2
  <2>4. \A e \in Element : (e[1] * Col) + e[2] >= 0
    <3> SUFFICES ASSUME NEW e \in Element PROVE (e[1] * Col) + e[2] >= 0
      OBVIOUS
    <3>1. e[1] \in Nat /\ e[2] \in Nat /\ Col \in Nat
      BY ElementIs, SizesAssumption
    <3>2. e[1] * Col \in Nat
      BY <3>1
    <3>3. QED
      BY <3>1, <3>2
  <2>5. \A e \in Element : ~((e[1] * Col) + e[2] < Len(out))
    <3> SUFFICES ASSUME NEW e \in Element PROVE ~((e[1] * Col) + e[2] < Len(out))
      OBVIOUS
    <3>1. e[1] \in Nat /\ e[2] \in Nat /\ Col \in Nat
      BY ElementIs, SizesAssumption
    <3>2. e[1] * Col \in Nat
      BY <3>1
    <3>3. QED
      BY <2>1, <3>1, <3>2
  <2>6. QED
    BY <2>1, <2>3, <2>5 DEF Local
<1>6. QED
  BY <1>2, <1>4, <1>5 DEF SInv

\* A step that adds nothing and writes nothing.
LEMMA SumsStay ==
  ASSUME SInv, UNCHANGED matrixVars,
         \A t \in Thread : tpc'[t] = "none" => tpc[t] = "none",
         mpc' = "done" /\ mpc # "done" => program = "2_1" /\ \A t \in Active : Multiplied(t),
         mpc = "done" => mpc' = "done",
         program = "2_1" => mpc' \notin {"join2", "print"}
  PROVE  SInv'
<1>1. UNCHANGED <<program, z, done, loaded, reg, out, met>>
  BY DEF matrixVars
<1>2. /\ \A e : AddedTo(e)' = AddedTo(e) /\ Product(e)' = Product(e) /\ Printed(e)' = Printed(e)
      /\ \A t : Target(t)' = Target(t) /\ Multiplied(t)' = Multiplied(t)
      /\ \A e, n : SumTo(e, n)' = SumTo(e, n)
      /\ Active' = Active
  BY <1>1, AddedSame DEF Printed, SumTo, SumsOver, Term, All, Pick
<1>3. Numbers' /\ Idle' /\ Finished'
  BY <1>1, <1>2 DEF SInv, Numbers, Idle, Finished
<1>4. program # "2_1" => (Elements /\ Registers /\ Written)'
  BY <1>1, <1>2 DEF SInv, Elements, Registers, Written
<1>5. program = "2_1" => Local'
  BY <1>1, <1>2 DEF SInv, Local
<1>6. QED
  BY <1>1, <1>3, <1>4, <1>5 DEF SInv

LEMMA LoadKeeps ==
  ASSUME IInv, SInv, NEW t \in Thread, Work(t), Load(t)
  PROVE  SInv'
<1>1. /\ UNCHANGED <<program, z, done, out, tpc, mpc>>
      /\ program # "2_1" /\ done[t] < Additions(t) /\ ~loaded[t] /\ tpc[t] = "work"
      /\ loaded' = [loaded EXCEPT ![t] = TRUE] /\ reg' = [reg EXCEPT ![t] = z[Target(t)]]
      /\ met' = IF \E u \in Active \ {t} : loaded[u] /\ Target(u) = Target(t)
                THEN met \cup {Target(t)} ELSE met
  BY DEF Work, Load
<1>2. /\ \A e : AddedTo(e)' = AddedTo(e)
      /\ \A u : Target(u)' = Target(u) /\ Multiplied(u)' = Multiplied(u)
      /\ Active' = Active
      /\ \A e : Printed(e)' = Printed(e)
  BY <1>1, AddedSame DEF Printed
<1>3. done \in [Thread -> Nat] /\ loaded \in [Thread -> BOOLEAN] /\ Target(t) \in Element
  BY <1>1, TargetIs DEF IInv, Working
<1>4. met \subseteq met'
  BY <1>1
<1>5. Numbers' /\ Idle' /\ Finished'
  BY <1>1, <1>2, <1>3 DEF SInv, Numbers, Idle, Finished
<1>6. Elements'
  BY <1>1, <1>2, <1>4 DEF SInv, Elements
<1>7. Written'
  BY <1>1, <1>2 DEF SInv, Written
<1>8. Registers'
  <2>1. \A u \in Thread : loaded[u] => u \in Active
    BY DEF IInv, Working, Created
  <2>2. ASSUME NEW u \in Thread, loaded'[u]
        PROVE  reg'[u] <= AddedTo(Target(u)) /\ (Target(u) \notin met' => reg'[u] = z[Target(u)])
    <3>1. CASE u = t
      <4>1. reg'[u] = z[Target(t)]
        BY <1>1, <3>1 DEF SInv, Numbers
      <4>2. QED
        BY <1>1, <1>3, <3>1, <4>1 DEF SInv, Elements
    <3>2. CASE u # t
      <4>1. loaded[u] /\ reg'[u] = reg[u]
        BY <1>1, <1>3, <2>2, <3>2 DEF SInv, Numbers
      <4>2. QED
        BY <1>1, <1>4, <4>1 DEF SInv, Registers
    <3>3. QED
      BY <3>1, <3>2
  <2>3. ASSUME NEW u \in Thread, NEW v \in Thread, u # v, loaded'[u], loaded'[v], Target(u) = Target(v)
        PROVE  Target(u) \in met'
    <3>1. \A w \in Thread : loaded'[w] => w = t \/ loaded[w]
      BY <1>1, <1>3
    <3>2. CASE u # t /\ v # t
      <4>1. loaded[u] /\ loaded[v]
        BY <2>3, <3>1, <3>2
      <4>2. QED
        BY <1>1, <1>4, <2>3, <4>1 DEF SInv, Registers
    <3>3. CASE u = t
      BY <1>1, <2>1, <2>3, <3>1, <3>3
    <3>4. CASE v = t
      BY <1>1, <2>1, <2>3, <3>1, <3>4
    <3>5. QED
      BY <3>2, <3>3, <3>4
  <2>4. QED
    BY <1>1, <1>2, <2>2, <2>3 DEF Registers
<1>9. QED
  BY <1>1, <1>5, <1>6, <1>7, <1>8 DEF SInv

LEMMA StoreKeeps ==
  ASSUME IInv, SInv, NEW t \in Thread, Work(t), Store(t)
  PROVE  SInv'
<1> DEFINE e0 == Target(t)
           k == Term(Target(t), Index(t))
<1>1. /\ UNCHANGED <<program, reg, out, met, tpc, mpc>>
      /\ loaded[t] /\ tpc[t] = "work"
      /\ z' = [z EXCEPT ![e0] = reg[t] + k]
      /\ loaded' = [loaded EXCEPT ![t] = FALSE]
      /\ done' = [done EXCEPT ![t] = @ + 1]
  BY DEF Work, Store
<1>2. /\ program # "2_1" /\ done[t] < Additions(t)
      /\ done \in [Thread -> Nat] /\ loaded \in [Thread -> BOOLEAN]
  BY <1>1 DEF IInv, Working
<1>3. e0 \in Element /\ Index(t) \in 0 .. Inner - 1 /\ k \in Nat
  BY <1>2, TargetIs, TermIs
<1>4. ASSUME NEW e \in Element
      PROVE  AddedTo(e)' = IF e = e0 THEN AddedTo(e) + k ELSE AddedTo(e)
  <2>1. /\ Added(t, e)' = IF e = e0 THEN Added(t, e) + k ELSE Added(t, e)
        /\ \A u \in Thread \ {t} : Added(u, e)' = Added(u, e)
    BY <1>1, <1>2, AddedNext
  <2>2. Added(1, e) \in Int /\ Added(2, e) \in Int
    BY <1>2, ProgressIs DEF Thread
  <2> HIDE DEF k, e0
  <2>3. CASE t = 1
    <3>1. Added(2, e)' = Added(2, e)
      BY <2>1, <2>3 DEF Thread
    <3>2. AddedTo(e)' = Added(1, e)' + Added(2, e)'
      BY DEF AddedTo
    <3>3. QED
      BY <1>3, <2>1, <2>2, <2>3, <3>1, <3>2 DEF AddedTo
  <2>4. CASE t = 2
    <3>1. Added(1, e)' = Added(1, e)
      BY <2>1, <2>4 DEF Thread
    <3>2. AddedTo(e)' = Added(1, e)' + Added(2, e)'
      BY DEF AddedTo
    <3>3. QED
      BY <1>3, <2>1, <2>2, <2>4, <3>1, <3>2 DEF AddedTo
  <2>5. QED
    BY <2>3, <2>4 DEF Thread
<1>5. \A e \in Element : AddedTo(e) \in Int
  BY <1>2, AddedToIs
<1>6. z \in [Element -> Nat] /\ reg \in [Thread -> Nat]
  BY DEF SInv, Numbers
<1>7. z'[e0] = reg[t] + k /\ \A e \in Element : e # e0 => z'[e] = z[e]
  BY <1>1, <1>3, <1>6
<1>8. reg[t] <= AddedTo(e0) /\ (e0 \notin met => reg[t] = z[e0] /\ z[e0] = AddedTo(e0))
  BY <1>1, <1>2, <1>3 DEF SInv, Registers, Elements
<1>9. \A u \in Thread : u # t => Target(u)' = Target(u)
  <2>1. \A u \in Thread : Rows(u)' = Rows(u) /\ Inners(u)' = Inners(u)
    BY <1>1 DEF Rows, Inners, Half, Whole
  <2>2. \A u \in Thread : u # t => done'[u] = done[u]
    BY <1>1, <1>2
  <2>3. QED
    BY <2>1, <2>2 DEF Target
<1>10. Multiplied(t) <=> FALSE
  BY <1>2, AddedNotAll
<1>11. t \in Active /\ mpc # "done"
  <2>1. t \in Active
    BY <1>1 DEF IInv, Created
  <2>2. QED
    BY <1>10, <2>1 DEF SInv, Finished
<1> HIDE DEF k
<1>12. Numbers' /\ Idle' /\ Finished'
  <2>1. reg[t] + k \in Nat
    BY <1>3, <1>6
  <2>2. Numbers'
    BY <1>1, <1>3, <2>1 DEF SInv, Numbers
  <2>3. Idle'
    BY <1>1, <1>2 DEF SInv, Idle
  <2>4. QED
    BY <1>1, <1>11, <2>2, <2>3 DEF SInv, Finished
<1> HIDE DEF e0
<1>13. Elements'
  <2>1. ASSUME NEW e \in Element
        PROVE  z'[e] <= AddedTo(e)' /\ (e \notin met => z'[e] = AddedTo(e)')
    <3>1. CASE e = e0
      <4>1. AddedTo(e)' = AddedTo(e0) + k /\ z'[e] = reg[t] + k
        BY <1>4, <1>7, <3>1
      <4>2. AddedTo(e0) \in Int /\ reg[t] \in Nat
        BY <1>3, <1>5, <1>6
      <4>3. reg[t] + k <= AddedTo(e0) + k
        BY <1>3, <1>8, <4>2
      <4>4. QED
        BY <1>8, <3>1, <4>1, <4>3
    <3>2. CASE e # e0
      <4>1. AddedTo(e)' = AddedTo(e) /\ z'[e] = z[e]
        BY <1>4, <1>7, <3>2
      <4>2. QED
        BY <1>2, <4>1 DEF SInv, Elements
    <3>3. QED
      BY <3>1, <3>2
  <2>2. QED
    BY <1>1, <2>1 DEF Elements
<1>14. Registers'
  <2>1. ASSUME NEW u \in Thread, loaded'[u]
        PROVE  /\ u # t /\ loaded[u] /\ Target(u)' = Target(u)
               /\ reg[u] <= AddedTo(Target(u))'
               /\ Target(u) \notin met => reg[u] = z'[Target(u)]
    <3>1. u # t /\ loaded[u]
      BY <1>1, <1>2, <2>1
    <3>2. Target(u) \in Element
      BY <1>2, <3>1, TargetIs DEF IInv, Working
    <3>3. reg[u] <= AddedTo(Target(u)) /\ (Target(u) \notin met => reg[u] = z[Target(u)])
      BY <1>2, <3>1 DEF SInv, Registers
    <3>4. Target(u) = e0 => Target(u) \in met
      BY <1>1, <1>2, <3>1 DEF SInv, Registers, e0
    <3>5. Target(u)' = Target(u)
      BY <1>9, <3>1
    <3>6. PICK f \in Element : f = Target(u)
      BY <3>2
    <3>7. AddedTo(f)' = IF f = e0 THEN AddedTo(f) + k ELSE AddedTo(f)
      BY <1>4
    <3>8. AddedTo(f) \in Int /\ reg[u] \in Nat
      BY <1>5, <1>6
    <3>9. reg[u] <= AddedTo(f)'
      BY <1>3, <3>3, <3>6, <3>7, <3>8
    <3>10. AddedTo(Target(u))' = AddedTo(f)'
      BY <3>5, <3>6
    <3>11. QED
      BY <1>7, <3>1, <3>2, <3>3, <3>4, <3>5, <3>9, <3>10
  <2>2. ASSUME NEW u \in Thread, NEW v \in Thread, u # v, loaded'[u], loaded'[v]
        PROVE  FALSE
    BY <2>1, <2>2 DEF Thread
  <2>3. QED
    BY <1>1, <2>1, <2>2 DEF Registers
<1>15. Written'
  BY <1>1, <1>2, <1>11 DEF SInv, Written
<1>16. QED
  BY <1>1, <1>2, <1>12, <1>13, <1>14, <1>15 DEF SInv

LEMMA AddLocalKeeps ==
  ASSUME IInv, SInv, NEW t \in Thread, Work(t), AddLocal(t)
  PROVE  SInv'
<1> DEFINE e0 == Target(1)
           k == Term(Target(1), Index(1))
           q == done[1] \div Inner
           r == done[1] % Inner
           sum == (IF Index(1) = 0 THEN 0 ELSE reg[1]) + k
<1>1. t = 1 /\ program = "2_1"
  BY DEF Work, AddLocal, IInv, Working, Created, Active, Thread
<1>2. /\ UNCHANGED <<program, z, loaded, met, tpc, mpc>>
      /\ done[1] < Additions(1) /\ tpc[1] = "work"
      /\ reg' = [reg EXCEPT ![1] = sum]
      /\ out' = IF Index(1) = Inner - 1 THEN Append(out, sum) ELSE out
      /\ done' = [done EXCEPT ![1] = @ + 1]
  BY <1>1 DEF Work, AddLocal
<1>3. done \in [Thread -> Nat] /\ 1 \in Thread /\ Inner \in Nat \ {0} /\ Col \in Nat \ {0}
  BY SizesAssumption DEF IInv, Working, Thread
<1>4. Rows(1) = Whole(Row) /\ Inners(1) = Whole(Inner) /\ Active = {1}
  BY <1>1 DEF Rows, Inners, Active
<1>5. Rows(1).first = 0 /\ Rows(1).size = Row /\ Inners(1).first = 0 /\ Inners(1).size = Inner
  BY <1>4 DEF Whole
<1>6. /\ e0 \in Element /\ r \in Nat /\ r < Inner
      /\ Index(1) = 0 + r /\ Index(1) \in 0 .. Inner - 1
      /\ \A e \in Element : Mine(1, e) => (Place(1, e) = q <=> e = e0)
  BY <1>2, <1>3, <1>5, TargetIs
<1>7. ASSUME NEW e \in Element
      PROVE  /\ (e[1] * Col) + e[2] \in Nat
             /\ (e[1] * Col) + e[2] = q <=> e = e0
  <2>1. e[1] \in Nat /\ e[1] < Row /\ e[2] \in Nat /\ Row \in Nat
    BY ElementIs, SizesAssumption
  <2>2. Mine(1, e)
    BY <1>5, <2>1 DEF Mine
  <2>3. e[1] - 0 = e[1]
    BY <2>1
  <2>4. Place(1, e) = (e[1] * Col) + e[2]
    BY <1>5, <2>3 DEF Place
  <2>5. Place(1, e) \in Nat
    BY <1>3, <2>2, PlaceIs
  <2>6. QED
    BY <1>3, <1>6, <2>2, <2>4, <2>5
<1>8. Index(1) = r
  BY <1>6
<1>9. k \in Nat /\ SumTo(e0, r) \in Nat /\ SumTo(e0, r + 1) = SumTo(e0, r) + k
  <2>1. r \in 0 .. Inner - 1 /\ r \in 0 .. Inner
    BY <1>3, <1>6
  <2>2. k = Term(e0, r)
    BY <1>8
  <2> HIDE DEF r, k, e0
  <2>3. Term(e0, r) \in Nat
    BY <1>6, <2>1, TermIs
  <2>4. SumTo(e0, r) \in Nat
    BY <1>6, <2>1, SumSteps
  <2>5. SumTo(e0, r + 1) = SumTo(e0, r) + Term(e0, r)
    BY <1>6, <2>1, SumSteps
  <2>6. QED
    BY <2>2, <2>3, <2>4, <2>5
<1>10. Local /\ Numbers
  BY <1>1 DEF SInv
<1>11. sum = SumTo(e0, r + 1) /\ sum \in Nat
  <2>1. SumTo(e0, 0) = 0
    BY <1>6, SumSteps
  <2>2. (IF Index(1) = 0 THEN 0 ELSE reg[1]) = SumTo(e0, r)
    BY <1>8, <1>10, <2>1 DEF Local
  <2> HIDE DEF k, r, e0
  <2>3. QED
    BY <1>9, <2>2
<1>12. /\ r = Inner - 1 => (done[1] + 1) % Inner = 0 /\ (done[1] + 1) \div Inner = q + 1
       /\ r # Inner - 1 => (done[1] + 1) % Inner = r + 1 /\ (done[1] + 1) \div Inner = q
  BY <1>3, NextDiv
<1>13. q \in Nat /\ done'[1] = done[1] + 1
  <2>1. done[1] \in Nat
    BY <1>3
  <2>2. q \in Nat
    BY <1>3, <2>1, DivIs
  <2>3. QED
    BY <1>2, <1>3, <2>2
<1>14. Target(1)' = <<0 + ((done'[1] \div Inner) \div Col), (done'[1] \div Inner) % Col>>
  <2>1. (Rows(1) = Whole(Row))' /\ (Inners(1) = Whole(Inner))'
    BY <1>1, <1>2 DEF Rows, Inners
  <2>2. QED
    BY <2>1 DEF Target, Whole
<1>15. e0 = <<0 + (q \div Col), q % Col>>
  BY <1>4 DEF Target, Whole
<1>16. reg'[1] = sum
  BY <1>2, <1>3, <1>10 DEF Numbers
<1>17. Len(out) = q
  BY <1>10 DEF Local
<1>18. \A e \in Element : e # e0 /\ (e[1] * Col) + e[2] < Len(out) => Printed(e) = Product(e)
  BY <1>10 DEF Local
<1> DEFINE at(e) == (e[1] * Col) + e[2]
<1>19. \A e : Printed(e) = out[at(e) + 1] /\ Printed(e)' = out'[at(e) + 1]
  BY DEF Printed
<1>20. SumTo(e0, (Inner - 1) + 1) = Product(e0)
  <2>1. (Inner - 1) + 1 = Inner
    BY <1>3
  <2>2. QED
    BY <1>6, <2>1, ProductIs
<1>21. \A e : Product(e)' = Product(e)
  BY DEF Product, Term, MapThenSumSet, MapThenFoldSet
<1>22. \A e, n : SumTo(e, n)' = SumTo(e, n)
  BY DEF SumTo, SumsOver, Term, All, Pick
<1>23. Index(1) = Inner - 1 <=> r = Inner - 1
  BY <1>8
<1>24. Numbers' /\ Idle' /\ Finished'
  <2>1. ~Multiplied(1)
    BY <1>2, <1>3, AddedNotAll
  <2>2. mpc # "done"
    BY <1>4, <2>1 DEF SInv, Finished
  <2>3. Idle'
    BY <1>2, <1>3 DEF SInv, Idle
  <2> HIDE DEF sum
  <2>4. Numbers'
    BY <1>2, <1>3, <1>10, <1>11 DEF Numbers
  <2>5. QED
    BY <1>2, <2>2, <2>3, <2>4 DEF SInv, Finished
<1> HIDE DEF e0, k, q, r, sum, at
<1>25. Local'
  <2>1. CASE r = Inner - 1
    <3>1. out' = Append(out, sum) /\ out \in Seq(Nat)
      BY <1>2, <1>10, <1>23, <2>1 DEF Numbers
    <3>2. Len(out') = q + 1 /\ out'[q + 1] = sum /\ \A i \in 1 .. q : out'[i] = out[i]
      BY <1>11, <1>17, <3>1
    <3>3. done'[1] % Inner = 0 /\ done'[1] \div Inner = q + 1
      BY <1>12, <1>13, <2>1
    <3>4. ASSUME NEW e \in Element, at(e) < q + 1 PROVE Printed(e)' = Product(e)
      <4>1. at(e) \in Nat /\ (at(e) = q <=> e = e0)
        BY <1>7 DEF at
      <4>2. CASE e = e0
        <5>1. Printed(e)' = sum
          BY <1>19, <3>2, <4>1, <4>2
        <5>2. sum = Product(e0)
          BY <1>11, <1>20, <2>1
        <5>3. QED
          BY <4>2, <5>1, <5>2
      <4>3. CASE e # e0
        <5>1. at(e) < q /\ at(e) + 1 \in 1 .. q
          BY <1>13, <3>4, <4>1, <4>3
        <5>2. Printed(e) = Product(e)
          BY <1>17, <1>18, <4>3, <5>1 DEF at
        <5>3. QED
          BY <1>19, <3>2, <5>1, <5>2
      <4>4. QED
        BY <4>2, <4>3
    <3>5. QED
      BY <1>21, <3>2, <3>3, <3>4 DEF Local, at
  <2>2. CASE r # Inner - 1
    <3>1. out' = out
      BY <1>2, <1>23, <2>2
    <3>2. done'[1] % Inner = r + 1 /\ done'[1] \div Inner = q
      BY <1>12, <1>13, <2>2
    <3>3. Target(1)' = e0
      BY <1>14, <1>15, <3>2
    <3>4. reg'[1] = SumTo(Target(1), done[1] % Inner)'
      BY <1>11, <1>16, <1>22, <3>2, <3>3
    <3>5. \A e \in Element : Printed(e)' = Printed(e)
      BY <1>19, <3>1
    <3>6. QED
      BY <1>10, <1>17, <1>21, <3>1, <3>2, <3>4, <3>5 DEF Local
  <2>3. QED
    BY <2>1, <2>2
<1>26. QED
  BY <1>1, <1>2, <1>24, <1>25 DEF SInv

LEMMA PrintKeeps ==
  ASSUME IInv, SInv, PrintResult
  PROVE  SInv'
<1>1. /\ UNCHANGED <<program, z, done, loaded, reg, met, tpc>>
      /\ mpc = "print" /\ mpc' = "done"
      /\ out' = out \o [n \in 1 .. Row * Col |-> z[<<(n - 1) \div Col, (n - 1) % Col>>]]
  BY DEF PrintResult, PrintMatrix, GoMain
<1>2. program # "2_1" /\ out = <<>>
  BY <1>1 DEF SInv, Finished, Written
<1> DEFINE w == [n \in 1 .. Row * Col |-> z[<<(n - 1) \div Col, (n - 1) % Col>>]]
<1>3. Row \in Nat /\ Col \in Nat \ {0} /\ Row * Col \in Nat /\ z \in [Element -> Nat]
  BY SizesAssumption DEF SInv, Numbers
<1>4. ASSUME NEW n \in 1 .. Row * Col PROVE <<(n - 1) \div Col, (n - 1) % Col>> \in Element
  <2>1. n - 1 \in Nat /\ n - 1 < Row * Col
    BY <1>3
  <2>2. (n - 1) \div Col \in Nat /\ (n - 1) \div Col < Row
    BY <1>3, <2>1, DivBound
  <2>3. (n - 1) % Col \in Nat /\ (n - 1) % Col < Col
    BY <1>3, <2>1, DivIs
  <2>4. (n - 1) \div Col \in 0 .. Row - 1 /\ (n - 1) % Col \in 0 .. Col - 1
    BY <1>3, <2>2, <2>3
  <2>5. QED
    BY <2>4 DEF Element
<1>5. w \in Seq(Nat) /\ Len(w) = Row * Col
  <2>1. w \in [1 .. Row * Col -> Nat]
    BY <1>3, <1>4
  <2>2. QED
    BY <1>3, <2>1
<1>6. out' = w
  BY <1>1, <1>2, <1>5
<1>7. ASSUME NEW e \in Element PROVE Printed(e)' = z[e]
  <2>1. PICK i \in Nat, j \in Nat : e[1] = i /\ e[2] = j /\ i < Row /\ j < Col /\ e = <<i, j>>
    BY ElementIs
  <2>2. i * Col \in Nat /\ (i + 1) * Col <= Row * Col /\ (i + 1) * Col = (i * Col) + Col
    BY <1>3, <2>1
  <2>3. PICK m \in Nat : m = (i * Col) + j /\ m < Row * Col
    BY <1>3, <2>1, <2>2
  <2>4. m \div Col = i /\ m % Col = j
    <3>1. ((i * Col) + j) \div Col = i /\ ((i * Col) + j) % Col = j
      BY <1>3, <2>1, DivUnique
    <3>2. QED
      BY <2>3, <3>1
  <2>5. m + 1 \in 1 .. Row * Col /\ (m + 1) - 1 = m
    BY <1>3, <2>3
  <2>6. w[m + 1] = z[<<i, j>>]
    BY <2>4, <2>5
  <2>7. Printed(e)' = out'[m + 1]
    BY <2>1, <2>3 DEF Printed
  <2> HIDE DEF w
  <2>8. QED
    BY <1>6, <2>1, <2>6, <2>7
<1> HIDE DEF w
<1>8. Written'
  BY <1>1, <1>5, <1>6, <1>7 DEF Written
<1>9. /\ \A e : AddedTo(e)' = AddedTo(e)
      /\ \A u : Target(u)' = Target(u) /\ Multiplied(u)' = Multiplied(u)
      /\ Active' = Active
  BY <1>1, AddedSame
<1>10. Elements' /\ Registers' /\ Numbers' /\ Idle'
  BY <1>1, <1>2, <1>5, <1>6, <1>9 DEF SInv, Elements, Registers, Numbers, Idle
<1>11. Finished'
  <2>1. \A u \in Active : Multiplied(u)
    BY <1>1 DEF IInv, Working, Created, Joinable, Active, Thread
  <2>2. QED
    BY <1>1, <1>2, <1>9, <2>1 DEF Finished
<1>12. QED
  BY <1>1, <1>2, <1>8, <1>10, <1>11 DEF SInv

LEMMA StepSInv == IInv /\ SInv /\ [Next]_vars => SInv'
<1> SUFFICES ASSUME IInv, SInv, [Next]_vars PROVE SInv'
  OBVIOUS
<1>1. ASSUME UNCHANGED <<matrixVars, tpc>>, mpc # "done", mpc' # "done",
             program = "2_1" => mpc' \notin {"join2", "print"}
      PROVE  SInv'
  BY <1>1, SumsStay
<1>2. ASSUME NEW t \in Thread, ThreadStep(t) PROVE SInv'
  <2>1. CASE Work(t)
    BY <2>1, LoadKeeps, StoreKeeps, AddLocalKeeps DEF Work, Multiply
  <2>2. ASSUME NEW from, NEW to, to # "none", Go(t, from, to), UNCHANGED <<matrixVars, mpc>>
        PROVE  SInv'
    <3>1. \A u \in Thread : tpc'[u] = "none" => tpc[u] = "none"
      BY <2>2 DEF Go, IInv, Working
    <3>2. program = "2_1" => mpc' \notin {"join2", "print"}
      BY <2>2 DEF SInv, Finished
    <3>3. QED
      BY <2>2, <3>1, <3>2, SumsStay
  <2>3. CASE WorkDone(t)
    BY <2>2, <2>3 DEF WorkDone
  <2>4. CASE Write(t)
    BY <2>2, <2>4 DEF Write, Call
  <2>5. CASE Read(t)
    BY <2>2, <2>5 DEF Read, Call
  <2>6. CASE EndOfFile(t)
    BY <2>2, <2>6 DEF EndOfFile
  <2>7. CASE OpenFails(t)
    BY <2>2, <2>7 DEF OpenFails
  <2>8. QED
    BY <1>2, <2>1, <2>3, <2>4, <2>5, <2>6, <2>7 DEF ThreadStep
<1>3. ASSUME NEW t \in Thread, Create(t) PROVE SInv'
  <2>1. /\ UNCHANGED matrixVars /\ mpc \in {"create1", "create2"}
        /\ mpc' \in {"create2", "list", "join1"}
        /\ tpc' = [tpc EXCEPT ![t] = "work"]
    BY <1>3 DEF Create, GoMain
  <2>2. \A u \in Thread : tpc'[u] = "none" => tpc[u] = "none"
    BY <2>1 DEF IInv, Working
  <2>3. QED
    BY <2>1, <2>2, SumsStay
<1>4. ASSUME NEW t \in Thread, Join(t) PROVE SInv'
  <2>1. UNCHANGED <<matrixVars, tpc>> /\ mpc \in {"join1", "join2"}
    BY <1>4 DEF Join, GoMain
  <2>2. CASE program = "2_1"
    <3>1. t = 1 /\ 1 \in Active /\ Active = {1} /\ Joinable(1) /\ mpc' = "done"
      BY <1>4, <2>2 DEF Join, GoMain, Active
    <3>2. Multiplied(1)
      BY <3>1 DEF IInv, Working, Joinable, Thread
    <3>3. QED
      BY <2>1, <2>2, <3>1, <3>2, SumsStay
  <2>3. CASE program # "2_1"
    <3>1. mpc' \in {"join2", "print", "crashed"}
      BY <1>4, <2>3 DEF Join, GoMain
    <3>2. QED
      BY <1>1, <2>1, <2>3, <3>1
  <2>4. QED
    BY <2>2, <2>3
<1>5. CASE BeginList
  BY <1>1, <1>5 DEF BeginList, GoMain
<1>6. CASE Walk
  BY <1>1, <1>6 DEF Walk, GoMain
<1>7. CASE EndList
  BY <1>1, <1>7 DEF EndList, GoMain, AfterList
<1>8. CASE UNCHANGED vars
  <2>1. UNCHANGED <<matrixVars, tpc, mpc>>
    BY <1>8 DEF vars
  <2>2. program = "2_1" => mpc' \notin {"join2", "print"}
    BY <2>1 DEF SInv, Finished
  <2>3. QED
    BY <2>1, <2>2, SumsStay
<1>9. QED
  BY <1>2, <1>3, <1>4, <1>5, <1>6, <1>7, <1>8, PrintKeeps DEF Next, MainStep, Terminated

\* What is in the file when main is done.
LEMMA SumsInTheFile ==
  ASSUME IInv, SInv
  PROVE  OnlyMeetingLoses
<1>1. met # {} => program = "2_2"
  BY DEF IInv, RowsApart
<1>2. ASSUME mpc = "done", program # "2_1"
      PROVE  /\ Len(out) = Row * Col
             /\ \A e \in Element : IF e \in met THEN Printed(e) <= Product(e) ELSE Printed(e) = Product(e)
  <2>1. /\ done \in [Thread -> Nat] /\ program \in Program
        /\ \A t \in Active : Multiplied(t)
        /\ \A t \in Thread \ Active : done[t] = 0
    BY <1>2 DEF IInv, Working, Created, SInv, Finished, Idle
  <2>2. \A e \in Element : AddedTo(e) = Product(e)
    BY <1>2, <2>1, AddedAll DEF AddedTo
  <2>3. QED
    BY <1>2, <2>2 DEF SInv, Elements, Written
<1>3. ASSUME mpc = "done", program = "2_1"
      PROVE  Len(out) = Row * Col /\ \A e \in Element : Printed(e) = Product(e)
  <2>1. Multiplied(1) /\ Rows(1) = Whole(Row) /\ Inners(1) = Whole(Inner)
    BY <1>3 DEF SInv, Finished, Active, Rows, Inners
  <2>2. Row \in Nat /\ Col \in Nat \ {0} /\ Inner \in Nat \ {0} /\ Row * Col \in Nat
    BY SizesAssumption
  <2>3. done[1] = (Row * Col) * Inner
    BY <2>1 DEF Multiplied, Additions, Whole
  <2>4. done[1] \div Inner = Row * Col
    <3>1. PICK n \in Nat : n = Row * Col
      BY <2>2
    <3>2. ((n * Inner) + 0) \div Inner = n
      BY <2>2, DivUnique
    <3>3. (n * Inner) + 0 = n * Inner
      BY <2>2
    <3>4. QED
      BY <2>3, <3>1, <3>2, <3>3
  <2>5. Len(out) = Row * Col
    BY <1>3, <2>4 DEF SInv, Local
  <2>6. ASSUME NEW e \in Element PROVE (e[1] * Col) + e[2] < Row * Col
    <3>1. PICK i \in Nat, j \in Nat : e[1] = i /\ e[2] = j /\ i < Row /\ j < Col
      BY ElementIs
    <3>2. i * Col \in Nat /\ (i + 1) * Col <= Row * Col /\ (i + 1) * Col = (i * Col) + Col
      BY <2>2, <3>1
    <3>3. (i * Col) + j < Row * Col
      BY <2>2, <3>1, <3>2
    <3>4. QED
      BY <3>1, <3>3
  <2>7. QED
    BY <1>3, <2>5, <2>6 DEF SInv, Local
<1>4. QED
  BY <1>1, <1>2, <1>3 DEF OnlyMeetingLoses

\* For matrices of every size and whatever the interleaving of the loads and the
\* stores: the file has the product when main is done, but for the elements of 2_2 at
\* which both threads were at one time, and those are never too large (2_2.c:53).
THEOREM SumsOffWhereMet == Spec => []OnlyMeetingLoses
<1>1. Init => SInv
  BY InitSInv
<1>2. Spec => []SInv
  BY <1>1, StepSInv, InvariantHolds, PTL DEF Spec
<1>3. IInv /\ SInv => OnlyMeetingLoses
  BY SumsInTheFile
<1>4. QED
  BY <1>2, <1>3, InvariantHolds, PTL

\* For matrices of every size: every program but 2_2 writes the exact product.
THEOREM SumsAlwaysExact == Spec => []SumsExact
<1>1. RowsApart /\ OnlyMeetingLoses => SumsExact
  BY DEF RowsApart, OnlyMeetingLoses, SumsExact, ProductExact
<1>2. QED
  BY <1>1, ThreadsKeepApart, SumsOffWhereMet, PTL

=============================================================================
