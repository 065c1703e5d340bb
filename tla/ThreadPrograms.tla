--------------------------- MODULE ThreadPrograms ---------------------------
(***************************************************************************)
(* The programs of lab3/2 and lab3/3 from main to main's return: threads   *)
(* that multiply (MatMul) and, in lab3/3, talk to the kernel module        *)
(* (ProcFile).  In 3_1 main asks for the threads while they multiply; in   *)
(* 3_2 each thread sends its greeting and reads the answer when it has     *)
(* finished its half.                                                      *)
(***************************************************************************)
EXTENDS MatMul

\* Lines after which "buf_len + 100 >= BUFSIZE" holds: 924 bytes of lines.
CONSTANT BufferLines

\* A line has far fewer than 231 bytes.
ASSUME BufferAssumption == BufferLines \in Nat /\ BufferLines > 3

Main == 0

VARIABLES
  tpc,      \* where each thread is
  mpc,      \* where main is
  walk,     \* 3_1: the thread for_each_thread comes to next
  buf, buf_len, offset, heard,
  crossed   \* threads another one's call has come between whose write and read

INSTANCE ProcFile WITH Caller <- Thread \cup {Main}, BufLines <- BufferLines

procfs == <<buf, buf_len, offset, heard>>
vars == <<matrixVars, procfs, tpc, mpc, walk, crossed>>

Init ==
  /\ InitMatrix
  /\ InitProc
  /\ tpc = [t \in Thread |-> "none"]
  /\ mpc = "create1"
  /\ walk = 1
  /\ crossed = {}

Go(t, from, to) == tpc[t] = from /\ tpc' = [tpc EXCEPT ![t] = to]
GoMain(from, to) == mpc = from /\ mpc' = to

-----------------------------------------------------------------------------
(* Threads.                                                                *)

Work(t) ==
  /\ tpc[t] = "work"
  /\ Multiply(t)
  /\ UNCHANGED <<procfs, tpc, mpc, walk, crossed>>

\* thread1 and thread2 return, or go on to the proc file.
WorkDone(t) ==
  /\ Multiplied(t)
  /\ Go(t, "work", IF program \in {"3_2", "3_2 one"} THEN "write" ELSE "exited")
  /\ UNCHANGED <<matrixVars, procfs, mpc, walk, crossed>>

\* Between the start of its write and the end of its read a thread is exposed.
Exposed(t) == tpc[t] \in {"text", "length", "append", "copy", "clear"}

\* A step inside the kernel's Mywrite or Myread.
Call(t, from, to, step) ==
  LET others == {u \in Thread \ {t} : Exposed(u)} IN
  /\ Go(t, from, to)
  /\ step
  /\ crossed' = IF others = {} THEN crossed ELSE crossed \cup others \cup {t}
  /\ UNCHANGED <<matrixVars, mpc, walk>>

\* open() of the proc file fails: the thread returns at once.
OpenFails(t) ==
  /\ Go(t, "write", "failed")
  /\ UNCHANGED <<matrixVars, procfs, mpc, walk, crossed>>

\* write(), and the fgets loop: its first read gets the text, its second one ends it.
Write(t) == Call(t, "write", "text", WriteClear(t)) \/ Call(t, "text", "length", WriteText(t))

Read(t) == \/ ~AtEnd(t) /\ Call(t, "length", "append", ReadLength(t))
           \/ Call(t, "append", "copy", ReadAppend(t))
           \/ Call(t, "copy", "clear", ReadCopy(t))
           \/ Call(t, "clear", "length", ReadClear(t))

EndOfFile(t) ==
  /\ AtEnd(t)
  /\ Go(t, "length", "exited")
  /\ UNCHANGED <<matrixVars, procfs, mpc, walk, crossed>>

-----------------------------------------------------------------------------
(* main.                                                                   *)

Create(t) ==
  /\ GoMain(IF t = 1 THEN "create1" ELSE "create2",
            CASE t = 1 /\ 2 \in Active -> "create2"
              [] t = 2 /\ program = "3_1" -> "list"
              [] OTHER -> "join1")
  /\ tpc' = [tpc EXCEPT ![t] = "work"]
  /\ UNCHANGED <<matrixVars, procfs, walk, crossed>>

\* 3_1: fgets on the proc file; for_each_thread meets the threads in the order
\* of their creation, those that have exited no more, and main first, which it
\* passes over.
\* Mutant: it ends at the caller.
WalkNobody(t) == FALSE
Meets(t) == tpc[t] # "exited" /\ buf_len[Main] < BufferLines

BeginList ==
  /\ GoMain("list", IF offset[Main] > 0 THEN "join1" ELSE "walk")
  /\ IF offset[Main] > 0 THEN UNCHANGED procfs ELSE ListStart(Main)
  /\ walk' = 1
  /\ UNCHANGED <<matrixVars, tpc, crossed>>

Walk ==
  /\ walk \in Thread
  /\ GoMain("walk", IF walk = 2 THEN "listed" ELSE "walk")
  /\ IF Meets(walk) THEN ListThread(Main, walk) ELSE UNCHANGED procfs
  /\ walk' = walk + 1
  /\ UNCHANGED <<matrixVars, tpc, crossed>>

\* Mutant: main asks until it gets a line.
AlwaysAgain == "list"
\* A list of no line is the end of the file at once.
AfterList == IF buf_len[Main] = 0 THEN "join1" ELSE "list"

EndList ==
  /\ GoMain("listed", AfterList)
  /\ ReadCopy(Main)
  /\ UNCHANGED <<matrixVars, tpc, walk, crossed>>

\* 3_2 joins t2 also when it has not been created: an error or a crash.
\* Mutant: main does not wait for the second thread.
JoinFirstOnly(t) == t = 1 => tpc[1] = "exited"
Joinable(t) == tpc[t] \in {"exited", "failed"}

Join(t) ==
  /\ t = 1 \/ program # "2_1"
  /\ \/ /\ t \in Active /\ Joinable(t)
        /\ GoMain(IF t = 1 THEN "join1" ELSE "join2",
                  CASE program = "2_1" -> "done"
                    [] program # "2_1" /\ t = 1 -> "join2"
                    [] OTHER -> "print")
     \/ /\ t \notin Active
        /\ GoMain("join2", "print") \/ GoMain("join2", "crashed")
  /\ UNCHANGED <<matrixVars, procfs, tpc, walk, crossed>>

PrintResult ==
  /\ GoMain("print", "done")
  /\ PrintMatrix
  /\ UNCHANGED <<procfs, tpc, walk, crossed>>

Terminated == mpc \in {"done", "crashed"} /\ UNCHANGED vars

-----------------------------------------------------------------------------
ThreadStep(t) == Work(t) \/ WorkDone(t) \/ OpenFails(t) \/ Write(t) \/ Read(t) \/ EndOfFile(t)
MainStep == (\E t \in Thread : Create(t) \/ Join(t)) \/ BeginList \/ Walk \/ EndList \/ PrintResult

Next == (\E t \in Thread : ThreadStep(t)) \/ MainStep \/ Terminated

Spec == Init /\ [][Next]_vars
FairSpec == Spec /\ WF_vars(MainStep) /\ \A t \in Thread : WF_vars(ThreadStep(t))

-----------------------------------------------------------------------------
(* Properties.                                                             *)

\* The file has the product in full when main is done: what the answer files of
\* lab3/2 have, 2_2_ans.txt ten times for ten runs (Makefile:8-14).
ProductExact ==
  mpc = "done" => /\ Len(out) = Row * Col
                  /\ \A e \in Element : Printed(e) = Product(e)

\* It does in every program but 2_2: however its rows are divided and whenever the
\* threads load and store, none misses an addition and main prints none too early
\* (2_1.c:47-62, 3_1.c:52-71, 3_2.c:55-108).
SumsExact == program # "2_2" => ProductExact

\* A thread of 3_2 whose write and read nothing has come between reads its own
\* greeting and its own line after it (3_2/My_Kernel.c:29-73).
HearsItself ==
  \A t \in Thread : program \in {"3_2", "3_2 one"} /\ tpc[t] = "exited" /\ t \notin crossed =>
    heard[t] = <<Hello(t), Info(t)>>

\* main of 3_1 is told of every thread that is still at work, and once
\* (3_1/My_Kernel.c:30-48, 3_1.c:95-99).
ListsWorking ==
  mpc = "join1" /\ program = "3_1" =>
    \A t \in Thread : LET told == {i \in DOMAIN heard[Main] : heard[Main][i] = Info(t)}
                      IN Cardinality(told) <= 1 /\ (tpc[t] # "exited" => told # {})

\* Whatever the calls do to each other, every thread's reading ends, and main ends.
Ends == <>(mpc \in {"done", "crashed"})
=============================================================================
