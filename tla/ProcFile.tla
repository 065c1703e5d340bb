------------------------------ MODULE ProcFile ------------------------------
(***************************************************************************)
(* /proc/Mythread_info: the kernel modules of lab3/3/3_1 and 3_2.  All     *)
(* calls share one buffer and take no lock; what lies between two steps    *)
(* here are the calls that touch it.  A text is a sequence of lines of     *)
(* one length; Nul stands for a line that begins with a zero byte.         *)
(***************************************************************************)
EXTENDS Integers, Sequences, SequencesExt

CONSTANTS
  Caller,    \* threads that call
  BufLines   \* lines the buffer takes before "buf_len + 100 >= BUFSIZE"

VARIABLES
  buf,       \* the kernel's buffer
  buf_len,   \* the local variable of each call
  offset,    \* lines read through each caller's open file
  heard      \* what read has returned to each caller

procVars == <<buf, buf_len, offset, heard>>

Nul == <<"nul">>
Hello(c) == <<"hello", c>>
Info(c) == <<"info", c>>

InitProc ==
  /\ buf = <<>>
  /\ buf_len = [c \in Caller |-> 0]
  /\ offset = [c \in Caller |-> 0]
  /\ heard = [c \in Caller |-> <<>>]

\* The string at the start of the buffer.
strlen(b) ==
  CHOOSE n \in 0..Len(b) : /\ \A i \in 1..n : b[i] # Nul
                           /\ n < Len(b) => b[n + 1] = Nul

\* A line of the buffer, Nul where nothing has been written.
LineAt(b, i) == IF i \in DOMAIN b THEN b[i] ELSE Nul
\* snprintf at a position ends the string after the line it writes.
PrintAt(b, n, l) == Append([i \in 1..n |-> LineAt(b, i)], l)

\* Mywrite: memset, then snprintf.
WriteClear(c) == buf' = <<>> /\ UNCHANGED <<buf_len, offset, heard>>
WriteText(c) == buf' = PrintAt(buf, 0, Hello(c)) /\ UNCHANGED <<buf_len, offset, heard>>

AtEnd(c) == offset[c] > 0 \/ strlen(buf) >= BufLines

\* Myread of 3_2: strlen, snprintf of the caller, copy_to_user, memset.
ReadLength(c) ==
  /\ buf_len' = [buf_len EXCEPT ![c] = strlen(buf)]
  /\ UNCHANGED <<buf, offset, heard>>
\* Mutant: the line goes to the start of the buffer.
ReadOverwrite(c) ==
  /\ buf' = PrintAt(buf, 0, Info(c))
  /\ buf_len' = [buf_len EXCEPT ![c] = @ + 1]
  /\ UNCHANGED <<offset, heard>>
ReadAppend(c) ==
  /\ buf' = PrintAt(buf, buf_len[c], Info(c))
  /\ buf_len' = [buf_len EXCEPT ![c] = @ + 1]
  /\ UNCHANGED <<offset, heard>>
ReadCopy(c) ==
  /\ heard' = [heard EXCEPT ![c] = @ \o [i \in 1..buf_len[c] |-> LineAt(buf, i)]]
  /\ offset' = [offset EXCEPT ![c] = @ + buf_len[c]]
  /\ UNCHANGED <<buf, buf_len>>
ReadClear(c) == buf' = <<>> /\ UNCHANGED <<buf_len, offset, heard>>

\* Myread of 3_1: memset, a line for every thread the walk meets, copy_to_user.
ListStart(c) ==
  /\ buf' = <<>>
  /\ buf_len' = [buf_len EXCEPT ![c] = 0]
  /\ UNCHANGED <<offset, heard>>
ListThread(c, u) ==
  /\ buf' = PrintAt(buf, buf_len[c], Info(u))
  /\ buf_len' = [buf_len EXCEPT ![c] = @ + 1]
  /\ UNCHANGED <<offset, heard>>
=============================================================================
