----------------------------- MODULE Descriptors -----------------------------
(***************************************************************************)
(* Descriptor tables as the kernel keeps them, one for each process: what  *)
(* dup, dup2, close, pipe and open do to a table.  A table maps every      *)
(* descriptor to what it is open on, or to Closed.                         *)
(***************************************************************************)
EXTENDS Integers, Sequences

\* Enough for 0, 1, 2, the read end of one pipe and both ends of the next.
Fd == 0..5

Closed == <<>>
Tty == <<"tty">>
ReadEnd(k) == <<"r", k>>
WriteEnd(k) == <<"w", k>>
FileAt(f, n) == <<"f", f, n>>

TtyTable == [fd \in Fd |-> IF fd <= 2 THEN Tty ELSE Closed]
NoTable == [fd \in Fd |-> Closed]

\* open, pipe and dup hand out the lowest descriptor that is closed.
LowestFree(t) ==
  CHOOSE fd \in Fd : t[fd] = Closed /\ \A e \in 0..fd - 1 : t[e] # Closed

Open(t, d) == [t EXCEPT ![LowestFree(t)] = d]
Close(t, fd) == [t EXCEPT ![fd] = Closed]
Dup2(t, from, to) == [t EXCEPT ![to] = t[from]]

IsPipeEnd(d) == d # Closed /\ d[1] \in {"r", "w"}
IsFile(d) == d # Closed /\ d[1] = "f"
=============================================================================
