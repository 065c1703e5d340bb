----------------------------- MODULE FileStore -----------------------------
(***************************************************************************)
(* What lab4 promises to programs: a flat directory in which every file is *)
(* an array of bytes (of one block in basic, of the whole disk in bonus),  *)
(* no file's bytes depend on what is done to another, and each call        *)
(* returns what the array held.                                            *)
(***************************************************************************)
EXTENDS Integers, Sequences

CONSTANTS
  Name,               \* file names
  Byte,               \* byte values, 0 among them
  BlockSize,          \* bytes in a file at most
  Positions,          \* the file positions of calls
  Lengths,            \* how many bytes programs ask a call to transfer
  EmptyWriteExtends   \* whether a write of no bytes raises the size

\* How many bytes a call may transfer: all it was asked to, or fewer.
Transfers == {n \in 0 .. BlockSize : \E l \in Lengths : n <= l}

VARIABLES
  file,               \* file[f]: Absent, or the size and the bytes of f
  ret                 \* what the last call returned

vars == <<file, ret>>

Offset == 0 .. BlockSize - 1
Absent == [size |-> -1, bytes |-> [o \in Offset |-> 0]]
Empty == [size |-> 0, bytes |-> [o \in Offset |-> 0]]

Returns(err, bytes) == ret' = [err |-> err, bytes |-> bytes]

Init ==
  /\ file = [f \in Name |-> Absent]
  /\ ret = [err |-> "ok", bytes |-> <<>>]

Create(f) ==
  /\ Returns("ok", <<>>)
  /\ file[f] = Absent
  /\ file' = [file EXCEPT ![f] = Empty]

\* A call that fails before it has touched any file.
Fail(err) ==
  /\ Returns(err, <<>>)
  /\ UNCHANGED file

Max2(x, y) == IF x > y THEN x ELSE y

\* bytes, with s laid over them from pos on.
Overlay(bytes, pos, s) ==
  [o \in Offset |-> IF o \in pos .. pos + Len(s) - 1 THEN s[o - pos + 1] ELSE bytes[o]]

\* The bytes s that fit in the block are written.
Write(f, pos, s) ==
  /\ pos + Len(s) <= BlockSize
  /\ file[f] # Absent
  /\ file' = [file EXCEPT ![f] =
                [size |-> Max2(@.size, pos + Len(s)), bytes |-> Overlay(@.bytes, pos, s)]]

Read(f, pos, s) ==
  /\ pos + Len(s) <= file[f].size
  /\ s = [k \in 1 .. Len(s) |-> file[f].bytes[pos + k - 1]]
  /\ UNCHANGED file

\* A call that reports success and the bytes s transferred.
Transfer(s) ==
  /\ Returns("ok", s)
  /\ \E f \in Name, pos \in Positions : Write(f, pos, s) \/ Read(f, pos, s)

\* A write of no bytes raises the size to its position where that is lower.
WriteNone(f) ==
  /\ EmptyWriteExtends
  /\ Returns("ok", <<>>)
  /\ file[f] # Absent
  /\ \E pos \in Positions : file' = [file EXCEPT ![f].size = Max2(@, pos)]

\* A write whose buffer cannot be read may spoil the n bytes it was to
\* replace, and no other; the size stays.
WriteFault(f, pos, n) ==
  /\ pos + n <= BlockSize
  /\ file[f] # Absent
  /\ file' = [file EXCEPT ![f].bytes =
       [o \in Offset |-> IF o \in pos .. pos + n - 1 THEN file'[f].bytes[o] ELSE @[o]]]

\* A read at or after the end returns no byte; truncating a file reports
\* success and changes neither its size nor its bytes.
ReadEndOrTruncate(f) ==
  /\ Returns("ok", <<>>)
  /\ file[f] # Absent
  /\ UNCHANGED file

Next ==
  \/ \E err \in {"ENOSPC", "ENOMEM", "EEXIST", "EFAULT"} : Fail(err)
  \/ \E f \in Name : ReadEndOrTruncate(f) \/ Create(f) \/ WriteNone(f)
  \/ \E n \in Transfers :
       \/ n > 0 /\ \E s \in [1 .. n -> Byte] : Transfer(s)
       \/ /\ Returns("EFAULT", <<>>)
          /\ \E f \in Name, pos \in Positions : WriteFault(f, pos, n)

Spec == Init /\ [][Next]_vars
=============================================================================
