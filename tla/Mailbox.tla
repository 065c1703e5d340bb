------------------------------ MODULE Mailbox ------------------------------
(***************************************************************************)
(* lab1: the sender and the receiver process once both have opened the     *)
(* mailbox, that is a POSIX message queue (flag 1) or a shared memory      *)
(* segment (flag 2) and the semaphores "/sender" and "/receiver".          *)
(* Each semaphore call and each access to the store is a step of its own;  *)
(* a strcpy to or from the shared memory takes time (a begin and an end),  *)
(* while mq_send and mq_receive are system calls that take effect at once. *)
(***************************************************************************)
EXTENDS Naturals, Sequences

CONSTANTS
  Line,               \* the lines an input file is made of
  Inputs,             \* the input files: sequences of lines
  MaxMsg,             \* the queue's mq_maxmsg (10 in the code)
  Garbage             \* bytes that are no message: a half-written or unwritten buffer

Exit == "exit"

Message == Line \cup {Exit}

ASSUME InputsAssumption == Inputs \subseteq Seq(Line)
ASSUME MaxMsgAssumption == MaxMsg \in Nat \ {0}
ASSUME GarbageAssumption == Garbage \notin Message

VARIABLES
  flag,               \* 1: message queue, 2: shared memory
  input,              \* the file the sender was started with
  sem_send, sem_receive,
  queue,              \* the messages in the message queue
  shm,                \* the contents of the shared memory
  spc,                \* where the sender is
  n,                  \* messages the sender has taken up: lines read, then "exit"
  smsg,               \* the sender's message variable
  rpc,                \* where the receiver is
  rmsg,               \* the receiver's message variable
  got                 \* the messages receive() has returned

svars == <<spc, n, smsg>>
rvars == <<rpc, rmsg, got>>
vars == <<flag, input, sem_send, sem_receive, queue, shm, svars, rvars>>

Init ==
  /\ flag \in {1, 2}
  /\ input \in Inputs
  /\ sem_send = 0 /\ sem_receive = 0
  /\ queue = <<>>
  /\ shm = Garbage
  /\ spc = "loop" /\ n = 0 /\ smsg = Garbage
  /\ rpc = "post" /\ rmsg = Garbage /\ got = <<>>

SGo(from, to) == spc = from /\ spc' = to
RGo(from, to) == rpc = from /\ rpc' = to

SemWait(s) == s > 0 /\ s' = s - 1
SemPost(s) == s' = s + 1

\* What the sender's main loop sends, in order.
Script == Append(input, Exit)
-----------------------------------------------------------------------------
\* main: the next line of the file or, at its end, the exit message.
NextMessage ==
  /\ SGo("loop", "wait")
  /\ n' = n + 1
  /\ smsg' = Script[n + 1]
  /\ UNCHANGED <<flag, input, sem_send, sem_receive, queue, shm, rvars>>

\* Mutant: the sender does not wait until the receiver asks for a message.
SendNoWait ==
  /\ SGo("wait", "put")
  /\ UNCHANGED <<flag, input, sem_receive, sem_send, queue, shm, n, smsg, rvars>>

SendWait ==
  /\ SGo("wait", "put")
  /\ SemWait(sem_receive)
  /\ UNCHANGED <<flag, input, sem_send, queue, shm, n, smsg, rvars>>

\* mq_send blocks while the queue is full.
MqSend ==
  /\ flag = 1
  /\ SGo("put", "post")
  /\ Len(queue) < MaxMsg
  /\ queue' = Append(queue, smsg)
  /\ UNCHANGED <<flag, input, sem_send, sem_receive, shm, n, smsg, rvars>>

\* strcpy into the shared memory: until it is done the segment holds a mix.
ShmCopyIn ==
  /\ flag = 2
  /\ SGo("put", "copy")
  /\ shm' = Garbage
  /\ UNCHANGED <<flag, input, sem_send, sem_receive, queue, n, smsg, rvars>>

\* Mutant: the message is announced without having been copied.
ShmNotCopied ==
  /\ SGo("copy", "post")
  /\ UNCHANGED <<flag, input, sem_send, sem_receive, queue, shm, n, smsg, rvars>>

ShmCopiedIn ==
  /\ SGo("copy", "post")
  /\ shm' = smsg
  /\ UNCHANGED <<flag, input, sem_send, sem_receive, queue, n, smsg, rvars>>

\* Mutant: the exit message is put into the store but not announced.
SendPostLines ==
  /\ SGo("post", IF n <= Len(input) THEN "loop" ELSE "done")
  /\ IF n <= Len(input) THEN SemPost(sem_send) ELSE UNCHANGED sem_send
  /\ UNCHANGED <<flag, input, sem_receive, queue, shm, n, smsg, rvars>>

\* send() returns after the post; main ends once the exit message is sent.
SendPost ==
  /\ SGo("post", IF n <= Len(input) THEN "loop" ELSE "done")
  /\ SemPost(sem_send)
  /\ UNCHANGED <<flag, input, sem_receive, queue, shm, n, smsg, rvars>>

Sender ==
  NextMessage \/ SendWait \/ MqSend \/ ShmCopyIn \/ ShmCopiedIn \/ SendPost
-----------------------------------------------------------------------------
ReceivePost ==
  /\ RGo("post", "wait")
  /\ SemPost(sem_receive)
  /\ UNCHANGED <<flag, input, sem_send, queue, shm, svars, rmsg, got>>

\* Mutant: receive() reads without waiting for the message to be announced.
ReceiveNoWait ==
  /\ RGo("wait", "get")
  /\ UNCHANGED <<flag, input, sem_receive, sem_send, queue, shm, svars, rmsg, got>>

ReceiveWait ==
  /\ RGo("wait", "get")
  /\ SemWait(sem_send)
  /\ UNCHANGED <<flag, input, sem_receive, queue, shm, svars, rmsg, got>>

\* mq_receive blocks while the queue is empty.
MqReceive ==
  /\ flag = 1
  /\ RGo("get", "check")
  /\ queue # <<>>
  /\ rmsg' = Head(queue)
  /\ queue' = Tail(queue)
  /\ got' = Append(got, rmsg')
  /\ UNCHANGED <<flag, input, sem_send, sem_receive, shm, svars>>

\* strcpy out of the shared memory, in two steps as the copy in.
ShmCopyOut ==
  /\ flag = 2
  /\ RGo("get", "copy")
  /\ UNCHANGED <<flag, input, sem_send, sem_receive, queue, shm, svars, rmsg, got>>

ShmCopiedOut ==
  /\ RGo("copy", "check")
  /\ rmsg' = shm
  /\ got' = Append(got, rmsg')
  /\ UNCHANGED <<flag, input, sem_send, sem_receive, queue, shm, svars>>

\* Mutant: main looks at the message for "exit" the wrong way round.
CheckExitNegated ==
  /\ RGo("check", IF rmsg = Exit THEN "post" ELSE "done")
  /\ UNCHANGED <<flag, input, sem_send, sem_receive, queue, shm, svars, rmsg, got>>

\* main: strcmp with "exit" ends the loop.
CheckExit ==
  /\ RGo("check", IF rmsg = Exit THEN "done" ELSE "post")
  /\ UNCHANGED <<flag, input, sem_send, sem_receive, queue, shm, svars, rmsg, got>>

Receiver ==
  \/ ReceivePost \/ ReceiveWait \/ MqReceive \/ ShmCopyOut \/ ShmCopiedOut
  \/ CheckExit

\* Both processes have ended.
Ended == spc = "done" /\ rpc = "done" /\ UNCHANGED vars

Next == Sender \/ Receiver \/ Ended

Spec == Init /\ [][Next]_vars

\* The scheduler runs each process that is not blocked.
FairSpec == Spec /\ WF_vars(Sender) /\ WF_vars(Receiver)
-----------------------------------------------------------------------------
\* Every variable holds a value of its C type or system object; a semaphore
\* never goes negative and the queue never exceeds its limit.
TypeOK ==
  /\ flag \in {1, 2}
  /\ input \in Inputs
  /\ sem_send \in Nat /\ sem_receive \in Nat
  /\ queue \in Seq(Message) /\ Len(queue) <= MaxMsg
  /\ shm \in Message \cup {Garbage}
  /\ spc \in {"loop", "wait", "put", "copy", "post", "done"}
  /\ n \in 0 .. Len(input) + 1
  /\ smsg \in Message \cup {Garbage}
  /\ rpc \in {"post", "wait", "get", "copy", "check", "done"}
  /\ rmsg \in Message \cup {Garbage}
  /\ got \in Seq(Message \cup {Garbage})

Sending == spc \in {"put", "copy", "post"}
Receiving == rpc \in {"get", "copy"}

Indicator(b) == IF b THEN 1 ELSE 0

\* The right to touch the store is one token: the receiver makes it when it
\* asks for a message, it passes through the semaphores and send(), and it is
\* gone when the message has been read.
OneToken ==
  sem_receive + Indicator(Sending) + sem_send + Indicator(Receiving) =
    Indicator(rpc \in {"wait", "get", "copy"})

\* The two processes never touch the store at the same time.
StoreExclusive ==
  ~(spc \in {"put", "copy"} /\ Receiving)

\* mq_send never blocks on a full queue and mq_receive never on an empty one:
\* only the semaphores make a process wait.
QueueNeverBlocks ==
  flag = 1 => /\ spc = "put" => queue = <<>>
              /\ rpc = "get" => Len(queue) = 1

\* Messages the sender has put into the store.
Puts == IF spc \in {"wait", "put", "copy"} THEN n - 1 ELSE n

Slot == INSTANCE OneSlot WITH sent <- SubSeq(Script, 1, Puts)

\* What the receiver gets is what the sender's loop sends, in order, each
\* message once, and the sender is never more than one message ahead.
ImplementsOneSlot == Slot!Spec

\* Both programs end, and the receiver has got the whole file and "exit".
AllDelivered == <>(spc = "done" /\ rpc = "done" /\ got = Script)

\* The sender ends, whatever lines the file has.
SenderTerminates == <>(spc = "done")
=============================================================================
