--------------------------- MODULE MailboxSession ---------------------------
(***************************************************************************)
(* lab1: sender and receiver processes that are started, killed and        *)
(* started again, from main to main's return.  The message queue or the    *)
(* shared memory and the two semaphores are named objects: a name is       *)
(* opened, perhaps created, and unlinked at the end by both sides; an      *)
(* object lives on without its name for the processes that hold it.  What  *)
(* send() and receive() do between two steps here is module Mailbox.       *)
(***************************************************************************)
EXTENDS Naturals, Sequences, SequencesExt

CONSTANTS
  Sender, Receiver,  \* how often each program is started at most: 1..n for each
  Lines,             \* lines of every input file
  MaxMsg,            \* mq_maxmsg: 10, in the code and by default
  MaxKills           \* bound: processes that are killed

ASSUME SessionAssumption == MaxMsg \in Nat \ {0} /\ {Lines, MaxKills} \subseteq Nat

Process == ({"sender"} \X Sender) \cup ({"receiver"} \X Receiver)
Senders == {p \in Process : p[1] = "sender"}
Receivers == {p \in Process : p[1] = "receiver"}

Semaphore == {"/sender", "/receiver"}
Name == Semaphore \cup {"store"}     \* "/msg_queue" or "/shm_memory"

VARIABLES
  flag,      \* 1: message queue, 2: shared memory; the same for all processes
  named,     \* the object each name stands for, 0 where there is none
  count,     \* the semaphores' counts, one for each object there has been
  store,     \* the queues or segments there have been
  pc,
  held,      \* the objects each process has opened
  n,         \* messages each sender has announced
  got,       \* messages receive() has returned to each receiver
  kills,
  sound,     \* senders that have found nothing left in the objects they opened
  crowd      \* which two processes have held the object of which name while both ran

objects == <<named, count, store>>
traffic == <<n, got>>
vars == <<flag, objects, pc, held, traffic, kills, sound, crowd>>

Script(s) == [k \in 1..Lines + 1 |-> <<s, k>>]   \* the last one is "exit"
Zeros == <<<<"zeros", 0>>, 0>>
IsExit(m) == m[2] = Lines + 1

Init ==
  /\ flag \in {1, 2}
  /\ named = [m \in Name |-> 0]
  /\ count = [m \in Semaphore |-> <<>>]
  /\ store = <<>>
  /\ pc = [p \in Process |-> "idle"]
  /\ held = [p \in Process |-> [m \in Name |-> 0]]
  /\ n = [p \in Senders |-> 0]
  /\ got = [p \in Receivers |-> <<>>]
  /\ kills = 0
  /\ sound = Senders
  /\ crowd = {}

Go(p, from, to) == pc[p] = from /\ pc' = [pc EXCEPT ![p] = to]
Gone(p) == pc[p] \in {"idle", "ended", "failed", "killed"}

\* p comes to hold object g of a name.
Hold(p, name, g) ==
  /\ held' = [held EXCEPT ![p][name] = g]
  /\ crowd' = crowd \cup {<<{p, q}, name>> : q \in {q \in Process \ {p} :
                                           ~Gone(q) /\ g # 0 /\ held[q][name] = g}}
-----------------------------------------------------------------------------
(* Opening.                                                                *)

\* Bound on the input: each program is started again when its last run is over,
\* or is at least removing the names.
Leaving(p) == pc[p] \in {"unlink store", "unlink /sender", "unlink /receiver"}
Start(p) ==
  /\ p[2] > 1 => LET before == <<p[1], p[2] - 1>>
                 IN Leaving(before) \/ (Gone(before) /\ pc[before] # "idle")
  /\ Go(p, "idle", "store")
  /\ UNCHANGED <<flag, objects, held, traffic, kills, sound, crowd>>

\* mq_open or shm_open with O_CREAT.  A queue has messages of MAX_MESSAGE_SIZE
\* only if the sender creates it; a segment gets its size from ftruncate.
OpenStore(p) ==
  LET creates == named["store"] = 0
      g == IF creates THEN Len(store) + 1 ELSE named["store"] IN
  /\ Go(p, "store", "/sender")
  /\ store' = IF creates THEN Append(store, [fits |-> flag = 1 /\ p \in Senders, msgs |-> <<>>])
                         ELSE store
  /\ named' = [named EXCEPT !["store"] = g]
  /\ Hold(p, "store", g)
  /\ sound' = IF flag = 1 /\ ~(store'[g].fits /\ store'[g].msgs = <<>>) THEN sound \ {p} ELSE sound
  /\ UNCHANGED <<flag, count, traffic, kills>>

\* Mutant: a semaphore that is created lets one wait pass.
CountOne == 1
Created == 0

AfterOpen(name) == IF name = "/sender" THEN "/receiver" ELSE "opened"

\* The sender's sem_open with O_CREAT takes what exists with the count it has.
CreateSemaphore(s, name) ==
  LET creates == named[name] = 0
      g == IF creates THEN Len(count[name]) + 1 ELSE named[name] IN
  /\ Go(s, name, AfterOpen(name))
  /\ count' = IF creates THEN [count EXCEPT ![name] = Append(@, Created)] ELSE count
  /\ named' = [named EXCEPT ![name] = g]
  /\ Hold(s, name, g)
  /\ sound' = IF ~creates /\ count[name][g] > 0 THEN sound \ {s} ELSE sound
  /\ UNCHANGED <<flag, store, traffic, kills>>

\* The receiver's sem_open without it.
FindSemaphore(r, name) ==
  /\ Go(r, name, AfterOpen(name))
  /\ Hold(r, name, named[name])
  /\ UNCHANGED <<flag, objects, traffic, kills, sound>>

\* ftruncate for the shared memory, then fopen, which may fail.
SenderOpened(s) ==
  /\ Go(s, "opened", "wait") \/ Go(s, "opened", "failed")
  /\ store' = IF flag = 2 THEN [store EXCEPT ![held[s]["store"]].fits = TRUE] ELSE store
  /\ UNCHANGED <<flag, named, count, held, traffic, kills, sound, crowd>>

ReceiverOpened(r) ==
  /\ Go(r, "opened", IF \E name \in Semaphore : held[r][name] = 0 THEN "failed" ELSE "ask")
  /\ UNCHANGED <<flag, objects, held, traffic, kills, sound, crowd>>
-----------------------------------------------------------------------------
(* send() and receive() on the objects a process holds.                    *)

SemWait(p, name) ==
  /\ count[name][held[p][name]] > 0
  /\ count' = [count EXCEPT ![name][held[p][name]] = @ - 1]
SemPost(p, name) == count' = [count EXCEPT ![name][held[p][name]] = @ + 1]

SendWait(s) ==
  /\ Go(s, "wait", "put")
  /\ SemWait(s, "/receiver")
  /\ UNCHANGED <<flag, named, store, held, traffic, kills, sound, crowd>>

Put(s) ==
  LET g == held[s]["store"]
      m == Script(s)[n[s] + 1] IN
  /\ Go(s, "put", "announce")
  /\ \/ /\ flag = 1 /\ Len(store[g].msgs) < MaxMsg
        /\ store' = [store EXCEPT ![g].msgs = Append(@, m)]
     \/ /\ flag = 2
        /\ store' = [store EXCEPT ![g].msgs = <<m>>]
  /\ UNCHANGED <<flag, named, count, held, traffic, kills, sound, crowd>>

\* Mutant: main leaves before it sends "exit".
LeaveAfterLines(s) == IF n[s] + 1 >= Lines THEN "unlink store" ELSE "wait"
AfterSend(s) == IF n[s] = Lines THEN "unlink store" ELSE "wait"

Announce(s) ==
  /\ Go(s, "announce", AfterSend(s))
  /\ SemPost(s, "/sender")
  /\ n' = [n EXCEPT ![s] = @ + 1]
  /\ UNCHANGED <<flag, named, store, held, got, kills, sound, crowd>>

Ask(r) ==
  /\ Go(r, "ask", "await")
  /\ SemPost(r, "/receiver")
  /\ UNCHANGED <<flag, named, store, held, traffic, kills, sound, crowd>>

Await(r) ==
  /\ Go(r, "await", "get")
  /\ SemWait(r, "/sender")
  /\ UNCHANGED <<flag, named, store, held, traffic, kills, sound, crowd>>

\* message in main of the receiver: what it was before the next call.
Message(r) == IF got[r] = <<>> THEN Zeros ELSE Last(got[r])

\* receive() returns m, and main looks for "exit".
Received(r, m) ==
  /\ Go(r, "get", IF IsExit(m) THEN "unlink store" ELSE "ask")
  /\ got' = [got EXCEPT ![r] = Append(@, m)]

\* mq_receive fails for a queue whose messages might not fit, and nobody looks.
\* A segment that has no size cannot be read.
Get(r) ==
  LET g == held[r]["store"]
      msgs == store[g].msgs IN
  /\ pc[r] = "get"
  /\ \/ /\ flag = 1 /\ store[g].fits /\ msgs # <<>>
        /\ Received(r, Head(msgs))
        /\ store' = [store EXCEPT ![g].msgs = Tail(@)]
     \/ /\ flag = 1 /\ ~store[g].fits
        /\ Received(r, Message(r))
        /\ UNCHANGED store
     \/ /\ flag = 2 /\ store[g].fits
        /\ Received(r, IF msgs = <<>> THEN Zeros ELSE Head(msgs))
        /\ UNCHANGED store
     \/ /\ flag = 2 /\ ~store[g].fits
        /\ Go(r, "get", "killed")
        /\ UNCHANGED <<got, store>>
  /\ UNCHANGED <<flag, named, count, held, n, kills, sound, crowd>>
-----------------------------------------------------------------------------
(* The end: both sides remove all names, whatever they stand for by now.   *)

Unlink(p, from, name, to) ==
  /\ Go(p, from, to)
  /\ named' = [named EXCEPT ![name] = 0]
  /\ UNCHANGED <<flag, count, store, held, traffic, kills, sound, crowd>>

CleanUp(p) ==
  \/ Unlink(p, "unlink store", "store", "unlink /sender")
  \/ Unlink(p, "unlink /sender", "/sender", "unlink /receiver")
  \/ Unlink(p, "unlink /receiver", "/receiver", "ended")

Kill(p) ==
  /\ ~Gone(p)
  /\ kills < MaxKills
  /\ pc' = [pc EXCEPT ![p] = "killed"]
  /\ kills' = kills + 1
  /\ UNCHANGED <<flag, objects, held, traffic, sound, crowd>>
-----------------------------------------------------------------------------
SenderStep(s) ==
  \/ OpenStore(s) \/ (\E name \in Semaphore : CreateSemaphore(s, name)) \/ SenderOpened(s)
  \/ SendWait(s) \/ Put(s) \/ Announce(s) \/ CleanUp(s)

ReceiverStep(r) ==
  \/ OpenStore(r) \/ (\E name \in Semaphore : FindSemaphore(r, name)) \/ ReceiverOpened(r)
  \/ Ask(r) \/ Await(r) \/ Get(r) \/ CleanUp(r)

Next ==
  \/ \E p \in Process : Start(p) \/ Kill(p)
  \/ \E s \in Senders : SenderStep(s)
  \/ \E r \in Receivers : ReceiverStep(r)

Spec == Init /\ [][Next]_vars
FairSpec ==
  /\ Spec
  /\ \A s \in Senders : WF_vars(SenderStep(s))
  /\ \A r \in Receivers : WF_vars(ReceiverStep(r))

-----------------------------------------------------------------------------
(* Properties.                                                             *)

\* A sender and a receiver that have held the same three objects while both ran,
\* which nobody else who ran has held with either of them, and in which the sender
\* found nothing.
Together(s, r) ==
  /\ s \in sound
  /\ \A name \in Name : <<{s, r}, name>> \in crowd
  /\ \A meeting \in crowd : meeting[1] \cap {s, r} # {} => meeting[1] = {s, r}

\* Such a pair is a session that works, also after sessions that were killed and
\* while others' ends take the names away: the receiver gets the sender's messages
\* in order, and leaves when it has them all (sender.c:62-120, receiver.c:52-100).
SessionDelivers ==
  \A s \in Senders, r \in Receivers : Together(s, r) =>
    /\ IsPrefix(got[r], Script(s))
    /\ pc[r] = "ended" => got[r] = Script(s)

\* ... and unless one of them is cut short both end (sender.c:112-151,
\* receiver.c:92-125).
Whole(s, r) == Together(s, r) /\ {pc[s], pc[r]} \cap {"killed", "failed"} = {}
SessionEnds ==
  []<>(\A s \in Senders, r \in Receivers :
         Whole(s, r) => pc[s] = "ended" /\ pc[r] = "ended")
=============================================================================
