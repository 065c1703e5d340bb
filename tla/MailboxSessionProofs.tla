------------------------ MODULE MailboxSessionProofs ------------------------
(***************************************************************************)
(* The sessions of lab1, for any number of starts, lines and kills.        *)
(*                                                                         *)
(* A semaphore or a store outlives its name, so what a process opens may   *)
(* have been used.  The proof follows one sender and one receiver (a pair) *)
(* that have met nobody else, and the record of who has met whom (Met)     *)
(* says that nobody else touches their objects (ApartStays).  Until the    *)
(* receiver has asked for the first time these are clean (CleanAt), then   *)
(* the two take turns (Turn); the cases that open late, after the other    *)
(* side has begun, are what CleanAt and PendingAt are for.                 *)
(***************************************************************************)
EXTENDS MailboxSession, SequenceTheorems, TLAPS

-----------------------------------------------------------------------------
(* Processes, names and scripts.                                           *)

\* Messages, and where a process can be.
Msg == (Process \cup {<<"zeros", 0>>}) \X Nat
Opening == {"store", "/sender", "/receiver", "opened"}
LeavingPcs == {"unlink store", "unlink /sender", "unlink /receiver"}
SenderPcs == {"idle", "ended", "failed", "killed", "wait", "put", "announce"} \cup Opening \cup LeavingPcs
ReceiverPcs == {"idle", "ended", "failed", "killed", "ask", "await", "get"} \cup Opening \cup LeavingPcs
Store == [fits : BOOLEAN, msgs : Seq(Msg)]

\* Every variable the proof reads holds what the code stores in it.
Types ==
  /\ flag \in {1, 2}
  /\ named \in [Name -> Nat]
  /\ count \in [Semaphore -> Seq(Nat)]
  /\ store \in Seq(Store)
  /\ pc \in [Process -> SenderPcs \cup ReceiverPcs]
  /\ held \in [Process -> [Name -> Nat]]
  /\ n \in [Senders -> Nat]
  /\ got \in [Receivers -> Seq(Msg)]
  /\ \A s \in Senders : pc[s] \in SenderPcs
  /\ \A r \in Receivers : pc[r] \in ReceiverPcs

\* Names and processes refer to objects that exist.
Exist ==
  /\ \A m \in Semaphore : named[m] \in 0 .. Len(count[m])
  /\ named["store"] \in 0 .. Len(store)
  /\ \A p \in Process, m \in Semaphore : held[p][m] \in 0 .. Len(count[m])
  /\ \A p \in Process : held[p]["store"] \in 0 .. Len(store)

\* A process holds what its position says it has opened, and all of it from its
\* first call on.
HoldingOf(p) ==
  /\ pc[p] \in {"idle", "store"} => held[p]["store"] = 0
  /\ pc[p] \in {"idle", "store", "/sender"} => held[p]["/sender"] = 0
  /\ pc[p] \in {"idle", "store", "/sender", "/receiver"} => held[p]["/receiver"] = 0
  /\ pc[p] \in {"/sender", "/receiver", "opened"} => held[p]["store"] # 0
  /\ pc[p] \in {"wait", "put", "announce", "ask", "await", "get", "ended"} \cup LeavingPcs
       => \A m \in Name : held[p][m] # 0
  /\ p \in Senders /\ pc[p] \in {"/receiver", "opened"} => held[p]["/sender"] # 0
  /\ p \in Senders /\ pc[p] = "opened" => held[p]["/receiver"] # 0
Holding == \A p \in Process : HoldingOf(p)

\* How many messages a sender has announced, and a receiver has got, by where
\* it is.
SentOf(s) ==
  /\ pc[s] \in {"idle", "failed"} \cup Opening => n[s] = 0
  /\ pc[s] \in {"wait", "put", "announce"} => n[s] <= Lines
  /\ pc[s] \in {"ended"} \cup LeavingPcs => n[s] = Lines + 1
HeardOf(r) == pc[r] \in {"idle", "failed"} \cup Opening => got[r] = <<>>
Counts == (\A s \in Senders : SentOf(s)) /\ (\A r \in Receivers : HeardOf(r))

\* What a step of q leaves alone.
OthersStay(q) ==
  /\ flag' = flag
  /\ sound' \subseteq sound
  /\ \A p \in Process \ {q} :
       /\ pc'[p] = pc[p] /\ held'[p] = held[p]
       /\ p \in Senders => n'[p] = n[p]
       /\ p \in Receivers => got'[p] = got[p]
       /\ p \in sound => p \in sound'

\* A step of q changes an object only if q holds it and runs.
ObjectsStay(q) ==
  /\ \A m \in Semaphore :
       /\ Len(count'[m]) >= Len(count[m])
       /\ \A g \in 1 .. Len(count[m]) :
            count'[m][g] = count[m][g] \/ (g = held[q][m] /\ ~Gone(q))
  /\ Len(store') >= Len(store)
  /\ \A g \in 1 .. Len(store) : store'[g] = store[g] \/ (g = held[q]["store"] /\ ~Gone(q))

\* A step of q records whom q meets, where q comes to hold an object.
Meeting(q) ==
  /\ crowd \subseteq crowd'
  /\ \A m \in Name : held[q][m] # 0 => held'[q][m] = held[q][m]
  /\ Gone(q) /\ ~Gone(q)' => \A m \in Name : held'[q][m] = 0
  /\ \A p1 \in Process \ {q}, p2 \in Process \ {q}, m \in Name :
       <<{p1, p2}, m>> \in crowd' => <<{p1, p2}, m>> \in crowd
  /\ \A p \in Process \ {q}, m \in Name :
       /\ <<{p, q}, m>> \in crowd' =>
            \/ <<{p, q}, m>> \in crowd
            \/ ~Gone(p) /\ ~Gone(q) /\ held[q][m] = 0 /\ held'[q][m] = held[p][m] /\ held[p][m] # 0
       /\ held'[q][m] # held[q][m] /\ held[p][m] = held'[q][m] /\ held[p][m] # 0 /\ ~Gone(p) =>
            <<{p, q}, m>> \in crowd'

\* A process is a sender or a receiver.
LEMMA Kinds ==
  /\ Process = Senders \cup Receivers
  /\ Senders \cap Receivers = {}
BY DEF Process, Senders, Receivers

\* The messages of a sender end with "exit", and only with it.
LEMMA ScriptFacts ==
  ASSUME Lines \in Nat, NEW s \in Senders
  PROVE  /\ Script(s) \in Seq(Msg)
         /\ Len(Script(s)) = Lines + 1
         /\ \A k \in 1 .. Lines + 1 : Script(s)[k] \in Msg /\ (IsExit(Script(s)[k]) <=> k = Lines + 1)
<1>1. \A k \in 1 .. Lines + 1 : <<s, k>> \in Msg
  BY Kinds DEF Msg
<1>2. QED
  BY <1>1 DEF Script, IsExit

\* Holding an object is meeting those who hold it.
LEMMA HoldMeets ==
  ASSUME Types, NEW q \in Process, NEW name \in Name, NEW g \in Nat, Hold(q, name, g),
         held[q][name] = 0, ~Gone(q), OthersStay(q)
  PROVE  Meeting(q)
<1>1. /\ held'[q][name] = g
      /\ \A m \in Name \ {name} : held'[q][m] = held[q][m]
  BY DEF Hold, Types
<1>2. \A u \in crowd' : u \in crowd \/
         \E p \in Process \ {q} : u = <<{q, p}, name>> /\ ~Gone(p) /\ g # 0 /\ held[p][name] = g
  BY DEF Hold
<1>3. \A p \in Process \ {q} : ~Gone(p) /\ g # 0 /\ held[p][name] = g => <<{q, p}, name>> \in crowd'
  BY DEF Hold
<1>4. \A p1 \in Process \ {q}, p2 \in Process \ {q} : \A p : {p1, p2} # {q, p}
  OBVIOUS
<1>5. \A p1 \in Process \ {q}, p \in Process \ {q} : {p1, q} = {q, p} => p = p1
  OBVIOUS
<1>6. \A p \in Process : {p, q} = {q, p}
  OBVIOUS
<1>7. crowd \subseteq crowd'
  BY DEF Hold
<1>8. \A m \in Name : held[q][m] # 0 => held'[q][m] = held[q][m]
  BY <1>1
<1>9. \A p1 \in Process \ {q}, p2 \in Process \ {q}, m \in Name :
       <<{p1, p2}, m>> \in crowd' => <<{p1, p2}, m>> \in crowd
  <2> SUFFICES ASSUME NEW p1 \in Process \ {q}, NEW p2 \in Process \ {q}, NEW m \in Name,
                      <<{p1, p2}, m>> \in crowd', <<{p1, p2}, m>> \notin crowd
               PROVE  FALSE
    OBVIOUS
  <2>1. p1 \in Process /\ p2 \in Process
    OBVIOUS
  <2>2. PICK p \in Process \ {q} : <<{p1, p2}, m>> = <<{q, p}, name>>
    BY <1>2, <2>1
  <2>3. QED
    BY <2>2, <1>4
<1>10. \A p \in Process \ {q}, m \in Name : <<{p, q}, m>> \in crowd' =>
            \/ <<{p, q}, m>> \in crowd
            \/ ~Gone(p) /\ ~Gone(q) /\ held[q][m] = 0 /\ held'[q][m] = held[p][m] /\ held[p][m] # 0
  <2> SUFFICES ASSUME NEW p \in Process \ {q}, NEW m \in Name, <<{p, q}, m>> \in crowd', <<{p, q}, m>> \notin crowd
               PROVE ~Gone(p) /\ ~Gone(q) /\ held[q][m] = 0 /\ held'[q][m] = held[p][m] /\ held[p][m] # 0
    OBVIOUS
  <2>0. p \in Process /\ q \in Process
    OBVIOUS
  <2>1. PICK p1 \in Process \ {q} : <<{p, q}, m>> = <<{q, p1}, name>> /\ ~Gone(p1) /\ g # 0 /\ held[p1][name] = g
    BY <1>2, <2>0
  <2>2. p1 = p /\ m = name
    <3>1. {p, q} = {q, p1} /\ m = name
      BY <2>1
    <3>2. QED
      BY <1>5, <3>1
  <2>3. QED
    BY <1>1, <2>1, <2>2
<1>11. \A p \in Process \ {q}, m \in Name :
         held'[q][m] # held[q][m] /\ held[p][m] = held'[q][m] /\ held[p][m] # 0 /\ ~Gone(p) =>
            <<{p, q}, m>> \in crowd'
  BY <1>1, <1>3, <1>6
<1>12. QED
  BY <1>7, <1>8, <1>9, <1>10, <1>11 DEF Meeting

\* A step that opens nothing meets nobody.
LEMMA NoHold ==
  ASSUME NEW q \in Process, held' = held, crowd' = crowd,
         Gone(q) /\ ~Gone(q)' => \A m \in Name : held[q][m] = 0
  PROVE  Meeting(q)
BY DEF Meeting

-----------------------------------------------------------------------------
(* Objects.                                                                *)

\* Object g of a semaphore comes to count v.
Counted(name, g, v) == count' = [count EXCEPT ![name][g] = v]

\* Changing one count, or adding a semaphore, leaves the other counts alone.
LEMMA CountPut ==
  ASSUME Types, NEW name \in Semaphore, NEW g \in 1 .. Len(count[name]), NEW v \in Nat,
         Counted(name, g, v)
  PROVE  /\ count' \in [Semaphore -> Seq(Nat)]
         /\ \A m \in Semaphore : Len(count'[m]) = Len(count[m])
         /\ count'[name][g] = v
         /\ \A m \in Semaphore : \A h \in 1 .. Len(count[m]) :
              m # name \/ h # g => count'[m][h] = count[m][h]
<1> DEFINE new == [count[name] EXCEPT ![g] = v]
<1>1. count[name] \in Seq(Nat)
  BY DEF Types
<1>2. /\ new \in Seq(Nat) /\ Len(new) = Len(count[name])
      /\ \A j \in 1 .. Len(count[name]) : new[j] = IF j = g THEN v ELSE count[name][j]
  BY <1>1, ExceptSeq
<1>3. count'[name] = new /\ \A m \in Semaphore \ {name} : count'[m] = count[m]
  BY DEF Types, Counted
<1>4. count' \in [Semaphore -> Seq(Nat)]
  BY <1>2 DEF Types, Counted
<1> HIDE DEF new
<1>5. QED
  BY <1>2, <1>3, <1>4

LEMMA CountAppend ==
  ASSUME Types, NEW name \in Semaphore, NEW v \in Nat,
         count' = [count EXCEPT ![name] = Append(@, v)]
  PROVE  /\ count' \in [Semaphore -> Seq(Nat)]
         /\ \A m \in Semaphore : Len(count'[m]) = IF m = name THEN Len(count[m]) + 1 ELSE Len(count[m])
         /\ count'[name][Len(count[name]) + 1] = v
         /\ \A m \in Semaphore : \A h \in 1 .. Len(count[m]) : count'[m][h] = count[m][h]
<1> DEFINE new == Append(count[name], v)
<1>1. count[name] \in Seq(Nat)
  BY DEF Types
<1>2. /\ new \in Seq(Nat) /\ Len(new) = Len(count[name]) + 1
      /\ \A j \in 1 .. Len(count[name]) : new[j] = count[name][j]
      /\ new[Len(count[name]) + 1] = v
  BY <1>1, AppendProperties
<1>3. count'[name] = new /\ \A m \in Semaphore \ {name} : count'[m] = count[m]
  BY DEF Types
<1>4. count' \in [Semaphore -> Seq(Nat)]
  BY <1>2 DEF Types
<1> HIDE DEF new
<1>5. QED
  BY <1>2, <1>3, <1>4

\* ... and so for the queues and segments.
LEMMA StorePut ==
  ASSUME Types, NEW g \in 1 .. Len(store), NEW v \in Store, store' = [store EXCEPT ![g] = v]
  PROVE  /\ store' \in Seq(Store) /\ Len(store') = Len(store)
         /\ store'[g] = v
         /\ \A h \in 1 .. Len(store) : h # g => store'[h] = store[h]
<1>1. store \in Seq(Store)
  BY DEF Types
<1>2. QED
  BY <1>1, ExceptSeq

LEMMA StoreAppend ==
  ASSUME Types, NEW v \in Store, store' = Append(store, v)
  PROVE  /\ store' \in Seq(Store) /\ Len(store') = Len(store) + 1
         /\ store'[Len(store) + 1] = v
         /\ \A h \in 1 .. Len(store) : store'[h] = store[h]
<1>1. store \in Seq(Store)
  BY DEF Types
<1>2. QED
  BY <1>1, AppendProperties

\* What every step has to show of the process that takes it.
Taken(q) ==
  /\ Types' /\ Exist'
  /\ HoldingOf(q)'
  /\ q \in Senders => SentOf(q)'
  /\ q \in Receivers => HeardOf(q)'
  /\ OthersStay(q) /\ ObjectsStay(q) /\ Meeting(q)

\* Starting, being killed, removing names and opening touch only what q holds.
LEMMA StartTaken ==
  ASSUME Types, Exist, Holding, Counts, NEW q \in Process, Start(q)
  PROVE  Taken(q)
<1> USE DEF Start, Go, objects, traffic
<1>1. Types' /\ Exist'
  BY Kinds DEF Types, Exist, SenderPcs, ReceiverPcs, Opening
<1>2. pc'[q] = "store" /\ pc[q] = "idle" /\ \A p \in Process \ {q} : pc'[p] = pc[p]
  BY DEF Types
<1>3. HoldingOf(q)' /\ (q \in Senders => SentOf(q)') /\ (q \in Receivers => HeardOf(q)')
  BY <1>2 DEF Holding, HoldingOf, Counts, SentOf, HeardOf, Opening, LeavingPcs
<1>4. OthersStay(q) /\ ObjectsStay(q)
  BY <1>2, Kinds DEF OthersStay, ObjectsStay, Types
<1>5. \A m \in Name : held[q][m] = 0
  BY <1>2 DEF Holding, HoldingOf, Name, Semaphore
<1>6. Meeting(q)
  BY <1>5, NoHold
<1>7. QED
  BY <1>1, <1>3, <1>4, <1>6 DEF Taken

LEMMA KillTaken ==
  ASSUME Types, Exist, Holding, Counts, NEW q \in Process, Kill(q)
  PROVE  Taken(q)
<1> USE DEF Kill, Go, objects, traffic
<1>1. Types' /\ Exist'
  BY Kinds DEF Types, Exist, SenderPcs, ReceiverPcs, Opening
<1>2. pc'[q] = "killed" /\ \A p \in Process \ {q} : pc'[p] = pc[p]
  BY DEF Types
<1>3. HoldingOf(q)' /\ (q \in Senders => SentOf(q)') /\ (q \in Receivers => HeardOf(q)')
  BY <1>2 DEF Holding, HoldingOf, Counts, SentOf, HeardOf, Opening, LeavingPcs
<1>4. OthersStay(q) /\ ObjectsStay(q)
  BY <1>2, Kinds DEF OthersStay, ObjectsStay, Types
<1>5. Meeting(q)
  BY NoHold DEF Gone
<1>6. QED
  BY <1>1, <1>3, <1>4, <1>5 DEF Taken

LEMMA CleanUpTaken ==
  ASSUME Types, Exist, Holding, Counts, NEW q \in Process, CleanUp(q)
  PROVE  Taken(q)
<1>1. PICK name \in Name, from \in LeavingPcs, to \in LeavingPcs \cup {"ended"} : Unlink(q, from, name, to)
  BY DEF CleanUp, Name, Semaphore, LeavingPcs
<1> USE <1>1 DEF Unlink, Go
<1>2. Types' /\ Exist'
  <2>1. pc' \in [Process -> SenderPcs \cup ReceiverPcs] /\ pc' = [pc EXCEPT ![q] = to]
    BY DEF Types, SenderPcs, LeavingPcs
  <2>2. named' \in [Name -> Nat] /\ named' = [named EXCEPT ![name] = 0]
    BY DEF Types
  <2>3. Types'
    BY <2>1, <2>2, Kinds DEF Types, SenderPcs, ReceiverPcs, LeavingPcs, traffic
  <2>4. Exist'
    BY <2>2 DEF Types, Exist, Name, Semaphore
  <2>5. QED
    BY <2>3, <2>4
<1>3. pc'[q] = to /\ pc[q] = from /\ \A p \in Process \ {q} : pc'[p] = pc[p]
  BY DEF Types
<1>4. HoldingOf(q)' /\ (q \in Senders => SentOf(q)') /\ (q \in Receivers => HeardOf(q)')
  BY <1>3, Kinds DEF Holding, HoldingOf, Counts, SentOf, HeardOf, Opening, LeavingPcs, traffic
<1>5. OthersStay(q) /\ ObjectsStay(q)
  BY <1>3, Kinds DEF OthersStay, ObjectsStay, Types, traffic
<1>6. Meeting(q)
  BY <1>3, NoHold DEF Gone, LeavingPcs
<1>7. QED
  BY <1>2, <1>4, <1>5, <1>6 DEF Taken

LEMMA SenderOpenedTaken ==
  ASSUME Lines \in Nat, Types, Exist, Holding, Counts, NEW q \in Senders, SenderOpened(q)
  PROVE  Taken(q)
<1> USE DEF SenderOpened
<1> DEFINE g == held[q]["store"]
<1>1. pc[q] = "opened" /\ pc'[q] \in {"wait", "failed"} /\ \A p \in Process \ {q} : pc'[p] = pc[p]
  BY Kinds DEF Types, Go
<1>2. g \in 1 .. Len(store)
  BY <1>1, Kinds DEF Exist, Holding, HoldingOf
<1>3. /\ store' \in Seq(Store) /\ Len(store') = Len(store)
      /\ \A h \in 1 .. Len(store) : h # g => store'[h] = store[h]
  <2>1. CASE flag = 2
    <3>0. store[g] \in Store
      BY <1>2, ElementOfSeq DEF Types
    <3>1. [store[g] EXCEPT !.fits = TRUE] \in Store
      BY <3>0 DEF Store
    <3>2. store' = [store EXCEPT ![g] = [store[g] EXCEPT !.fits = TRUE]]
      BY <2>1
    <3>3. QED
      BY <1>2, <3>1, <3>2, StorePut
  <2>2. CASE flag # 2
    BY <2>2 DEF Types
  <2>3. QED
    BY <2>1, <2>2
<1>4. pc' \in [Process -> SenderPcs \cup ReceiverPcs]
  BY <1>1 DEF Types, Go, SenderPcs
<1>5. Types'
  BY <1>1, <1>3, <1>4, Kinds DEF Types, SenderPcs, traffic
<1>6. Exist'
  BY <1>3 DEF Exist
<1>7. HoldingOf(q)' /\ (q \in Senders => SentOf(q)') /\ (q \in Receivers => HeardOf(q)')
  <2>1. HoldingOf(q) /\ SentOf(q)
    BY Kinds DEF Holding, Counts
  <2>2. HoldingOf(q)'
    BY <1>1, <2>1 DEF HoldingOf, LeavingPcs, Name, Semaphore
  <2>3. n' = n /\ n[q] = 0
    BY <1>1, <2>1 DEF SentOf, Opening, traffic
  <2>4. SentOf(q)'
    <3>1. n'[q] = 0 /\ 0 <= Lines
      BY <2>3
    <3>2. pc'[q] = "wait" \/ pc'[q] = "failed"
      BY <1>1
    <3> HIDE DEF SenderOpened
    <3>3. QED
      BY <3>1, <3>2 DEF SentOf, Opening, LeavingPcs
  <2>5. QED
    BY <2>2, <2>4, Kinds
<1>8. OthersStay(q)
  BY <1>1, Kinds DEF OthersStay, Types, traffic
<1>9. ~Gone(q)
  BY <1>1 DEF Gone
<1>10. ObjectsStay(q)
  BY <1>3, <1>9 DEF ObjectsStay, Types
<1>11. Meeting(q)
  BY <1>9, Kinds, NoHold
<1>12. QED
  BY <1>5, <1>6, <1>7, <1>8, <1>10, <1>11 DEF Taken

LEMMA ReceiverOpenedTaken ==
  ASSUME Types, Exist, Holding, Counts, NEW q \in Receivers, ReceiverOpened(q)
  PROVE  Taken(q)
<1> USE DEF ReceiverOpened, objects, traffic
<1>1. /\ pc[q] = "opened" /\ \A p \in Process \ {q} : pc'[p] = pc[p]
      /\ pc'[q] \in {"failed", "ask"}
      /\ pc'[q] = "ask" => \A m \in Semaphore : held[q][m] # 0
  BY Kinds DEF Types, Go
<1>4. pc' \in [Process -> SenderPcs \cup ReceiverPcs]
  BY DEF Types, Go, SenderPcs, ReceiverPcs
<1>5. Types'
  BY <1>1, <1>4, Kinds DEF Types, ReceiverPcs
<1>6. Exist'
  BY DEF Exist
<1>7. HoldingOf(q)' /\ (q \in Senders => SentOf(q)') /\ (q \in Receivers => HeardOf(q)')
  BY <1>1, Kinds DEF Holding, HoldingOf, Counts, SentOf, HeardOf, Opening, LeavingPcs, Name, Semaphore, Types
<1>8. OthersStay(q)
  BY <1>1, Kinds DEF OthersStay, Types
<1>9. ~Gone(q)
  BY <1>1 DEF Gone
<1>10. ObjectsStay(q)
  BY DEF ObjectsStay, Types
<1>11. Meeting(q)
  BY <1>9, Kinds, NoHold
<1>12. QED
  BY <1>5, <1>6, <1>7, <1>8, <1>10, <1>11 DEF Taken

\* The object a process comes to hold, and the positions on the way.
LEMMA HeldAfter ==
  ASSUME Types, NEW q \in Process, NEW name \in Name, NEW g \in Nat, Hold(q, name, g)
  PROVE  /\ held' \in [Process -> [Name -> Nat]]
         /\ held'[q][name] = g
         /\ \A m \in Name \ {name} : held'[q][m] = held[q][m]
         /\ \A p \in Process \ {q} : held'[p] = held[p]
BY DEF Hold, Types

LEMMA OpenStoreTaken ==
  ASSUME Types, Exist, Holding, Counts, NEW q \in Process, OpenStore(q)
  PROVE  Taken(q)
<1> DEFINE creates == named["store"] = 0
           g == IF creates THEN Len(store) + 1 ELSE named["store"]
           new == [fits |-> flag = 1 /\ q \in Senders, msgs |-> <<>>]
<1>1. pc[q] = "store" /\ pc'[q] = "/sender" /\ \A p \in Process \ {q} : pc'[p] = pc[p]
  BY DEF Types, Go, OpenStore
<1>2. named["store"] \in 0 .. Len(store) /\ Len(store) \in Nat /\ "store" \in Name
  BY LenProperties DEF Exist, Types, Name
<1>3. store' = (IF creates THEN Append(store, new) ELSE store) /\ Hold(q, "store", g)
      /\ named' = [named EXCEPT !["store"] = g]
  BY DEF OpenStore
<1>4. g \in Nat \ {0}
  BY <1>2
<1>5. /\ store' \in Seq(Store) /\ Len(store') >= Len(store) /\ g \in 0 .. Len(store')
      /\ \A h \in 1 .. Len(store) : store'[h] = store[h]
  <2>1. CASE creates
    <3>1. new \in Store
      BY DEF Store
    <3>2. QED
      BY <1>2, <1>3, <2>1, <3>1, StoreAppend
  <2>2. CASE ~creates
    BY <1>2, <1>3, <2>2 DEF Types
  <2>3. QED
    BY <2>1, <2>2
<1> HIDE DEF g, creates, new
<1>6. /\ held' \in [Process -> [Name -> Nat]]
      /\ held'[q]["store"] = g
      /\ \A m \in Name \ {"store"} : held'[q][m] = held[q][m]
      /\ \A p \in Process \ {q} : held'[p] = held[p]
  BY <1>2, <1>3, <1>4, HeldAfter
<1>7. UNCHANGED <<flag, count, n, got>> /\ sound' \subseteq sound /\ (\A p \in sound : p # q => p \in sound')
  BY DEF OpenStore, traffic
<1>8. pc' \in [Process -> SenderPcs \cup ReceiverPcs]
  BY DEF OpenStore, Types, Go, SenderPcs, ReceiverPcs, Opening
<1>9. Types'
  <2>1. named' \in [Name -> Nat]
    BY <1>3, <1>4 DEF Types
  <2>2. QED
    BY <2>1, <1>1, <1>5, <1>6, <1>7, <1>8, Kinds DEF Types, SenderPcs, ReceiverPcs, Opening
<1>10. Exist'
  <2>1. named'["store"] = g /\ \A m \in Semaphore : named'[m] = named[m]
    BY <1>3 DEF Types, Name, Semaphore
  <2>2. \A p \in Process, m \in Semaphore : held'[p][m] = held[p][m]
    BY <1>6 DEF Name, Semaphore
  <2>3. \A p \in Process : held'[p]["store"] \in 0 .. Len(store')
    <3>1. Len(store') \in Nat
      BY <1>5, LenProperties
    <3>2. \A p \in Process : held[p]["store"] \in 0 .. Len(store)
      BY DEF Exist
    <3>3. ASSUME NEW p \in Process \ {q} PROVE held'[p]["store"] \in 0 .. Len(store')
      <4>1. held'[p]["store"] = held[p]["store"]
        BY <1>6
      <4>2. held[p]["store"] \in 0 .. Len(store)
        BY <3>2
      <4>3. QED
        BY <1>2, <1>5, <3>1, <4>1, <4>2
    <3>4. held'[q]["store"] \in 0 .. Len(store')
      BY <1>5, <1>6
    <3>5. QED
      BY <3>3, <3>4
  <2>4. QED
    BY <1>5, <1>7, <2>1, <2>2, <2>3 DEF Exist
<1>11. HoldingOf(q) /\ (q \in Senders => SentOf(q)) /\ (q \in Receivers => HeardOf(q))
  BY DEF Holding, Counts
<1>12. HoldingOf(q)' /\ (q \in Senders => SentOf(q)') /\ (q \in Receivers => HeardOf(q)')
  BY <1>1, <1>4, <1>6, <1>7, <1>11 DEF HoldingOf, SentOf, HeardOf, Opening, LeavingPcs, Name, Semaphore
<1>13. OthersStay(q)
  BY <1>1, <1>6, <1>7, Kinds DEF OthersStay, Types
<1>14. ObjectsStay(q)
  BY <1>5, <1>7 DEF ObjectsStay, Types
<1>15. Meeting(q)
  BY <1>1, <1>2, <1>3, <1>4, <1>11, <1>13, HoldMeets DEF HoldingOf, Gone
<1>16. QED
  BY <1>9, <1>10, <1>12, <1>13, <1>14, <1>15 DEF Taken

\* What follows the opening of a semaphore.
LEMMA After ==
  \A name \in Semaphore : AfterOpen(name) \in {"/receiver", "opened"} /\
    (AfterOpen(name) = "/receiver" <=> name = "/sender")
BY DEF AfterOpen, Semaphore

\* The places before and after a semaphore is opened.
LEMMA NextPlace ==
  ASSUME Types, Holding, Counts, NEW q \in Process, NEW name \in Semaphore,
         Go(q, name, AfterOpen(name)), held' \in [Process -> [Name -> Nat]],
         held'[q][name] # 0 \/ q \notin Senders,
         \A m \in Name \ {name} : held'[q][m] = held[q][m],
         UNCHANGED <<n, got>>
  PROVE  /\ pc[q] = name /\ ~Gone(q) /\ held[q][name] = 0
         /\ \A p \in Process \ {q} : pc'[p] = pc[p]
         /\ pc' \in [Process -> SenderPcs \cup ReceiverPcs]
         /\ pc'[q] \in {"/receiver", "opened"}
         /\ HoldingOf(q)' /\ (q \in Senders => SentOf(q)') /\ (q \in Receivers => HeardOf(q)')
<1>1. /\ pc[q] = name /\ pc'[q] = AfterOpen(name) /\ \A p \in Process \ {q} : pc'[p] = pc[p]
      /\ pc' \in [Process -> SenderPcs \cup ReceiverPcs]
  BY After DEF Go, Types, SenderPcs, ReceiverPcs, Opening
<1>2. \/ name = "/sender" /\ pc'[q] = "/receiver"
      \/ name = "/receiver" /\ pc'[q] = "opened"
  BY <1>1 DEF AfterOpen, Semaphore
<1>3. HoldingOf(q) /\ (q \in Senders => SentOf(q)) /\ (q \in Receivers => HeardOf(q))
  BY DEF Holding, Counts
<1>4. held[q][name] = 0
  BY <1>1, <1>2, <1>3 DEF HoldingOf
<1>5. HoldingOf(q)'
  BY <1>1, <1>2, <1>3 DEF HoldingOf, LeavingPcs, Name, Semaphore
<1>6. (q \in Senders => SentOf(q)') /\ (q \in Receivers => HeardOf(q)')
  BY <1>1, <1>2, <1>3 DEF SentOf, HeardOf, Opening, LeavingPcs
<1>7. QED
  BY <1>1, <1>2, <1>4, <1>5, <1>6 DEF Gone

LEMMA CreateTaken ==
  ASSUME Types, Exist, Holding, Counts, NEW q \in Senders, NEW name \in Semaphore, CreateSemaphore(q, name)
  PROVE  Taken(q)
<1> DEFINE creates == named[name] = 0
           g == IF creates THEN Len(count[name]) + 1 ELSE named[name]
<1>1. named[name] \in 0 .. Len(count[name]) /\ Len(count[name]) \in Nat /\ name \in Name
  BY LenProperties DEF Exist, Types, Name
<1>2. /\ count' = (IF creates THEN [count EXCEPT ![name] = Append(@, Created)] ELSE count)
      /\ Hold(q, name, g) /\ named' = [named EXCEPT ![name] = g]
      /\ Go(q, name, AfterOpen(name)) /\ UNCHANGED <<flag, store, n, got>>
      /\ sound' \subseteq sound /\ (\A p \in sound : p # q => p \in sound')
  BY DEF CreateSemaphore, traffic
<1>3. g \in Nat \ {0}
  BY <1>1
<1>4. /\ count' \in [Semaphore -> Seq(Nat)] /\ g \in 0 .. Len(count'[name])
      /\ \A m \in Semaphore : /\ Len(count'[m]) >= Len(count[m])
                              /\ m # name => Len(count'[m]) = Len(count[m])
      /\ \A m \in Semaphore : \A h \in 1 .. Len(count[m]) : count'[m][h] = count[m][h]
  <2>1. CASE creates
    <3>1. count' = [count EXCEPT ![name] = Append(@, 0)] /\ g = Len(count[name]) + 1
      BY <1>2, <2>1 DEF Created
    <3>2. /\ count' \in [Semaphore -> Seq(Nat)]
          /\ \A m \in Semaphore : Len(count'[m]) = IF m = name THEN Len(count[m]) + 1 ELSE Len(count[m])
          /\ \A m \in Semaphore : \A h \in 1 .. Len(count[m]) : count'[m][h] = count[m][h]
      BY <3>1, CountAppend
    <3>3. \A m \in Semaphore : Len(count[m]) \in Nat
      BY LenProperties DEF Types
    <3>4. QED
      BY <1>1, <3>1, <3>2, <3>3
  <2>2. CASE ~creates
    BY <1>1, <1>2, <2>2 DEF Types
  <2>3. QED
    BY <2>1, <2>2
<1> HIDE DEF g, creates
<1>5. q \in Process
  BY Kinds
<1>6. /\ held' \in [Process -> [Name -> Nat]]
      /\ held'[q][name] = g
      /\ \A m \in Name \ {name} : held'[q][m] = held[q][m]
      /\ \A p \in Process \ {q} : held'[p] = held[p]
  BY <1>1, <1>2, <1>3, <1>5, HeldAfter
<1>7. /\ pc[q] = name /\ ~Gone(q) /\ held[q][name] = 0
      /\ \A p \in Process \ {q} : pc'[p] = pc[p]
      /\ pc' \in [Process -> SenderPcs \cup ReceiverPcs]
      /\ pc'[q] \in {"/receiver", "opened"}
      /\ HoldingOf(q)' /\ (q \in Senders => SentOf(q)') /\ (q \in Receivers => HeardOf(q)')
  BY <1>2, <1>3, <1>5, <1>6, NextPlace
<1>8. Types'
  <2>1. named' \in [Name -> Nat]
    BY <1>2, <1>3 DEF Types
  <2>2. QED
    BY <2>1, <1>2, <1>4, <1>6, <1>7, Kinds DEF Types, SenderPcs, Opening
<1>9. Exist'
  <2>1. \A m \in Semaphore : Len(count[m]) \in Nat /\ Len(count'[m]) \in Nat
    BY <1>4, LenProperties DEF Types
  <2>2. \A m \in Semaphore : named'[m] \in 0 .. Len(count'[m])
    <3>1. \A m \in Semaphore : named[m] \in 0 .. Len(count[m])
      BY DEF Exist
    <3>2. \A m \in Semaphore \ {name} : named'[m] = named[m]
      BY <1>2 DEF Types, Name
    <3>3. named'[name] = g
      BY <1>1, <1>2 DEF Types
    <3>4. QED
      BY <1>4, <2>1, <3>1, <3>2, <3>3
  <2>3. named'["store"] = named["store"]
    BY <1>2 DEF Types, Name, Semaphore
  <2>4. ASSUME NEW p \in Process, NEW m \in Semaphore PROVE held'[p][m] \in 0 .. Len(count'[m])
    <3>1. held[p][m] \in 0 .. Len(count[m])
      BY DEF Exist
    <3>2. held'[p][m] = held[p][m] \/ (m = name /\ held'[p][m] = g)
      BY <1>6 DEF Name
    <3>3. QED
      BY <1>4, <2>1, <3>1, <3>2
  <2>5. \A p \in Process : held'[p]["store"] = held[p]["store"]
    BY <1>6 DEF Name, Semaphore
  <2>6. QED
    BY <1>2, <2>2, <2>3, <2>4, <2>5 DEF Exist
<1>10. OthersStay(q)
  BY <1>2, <1>6, <1>7, Kinds DEF OthersStay, Types
<1>11. ObjectsStay(q)
  BY <1>2, <1>4 DEF ObjectsStay, Types
<1>12. Meeting(q)
  BY <1>1, <1>2, <1>3, <1>5, <1>7, <1>10, HoldMeets
<1>13. QED
  BY <1>7, <1>8, <1>9, <1>10, <1>11, <1>12 DEF Taken

LEMMA FindTaken ==
  ASSUME Types, Exist, Holding, Counts, NEW q \in Receivers, NEW name \in Semaphore, FindSemaphore(q, name)
  PROVE  Taken(q)
<1> DEFINE g == named[name]
<1>1. g \in 0 .. Len(count[name]) /\ Len(count[name]) \in Nat /\ name \in Name
  BY LenProperties DEF Exist, Types, Name
<1>2. /\ Hold(q, name, g) /\ Go(q, name, AfterOpen(name))
      /\ UNCHANGED <<flag, named, count, store, n, got, sound>>
  BY DEF FindSemaphore, traffic, objects
<1>3. q \in Process /\ q \notin Senders /\ g \in Nat
  BY <1>1, Kinds
<1> HIDE DEF g
<1>4. /\ held' \in [Process -> [Name -> Nat]]
      /\ held'[q][name] = g
      /\ \A m \in Name \ {name} : held'[q][m] = held[q][m]
      /\ \A p \in Process \ {q} : held'[p] = held[p]
  BY <1>1, <1>2, <1>3, HeldAfter
<1>5. /\ pc[q] = name /\ ~Gone(q) /\ held[q][name] = 0
      /\ \A p \in Process \ {q} : pc'[p] = pc[p]
      /\ pc' \in [Process -> SenderPcs \cup ReceiverPcs]
      /\ pc'[q] \in {"/receiver", "opened"}
      /\ HoldingOf(q)' /\ (q \in Senders => SentOf(q)') /\ (q \in Receivers => HeardOf(q)')
  BY <1>2, <1>3, <1>4, NextPlace
<1>6. Types'
  BY <1>2, <1>4, <1>5, Kinds DEF Types, ReceiverPcs, Opening
<1>7. Exist'
  <2>1. ASSUME NEW p \in Process, NEW m \in Semaphore PROVE held'[p][m] \in 0 .. Len(count[m])
    <3>1. held[p][m] \in 0 .. Len(count[m])
      BY DEF Exist
    <3>2. held'[p][m] = held[p][m] \/ (m = name /\ held'[p][m] = g)
      BY <1>4 DEF Name
    <3>3. QED
      BY <1>1, <3>1, <3>2
  <2>2. \A p \in Process : held'[p]["store"] = held[p]["store"]
    BY <1>4 DEF Name, Semaphore
  <2>3. QED
    BY <1>2, <2>1, <2>2 DEF Exist
<1>8. OthersStay(q)
  BY <1>2, <1>4, <1>5, Kinds DEF OthersStay, Types
<1>9. ObjectsStay(q)
  BY <1>2 DEF ObjectsStay, Types
<1>10. Meeting(q)
  BY <1>1, <1>2, <1>3, <1>5, <1>8, HoldMeets
<1>11. QED
  BY <1>5, <1>6, <1>7, <1>8, <1>9, <1>10 DEF Taken

\* A wait or a post of a process that holds the semaphore.
LEMMA SemaphoreTaken ==
  ASSUME Types, Exist, NEW q \in Process, NEW name \in Semaphore, NEW v \in Nat,
         held[q][name] # 0, ~Gone(q),
         Counted(name, held[q][name], v),
         UNCHANGED <<flag, named, store, held, sound, crowd>>,
         \A p \in Process \ {q} :
           /\ pc'[p] = pc[p]
           /\ p \in Senders => n'[p] = n[p]
           /\ p \in Receivers => got'[p] = got[p]
  PROVE  /\ count' \in [Semaphore -> Seq(Nat)] /\ count'[name][held[q][name]] = v
         /\ \A m \in Semaphore : \A h \in 1 .. Len(count[m]) :
              m # name \/ h # held[q][name] => count'[m][h] = count[m][h]
         /\ Exist' /\ OthersStay(q) /\ ObjectsStay(q) /\ Meeting(q)
<1> DEFINE g == held[q][name]
<1>1. g \in 1 .. Len(count[name]) /\ Counted(name, g, v)
  BY DEF Exist
<1> HIDE DEF g
<1>2. /\ count' \in [Semaphore -> Seq(Nat)]
      /\ \A m \in Semaphore : Len(count'[m]) = Len(count[m])
      /\ count'[name][g] = v
      /\ \A m \in Semaphore : \A h \in 1 .. Len(count[m]) :
              m # name \/ h # g => count'[m][h] = count[m][h]
  BY <1>1, CountPut
<1>3. Exist'
  BY <1>2 DEF Exist
<1>4. OthersStay(q)
  BY DEF OthersStay
<1>5. ObjectsStay(q)
  <2>1. \A m \in Semaphore : Len(count[m]) \in Nat
    BY LenProperties DEF Types
  <2>2. Len(store) \in Nat
    BY LenProperties DEF Types
  <2>3. QED
    BY <1>2, <2>1, <2>2 DEF ObjectsStay, g
<1>6. Meeting(q)
  BY NoHold
<1>7. QED
  BY <1>2, <1>3, <1>4, <1>5, <1>6 DEF g

\* The effect of sem_wait and of sem_post on the counts.
LEMMA WaitOrPost ==
  ASSUME Types, Exist, NEW q \in Process, NEW name \in Semaphore, held[q][name] # 0,
         SemWait(q, name) \/ SemPost(q, name)
  PROVE  /\ SemWait(q, name) => /\ count[name][held[q][name]] - 1 \in Nat
                                /\ Counted(name, held[q][name], count[name][held[q][name]] - 1)
         /\ SemPost(q, name) => /\ count[name][held[q][name]] + 1 \in Nat
                                /\ Counted(name, held[q][name], count[name][held[q][name]] + 1)
<1>1. held[q][name] \in 1 .. Len(count[name])
  BY DEF Exist
<1>2. count[name][held[q][name]] \in Nat
  BY <1>1, ElementOfSeq DEF Types
<1>3. QED
  BY <1>2 DEF SemWait, SemPost, Counted

LEMMA SendWaitTaken ==
  ASSUME Types, Exist, Holding, Counts, NEW q \in Senders, SendWait(q)
  PROVE  Taken(q)
<1>1. q \in Process /\ q \notin Receivers /\ "/receiver" \in Semaphore
  BY Kinds DEF Semaphore
<1>2. /\ pc[q] = "wait" /\ pc'[q] = "put" /\ \A p \in Process \ {q} : pc'[p] = pc[p]
      /\ pc' \in [Process -> SenderPcs \cup ReceiverPcs]
  BY <1>1 DEF SendWait, Go, Types, SenderPcs
<1>3. HoldingOf(q) /\ SentOf(q)
  BY <1>1 DEF Holding, Counts
<1>4. held[q]["/receiver"] # 0 /\ ~Gone(q)
  BY <1>2, <1>3 DEF HoldingOf, Gone, Name, Semaphore
<1>5. UNCHANGED <<flag, named, store, held, n, got, sound, crowd>> /\ SemWait(q, "/receiver")
  BY DEF SendWait, traffic
<1>6. count' \in [Semaphore -> Seq(Nat)] /\ Exist' /\ OthersStay(q) /\ ObjectsStay(q) /\ Meeting(q)
  <2>1. PICK v \in Nat : Counted("/receiver", held[q]["/receiver"], v)
    BY <1>1, <1>4, <1>5, WaitOrPost
  <2>2. QED
    BY <1>1, <1>2, <1>4, <1>5, <2>1, SemaphoreTaken
<1>7. Types'
  BY <1>1, <1>2, <1>5, <1>6, Kinds DEF Types, SenderPcs
<1>8. HoldingOf(q)' /\ SentOf(q)'
  BY <1>2, <1>3, <1>5 DEF HoldingOf, SentOf, LeavingPcs, Opening
<1>9. QED
  BY <1>1, <1>6, <1>7, <1>8 DEF Taken

LEMMA AnnounceTaken ==
  ASSUME Lines \in Nat, Types, Exist, Holding, Counts, NEW q \in Senders, Announce(q)
  PROVE  Taken(q)
<1>1. q \in Process /\ q \notin Receivers /\ "/sender" \in Semaphore
  BY Kinds DEF Semaphore
<1>2. /\ pc[q] = "announce" /\ pc'[q] = AfterSend(q) /\ \A p \in Process \ {q} : pc'[p] = pc[p]
      /\ pc' \in [Process -> SenderPcs \cup ReceiverPcs]
  BY <1>1 DEF Announce, Go, Types, SenderPcs, AfterSend, LeavingPcs
<1>3. HoldingOf(q) /\ SentOf(q) /\ n[q] \in Nat
  BY <1>1 DEF Holding, Counts, Types
<1>4. held[q]["/sender"] # 0 /\ ~Gone(q)
  BY <1>2, <1>3 DEF HoldingOf, Gone, Name, Semaphore
<1>5. /\ UNCHANGED <<flag, named, store, held, got, sound, crowd>> /\ SemPost(q, "/sender")
      /\ n' = [n EXCEPT ![q] = n[q] + 1]
  BY DEF Announce
<1>6. n' \in [Senders -> Nat] /\ n'[q] = n[q] + 1 /\ \A p \in Senders \ {q} : n'[p] = n[p]
  BY <1>3, <1>5 DEF Types
<1>7. count' \in [Semaphore -> Seq(Nat)] /\ Exist' /\ OthersStay(q) /\ ObjectsStay(q) /\ Meeting(q)
  <2>1. PICK v \in Nat : Counted("/sender", held[q]["/sender"], v)
    BY <1>1, <1>4, <1>5, WaitOrPost
  <2>2. QED
    BY <1>1, <1>2, <1>4, <1>5, <1>6, <2>1, SemaphoreTaken
<1>8. \/ pc'[q] = "unlink store" /\ n[q] = Lines
      \/ pc'[q] = "wait" /\ n[q] # Lines
  BY <1>2 DEF AfterSend
<1>9. Types'
  BY <1>1, <1>2, <1>5, <1>6, <1>7, <1>8, Kinds DEF Types, SenderPcs, LeavingPcs
<1>10. HoldingOf(q)'
  BY <1>2, <1>3, <1>5, <1>8 DEF HoldingOf
<1>11. SentOf(q)'
  <2>1. n[q] <= Lines
    BY <1>2, <1>3 DEF SentOf
  <2>2. CASE pc'[q] = "unlink store" /\ n'[q] = Lines + 1
    BY <2>2 DEF SentOf, LeavingPcs, Opening
  <2>3. CASE pc'[q] = "wait" /\ n'[q] <= Lines
    BY <2>3 DEF SentOf, LeavingPcs, Opening
  <2>4. QED
    <3>1. n[q] # Lines => n[q] + 1 <= Lines
      BY <1>3, <2>1
    <3>2. QED
      BY <1>6, <1>8, <2>2, <2>3, <3>1
<1>12. QED
  BY <1>1, <1>7, <1>9, <1>10, <1>11 DEF Taken

LEMMA AskTaken ==
  ASSUME Types, Exist, Holding, Counts, NEW q \in Receivers, Ask(q)
  PROVE  Taken(q)
<1>1. q \in Process /\ q \notin Senders /\ "/receiver" \in Semaphore
  BY Kinds DEF Semaphore
<1>2. /\ pc[q] = "ask" /\ pc'[q] = "await" /\ \A p \in Process \ {q} : pc'[p] = pc[p]
      /\ pc' \in [Process -> SenderPcs \cup ReceiverPcs]
  BY <1>1 DEF Ask, Go, Types, ReceiverPcs
<1>3. HoldingOf(q)
  BY <1>1 DEF Holding
<1>4. held[q]["/receiver"] # 0 /\ ~Gone(q)
  BY <1>2, <1>3 DEF HoldingOf, Gone, Name, Semaphore
<1>5. UNCHANGED <<flag, named, store, held, n, got, sound, crowd>> /\ SemPost(q, "/receiver")
  BY DEF Ask, traffic
<1>6. count' \in [Semaphore -> Seq(Nat)] /\ Exist' /\ OthersStay(q) /\ ObjectsStay(q) /\ Meeting(q)
  <2>1. PICK v \in Nat : Counted("/receiver", held[q]["/receiver"], v)
    BY <1>1, <1>4, <1>5, WaitOrPost
  <2>2. QED
    BY <1>1, <1>2, <1>4, <1>5, <2>1, SemaphoreTaken
<1>7. Types'
  BY <1>1, <1>2, <1>5, <1>6, Kinds DEF Types, ReceiverPcs
<1>8. HoldingOf(q)' /\ HeardOf(q)'
  BY <1>2, <1>3, <1>5 DEF HoldingOf, HeardOf, LeavingPcs, Opening
<1>9. QED
  BY <1>1, <1>6, <1>7, <1>8 DEF Taken

LEMMA AwaitTaken ==
  ASSUME Types, Exist, Holding, Counts, NEW q \in Receivers, Await(q)
  PROVE  Taken(q)
<1>1. q \in Process /\ q \notin Senders /\ "/sender" \in Semaphore
  BY Kinds DEF Semaphore
<1>2. /\ pc[q] = "await" /\ pc'[q] = "get" /\ \A p \in Process \ {q} : pc'[p] = pc[p]
      /\ pc' \in [Process -> SenderPcs \cup ReceiverPcs]
  BY <1>1 DEF Await, Go, Types, ReceiverPcs
<1>3. HoldingOf(q)
  BY <1>1 DEF Holding
<1>4. held[q]["/sender"] # 0 /\ ~Gone(q)
  BY <1>2, <1>3 DEF HoldingOf, Gone, Name, Semaphore
<1>5. UNCHANGED <<flag, named, store, held, n, got, sound, crowd>> /\ SemWait(q, "/sender")
  BY DEF Await, traffic
<1>6. count' \in [Semaphore -> Seq(Nat)] /\ Exist' /\ OthersStay(q) /\ ObjectsStay(q) /\ Meeting(q)
  <2>1. PICK v \in Nat : Counted("/sender", held[q]["/sender"], v)
    BY <1>1, <1>4, <1>5, WaitOrPost
  <2>2. QED
    BY <1>1, <1>2, <1>4, <1>5, <2>1, SemaphoreTaken
<1>7. Types'
  BY <1>1, <1>2, <1>5, <1>6, Kinds DEF Types, ReceiverPcs
<1>8. HoldingOf(q)' /\ HeardOf(q)'
  BY <1>2, <1>3, <1>5 DEF HoldingOf, HeardOf, LeavingPcs, Opening
<1>9. QED
  BY <1>1, <1>6, <1>7, <1>8 DEF Taken

\* A step on the store a process holds.
LEMMA StoreTaken ==
  ASSUME Types, Exist, NEW q \in Process, NEW v \in Store,
         held[q]["store"] # 0, ~Gone(q),
         store' = [store EXCEPT ![held[q]["store"]] = v],
         UNCHANGED <<flag, named, count, held, sound, crowd>>,
         \A p \in Process \ {q} :
           /\ pc'[p] = pc[p]
           /\ p \in Senders => n'[p] = n[p]
           /\ p \in Receivers => got'[p] = got[p]
  PROVE  /\ store' \in Seq(Store) /\ store'[held[q]["store"]] = v
         /\ Exist' /\ OthersStay(q) /\ ObjectsStay(q) /\ Meeting(q)
<1> DEFINE g == held[q]["store"]
<1>1. g \in 1 .. Len(store)
  BY DEF Exist
<1>2. /\ store' \in Seq(Store) /\ Len(store') = Len(store)
      /\ store'[g] = v
      /\ \A h \in 1 .. Len(store) : h # g => store'[h] = store[h]
  BY <1>1, StorePut
<1>3. Exist'
  BY <1>2 DEF Exist
<1>4. OthersStay(q)
  BY DEF OthersStay
<1>5. ObjectsStay(q)
  <2>1. \A m \in Semaphore : Len(count[m]) \in Nat
    BY LenProperties DEF Types
  <2>2. Len(store) \in Nat
    BY LenProperties DEF Types
  <2>3. QED
    BY <1>2, <2>1, <2>2 DEF ObjectsStay
<1>6. Meeting(q)
  BY NoHold
<1>7. QED
  BY <1>2, <1>3, <1>4, <1>5, <1>6

\* Put: the sender's next message, behind what is in a queue, over what is in a segment.
LEMMA PutEffect ==
  ASSUME Lines \in Nat, Types, Exist, Holding, Counts, NEW q \in Senders, Put(q)
  PROVE  LET g == held[q]["store"]
             m == Script(q)[n[q] + 1] IN
         /\ n[q] + 1 \in 1 .. Lines + 1 /\ m \in Msg
         /\ g \in 1 .. Len(store) /\ store[g] \in Store
         /\ \E msgs \in Seq(Msg) :
              /\ store' = [store EXCEPT ![g] = [store[g] EXCEPT !.msgs = msgs]]
              /\ \/ flag = 1 /\ msgs = Append(store[g].msgs, m)
                 \/ flag = 2 /\ msgs = <<m>>
<1> DEFINE g == held[q]["store"]
           m == Script(q)[n[q] + 1]
<1>1. q \in Process /\ pc[q] = "put"
  BY Kinds DEF Put, Go
<1>2. SentOf(q) /\ HoldingOf(q) /\ n[q] \in Nat
  BY <1>1 DEF Counts, Holding, Types
<1>3. n[q] + 1 \in 1 .. Lines + 1
  BY <1>1, <1>2 DEF SentOf
<1>4. m \in Msg
  BY <1>3, ScriptFacts
<1>5. held[q]["store"] # 0
  BY <1>1, <1>2 DEF HoldingOf, Name
<1>6. g \in 1 .. Len(store)
  BY <1>1, <1>5 DEF Exist
<1>7. store[g] \in Store
  BY <1>6, ElementOfSeq DEF Types
<1>8. store[g].msgs \in Seq(Msg)
  BY <1>7 DEF Store
<1>9. Append(store[g].msgs, m) \in Seq(Msg) /\ <<m>> \in Seq(Msg)
  BY <1>4, <1>8
<1>10. \/ flag = 1 /\ store' = [store EXCEPT ![g].msgs = Append(@, m)]
       \/ flag = 2 /\ store' = [store EXCEPT ![g].msgs = <<m>>]
  BY DEF Put
<1>11. QED
  BY <1>3, <1>4, <1>6, <1>7, <1>9, <1>10

LEMMA PutTaken ==
  ASSUME Lines \in Nat, Types, Exist, Holding, Counts, NEW q \in Senders, Put(q)
  PROVE  Taken(q)
<1>1. q \in Process /\ q \notin Receivers
  BY Kinds
<1>2. /\ pc[q] = "put" /\ pc'[q] = "announce" /\ \A p \in Process \ {q} : pc'[p] = pc[p]
      /\ pc' \in [Process -> SenderPcs \cup ReceiverPcs]
  BY <1>1 DEF Put, Go, Types, SenderPcs
<1>3. HoldingOf(q) /\ SentOf(q)
  BY <1>1 DEF Holding, Counts
<1>4. held[q]["store"] # 0 /\ ~Gone(q)
  BY <1>2, <1>3 DEF HoldingOf, Gone, Name
<1>5. UNCHANGED <<flag, named, count, held, n, got, sound, crowd>>
  BY DEF Put, traffic
<1>6. store' \in Seq(Store) /\ Exist' /\ OthersStay(q) /\ ObjectsStay(q) /\ Meeting(q)
  <2>1. PICK msgs \in Seq(Msg) :
          store' = [store EXCEPT ![held[q]["store"]] = [store[held[q]["store"]] EXCEPT !.msgs = msgs]]
    BY PutEffect
  <2>2. [store[held[q]["store"]] EXCEPT !.msgs = msgs] \in Store
    BY PutEffect DEF Store
  <2>3. QED
    BY <1>1, <1>2, <1>4, <1>5, <2>1, <2>2, StoreTaken
<1>7. Types'
  BY <1>1, <1>2, <1>5, <1>6, Kinds DEF Types, SenderPcs
<1>8. HoldingOf(q)' /\ SentOf(q)'
  BY <1>2, <1>3, <1>5 DEF HoldingOf, SentOf, LeavingPcs, Opening
<1>9. QED
  BY <1>1, <1>6, <1>7, <1>8 DEF Taken

\* What is taken from a queue or a segment is a message.
LEMMA MessageType ==
  ASSUME Types, NEW q \in Receivers
  PROVE  Message(q) \in Msg
<1>1. got[q] \in Seq(Msg)
  BY DEF Types
<1>2. Zeros \in Msg
  BY DEF Zeros, Msg
<1>3. CASE got[q] # <<>>
  <2>1. Len(got[q]) \in 1 .. Len(got[q])
    BY <1>1, <1>3, EmptySeq, LenProperties
  <2>2. QED
    BY <1>1, <1>3, <2>1, ElementOfSeq DEF Message, Last
<1>4. QED
  BY <1>2, <1>3 DEF Message

\* Get: what receive() returns, and what is left.
LEMMA GetEffect ==
  ASSUME Types, Exist, Holding, NEW q \in Receivers, Get(q)
  PROVE  LET g == held[q]["store"] IN
         /\ g \in 1 .. Len(store) /\ store[g] \in Store
         /\ \/ \E m \in Msg : Received(q, m)
            \/ pc'[q] = "killed" /\ UNCHANGED got
         /\ \E v \in Store : store' = [store EXCEPT ![g] = v]
         /\ pc[q] = "get"
<1> DEFINE g == held[q]["store"]
<1>1. q \in Process /\ pc[q] = "get"
  BY Kinds DEF Get
<1>2. held[q]["store"] # 0
  BY <1>1 DEF Holding, HoldingOf, Name
<1>3. g \in 1 .. Len(store)
  BY <1>1, <1>2 DEF Exist
<1>4. store[g] \in Store
  BY <1>3, ElementOfSeq DEF Types
<1>5. store[g].msgs \in Seq(Msg)
  BY <1>4 DEF Store
<1>6. store = [store EXCEPT ![g] = store[g]]
  BY <1>3 DEF Types
<1>7. CASE flag = 1 /\ store[g].msgs # <<>> /\ Received(q, Head(store[g].msgs))
           /\ store' = [store EXCEPT ![g].msgs = Tail(@)]
  <2>1. Head(store[g].msgs) \in Msg /\ Tail(store[g].msgs) \in Seq(Msg)
    BY <1>5, <1>7, HeadTailProperties
  <2>2. [store[g] EXCEPT !.msgs = Tail(store[g].msgs)] \in Store
    BY <1>4, <2>1 DEF Store
  <2>3. store' = [store EXCEPT ![g] = [store[g] EXCEPT !.msgs = Tail(store[g].msgs)]]
    BY <1>7
  <2>4. QED
    BY <1>1, <1>3, <1>4, <1>7, <2>1, <2>2, <2>3
<1>8. CASE Received(q, Message(q)) /\ UNCHANGED store
  BY <1>1, <1>3, <1>4, <1>6, <1>8, MessageType
<1>9. CASE Received(q, IF store[g].msgs = <<>> THEN Zeros ELSE Head(store[g].msgs)) /\ UNCHANGED store
  <2>1. (IF store[g].msgs = <<>> THEN Zeros ELSE Head(store[g].msgs)) \in Msg
    BY <1>5, HeadTailProperties DEF Zeros, Msg
  <2>2. QED
    BY <1>1, <1>3, <1>4, <1>6, <1>9, <2>1
<1>10. CASE Go(q, "get", "killed") /\ UNCHANGED <<got, store>>
  BY <1>1, <1>3, <1>4, <1>6, <1>10 DEF Go, Types
<1>11. QED
  BY <1>7, <1>8, <1>9, <1>10 DEF Get

LEMMA GetTaken ==
  ASSUME Types, Exist, Holding, Counts, NEW q \in Receivers, Get(q)
  PROVE  Taken(q)
<1>1. q \in Process /\ q \notin Senders
  BY Kinds
<1>2. /\ pc[q] = "get" /\ pc'[q] \in {"killed", "unlink store", "ask"}
      /\ \A p \in Process \ {q} : pc'[p] = pc[p]
      /\ pc' \in [Process -> SenderPcs \cup ReceiverPcs]
      /\ got' \in [Receivers -> Seq(Msg)]
      /\ \A p \in Receivers \ {q} : got'[p] = got[p]
  <2>1. CASE \E m \in Msg : Received(q, m)
    <3>1. PICK m \in Msg : Received(q, m)
      BY <2>1
    <3>2. got[q] \in Seq(Msg) /\ Append(got[q], m) \in Seq(Msg)
      BY DEF Types
    <3>3. got' = [got EXCEPT ![q] = Append(got[q], m)]
      BY <3>1 DEF Received
    <3>4. got' \in [Receivers -> Seq(Msg)] /\ \A p \in Receivers \ {q} : got'[p] = got[p]
      BY <3>2, <3>3 DEF Types
    <3>5. QED
      BY <1>1, <3>1, <3>4 DEF Received, Go, Types, ReceiverPcs, LeavingPcs
  <2>2. CASE pc'[q] = "killed" /\ UNCHANGED got
    <3>1. Go(q, "get", "killed")
      BY <1>1, <2>2 DEF Get, Received, Go, Types
    <3>2. QED
      BY <1>1, <2>2, <3>1 DEF Go, Types, ReceiverPcs
  <2>3. QED
    BY <2>1, <2>2, GetEffect
<1>3. HoldingOf(q)
  BY <1>1 DEF Holding
<1>4. held[q]["store"] # 0 /\ ~Gone(q)
  BY <1>2, <1>3 DEF HoldingOf, Gone, Name
<1>5. UNCHANGED <<flag, named, count, held, n, sound, crowd>>
  BY DEF Get
<1>6. store' \in Seq(Store) /\ Exist' /\ OthersStay(q) /\ ObjectsStay(q) /\ Meeting(q)
  <2>1. PICK v \in Store : store' = [store EXCEPT ![held[q]["store"]] = v]
    BY GetEffect
  <2>2. QED
    BY <1>1, <1>2, <1>4, <1>5, <2>1, StoreTaken
<1>7. Types'
  BY <1>1, <1>2, <1>5, <1>6, Kinds DEF Types, ReceiverPcs, LeavingPcs
<1>8. HoldingOf(q)' /\ HeardOf(q)'
  BY <1>2, <1>3, <1>5 DEF HoldingOf, HeardOf, LeavingPcs, Opening
<1>9. QED
  BY <1>1, <1>6, <1>7, <1>8 DEF Taken

-----------------------------------------------------------------------------
(* A sender and a receiver that nobody else has met.                      *)

\* Who has met holds the same object, and who runs and holds the same object
\* has met.
Met ==
  \A p1 \in Process, p2 \in Process, m \in Name : p1 # p2 =>
    /\ <<{p1, p2}, m>> \in crowd => held[p1][m] = held[p2][m] /\ held[p1][m] # 0
    /\ held[p1][m] = held[p2][m] /\ held[p1][m] # 0 /\ ~Gone(p1) /\ ~Gone(p2) =>
         <<{p1, p2}, m>> \in crowd

\* Nobody else has met one of the two; and a pair has met wherever both hold
\* something.
Alone(s, r) ==
  /\ s \in sound
  /\ \A meeting \in crowd : meeting[1] \cap {s, r} # {} => meeting[1] = {s, r}
Pair(s, r) ==
  /\ Alone(s, r)
  /\ \A m \in Name : held[s][m] # 0 /\ held[r][m] # 0 => <<{s, r}, m>> \in crowd

\* What the store of a fresh session, and of one with a message under way, holds.
Empty(g) == flag = 1 => store[g].fits /\ store[g].msgs = <<>>
Full(g, m) == (flag = 1 => store[g].fits) /\ store[g].msgs = <<m>>

\* The receiver has not posted yet; it has, and still runs.
NotAsked(r) == pc[r] \in {"idle"} \cup Opening \/ (pc[r] = "ask" /\ got[r] = <<>>)
Asked(r) == ~Gone(r) /\ ~NotAsked(r)

\* Before the receiver has asked, the sender has sent nothing: the semaphores are
\* at 0 and the store is empty.
CleanAt(s, r) ==
  Pair(s, r) /\ (~Gone(s) \/ Together(s, r)) /\ NotAsked(r) =>
    /\ pc[s] \in {"idle", "wait", "failed", "killed"} \cup Opening
    /\ n[s] = 0
    /\ held[s]["store"] # 0 => Empty(held[s]["store"])
    /\ \A m \in Semaphore : held[s][m] # 0 => count[m][held[s][m]] = 0

\* A request stays pending for a sender that has not opened its semaphore yet.
PendingAt(s, r) ==
  Pair(s, r) /\ Asked(r) /\ held[s]["/receiver"] = 0 =>
    count["/receiver"][held[r]["/receiver"]] > 0

\* The sender has put the message that was asked for; it waits for a request.
Served(s) == pc[s] \in {"wait", "ended", "killed"} \cup LeavingPcs
Waits(s) == pc[s] \in {"opened", "wait", "failed", "killed"}

\* Whose turn it is: a request is posted, served and taken before the next, and
\* the store holds the message that was announced and nothing else.
Turn(s, r) ==
  LET k == Len(got[r])
      toSender == count["/receiver"][held[s]["/receiver"]]
      toReceiver == count["/sender"][held[s]["/sender"]]
      g == held[s]["store"]
      next == Script(s)[k + 1]
  IN
  /\ pc[r] \in {"ask", "await", "get"} => k <= Lines
  /\ pc[r] = "ask" => toSender = 0 /\ toReceiver = 0 /\ n[s] = k /\ Waits(s) /\ Empty(g)
  /\ pc[r] = "await" =>
     \/ toSender = 1 /\ toReceiver = 0 /\ n[s] = k /\ Waits(s) /\ Empty(g)
     \/ toSender = 0 /\ toReceiver = 0 /\ n[s] = k /\ pc[s] = "put" /\ Empty(g)
     \/ toSender = 0 /\ toReceiver = 0 /\ n[s] = k /\ pc[s] = "announce" /\ Full(g, next)
     \/ toSender = 0 /\ toReceiver = 0 /\ pc[s] = "killed"
     \/ toSender = 0 /\ toReceiver = 1 /\ n[s] = k + 1 /\ Served(s) /\ Full(g, next)
  /\ pc[r] = "get" => toSender = 0 /\ toReceiver = 0 /\ n[s] = k + 1 /\ Served(s) /\ Full(g, next)

\* The receiver has a beginning of the script, and all of it when it leaves.
Delivered(s, r) ==
  /\ Len(got[r]) <= Lines + 1 /\ got[r] = SubSeq(Script(s), 1, Len(got[r]))
  /\ pc[r] \in {"ended"} \cup LeavingPcs => Len(got[r]) = Lines + 1

WorksAt(s, r) == Together(s, r) => Turn(s, r) /\ Delivered(s, r)

\* What holds of every process, apart from pairs.
Basics == Types /\ Exist /\ Holding /\ Counts /\ Met

\* Every step keeps the record of meetings true.
LEMMA MetStep ==
  ASSUME Types, Met, NEW q \in Process, OthersStay(q), Meeting(q)
  PROVE  Met'
<1> SUFFICES ASSUME NEW p1 \in Process, NEW p2 \in Process, NEW m \in Name, p1 # p2
             PROVE  /\ <<{p1, p2}, m>> \in crowd' => held'[p1][m] = held'[p2][m] /\ held'[p1][m] # 0
                    /\ held'[p1][m] = held'[p2][m] /\ held'[p1][m] # 0 /\ ~Gone(p1)' /\ ~Gone(p2)' =>
                         <<{p1, p2}, m>> \in crowd'
  BY DEF Met
<1> DEFINE
  First(x, y) == <<{x, y}, m>> \in crowd' => held'[x][m] = held'[y][m] /\ held'[x][m] # 0
  Second(x, y) == held'[x][m] = held'[y][m] /\ held'[x][m] # 0 /\ ~Gone(x)' /\ ~Gone(y)' =>
                    <<{x, y}, m>> \in crowd'
<1>1. ASSUME NEW p \in Process \ {q} PROVE First(p, q) /\ Second(p, q)
  <2>1. /\ held'[p] = held[p] /\ pc'[p] = pc[p]
        /\ held[q][m] # 0 => held'[q][m] = held[q][m]
        /\ Gone(q) /\ ~Gone(q)' => held'[q][m] = 0
    BY DEF OthersStay, Meeting
  <2>2. /\ <<{p, q}, m>> \in crowd => held[p][m] = held[q][m] /\ held[p][m] # 0
        /\ held[p][m] = held[q][m] /\ held[p][m] # 0 /\ ~Gone(p) /\ ~Gone(q) => <<{p, q}, m>> \in crowd
    BY DEF Met
  <2>3. /\ crowd \subseteq crowd'
        /\ <<{p, q}, m>> \in crowd' =>
            \/ <<{p, q}, m>> \in crowd
            \/ ~Gone(p) /\ ~Gone(q) /\ held[q][m] = 0 /\ held'[q][m] = held[p][m] /\ held[p][m] # 0
        /\ held'[q][m] # held[q][m] /\ held[p][m] = held'[q][m] /\ held[p][m] # 0 /\ ~Gone(p) =>
            <<{p, q}, m>> \in crowd'
    BY DEF Meeting
  <2>4. Gone(p)' = Gone(p)
    BY <2>1 DEF Gone
  <2>5. First(p, q)
    BY <2>1, <2>2, <2>3
  <2>6. Second(p, q)
    BY <2>1, <2>2, <2>3, <2>4
  <2>7. QED
    BY <2>5, <2>6
<1>2. ASSUME NEW x \in Process \ {q}, NEW y \in Process \ {q}, x # y PROVE First(x, y) /\ Second(x, y)
  <2>1. held'[x] = held[x] /\ pc'[x] = pc[x] /\ held'[y] = held[y] /\ pc'[y] = pc[y]
    BY DEF OthersStay
  <2>2. /\ <<{x, y}, m>> \in crowd => held[x][m] = held[y][m] /\ held[x][m] # 0
        /\ held[x][m] = held[y][m] /\ held[x][m] # 0 /\ ~Gone(x) /\ ~Gone(y) => <<{x, y}, m>> \in crowd
    BY <1>2 DEF Met
  <2>3. <<{x, y}, m>> \in crowd <=> <<{x, y}, m>> \in crowd'
    BY DEF Meeting
  <2>4. QED
    BY <2>1, <2>2, <2>3 DEF Gone
<1>3. {p1, p2} = {p2, p1}
  OBVIOUS
<1>4. CASE p1 = q
  <2>1. First(p2, q) /\ Second(p2, q)
    BY <1>1, <1>4
  <2>2. QED
    BY <2>1, <1>3, <1>4
<1>5. CASE p2 = q
  BY <1>1, <1>5
<1>6. CASE p1 # q /\ p2 # q
  BY <1>2, <1>6
<1>7. QED
  BY <1>4, <1>5, <1>6

\* Who is alone together was so before; and has met before, unless the step is a
\* meeting of the two.
LEMMA PairBefore ==
  ASSUME Types, NEW s \in Senders, NEW r \in Receivers, NEW q \in Process,
         OthersStay(q), Meeting(q), Pair(s, r)'
  PROVE  Pair(s, r)
<1>1. s \in Process /\ r \in Process /\ s # r
  BY Kinds
<1>2. Alone(s, r)
  BY DEF Pair, Alone, OthersStay, Meeting
<1>3. ASSUME NEW m \in Name, held[s][m] # 0, held[r][m] # 0 PROVE <<{s, r}, m>> \in crowd
  <2>1. held'[s][m] = held[s][m] /\ held'[r][m] = held[r][m]
    BY <1>1, <1>3 DEF OthersStay, Meeting
  <2>2. <<{s, r}, m>> \in crowd'
    BY <1>3, <2>1 DEF Pair
  <2>3. {s, r} = {r, s}
    OBVIOUS
  <2>4. CASE q = s
    <3>1. <<{r, q}, m>> \in crowd' => <<{r, q}, m>> \in crowd
      BY <1>1, <1>3, <2>4 DEF Meeting
    <3>2. QED
      BY <2>2, <2>3, <2>4, <3>1
  <2>5. CASE q = r
    BY <1>1, <1>3, <2>2, <2>5 DEF Meeting
  <2>6. CASE q # s /\ q # r
    BY <1>1, <2>2, <2>6 DEF Meeting
  <2>7. QED
    BY <2>4, <2>5, <2>6
<1>4. QED
  BY <1>2, <1>3 DEF Pair

\* Who is together was so before a step of a third process, and before one of a
\* process that holds everything.
LEMMA TogetherBefore ==
  ASSUME Types, NEW s \in Senders, NEW r \in Receivers, NEW q \in Process,
         OthersStay(q), Meeting(q), Together(s, r)',
         q \notin {s, r} \/ Gone(s) \/ Gone(r) \/ \A m \in Name : held[q][m] # 0
  PROVE  Together(s, r)
<1>1. s \in Process /\ r \in Process /\ s # r
  BY Kinds
<1>2. Alone(s, r)
  BY DEF Together, Alone, OthersStay, Meeting
<1>3. ASSUME NEW m \in Name PROVE <<{s, r}, m>> \in crowd
  <2>1. <<{s, r}, m>> \in crowd'
    BY DEF Together
  <2>2. {s, r} = {r, s}
    OBVIOUS
  <2>3. CASE q = s
    <3>1. <<{r, q}, m>> \in crowd' => <<{r, q}, m>> \in crowd
      BY <1>1, <2>3 DEF Meeting
    <3>2. QED
      BY <2>1, <2>2, <2>3, <3>1
  <2>4. CASE q = r
    <3>1. <<{s, q}, m>> \in crowd' => <<{s, q}, m>> \in crowd
      BY <1>1, <2>4 DEF Meeting
    <3>2. QED
      BY <2>1, <2>4, <3>1
  <2>5. CASE q # s /\ q # r
    BY <1>1, <2>1, <2>5 DEF Meeting
  <2>6. QED
    BY <2>3, <2>4, <2>5
<1>4. QED
  BY <1>2, <1>3 DEF Together, Alone

\* A session is a pair.
LEMMA TogetherPair ==
  ASSUME NEW s, NEW r, Together(s, r)
  PROVE  Pair(s, r)
BY DEF Together, Pair, Alone

\* Both hold the same objects.
LEMMA TogetherSame ==
  ASSUME Met, NEW s \in Senders, NEW r \in Receivers, Together(s, r)
  PROVE  \A m \in Name : held[s][m] = held[r][m] /\ held[s][m] # 0
<1>1. s \in Process /\ r \in Process /\ s # r
  BY Kinds
<1>2. ASSUME NEW m \in Name PROVE held[s][m] = held[r][m] /\ held[s][m] # 0
  <2>1. <<{s, r}, m>> \in crowd
    BY DEF Together
  <2>2. QED
    BY <1>1, <2>1 DEF Met
<1>3. QED
  BY <1>2

\* Nobody else touches what one of the two holds and runs with.
LEMMA ApartStays ==
  ASSUME Types, Exist, Met, NEW s \in Senders, NEW r \in Receivers, Pair(s, r),
         NEW q \in Process \ {s, r}, OthersStay(q), ObjectsStay(q),
         NEW p \in {s, r}, ~Gone(p)
  PROVE  /\ \A m \in Semaphore : held[p][m] # 0 => count'[m][held[p][m]] = count[m][held[p][m]]
         /\ held[p]["store"] # 0 => store'[held[p]["store"]] = store[held[p]["store"]]
<1>1. p \in Process /\ p # q
  BY Kinds
<1>2. ASSUME NEW m \in Name, held[p][m] # 0, held[q][m] = held[p][m], ~Gone(q) PROVE FALSE
  <2>1. <<{p, q}, m>> \in crowd
    BY <1>1, <1>2 DEF Met
  <2>2. {p, q} \cap {s, r} # {}
    OBVIOUS
  <2>3. {p, q} = {s, r}
    <3>1. \A meeting \in crowd : meeting[1] \cap {s, r} # {} => meeting[1] = {s, r}
      BY DEF Pair, Alone
    <3>2. <<{p, q}, m>>[1] = {p, q}
      OBVIOUS
    <3>3. QED
      BY <2>1, <2>2, <3>1, <3>2
  <2>4. QED
    BY <2>3
<1>3. ASSUME NEW m \in Semaphore, held[p][m] # 0 PROVE count'[m][held[p][m]] = count[m][held[p][m]]
  <2>1. held[p][m] \in 1 .. Len(count[m])
    BY <1>1, <1>3 DEF Exist
  <2>2. QED
    BY <1>2, <1>3, <2>1 DEF ObjectsStay, Name
<1>4. ASSUME held[p]["store"] # 0 PROVE store'[held[p]["store"]] = store[held[p]["store"]]
  <2>1. held[p]["store"] \in 1 .. Len(store)
    BY <1>1, <1>4 DEF Exist
  <2>2. QED
    BY <1>2, <1>4, <2>1 DEF ObjectsStay, Name
<1>5. QED
  BY <1>3, <1>4

\* A receiver that is on its way to its first call runs, once it holds everything.
LEMMA NotAskedRuns ==
  ASSUME Holding, NEW r \in Receivers, NotAsked(r), \A m \in Name : held[r][m] # 0
  PROVE  pc[r] \in {"opened", "ask"} /\ ~Gone(r)
<1>1. HoldingOf(r)
  BY Kinds DEF Holding
<1>2. QED
  BY <1>1 DEF HoldingOf, NotAsked, Opening, Gone, Name, Semaphore

\* The step of a third process.
LEMMA OtherStep ==
  ASSUME Basics, NEW s \in Senders, NEW r \in Receivers, NEW q \in Process \ {s, r},
         OthersStay(q), ObjectsStay(q), Meeting(q),
         CleanAt(s, r), PendingAt(s, r), WorksAt(s, r)
  PROVE  CleanAt(s, r)' /\ PendingAt(s, r)' /\ WorksAt(s, r)'
<1> USE DEF Basics
<1>1. s \in Process /\ r \in Process /\ s # r /\ s # q /\ r # q
  BY Kinds
<1>2. /\ pc'[s] = pc[s] /\ pc'[r] = pc[r] /\ held'[s] = held[s] /\ held'[r] = held[r]
      /\ n'[s] = n[s] /\ got'[r] = got[r] /\ flag' = flag
  BY <1>1 DEF OthersStay
<1>3. NotAsked(r)' = NotAsked(r) /\ Gone(s)' = Gone(s) /\ Asked(r)' = Asked(r)
  BY <1>2 DEF NotAsked, Gone, Asked
<1>4. Pair(s, r)' => Pair(s, r)
  BY PairBefore
<1>5. Together(s, r)' => Together(s, r)
  BY TogetherBefore
<1>6. ASSUME Pair(s, r), NEW p \in {s, r}, ~Gone(p)
      PROVE  /\ \A m \in Semaphore : held[p][m] # 0 => count'[m][held[p][m]] = count[m][held[p][m]]
             /\ held[p]["store"] # 0 => store'[held[p]["store"]] = store[held[p]["store"]]
  BY <1>1, <1>6, ApartStays
<1>7. CleanAt(s, r)'
  <2> SUFFICES ASSUME Pair(s, r)', (~Gone(s) \/ Together(s, r))', NotAsked(r)'
               PROVE  /\ pc'[s] \in {"idle", "wait", "failed", "killed"} \cup Opening
                      /\ n'[s] = 0
                      /\ held'[s]["store"] # 0 => Empty(held[s]["store"])'
                      /\ \A m \in Semaphore : held'[s][m] # 0 => count'[m][held'[s][m]] = 0
    BY DEF CleanAt
  <2>1. Pair(s, r) /\ (~Gone(s) \/ Together(s, r)) /\ NotAsked(r)
    BY <1>3, <1>4, <1>5
  <2>2. /\ pc[s] \in {"idle", "wait", "failed", "killed"} \cup Opening
        /\ n[s] = 0
        /\ held[s]["store"] # 0 => Empty(held[s]["store"])
        /\ \A m \in Semaphore : held[s][m] # 0 => count[m][held[s][m]] = 0
    BY <2>1 DEF CleanAt
  <2>3. /\ \A m \in Semaphore : held[s][m] # 0 => count'[m][held[s][m]] = count[m][held[s][m]]
        /\ held[s]["store"] # 0 => store'[held[s]["store"]] = store[held[s]["store"]]
    <3>1. CASE ~Gone(s)
      BY <1>6, <2>1, <3>1
    <3>2. CASE Together(s, r)
      <4>1. \A m \in Name : held[s][m] = held[r][m] /\ held[s][m] # 0
        BY <3>2, TogetherSame
      <4>2. ~Gone(r)
        BY <2>1, <4>1, NotAskedRuns
      <4>3. /\ \A m \in Semaphore : held[r][m] # 0 => count'[m][held[r][m]] = count[m][held[r][m]]
            /\ held[r]["store"] # 0 => store'[held[r]["store"]] = store[held[r]["store"]]
        BY <1>6, <2>1, <4>2
      <4>4. QED
        BY <4>1, <4>3 DEF Name
    <3>3. QED
      BY <2>1, <3>1, <3>2
  <2>4. QED
    BY <1>2, <2>2, <2>3 DEF Empty
<1>8. PendingAt(s, r)'
  <2> SUFFICES ASSUME Pair(s, r)', Asked(r)', held'[s]["/receiver"] = 0
               PROVE  count'["/receiver"][held'[r]["/receiver"]] > 0
    BY DEF PendingAt
  <2>1. count["/receiver"][held[r]["/receiver"]] > 0 /\ Pair(s, r) /\ ~Gone(r) /\ Asked(r)
    BY <1>2, <1>3, <1>4 DEF PendingAt, Asked
  <2>2. held[r]["/receiver"] # 0
    <3>1. HoldingOf(r) /\ pc[r] \in ReceiverPcs
      BY <1>1 DEF Holding, Types
    <3>2. QED
      BY <2>1, <3>1 DEF HoldingOf, ReceiverPcs, Opening, Gone, Asked, NotAsked, Name, Semaphore
  <2>3. QED
    BY <1>2, <1>6, <2>1, <2>2 DEF Semaphore
<1>9. WorksAt(s, r)'
  <2> SUFFICES ASSUME Together(s, r)' PROVE Turn(s, r)' /\ Delivered(s, r)'
    BY DEF WorksAt
  <2>1. Together(s, r) /\ Pair(s, r) /\ Turn(s, r) /\ Delivered(s, r)
    BY <1>5, TogetherPair DEF WorksAt
  <2>2. Delivered(s, r)'
    BY <1>2, <2>1 DEF Delivered, Script
  <2>3. Script(s)' = Script(s) /\ Served(s)' = Served(s) /\ Waits(s)' = Waits(s)
    BY <1>2 DEF Script, Served, Waits
  <2>4. Turn(s, r)'
    <3>1. CASE Gone(r)
      BY <1>2, <3>1 DEF Turn, Gone
    <3>2. CASE ~Gone(r)
      <4>1. \A m \in Name : held[s][m] = held[r][m] /\ held[s][m] # 0
        BY <2>1, TogetherSame
      <4>2. /\ \A m \in Semaphore : held[r][m] # 0 => count'[m][held[r][m]] = count[m][held[r][m]]
            /\ held[r]["store"] # 0 => store'[held[r]["store"]] = store[held[r]["store"]]
        BY <1>6, <2>1, <3>2
      <4>3. /\ count'["/receiver"][held'[s]["/receiver"]] = count["/receiver"][held[s]["/receiver"]]
            /\ count'["/sender"][held'[s]["/sender"]] = count["/sender"][held[s]["/sender"]]
            /\ store'[held'[s]["store"]] = store[held[s]["store"]]
        BY <1>2, <4>1, <4>2 DEF Name, Semaphore
      <4>4. QED
        BY <1>2, <2>1, <2>3, <4>3 DEF Turn, Empty, Full
    <3>3. QED
      BY <3>1, <3>2
  <2>5. QED
    BY <2>2, <2>4
<1>10. QED
  BY <1>7, <1>8, <1>9

-----------------------------------------------------------------------------
(* What a step of the sender has to keep.                                  *)

\* A receiver that has not asked yet finds a clean session.
LEMMA FreshWorks ==
  ASSUME Lines \in Nat, NEW s \in Senders, NEW r \in Receivers,
         Basics', CleanAt(s, r)', Together(s, r)', NotAsked(r)'
  PROVE  WorksAt(s, r)'
<1> USE DEF Basics
<1>1. s \in Process /\ r \in Process /\ s # r
  BY Kinds
<1>2. ASSUME NEW m \in Name PROVE held'[s][m] = held'[r][m] /\ held'[s][m] # 0
  <2>1. <<{s, r}, m>> \in crowd'
    BY DEF Together
  <2>2. QED
    BY <1>1, <2>1 DEF Met
<1>3. HoldingOf(s)' /\ HoldingOf(r)' /\ HeardOf(r)'
  BY <1>1 DEF Holding, Counts
<1>4. pc'[r] \in {"opened", "ask"}
  BY <1>2, <1>3 DEF HoldingOf, NotAsked, Opening, Name, Semaphore
<1>5. got'[r] = <<>>
  BY <1>3, <1>4 DEF HeardOf, NotAsked, Opening
<1>6. Delivered(s, r)'
  <2>1. Script(s) \in Seq(Msg)
    BY ScriptFacts
  <2>2. SubSeq(Script(s), 1, 0) = <<>>
    BY <2>1
  <2>3. Len(got'[r]) = 0
    BY <1>5
  <2>4. QED
    <3>1. Len(got'[r]) <= Lines + 1
      BY <2>3
    <3>2. got'[r] = SubSeq(Script(s), 1, Len(got'[r]))
      BY <1>5, <2>2, <2>3
    <3>3. pc'[r] \notin {"ended"} \cup LeavingPcs
      BY <1>4 DEF LeavingPcs
    <3>4. QED
      BY <3>1, <3>2, <3>3 DEF Delivered
<1>7. Turn(s, r)'
  <2>1. Pair(s, r)' /\ ~Gone(r)'
    BY <1>4 DEF Pair, Together, Alone, Gone
  <2>2. /\ pc'[s] \in {"idle", "wait", "failed", "killed"} \cup Opening
        /\ n'[s] = 0
        /\ held'[s]["store"] # 0 => Empty(held[s]["store"])'
        /\ \A m \in Semaphore : held'[s][m] # 0 => count'[m][held'[s][m]] = 0
    BY <2>1 DEF CleanAt
  <2>3. Waits(s)'
    BY <1>2, <1>3, <2>2 DEF HoldingOf, Waits, Opening, Name, Semaphore
  <2>4. /\ Empty(held[s]["store"])' /\ count'["/receiver"][held'[s]["/receiver"]] = 0
        /\ count'["/sender"][held'[s]["/sender"]] = 0
    BY <1>2, <2>2 DEF Name, Semaphore
  <2>5. Len(got'[r]) = 0
    BY <1>5
  <2>6. QED
    BY <1>4, <2>2, <2>3, <2>4, <2>5 DEF Turn
<1>8. QED
  BY <1>6, <1>7 DEF WorksAt

\* What a step of the sender leaves as it is.
LEMMA SenderPending ==
  ASSUME Basics, NEW s \in Senders, NEW r \in Receivers, PendingAt(s, r),
         OthersStay(s), ObjectsStay(s), Meeting(s)
  PROVE  PendingAt(s, r)'
<1> USE DEF Basics
<1>1. s \in Process /\ r \in Process /\ s # r
  BY Kinds
<1> SUFFICES ASSUME Pair(s, r)', Asked(r)', held'[s]["/receiver"] = 0
             PROVE  count'["/receiver"][held'[r]["/receiver"]] > 0
  BY DEF PendingAt
<1>2. pc'[r] = pc[r] /\ held'[r] = held[r] /\ got'[r] = got[r]
  BY <1>1 DEF OthersStay
<1>3. Asked(r) /\ ~Gone(r)
  BY <1>2 DEF Asked, NotAsked, Gone
<1>4. held[s]["/receiver"] = 0
  BY DEF Meeting, Name, Semaphore
<1>5. count["/receiver"][held[r]["/receiver"]] > 0
  BY <1>1, <1>3, <1>4, PairBefore DEF PendingAt
<1>6. held[r]["/receiver"] # 0
  <2>1. HoldingOf(r) /\ pc[r] \in ReceiverPcs
    BY <1>1 DEF Holding, Types
  <2>2. QED
    BY <1>3, <2>1 DEF HoldingOf, ReceiverPcs, Opening, Gone, Asked, NotAsked, Name, Semaphore
<1>7. held[r]["/receiver"] \in 1 .. Len(count["/receiver"])
  BY <1>1, <1>6 DEF Exist, Semaphore
<1>8. QED
  BY <1>2, <1>4, <1>5, <1>6, <1>7 DEF ObjectsStay, Semaphore

\* A step of the sender, if it leaves the session clean and, once the receiver has
\* asked, comes from being together and keeps the turn.
LEMMA SenderWorks ==
  ASSUME Lines \in Nat, Basics, Basics', NEW s \in Senders, NEW r \in Receivers, WorksAt(s, r),
         OthersStay(s), Meeting(s), CleanAt(s, r)',
         Asked(r) /\ Together(s, r)' => Together(s, r),
         Together(s, r) /\ Turn(s, r) => Turn(s, r)'
  PROVE  WorksAt(s, r)'
<1>1. s \in Process /\ r \in Process /\ s # r
  BY Kinds
<1>2. pc'[r] = pc[r] /\ got'[r] = got[r]
  BY <1>1 DEF OthersStay
<1>3. CASE NotAsked(r)
  BY <1>2, <1>3, FreshWorks DEF NotAsked, WorksAt
<1>4. CASE ~NotAsked(r)
  <2> SUFFICES ASSUME Together(s, r)' PROVE Turn(s, r)' /\ Delivered(s, r)'
    BY DEF WorksAt
  <2>1. Together(s, r)
    <3>1. CASE Gone(r)
      BY <1>1, <3>1, TogetherBefore DEF Basics
    <3>2. CASE ~Gone(r)
      BY <1>4, <3>2 DEF Asked
    <3>3. QED
      BY <3>1, <3>2
  <2>2. QED
    BY <1>2, <2>1 DEF WorksAt, Delivered, Script
<1>5. QED
  BY <1>3, <1>4

-----------------------------------------------------------------------------
(* Steps of the sender.                                                    *)

\* Starting and being killed change no object.
LEMMA SenderStart ==
  ASSUME Basics, NEW s \in Senders, NEW r \in Receivers, Start(s), Taken(s)
  PROVE  /\ CleanAt(s, r)'
         /\ Asked(r) /\ Together(s, r)' => Together(s, r)
         /\ Together(s, r) /\ Turn(s, r) => Turn(s, r)'
<1> USE DEF Basics
<1>1. s \in Process /\ HoldingOf(s) /\ SentOf(s) /\ Met
  BY Kinds DEF Holding, Counts
<1>2. pc[s] = "idle" /\ pc'[s] = "store" /\ held' = held /\ n' = n /\ sound' = sound /\ crowd' = crowd
  BY <1>1 DEF Start, Go, Types, traffic
<1>3. \A m \in Name : held[s][m] = 0
  BY <1>1, <1>2 DEF HoldingOf, Name, Semaphore
<1>4. n[s] = 0
  BY <1>1, <1>2 DEF SentOf
<1>5. CleanAt(s, r)'
  BY <1>2, <1>3, <1>4 DEF CleanAt, Opening, Name
<1>6. ~Together(s, r)
  BY <1>3, TogetherSame DEF Name
<1>7. Together(s, r)' => Together(s, r)
  BY <1>2 DEF Together
<1>8. QED
  BY <1>5, <1>6, <1>7

LEMMA SenderKill ==
  ASSUME Basics, NEW s \in Senders, NEW r \in Receivers, Kill(s), Taken(s), CleanAt(s, r)
  PROVE  /\ CleanAt(s, r)'
         /\ Asked(r) /\ Together(s, r)' => Together(s, r)
         /\ Together(s, r) /\ Turn(s, r) => Turn(s, r)'
<1> USE DEF Basics
<1>1. s \in Process /\ r \in Process /\ s # r
  BY Kinds
<1>2. /\ pc'[s] = "killed" /\ pc'[r] = pc[r]
      /\ UNCHANGED <<flag, named, count, store, held, n, got, sound, crowd>>
  BY <1>1 DEF Kill, Types, objects, traffic
<1>3. ~Gone(s) /\ pc[s] # "killed"
  BY DEF Kill, Gone
<1>4. CleanAt(s, r)'
  BY <1>1, <1>2, <1>3 DEF CleanAt, Pair, Alone, NotAsked, Empty, Together
<1>5. Together(s, r)' => Together(s, r)
  BY <1>2 DEF Together
<1>6. Turn(s, r) => Turn(s, r)'
  <2>1. Served(s)' /\ Waits(s)'
    BY <1>2 DEF Served, Waits
  <2>2. QED
    BY <1>2, <1>3, <2>1 DEF Turn, Empty, Full
<1>7. QED
  BY <1>4, <1>5, <1>6

\* The end takes away names only.
LEMMA SenderCleanUp ==
  ASSUME Basics, NEW s \in Senders, NEW r \in Receivers, CleanUp(s), Taken(s), CleanAt(s, r)
  PROVE  /\ CleanAt(s, r)'
         /\ Asked(r) /\ Together(s, r)' => Together(s, r)
         /\ Together(s, r) /\ Turn(s, r) => Turn(s, r)'
<1> USE DEF Basics
<1>1. s \in Process /\ r \in Process /\ s # r
  BY Kinds
<1>2. /\ pc[s] \in LeavingPcs /\ pc'[s] \in LeavingPcs \cup {"ended"}
      /\ UNCHANGED <<flag, count, store, held, n, got, sound, crowd>>
  BY <1>1 DEF CleanUp, Unlink, Go, Types, traffic, LeavingPcs
<1>3. pc'[r] = pc[r]
  BY <1>1 DEF Taken, OthersStay
<1>4. CleanAt(s, r)'
  <2>1. ~Gone(s) /\ pc[s] \notin {"idle", "wait", "failed", "killed"} \cup Opening
    BY <1>2 DEF Gone, LeavingPcs, Opening
  <2>2. QED
    BY <1>2, <1>3, <2>1 DEF CleanAt, Pair, Alone, NotAsked
<1>5. Together(s, r)' => Together(s, r)
  BY <1>2 DEF Together
<1>6. Turn(s, r) => Turn(s, r)'
  <2>1. Served(s)' /\ Served(s) /\ ~Waits(s) /\ pc[s] \notin {"put", "announce", "killed"}
    BY <1>2 DEF Served, Waits, LeavingPcs
  <2>2. QED
    BY <1>2, <1>3, <2>1 DEF Turn, Empty, Full
<1>7. QED
  BY <1>4, <1>5, <1>6

\* The sender leaves opening when it holds all three objects.
LEMMA SenderSenderOpened ==
  ASSUME Basics, NEW s \in Senders, NEW r \in Receivers, SenderOpened(s), Taken(s), CleanAt(s, r)
  PROVE  /\ CleanAt(s, r)'
         /\ Asked(r) /\ Together(s, r)' => Together(s, r)
         /\ Together(s, r) /\ Turn(s, r) => Turn(s, r)'
<1> USE DEF Basics
<1>1. s \in Process /\ r \in Process /\ s # r
  BY Kinds
<1>2. /\ pc[s] = "opened" /\ pc'[s] \in {"wait", "failed"}
      /\ UNCHANGED <<flag, count, held, n, got, sound, crowd>>
      /\ flag = 1 => store' = store
  BY <1>1 DEF SenderOpened, Go, Types, traffic
<1>3. pc'[r] = pc[r]
  BY <1>1 DEF Taken, OthersStay
<1>4. \A g : Empty(g) => Empty(g)'
  BY <1>2 DEF Empty
<1>5. CleanAt(s, r)'
  <2>1. ~Gone(s)
    BY <1>2 DEF Gone
  <2>2. Pair(s, r)' = Pair(s, r) /\ NotAsked(r)' = NotAsked(r)
    BY <1>2, <1>3 DEF Pair, Alone, NotAsked
  <2>3. QED
    BY <1>2, <1>4, <2>1, <2>2 DEF CleanAt
<1>6. Together(s, r)' => Together(s, r)
  BY <1>2 DEF Together
<1>7. Turn(s, r) => Turn(s, r)'
  <2>1. Waits(s)' /\ ~Served(s)
    BY <1>2 DEF Served, Waits, LeavingPcs
  <2>2. QED
    BY <1>2, <1>3, <1>4, <2>1 DEF Turn
<1>8. QED
  BY <1>5, <1>6, <1>7

\* Both hold the same objects after the step.
LEMMA TogetherSameAfter ==
  ASSUME Met', NEW s \in Senders, NEW r \in Receivers, Together(s, r)'
  PROVE  \A m \in Name : held'[s][m] = held'[r][m] /\ held'[s][m] # 0
<1>1. s \in Process /\ r \in Process /\ s # r
  BY Kinds
<1>2. ASSUME NEW m \in Name PROVE held'[s][m] = held'[r][m] /\ held'[s][m] # 0
  <2>1. <<{s, r}, m>> \in crowd'
    BY DEF Together
  <2>2. QED
    BY <1>1, <2>1 DEF Met
<1>3. QED
  BY <1>2

\* The sender opens a store: it is new, or the receiver has it, or it was left
\* behind, and then the sender is not sound unless it is empty.
LEMMA SenderOpenStore ==
  ASSUME Basics, Basics', NEW s \in Senders, NEW r \in Receivers, OpenStore(s), Taken(s), CleanAt(s, r)
  PROVE  /\ CleanAt(s, r)'
         /\ Asked(r) /\ Together(s, r)' => Together(s, r)
         /\ Together(s, r) /\ Turn(s, r) => Turn(s, r)'
<1> USE DEF Basics
<1>1. s \in Process /\ r \in Process /\ s # r /\ HoldingOf(s) /\ SentOf(s)
  BY Kinds DEF Holding, Counts
<1>2. pc[s] = "store" /\ pc'[s] = "/sender" /\ UNCHANGED <<flag, count, n, got>>
  BY <1>1 DEF OpenStore, Go, Types, traffic
<1>3. held[s]["store"] = 0 /\ held[s]["/sender"] = 0 /\ held[s]["/receiver"] = 0
  BY <1>1, <1>2 DEF HoldingOf
<1>4. PICK g \in Nat :
        /\ Hold(s, "store", g)
        /\ sound' = IF flag = 1 /\ ~(store'[g].fits /\ store'[g].msgs = <<>>) THEN sound \ {s} ELSE sound
  <2>1. named["store"] \in Nat /\ Len(store) \in Nat
    BY LenProperties DEF Types, Name
  <2>2. QED
    BY <2>1 DEF OpenStore
<1>5. held'[s]["store"] = g /\ held'[s]["/sender"] = 0 /\ held'[s]["/receiver"] = 0
  BY <1>1, <1>3, <1>4, HeldAfter DEF Name, Semaphore
<1>6. s \in sound' => Empty(g)'
  BY <1>2, <1>4 DEF Empty
<1>7. n[s] = 0
  BY <1>1, <1>2 DEF SentOf, Opening
<1>8. CleanAt(s, r)'
  <2>1. Pair(s, r)' => s \in sound'
    BY DEF Pair, Alone
  <2>2. QED
    BY <1>2, <1>5, <1>6, <1>7, <2>1 DEF CleanAt, Opening, Semaphore
<1>9. ~Together(s, r)'
  BY <1>5, TogetherSameAfter DEF Name, Semaphore
<1>10. ~Together(s, r)
  BY <1>3, TogetherSame DEF Name
<1>11. QED
  BY <1>8, <1>9, <1>10

\* ... and a semaphore, likewise.
LEMMA SenderCreate ==
  ASSUME Basics, Basics', NEW s \in Senders, NEW r \in Receivers, NEW name \in Semaphore,
         CreateSemaphore(s, name), Taken(s), CleanAt(s, r), PendingAt(s, r)
  PROVE  /\ CleanAt(s, r)'
         /\ Asked(r) /\ Together(s, r)' => Together(s, r)
         /\ Together(s, r) /\ Turn(s, r) => Turn(s, r)'
<1> USE DEF Basics
<1> DEFINE creates == named[name] = 0
           g == IF creates THEN Len(count[name]) + 1 ELSE named[name]
<1>1. s \in Process /\ r \in Process /\ s # r /\ HoldingOf(s) /\ SentOf(s) /\ name \in Name
  BY Kinds DEF Holding, Counts, Name
<1>2. pc[s] = name /\ UNCHANGED <<flag, store, n, got>> /\ ~Gone(s)
  BY <1>1 DEF CreateSemaphore, Go, Types, traffic, Gone, Semaphore
<1>3. pc'[s] \in {"/receiver", "opened"} /\ (name = "/sender" => pc'[s] = "/receiver")
  BY <1>1 DEF CreateSemaphore, Go, Types, AfterOpen, SenderPcs
<1>4. held[s][name] = 0
  BY <1>1, <1>2 DEF HoldingOf, Semaphore
<1>5. named[name] \in 0 .. Len(count[name]) /\ Len(count[name]) \in Nat
  BY LenProperties DEF Exist, Types
<1>6. /\ g \in Nat \ {0} /\ Hold(s, name, g)
      /\ sound' = IF ~creates /\ count[name][g] > 0 THEN sound \ {s} ELSE sound
  BY <1>5 DEF CreateSemaphore
<1>7. ~creates => g \in 1 .. Len(count[name]) /\ count[name][g] \in Nat
  <2>1. ~creates => g \in 1 .. Len(count[name])
    BY <1>5
  <2>2. QED
    BY <2>1, ElementOfSeq DEF Types
<1>8. /\ \A m \in Semaphore : \A h \in 1 .. Len(count[m]) : count'[m][h] = count[m][h]
      /\ creates => count'[name][g] = 0
  <2>1. CASE creates
    <3>1. count' = [count EXCEPT ![name] = Append(@, 0)]
      BY <2>1 DEF CreateSemaphore, Created
    <3>2. /\ count'[name][Len(count[name]) + 1] = 0
          /\ \A m \in Semaphore : \A h \in 1 .. Len(count[m]) : count'[m][h] = count[m][h]
      BY <3>1, CountAppend
    <3>3. QED
      BY <2>1, <3>2
  <2>2. CASE ~creates
    BY <2>2 DEF CreateSemaphore
  <2>3. QED
    BY <2>1, <2>2
<1>9. creates => g > Len(count[name])
  BY <1>5
<1> HIDE DEF g, creates
<1>10. held'[s][name] = g /\ \A m \in Name \ {name} : held'[s][m] = held[s][m]
  BY <1>1, <1>6, HeldAfter
<1>11. pc'[r] = pc[r] /\ held'[r] = held[r]
  BY <1>1 DEF Taken, OthersStay
<1>12. s \in sound' => count'[name][g] = 0
  BY <1>6, <1>7, <1>8
<1>13. CleanAt(s, r)'
  <2> SUFFICES ASSUME Pair(s, r)', NotAsked(r)'
               PROVE  /\ pc'[s] \in {"idle", "wait", "failed", "killed"} \cup Opening
                      /\ n'[s] = 0
                      /\ held'[s]["store"] # 0 => Empty(held[s]["store"])'
                      /\ \A m \in Semaphore : held'[s][m] # 0 => count'[m][held'[s][m]] = 0
    BY DEF CleanAt
  <2>1. Pair(s, r) /\ NotAsked(r)
    BY <1>1, <1>2, <1>11, PairBefore DEF Taken, NotAsked
  <2>2. /\ n[s] = 0
        /\ held[s]["store"] # 0 => Empty(held[s]["store"])
        /\ \A m \in Semaphore : held[s][m] # 0 => count[m][held[s][m]] = 0
    BY <1>2, <2>1 DEF CleanAt
  <2>3. held'[s]["store"] # 0 => Empty(held[s]["store"])'
    <3>1. held'[s]["store"] = held[s]["store"]
      BY <1>10 DEF Name, Semaphore
    <3>2. QED
      BY <1>2, <2>2, <3>1 DEF Empty
  <2>4. ASSUME NEW m \in Semaphore, held'[s][m] # 0 PROVE count'[m][held'[s][m]] = 0
    <3>1. CASE m = name
      BY <1>10, <1>12, <3>1 DEF Pair, Alone
    <3>2. CASE m # name
      <4>1. held'[s][m] = held[s][m]
        BY <1>10, <3>2 DEF Name
      <4>2. held[s][m] \in 1 .. Len(count[m])
        BY <1>1, <2>4, <4>1 DEF Exist
      <4>3. QED
        BY <1>8, <2>2, <2>4, <4>1, <4>2
    <3>3. QED
      BY <3>1, <3>2
  <2>5. QED
    BY <1>2, <1>3, <2>2, <2>3, <2>4 DEF Opening
<1>14. ASSUME Asked(r), Together(s, r)' PROVE FALSE
  <2>1. \A m \in Name : held'[s][m] = held'[r][m] /\ held'[s][m] # 0
    BY <1>14, TogetherSameAfter
  <2>2. name = "/receiver"
    <3>1. pc'[s] = "opened"
      <4>1. HoldingOf(s)'
        BY <1>1 DEF Holding
      <4>2. QED
        BY <1>3, <2>1, <4>1 DEF HoldingOf, Name, Semaphore
    <3>2. QED
      BY <1>3, <3>1 DEF Semaphore
  <2>3. Pair(s, r)'
    BY <1>14 DEF Pair, Together, Alone
  <2>4. Pair(s, r)
    BY <1>1, <2>3, PairBefore DEF Taken
  <2>5. count["/receiver"][held[r]["/receiver"]] > 0
    BY <1>4, <1>14, <2>2, <2>4 DEF PendingAt
  <2>6. held[r][name] = g
    BY <1>1, <1>10, <1>11, <2>1
  <2>7. held[r][name] \in 0 .. Len(count[name])
    BY <1>1 DEF Exist
  <2>8. ~creates
    BY <1>5, <1>6, <1>9, <2>6, <2>7
  <2>9. s \notin sound'
    BY <1>6, <2>2, <2>5, <2>6, <2>8
  <2>10. QED
    BY <1>14, <2>9 DEF Together
<1>15. ~Together(s, r)
  BY <1>1, <1>4, TogetherSame
<1>16. QED
  BY <1>13, <1>14, <1>15

\* What a wait or a post does to the two semaphores a process holds.
LEMMA SemaphoreEffect ==
  ASSUME Types, Exist, NEW q \in Process, NEW name \in Semaphore, \A m \in Semaphore : held[q][m] # 0,
         SemWait(q, name) \/ SemPost(q, name)
  PROVE  /\ \A m \in Semaphore : count[m][held[q][m]] \in Nat
         /\ \A m \in Semaphore \ {name} : count'[m][held[q][m]] = count[m][held[q][m]]
         /\ SemWait(q, name) => /\ count[name][held[q][name]] > 0
                                /\ count'[name][held[q][name]] = count[name][held[q][name]] - 1
         /\ SemPost(q, name) => count'[name][held[q][name]] = count[name][held[q][name]] + 1
<1>1. \A m \in Semaphore : held[q][m] \in 1 .. Len(count[m])
  BY DEF Exist
<1>2. \A m \in Semaphore : count[m][held[q][m]] \in Nat
  BY <1>1, ElementOfSeq DEF Types
<1> DEFINE g == held[q][name]
<1>3. ASSUME NEW v \in Nat, Counted(name, g, v)
      PROVE  /\ count'[name][g] = v
             /\ \A m \in Semaphore \ {name} : count'[m][held[q][m]] = count[m][held[q][m]]
  <2>1. g \in 1 .. Len(count[name])
    BY <1>1
  <2> HIDE DEF g
  <2>2. /\ count'[name][g] = v
        /\ \A m \in Semaphore : \A h \in 1 .. Len(count[m]) :
              m # name \/ h # g => count'[m][h] = count[m][h]
    BY <1>3, <2>1, CountPut
  <2>3. QED
    BY <1>1, <2>2
<1>4. held[q][name] # 0
  OBVIOUS
<1>5. CASE SemWait(q, name)
  <2>1. count[name][g] - 1 \in Nat /\ Counted(name, g, count[name][g] - 1)
    BY <1>4, <1>5, WaitOrPost
  <2>2. count'[name][g] = count[name][g] - 1 /\ \A m \in Semaphore \ {name} : count'[m][held[q][m]] = count[m][held[q][m]]
    BY <1>3, <2>1
  <2>3. count[name][g] > 0
    BY <1>5 DEF SemWait
  <2>4. ~SemPost(q, name)
    <3>1. SemPost(q, name) => Counted(name, g, count[name][g] + 1) /\ count[name][g] + 1 \in Nat
      BY <1>4, <1>5, WaitOrPost
    <3>2. SemPost(q, name) => count'[name][g] = count[name][g] + 1
      BY <1>3, <3>1
    <3>3. QED
      BY <1>2, <2>2, <3>2
  <2>5. QED
    BY <1>2, <2>2, <2>3, <2>4
<1>6. CASE SemPost(q, name) /\ ~SemWait(q, name)
  <2>1. count[name][g] + 1 \in Nat /\ Counted(name, g, count[name][g] + 1)
    BY <1>4, <1>6, WaitOrPost
  <2>2. QED
    BY <1>2, <1>3, <1>6, <2>1
<1>7. QED
  BY <1>5, <1>6

\* sem_wait takes the one request there is.
LEMMA SenderSendWait ==
  ASSUME Basics, NEW s \in Senders, NEW r \in Receivers, SendWait(s), Taken(s), CleanAt(s, r)
  PROVE  /\ CleanAt(s, r)'
         /\ Asked(r) /\ Together(s, r)' => Together(s, r)
         /\ Together(s, r) /\ Turn(s, r) => Turn(s, r)'
<1> USE DEF Basics
<1> DEFINE toSender == count["/receiver"][held[s]["/receiver"]]
           toReceiver == count["/sender"][held[s]["/sender"]]
<1>1. s \in Process /\ r \in Process /\ s # r /\ HoldingOf(s)
  BY Kinds DEF Holding
<1>2. /\ pc[s] = "wait" /\ pc'[s] = "put"
      /\ UNCHANGED <<flag, store, held, n, got, sound, crowd>>
      /\ SemWait(s, "/receiver")
  BY <1>1 DEF SendWait, Go, Types, traffic
<1>3. pc'[r] = pc[r] /\ ~Gone(s)
  BY <1>1, <1>2 DEF Taken, OthersStay, Gone
<1>4. \A m \in Semaphore : held[s][m] # 0
  BY <1>1, <1>2 DEF HoldingOf, Name
<1>5. toSender > 0 /\ toSender \in Nat /\ toReceiver' = toReceiver /\ toSender' = toSender - 1
  BY <1>1, <1>2, <1>4, SemaphoreEffect DEF Semaphore
<1>6. CleanAt(s, r)'
  <2>1. Pair(s, r)' = Pair(s, r) /\ NotAsked(r)' = NotAsked(r)
    BY <1>2, <1>3 DEF Pair, Alone, NotAsked
  <2>2. Pair(s, r) /\ NotAsked(r) => toSender = 0
    BY <1>3, <1>4 DEF CleanAt, Semaphore
  <2>3. QED
    BY <1>5, <2>1, <2>2 DEF CleanAt
<1>7. Together(s, r)' => Together(s, r)
  BY <1>2 DEF Together
<1>8. Turn(s, r) => Turn(s, r)'
  <2>1. \A g : Empty(g)' = Empty(g)
    BY <1>2 DEF Empty
  <2> HIDE DEF toSender, toReceiver
  <2>2. pc[s] \notin {"put", "announce", "killed"}
    BY <1>2
  <2>3. Turn(s, r) => pc[r] \notin {"ask", "get"} /\ (pc[r] = "await" =>
          toSender = 1 /\ toReceiver = 0 /\ n[s] = Len(got[r]) /\ Empty(held[s]["store"]) /\ Len(got[r]) <= Lines)
    BY <1>5, <2>2 DEF Turn, toSender, toReceiver
  <2>4. toSender = 1 => toSender' = 0
    BY <1>5
  <2>5. QED
    BY <1>2, <1>3, <1>5, <2>1, <2>3, <2>4 DEF Turn, toSender, toReceiver
<1>9. QED
  BY <1>6, <1>7, <1>8

\* The message goes into an empty store.
LEMMA SenderPut ==
  ASSUME Lines \in Nat, Basics, NEW s \in Senders, NEW r \in Receivers, Put(s), Taken(s), CleanAt(s, r)
  PROVE  /\ CleanAt(s, r)'
         /\ Asked(r) /\ Together(s, r)' => Together(s, r)
         /\ Together(s, r) /\ Turn(s, r) => Turn(s, r)'
<1> USE DEF Basics
<1> DEFINE g == held[s]["store"]
           m == Script(s)[n[s] + 1]
<1>1. s \in Process /\ r \in Process /\ s # r
  BY Kinds
<1>2. /\ pc[s] = "put" /\ pc'[s] = "announce"
      /\ UNCHANGED <<flag, count, held, n, got, sound, crowd>>
  BY <1>1 DEF Put, Go, Types, traffic
<1>3. pc'[r] = pc[r] /\ ~Gone(s)
  BY <1>1, <1>2 DEF Taken, OthersStay, Gone
<1>4. Pair(s, r)' = Pair(s, r) /\ NotAsked(r)' = NotAsked(r)
  BY <1>2, <1>3 DEF Pair, Alone, NotAsked
<1>5. CleanAt(s, r)'
  BY <1>2, <1>3, <1>4 DEF CleanAt, Opening
<1>6. Together(s, r)' => Together(s, r)
  BY <1>2 DEF Together
<1>7. Empty(g) => (flag' = 1 => store'[g].fits) /\ store'[g].msgs = <<m>>
  <2>1. PICK msgs \in Seq(Msg) :
          /\ store' = [store EXCEPT ![g] = [store[g] EXCEPT !.msgs = msgs]]
          /\ \/ flag = 1 /\ msgs = Append(store[g].msgs, m)
             \/ flag = 2 /\ msgs = <<m>>
    BY PutEffect
  <2>2. g \in 1 .. Len(store) /\ store[g] \in Store /\ m \in Msg /\ store \in Seq(Store)
    BY PutEffect DEF Types
  <2>3. store'[g] = [store[g] EXCEPT !.msgs = msgs]
    BY <2>1, <2>2
  <2>4. store'[g].msgs = msgs /\ store'[g].fits = store[g].fits
    BY <2>2, <2>3 DEF Store
  <2>5. flag = 1 /\ store[g].msgs = <<>> => Append(store[g].msgs, m) = <<m>>
    BY <2>2
  <2>6. flag = 1 \/ flag = 2
    BY DEF Types
  <2>7. QED
    BY <1>2, <2>1, <2>4, <2>5, <2>6 DEF Empty
<1>8. Turn(s, r) => Turn(s, r)'
  <2>1. ~Waits(s) /\ ~Served(s)
    BY <1>2 DEF Waits, Served, LeavingPcs
  <2> HIDE DEF m, g
  <2>2. Turn(s, r) => /\ pc[r] \notin {"ask", "get"}
                      /\ pc[r] = "await" =>
                           /\ Len(got[r]) <= Lines /\ n[s] = Len(got[r]) /\ Empty(g)
                           /\ count["/receiver"][held[s]["/receiver"]] = 0
                           /\ count["/sender"][held[s]["/sender"]] = 0
    BY <1>2, <2>1 DEF Turn, g
  <2>3. n[s] = Len(got[r]) => m = Script(s)[Len(got[r]) + 1]
    BY DEF m
  <2>4. QED
    <3>1. Empty(g) /\ n[s] = Len(got[r]) => Full(held[s]["store"], Script(s)[Len(got[r]) + 1])'
      BY <1>2, <1>7, <2>3 DEF g, Full
    <3>2. UNCHANGED <<count, held, n, got>> /\ pc'[s] = "announce"
      BY <1>2
    <3>3. QED
      BY <1>3, <2>2, <3>1, <3>2 DEF Turn
<1>9. QED
  BY <1>5, <1>6, <1>8

\* sem_post tells the receiver of the one message in the store.
LEMMA SenderAnnounce ==
  ASSUME Lines \in Nat, Basics, NEW s \in Senders, NEW r \in Receivers, Announce(s), Taken(s), CleanAt(s, r)
  PROVE  /\ CleanAt(s, r)'
         /\ Asked(r) /\ Together(s, r)' => Together(s, r)
         /\ Together(s, r) /\ Turn(s, r) => Turn(s, r)'
<1> USE DEF Basics
<1> DEFINE toSender == count["/receiver"][held[s]["/receiver"]]
           toReceiver == count["/sender"][held[s]["/sender"]]
<1>1. s \in Process /\ r \in Process /\ s # r /\ HoldingOf(s)
  BY Kinds DEF Holding
<1>2. /\ pc[s] = "announce" /\ pc'[s] \in {"unlink store", "wait"}
      /\ UNCHANGED <<flag, store, held, got, sound, crowd>>
      /\ n'[s] = n[s] + 1
      /\ SemPost(s, "/sender")
  BY <1>1 DEF Announce, Go, Types, AfterSend
<1>3. pc'[r] = pc[r] /\ ~Gone(s)
  BY <1>1, <1>2 DEF Taken, OthersStay, Gone
<1>4. \A m \in Semaphore : held[s][m] # 0
  BY <1>1, <1>2 DEF HoldingOf, Name
<1>5. toSender' = toSender /\ toReceiver' = toReceiver + 1
  BY <1>1, <1>2, <1>4, SemaphoreEffect DEF Semaphore
<1>6. CleanAt(s, r)'
  <2>1. Pair(s, r)' = Pair(s, r) /\ NotAsked(r)' = NotAsked(r)
    BY <1>2, <1>3 DEF Pair, Alone, NotAsked
  <2>2. QED
    BY <1>2, <1>3, <2>1 DEF CleanAt, Opening
<1>7. Together(s, r)' => Together(s, r)
  BY <1>2 DEF Together
<1>8. Turn(s, r) => Turn(s, r)'
  <2>1. ~Waits(s) /\ ~Served(s) /\ Served(s)'
    BY <1>2 DEF Waits, Served, LeavingPcs
  <2> HIDE DEF toSender, toReceiver
  <2>3. Turn(s, r) => /\ pc[r] \notin {"ask", "get"}
                      /\ pc[r] = "await" =>
                           /\ Len(got[r]) <= Lines /\ n[s] = Len(got[r])
                           /\ Full(held[s]["store"], Script(s)[Len(got[r]) + 1])
                           /\ toSender = 0 /\ toReceiver = 0
    BY <1>2, <2>1 DEF Turn, toSender, toReceiver
  <2>4. QED
    <3>1. Full(held[s]["store"], Script(s)[Len(got[r]) + 1]) => Full(held[s]["store"], Script(s)[Len(got[r]) + 1])'
      BY <1>2 DEF Full
    <3>2. n'[s] = n[s] + 1 /\ got'[r] = got[r] /\ held' = held /\ pc'[s] # "announce"
      BY <1>2
    <3>3. toReceiver = 0 => toReceiver' = 1
      BY <1>5
    <3>4. QED
      BY <1>3, <1>5, <2>1, <2>3, <3>1, <3>2, <3>3 DEF Turn, toSender, toReceiver
<1>9. QED
  BY <1>6, <1>7, <1>8
-----------------------------------------------------------------------------
(* Steps of the receiver.                                                  *)

\* On its way to its first call a receiver changes no object there is.
LEMMA ReceiverFresh ==
  ASSUME Lines \in Nat, Basics, Basics', NEW s \in Senders, NEW r \in Receivers, Taken(r),
         NotAsked(r), NotAsked(r)', CleanAt(s, r),
         \A m \in Semaphore : \A h \in 1 .. Len(count[m]) : count'[m][h] = count[m][h],
         \A h \in 1 .. Len(store) : store'[h] = store[h]
  PROVE  CleanAt(s, r)' /\ PendingAt(s, r)' /\ WorksAt(s, r)'
<1> USE DEF Basics
<1>1. s \in Process /\ r \in Process /\ s # r
  BY Kinds
<1>2. pc'[s] = pc[s] /\ held'[s] = held[s] /\ n'[s] = n[s] /\ flag' = flag /\ Gone(s)' = Gone(s)
  BY <1>1 DEF Taken, OthersStay, Gone
<1>3. CleanAt(s, r)'
  <2> SUFFICES ASSUME Pair(s, r)', (~Gone(s) \/ Together(s, r))'
               PROVE  /\ pc'[s] \in {"idle", "wait", "failed", "killed"} \cup Opening
                      /\ n'[s] = 0
                      /\ held'[s]["store"] # 0 => Empty(held[s]["store"])'
                      /\ \A m \in Semaphore : held'[s][m] # 0 => count'[m][held'[s][m]] = 0
    BY DEF CleanAt
  <2>1. Pair(s, r)
    BY <1>1, PairBefore DEF Taken
  <2>2. ~Gone(s) \/ Together(s, r)
    BY <1>1, <1>2, TogetherBefore DEF Taken
  <2>3. /\ pc[s] \in {"idle", "wait", "failed", "killed"} \cup Opening
        /\ n[s] = 0
        /\ held[s]["store"] # 0 => Empty(held[s]["store"])
        /\ \A m \in Semaphore : held[s][m] # 0 => count[m][held[s][m]] = 0
    BY <2>1, <2>2 DEF CleanAt
  <2>4. held'[s]["store"] # 0 => Empty(held[s]["store"])'
    <3>1. held[s]["store"] # 0 => held[s]["store"] \in 1 .. Len(store)
      BY <1>1 DEF Exist
    <3>2. QED
      BY <1>2, <2>3, <3>1 DEF Empty
  <2>5. ASSUME NEW m \in Semaphore, held'[s][m] # 0 PROVE count'[m][held'[s][m]] = 0
    <3>1. held[s][m] \in 1 .. Len(count[m])
      BY <1>1, <1>2, <2>5 DEF Exist
    <3>2. QED
      BY <1>2, <2>3, <2>5, <3>1
  <2>6. QED
    BY <1>2, <2>3, <2>4, <2>5
<1>4. PendingAt(s, r)'
  BY DEF PendingAt, Asked
<1>5. WorksAt(s, r)'
  BY <1>3, FreshWorks DEF WorksAt
<1>6. QED
  BY <1>3, <1>4, <1>5

\* Starting and opening are on the way to the first call.
LEMMA ReceiverStart ==
  ASSUME Lines \in Nat, Basics, Basics', NEW s \in Senders, NEW r \in Receivers, Start(r), Taken(r), CleanAt(s, r)
  PROVE  CleanAt(s, r)' /\ PendingAt(s, r)' /\ WorksAt(s, r)'
<1>1. r \in Process
  BY Kinds
<1>2. pc[r] = "idle" /\ pc'[r] = "store" /\ UNCHANGED <<count, store>>
  BY <1>1 DEF Start, Go, Basics, Types, objects
<1>3. NotAsked(r) /\ NotAsked(r)'
  BY <1>2 DEF NotAsked, Opening
<1>4. QED
  BY <1>2, <1>3, ReceiverFresh

LEMMA ReceiverOpenStore ==
  ASSUME Lines \in Nat, Basics, Basics', NEW s \in Senders, NEW r \in Receivers, OpenStore(r), Taken(r), CleanAt(s, r)
  PROVE  CleanAt(s, r)' /\ PendingAt(s, r)' /\ WorksAt(s, r)'
<1>1. r \in Process
  BY Kinds
<1>2. pc[r] = "store" /\ pc'[r] = "/sender" /\ UNCHANGED count
  BY <1>1 DEF OpenStore, Go, Basics, Types
<1>3. NotAsked(r) /\ NotAsked(r)'
  BY <1>2 DEF NotAsked, Opening
<1>4. \A h \in 1 .. Len(store) : store'[h] = store[h]
  <2> DEFINE new == [fits |-> flag = 1 /\ r \in Senders, msgs |-> <<>>]
  <2>1. store' = store \/ store' = Append(store, new)
    BY DEF OpenStore
  <2>2. new \in Store
    BY DEF Store
  <2> HIDE DEF new
  <2>3. QED
    BY <2>1, <2>2, StoreAppend DEF Basics
<1>5. QED
  BY <1>2, <1>3, <1>4, ReceiverFresh

LEMMA ReceiverFind ==
  ASSUME Lines \in Nat, Basics, Basics', NEW s \in Senders, NEW r \in Receivers, NEW name \in Semaphore,
         FindSemaphore(r, name), Taken(r), CleanAt(s, r)
  PROVE  CleanAt(s, r)' /\ PendingAt(s, r)' /\ WorksAt(s, r)'
<1>1. r \in Process
  BY Kinds
<1>2. pc[r] = name /\ pc'[r] = AfterOpen(name) /\ UNCHANGED <<count, store>>
  BY <1>1 DEF FindSemaphore, Go, Basics, Types, objects
<1>3. NotAsked(r) /\ NotAsked(r)'
  BY <1>2 DEF NotAsked, Opening, AfterOpen, Semaphore
<1>4. QED
  BY <1>2, <1>3, ReceiverFresh

LEMMA ReceiverReceiverOpened ==
  ASSUME Lines \in Nat, Basics, Basics', NEW s \in Senders, NEW r \in Receivers,
         ReceiverOpened(r), Taken(r), CleanAt(s, r)
  PROVE  CleanAt(s, r)' /\ PendingAt(s, r)' /\ WorksAt(s, r)'
<1> USE DEF Basics
<1>1. r \in Process /\ s \in Process /\ s # r
  BY Kinds
<1>2. /\ pc[r] = "opened" /\ pc'[r] \in {"ask", "failed"}
      /\ UNCHANGED <<count, store, got, held, sound, crowd>>
  BY <1>1 DEF ReceiverOpened, Go, Types, objects, traffic
<1>3. HeardOf(r) /\ got[r] = <<>>
  BY <1>2 DEF Counts, HeardOf, Opening
<1>4. NotAsked(r)
  BY <1>2 DEF NotAsked, Opening
<1>5. CASE pc'[r] = "ask"
  <2>1. NotAsked(r)'
    BY <1>2, <1>3, <1>5 DEF NotAsked
  <2>2. QED
    BY <1>2, <1>4, <2>1, ReceiverFresh
<1>6. CASE pc'[r] = "failed"
  <2>1. ~NotAsked(r)' /\ ~Asked(r)'
    BY <1>6 DEF NotAsked, Asked, Gone, Opening
  <2>2. CleanAt(s, r)' /\ PendingAt(s, r)'
    BY <2>1 DEF CleanAt, PendingAt
  <2>3. ASSUME Together(s, r)' PROVE FALSE
    <3>1. Together(s, r)
      BY <1>2, <2>3 DEF Together
    <3>2. \A m \in Semaphore : held[r][m] # 0
      BY <3>1, TogetherSame DEF Name
    <3>3. pc'[r] = "ask"
      BY <1>1, <3>2 DEF ReceiverOpened, Go, Types
    <3>4. QED
      BY <1>6, <3>3
  <2>4. QED
    BY <2>2, <2>3 DEF WorksAt
<1>7. QED
  BY <1>2, <1>5, <1>6

\* Once it has asked: what has to be shown of each step.
LEMMA ReceiverLate ==
  ASSUME NEW s \in Senders, NEW r \in Receivers, WorksAt(s, r), ~NotAsked(r)',
         UNCHANGED <<sound, crowd>>, PendingAt(s, r)',
         Together(s, r) /\ Turn(s, r) /\ Delivered(s, r) => Turn(s, r)' /\ Delivered(s, r)'
  PROVE  CleanAt(s, r)' /\ PendingAt(s, r)' /\ WorksAt(s, r)'
<1>1. CleanAt(s, r)'
  BY DEF CleanAt
<1>2. Together(s, r)' => Together(s, r)
  BY DEF Together
<1>3. WorksAt(s, r)'
  BY <1>2 DEF WorksAt
<1>4. QED
  BY <1>1, <1>3

\* A receiver that is killed or leaves asks nothing any more.
LEMMA ReceiverKill ==
  ASSUME Basics, NEW s \in Senders, NEW r \in Receivers, Kill(r), Taken(r), WorksAt(s, r)
  PROVE  CleanAt(s, r)' /\ PendingAt(s, r)' /\ WorksAt(s, r)'
<1>1. pc'[r] = "killed" /\ UNCHANGED <<got, sound, crowd>>
  BY Kinds DEF Kill, Basics, Types, traffic
<1>2. ~NotAsked(r)' /\ ~Asked(r)'
  BY <1>1 DEF NotAsked, Opening, Asked, Gone
<1>3. PendingAt(s, r)'
  BY <1>2 DEF PendingAt
<1>4. Delivered(s, r) => Delivered(s, r)'
  BY <1>1 DEF Delivered, LeavingPcs
<1>5. Turn(s, r)'
  BY <1>1 DEF Turn
<1>6. QED
  BY <1>1, <1>2, <1>3, <1>4, <1>5, ReceiverLate

LEMMA ReceiverCleanUp ==
  ASSUME Basics, NEW s \in Senders, NEW r \in Receivers, CleanUp(r), Taken(r), WorksAt(s, r), PendingAt(s, r)
  PROVE  CleanAt(s, r)' /\ PendingAt(s, r)' /\ WorksAt(s, r)'
<1>1. /\ pc[r] \in LeavingPcs /\ pc'[r] \in LeavingPcs \cup {"ended"}
      /\ UNCHANGED <<count, held, got, sound, crowd>>
  BY Kinds DEF CleanUp, Unlink, Go, Basics, Types, traffic, LeavingPcs
<1>2. ~NotAsked(r)' /\ Asked(r)
  BY <1>1 DEF NotAsked, Opening, Asked, Gone, LeavingPcs
<1>3. PendingAt(s, r)'
  BY <1>1, <1>2 DEF PendingAt, Pair, Alone
<1>4. Delivered(s, r) => Delivered(s, r)'
  BY <1>1 DEF Delivered
<1>5. Turn(s, r)'
  BY <1>1 DEF Turn, LeavingPcs
<1>6. QED
  BY <1>1, <1>2, <1>3, <1>4, <1>5, ReceiverLate

\* sem_post makes the one request; the first one finds a clean session.
LEMMA ReceiverAsk ==
  ASSUME Basics, NEW s \in Senders, NEW r \in Receivers, Ask(r), Taken(r), WorksAt(s, r)
  PROVE  CleanAt(s, r)' /\ PendingAt(s, r)' /\ WorksAt(s, r)'
<1> USE DEF Basics
<1>1. r \in Process /\ s \in Process /\ s # r /\ HoldingOf(r)
  BY Kinds DEF Holding
<1>2. /\ pc[r] = "ask" /\ pc'[r] = "await" /\ UNCHANGED <<flag, store, held, n, got, sound, crowd>>
      /\ SemPost(r, "/receiver")
  BY <1>1 DEF Ask, Go, Types, traffic
<1>3. pc'[s] = pc[s]
  BY <1>1 DEF Taken, OthersStay
<1>4. \A m \in Semaphore : held[r][m] # 0
  BY <1>1, <1>2 DEF HoldingOf, Name
<1>5. /\ count["/receiver"][held[r]["/receiver"]] \in Nat
      /\ count'["/receiver"][held[r]["/receiver"]] = count["/receiver"][held[r]["/receiver"]] + 1
      /\ count'["/sender"][held[r]["/sender"]] = count["/sender"][held[r]["/sender"]]
  BY <1>1, <1>2, <1>4, SemaphoreEffect DEF Semaphore
<1>6. ~NotAsked(r)'
  BY <1>2 DEF NotAsked, Opening
<1>7. PendingAt(s, r)'
  BY <1>2, <1>5 DEF PendingAt
<1>8. ASSUME Together(s, r), Turn(s, r), Delivered(s, r) PROVE Turn(s, r)' /\ Delivered(s, r)'
  <2>1. \A m \in Name : held[s][m] = held[r][m]
    BY <1>8, TogetherSame
  <2>2. held[s]["/receiver"] = held[r]["/receiver"] /\ held[s]["/sender"] = held[r]["/sender"]
    BY <2>1 DEF Name, Semaphore
  <2>3. Delivered(s, r)'
    BY <1>2, <1>8 DEF Delivered, LeavingPcs
  <2>4. /\ count["/receiver"][held[s]["/receiver"]] = 0 /\ count["/sender"][held[s]["/sender"]] = 0
        /\ n[s] = Len(got[r]) /\ Waits(s) /\ Empty(held[s]["store"]) /\ Len(got[r]) <= Lines
    BY <1>2, <1>8 DEF Turn
  <2>5. Waits(s)' /\ Empty(held[s]["store"])'
    BY <1>2, <1>3, <2>4 DEF Waits, Empty
  <2>6. count'["/receiver"][held[s]["/receiver"]] = 1 /\ count'["/sender"][held[s]["/sender"]] = 0
    BY <1>5, <2>2, <2>4
  <2>7. Turn(s, r)'
    BY <1>2, <2>4, <2>5, <2>6 DEF Turn
  <2>8. QED
    BY <2>3, <2>7
<1>9. QED
  BY <1>2, <1>6, <1>7, <1>8, ReceiverLate

\* sem_wait returns when the sender has announced.
LEMMA ReceiverAwait ==
  ASSUME Basics, NEW s \in Senders, NEW r \in Receivers, Await(r), Taken(r), WorksAt(s, r), PendingAt(s, r)
  PROVE  CleanAt(s, r)' /\ PendingAt(s, r)' /\ WorksAt(s, r)'
<1> USE DEF Basics
<1>1. r \in Process /\ s \in Process /\ s # r /\ HoldingOf(r)
  BY Kinds DEF Holding
<1>2. /\ pc[r] = "await" /\ pc'[r] = "get" /\ UNCHANGED <<flag, store, held, n, got, sound, crowd>>
      /\ SemWait(r, "/sender")
  BY <1>1 DEF Await, Go, Types, traffic
<1>3. pc'[s] = pc[s]
  BY <1>1 DEF Taken, OthersStay
<1>4. \A m \in Semaphore : held[r][m] # 0
  BY <1>1, <1>2 DEF HoldingOf, Name
<1>5. /\ count["/sender"][held[r]["/sender"]] > 0
      /\ count'["/sender"][held[r]["/sender"]] = count["/sender"][held[r]["/sender"]] - 1
      /\ count'["/receiver"][held[r]["/receiver"]] = count["/receiver"][held[r]["/receiver"]]
  BY <1>1, <1>2, <1>4, SemaphoreEffect DEF Semaphore
<1>6. ~NotAsked(r)' /\ Asked(r)
  BY <1>2 DEF NotAsked, Opening, Asked, Gone
<1>7. PendingAt(s, r)'
  BY <1>2, <1>5, <1>6 DEF PendingAt, Pair, Alone
<1>8. ASSUME Together(s, r), Turn(s, r), Delivered(s, r) PROVE Turn(s, r)' /\ Delivered(s, r)'
  <2>1. \A m \in Name : held[s][m] = held[r][m]
    BY <1>8, TogetherSame
  <2>2. held[s]["/receiver"] = held[r]["/receiver"] /\ held[s]["/sender"] = held[r]["/sender"]
    BY <2>1 DEF Name, Semaphore
  <2>3. Delivered(s, r)'
    BY <1>2, <1>8 DEF Delivered, LeavingPcs
  <2>4. count["/sender"][held[s]["/sender"]] > 0
    BY <1>5, <2>2
  <2>5. /\ count["/receiver"][held[s]["/receiver"]] = 0 /\ count["/sender"][held[s]["/sender"]] = 1
        /\ n[s] = Len(got[r]) + 1 /\ Served(s) /\ Full(held[s]["store"], Script(s)[Len(got[r]) + 1])
        /\ Len(got[r]) <= Lines
    BY <1>2, <1>8, <2>4 DEF Turn
  <2>6. Served(s)' /\ Full(held[s]["store"], Script(s)[Len(got[r]) + 1])'
    BY <1>2, <1>3, <2>5 DEF Served, Full
  <2>7. count'["/receiver"][held[s]["/receiver"]] = 0 /\ count'["/sender"][held[s]["/sender"]] = 0
    BY <1>5, <2>2, <2>5
  <2>8. Turn(s, r)'
    BY <1>2, <2>5, <2>6, <2>7 DEF Turn
  <2>9. QED
    BY <2>3, <2>8
<1>9. QED
  BY <1>2, <1>6, <1>7, <1>8, ReceiverLate

\* A prefix of a sequence one element longer.
LEMMA NextPrefix ==
  ASSUME NEW S, NEW t \in Seq(S), NEW k \in 0 .. Len(t) - 1
  PROVE  SubSeq(t, 1, k + 1) = Append(SubSeq(t, 1, k), t[k + 1])
<1>1. SubSeq(t, 1, k + 1) \in Seq(S) /\ Len(SubSeq(t, 1, k + 1)) = k + 1
  OBVIOUS
<1>2. SubSeq(t, 1, k) \in Seq(S) /\ Len(SubSeq(t, 1, k)) = k
  OBVIOUS
<1>3. Append(SubSeq(t, 1, k), t[k + 1]) \in Seq(S)
  BY <1>2
<1>4. \A m \in 1 .. k + 1 : SubSeq(t, 1, k + 1)[m] = Append(SubSeq(t, 1, k), t[k + 1])[m]
  BY <1>1, <1>2
<1>5. QED
  BY <1>1, <1>2, <1>3, <1>4, SeqEqual

\* The message taken is the next of the script.
LEMMA ReceiverGet ==
  ASSUME Lines \in Nat, Basics, NEW s \in Senders, NEW r \in Receivers, Get(r), Taken(r), WorksAt(s, r), PendingAt(s, r)
  PROVE  CleanAt(s, r)' /\ PendingAt(s, r)' /\ WorksAt(s, r)'
<1> USE DEF Basics
<1> DEFINE g == held[r]["store"]
           k == Len(got[r])
           next == Script(s)[k + 1]
<1>1. r \in Process /\ s \in Process /\ s # r /\ SentOf(s)
  BY Kinds DEF Counts
<1>2. pc[r] = "get" /\ UNCHANGED <<flag, count, held, n, sound, crowd>>
  BY DEF Get
<1>3. pc'[s] = pc[s]
  BY <1>1 DEF Taken, OthersStay
<1>4. g \in 1 .. Len(store) /\ store[g] \in Store /\ got[r] \in Seq(Msg) /\ k \in Nat
  BY <1>2, GetEffect, LenProperties DEF Types
<1>5. \/ \E m \in Msg : Received(r, m)
      \/ pc'[r] = "killed" /\ UNCHANGED got
  BY GetEffect
<1>6. ~NotAsked(r)' /\ Asked(r)
  <2>1. Asked(r)
    BY <1>2 DEF NotAsked, Opening, Asked, Gone
  <2>2. ASSUME NEW m \in Msg, Received(r, m) PROVE ~NotAsked(r)'
    <3>1. got'[r] = Append(got[r], m) /\ pc'[r] \in {"unlink store", "ask"}
      BY <1>1, <2>2 DEF Received, Go, Types
    <3>2. got'[r] # <<>>
      <4>1. Append(got[r], m) # <<>>
        BY <1>4, AppendProperties
      <4>2. QED
        BY <3>1, <4>1
    <3>3. QED
      BY <3>1, <3>2 DEF NotAsked, Opening
  <2>3. pc'[r] = "killed" => ~NotAsked(r)'
    BY DEF NotAsked, Opening
  <2>4. QED
    BY <1>5, <2>1, <2>2, <2>3
<1>7. PendingAt(s, r)'
  BY <1>2, <1>6 DEF PendingAt, Pair, Alone
<1>8. ASSUME Together(s, r), Turn(s, r), Delivered(s, r) PROVE Turn(s, r)' /\ Delivered(s, r)'
  <2>1. held[s]["store"] = g
    BY <1>8, TogetherSame DEF Name
  <2>2. /\ count["/receiver"][held[s]["/receiver"]] = 0 /\ count["/sender"][held[s]["/sender"]] = 0
        /\ n[s] = k + 1 /\ Served(s) /\ Full(g, next) /\ k <= Lines
    BY <1>2, <1>8, <2>1 DEF Turn
  <2>3. store[g].msgs = <<next>> /\ (flag = 1 => store[g].fits)
    BY <2>2 DEF Full
  <2>4. k + 1 \in 1 .. Lines + 1 /\ k + 1 \in Nat
    BY <1>4, <2>2
  <2>5. next \in Msg /\ (IsExit(next) <=> k + 1 = Lines + 1) /\ Script(s) \in Seq(Msg) /\ Len(Script(s)) = Lines + 1
    BY <2>4, ScriptFacts
  <2>6. got[r] = SubSeq(Script(s), 1, k)
    BY <1>8 DEF Delivered
  <2> HIDE DEF next
  <2>7. /\ Received(r, next) \/ (Go(r, "get", "killed") /\ UNCHANGED got)
        /\ flag = 1 => store' = [store EXCEPT ![g].msgs = Tail(@)]
    <3>1. store[g].msgs # <<>> /\ Head(store[g].msgs) = next
      BY <2>3, <2>5
    <3>2. flag = 1 \/ flag = 2
      BY DEF Types
    <3>3. QED
      BY <2>3, <3>1, <3>2 DEF Get
  <2>8. CASE Go(r, "get", "killed") /\ UNCHANGED got
    <3>1. pc'[r] = "killed"
      BY <1>1, <2>8 DEF Go, Types
    <3>2. Turn(s, r)'
      BY <3>1 DEF Turn
    <3>3. Delivered(s, r)'
      BY <1>8, <2>8, <3>1 DEF Delivered, LeavingPcs
    <3>4. QED
      BY <3>2, <3>3
  <2>9. CASE Received(r, next)
    <3>1. got'[r] = Append(got[r], next) /\ pc'[r] = IF IsExit(next) THEN "unlink store" ELSE "ask"
      BY <1>1, <2>9 DEF Received, Go, Types
    <3>2. Len(got'[r]) = k + 1
      <4>1. Len(Append(got[r], next)) = k + 1
        BY <1>4, <2>5, AppendProperties
      <4>2. QED
        BY <3>1, <4>1
    <3>3. got'[r] = SubSeq(Script(s), 1, k + 1)
      <4>1. SubSeq(Script(s), 1, k + 1) = Append(SubSeq(Script(s), 1, k), Script(s)[k + 1])
        BY <1>4, <2>2, <2>5, NextPrefix
      <4>2. QED
        BY <2>6, <3>1, <4>1 DEF next
    <3> HIDE DEF k
    <3>4. Delivered(s, r)'
      <4>1. Len(got'[r]) <= Lines + 1 /\ got'[r] = SubSeq(Script(s), 1, Len(got'[r]))
        BY <2>4, <3>2, <3>3
      <4>2. pc'[r] \in {"ended"} \cup LeavingPcs => Len(got'[r]) = Lines + 1
        BY <2>5, <3>1, <3>2 DEF LeavingPcs
      <4>3. QED
        BY <4>1, <4>2 DEF Delivered
    <3>5. Turn(s, r)'
      <4>1. CASE IsExit(next)
        BY <3>1, <4>1 DEF Turn
      <4>2. CASE ~IsExit(next)
        <5>1. k + 1 <= Lines /\ pc'[r] = "ask"
          BY <2>4, <2>5, <3>1, <4>2
        <5>2. Waits(s)'
          <6>1. n[s] # Lines + 1
            BY <2>2, <2>4, <5>1
          <6>2. QED
            BY <1>1, <1>3, <2>2, <6>1 DEF Served, Waits, SentOf
        <5>3. Empty(held[s]["store"])'
          <6>1. ASSUME flag = 1 PROVE store'[g].fits /\ store'[g].msgs = <<>>
            <7>1. store'[g] = [store[g] EXCEPT !.msgs = Tail(store[g].msgs)]
              BY <1>4, <2>7, <6>1 DEF Types
            <7>2. Tail(store[g].msgs) = <<>>
              BY <2>3, <2>5
            <7>3. QED
              BY <1>4, <2>3, <6>1, <7>1, <7>2 DEF Store
          <6>2. QED
            BY <1>2, <2>1, <6>1 DEF Empty
        <5>4. QED
          BY <1>2, <2>2, <3>2, <5>1, <5>2, <5>3 DEF Turn
      <4>3. QED
        BY <4>1, <4>2
    <3>6. QED
      BY <3>4, <3>5
  <2>10. QED
    BY <2>7, <2>8, <2>9
<1>9. QED
  BY <1>2, <1>6, <1>7, <1>8, ReceiverLate

-----------------------------------------------------------------------------
(* The invariant.                                                          *)

\* The inductive invariant: a sender and a receiver that are a pair are clean
\* before the first request, and take turns after it.
PairAt(s, r) == CleanAt(s, r) /\ PendingAt(s, r) /\ WorksAt(s, r)
Pairs == \A s \in Senders, r \in Receivers : PairAt(s, r)
SessionInv == Basics /\ Pairs

\* At first nothing is open, and nobody has met.
LEMMA SessionInit == Lines \in Nat /\ Init => SessionInv
<1> SUFFICES ASSUME Lines \in Nat, Init PROVE SessionInv
  OBVIOUS
<1> USE DEF Init
<1>1. Types
  <2>1. <<>> \in Seq(Nat) /\ <<>> \in Seq(Store) /\ <<>> \in Seq(Msg)
    OBVIOUS
  <2>2. QED
    BY <2>1, Kinds DEF Types, SenderPcs, ReceiverPcs, Name
<1>2. Exist
  BY DEF Exist, Name, Semaphore
<1>3. Holding
  BY DEF Holding, HoldingOf, LeavingPcs, Name, Semaphore
<1>4. Counts
  BY Kinds DEF Counts, SentOf, HeardOf, LeavingPcs
<1>5. Met
  BY DEF Met
<1>6. ASSUME NEW s \in Senders, NEW r \in Receivers PROVE PairAt(s, r)
  <2>1. s \in Process /\ r \in Process
    BY Kinds
  <2>2. ~Together(s, r)
    BY DEF Together, Name
  <2>3. Gone(s) /\ Gone(r)
    BY <2>1 DEF Gone
  <2>4. QED
    BY <2>2, <2>3 DEF PairAt, CleanAt, PendingAt, WorksAt, Asked
<1>7. QED
  BY <1>1, <1>2, <1>3, <1>4, <1>5, <1>6 DEF SessionInv, Basics, Pairs

\* Every step of a process is one of those above.
LEMMA SenderTaken ==
  ASSUME Lines \in Nat, Basics, NEW q \in Senders, Start(q) \/ Kill(q) \/ SenderStep(q)
  PROVE  Taken(q)
<1>1. q \in Process
  BY Kinds
<1> USE DEF Basics
<1>2. CASE Start(q)
  BY <1>1, <1>2, StartTaken
<1>3. CASE Kill(q)
  BY <1>1, <1>3, KillTaken
<1>4. CASE OpenStore(q)
  BY <1>1, <1>4, OpenStoreTaken
<1>5. ASSUME NEW name \in Semaphore, CreateSemaphore(q, name) PROVE Taken(q)
  BY <1>5, CreateTaken
<1>6. CASE SenderOpened(q)
  BY <1>6, SenderOpenedTaken
<1>7. CASE SendWait(q)
  BY <1>7, SendWaitTaken
<1>8. CASE Put(q)
  BY <1>8, PutTaken
<1>9. CASE Announce(q)
  BY <1>9, AnnounceTaken
<1>10. CASE CleanUp(q)
  BY <1>1, <1>10, CleanUpTaken
<1>11. QED
  BY <1>2, <1>3, <1>4, <1>5, <1>6, <1>7, <1>8, <1>9, <1>10 DEF SenderStep

LEMMA ReceiverTaken ==
  ASSUME Lines \in Nat, Basics, NEW q \in Receivers, Start(q) \/ Kill(q) \/ ReceiverStep(q)
  PROVE  Taken(q)
<1>1. q \in Process
  BY Kinds
<1> USE DEF Basics
<1>2. CASE Start(q)
  BY <1>1, <1>2, StartTaken
<1>3. CASE Kill(q)
  BY <1>1, <1>3, KillTaken
<1>4. CASE OpenStore(q)
  BY <1>1, <1>4, OpenStoreTaken
<1>5. ASSUME NEW name \in Semaphore, FindSemaphore(q, name) PROVE Taken(q)
  BY <1>5, FindTaken
<1>6. CASE ReceiverOpened(q)
  BY <1>6, ReceiverOpenedTaken
<1>7. CASE Ask(q)
  BY <1>7, AskTaken
<1>8. CASE Await(q)
  BY <1>8, AwaitTaken
<1>9. CASE Get(q)
  BY <1>9, GetTaken
<1>10. CASE CleanUp(q)
  BY <1>1, <1>10, CleanUpTaken
<1>11. QED
  BY <1>2, <1>3, <1>4, <1>5, <1>6, <1>7, <1>8, <1>9, <1>10 DEF ReceiverStep

\* What a step leaves valid of the processes alone.
LEMMA BasicsStep ==
  ASSUME Basics, NEW q \in Process, Taken(q)
  PROVE  Basics'
<1> USE DEF Basics, Taken
<1>1. Met'
  BY MetStep
<1>2. \A p \in Process : HoldingOf(p)'
  <2>1. ASSUME NEW p \in Process \ {q} PROVE HoldingOf(p)'
    <3>1. pc'[p] = pc[p] /\ held'[p] = held[p] /\ HoldingOf(p)
      BY DEF OthersStay, Holding
    <3>2. QED
      BY <3>1 DEF HoldingOf
  <2>2. QED
    BY <2>1
<1>3. \A p \in Senders : SentOf(p)'
  <2>1. ASSUME NEW p \in Senders \ {q} PROVE SentOf(p)'
    <3>1. pc'[p] = pc[p] /\ n'[p] = n[p] /\ SentOf(p)
      BY Kinds DEF OthersStay, Counts
    <3>2. QED
      BY <3>1 DEF SentOf
  <2>2. QED
    BY <2>1
<1>4. \A p \in Receivers : HeardOf(p)'
  <2>1. ASSUME NEW p \in Receivers \ {q} PROVE HeardOf(p)'
    <3>1. pc'[p] = pc[p] /\ got'[p] = got[p] /\ HeardOf(p)
      BY Kinds DEF OthersStay, Counts
    <3>2. QED
      BY <3>1 DEF HeardOf
  <2>2. QED
    BY <2>1
<1>5. QED
  BY <1>1, <1>2, <1>3, <1>4 DEF Holding, Counts

\* Every step of a process keeps the invariant for all pairs.
LEMMA SenderPairs ==
  ASSUME Lines \in Nat, SessionInv, NEW s \in Senders, Start(s) \/ Kill(s) \/ SenderStep(s)
  PROVE  SessionInv'
<1>1. Basics /\ Taken(s) /\ s \in Process
  BY SenderTaken, Kinds DEF SessionInv
<1>2. Basics'
  BY <1>1, BasicsStep
<1>3. ASSUME NEW r \in Receivers PROVE PairAt(s, r)'
  <2>1. CleanAt(s, r) /\ PendingAt(s, r) /\ WorksAt(s, r)
    BY DEF SessionInv, Pairs, PairAt
  <2>2. /\ CleanAt(s, r)'
        /\ Asked(r) /\ Together(s, r)' => Together(s, r)
        /\ Together(s, r) /\ Turn(s, r) => Turn(s, r)'
    <3>1. CASE Start(s)
      BY <1>1, <2>1, <3>1, SenderStart
    <3>2. CASE Kill(s)
      BY <1>1, <2>1, <3>2, SenderKill
    <3>3. CASE OpenStore(s)
      BY <1>1, <1>2, <2>1, <3>3, SenderOpenStore
    <3>4. CASE \E name \in Semaphore : CreateSemaphore(s, name)
      BY <1>1, <1>2, <2>1, <3>4, SenderCreate
    <3>5. CASE SenderOpened(s)
      BY <1>1, <2>1, <3>5, SenderSenderOpened
    <3>6. CASE SendWait(s)
      BY <1>1, <2>1, <3>6, SenderSendWait
    <3>7. CASE Put(s)
      BY <1>1, <2>1, <3>7, SenderPut
    <3>8. CASE Announce(s)
      BY <1>1, <2>1, <3>8, SenderAnnounce
    <3>9. CASE CleanUp(s)
      BY <1>1, <2>1, <3>9, SenderCleanUp
    <3>10. QED
      BY <3>1, <3>2, <3>3, <3>4, <3>5, <3>6, <3>7, <3>8, <3>9 DEF SenderStep
  <2>3. PendingAt(s, r)'
    BY <1>1, <2>1, SenderPending DEF Taken
  <2>4. WorksAt(s, r)'
    BY <1>1, <1>2, <2>1, <2>2, SenderWorks DEF Taken
  <2>5. QED
    BY <2>2, <2>3, <2>4 DEF PairAt
<1>4. ASSUME NEW x \in Senders \ {s}, NEW r \in Receivers PROVE PairAt(x, r)'
  <2>1. s \in Process \ {x, r}
    BY Kinds
  <2>2. CleanAt(x, r) /\ PendingAt(x, r) /\ WorksAt(x, r)
    BY DEF SessionInv, Pairs, PairAt
  <2>3. QED
    BY <1>1, <2>1, <2>2, OtherStep DEF PairAt, Taken
<1>5. QED
  BY <1>2, <1>3, <1>4 DEF SessionInv, Pairs

LEMMA ReceiverPairs ==
  ASSUME Lines \in Nat, SessionInv, NEW r \in Receivers, Start(r) \/ Kill(r) \/ ReceiverStep(r)
  PROVE  SessionInv'
<1>1. Basics /\ Taken(r) /\ r \in Process
  BY ReceiverTaken, Kinds DEF SessionInv
<1>2. Basics'
  BY <1>1, BasicsStep
<1>3. ASSUME NEW s \in Senders PROVE PairAt(s, r)'
  <2>1. CleanAt(s, r) /\ PendingAt(s, r) /\ WorksAt(s, r)
    BY DEF SessionInv, Pairs, PairAt
  <2>2. CleanAt(s, r)' /\ PendingAt(s, r)' /\ WorksAt(s, r)'
    <3>1. CASE Start(r)
      BY <1>1, <1>2, <2>1, <3>1, ReceiverStart
    <3>2. CASE Kill(r)
      BY <1>1, <2>1, <3>2, ReceiverKill
    <3>3. CASE OpenStore(r)
      BY <1>1, <1>2, <2>1, <3>3, ReceiverOpenStore
    <3>4. CASE \E name \in Semaphore : FindSemaphore(r, name)
      BY <1>1, <1>2, <2>1, <3>4, ReceiverFind
    <3>5. CASE ReceiverOpened(r)
      BY <1>1, <1>2, <2>1, <3>5, ReceiverReceiverOpened
    <3>6. CASE Ask(r)
      BY <1>1, <2>1, <3>6, ReceiverAsk
    <3>7. CASE Await(r)
      BY <1>1, <2>1, <3>7, ReceiverAwait
    <3>8. CASE Get(r)
      BY <1>1, <2>1, <3>8, ReceiverGet
    <3>9. CASE CleanUp(r)
      BY <1>1, <2>1, <3>9, ReceiverCleanUp
    <3>10. QED
      BY <3>1, <3>2, <3>3, <3>4, <3>5, <3>6, <3>7, <3>8, <3>9 DEF ReceiverStep
  <2>3. QED
    BY <2>2 DEF PairAt
<1>4. ASSUME NEW s \in Senders, NEW x \in Receivers \ {r} PROVE PairAt(s, x)'
  <2>1. r \in Process \ {s, x}
    BY Kinds
  <2>2. CleanAt(s, x) /\ PendingAt(s, x) /\ WorksAt(s, x)
    BY DEF SessionInv, Pairs, PairAt
  <2>3. QED
    BY <1>1, <2>1, <2>2, OtherStep DEF PairAt, Taken
<1>5. QED
  BY <1>2, <1>3, <1>4 DEF SessionInv, Pairs

\* A stutter keeps it.
LEMMA SessionUnchanged ==
  ASSUME SessionInv, UNCHANGED vars
  PROVE  SessionInv'
<1> USE DEF vars, objects, traffic
<1>1. Types' /\ Exist' /\ Holding' /\ Counts' /\ Met'
  BY DEF SessionInv, Basics, Types, Exist, Holding, HoldingOf, Counts, SentOf, HeardOf, Met, Gone
<1>2. ASSUME NEW s \in Senders, NEW r \in Receivers PROVE PairAt(s, r)'
  <2>1. CleanAt(s, r) /\ PendingAt(s, r) /\ WorksAt(s, r)
    BY DEF SessionInv, Pairs, PairAt
  <2>2. /\ Together(s, r)' = Together(s, r) /\ Pair(s, r)' = Pair(s, r) /\ Gone(s)' = Gone(s)
        /\ NotAsked(r)' = NotAsked(r) /\ Asked(r)' = Asked(r)
    BY DEF Together, Pair, Alone, Gone, NotAsked, Asked
  <2>3. CleanAt(s, r)' /\ PendingAt(s, r)'
    BY <2>1, <2>2 DEF CleanAt, PendingAt, Empty
  <2>4. WorksAt(s, r)'
    BY <2>1, <2>2 DEF WorksAt, Turn, Delivered, Empty, Full, Served, Waits
  <2>5. QED
    BY <2>3, <2>4 DEF PairAt
<1>3. QED
  BY <1>1, <1>2 DEF SessionInv, Basics, Pairs

\* So does every step.
LEMMA SessionStep ==
  ASSUME Lines \in Nat, SessionInv, [Next]_vars
  PROVE  SessionInv'
<1>1. ASSUME NEW p \in Process, Start(p) \/ Kill(p) PROVE SessionInv'
  BY <1>1, Kinds, SenderPairs, ReceiverPairs
<1>2. ASSUME NEW s \in Senders, SenderStep(s) PROVE SessionInv'
  BY <1>2, SenderPairs
<1>3. ASSUME NEW r \in Receivers, ReceiverStep(r) PROVE SessionInv'
  BY <1>3, ReceiverPairs
<1>4. CASE UNCHANGED vars
  BY <1>4, SessionUnchanged
<1>5. QED
  BY <1>1, <1>2, <1>3, <1>4 DEF Next

\* A pair that takes turns is a session that works.
LEMMA InvDelivers ==
  ASSUME Lines \in Nat, SessionInv
  PROVE  SessionDelivers
<1> SUFFICES ASSUME NEW s \in Senders, NEW r \in Receivers, Together(s, r)
             PROVE  IsPrefix(got[r], Script(s)) /\ (pc[r] = "ended" => got[r] = Script(s))
  BY DEF SessionDelivers
<1>1. Delivered(s, r)
  BY DEF SessionInv, Pairs, PairAt, WorksAt
<1>2. Script(s) \in Seq(Msg) /\ Len(Script(s)) = Lines + 1
  BY ScriptFacts
<1>3. got[r] \in Seq(Msg)
  BY DEF SessionInv, Basics, Types
<1>4. SubSeq(got[r], 1, Len(got[r])) = got[r]
  BY <1>3, SubSeqFull
<1>5. IsPrefix(got[r], Script(s))
  BY <1>1, <1>2, <1>4 DEF Delivered, IsPrefix
<1>6. ASSUME pc[r] = "ended" PROVE got[r] = Script(s)
  <2>1. Len(got[r]) = Len(Script(s))
    BY <1>1, <1>2, <1>6 DEF Delivered
  <2>2. SubSeq(Script(s), 1, Len(Script(s))) = Script(s)
    BY <1>2, SubSeqFull
  <2>3. QED
    BY <1>1, <2>1, <2>2 DEF Delivered
<1>7. QED
  BY <1>5, <1>6

\* A sender and a receiver that share the three objects with nobody else are a
\* session that works, whoever was killed or failed before them and whoever takes
\* the names away meanwhile (sender.c:62-120, receiver.c:52-100): what the
\* receiver has is a beginning of the sender's lines, and all of them when it
\* leaves.  For any number of runs, lines, places in the queue and kills.
THEOREM MailboxSessionDelivers == Spec => []SessionDelivers
<1>1. Lines \in Nat
  BY SessionAssumption
<1>2. Init => SessionInv
  BY <1>1, SessionInit
<1>3. SessionInv /\ [Next]_vars => SessionInv'
  BY <1>1, SessionStep
<1>4. SessionInv => SessionDelivers
  BY <1>1, InvDelivers
<1>5. QED
  BY <1>2, <1>3, <1>4, PTL DEF Spec
=============================================================================
