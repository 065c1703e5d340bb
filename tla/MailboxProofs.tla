--------------------------- MODULE MailboxProofs ---------------------------
(***************************************************************************)
(* The mailbox of lab1 for all input files and both mechanisms: the two    *)
(* processes never touch the store together, the queue never blocks, and   *)
(* the mailbox implements a one-message channel.  The argument follows a   *)
(* token: the receiver creates it with sem_post(sem_receive), the sender   *)
(* takes it, fills the store and passes it on with sem_post(sem_send), and *)
(* it is gone when the receiver has read.  The store is full exactly on    *)
(* the second half of the token's way.                                     *)
(***************************************************************************)
EXTENDS Mailbox, SequenceTheorems, TLAPS

\* The store holds a message the receiver has still to read.
Full == spc = "post" \/ sem_send = 1 \/ Receiving

\* The sender's message is the one of its script it is at.
ScriptInv ==
  /\ spc = "loop" => n <= Len(input)
  /\ spc \in {"wait", "put", "copy", "post"} => n >= 1 /\ smsg = Script[n]
  /\ "copy" \in {spc, rpc} => flag = 2

\* A full store holds the message that was put last.
StoreInv ==
  /\ Full => Puts >= 1
  /\ flag = 1 => queue = IF Full THEN <<Script[Puts]>> ELSE <<>>
  /\ flag = 2 /\ Full => shm = Script[Puts]

\* What has been received is what was sent, but for the message in the store.
GotInv == got = SubSeq(Script, 1, IF Full THEN Puts - 1 ELSE Puts)

IInv == TypeOK /\ OneToken /\ ScriptInv /\ StoreInv /\ GotInv

LEMMA ScriptType ==
  ASSUME TypeOK
  PROVE  /\ input \in Seq(Line)
         /\ Script \in Seq(Message)
         /\ Len(Script) = Len(input) + 1
         /\ \A k \in 1 .. Len(input) + 1 : Script[k] \in Message
<1>1. input \in Seq(Message)
  BY InputsAssumption DEF TypeOK, Message
<1>2. Exit \in Message
  BY DEF Message
<1>3. QED
  BY <1>1, <1>2, InputsAssumption DEF TypeOK, Script

\* A prefix of the script one message longer.
LEMMA PrefixGrows ==
  ASSUME NEW S, NEW s \in Seq(S), NEW k \in 0 .. Len(s) - 1
  PROVE  SubSeq(s, 1, k + 1) = Append(SubSeq(s, 1, k), s[k + 1])
<1>1. SubSeq(s, 1, k + 1) \in Seq(S) /\ Len(SubSeq(s, 1, k + 1)) = k + 1
  OBVIOUS
<1>2. SubSeq(s, 1, k) \in Seq(S) /\ Len(SubSeq(s, 1, k)) = k
  OBVIOUS
<1>3. Append(SubSeq(s, 1, k), s[k + 1]) \in Seq(S)
  BY <1>2
<1>4. \A m \in 1 .. k + 1 : SubSeq(s, 1, k + 1)[m] = Append(SubSeq(s, 1, k), s[k + 1])[m]
  BY <1>1, <1>2
<1>5. QED
  BY <1>1, <1>2, <1>3, <1>4, SeqEqual

LEMMA MailboxInit == Init => IInv
<1> SUFFICES ASSUME Init PROVE IInv
  OBVIOUS
<1>1. TypeOK
  BY MaxMsgAssumption, InputsAssumption DEF Init, TypeOK
<1>2. OneToken
  BY DEF Init, OneToken, Sending, Receiving, Indicator
<1>3. ScriptInv /\ StoreInv
  BY <1>1, ScriptType DEF Init, ScriptInv, StoreInv, Full, Receiving, Puts
<1>4. GotInv
  BY <1>1, ScriptType DEF Init, GotInv, Full, Receiving, Puts
<1>5. QED
  BY <1>1, <1>2, <1>3, <1>4 DEF IInv

LEMMA MailboxStep ==
  ASSUME IInv, [Next]_vars PROVE IInv'
<1> USE DEF IInv, svars, rvars
<1>a. /\ input \in Seq(Line) /\ Script \in Seq(Message) /\ Len(Script) = Len(input) + 1
      /\ \A k \in 1 .. Len(input) + 1 : Script[k] \in Message
  BY ScriptType
<1>b. ASSUME UNCHANGED input PROVE Script' = Script
  BY <1>b DEF Script
<1>1. CASE NextMessage
  <2>1. TypeOK'
    BY <1>1, <1>a, <1>b DEF NextMessage, SGo, TypeOK, ScriptInv
  <2>2. OneToken'
    BY <1>1, <1>a, <1>b DEF NextMessage, SGo, TypeOK, OneToken, Sending, Receiving, Indicator
  <2>3. ScriptInv'
    BY <1>1, <1>a, <1>b DEF NextMessage, SGo, TypeOK, ScriptInv
  <2>4. StoreInv'
    BY <1>1, <1>a, <1>b DEF NextMessage, SGo, TypeOK, OneToken, Sending, Receiving, Indicator, ScriptInv, StoreInv, Full, Puts
  <2>5. GotInv'
    BY <1>1, <1>a, <1>b DEF NextMessage, SGo, TypeOK, OneToken, Sending, Receiving, Indicator, ScriptInv, StoreInv, GotInv, Full, Puts
  <2>6. QED
    BY <2>1, <2>2, <2>3, <2>4, <2>5
<1>2. CASE SendWait
  <2>1. TypeOK'
    BY <1>2, <1>a, <1>b DEF SendWait, SGo, SemWait, TypeOK, ScriptInv
  <2>2. OneToken'
    BY <1>2, <1>a, <1>b DEF SendWait, SGo, SemWait, TypeOK, OneToken, Sending, Receiving, Indicator
  <2>3. ScriptInv'
    BY <1>2, <1>a, <1>b DEF SendWait, SGo, SemWait, TypeOK, ScriptInv
  <2>4. StoreInv'
    BY <1>2, <1>a, <1>b DEF SendWait, SGo, SemWait, TypeOK, OneToken, Sending, Receiving, Indicator, ScriptInv, StoreInv, Full, Puts
  <2>5. GotInv'
    BY <1>2, <1>a, <1>b DEF SendWait, SGo, SemWait, TypeOK, OneToken, Sending, Receiving, Indicator, ScriptInv, StoreInv, GotInv, Full, Puts
  <2>6. QED
    BY <2>1, <2>2, <2>3, <2>4, <2>5
<1>3. CASE MqSend
  <2>1. TypeOK'
    <3>1. smsg \in Message
      BY <1>3, <1>a DEF MqSend, SGo, TypeOK, ScriptInv
    <3>2. queue' \in Seq(Message) /\ Len(queue') <= MaxMsg
      BY <1>3, <3>1, MaxMsgAssumption DEF MqSend, TypeOK
    <3>3. QED
      BY <1>3, <3>2 DEF MqSend, SGo, TypeOK
  <2>2. OneToken'
    BY <1>3, <1>a, <1>b DEF MqSend, SGo, TypeOK, OneToken, Sending, Receiving, Indicator
  <2>3. ScriptInv'
    BY <1>3, <1>a, <1>b DEF MqSend, SGo, TypeOK, ScriptInv
  <2>4. StoreInv'
    <3>1. ~Full /\ queue = <<>>
      BY <1>3 DEF MqSend, SGo, TypeOK, OneToken, Sending, Receiving, Indicator, StoreInv, Full
    <3>2. Puts' = n /\ n >= 1 /\ smsg = Script[n]
      BY <1>3 DEF MqSend, SGo, Puts, ScriptInv
    <3>4. Full'
      BY <1>3 DEF MqSend, SGo, Full
    <3>3. queue' = <<smsg>>
      BY <1>3, <3>1 DEF MqSend
    <3>5. Script' = Script /\ flag' = 1
      BY <1>3, <1>b DEF MqSend
    <3>6. queue' = <<Script'[Puts']>> /\ Puts' >= 1
      BY <3>2, <3>3, <3>5, <1>a DEF TypeOK
    <3>7. QED
      BY <3>4, <3>5, <3>6 DEF StoreInv
  <2>5. GotInv'
    BY <1>3, <1>a, <1>b DEF MqSend, SGo, TypeOK, OneToken, Sending, Receiving, Indicator, ScriptInv, StoreInv, GotInv, Full, Puts
  <2>6. QED
    BY <2>1, <2>2, <2>3, <2>4, <2>5
<1>4. CASE ShmCopyIn
  <2>1. TypeOK'
    BY <1>4, <1>a, <1>b DEF ShmCopyIn, SGo, TypeOK, ScriptInv
  <2>2. OneToken'
    BY <1>4, <1>a, <1>b DEF ShmCopyIn, SGo, TypeOK, OneToken, Sending, Receiving, Indicator
  <2>3. ScriptInv'
    BY <1>4, <1>a, <1>b DEF ShmCopyIn, SGo, TypeOK, ScriptInv
  <2>4. StoreInv'
    BY <1>4, <1>a, <1>b DEF ShmCopyIn, SGo, TypeOK, OneToken, Sending, Receiving, Indicator, ScriptInv, StoreInv, Full, Puts
  <2>5. GotInv'
    BY <1>4, <1>a, <1>b DEF ShmCopyIn, SGo, TypeOK, OneToken, Sending, Receiving, Indicator, ScriptInv, StoreInv, GotInv, Full, Puts
  <2>6. QED
    BY <2>1, <2>2, <2>3, <2>4, <2>5
<1>5. CASE ShmCopiedIn
  <2>1. TypeOK'
    BY <1>5, <1>a, <1>b DEF ShmCopiedIn, SGo, TypeOK, ScriptInv
  <2>2. OneToken'
    BY <1>5, <1>a, <1>b DEF ShmCopiedIn, SGo, TypeOK, OneToken, Sending, Receiving, Indicator
  <2>3. ScriptInv'
    BY <1>5, <1>a, <1>b DEF ShmCopiedIn, SGo, TypeOK, ScriptInv
  <2>4. StoreInv'
    BY <1>5, <1>a, <1>b DEF ShmCopiedIn, SGo, TypeOK, OneToken, Sending, Receiving, Indicator, ScriptInv, StoreInv, Full, Puts
  <2>5. GotInv'
    BY <1>5, <1>a, <1>b DEF ShmCopiedIn, SGo, TypeOK, OneToken, Sending, Receiving, Indicator, ScriptInv, StoreInv, GotInv, Full, Puts
  <2>6. QED
    BY <2>1, <2>2, <2>3, <2>4, <2>5
<1>6. CASE SendPost
  <2>1. TypeOK'
    BY <1>6, <1>a, <1>b DEF SendPost, SGo, SemPost, TypeOK, ScriptInv
  <2>2. OneToken'
    BY <1>6, <1>a, <1>b DEF SendPost, SGo, SemPost, TypeOK, OneToken, Sending, Receiving, Indicator
  <2>3. ScriptInv'
    BY <1>6, <1>a, <1>b DEF SendPost, SGo, SemPost, TypeOK, ScriptInv
  <2>4. StoreInv'
    BY <1>6, <1>a, <1>b DEF SendPost, SGo, SemPost, TypeOK, OneToken, Sending, Receiving, Indicator, ScriptInv, StoreInv, Full, Puts
  <2>5. GotInv'
    BY <1>6, <1>a, <1>b DEF SendPost, SGo, SemPost, TypeOK, OneToken, Sending, Receiving, Indicator, ScriptInv, StoreInv, GotInv, Full, Puts
  <2>6. QED
    BY <2>1, <2>2, <2>3, <2>4, <2>5
<1>7. CASE ReceivePost
  <2>1. TypeOK'
    BY <1>7, <1>a, <1>b DEF ReceivePost, RGo, SemPost, TypeOK, ScriptInv
  <2>2. OneToken'
    BY <1>7, <1>a, <1>b DEF ReceivePost, RGo, SemPost, TypeOK, OneToken, Sending, Receiving, Indicator
  <2>3. ScriptInv'
    BY <1>7, <1>a, <1>b DEF ReceivePost, RGo, SemPost, TypeOK, ScriptInv
  <2>4. StoreInv'
    BY <1>7, <1>a, <1>b DEF ReceivePost, RGo, SemPost, TypeOK, OneToken, Sending, Receiving, Indicator, ScriptInv, StoreInv, Full, Puts
  <2>5. GotInv'
    BY <1>7, <1>a, <1>b DEF ReceivePost, RGo, SemPost, TypeOK, OneToken, Sending, Receiving, Indicator, ScriptInv, StoreInv, GotInv, Full, Puts
  <2>6. QED
    BY <2>1, <2>2, <2>3, <2>4, <2>5
<1>8. CASE ReceiveWait
  <2>1. TypeOK'
    BY <1>8, <1>a, <1>b DEF ReceiveWait, RGo, SemWait, TypeOK, ScriptInv
  <2>2. OneToken'
    BY <1>8, <1>a, <1>b DEF ReceiveWait, RGo, SemWait, TypeOK, OneToken, Sending, Receiving, Indicator
  <2>3. ScriptInv'
    BY <1>8, <1>a, <1>b DEF ReceiveWait, RGo, SemWait, TypeOK, ScriptInv
  <2>4. StoreInv'
    BY <1>8, <1>a, <1>b DEF ReceiveWait, RGo, SemWait, TypeOK, OneToken, Sending, Receiving, Indicator, ScriptInv, StoreInv, Full, Puts
  <2>5. GotInv'
    BY <1>8, <1>a, <1>b DEF ReceiveWait, RGo, SemWait, TypeOK, OneToken, Sending, Receiving, Indicator, ScriptInv, StoreInv, GotInv, Full, Puts
  <2>6. QED
    BY <2>1, <2>2, <2>3, <2>4, <2>5
<1>9. CASE MqReceive
  <2>1. TypeOK'
    <3>1. Head(queue) \in Message /\ Tail(queue) \in Seq(Message)
      BY <1>9 DEF MqReceive, TypeOK
    <3>2. Len(queue') <= MaxMsg
      <4>1. Len(Tail(queue)) = Len(queue) - 1
        BY <1>9 DEF MqReceive, TypeOK
      <4>2. QED
        BY <1>9, <4>1, MaxMsgAssumption DEF MqReceive, TypeOK
    <3>3. got' \in Seq(Message \cup {Garbage})
      BY <1>9, <3>1 DEF MqReceive, TypeOK
    <3>4. QED
      BY <1>9, <3>1, <3>2, <3>3 DEF MqReceive, RGo, TypeOK
  <2>2. OneToken'
    BY <1>9, <1>a, <1>b DEF MqReceive, RGo, TypeOK, OneToken, Sending, Receiving, Indicator
  <2>3. ScriptInv'
    BY <1>9, <1>a, <1>b DEF MqReceive, RGo, TypeOK, ScriptInv
  <2>4. StoreInv'
    BY <1>9, <1>a, <1>b DEF MqReceive, RGo, TypeOK, OneToken, Sending, Receiving, Indicator, ScriptInv, StoreInv, Full, Puts
  <2>5. GotInv'
    BY <1>9, <1>a, <1>b DEF MqReceive, RGo, TypeOK, OneToken, Sending, Receiving, Indicator, ScriptInv, StoreInv, GotInv, Full, Puts
  <2>6. QED
    BY <2>1, <2>2, <2>3, <2>4, <2>5
<1>10. CASE ShmCopyOut
  <2>1. TypeOK'
    BY <1>10, <1>a, <1>b DEF ShmCopyOut, RGo, TypeOK, ScriptInv
  <2>2. OneToken'
    BY <1>10, <1>a, <1>b DEF ShmCopyOut, RGo, TypeOK, OneToken, Sending, Receiving, Indicator
  <2>3. ScriptInv'
    BY <1>10, <1>a, <1>b DEF ShmCopyOut, RGo, TypeOK, ScriptInv
  <2>4. StoreInv'
    BY <1>10, <1>a, <1>b DEF ShmCopyOut, RGo, TypeOK, OneToken, Sending, Receiving, Indicator, ScriptInv, StoreInv, Full, Puts
  <2>5. GotInv'
    BY <1>10, <1>a, <1>b DEF ShmCopyOut, RGo, TypeOK, OneToken, Sending, Receiving, Indicator, ScriptInv, StoreInv, GotInv, Full, Puts
  <2>6. QED
    BY <2>1, <2>2, <2>3, <2>4, <2>5
<1>11. CASE ShmCopiedOut
  <2>1. TypeOK'
    BY <1>11, <1>a, <1>b DEF ShmCopiedOut, RGo, TypeOK, ScriptInv
  <2>2. OneToken'
    BY <1>11, <1>a, <1>b DEF ShmCopiedOut, RGo, TypeOK, OneToken, Sending, Receiving, Indicator
  <2>3. ScriptInv'
    BY <1>11, <1>a, <1>b DEF ShmCopiedOut, RGo, TypeOK, ScriptInv
  <2>4. StoreInv'
    BY <1>11, <1>a, <1>b DEF ShmCopiedOut, RGo, TypeOK, OneToken, Sending, Receiving, Indicator, ScriptInv, StoreInv, Full, Puts
  <2>5. GotInv'
    BY <1>11, <1>a, <1>b DEF ShmCopiedOut, RGo, TypeOK, OneToken, Sending, Receiving, Indicator, ScriptInv, StoreInv, GotInv, Full, Puts
  <2>6. QED
    BY <2>1, <2>2, <2>3, <2>4, <2>5
<1>12. CASE CheckExit
  <2>1. TypeOK'
    BY <1>12, <1>a, <1>b DEF CheckExit, RGo, TypeOK, ScriptInv
  <2>2. OneToken'
    BY <1>12, <1>a, <1>b DEF CheckExit, RGo, TypeOK, OneToken, Sending, Receiving, Indicator
  <2>3. ScriptInv'
    BY <1>12, <1>a, <1>b DEF CheckExit, RGo, TypeOK, ScriptInv
  <2>4. StoreInv'
    BY <1>12, <1>a, <1>b DEF CheckExit, RGo, TypeOK, OneToken, Sending, Receiving, Indicator, ScriptInv, StoreInv, Full, Puts
  <2>5. GotInv'
    BY <1>12, <1>a, <1>b DEF CheckExit, RGo, TypeOK, OneToken, Sending, Receiving, Indicator, ScriptInv, StoreInv, GotInv, Full, Puts
  <2>6. QED
    BY <2>1, <2>2, <2>3, <2>4, <2>5
<1>13. CASE UNCHANGED vars
  BY <1>13, <1>b DEF vars, TypeOK, OneToken, Sending, Receiving, Indicator, ScriptInv,
                     StoreInv, GotInv, Full, Puts
<1>14. QED
  BY <1>1, <1>2, <1>3, <1>4, <1>5, <1>6, <1>7, <1>8, <1>9, <1>10, <1>11, <1>12, <1>13
  DEF Next, Sender, Receiver, Ended

\* A full store on one side of the token's way, an empty one on the other.
LEMMA TokenPlace ==
  ASSUME IInv
  PROVE  /\ spc \in {"put", "copy"} => ~Full
         /\ Receiving => Full
<1>1. spc \in {"put", "copy"} => ~Full
  BY DEF IInv, TypeOK, OneToken, Sending, Receiving, Indicator, Full
<1>2. QED
  BY <1>1 DEF Full

\* The right to touch the store is never duplicated, nor lost while the
\* receiver asks for a message, whatever the file and the mechanism.
THEOREM MailboxOneToken == Spec => [](TypeOK /\ OneToken)
<1>1. IInv => TypeOK /\ OneToken
  BY DEF IInv
<1>2. QED
  BY <1>1, MailboxInit, MailboxStep, PTL DEF Spec

\* The two processes never touch the store at the same time.
THEOREM MailboxExclusive == Spec => []StoreExclusive
<1>1. IInv => StoreExclusive
  BY TokenPlace DEF StoreExclusive
<1>2. QED
  BY <1>1, MailboxInit, MailboxStep, PTL DEF Spec

\* Neither process ever blocks in mq_send or mq_receive, however small the
\* queue: the handshake alone orders them.
THEOREM MailboxQueueNeverBlocks == Spec => []QueueNeverBlocks
<1>1. IInv => QueueNeverBlocks
  <2> SUFFICES ASSUME IInv PROVE QueueNeverBlocks
    OBVIOUS
  <2>1. spc = "put" => ~Full
    BY TokenPlace
  <2>2. rpc = "get" => Full
    BY TokenPlace DEF Receiving
  <2>3. QED
    BY <2>1, <2>2 DEF IInv, StoreInv, QueueNeverBlocks
<1>2. QED
  BY <1>1, MailboxInit, MailboxStep, PTL DEF Spec

\* The mailbox delivers what the sender's loop sends: the end of the copy in
\* is the abstract Put, the end of the copy out the abstract Get.
THEOREM MailboxImplementsOneSlot == Spec => ImplementsOneSlot
<1>1. Init => Slot!Init
  <2> SUFFICES ASSUME Init PROVE Slot!Init
    OBVIOUS
  <2>1. Puts = 0 /\ got = <<>>
    BY DEF Init, Puts
  <2>2. QED
    BY <2>1, MailboxInit, ScriptType DEF IInv, Slot!Init
<1>2. IInv /\ [Next]_vars => [Slot!Next]_Slot!vars
  <2> SUFFICES ASSUME IInv, [Next]_vars PROVE [Slot!Next]_Slot!vars
    OBVIOUS
  <2> USE DEF svars, rvars
  <2>1. /\ Script \in Seq(Message) /\ Len(Script) = Len(input) + 1
        /\ \A k \in 1 .. Len(input) + 1 : Script[k] \in Message
    BY ScriptType DEF IInv
  <2>2. ASSUME UNCHANGED <<input, got>>, Puts' = Puts PROVE UNCHANGED Slot!vars
    BY <2>2 DEF Slot!vars, Script
  <2>3. ASSUME UNCHANGED <<input, got>>, Puts' = Puts + 1, ~Full,
               Puts \in 0 .. Len(input)
        PROVE  Slot!Next
    <3>1. SubSeq(Script, 1, Puts)' = Append(SubSeq(Script, 1, Puts), Script[Puts + 1])
      BY <2>1, <2>3, PrefixGrows DEF Script
    <3>2. got = SubSeq(Script, 1, Puts)
      BY <2>3 DEF IInv, GotInv
    <3>3. Script[Puts + 1] \in Message
      BY <2>1, <2>3 DEF IInv, TypeOK
    <3>4. Slot!Put(Script[Puts + 1])
      BY <2>3, <3>1, <3>2 DEF Slot!Put
    <3>5. QED
      BY <3>3, <3>4 DEF Slot!Next
  <2>4. ASSUME UNCHANGED input, Puts' = Puts, Full, got' = Append(got, Script[Puts]),
               Puts \in 1 .. Len(input) + 1
        PROVE  Slot!Next
    <3>1. got = SubSeq(Script, 1, Puts - 1)
      BY <2>4 DEF IInv, GotInv
    <3>2. Len(got) = Puts - 1 /\ Len(SubSeq(Script, 1, Puts)) = Puts
      BY <2>1, <2>4, <3>1 DEF IInv, TypeOK
    <3>3. SubSeq(Script, 1, Puts)[Len(got) + 1] = Script[Puts]
      BY <2>1, <2>4, <3>2 DEF IInv, TypeOK
    <3>4. UNCHANGED SubSeq(Script, 1, Puts)
      BY <2>4 DEF Script
    <3>5. Slot!Get
      BY <2>4, <3>2, <3>3, <3>4 DEF Slot!Get
    <3>6. QED
      BY <3>5 DEF Slot!Next
  <2>5. CASE NextMessage
    BY <2>2, <2>5 DEF NextMessage, SGo, Puts, IInv, TypeOK
  <2>6. CASE SendWait \/ ShmCopyIn \/ SendPost
    BY <2>2, <2>6 DEF SendWait, ShmCopyIn, SendPost, SGo, Puts
  <2>7. CASE MqSend \/ ShmCopiedIn
    <3>1. ~Full
      BY <2>7 DEF MqSend, ShmCopiedIn, SGo, IInv, TypeOK, OneToken, Sending, Receiving,
                  Indicator, Full
    <3>2. Puts = n - 1 /\ Puts' = n /\ n >= 1 /\ UNCHANGED <<input, got>>
      BY <2>7 DEF MqSend, ShmCopiedIn, SGo, Puts, IInv, ScriptInv
    <3>3. Puts \in 0 .. Len(input) /\ Puts' = Puts + 1
      BY <2>1, <3>2 DEF IInv, TypeOK
    <3>4. QED
      BY <2>3, <3>1, <3>2, <3>3
  <2>8. CASE ReceivePost \/ ReceiveWait \/ ShmCopyOut \/ CheckExit
    BY <2>2, <2>8 DEF ReceivePost, ReceiveWait, ShmCopyOut, CheckExit, Puts
  <2>9. CASE MqReceive \/ ShmCopiedOut
    <3>1. Full /\ Puts' = Puts /\ UNCHANGED input
      BY <2>9 DEF MqReceive, ShmCopiedOut, RGo, Full, Receiving, Puts
    <3>2. got' = Append(got, Script[Puts])
      BY <2>9, <3>1 DEF MqReceive, ShmCopiedOut, RGo, IInv, ScriptInv, StoreInv
    <3>3. Puts \in 1 .. Len(input) + 1
      BY <3>1, <2>1 DEF IInv, TypeOK, StoreInv, Puts
    <3>4. QED
      BY <2>4, <3>1, <3>2, <3>3
  <2>10. CASE UNCHANGED vars
    BY <2>2, <2>10 DEF vars, Puts
  <2>11. QED
    BY <2>5, <2>6, <2>7, <2>8, <2>9, <2>10 DEF Next, Sender, Receiver, Ended
<1>3. QED
  BY <1>1, <1>2, MailboxInit, MailboxStep, PTL DEF Spec, ImplementsOneSlot, Slot!Spec
=============================================================================
