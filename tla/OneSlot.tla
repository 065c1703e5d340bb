------------------------------ MODULE OneSlot ------------------------------
(***************************************************************************)
(* What the mailbox of lab1 promises: a channel that holds at most one     *)
(* message and delivers every message put into it exactly once, unchanged  *)
(* and in order.                                                           *)
(***************************************************************************)
EXTENDS Naturals, Sequences

CONSTANT Message

VARIABLES
  sent,               \* messages put into the channel, oldest first
  got                 \* messages taken out of it, oldest first

vars == <<sent, got>>

Init == sent = <<>> /\ got = <<>>

Put(m) ==
  /\ Len(sent) = Len(got)
  /\ sent' = Append(sent, m)
  /\ UNCHANGED got

Get ==
  /\ Len(got) < Len(sent)
  /\ got' = Append(got, sent[Len(got) + 1])
  /\ UNCHANGED sent

Next == Get \/ \E m \in Message : Put(m)

Spec == Init /\ [][Next]_vars
=============================================================================
