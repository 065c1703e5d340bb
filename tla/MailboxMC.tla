----------------------------- MODULE MailboxMC -----------------------------
(***************************************************************************)
(* Instances of Mailbox: files of at most three lines over two lines, and  *)
(* files in which a line may be the word "exit".                           *)
(***************************************************************************)
EXTENDS Mailbox, SequencesExt

MCLine == {"a", "b"}
MCInputs == BoundedSeq(MCLine, 3)

MCLineExit == {"a", "exit"}
MCInputsExit == BoundedSeq(MCLineExit, 2)
=============================================================================
