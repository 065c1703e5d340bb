----------------------------- MODULE CommandLine -----------------------------
(***************************************************************************)
(* Lines and what split_line (lab2 command.c) makes of them.  A line is    *)
(* the sequence of its words; a command node has its arguments and the     *)
(* files of < and >.  Only the first node's fields in_file and out_file    *)
(* are initialised; `left` holds what malloc left in those of the others.  *)
(***************************************************************************)
EXTENDS Integers, Sequences, SequencesExt, FiniteSetsExt

CONSTANT First(_)   \* the first character of a word, where it is one of the signs

ASSUME FirstAssumption == \A sign \in {"|", "<", ">"} : First(sign) = sign

\* A null pointer in in_file or out_file.
None == "NULL"

NewNode(fields) == [args |-> <<>>, in |-> fields.in, out |-> fields.out]
Initialised == [in |-> None, out |-> None]

\* The word after a redirection sign is its file.
\* Mutant: it is taken as an argument as well.
OperandAndArgument(s, token) ==
  [s EXCEPT !.nodes[Len(s.nodes)] = [@ EXCEPT ![s.operand] = token, !.args = Append(@, token)],
            !.operand = None]
TakeOperand(s, token) ==
  [s EXCEPT !.nodes[Len(s.nodes)][s.operand] = token, !.operand = None]

\* A sign whose word never comes leaves NULL: strtok is at the end of the line.
AwaitOperand(s, field) ==
  [s EXCEPT !.nodes[Len(s.nodes)][field] = None, !.operand = field]

\* One round of the loop over strtok's words.  Of a word that begins with a sign the
\* rest is not looked at.  After < and > any word is a file.
ScanToken(left, s, token) ==
  CASE s.operand # None -> TakeOperand(s, token)
    [] s.operand = None /\ First(token) = "|" ->
         [s EXCEPT !.nodes = Append(@, NewNode(left[Len(s.nodes) + 1]))]
    [] s.operand = None /\ First(token) = "<" -> AwaitOperand(s, "in")
    [] s.operand = None /\ First(token) = ">" -> AwaitOperand(s, "out")
    [] OTHER -> [s EXCEPT !.nodes[Len(s.nodes)].args = Append(@, token)]

split_line(line, left) ==
  FoldLeft(LAMBDA s, token : ScanToken(left, s, token),
           [nodes |-> <<NewNode(Initialised)>>, operand |-> None], line).nodes

-----------------------------------------------------------------------------
(* What a line says, read position by position.                            *)

\* The word at i names the file of the sign before it.
IsOperand(line, i) ==
  LET op[j \in 0..Len(line)] == j > 1 /\ First(line[j - 1]) \in {"<", ">"} /\ ~op[j - 1]
  IN op[i]

Is(line, i, sign) == First(line[i]) = sign /\ ~IsOperand(line, i)
Bars(line) == {i \in DOMAIN line : Is(line, i, "|")}

\* The positions of the k-th command: those with k-1 bars before them.
Segment(line, k) ==
  {i \in DOMAIN line : i \notin Bars(line) /\ Cardinality({b \in Bars(line) : b < i}) = k - 1}

The(one) == CHOOSE i \in one : TRUE
Arguments(line, k) ==
  LET words == {i \in Segment(line, k) : /\ ~IsOperand(line, i)
                                         /\ First(line[i]) \notin {"<", ">"}}
  IN [n \in 1..Cardinality(words) |->
        line[The({i \in words : Cardinality({j \in words : j <= i}) = n})]]

Signs(line, k, sign) == {i \in Segment(line, k) : Is(line, i, sign)}

\* The last redirection of a kind counts; without a word after it there is none.
FileOf(line, k, sign) ==
  LET last == Max(Signs(line, k, sign))
  IN IF last = Len(line) THEN None ELSE line[last + 1]
=============================================================================
