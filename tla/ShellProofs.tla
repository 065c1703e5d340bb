---------------------------- MODULE ShellProofs ----------------------------
(***************************************************************************)
(* The shell for every set of lines that may be typed, all files, any      *)
(* number of commands in a line, any size of the history and of a pipe.    *)
(* At the prompt nothing is left of the last line; a file is overwritten   *)
(* only when someone has said yes; record prints the last lines; every     *)
(* command has the arguments and redirections its line gives it; what      *)
(* arrives at the end of a pipeline is the composition of its commands.    *)
(*                                                                         *)
(* The first two follow from one invariant.  It gives the table of the     *)
(* shell at each of its steps: its three descriptors and the ends of the   *)
(* pipes between the commands forked so far, at 3, 4 and 5, or the two     *)
(* copies a built-in leaves to go back by.  And it says of every process   *)
(* that writes to a file which that is: one that was not there when the    *)
(* line began, or one the user has given up.  The third follows from where *)
(* in the ring each of the last lines is.  For the fourth, what the line   *)
(* says and what split_line has made of it are followed word by word, and  *)
(* the pool of freed nodes is said to hold no redirection but those of     *)
(* earlier lines.  The fifth has an invariant of its own: there are texts  *)
(* w, the lines each command has written so far, such that a pipe holds    *)
(* what has been written to it and not been taken from it, what the last   *)
(* command has written is on the screen or in the file, each w[k] is the   *)
(* beginning of what the first k commands make of every input that may     *)
(* still come, and a command that has ended has written all of that unless *)
(* the next one has ended too.                                             *)
(***************************************************************************)
EXTENDS Shell, SequenceTheorems, FiniteSetTheorems, WellFoundedInduction, TLAPS

\* A word, a line, a text.
Word == STRING \cup {"y", "n", "notice", "garbage", "absent"}
Line == Seq(Word)
Text == Seq(Line)

\* A command node whose redirections are taken from W.
CmdNode(W) == [args : Line, in : W, out : W]

LEMMA Least ==
  ASSUME NEW T \in SUBSET Nat, T # {}
  PROVE  \E x \in T : \A y \in T : x <= y
<1> DEFINE R == OpToRel(<, Nat)
<1>1. IsWellFoundedOn(R, Nat)
  BY NatLessThanWellFounded
<1>2. \A x, y \in Nat : x < y => <<x, y>> \in R
  BY DEF OpToRel
<1> HIDE DEF R
<1>3. PICK x \in T : \A y \in T : ~ (<<y, x>> \in R)
  BY <1>1, WFMin
<1>4. ASSUME NEW y \in T PROVE x <= y
  <2>1. x \in Nat /\ y \in Nat /\ ~(y < x)
    BY <1>2, <1>3
  <2>2. QED
    BY <2>1
<1>5. QED
  BY <1>4

\* Induction over a set, not over an operator.
LEMMA Induct ==
  ASSUME NEW S, 0 \in S, \A n \in Nat : n \in S => n + 1 \in S
  PROVE  Nat \subseteq S
<1> SUFFICES ASSUME Nat \ S # {} PROVE FALSE
  OBVIOUS
<1>1. PICK x \in Nat \ S : \A y \in Nat \ S : x <= y
  BY Least
<1>2. QED
  BY <1>1

\* The greatest of the positions up to n.
LEMMA MaxIs ==
  ASSUME NEW n \in Nat, NEW s \in SUBSET (1 .. n), s # {}
  PROVE  Max(s) \in s /\ \A y \in s : Max(s) >= y
<1> DEFINE U == {m \in Nat : \A x \in s : x <= m}
<1>1. n \in U /\ U \in SUBSET Nat
  OBVIOUS
<1> HIDE DEF U
<1>2. PICK m \in U : \A k \in U : m <= k
  BY <1>1, Least
<1>3. m \in Nat /\ \A x \in s : x <= m
  BY <1>2 DEF U
<1>4. m \in s
  <2> SUFFICES ASSUME m \notin s PROVE FALSE
    OBVIOUS
  <2>1. PICK x \in s : TRUE
    OBVIOUS
  <2>2. m - 1 \in Nat /\ \A y \in s : y <= m - 1
    BY <1>3, <2>1
  <2>3. QED
    BY <1>2, <1>3, <2>2 DEF U
<1>5. \E x \in s : \A y \in s : x >= y
  BY <1>3, <1>4
<1>6. QED
  BY <1>5 DEF Max

\* The greatest of the first positions is the last of them.
LEMMA LastIs ==
  ASSUME NEW l \in Nat, l >= 1
  PROVE  Max(1 .. l) = l
<1>1. 1 .. l # {} /\ 1 .. l \in SUBSET (1 .. l) /\ l \in 1 .. l
  OBVIOUS
<1>2. Max(1 .. l) \in 1 .. l /\ \A y \in 1 .. l : Max(1 .. l) >= y
  BY <1>1, MaxIs
<1> DEFINE x == Max(1 .. l)
<1>3. x \in 1 .. l /\ x >= l
  BY <1>1, <1>2
<1> HIDE DEF x
<1>4. x = l
  BY <1>3
<1>5. QED
  BY <1>4 DEF x

LEMMA MaxOfTwo ==
  ASSUME NEW a \in Int, NEW b \in Int
  PROVE  Max({a, b}) \in {a, b} /\ Max({a, b}) >= a /\ Max({a, b}) >= b
<1>1. \E x \in {a, b} : \A y \in {a, b} : x >= y
  <2>1. CASE a >= b
    BY <2>1
  <2>2. CASE b >= a
    BY <2>2
  <2>3. QED
    BY <2>1, <2>2
<1>2. QED
  BY <1>1 DEF Max

-----------------------------------------------------------------------------
(* The parser.                                                             *)

Scanned(s, W) ==
  /\ s \in [nodes : Seq(CmdNode(W)), operand : {None, "in", "out"}]
  /\ s.nodes # <<>>

LEMMA ScanTyped ==
  ASSUME NEW left, NEW s, NEW W, Scanned(s, W), NEW token \in Word
  PROVE  Scanned(ScanToken(left, s, token),
                 W \cup {token, None, left[Len(s.nodes) + 1].in, left[Len(s.nodes) + 1].out})
<1> DEFINE n == Len(s.nodes)
           V == W \cup {token, None, left[n + 1].in, left[n + 1].out}
<1> SUFFICES Scanned(ScanToken(left, s, token), V)
  OBVIOUS
<1>1. /\ s.nodes \in Seq(CmdNode(V)) /\ s.operand \in {None, "in", "out"}
      /\ n \in Nat /\ n >= 1 /\ DOMAIN s.nodes = 1 .. n
  <2>1. CmdNode(W) \subseteq CmdNode(V)
    BY DEF CmdNode
  <2>2. s.nodes \in Seq(CmdNode(W)) /\ s.nodes # <<>> /\ s.operand \in {None, "in", "out"}
    BY DEF Scanned
  <2> HIDE DEF V
  <2>3. QED
    BY <2>1, <2>2
<1>2. s = [nodes |-> s.nodes, operand |-> s.operand]
  BY DEF Scanned
<1>3. /\ s.nodes[n] \in CmdNode(V) /\ token \in V /\ None \in V
      /\ left[n + 1].in \in V /\ left[n + 1].out \in V
  BY <1>1
<1> HIDE DEF V
<1>4. ASSUME NEW node \in CmdNode(V)
      PROVE  /\ [s.nodes EXCEPT ![n] = node] \in Seq(CmdNode(V))
             /\ [s.nodes EXCEPT ![n] = node] # <<>>
             /\ Append(s.nodes, node) \in Seq(CmdNode(V))
             /\ Append(s.nodes, node) # <<>>
  BY <1>1
<1>5. CASE s.operand # None
  <2>1. [s.nodes[n] EXCEPT ![s.operand] = token] \in CmdNode(V)
    BY <1>1, <1>3, <1>5 DEF CmdNode
  <2>2. ScanToken(left, s, token)
          = [nodes |-> [s.nodes EXCEPT ![n] = [s.nodes[n] EXCEPT ![s.operand] = token]],
             operand |-> None]
    BY <1>1, <1>2, <1>5 DEF ScanToken, TakeOperand
  <2>3. QED
    BY <1>4, <2>1, <2>2 DEF Scanned
<1>6. CASE s.operand = None /\ First(token) = "|"
  <2>1. NewNode(left[n + 1]) \in CmdNode(V)
    BY <1>3 DEF NewNode, CmdNode, Line
  <2>2. ScanToken(left, s, token)
          = [nodes |-> Append(s.nodes, NewNode(left[n + 1])), operand |-> None]
    BY <1>1, <1>2, <1>6 DEF ScanToken
  <2>3. QED
    BY <1>4, <2>1, <2>2 DEF Scanned
<1>7. ASSUME NEW field \in {"in", "out"}
      PROVE  Scanned(AwaitOperand(s, field), V)
  <2>1. [s.nodes[n] EXCEPT ![field] = None] \in CmdNode(V)
    BY <1>3 DEF CmdNode
  <2>2. AwaitOperand(s, field)
          = [nodes |-> [s.nodes EXCEPT ![n] = [s.nodes[n] EXCEPT ![field] = None]],
             operand |-> field]
    <3> DEFINE nodes == [s.nodes EXCEPT ![n] = [s.nodes[n] EXCEPT ![field] = None]]
    <3>1. AwaitOperand(s, field) = [s EXCEPT !.nodes = nodes, !.operand = field]
      BY DEF AwaitOperand
    <3> HIDE DEF nodes
    <3>2. AwaitOperand(s, field) = [nodes |-> nodes, operand |-> field]
      BY <1>2, <3>1
    <3>3. QED
      BY <3>2 DEF nodes
  <2>3. QED
    BY <1>4, <2>1, <2>2 DEF Scanned
<1>8. CASE s.operand = None /\ First(token) = "<"
  BY <1>7, <1>8 DEF ScanToken
<1>9. CASE s.operand = None /\ First(token) = ">"
  BY <1>7, <1>9 DEF ScanToken
<1>10. CASE s.operand = None /\ First(token) \notin {"|", "<", ">"}
  <2>1. [s.nodes[n] EXCEPT !.args = Append(@, token)] \in CmdNode(V)
    <3>1. s.nodes[n].args \in Seq(Word)
      BY <1>3 DEF CmdNode, Line
    <3>2. Append(s.nodes[n].args, token) \in Seq(Word)
      BY <3>1
    <3>3. QED
      BY <1>3, <3>2 DEF CmdNode, Line
  <2>2. ScanToken(left, s, token)
          = [nodes |-> [s.nodes EXCEPT ![n] = [s.nodes[n] EXCEPT !.args = Append(@, token)]],
             operand |-> None]
    BY <1>1, <1>2, <1>10 DEF ScanToken
  <2>3. QED
    BY <1>4, <2>1, <2>2 DEF Scanned
<1>11. QED
  BY <1>5, <1>6, <1>8, <1>9, <1>10

Start == [nodes |-> <<NewNode(Initialised)>>, operand |-> None]

\* What the fold computes for the sets of positions in D, the last position last.
ScansOver(g, line, left, D) ==
  g = [s \in D |-> IF s = {} THEN Start
                   ELSE ScanToken(left, g[s \ {Max(s)}], line[Max(s)])]

LEMMA StartTyped == Scanned(Start, {None})
<1>1. NewNode(Initialised) \in CmdNode({None})
  BY DEF NewNode, Initialised, CmdNode, Line
<1>2. QED
  BY <1>1 DEF Start, Scanned

LEMMA ScanExists ==
  ASSUME NEW n \in Nat, NEW line, NEW left
  PROVE  \E g : ScansOver(g, line, left, SUBSET (1 .. n))
<1> DEFINE S == {m \in Nat : \E g : ScansOver(g, line, left, SUBSET (1 .. m))}
<1>1. 0 \in S
  <2> DEFINE g == [s \in SUBSET (1 .. 0) |-> Start]
  <2>1. \A s \in SUBSET (1 .. 0) : s = {}
    OBVIOUS
  <2>2. ScansOver(g, line, left, SUBSET (1 .. 0))
    BY <2>1 DEF ScansOver
  <2>3. QED
    BY <2>2
<1>2. ASSUME NEW m \in Nat, m \in S PROVE m + 1 \in S
  <2>1. PICK g : ScansOver(g, line, left, SUBSET (1 .. m))
    BY <1>2
  <2> DEFINE D == SUBSET (1 .. m)
             E == SUBSET (1 .. m + 1)
             Next1(f, s) == IF s = {} THEN Start
                            ELSE ScanToken(left, f[s \ {Max(s)}], line[Max(s)])
             h == [s \in E |-> Next1(g, s)]
  <2>2. ASSUME NEW u \in D PROVE h[u] = g[u]
    <3>1. u \in E
      OBVIOUS
    <3>2. g[u] = Next1(g, u)
      BY <2>1 DEF ScansOver
    <3>3. QED
      BY <3>1, <3>2
  <2>3. ASSUME NEW s \in E, s # {} PROVE s \ {Max(s)} \in D
    <3>1. m + 1 \in Nat /\ s \in SUBSET (1 .. m + 1) /\ s # {}
      BY <2>3
    <3>2. Max(s) \in s /\ \A y \in s : Max(s) >= y
      BY <3>1, MaxIs
    <3> HIDE DEF h
    <3>3. ASSUME NEW y \in s \ {Max(s)} PROVE y \in 1 .. m
      <4>1. y \in 1 .. m + 1 /\ Max(s) \in 1 .. m + 1 /\ Max(s) >= y /\ y # Max(s)
        BY <3>1, <3>2
      <4>2. QED
        BY <4>1
    <3>4. QED
      BY <3>3
  <2>4. \A s \in E : h[s] = Next1(h, s)
    BY <2>2, <2>3
  <2>5. ScansOver(h, line, left, E)
    <3>1. h = [s \in E |-> h[s]]
      OBVIOUS
    <3> HIDE DEF h, D, E
    <3>2. QED
      BY <2>4, <3>1 DEF ScansOver
  <2> HIDE DEF h, D
  <2>6. QED
    BY <2>5
<1> HIDE DEF S
<1>3. n \in S
  BY <1>1, <1>2, Induct
<1>4. QED
  BY <1>3 DEF S

\* split_line word by word: h[m] is what it has after the first m words.
Scans(h, line, left) ==
  /\ h[0] = Start
  /\ \A m \in 0 .. Len(line) - 1 : h[m + 1] = ScanToken(left, h[m], line[m + 1])
  /\ split_line(line, left) = h[Len(line)].nodes

LEMMA ScanSteps ==
  ASSUME NEW line \in Line, NEW left
  PROVE  \E h : Scans(h, line, left)
<1> DEFINE n == Len(line)
           g == CHOOSE f : ScansOver(f, line, left, SUBSET (1 .. n))
           h == [m \in 0 .. n |-> g[1 .. m]]
<1>1. n \in Nat /\ DOMAIN line = 1 .. n
  BY DEF Line
<1> HIDE DEF n
<1>2. ScansOver(g, line, left, SUBSET (1 .. n))
  BY <1>1, ScanExists
<1>3. split_line(line, left) = g[1 .. n].nodes
  BY <1>1 DEF split_line, FoldLeft, MapThenFoldSet, ScansOver, Start
<1> HIDE DEF g
<1>4. \A s \in SUBSET (1 .. n) :
        g[s] = IF s = {} THEN Start ELSE ScanToken(left, g[s \ {Max(s)}], line[Max(s)])
  BY <1>2 DEF ScansOver
<1>5. g[1 .. 0] = Start
  <2>1. 1 .. 0 = {} /\ {} \in SUBSET (1 .. n)
    OBVIOUS
  <2>2. QED
    BY <1>4, <2>1
<1>6. ASSUME NEW m \in 0 .. n - 1
      PROVE  g[1 .. m + 1] = ScanToken(left, g[1 .. m], line[m + 1])
  <2> DEFINE l == m + 1
  <2>1. l \in Nat /\ 1 .. l \in SUBSET (1 .. n) /\ l \in 1 .. l
    <3>1. l \in Nat /\ l >= 1 /\ l <= n
      BY <1>1
    <3> HIDE DEF l
    <3>2. QED
      BY <1>1, <3>1
  <2>2. Max(1 .. l) = l
    <3>1. l >= 1
      BY <2>1
    <3> HIDE DEF l
    <3>2. QED
      BY <2>1, <3>1, LastIs
  <2>3. 1 .. l # {}
    BY <2>1
  <2>4. (1 .. m + 1) \ {m + 1} = 1 .. m
    OBVIOUS
  <2>5. QED
    BY <1>4, <2>1, <2>2, <2>3, <2>4
<1>7. \A m \in 0 .. n : h[m] = g[1 .. m]
  OBVIOUS
<1>8. 0 \in 0 .. n /\ n \in 0 .. n /\ \A m \in 0 .. n - 1 : m \in 0 .. n /\ m + 1 \in 0 .. n
  BY <1>1
<1> HIDE DEF h
<1>9. Scans(h, line, left)
  BY <1>3, <1>5, <1>6, <1>7, <1>8 DEF Scans, n
<1>10. QED
  BY <1>9

\* A sequence of nodes with words for arguments.
Sound(nodes) ==
  /\ Len(nodes) \in Nat
  /\ DOMAIN nodes = 1 .. Len(nodes)
  /\ \A k \in DOMAIN nodes : nodes[k].args \in Line

LEMMA ParseTyped ==
  ASSUME NEW line \in Line, NEW left
  PROVE  Sound(split_line(line, left)) /\ Len(split_line(line, left)) >= 1
<1> DEFINE n == Len(line)
<1>1. PICK h : Scans(h, line, left)
  BY ScanSteps
<1> DEFINE S == {m \in Nat : m <= n => \E W : Scanned(h[m], W)}
<1>2. n \in Nat /\ \A k \in 1 .. n : line[k] \in Word
  BY DEF Line
<1> HIDE DEF n
<1>3. /\ h[0] = Start /\ split_line(line, left) = h[n].nodes
      /\ \A m \in 0 .. n - 1 : h[m + 1] = ScanToken(left, h[m], line[m + 1])
  BY <1>1 DEF Scans, n
<1>4. 0 \in S
  BY <1>3, StartTyped
<1>5. ASSUME NEW m \in Nat, m \in S PROVE m + 1 \in S
  <2> SUFFICES ASSUME m + 1 <= n PROVE \E W : Scanned(h[m + 1], W)
    OBVIOUS
  <2>1. PICK W : Scanned(h[m], W)
    BY <1>2, <1>5
  <2>2. m \in 0 .. n - 1 /\ line[m + 1] \in Word
    BY <1>2
  <2>3. \E V : Scanned(ScanToken(left, h[m], line[m + 1]), V)
    BY <2>1, <2>2, ScanTyped
  <2>4. QED
    BY <1>3, <2>2, <2>3
<1>6. PICK W : Scanned(h[n], W)
  <2> HIDE DEF S
  <2>1. n \in S
    BY <1>2, <1>4, <1>5, Induct
  <2>2. QED
    BY <1>2, <2>1 DEF S
<1>7. QED
  <2> DEFINE nodes == h[n].nodes
  <2>1. nodes \in Seq(CmdNode(W)) /\ nodes # <<>>
    BY <1>6 DEF Scanned
  <2> HIDE DEF nodes
  <2>2. /\ Len(nodes) \in Nat /\ Len(nodes) >= 1 /\ DOMAIN nodes = 1 .. Len(nodes)
        /\ \A k \in 1 .. Len(nodes) : nodes[k] \in CmdNode(W)
    BY <2>1
  <2>3. Sound(nodes)
    BY <2>2 DEF Sound, CmdNode
  <2>4. QED
    BY <1>3, <2>2, <2>3 DEF nodes

-----------------------------------------------------------------------------
(* What a line says, and what it says with one word more.                  *)

IsOp(g, line, n) ==
  g = [j \in 0 .. n |-> j > 1 /\ First(line[j - 1]) \in {"<", ">"} /\ ~g[j - 1]]

LEMMA OperandExists ==
  ASSUME NEW n \in Nat, NEW line
  PROVE  \E g : IsOp(g, line, n)
<1> DEFINE S == {m \in Nat : \E g : IsOp(g, line, m)}
<1>1. 0 \in S
  <2> DEFINE g == [j \in 0 .. 0 |-> FALSE]
  <2>1. \A j \in 0 .. 0 : ~(j > 1)
    OBVIOUS
  <2>2. g = [j \in 0 .. 0 |-> j > 1 /\ First(line[j - 1]) \in {"<", ">"} /\ ~g[j - 1]]
    BY <2>1
  <2> HIDE DEF g
  <2>3. QED
    BY <2>2 DEF IsOp
<1>2. ASSUME NEW m \in Nat, m \in S PROVE m + 1 \in S
  <2>1. PICK g : IsOp(g, line, m)
    BY <1>2
  <2> DEFINE Op(f, j) == j > 1 /\ First(line[j - 1]) \in {"<", ">"} /\ ~f[j - 1]
             h == [j \in 0 .. m + 1 |-> Op(g, j)]
  <2>2. \A j \in 0 .. m : g[j] = Op(g, j)
    BY <2>1 DEF IsOp
  <2>3. \A j \in 0 .. m : h[j] = g[j]
    BY <2>2
  <2>4. \A j \in 0 .. m + 1 : Op(h, j) = Op(g, j)
    <3> HIDE DEF h
    <3>1. \A j \in 0 .. m + 1 : j > 1 => j - 1 \in 0 .. m
      OBVIOUS
    <3>2. QED
      BY <2>3, <3>1
  <2>5. h = [j \in 0 .. m + 1 |-> Op(h, j)]
    <3>1. h = [j \in 0 .. m + 1 |-> Op(g, j)]
      OBVIOUS
    <3> HIDE DEF h
    <3>2. QED
      BY <2>4, <3>1
  <2> HIDE DEF h
  <2>6. QED
    BY <2>5 DEF IsOp
<1> HIDE DEF S
<1>3. n \in S
  BY <1>1, <1>2, Induct
<1>4. QED
  BY <1>3 DEF S

\* A word is a file if there is a sign before it that is not a file itself.
LEMMA OperandIs ==
  ASSUME NEW line \in Line
  PROVE  /\ \A i \in 0 .. Len(line) : IsOperand(line, i) \in BOOLEAN
         /\ \A i \in 1 .. Len(line) :
              IsOperand(line, i) <=> /\ i > 1 /\ First(line[i - 1]) \in {"<", ">"}
                                     /\ ~IsOperand(line, i - 1)
<1> DEFINE n == Len(line)
           g == CHOOSE f : IsOp(f, line, n)
<1>1. n \in Nat
  BY DEF Line
<1>2. \A i : IsOperand(line, i) = g[i]
  BY DEF IsOperand, IsOp
<1>3. IsOp(g, line, n)
  BY <1>1, OperandExists
<1> HIDE DEF g
<1>4. \A i \in 0 .. n : g[i] = (i > 1 /\ First(line[i - 1]) \in {"<", ">"} /\ ~g[i - 1])
  BY <1>3 DEF IsOp
<1>5. ASSUME NEW i \in 0 .. n
      PROVE  /\ g[i] \in BOOLEAN
             /\ g[i] <=> i > 1 /\ First(line[i - 1]) \in {"<", ">"} /\ ~g[i - 1]
  <2> DEFINE A == i > 1 /\ First(line[i - 1]) \in {"<", ">"} /\ ~g[i - 1]
  <2>1. A \in BOOLEAN
    BY Zenon
  <2>2. g[i] = A
    BY <1>4
  <2>3. g[i] \in BOOLEAN /\ (g[i] <=> A)
    <3> HIDE DEF A
    <3>1. QED
      BY <2>1, <2>2
  <2>4. QED
    BY <2>3
<1>6. \A i \in 1 .. n : i \in 0 .. n
  BY <1>1
<1>7. QED
  BY <1>2, <1>5, <1>6

\* The field whose file is to come.
Pending(line) ==
  CASE line # <<>> /\ Is(line, Len(line), "<") -> "in"
    [] line # <<>> /\ Is(line, Len(line), ">") -> "out"
    [] OTHER -> None

LEMMA PendingIs ==
  ASSUME NEW line \in Line
  PROVE  /\ Pending(line) # None <=> /\ Len(line) \in 1 .. Len(line)
                                     /\ First(line[Len(line)]) \in {"<", ">"}
                                     /\ ~IsOperand(line, Len(line))
         /\ Pending(line) = "in" <=> Len(line) \in 1 .. Len(line) /\ Is(line, Len(line), "<")
         /\ Pending(line) = "out" <=> Len(line) \in 1 .. Len(line) /\ Is(line, Len(line), ">")
         /\ Pending(line) \in {None, "in", "out"}
<1>1. Len(line) \in Nat /\ (line # <<>> <=> Len(line) \in 1 .. Len(line))
  BY DEF Line
<1>2. QED
  BY <1>1 DEF Pending, Is, None

\* A line with one word more.
LEMMA MoreWords ==
  ASSUME NEW line \in Line, NEW w \in Word
  PROVE  /\ Append(line, w) \in Line
         /\ Len(line) \in Nat /\ Len(Append(line, w)) = Len(line) + 1
         /\ DOMAIN line = 1 .. Len(line) /\ DOMAIN Append(line, w) = 1 .. Len(line) + 1
         /\ Append(line, w)[Len(line) + 1] = w
         /\ \A i \in 1 .. Len(line) : Append(line, w)[i] = line[i] /\ i \in 1 .. Len(line) + 1
         /\ \A i \in 1 .. Len(line) + 1 : i \in 1 .. Len(line) \/ i = Len(line) + 1
BY DEF Line

\* ... has the same files, and one if a sign is pending.
LEMMA OperandMore ==
  ASSUME NEW line \in Line, NEW w \in Word
  PROVE  /\ \A i \in 1 .. Len(line) : IsOperand(Append(line, w), i) <=> IsOperand(line, i)
         /\ IsOperand(Append(line, w), Len(line) + 1) <=> Pending(line) # None
<1> DEFINE n == Len(line)
           more == Append(line, w)
<1>1. /\ more \in Line /\ n \in Nat /\ Len(more) = n + 1
      /\ \A i \in 1 .. n : more[i] = line[i]
  BY MoreWords
<1>2. \A i \in 1 .. n :
        IsOperand(line, i) <=> /\ i > 1 /\ First(line[i - 1]) \in {"<", ">"} /\ ~IsOperand(line, i - 1)
  BY OperandIs
<1> HIDE DEF more
<1>3. \A i \in 1 .. n + 1 :
        IsOperand(more, i) <=> /\ i > 1 /\ First(more[i - 1]) \in {"<", ">"} /\ ~IsOperand(more, i - 1)
  BY <1>1, OperandIs
<1> DEFINE S == {m \in Nat : m \in 1 .. n => (IsOperand(more, m) <=> IsOperand(line, m))}
<1> HIDE DEF n
<1>4. 0 \in S
  OBVIOUS
<1>5. ASSUME NEW m \in Nat, m \in S PROVE m + 1 \in S
  <2> SUFFICES ASSUME m + 1 \in 1 .. n PROVE IsOperand(more, m + 1) <=> IsOperand(line, m + 1)
    OBVIOUS
  <2>1. CASE m = 0
    BY <1>1, <1>2, <1>3, <2>1
  <2>2. CASE m # 0
    <3>1. m \in 1 .. n /\ m + 1 \in 1 .. n + 1 /\ m + 1 > 1 /\ (m + 1) - 1 = m
      BY <1>1, <2>2
    <3>2. more[m] = line[m] /\ (IsOperand(more, m) <=> IsOperand(line, m))
      BY <1>1, <1>5, <3>1
    <3>3. /\ IsOperand(more, m + 1) <=> First(more[m]) \in {"<", ">"} /\ ~IsOperand(more, m)
          /\ IsOperand(line, m + 1) <=> First(line[m]) \in {"<", ">"} /\ ~IsOperand(line, m)
      BY <1>2, <1>3, <3>1
    <3>4. QED
      BY <3>2, <3>3
  <2>3. QED
    BY <2>1, <2>2
<1>6. \A i \in 1 .. n : IsOperand(more, i) <=> IsOperand(line, i)
  <2> HIDE DEF S
  <2>1. Nat \subseteq S
    BY <1>4, <1>5, Induct
  <2>2. QED
    BY <1>1, <2>1 DEF S
<1>7. IsOperand(more, n + 1) <=> Pending(line) # None
  <2>1. IsOperand(more, n + 1) <=> n + 1 > 1 /\ First(more[n]) \in {"<", ">"} /\ ~IsOperand(more, n)
    <3>1. n + 1 \in 1 .. n + 1 /\ (n + 1) - 1 = n
      BY <1>1
    <3>2. QED
      BY <1>3, <3>1
  <2>2. Pending(line) # None <=> n \in 1 .. n /\ First(line[n]) \in {"<", ">"} /\ ~IsOperand(line, n)
    BY PendingIs DEF n
  <2>3. CASE n = 0
    BY <2>1, <2>2, <2>3
  <2>4. CASE n # 0
    <3>1. n \in 1 .. n
      BY <1>1, <2>4
    <3>2. QED
      BY <1>1, <1>6, <2>1, <2>2, <3>1
  <2>5. QED
    BY <2>3, <2>4
<1>8. QED
  BY <1>6, <1>7 DEF more, n

\* Where the commands of a line begin.
LEMMA BarsAre ==
  ASSUME NEW line \in Line
  PROVE  /\ Bars(line) \in SUBSET (1 .. Len(line))
         /\ IsFiniteSet(Bars(line)) /\ Cardinality(Bars(line)) \in Nat
         /\ Nodes(line) \in Nat /\ Nodes(line) >= 1 /\ Cardinality(Bars(line)) = Nodes(line) - 1
<1>1. Bars(line) \in SUBSET (1 .. Len(line)) /\ Len(line) \in Nat
  BY DEF Line, Bars
<1>2. IsFiniteSet(1 .. Len(line))
  BY <1>1, FS_Interval
<1>3. IsFiniteSet(Bars(line)) /\ Cardinality(Bars(line)) \in Nat
  BY <1>1, <1>2, FS_Subset, FS_CardinalityType
<1>4. QED
  BY <1>1, <1>3 DEF Nodes

\* A bar that is no file ends a command.
EndsCommand(line, w) == First(w) = "|" /\ Pending(line) = None

LEMMA BarsMore ==
  ASSUME NEW line \in Line, NEW w \in Word
  PROVE  /\ Bars(Append(line, w)) = Bars(line) \cup (IF EndsCommand(line, w) THEN {Len(line) + 1} ELSE {})
         /\ Nodes(Append(line, w)) = Nodes(line) + (IF EndsCommand(line, w) THEN 1 ELSE 0)
<1> DEFINE n == Len(line)
           more == Append(line, w)
<1>1. /\ n \in Nat /\ DOMAIN line = 1 .. n /\ DOMAIN more = 1 .. n + 1 /\ more[n + 1] = w
      /\ \A i \in 1 .. n : more[i] = line[i] /\ i \in 1 .. n + 1
      /\ \A i \in 1 .. n + 1 : i \in 1 .. n \/ i = n + 1
      /\ n + 1 \in 1 .. n + 1
  BY MoreWords
<1>2. /\ \A i \in 1 .. n : IsOperand(more, i) <=> IsOperand(line, i)
      /\ IsOperand(more, n + 1) <=> Pending(line) # None
  BY OperandMore
<1> HIDE DEF more, n
<1>3. \A i \in 1 .. n : i \in Bars(more) <=> i \in Bars(line)
  BY <1>1, <1>2 DEF Bars, Is
<1>4. n + 1 \in Bars(more) <=> EndsCommand(line, w)
  BY <1>1, <1>2 DEF Bars, Is, EndsCommand
<1>5. Bars(more) \subseteq 1 .. n + 1 /\ Bars(line) \subseteq 1 .. n
  BY <1>1 DEF Bars
<1>6. n + 1 \notin Bars(line)
  BY <1>1, <1>5
<1>7. Bars(more) = Bars(line) \cup (IF EndsCommand(line, w) THEN {n + 1} ELSE {})
  BY <1>1, <1>3, <1>4, <1>5
<1>8. Nodes(more) = Nodes(line) + (IF EndsCommand(line, w) THEN 1 ELSE 0)
  <2>1. IsFiniteSet(Bars(line)) /\ Cardinality(Bars(line)) \in Nat
    BY BarsAre
  <2>2. CASE EndsCommand(line, w)
    <3>1. Cardinality(Bars(line) \cup {n + 1}) = Cardinality(Bars(line)) + 1
      BY <1>6, <2>1, FS_AddElement
    <3>2. QED
      BY <1>7, <2>1, <2>2, <3>1 DEF Nodes
  <2>3. CASE ~EndsCommand(line, w)
    BY <1>7, <2>1, <2>3 DEF Nodes
  <2>4. QED
    BY <2>2, <2>3
<1>9. QED
  BY <1>7, <1>8 DEF more, n

\* The new word belongs to the last command, unless it is a bar.
LEMMA SegmentMore ==
  ASSUME NEW line \in Line, NEW w \in Word, NEW k \in Nat
  PROVE  Segment(Append(line, w), k) =
           Segment(line, k) \cup
             (IF k = Nodes(line) /\ ~EndsCommand(line, w) THEN {Len(line) + 1} ELSE {})
<1> DEFINE n == Len(line)
           more == Append(line, w)
           Before(l, i) == {b \in Bars(l) : b < i}
<1>1. /\ n \in Nat /\ DOMAIN line = 1 .. n /\ DOMAIN more = 1 .. n + 1
      /\ \A i \in 1 .. n : i \in 1 .. n + 1
      /\ \A i \in 1 .. n + 1 : i \in 1 .. n \/ i = n + 1
      /\ n + 1 \in 1 .. n + 1
  BY MoreWords
<1>2. Bars(more) = Bars(line) \cup (IF EndsCommand(line, w) THEN {n + 1} ELSE {})
  BY BarsMore
<1>3. Bars(line) \subseteq 1 .. n /\ Cardinality(Bars(line)) = Nodes(line) - 1 /\ Nodes(line) \in Nat
  BY BarsAre
<1> HIDE DEF more, n
<1>4. \A i \in 1 .. n : Before(more, i) = Before(line, i)
  BY <1>1, <1>2, <1>3
<1>5. Before(more, n + 1) = Bars(line)
  BY <1>1, <1>2, <1>3
<1>6. \A i \in 1 .. n : i \in Bars(more) <=> i \in Bars(line)
  BY <1>1, <1>2
<1>7. n + 1 \in Bars(more) <=> EndsCommand(line, w)
  BY <1>1, <1>2, <1>3
<1>8. /\ Segment(more, k) = {i \in 1 .. n + 1 : i \notin Bars(more) /\ Cardinality(Before(more, i)) = k - 1}
      /\ Segment(line, k) = {i \in 1 .. n : i \notin Bars(line) /\ Cardinality(Before(line, i)) = k - 1}
  BY <1>1 DEF Segment
<1> HIDE DEF Before
<1>9. \A i \in 1 .. n : i \in Segment(more, k) <=> i \in Segment(line, k)
  BY <1>1, <1>4, <1>6, <1>8
<1>10. n + 1 \in Segment(more, k) <=> ~EndsCommand(line, w) /\ k = Nodes(line)
  BY <1>1, <1>3, <1>5, <1>7, <1>8
<1>11. Segment(more, k) \subseteq 1 .. n + 1 /\ Segment(line, k) \subseteq 1 .. n
  BY <1>8
<1>12. QED
  BY <1>1, <1>9, <1>10, <1>11 DEF more, n

\* There is no command after the last.
LEMMA SegmentLate ==
  ASSUME NEW line \in Line, NEW k \in Nat, k > Nodes(line)
  PROVE  Segment(line, k) = {}
<1>1. /\ IsFiniteSet(Bars(line)) /\ Nodes(line) \in Nat
      /\ Cardinality(Bars(line)) \in Nat /\ Cardinality(Bars(line)) = Nodes(line) - 1
  BY BarsAre
<1>2. ASSUME NEW i PROVE Cardinality({b \in Bars(line) : b < i}) # k - 1
  <2>1. {b \in Bars(line) : b < i} \in SUBSET Bars(line)
    OBVIOUS
  <2>2. /\ Cardinality({b \in Bars(line) : b < i}) <= Cardinality(Bars(line))
        /\ Cardinality({b \in Bars(line) : b < i}) \in Nat
    BY <1>1, <2>1, FS_Subset, FS_CardinalityType
  <2>3. QED
    BY <1>1, <2>2
<1>3. QED
  BY <1>2 DEF Segment

\* The last word is in the last command.
LEMMA SegmentLast ==
  ASSUME NEW line \in Line, NEW k \in Nat, Len(line) \in Segment(line, k)
  PROVE  k = Nodes(line)
<1> DEFINE Before == {b \in Bars(line) : b < Len(line)}
<1>1. /\ Bars(line) \in SUBSET (1 .. Len(line)) /\ Len(line) \in Nat /\ Nodes(line) \in Nat
      /\ Cardinality(Bars(line)) = Nodes(line) - 1
  BY BarsAre DEF Line
<1>2. Len(line) \notin Bars(line) /\ Cardinality(Before) = k - 1
  BY DEF Segment
<1>3. Before = Bars(line)
  <2>1. ASSUME NEW b \in Bars(line) PROVE b < Len(line)
    <3>1. b \in 1 .. Len(line) /\ b # Len(line)
      BY <1>1, <1>2
    <3>2. QED
      BY <1>1, <3>1
  <2>2. QED
    BY <2>1
<1> HIDE DEF Before
<1>4. QED
  BY <1>1, <1>2, <1>3

\* How many of the positions in S there are up to i, and the words at S.
CountTo(S, i) == Cardinality({j \in S : j <= i})
At(S, c) == The({i \in S : CountTo(S, i) = c})
ReadOff(line, S) == [c \in 1 .. Cardinality(S) |-> line[At(S, c)]]

LEMMA CountMore ==
  ASSUME NEW m \in Nat, NEW T \in SUBSET (1 .. m)
  PROVE  /\ IsFiniteSet(T) /\ Cardinality(T) \in Nat
         /\ Cardinality(T \cup {m + 1}) = Cardinality(T) + 1
         /\ \A i \in T : CountTo(T \cup {m + 1}, i) = CountTo(T, i)
         /\ CountTo(T \cup {m + 1}, m + 1) = Cardinality(T) + 1
<1> DEFINE S == T \cup {m + 1}
<1>1. IsFiniteSet(T) /\ Cardinality(T) \in Nat
  <2>1. IsFiniteSet(1 .. m)
    BY FS_Interval
  <2>2. QED
    BY <2>1, FS_Subset, FS_CardinalityType
<1>2. m + 1 \notin T
  OBVIOUS
<1>3. Cardinality(S) = Cardinality(T) + 1
  BY <1>1, <1>2, FS_AddElement
<1>4. ASSUME NEW i \in T PROVE CountTo(S, i) = CountTo(T, i)
  <2>1. {j \in S : j <= i} = {j \in T : j <= i}
    OBVIOUS
  <2>2. QED
    BY <2>1 DEF CountTo
<1>5. CountTo(S, m + 1) = Cardinality(S)
  <2>1. \A j \in S : j <= m + 1
    OBVIOUS
  <2>2. {j \in S : j <= m + 1} = S
    BY <2>1, Zenon
  <2>3. QED
    BY <2>2 DEF CountTo
<1>6. QED
  BY <1>1, <1>3, <1>4, <1>5

\* Every number up to how many there are is the count at one of them.
LEMMA Counted ==
  ASSUME NEW n \in Nat, NEW S \in SUBSET (1 .. n), NEW c \in 1 .. Cardinality(S)
  PROVE  \E i \in S : CountTo(S, i) = c
<1> DEFINE All(T) == \A d \in 1 .. Cardinality(T) : \E i \in T : CountTo(T, i) = d
           M == {m \in Nat : \A T \in SUBSET (1 .. m) : All(T)}
<1>1. 0 \in M
  <2>1. ASSUME NEW T \in SUBSET (1 .. 0) PROVE All(T)
    <3>1. T = {}
      OBVIOUS
    <3>2. Cardinality(T) = 0
      BY <3>1, FS_EmptySet
    <3>3. QED
      BY <3>2
  <2>2. QED
    BY <2>1
<1>2. ASSUME NEW m \in Nat, m \in M PROVE m + 1 \in M
  <2>1. ASSUME NEW U \in SUBSET (1 .. m + 1) PROVE All(U)
    <3> DEFINE T == U \ {m + 1}
    <3>1. T \in SUBSET (1 .. m)
      OBVIOUS
    <3>2. All(T)
      BY <1>2, <3>1
    <3>3. CASE m + 1 \notin U
      <4>1. T = U
        BY <3>3
      <4>2. QED
        BY <3>2, <4>1
    <3>4. CASE m + 1 \in U
      <4>1. U = T \cup {m + 1}
        BY <3>4
      <4> HIDE DEF T
      <4>2. /\ Cardinality(T) \in Nat /\ Cardinality(U) = Cardinality(T) + 1
            /\ \A i \in T : CountTo(U, i) = CountTo(T, i)
            /\ CountTo(U, m + 1) = Cardinality(T) + 1
        BY <3>1, <4>1, CountMore
      <4>3. ASSUME NEW d \in 1 .. Cardinality(U) PROVE \E i \in U : CountTo(U, i) = d
        <5>1. CASE d = Cardinality(T) + 1
          BY <3>4, <4>2, <5>1
        <5>2. CASE d # Cardinality(T) + 1
          <6>1. d \in 1 .. Cardinality(T)
            BY <4>2, <5>2
          <6>2. PICK i \in T : CountTo(T, i) = d
            BY <3>2, <6>1
          <6>3. QED
            BY <4>1, <4>2, <6>2
        <5>3. QED
          BY <5>1, <5>2
      <4>4. QED
        BY <4>3
    <3>5. QED
      BY <3>3, <3>4
  <2> HIDE DEF All
  <2>2. QED
    BY <2>1
<1>3. n \in M
  <2> HIDE DEF M
  <2>1. QED
    BY <1>1, <1>2, Induct
<1>4. All(S)
  BY <1>3
<1>5. QED
  BY <1>4

\* Reading off the words of a line with one word more.
LEMMA ReadOffMore ==
  ASSUME NEW line \in Line, NEW w \in Word, NEW S \in SUBSET (1 .. Len(line))
  PROVE  /\ ReadOff(Append(line, w), S) = ReadOff(line, S)
         /\ ReadOff(Append(line, w), S \cup {Len(line) + 1}) = Append(ReadOff(line, S), w)
<1> DEFINE n == Len(line)
           more == Append(line, w)
           c == Cardinality(S)
           U == S \cup {n + 1}
<1>1. n \in Nat /\ more[n + 1] = w /\ \A i \in 1 .. n : more[i] = line[i]
  BY MoreWords
<1>2. /\ c \in Nat /\ Cardinality(U) = c + 1
      /\ \A i \in S : CountTo(U, i) = CountTo(S, i)
      /\ CountTo(U, n + 1) = c + 1
  BY <1>1, CountMore
<1>3. ASSUME NEW d \in 1 .. c PROVE At(S, d) \in S
  <2> DEFINE one == {i \in S : CountTo(S, i) = d}
  <2>1. PICK i \in S : CountTo(S, i) = d
    BY <1>1, Counted
  <2>2. one # {}
    BY <2>1
  <2> HIDE DEF one
  <2>3. The(one) \in one
    BY <2>2 DEF The
  <2>4. The(one) \in S
    BY <2>3 DEF one
  <2>5. QED
    BY <2>4 DEF At, one
<1>4. ASSUME NEW d \in 1 .. c PROVE more[At(S, d)] = line[At(S, d)]
  BY <1>1, <1>3
<1> HIDE DEF more, n, c
<1>5. ReadOff(more, S) = ReadOff(line, S)
  BY <1>4 DEF ReadOff, c
<1>6. ASSUME NEW i \in S, CountTo(S, i) = c + 1 PROVE FALSE
  <2>1. {j \in S : j <= i} \in SUBSET S /\ IsFiniteSet(S)
    BY <1>1, CountMore DEF n
  <2>2. Cardinality({j \in S : j <= i}) <= c
    BY <2>1, FS_Subset DEF c
  <2>3. QED
    BY <1>2, <1>6, <2>2 DEF CountTo
<1>7. ASSUME NEW d \in 1 .. c PROVE At(U, d) = At(S, d)
  <2>1. d # c + 1
    BY <1>2
  <2>3. \A i : i \in U /\ CountTo(U, i) = d <=> i \in S /\ CountTo(S, i) = d
    BY <1>2, <2>1
  <2> HIDE DEF U
  <2>4. {i \in U : CountTo(U, i) = d} = {i \in S : CountTo(S, i) = d}
    BY <2>3
  <2>2. QED
    BY <2>4 DEF At
<1>8. At(U, c + 1) = n + 1
  <2>1. {i \in U : CountTo(U, i) = c + 1} = {n + 1}
    BY <1>2, <1>6
  <2>2. The({n + 1}) = n + 1
    BY DEF The
  <2>3. QED
    BY <2>1, <2>2 DEF At
<1>9. ReadOff(more, U) = Append(ReadOff(line, S), w)
  <2>1. ReadOff(more, U) = [d \in 1 .. c + 1 |-> more[At(U, d)]]
    BY <1>2 DEF ReadOff
  <2>2. ASSUME NEW d \in 1 .. c PROVE more[At(U, d)] = line[At(S, d)]
    BY <1>4, <1>7
  <2>3. more[At(U, c + 1)] = w
    BY <1>1, <1>8
  <2> DEFINE f == ReadOff(line, S)
  <2>4. f = [d \in 1 .. c |-> line[At(S, d)]]
    BY DEF ReadOff, c
  <2>9. \A i \in 1 .. n : line[i] \in Word
    BY DEF Line, n
  <2>10. \A d \in 1 .. c : line[At(S, d)] \in Word
    <3>1. S \subseteq 1 .. n
      BY DEF n
    <3>2. QED
      BY <1>3, <2>9, <3>1
  <2> HIDE DEF f
  <2>11. f \in [1 .. c -> Word] /\ \A d \in 1 .. c : f[d] = line[At(S, d)]
    BY <2>4, <2>10
  <2>5. /\ Len(f) = c /\ f \in Seq(Word)
        /\ \A d \in 1 .. c : f[d] = line[At(S, d)]
    BY <1>2, <2>11
  <2> HIDE DEF U
  <2>8. Append(f, w) = [d \in 1 .. c + 1 |-> IF d = c + 1 THEN w ELSE f[d]]
    <3>1. Append(f, w) \in Seq(Word) /\ Len(Append(f, w)) = c + 1
      BY <1>2, <2>5
    <3>2. \A d \in 1 .. c + 1 : Append(f, w)[d] = IF d = c + 1 THEN w ELSE f[d]
      BY <1>2, <2>5
    <3> DEFINE a == Append(f, w)
    <3> HIDE DEF a
    <3>8. a \in Seq(Word) /\ Len(a) = c + 1
      BY <3>1 DEF a
    <3>3. a \in [1 .. c + 1 -> Word]
      BY <1>2, <3>8
    <3>4. a = [d \in 1 .. c + 1 |-> a[d]]
      BY <3>3
    <3>5. \A d \in 1 .. c + 1 : a[d] = IF d = c + 1 THEN w ELSE f[d]
      BY <3>2 DEF a
    <3>6. a = [d \in 1 .. c + 1 |-> IF d = c + 1 THEN w ELSE f[d]]
      BY <3>4, <3>5
    <3>7. QED
      BY <3>6 DEF a
  <2>6. \A d \in 1 .. c + 1 : d \in 1 .. c \/ d = c + 1
    BY <1>2
  <2>7. QED
    BY <1>2, <2>1, <2>2, <2>3, <2>5, <2>6, <2>8 DEF f
<1>10. QED
  BY <1>5, <1>9 DEF more, n

\* The positions of the arguments of a command.
WordsOf(line, k) == {i \in Segment(line, k) : ~IsOperand(line, i) /\ First(line[i]) \notin {"<", ">"}}

LEMMA ArgumentsAre ==
  ASSUME NEW line, NEW k
  PROVE  Arguments(line, k) = ReadOff(line, WordsOf(line, k))
BY DEF Arguments, ReadOff, WordsOf, At, CountTo

\* A new word is an argument of the last command if it is nothing else.
IsArgument(line, w) == Pending(line) = None /\ First(w) \notin {"|", "<", ">"}

LEMMA ArgumentsMore ==
  ASSUME NEW line \in Line, NEW w \in Word, NEW k \in Nat
  PROVE  Arguments(Append(line, w), k) =
           IF k = Nodes(line) /\ IsArgument(line, w) THEN Append(Arguments(line, k), w)
                                                     ELSE Arguments(line, k)
<1> DEFINE n == Len(line)
           more == Append(line, w)
<1>1. /\ n \in Nat /\ DOMAIN line = 1 .. n /\ more[n + 1] = w
      /\ \A i \in 1 .. n : more[i] = line[i]
  BY MoreWords
<1>2. /\ \A i \in 1 .. n : IsOperand(more, i) <=> IsOperand(line, i)
      /\ IsOperand(more, n + 1) <=> Pending(line) # None
  BY OperandMore
<1>3. Segment(more, k) = Segment(line, k) \cup
                           (IF k = Nodes(line) /\ ~EndsCommand(line, w) THEN {n + 1} ELSE {})
  BY SegmentMore
<1>4. Segment(line, k) \subseteq 1 .. n
  BY <1>1 DEF Segment
<1>5. WordsOf(line, k) \in SUBSET (1 .. n)
  BY <1>4 DEF WordsOf
<1> HIDE DEF more
<1>6. WordsOf(more, k) = WordsOf(line, k) \cup
                           (IF k = Nodes(line) /\ IsArgument(line, w) THEN {n + 1} ELSE {})
  <2> HIDE DEF n
  <2>1. \A i \in Segment(line, k) : i \in WordsOf(more, k) <=> i \in WordsOf(line, k)
    BY <1>1, <1>2, <1>3, <1>4 DEF WordsOf
  <2>2. n + 1 \in WordsOf(more, k) <=> k = Nodes(line) /\ IsArgument(line, w)
    <3>1. n + 1 \notin Segment(line, k)
      BY <1>1, <1>4
    <3>2. QED
      BY <1>1, <1>2, <1>3, <3>1 DEF WordsOf, IsArgument, EndsCommand
  <2>3. WordsOf(more, k) \subseteq Segment(line, k) \cup {n + 1} /\ WordsOf(line, k) \subseteq Segment(line, k)
    BY <1>3 DEF WordsOf
  <2>4. QED
    BY <2>1, <2>2, <2>3
<1>7. CASE k = Nodes(line) /\ IsArgument(line, w)
  <2>1. WordsOf(more, k) = WordsOf(line, k) \cup {n + 1}
    BY <1>6, <1>7
  <2>2. ReadOff(more, WordsOf(more, k)) = Append(ReadOff(line, WordsOf(line, k)), w)
    BY <1>5, <2>1, ReadOffMore DEF more
  <2>3. QED
    BY <1>7, <2>2, ArgumentsAre DEF more
<1>8. CASE ~(k = Nodes(line) /\ IsArgument(line, w))
  <2>1. WordsOf(more, k) = WordsOf(line, k)
    BY <1>6, <1>8
  <2>2. ReadOff(more, WordsOf(more, k)) = ReadOff(line, WordsOf(line, k))
    BY <1>5, <2>1, ReadOffMore DEF more
  <2>3. QED
    BY <1>8, <2>2, ArgumentsAre DEF more
<1>9. QED
  BY <1>7, <1>8

\* No words, no arguments.
LEMMA NoArguments ==
  ASSUME NEW line, NEW k, Segment(line, k) = {}
  PROVE  Arguments(line, k) = <<>>
<1>1. WordsOf(line, k) = {}
  BY DEF WordsOf
<1>2. Cardinality(WordsOf(line, k)) = 0
  BY <1>1, FS_EmptySet
<1>3. ReadOff(line, WordsOf(line, k)) = <<>>
  BY <1>2 DEF ReadOff
<1>4. QED
  BY <1>3, ArgumentsAre

\* The sign of a redirection.
SignOf(field) == IF field = "in" THEN "<" ELSE ">"

LEMMA SignsMore ==
  ASSUME NEW line \in Line, NEW w \in Word, NEW k \in Nat, NEW sign \in {"<", ">"}
  PROVE  /\ Signs(Append(line, w), k, sign) =
              Signs(line, k, sign) \cup
                (IF k = Nodes(line) /\ Pending(line) = None /\ First(w) = sign THEN {Len(line) + 1} ELSE {})
         /\ Signs(line, k, sign) \in SUBSET (1 .. Len(line))
<1> DEFINE n == Len(line)
           more == Append(line, w)
<1>1. /\ n \in Nat /\ DOMAIN line = 1 .. n /\ more[n + 1] = w
      /\ \A i \in 1 .. n : more[i] = line[i]
  BY MoreWords
<1>2. /\ \A i \in 1 .. n : IsOperand(more, i) <=> IsOperand(line, i)
      /\ IsOperand(more, n + 1) <=> Pending(line) # None
  BY OperandMore
<1>3. Segment(more, k) = Segment(line, k) \cup
                           (IF k = Nodes(line) /\ ~EndsCommand(line, w) THEN {n + 1} ELSE {})
  BY SegmentMore
<1>4. Segment(line, k) \subseteq 1 .. n
  BY <1>1 DEF Segment
<1> HIDE DEF more, n
<1>5. \A i \in Segment(line, k) : i \in Signs(more, k, sign) <=> i \in Signs(line, k, sign)
  BY <1>1, <1>2, <1>3, <1>4 DEF Signs, Is
<1>6. n + 1 \in Signs(more, k, sign) <=> k = Nodes(line) /\ Pending(line) = None /\ First(w) = sign
  <2>1. n + 1 \notin Segment(line, k)
    BY <1>1, <1>4
  <2>2. QED
    BY <1>1, <1>2, <1>3, <2>1 DEF Signs, Is, EndsCommand
<1>7. /\ Signs(more, k, sign) \subseteq Segment(line, k) \cup {n + 1}
      /\ Signs(line, k, sign) \subseteq Segment(line, k)
  BY <1>3 DEF Signs
<1>8. Signs(line, k, sign) \subseteq 1 .. n
  BY <1>4, <1>7
<1>9. Signs(more, k, sign) =
        Signs(line, k, sign) \cup
          (IF k = Nodes(line) /\ Pending(line) = None /\ First(w) = sign THEN {n + 1} ELSE {})
  BY <1>5, <1>6, <1>7
<1>10. QED
  BY <1>8, <1>9 DEF more, n

\* A last word that is no bar is in the last command.
LEMMA SegmentHas ==
  ASSUME NEW line \in Line, Len(line) \in 1 .. Len(line), Len(line) \notin Bars(line)
  PROVE  Len(line) \in Segment(line, Nodes(line))
<1> DEFINE Before == {b \in Bars(line) : b < Len(line)}
<1>1. /\ Bars(line) \in SUBSET (1 .. Len(line)) /\ Len(line) \in Nat
      /\ Cardinality(Bars(line)) = Nodes(line) - 1 /\ DOMAIN line = 1 .. Len(line)
  BY BarsAre DEF Line
<1>2. Before = Bars(line)
  <2>1. ASSUME NEW b \in Bars(line) PROVE b < Len(line)
    <3>1. b \in 1 .. Len(line) /\ b # Len(line)
      BY <1>1
    <3> DEFINE n == Len(line)
    <3>2. n \in Nat /\ b \in 1 .. n /\ b # n
      BY <1>1, <3>1
    <3> HIDE DEF n
    <3>3. b < n
      BY <3>2
    <3>4. QED
      BY <3>3 DEF n
  <2>2. QED
    BY <2>1
<1>3. Cardinality(Before) = Nodes(line) - 1
  BY <1>1, <1>2
<1>4. QED
  BY <1>1, <1>3 DEF Segment

\* The file of a redirection of the k-th command: what its last sign of the kind
\* has, or what was in the node's field from the start.
Field(line, left, k, field) ==
  IF Signs(line, k, SignOf(field)) # {} THEN FileOf(line, k, SignOf(field))
  ELSE IF k = 1 THEN None ELSE left[k][field]

LEMMA FieldMore ==
  ASSUME NEW line \in Line, NEW w \in Word, NEW k \in Nat, NEW field \in {"in", "out"}, NEW left
  PROVE  Field(Append(line, w), left, k, field) =
           IF k = Nodes(line) /\ Pending(line) = field THEN w
           ELSE IF k = Nodes(line) /\ Pending(line) = None /\ First(w) = SignOf(field) THEN None
           ELSE Field(line, left, k, field)
<1> DEFINE n == Len(line)
           more == Append(line, w)
           sign == SignOf(field)
           old == Signs(line, k, sign)
           new == Signs(more, k, sign)
           Opens == k = Nodes(line) /\ Pending(line) = None /\ First(w) = sign
           Fills == k = Nodes(line) /\ Pending(line) = field
<1>1. /\ n \in Nat /\ Len(more) = n + 1 /\ more[n + 1] = w
      /\ \A i \in 1 .. n : more[i] = line[i]
  BY MoreWords
<1>2. sign \in {"<", ">"} /\ (field = "in" <=> sign = "<") /\ (field = "out" <=> sign = ">")
  BY DEF SignOf
<1>3. new = old \cup (IF Opens THEN {n + 1} ELSE {}) /\ old \in SUBSET (1 .. n)
  BY <1>2, SignsMore
<1>4. ~(Opens /\ Fills)
  BY DEF None
<1>5. Fills => n \in old
  <2> SUFFICES ASSUME Fills PROVE n \in old
    OBVIOUS
  <2>1. n \in 1 .. n /\ Is(line, n, sign)
    BY <1>2, PendingIs
  <2>2. n \notin Bars(line)
    BY <1>2, <2>1 DEF Bars, Is
  <2>3. n \in Segment(line, k)
    BY <2>1, <2>2, SegmentHas
  <2>4. QED
    BY <2>1, <2>3 DEF Signs
<1>6. n \in old => Fills
  <2> SUFFICES ASSUME n \in old PROVE Fills
    OBVIOUS
  <2>1. n \in Segment(line, k) /\ Is(line, n, sign) /\ n \in 1 .. n
    BY <1>3 DEF Signs
  <2>2. k = Nodes(line)
    BY <2>1, SegmentLast
  <2>3. QED
    BY <1>2, <2>1, <2>2, PendingIs
<1>7. /\ Field(more, left, k, field) =
            IF new # {} THEN IF Max(new) = n + 1 THEN None ELSE more[Max(new) + 1]
            ELSE IF k = 1 THEN None ELSE left[k][field]
      /\ Field(line, left, k, field) =
            IF old # {} THEN IF Max(old) = n THEN None ELSE line[Max(old) + 1]
            ELSE IF k = 1 THEN None ELSE left[k][field]
  BY <1>1 DEF Field, FileOf
<1> HIDE DEF more, old, new, Opens, Fills, sign, n
<1>8. CASE Opens
  <2>1. new \in SUBSET (1 .. n + 1) /\ new # {} /\ n + 1 \in new
    BY <1>1, <1>3, <1>8
  <2>2. Max(new) \in new /\ \A y \in new : Max(new) >= y
    BY <1>1, <2>1, MaxIs
  <2>3. Max(new) = n + 1
    <3> DEFINE m == Max(new)
    <3>1. m \in 1 .. n + 1 /\ m >= n + 1
      BY <2>1, <2>2
    <3> HIDE DEF m
    <3>2. m = n + 1
      BY <1>1, <3>1
    <3>3. QED
      BY <3>2 DEF m
  <2>4. Field(more, left, k, field) = None
    BY <1>7, <2>1, <2>3
  <2>5. QED
    BY <1>4, <1>8, <2>4 DEF Opens, Fills, sign, more
<1>9. CASE ~Opens
  <2>1. new = old
    BY <1>3, <1>9
  <2>2. CASE old = {}
    BY <1>5, <1>7, <1>9, <2>1, <2>2 DEF Opens, Fills, sign, more
  <2>3. CASE old # {}
    <3>1. Max(old) \in old /\ \A y \in old : Max(old) >= y
      BY <1>1, <1>3, <2>3, MaxIs
    <3>2. Max(old) \in 1 .. n /\ (n \in old <=> Max(old) = n)
      <4> DEFINE m == Max(old)
      <4>1. m \in old /\ m \in 1 .. n /\ (n \in old => m >= n)
        BY <1>3, <3>1
      <4> HIDE DEF m
      <4>2. n \in old => m = n
        BY <1>1, <4>1
      <4>3. QED
        BY <4>1, <4>2 DEF m
    <3>3. Field(more, left, k, field) = more[Max(old) + 1]
      BY <1>1, <1>7, <2>1, <2>3, <3>2
    <3>4. CASE Max(old) = n
      BY <1>1, <1>6, <3>2, <3>3, <3>4 DEF Opens, Fills, sign, more
    <3>5. CASE Max(old) # n
      <4>1. ~Fills /\ Field(line, left, k, field) = line[Max(old) + 1]
        BY <1>5, <1>7, <2>3, <3>2, <3>5
      <4>2. Max(old) + 1 \in 1 .. n
        BY <1>1, <3>2, <3>5
      <4>3. Field(more, left, k, field) = Field(line, left, k, field)
        BY <1>1, <3>3, <4>1, <4>2
      <4>4. QED
        BY <1>9, <4>1, <4>3 DEF Opens, Fills, sign, more
    <3>6. QED
      BY <3>4, <3>5
  <2>4. QED
    BY <2>2, <2>3
<1>10. QED
  BY <1>8, <1>9

LEMMA PendingMore ==
  ASSUME NEW line \in Line, NEW w \in Word
  PROVE  Pending(Append(line, w)) = IF Pending(line) = None /\ First(w) = "<" THEN "in"
                                    ELSE IF Pending(line) = None /\ First(w) = ">" THEN "out" ELSE None
<1> DEFINE n == Len(line)
           more == Append(line, w)
<1>1. /\ more \in Line /\ n \in Nat /\ Len(more) = n + 1 /\ n + 1 \in 1 .. n + 1 /\ more[n + 1] = w
  BY MoreWords
<1>2. IsOperand(more, n + 1) <=> Pending(line) # None
  BY OperandMore
<1> HIDE DEF more, n
<1>3. /\ Pending(more) = "in" <=> Is(more, n + 1, "<")
      /\ Pending(more) = "out" <=> Is(more, n + 1, ">")
      /\ Pending(more) \in {None, "in", "out"}
  BY <1>1, PendingIs
<1>4. QED
  BY <1>1, <1>2, <1>3 DEF Is, more, n

\* What split_line has when it has taken the words of `line`.
Parsed(line, left, s) ==
  /\ \E W : Scanned(s, W)
  /\ s.operand = Pending(line)
  /\ Len(s.nodes) = Nodes(line)
  /\ \A k \in 1 .. Nodes(line) :
       /\ s.nodes[k].args = Arguments(line, k)
       /\ \A field \in {"in", "out"} : s.nodes[k][field] = Field(line, left, k, field)

\* One round of its loop, for each kind of word.
LEMMA ParsedMore ==
  ASSUME NEW line \in Line, NEW w \in Word, NEW left, NEW s, Parsed(line, left, s)
  PROVE  Parsed(Append(line, w), left, ScanToken(left, s, w))
<1> DEFINE more == Append(line, w)
           t == ScanToken(left, s, w)
           N == Nodes(line)
<1>1. PICK W : Scanned(s, W)
  BY DEF Parsed
<1>2. \E V : Scanned(t, V)
  BY <1>1, ScanTyped
<1>3. /\ s.nodes \in Seq(CmdNode(W)) /\ s = [nodes |-> s.nodes, operand |-> s.operand]
      /\ Len(s.nodes) = N /\ s.operand = Pending(line)
      /\ \A k \in 1 .. N : /\ s.nodes[k].args = Arguments(line, k)
                           /\ \A field \in {"in", "out"} : s.nodes[k][field] = Field(line, left, k, field)
  BY <1>1 DEF Parsed, Scanned
<1>4. N \in Nat /\ N >= 1 /\ N \in 1 .. N
  BY BarsAre
<1>5. s.nodes \in [1 .. N -> CmdNode(W)] /\ s.nodes[N] \in CmdNode(W)
  BY <1>3, <1>4
<1>6. \A k \in Nat : Arguments(more, k) = IF k = N /\ IsArgument(line, w)
                                          THEN Append(Arguments(line, k), w) ELSE Arguments(line, k)
  BY ArgumentsMore
<1>7. \A k \in Nat, field \in {"in", "out"} :
        Field(more, left, k, field) =
           IF k = N /\ Pending(line) = field THEN w
           ELSE IF k = N /\ Pending(line) = None /\ First(w) = SignOf(field) THEN None
           ELSE Field(line, left, k, field)
  BY FieldMore
<1>8. Pending(more) = IF Pending(line) = None /\ First(w) = "<" THEN "in"
                      ELSE IF Pending(line) = None /\ First(w) = ">" THEN "out" ELSE None
  BY PendingMore
<1>9. Nodes(more) = N + (IF EndsCommand(line, w) THEN 1 ELSE 0)
  BY BarsMore
<1> HIDE DEF more, t, N
<1>10. ASSUME NEW node, NEW p, t = [nodes |-> [s.nodes EXCEPT ![N] = node], operand |-> p],
              p = Pending(more), ~EndsCommand(line, w),
              node.args = Arguments(more, N),
              \A field \in {"in", "out"} : node[field] = Field(more, left, N, field)
       PROVE  Parsed(more, left, t)
  <2>1. Nodes(more) = N
    BY <1>4, <1>9, <1>10
  <2>2. Len(t.nodes) = N /\ t.operand = Pending(more)
    BY <1>3, <1>4, <1>10
  <2>3. t.nodes[N] = node
    BY <1>4, <1>5, <1>10
  <2>4. ASSUME NEW k \in 1 .. N, k # N PROVE t.nodes[k] = s.nodes[k]
    BY <1>5, <1>10, <2>4
  <2>5. ASSUME NEW k \in 1 .. N
        PROVE  /\ t.nodes[k].args = Arguments(more, k)
               /\ \A field \in {"in", "out"} : t.nodes[k][field] = Field(more, left, k, field)
    <3>1. CASE k = N
      BY <1>10, <2>3, <3>1
    <3>2. CASE k # N
      <4>1. k \in Nat /\ t.nodes[k] = s.nodes[k]
        BY <1>4, <2>4, <3>2
      <4>2. QED
        BY <1>3, <1>6, <1>7, <3>2, <4>1
    <3>3. QED
      BY <3>1, <3>2
  <2>6. QED
    BY <1>2, <2>1, <2>2, <2>5 DEF Parsed
<1>11. /\ s.nodes[N].args = Arguments(line, N)
       /\ \A field \in {"in", "out"} : s.nodes[N][field] = Field(line, left, N, field)
  BY <1>3, <1>4
<1>12. ASSUME s.operand # None PROVE Parsed(more, left, t)
  <2> DEFINE node == [s.nodes[N] EXCEPT ![s.operand] = w]
  <2>1. t = [nodes |-> [s.nodes EXCEPT ![N] = node], operand |-> None]
    BY <1>3, <1>12 DEF ScanToken, TakeOperand, t
  <2>2. s.operand \in {"in", "out"}
    BY <1>1, <1>12 DEF Scanned
  <2>3. /\ node.args = s.nodes[N].args
        /\ \A field \in {"in", "out"} : node[field] = IF field = s.operand THEN w ELSE s.nodes[N][field]
    BY <1>5, <2>2 DEF CmdNode
  <2>4. Arguments(more, N) = Arguments(line, N)
    BY <1>3, <1>4, <1>6, <1>12 DEF IsArgument
  <2>5. \A field \in {"in", "out"} :
          Field(more, left, N, field) = IF field = s.operand THEN w ELSE Field(line, left, N, field)
    BY <1>3, <1>4, <1>7, <1>12
  <2>6. ~EndsCommand(line, w) /\ Pending(more) = None
    BY <1>3, <1>8, <1>12 DEF EndsCommand
  <2> HIDE DEF node
  <2>7. QED
    BY <1>10, <1>11, <2>1, <2>3, <2>4, <2>5, <2>6
<1>13. ASSUME NEW mark \in {"in", "out"}, s.operand = None, First(w) = SignOf(mark)
       PROVE  Parsed(more, left, t)
  <2> DEFINE node == [s.nodes[N] EXCEPT ![mark] = None]
  <2>1. t = [nodes |-> [s.nodes EXCEPT ![N] = node], operand |-> mark]
    <3>1. t = AwaitOperand(s, mark)
      BY <1>13 DEF ScanToken, SignOf, t
    <3> DEFINE nodes == [s.nodes EXCEPT ![N] = node]
    <3>2. AwaitOperand(s, mark) = [s EXCEPT !.nodes = nodes, !.operand = mark]
      BY <1>3 DEF AwaitOperand
    <3> HIDE DEF nodes
    <3>3. AwaitOperand(s, mark) = [nodes |-> nodes, operand |-> mark]
      BY <1>3, <3>2
    <3>4. QED
      BY <3>1, <3>3 DEF nodes
  <2>2. /\ node.args = s.nodes[N].args
        /\ \A field \in {"in", "out"} : node[field] = IF field = mark THEN None ELSE s.nodes[N][field]
    BY <1>5 DEF CmdNode
  <2>3. Arguments(more, N) = Arguments(line, N)
    BY <1>4, <1>6, <1>13 DEF IsArgument, SignOf
  <2>4. \A field \in {"in", "out"} :
          Field(more, left, N, field) = IF field = mark THEN None ELSE Field(line, left, N, field)
    BY <1>3, <1>4, <1>7, <1>13 DEF SignOf, None
  <2>5. ~EndsCommand(line, w) /\ Pending(more) = mark
    BY <1>3, <1>8, <1>13 DEF EndsCommand, SignOf
  <2> HIDE DEF node
  <2>6. QED
    BY <1>10, <1>11, <2>1, <2>2, <2>3, <2>4, <2>5
<1>14. ASSUME s.operand = None, First(w) \notin {"|", "<", ">"} PROVE Parsed(more, left, t)
  <2> DEFINE node == [s.nodes[N] EXCEPT !.args = Append(@, w)]
  <2>1. t = [nodes |-> [s.nodes EXCEPT ![N] = node], operand |-> None]
    BY <1>3, <1>14 DEF ScanToken, t
  <2>2. /\ node.args = Append(s.nodes[N].args, w)
        /\ \A field \in {"in", "out"} : node[field] = s.nodes[N][field]
    BY <1>5 DEF CmdNode
  <2>3. Arguments(more, N) = Append(Arguments(line, N), w)
    BY <1>3, <1>4, <1>6, <1>14 DEF IsArgument
  <2>4. \A field \in {"in", "out"} : Field(more, left, N, field) = Field(line, left, N, field)
    BY <1>3, <1>4, <1>7, <1>14 DEF SignOf, None
  <2>5. ~EndsCommand(line, w) /\ Pending(more) = None
    BY <1>3, <1>8, <1>14 DEF EndsCommand
  <2> HIDE DEF node
  <2>6. QED
    BY <1>10, <1>11, <2>1, <2>2, <2>3, <2>4, <2>5
<1>15. ASSUME s.operand = None, First(w) = "|" PROVE Parsed(more, left, t)
  <2> DEFINE node == NewNode(left[N + 1])
  <2>1. t = [nodes |-> Append(s.nodes, node), operand |-> None]
    BY <1>3, <1>15 DEF ScanToken, t
  <2>2. Nodes(more) = N + 1 /\ Pending(more) = None
    BY <1>3, <1>8, <1>9, <1>15 DEF EndsCommand
  <2>3. Segment(line, N + 1) = {}
    BY <1>4, SegmentLate DEF N
  <2>4. Arguments(more, N + 1) = <<>>
    <3>1. Arguments(line, N + 1) = <<>>
      BY <2>3, NoArguments
    <3>2. QED
      BY <1>4, <1>6, <3>1
  <2>5. \A field \in {"in", "out"} : Field(more, left, N + 1, field) = left[N + 1][field]
    <3>1. \A sign : Signs(line, N + 1, sign) = {}
      BY <2>3 DEF Signs
    <3>2. QED
      BY <1>4, <1>7, <3>1 DEF Field
  <2>6. /\ node.args = <<>>
        /\ \A field \in {"in", "out"} : node[field] = left[N + 1][field]
    BY DEF NewNode
  <2>7. \A k \in 1 .. N : /\ Arguments(more, k) = Arguments(line, k)
                          /\ \A field \in {"in", "out"} : Field(more, left, k, field) = Field(line, left, k, field)
    BY <1>3, <1>4, <1>6, <1>7, <1>15 DEF IsArgument, SignOf, None
  <2> HIDE DEF node
  <2>8. /\ Len(t.nodes) = N + 1 /\ t.operand = Pending(more)
        /\ t.nodes[N + 1] = node /\ \A k \in 1 .. N : t.nodes[k] = s.nodes[k]
    BY <1>3, <1>4, <2>1, <2>2
  <2>9. \A k \in 1 .. N + 1 : k \in 1 .. N \/ k = N + 1
    BY <1>4
  <2>10. ASSUME NEW k \in 1 .. N + 1
         PROVE  /\ t.nodes[k].args = Arguments(more, k)
                /\ \A field \in {"in", "out"} : t.nodes[k][field] = Field(more, left, k, field)
    <3>1. CASE k = N + 1
      BY <2>4, <2>5, <2>6, <2>8, <3>1
    <3>2. CASE k # N + 1
      BY <1>3, <2>7, <2>8, <2>9, <3>2
    <3>3. QED
      BY <3>1, <3>2
  <2>11. QED
    BY <1>2, <2>2, <2>8, <2>10 DEF Parsed
<1>16. QED
  <2>1. SignOf("in") = "<" /\ SignOf("out") = ">"
    BY DEF SignOf
  <2>2. Parsed(more, left, t)
    BY <1>12, <1>13, <1>14, <1>15, <2>1
  <2>3. QED
    BY <2>2 DEF more, t

LEMMA ParsedStart ==
  ASSUME NEW left
  PROVE  Parsed(<<>>, left, Start)
<1>1. DOMAIN <<>> = {} /\ Bars(<<>>) = {} /\ \A k : Segment(<<>>, k) = {}
  BY DEF Bars, Segment
<1>2. Nodes(<<>>) = 1
  <2>1. Cardinality({}) = 0
    BY FS_EmptySet
  <2>2. QED
    BY <1>1, <2>1 DEF Nodes
<1>3. Pending(<<>>) = None
  BY DEF Pending
<1>4. Arguments(<<>>, 1) = <<>> /\ \A sign : Signs(<<>>, 1, sign) = {}
  BY <1>1, NoArguments DEF Signs
<1>5. \A field \in {"in", "out"} : Field(<<>>, left, 1, field) = None
  BY <1>4 DEF Field
<1>6. /\ Start.operand = None /\ Len(Start.nodes) = 1 /\ Start.nodes[1] = NewNode(Initialised)
      /\ NewNode(Initialised).args = <<>>
      /\ \A field \in {"in", "out"} : NewNode(Initialised)[field] = None
  BY DEF Start, NewNode, Initialised
<1>7. \A k \in 1 .. 1 : k = 1
  OBVIOUS
<1>8. QED
  BY <1>2, <1>3, <1>4, <1>5, <1>6, <1>7, StartTyped DEF Parsed

\* What split_line makes of a line is what the line says.
LEMMA SplitIs ==
  ASSUME NEW line \in Line, NEW left
  PROVE  /\ Len(split_line(line, left)) = Nodes(line)
         /\ \A k \in 1 .. Nodes(line) :
              /\ split_line(line, left)[k].args = Arguments(line, k)
              /\ \A field \in {"in", "out"} : split_line(line, left)[k][field] = Field(line, left, k, field)
<1> DEFINE n == Len(line)
           Part(m) == SubSeq(line, 1, m)
<1>1. PICK h : Scans(h, line, left)
  BY ScanSteps
<1> DEFINE S == {m \in Nat : m <= n => Parsed(Part(m), left, h[m])}
<1>2. n \in Nat /\ Part(0) = <<>> /\ Part(n) = line
  BY DEF Line
<1>3. ASSUME NEW m \in Nat, m + 1 <= n
      PROVE  Part(m) \in Line /\ line[m + 1] \in Word /\ Part(m + 1) = Append(Part(m), line[m + 1])
  <2>1. line \in Seq(Word) /\ m + 1 \in 1 .. Len(line) /\ Len(line) \in Nat
    BY <1>2, <1>3 DEF Line
  <2>2. Part(m) \in Seq(Word) /\ line[m + 1] \in Word
    BY <2>1
  <2>3. Part(m + 1) = Append(Part(m), line[m + 1])
    BY <2>1
  <2>4. QED
    BY <2>2, <2>3 DEF Line
<1> HIDE DEF n, Part
<1>4. /\ h[0] = Start /\ split_line(line, left) = h[n].nodes
      /\ \A m \in 0 .. n - 1 : h[m + 1] = ScanToken(left, h[m], line[m + 1])
  BY <1>1 DEF Scans, n
<1>5. 0 \in S
  BY <1>2, <1>4, ParsedStart
<1>6. ASSUME NEW m \in Nat, m \in S PROVE m + 1 \in S
  <2> SUFFICES ASSUME m + 1 <= n PROVE Parsed(Part(m + 1), left, h[m + 1])
    OBVIOUS
  <2>1. m <= n /\ m \in 0 .. n - 1
    BY <1>2
  <2>2. Parsed(Part(m), left, h[m])
    BY <1>6, <2>1
  <2>3. Parsed(Append(Part(m), line[m + 1]), left, ScanToken(left, h[m], line[m + 1]))
    BY <1>3, <2>2, ParsedMore
  <2>4. QED
    BY <1>3, <1>4, <2>1, <2>3
<1>7. Parsed(line, left, h[n])
  <2> HIDE DEF S
  <2>1. n \in S
    BY <1>2, <1>5, <1>6, Induct
  <2>2. QED
    BY <1>2, <2>1 DEF S
<1>8. QED
  BY <1>4, <1>7 DEF Parsed

-----------------------------------------------------------------------------
(* The invariant.                                                          *)

Active == {"redirect", "output", "create", "asked", "run"}
Pcs == Active \cup {"read", "fork", "close", "wait", "none", "dead", "ended"}

Types ==
  /\ pc \in [Proc -> Pcs]
  /\ pipe \in [Child -> Text]
  /\ files \in [Name -> Text]
  /\ inbuf \in Text
  /\ Sound(cmd)

\* A descriptor table has the descriptors of Fd and no others.
IsTable(t) == t = [fd \in Fd |-> t[fd]]

\* Every process has a table, which leads its reads to a text.
Source(d) ==
  /\ IsFile(d) => d[2] \in Name /\ d[3] \in Nat
  /\ IsPipeEnd(d) => d[2] \in Child

Tables ==
  /\ fds = [p \in Proc |-> fds[p]]
  /\ \A p \in Proc : fds[p] = [fd \in Fd |-> fds[p][fd]] /\ Source(fds[p][0])

\* The shell's table between two commands of a pipeline: its own three
\* descriptors, the read end of the last pipe at `in`, the ends of the next at r, w.
With(in, r, w) ==
  [fd \in Fd |-> CASE fd <= 2 -> Tty
                   [] fd > 2 /\ fd = in -> ReadEnd(current - 1)
                   [] fd > 2 /\ fd # in /\ fd = r -> ReadEnd(current)
                   [] fd > 2 /\ fd # in /\ fd # r /\ fd = w -> WriteEnd(current)
                   [] OTHER -> Closed]

Forking ==
  /\ pc[Shell] \in {"fork", "close"} =>
       /\ current \in 1 .. Len(cmd)
       /\ current > 1 => current - 1 \in Child
       /\ IF current = 1 THEN in_fd = 0 ELSE in_fd \in {3, 4}
  /\ pc[Shell] = "fork" =>
       /\ fds[Shell] = With(in_fd, 0, 0)
       /\ current > 1 => pipe_fd[1] = in_fd /\ pipe_fd[2] \in {4, 5} \ {in_fd}
  /\ pc[Shell] = "close" =>
       /\ Len(cmd) > 1 /\ current \in Child
       /\ pipe_fd[1] \in {3, 4} /\ pipe_fd[2] \in {4, 5} /\ pipe_fd[1] # pipe_fd[2]
       /\ pipe_fd[2] # in_fd
       /\ IF current < Len(cmd)
          THEN pipe_fd[1] # in_fd /\ fds[Shell] = With(in_fd, pipe_fd[1], pipe_fd[2])
          ELSE pipe_fd[1] = in_fd /\ fds[Shell] = With(in_fd, 0, 0)

\* A built-in has the copies of 0 and 1 at 3 and 4 and has changed only what it redirects.
BuiltinRuns ==
  pc[Shell] \in Active =>
    /\ Len(cmd) = 1
    /\ saved = <<3, 4>>
    /\ fds[Shell][2] = Tty /\ fds[Shell][3] = Tty /\ fds[Shell][4] = Tty /\ fds[Shell][5] = Closed
    /\ cmd[1].in = None => fds[Shell][0] = Tty
    /\ cmd[1].out = None => fds[Shell][1] = Tty /\ pc[Shell] # "asked"

Resting == pc[Shell] \in {"read", "wait"} => fds[Shell] = TtyTable

\* A child belongs to the line at hand, and closes all it has when it ends.
Children ==
  \A k \in Child :
    /\ pc[k] \in {"none", "dead"} => fds[k] = NoTable
    /\ pc[k] \in Active \cup {"none", "dead"}
    /\ pc[k] # "none" =>
         /\ k <= Len(cmd)
         /\ pc[Shell] \in {"fork", "close", "wait", "ended"}
         /\ pc[Shell] = "fork" => k < current
         /\ pc[Shell] = "close" => k <= current

\* Who writes to a file that was there when the line began has been told yes.
Sink(d, old, yes) ==
  IsFile(d) => /\ d[3] \in Nat
               /\ d[2] \in Name => old[d[2]] = Absent \/ d[2] \in yes

\* A process about to create its output file has one, and may write to it.
MayOpen(p, old, yes) ==
  /\ Node(p).out # None
  /\ Node(p).out \in Name => old[Node(p).out] = Absent \/ Node(p).out \in yes

Owned == \A p \in Proc : /\ Sink(fds[p][1], before, consented)
                         /\ pc[p] = "create" => MayOpen(p, before, consented)

ShellInv ==
  /\ Types /\ Tables /\ Forking /\ BuiltinRuns /\ Resting /\ Children
  /\ Owned /\ OverwriteAsked

\* The ring keeps the last MaxRecord lines, each at its number modulo MaxRecord.
HistoryInv ==
  /\ history \in [0 .. MaxRecord - 1 -> Line]
  /\ accepted \in Seq(Line)
  /\ history_count = Len(accepted)
  /\ \A i \in 1 .. Len(accepted) :
       i > Len(accepted) - MaxRecord => history[(i - 1) % MaxRecord] = accepted[i]

-----------------------------------------------------------------------------
LEMMA ProcIs == /\ Shell \in Proc /\ Child \subseteq Proc /\ Shell \notin Child /\ 1 \in Child
                /\ Proc = {Shell} \cup Child /\ Child \subseteq Nat /\ \A k \in Child : k >= 1
BY SizeAssumption DEF Proc, Child, Shell

LEMMA Longer ==
  ASSUME NEW S, NEW T, S \subseteq T
  PROVE  Seq(S) \subseteq Seq(T)
OBVIOUS

LEMMA Words ==
  /\ Seq(STRING) \subseteq Line /\ Seq(Seq(STRING)) \subseteq Text
  /\ <<>> \in Line /\ <<>> \in Text /\ Notice \in Line /\ <<Notice>> \in Text
  /\ <<Garbage>> \in Line
  /\ \A r \in Replies : r \in Line /\ <<r>> \in Text
<1>1. STRING \subseteq Word /\ "y" \in Word /\ "n" \in Word /\ "notice" \in Word /\ Garbage \in Word
  BY DEF Word, Garbage
<1>2. Seq(STRING) \subseteq Line
  BY <1>1, Longer DEF Line
<1>3. Seq(Seq(STRING)) \subseteq Text
  BY <1>2, Longer DEF Text
<1>4. /\ <<>> \in Line /\ <<>> \in Text /\ Notice \in Line /\ <<"y">> \in Line /\ <<"n">> \in Line
      /\ <<Garbage>> \in Line
  BY <1>1 DEF Line, Text, Notice
<1>5. \A l \in Line : <<l>> \in Text
  BY DEF Text
<1>6. QED
  BY <1>2, <1>3, <1>4, <1>5 DEF Replies

LEMMA Ends ==
  /\ ~IsFile(Closed) /\ ~IsPipeEnd(Closed) /\ ~IsFile(Tty) /\ ~IsPipeEnd(Tty)
  /\ \A k : /\ ~IsFile(ReadEnd(k)) /\ IsPipeEnd(ReadEnd(k)) /\ ReadEnd(k)[2] = k
            /\ ~IsFile(WriteEnd(k)) /\ IsPipeEnd(WriteEnd(k)) /\ WriteEnd(k)[2] = k
            /\ ReadEnd(k) # Closed /\ WriteEnd(k) # Closed
  /\ \A f, n : /\ IsFile(FileAt(f, n)) /\ ~IsPipeEnd(FileAt(f, n))
               /\ FileAt(f, n)[2] = f /\ FileAt(f, n)[3] = n
  /\ Tty # Closed
BY DEF IsFile, IsPipeEnd, Closed, Tty, ReadEnd, WriteEnd, FileAt

LEMMA PlainTables ==
  /\ 0 \in Fd /\ 1 \in Fd /\ 2 \in Fd /\ 3 \in Fd /\ 4 \in Fd /\ 5 \in Fd
  /\ TtyTable[0] = Tty /\ TtyTable[1] = Tty /\ TtyTable[2] = Tty
  /\ TtyTable[3] = Closed /\ TtyTable[4] = Closed /\ TtyTable[5] = Closed
  /\ \A fd \in Fd : NoTable[fd] = Closed
  /\ TtyTable = [fd \in Fd |-> TtyTable[fd]] /\ NoTable = [fd \in Fd |-> NoTable[fd]]
  /\ \A fd \in Fd : fd \in {0, 1, 2, 3, 4, 5}
BY DEF TtyTable, NoTable, Fd

LEMMA LowestIs ==
  ASSUME NEW t, NEW n \in Fd, t[n] = Closed, \A e \in 0 .. n - 1 : t[e] # Closed
  PROVE  LowestFree(t) = n
<1>1. \A m \in Fd : (t[m] = Closed /\ \A e \in 0 .. m - 1 : t[e] # Closed) => m = n
  BY DEF Fd
<1>2. QED
  BY <1>1 DEF LowestFree

LEMMA TailTyped ==
  ASSUME NEW S, NEW s \in Seq(S), NEW n \in Nat
  PROVE  SubSeq(s, n + 1, Len(s)) \in Seq(S)
OBVIOUS

LEMMA InitShellInv == Init => ShellInv
<1> SUFFICES ASSUME Init PROVE ShellInv
  OBVIOUS
<1>1. Types
  <2>1. files \in [Name -> Text] /\ inbuf \in Text /\ pipe \in [Child -> Text]
    BY TextAssumption, Words DEF Init
  <2>2. Sound(cmd)
    BY DEF Init, Sound
  <2>3. pc \in [Proc -> {"read", "none"}]
    BY DEF Init
  <2>4. QED
    BY <2>1, <2>2, <2>3 DEF Types, Pcs
<1>2. Tables /\ Owned /\ Resting
  <2>1. \A p \in Proc : fds[p] = IF p = Shell THEN TtyTable ELSE NoTable
    BY DEF Init
  <2>2. \A p \in Proc : fds[p][0] \in {Tty, Closed} /\ fds[p][1] \in {Tty, Closed}
    BY <2>1, PlainTables
  <2>3. \A p \in Proc : fds[p] = [fd \in Fd |-> fds[p][fd]]
    BY <2>1, PlainTables
  <2>4. fds = [p \in Proc |-> fds[p]]
    BY DEF Init
  <2>5. \A p \in Proc : pc[p] # "create"
    BY DEF Init
  <2>6. QED
    BY <2>1, <2>2, <2>3, <2>4, <2>5, Ends, ProcIs DEF Tables, Owned, Resting, Source, Sink
<1>3. pc[Shell] = "read" /\ \A k \in Child : pc[k] = "none" /\ fds[k] = NoTable
  BY ProcIs DEF Init
<1>4. OverwriteAsked
  BY DEF Init, OverwriteAsked
<1>5. QED
  BY <1>1, <1>2, <1>3, <1>4 DEF ShellInv, Forking, BuiltinRuns, Children, Active

-----------------------------------------------------------------------------
(* Steps of a process that is redirecting or running.                      *)

\* The table t differs from p's in 0 and 1 only, and there as allowed.
Carries(p, t, yes) ==
  /\ t = [fd \in Fd |-> t[fd]]
  /\ \A fd \in Fd \ {0, 1} : t[fd] = fds[p][fd]
  /\ Source(t[0]) /\ Sink(t[1], before, yes)
  /\ p = Shell => /\ cmd[1].in = None => t[0] = Tty
                  /\ cmd[1].out = None => t[1] = Tty

LEMMA ActiveKeeps ==
  ASSUME ShellInv, NEW p \in Proc, pc[p] \in Active, NEW q, NEW t,
         \/ q = Gone(p) /\ t = NoTable
         \/ /\ q \in Active /\ Carries(p, t, consented')
            /\ p = Shell /\ q = "asked" => cmd[1].out # None
            /\ q = "create" => MayOpen(p, before, consented'),
         pc' = [pc EXCEPT ![p] = q], fds' = [fds EXCEPT ![p] = t],
         UNCHANGED <<cmd, current, in_fd, pipe_fd, saved, before>>,
         consented \subseteq consented',
         inbuf' \in Text, files' \in [Name -> Text], pipe' \in [Child -> Text],
         \A f \in Name : files'[f] # files[f] => before[f] = Absent \/ f \in consented'
  PROVE  ShellInv'
<1>1. /\ Types /\ Tables /\ Forking /\ BuiltinRuns /\ Resting /\ Children
      /\ Owned /\ OverwriteAsked
  BY DEF ShellInv
<1>2. /\ pc'[p] = q /\ fds'[p] = t
      /\ \A o \in Proc \ {p} : pc'[o] = pc[o] /\ fds'[o] = fds[o]
  BY <1>1 DEF Types, Pcs, Tables
<1>3. q \in Active \cup {"ended", "dead"} /\ (q = "ended" => p = Shell) /\ (q = "dead" => p # Shell)
  BY DEF Gone, Active
<1>4. Types'
  <2>1. pc' \in [Proc -> Pcs]
    BY <1>1, <1>3 DEF Types, Pcs
  <2>2. Sound(cmd)'
    BY <1>1 DEF Types, Pcs, Sound
  <2>3. QED
    BY <2>1, <2>2 DEF Types, Pcs
<1>5. t = [fd \in Fd |-> t[fd]] /\ Source(t[0])
  BY PlainTables, Ends DEF Carries, Source
<1>6. Tables'
  <2>1. fds' = [o \in Proc |-> fds'[o]]
    BY <1>1 DEF Tables
  <2>2. ASSUME NEW o \in Proc
        PROVE  fds'[o] = [fd \in Fd |-> fds'[o][fd]] /\ Source(fds'[o][0])
    BY <1>1, <1>2, <1>5 DEF Tables
  <2>3. QED
    BY <2>1, <2>2 DEF Tables, Source
<1>7. Sink(t[1], before, consented')
  BY PlainTables, Ends DEF Carries, Sink
<1>8. Owned'
  <2>1. ASSUME NEW o \in Proc PROVE Sink(fds'[o][1], before, consented')
    BY <1>1, <1>2, <1>7 DEF Owned, Sink
  <2>2. ASSUME NEW o \in Proc, pc'[o] = "create" PROVE MayOpen(o, before, consented')
    <3>1. CASE o = p
      BY <1>2, <2>2, <3>1 DEF Gone
    <3>2. CASE o # p
      BY <1>1, <1>2, <2>2, <3>2 DEF Owned, MayOpen
    <3>3. QED
      BY <3>1, <3>2
  <2>3. \A o \in Proc : Node(o)' = Node(o)
    BY DEF Node
  <2>4. QED
    BY <2>1, <2>2, <2>3 DEF Owned, MayOpen
<1>9. OverwriteAsked'
  BY <1>1 DEF OverwriteAsked
<1>10. Children'
  <2>1. ASSUME NEW k \in Child, p = Shell PROVE pc[k] = "none" /\ pc'[k] = "none" /\ fds'[k] = fds[k]
    BY <1>1, <1>2, <2>1, ProcIs DEF Children, Active
  <2>2. CASE p = Shell
    BY <1>1, <2>1, <2>2 DEF Children
  <2>3. CASE p # Shell
    <3>1. p \in Child /\ pc'[Shell] = pc[Shell] /\ pc[p] # "none"
      BY <1>2, <2>3, ProcIs DEF Active
    <3>2. q \in Active \/ (q = "dead" /\ t = NoTable)
      BY <2>3 DEF Gone
    <3>3. q # "none" /\ (q = "dead" => t = NoTable)
      BY <3>2 DEF Active
    <3>4. ASSUME NEW k \in Child
          PROVE /\ pc'[k] \in {"none", "dead"} => fds'[k] = NoTable
                /\ pc'[k] \in Active \cup {"none", "dead"}
                /\ pc'[k] # "none" =>
                     /\ k <= Len(cmd)
                     /\ pc'[Shell] \in {"fork", "close", "wait", "ended"}
                     /\ pc'[Shell] = "fork" => k < current
                     /\ pc'[Shell] = "close" => k <= current
      <4>1. CASE k = p
        BY <1>1, <1>2, <3>1, <3>2, <3>3, <4>1 DEF Children
      <4>2. CASE k # p
        BY <1>1, <1>2, <3>1, <4>2, ProcIs DEF Children
      <4>3. QED
        BY <4>1, <4>2
    <3>5. QED
      BY <3>4 DEF Children
  <2>4. QED
    BY <2>2, <2>3
<1>11. Forking' /\ Resting'
  <2>1. CASE p = Shell
    BY <1>2, <1>3, <2>1 DEF Forking, Resting, Active
  <2>2. CASE p # Shell
    <3>1. pc'[Shell] = pc[Shell] /\ fds'[Shell] = fds[Shell]
      BY <1>2, <2>2, ProcIs
    <3>2. QED
      BY <1>1, <3>1 DEF Forking, Resting, With
  <2>3. QED
    BY <2>1, <2>2
<1>12. BuiltinRuns'
  <2>1. CASE p # Shell
    <3>1. pc'[Shell] = pc[Shell] /\ fds'[Shell] = fds[Shell]
      BY <1>2, <2>1, ProcIs
    <3>2. QED
      BY <1>1, <3>1 DEF BuiltinRuns
  <2>2. CASE p = Shell /\ q \in Active
    <3>1. Carries(p, t, consented') /\ (q = "asked" => cmd[1].out # None)
      BY <2>2 DEF Gone, Active
    <3>2. QED
      BY <1>1, <1>2, <2>2, <3>1, PlainTables DEF BuiltinRuns, Carries
  <2>3. CASE p = Shell /\ q \notin Active
    BY <1>2, <2>3 DEF BuiltinRuns
  <2>4. QED
    BY <2>1, <2>2, <2>3
<1>13. QED
  BY <1>4, <1>6, <1>8, <1>9, <1>10, <1>11, <1>12 DEF ShellInv

\* The table with another input and another output.
LEMMA CarriesOver ==
  ASSUME ShellInv, NEW p \in Proc, pc[p] \in Active, NEW a, NEW b, NEW t, NEW yes,
         t = [fds[p] EXCEPT ![0] = a, ![1] = b], Source(a), Sink(b, before, yes),
         p = Shell => (cmd[1].in = None => a = Tty) /\ (cmd[1].out = None => b = Tty)
  PROVE  Carries(p, t, yes)
<1>1. fds[p] = [fd \in Fd |-> fds[p][fd]]
  BY DEF ShellInv, Tables
<1>2. t[0] = a /\ t[1] = b /\ \A fd \in Fd \ {0, 1} : t[fd] = fds[p][fd]
  BY <1>1, PlainTables
<1>3. t = [fd \in Fd |-> t[fd]]
  BY <1>1
<1>4. QED
  BY <1>2, <1>3 DEF Carries

\* What p has at 0 and 1 now.
LEMMA Has ==
  ASSUME ShellInv, NEW p \in Proc, pc[p] \in Active
  PROVE  /\ Source(fds[p][0]) /\ Sink(fds[p][1], before, consented)
         /\ p = Shell => /\ cmd[1].in = None => fds[p][0] = Tty
                         /\ cmd[1].out = None => fds[p][1] = Tty
         /\ fds[p] = [fd \in Fd |-> fds[p][fd]]
         /\ fds[p] = [fds[p] EXCEPT ![0] = fds[p][0], ![1] = fds[p][1]]
<1>1. fds[p] = [fd \in Fd |-> fds[p][fd]]
  BY DEF ShellInv, Tables
<1>2. fds[p] = [fds[p] EXCEPT ![0] = fds[p][0], ![1] = fds[p][1]]
  BY <1>1
<1>3. QED
  BY <1>1, <1>2 DEF ShellInv, Tables, Owned, BuiltinRuns

LEMMA ProceedKeeps ==
  ASSUME ShellInv, NEW p \in Proc, pc[p] \in Active, NEW t, Carries(p, t, consented'), Proceed(p, t),
         UNCHANGED <<cmd, current, in_fd, pipe_fd, saved, before>>,
         consented \subseteq consented',
         inbuf' \in Text, files' \in [Name -> Text], pipe' \in [Child -> Text],
         \A f \in Name : files'[f] # files[f] => before[f] = Absent \/ f \in consented'
  PROVE  ShellInv'
<1>1. CASE pc' = [pc EXCEPT ![p] = "run"] /\ fds' = [fds EXCEPT ![p] = t]
  BY <1>1, ActiveKeeps DEF Active
<1>2. CASE Leave(p)
  BY <1>2, ActiveKeeps DEF Leave
<1>3. QED
  BY <1>1, <1>2 DEF Proceed

LEMMA NodeIs == Node(Shell) = cmd[1]
BY DEF Node

LEMMA RedirectInKeeps ==
  ASSUME ShellInv, NEW p \in Proc, RedirectIn(p)
  PROVE  ShellInv'
<1>1. /\ pc[p] \in Active
      /\ UNCHANGED <<cmd, current, in_fd, pipe_fd, saved, before, consented>>
      /\ UNCHANGED <<inbuf, files, pipe>>
  BY DEF RedirectIn, Active, parse, forking
<1>2. inbuf' \in Text /\ files' \in [Name -> Text] /\ pipe' \in [Child -> Text]
  BY <1>1 DEF ShellInv, Types, Pcs
<1>3. \A f \in Name : files'[f] # files[f] => before[f] = Absent \/ f \in consented'
  BY <1>1
<1>4. fds = [fds EXCEPT ![p] = fds[p]]
  BY DEF ShellInv, Tables
<1>5. CASE pc' = [pc EXCEPT ![p] = "output"] /\ UNCHANGED fds
  <2>1. Carries(p, fds[p], consented')
    BY <1>1, Has, CarriesOver
  <2>2. QED
    BY <1>1, <1>2, <1>3, <1>4, <1>5, <2>1, ActiveKeeps DEF Active
<1>6. CASE /\ Node(p).in # None /\ Exists(Node(p).in)
           /\ pc' = [pc EXCEPT ![p] = "output"]
           /\ fds' = [fds EXCEPT ![p][0] = FileAt(Node(p).in, 0)]
  <2> DEFINE a == FileAt(Node(p).in, 0)
             t == [fds[p] EXCEPT ![0] = a, ![1] = fds[p][1]]
  <2>1. t = [fds[p] EXCEPT ![0] = a]
    BY Has, <1>1
  <2>2. fds' = [fds EXCEPT ![p] = t]
    BY <1>6, <2>1
  <2>3. Source(a)
    BY <1>6, Ends DEF Source, Exists
  <2> HIDE DEF a
  <2>4. Carries(p, t, consented')
    <3>1. p = Shell => cmd[1].in # None
      BY <1>6, NodeIs
    <3>2. Sink(fds[p][1], before, consented') /\ (p = Shell /\ cmd[1].out = None => fds[p][1] = Tty)
      BY <1>1, Has
    <3> HIDE DEF t
    <3>3. t = [fds[p] EXCEPT ![0] = a, ![1] = fds[p][1]]
      BY DEF t
    <3>4. QED
      BY <1>1, <2>3, <3>1, <3>2, <3>3, CarriesOver
  <2> HIDE DEF t
  <2>5. QED
    BY <1>1, <1>2, <1>3, <1>6, <2>2, <2>4, ActiveKeeps DEF Active
<1>7. CASE Leave(p)
  BY <1>1, <1>2, <1>3, <1>7, ActiveKeeps DEF Leave
<1>8. QED
  BY <1>5, <1>6, <1>7 DEF RedirectIn

\* Opening the output file of a node: allowed when the file is new or the answer was yes.
LEMMA ToFileCarries ==
  ASSUME ShellInv, NEW p \in Proc, pc[p] \in Active, NEW a, Source(a), NEW yes,
         p = Shell /\ cmd[1].in = None => a = Tty,
         p = Shell => cmd[1].out # None, Node(p).out \in Name => before[Node(p).out] = Absent \/ Node(p).out \in yes
  PROVE  Carries(p, ToFile(p, [fds[p] EXCEPT ![0] = a]), yes)
<1> DEFINE b == FileAt(Node(p).out, 0)
           t == [fds[p] EXCEPT ![0] = a, ![1] = b]
<1>1. ToFile(p, [fds[p] EXCEPT ![0] = a]) = t
  BY DEF ToFile
<1>2. Sink(b, before, yes)
  BY Ends DEF Sink
<1> HIDE DEF b
<1>3. Carries(p, t, yes)
  BY <1>2, NodeIs, CarriesOver
<1>4. QED
  BY <1>1, <1>3

LEMMA RedirectOutKeeps ==
  ASSUME ShellInv, NEW p \in Proc, RedirectOut(p)
  PROVE  ShellInv'
<1>1. /\ pc[p] \in Active
      /\ UNCHANGED <<cmd, current, in_fd, pipe_fd, saved, before, consented>>
      /\ UNCHANGED <<inbuf, pipe, files>>
  BY DEF RedirectOut, Active, parse, forking
<1>2. /\ inbuf' \in Text /\ files' \in [Name -> Text] /\ pipe' \in [Child -> Text]
      /\ fds = [fds EXCEPT ![p] = fds[p]]
  BY <1>1 DEF ShellInv, Types, Pcs, Tables
<1>3. Carries(p, fds[p], consented')
  BY <1>1, Has, CarriesOver
<1>4. CASE Proceed(p, fds[p])
  BY <1>1, <1>2, <1>3, <1>4, ProceedKeeps
<1>5. CASE /\ Node(p).out # None /\ ~MustAsk(p)
           /\ pc' = [pc EXCEPT ![p] = "create"]
           /\ UNCHANGED fds
  <2>1. MayOpen(p, before, consented')
    BY <1>1, <1>5 DEF ShellInv, OverwriteAsked, MustAsk, Exists, MayOpen
  <2>2. QED
    BY <1>1, <1>2, <1>3, <1>5, <2>1, ActiveKeeps DEF Active
<1>6. QED
  BY <1>4, <1>5 DEF RedirectOut

LEMMA CreateKeeps ==
  ASSUME ShellInv, NEW p \in Proc, Create(p)
  PROVE  ShellInv'
<1>1. /\ pc[p] \in Active
      /\ UNCHANGED <<cmd, current, in_fd, pipe_fd, saved, before, consented>>
      /\ UNCHANGED <<inbuf, pipe>>
      /\ Proceed(p, ToFile(p, fds[p])) /\ files' = [files EXCEPT ![Node(p).out] = <<>>]
  BY DEF Create, Active, parse, forking
<1>2. inbuf' \in Text /\ files \in [Name -> Text] /\ pipe' \in [Child -> Text]
  BY <1>1 DEF ShellInv, Types, Pcs
<1>3. MayOpen(p, before, consented')
  BY <1>1 DEF Create, ShellInv, Owned
<1>4. fds[p] = [fds[p] EXCEPT ![0] = fds[p][0]]
  BY <1>1, Has
<1>5. Carries(p, ToFile(p, fds[p]), consented')
  <2>1. p = Shell => cmd[1].out # None
    BY <1>3, NodeIs DEF MayOpen
  <2>2. Node(p).out \in Name => before[Node(p).out] = Absent \/ Node(p).out \in consented'
    BY <1>3 DEF MayOpen
  <2>3. QED
    BY <1>1, <1>4, <2>1, <2>2, Has, ToFileCarries
<1>6. files' \in [Name -> Text]
  BY <1>1, <1>2, Words
<1>7. \A f \in Name : files'[f] # files[f] => before[f] = Absent \/ f \in consented'
  BY <1>1, <1>2, <1>3 DEF MayOpen
<1>8. QED
  BY <1>1, <1>2, <1>5, <1>6, <1>7, ProceedKeeps

\* What goes into a pipe leaves texts in the pipes.
LEMMA PipedTyped ==
  ASSUME NEW pp \in [Child -> Text], NEW d, NEW ls \in Text
  PROVE  Piped(pp, d, ls) \in [Child -> Text]
<1>1. \A k \in Child : pp[k] \o ls \in Text
  BY DEF Text
<1>2. QED
  BY <1>1 DEF Piped

LEMMA AskKeeps ==
  ASSUME ShellInv, NEW p \in Proc, Ask(p)
  PROVE  ShellInv'
<1>1. /\ pc[p] \in Active
      /\ UNCHANGED <<cmd, current, in_fd, pipe_fd, saved, before, consented>>
      /\ UNCHANGED <<inbuf, files>>
  BY DEF Ask, Active, parse, forking
<1>2. /\ inbuf' \in Text /\ files' \in [Name -> Text] /\ pipe \in [Child -> Text]
      /\ fds = [fds EXCEPT ![p] = fds[p]]
  BY <1>1 DEF ShellInv, Types, Pcs, Tables
<1>3. pipe' \in [Child -> Text]
  BY <1>2, PipedTyped, Words DEF Ask
<1>4. CASE Leave(p)
  BY <1>1, <1>2, <1>3, <1>4, ActiveKeeps DEF Leave
<1>5. CASE pc' = [pc EXCEPT ![p] = "asked"] /\ UNCHANGED fds
  <2>1. Carries(p, fds[p], consented')
    BY <1>1, Has, CarriesOver
  <2>2. QED
    <3>1. p = Shell => cmd[1].out # None
      BY NodeIs DEF Ask
    <3>2. QED
      BY <1>1, <1>2, <1>3, <1>5, <2>1, <3>1, ActiveKeeps DEF Active
<1>6. QED
  BY <1>4, <1>5 DEF Ask

-----------------------------------------------------------------------------
(* Reading.                                                                *)

LEMMA AdvanceIs ==
  ASSUME NEW d, Source(d), NEW n \in Nat
  PROVE  Source(Advance(d, n)) /\ (d = Tty => Advance(d, n) = Tty)
<1>1. CASE IsFile(d)
  <2>1. Advance(d, n) = FileAt(d[2], d[3] + n)
    BY <1>1 DEF Advance
  <2>2. d[2] \in Name /\ d[3] + n \in Nat
    BY <1>1 DEF Source
  <2>3. QED
    BY <1>1, <2>1, <2>2, Ends DEF Source
<1>2. CASE ~IsFile(d)
  BY <1>2 DEF Advance
<1>3. QED
  BY <1>1, <1>2

LEMMA ChunksTyped ==
  ASSUME Types, Tables, NEW p \in Proc, NEW c \in Chunks(p)
  PROVE  c \in Text /\ Len(c) \in Nat
<1> DEFINE d == fds[p][0]
<1>1. Source(d)
  BY DEF Tables
<1>2. c \in Text
  <2>1. CASE d = Tty
    <3>1. c = <<>> \/ \E r \in Replies : c = <<r>>
      <4>1. Chunks(p) = {<<>>} \cup IF typed < MaxTyped THEN {<<r>> : r \in Replies} ELSE {}
        BY <2>1, Ends DEF Chunks
      <4>2. QED
        BY <4>1
    <3>2. QED
      BY <3>1, Words
  <2>2. CASE d # Tty /\ IsFile(d)
    <3>1. c = SubSeq(files[d[2]], d[3] + 1, Len(files[d[2]]))
      BY <2>2 DEF Chunks, IsFile, IsPipeEnd
    <3>2. files[d[2]] \in Seq(Line) /\ d[3] \in Nat
      BY <1>1, <2>2 DEF Source, Types, Pcs, Text
    <3> HIDE DEF d
    <3>3. QED
      BY <3>1, <3>2, TailTyped DEF Text
  <2>3. CASE d # Tty /\ IsPipeEnd(d)
    <3>1. c = pipe[d[2]] \/ c = <<>>
      BY <2>3 DEF Chunks, IsFile, IsPipeEnd
    <3>2. pipe[d[2]] \in Text
      BY <1>1, <2>3 DEF Source, Types, Pcs
    <3>3. QED
      BY <3>1, <3>2, Words
  <2>4. CASE d # Tty /\ ~IsFile(d) /\ ~IsPipeEnd(d)
    <3>1. c = <<>>
      BY <2>4 DEF Chunks
    <3>2. QED
      BY <3>1, Words
  <2>5. QED
    BY <2>1, <2>2, <2>3, <2>4
<1>3. QED
  BY <1>2 DEF Text

LEMMA DrainedTyped ==
  ASSUME Types, Tables, NEW p \in Proc, NEW n \in Nat
  PROVE  Drained(p, n) \in [Child -> Text]
<1>1. pipe \in [Child -> Text]
  BY DEF Types, Pcs
<1>2. \A k \in Child : SubSeq(pipe[k], n + 1, Len(pipe[k])) \in Text
  BY <1>1, TailTyped DEF Text
<1>3. QED
  BY <1>1, <1>2 DEF Drained

LEMMA FirstWordsIs ==
  ASSUME NEW c \in Text, ~Blank(c)
  PROVE  /\ FirstWords(c) \in 1 .. Len(c) /\ Len(c) \in Nat
         /\ c[FirstWords(c)] \in Line \ {<<>>}
<1> DEFINE T == {i \in DOMAIN c : c[i] # <<>>}
<1>1. DOMAIN c = 1 .. Len(c) /\ Len(c) \in Nat /\ \A i \in DOMAIN c : c[i] \in Line
  BY DEF Text
<1>2. T # {} /\ T \in SUBSET Nat
  BY <1>1 DEF Blank
<1>3. PICK x \in T : \A y \in T : x <= y
  BY <1>2, Least
<1>4. Blank(SubSeq(c, 1, x - 1))
  <2>1. x \in 1 .. Len(c)
    BY <1>1, <1>3
  <2>2. /\ DOMAIN SubSeq(c, 1, x - 1) = 1 .. x - 1
        /\ \A i \in 1 .. x - 1 : SubSeq(c, 1, x - 1)[i] = c[i]
    BY <1>1, <2>1 DEF Text
  <2>3. ASSUME NEW i \in 1 .. x - 1 PROVE c[i] = <<>>
    <3>1. i \in DOMAIN c /\ ~(x <= i)
      BY <1>1, <2>1
    <3>2. QED
      BY <1>3, <3>1
  <2>4. QED
    BY <2>2, <2>3 DEF Blank
<1>5. FirstWords(c) \in DOMAIN c /\ c[FirstWords(c)] # <<>>
  <2>1. \E i \in DOMAIN c : c[i] # <<>> /\ Blank(SubSeq(c, 1, i - 1))
    BY <1>3, <1>4
  <2>2. QED
    BY <2>1 DEF FirstWords
<1>6. QED
  BY <1>1, <1>5

LEMMA RemainderTyped ==
  ASSUME NEW line \in Line \ {<<>>}
  PROVE  Remainder(line) \in Text
<1>1. Tail(line) \in Line
  BY DEF Line
<1>2. (<<Garbage>>) \o Tail(line) \in Line
  BY <1>1, Words DEF Line
<1>3. <<(<<Garbage>>) \o Tail(line)>> \in Text
  BY <1>2 DEF Text
<1>4. QED
  BY <1>3, Words DEF Remainder

LEMMA ReplyKeeps ==
  ASSUME ShellInv, NEW p \in Proc, pc[p] = "asked", NEW c \in Text, c # <<>> => ~Blank(c),
         NEW n \in Nat, Reply(p, c, n),
         UNCHANGED <<cmd, current, in_fd, pipe_fd, saved, before>>
  PROVE  ShellInv'
<1> DEFINE a == Advance(fds[p][0], n)
<1>1. pc[p] \in Active
  BY DEF Active
<1>2. /\ Types /\ Tables
      /\ files \in [Name -> Text] /\ inbuf \in Text
      /\ Drained(p, n) \in [Child -> Text]
  BY DrainedTyped DEF ShellInv, Types, Pcs
<1>3. inbuf' \in Text
  <2>1. CASE p = Shell /\ c # <<>>
    <3>1. inbuf' = Remainder(c[FirstWords(c)]) \o SubSeq(c, FirstWords(c) + 1, Len(c))
      BY <2>1 DEF Reply
    <3>2. FirstWords(c) \in Nat /\ Remainder(c[FirstWords(c)]) \in Text
      BY <2>1, FirstWordsIs, RemainderTyped
    <3>3. SubSeq(c, FirstWords(c) + 1, Len(c)) \in Text
      BY <3>2, TailTyped DEF Text
    <3>4. QED
      BY <3>1, <3>2, <3>3 DEF Text
  <2>2. CASE ~(p = Shell /\ c # <<>>)
    BY <1>2, <2>2 DEF Reply
  <2>3. QED
    BY <2>1, <2>2
<1>4. /\ Source(a) /\ (p = Shell /\ cmd[1].in = None => a = Tty)
      /\ p = Shell => cmd[1].out # None
  <2>1. Source(fds[p][0]) /\ (p = Shell /\ cmd[1].in = None => fds[p][0] = Tty)
    BY <1>1, Has
  <2>2. p = Shell => cmd[1].out # None
    BY <1>1 DEF ShellInv, BuiltinRuns
  <2>3. QED
    BY <2>1, <2>2, AdvanceIs
<1>5. ReadOn(p, n) = [fds[p] EXCEPT ![0] = a]
  BY DEF ReadOn
<1> HIDE DEF a
<1>6. ReadOn(p, n) = [fds[p] EXCEPT ![0] = a, ![1] = fds[p][1]]
  BY <1>1, <1>5, Has
<1>7. Carries(p, ReadOn(p, n), consented)
  BY <1>1, <1>4, <1>6, Has, CarriesOver
<1>8. CASE /\ Proceed(p, ToFile(p, ReadOn(p, n)))
           /\ files' = [files EXCEPT ![Node(p).out] = Flushed(p)]
           /\ consented' = consented \cup {Node(p).out}
           /\ pipe' = Drained(p, n)
  <2>1. Carries(p, ToFile(p, ReadOn(p, n)), consented')
    BY <1>1, <1>4, <1>5, <1>8, ToFileCarries
  <2>2. files' \in [Name -> Text]
    <3>1. Flushed(p) \in Text
      BY Words DEF Flushed
    <3>2. QED
      BY <1>2, <1>8, <3>1
  <2>3. \A f \in Name : files'[f] # files[f] => before[f] = Absent \/ f \in consented'
    BY <1>2, <1>8
  <2>4. QED
    BY <1>1, <1>2, <1>3, <1>8, <2>1, <2>2, <2>3, ProceedKeeps
<1>9. CASE Leave(p) /\ pipe' = Drained(p, n) /\ UNCHANGED <<files, consented>>
  <2>1. files' \in [Name -> Text] /\ pipe' \in [Child -> Text]
    BY <1>2, <1>9
  <2>2. QED
    BY <1>1, <1>3, <1>9, <2>1, ActiveKeeps DEF Leave
<1>10. CASE /\ Proceed(p, ReadOn(p, n))
            /\ pipe' = Piped(Drained(p, n), fds[p][1], <<Notice>>)
            /\ UNCHANGED <<files, consented>>
  <2>1. files' \in [Name -> Text] /\ pipe' \in [Child -> Text]
    BY <1>2, <1>10, PipedTyped, Words
  <2>2. QED
    BY <1>1, <1>3, <1>7, <1>10, <2>1, ProceedKeeps
<1>11. QED
  BY <1>8, <1>9, <1>10 DEF Reply

LEMMA AnswerKeeps ==
  ASSUME ShellInv, NEW p \in Proc, Answer(p)
  PROVE  ShellInv'
<1>1. /\ pc[p] = "asked" /\ pc[p] \in Active
      /\ UNCHANGED <<cmd, current, in_fd, pipe_fd, saved, before>>
      /\ Types /\ Tables
  BY DEF Answer, Active, parse, forking, ShellInv
<1>2. CASE ~Blank(inbuf) /\ Reply(p, inbuf, 0)
  BY <1>1, <1>2, ReplyKeeps DEF Types, Pcs
<1>3. ASSUME NEW c \in Chunks(p), c # <<>> => ~Blank(c), Reply(p, c, Len(c))
      PROVE  ShellInv'
  BY <1>1, <1>3, ChunksTyped, ReplyKeeps
<1>4. ASSUME NEW c \in Chunks(p),
             fds' = [fds EXCEPT ![p] = ReadOn(p, Len(c))], pipe' = Drained(p, Len(c)),
             UNCHANGED <<pc, files, inbuf, consented>>
      PROVE  ShellInv'
  <2> DEFINE a == Advance(fds[p][0], Len(c))
  <2>1. Len(c) \in Nat
    BY <1>1, ChunksTyped
  <2>2. /\ pipe' \in [Child -> Text] /\ inbuf' \in Text /\ files' \in [Name -> Text]
        /\ pc' = [pc EXCEPT ![p] = "asked"]
    BY <1>1, <1>4, <2>1, DrainedTyped DEF Types, Pcs
  <2>3. Source(a) /\ (p = Shell /\ cmd[1].in = None => a = Tty)
    BY <1>1, <2>1, Has, AdvanceIs
  <2>4. p = Shell => cmd[1].out # None
    BY <1>1 DEF ShellInv, BuiltinRuns
  <2>5. ReadOn(p, Len(c)) = [fds[p] EXCEPT ![0] = a, ![1] = fds[p][1]]
    BY <1>1, Has DEF ReadOn
  <2> HIDE DEF a
  <2>6. Carries(p, ReadOn(p, Len(c)), consented')
    BY <1>1, <1>4, <2>3, <2>4, <2>5, Has, CarriesOver
  <2>7. QED
    BY <1>1, <1>4, <2>2, <2>4, <2>6, ActiveKeeps
<1>5. QED
  BY <1>2, <1>3, <1>4 DEF Answer

-----------------------------------------------------------------------------
(* Writing.                                                                *)

LEMMA WriteAtTyped ==
  ASSUME NEW text \in Text, NEW n \in Nat, NEW ls \in Text
  PROVE  WriteAt(text, n, ls) \in Text
<1> DEFINE m == Max({Len(text), n + Len(ls)})
           e(i) == CASE i \in n + 1 .. n + Len(ls) -> ls[i - n]
                     [] i \notin n + 1 .. n + Len(ls) /\ i <= Len(text) -> text[i]
                     [] OTHER -> <<>>
<1>1. /\ Len(text) \in Nat /\ Len(ls) \in Nat
      /\ \A i \in 1 .. Len(text) : text[i] \in Line
      /\ \A i \in 1 .. Len(ls) : ls[i] \in Line
  BY DEF Text
<1>2. m \in Nat
  <2>1. Len(text) \in Int /\ n + Len(ls) \in Int
    BY <1>1
  <2>2. m \in {Len(text), n + Len(ls)}
    BY <2>1, MaxOfTwo
  <2>3. QED
    BY <1>1, <2>2
<1> HIDE DEF m
<1>3. ASSUME NEW i \in 1 .. m PROVE e(i) \in Line
  <2>1. CASE i \in n + 1 .. n + Len(ls)
    <3>1. i - n \in 1 .. Len(ls)
      BY <1>1, <2>1
    <3>2. e(i) = ls[i - n]
      BY <2>1
    <3>3. QED
      BY <1>1, <3>1, <3>2
  <2>2. CASE i \notin n + 1 .. n + Len(ls) /\ i <= Len(text)
    <3>1. e(i) = text[i] /\ i \in 1 .. Len(text)
      BY <1>1, <1>2, <2>2
    <3>2. QED
      BY <1>1, <3>1
  <2>3. CASE i \notin n + 1 .. n + Len(ls) /\ ~(i <= Len(text))
    <3>1. e(i) = <<>>
      BY <2>3
    <3>2. QED
      BY <3>1, Words
  <2>4. QED
    BY <2>1, <2>2, <2>3
<1> HIDE DEF e
<1>4. [i \in 1 .. m |-> e(i)] \in Seq(Line)
  BY <1>2, <1>3
<1>5. QED
  BY <1>4 DEF WriteAt, Text, m, e

\* Who writes to a file changes that file only, and is allowed to.
LEMMA FiledIs ==
  ASSUME files \in [Name -> Text], NEW d, Sink(d, before, consented), NEW ls \in Text
  PROVE  /\ Filed(d, ls) \in [Name -> Text]
         /\ \A f \in Name : Filed(d, ls)[f] # files[f] => before[f] = Absent \/ f \in consented
<1>1. CASE IsFile(d)
  <2>1. \A f \in Name : WriteAt(files[f], d[3], ls) \in Text
    BY <1>1, WriteAtTyped DEF Sink
  <2>2. Filed(d, ls) = [files EXCEPT ![d[2]] = WriteAt(@, d[3], ls)]
    BY <1>1 DEF Filed
  <2>3. QED
    BY <1>1, <2>1, <2>2 DEF Sink
<1>2. CASE ~IsFile(d)
  BY <1>2 DEF Filed
<1>3. QED
  BY <1>1, <1>2

LEMMA SinkOn ==
  ASSUME NEW d, Sink(d, before, consented), NEW n \in Nat
  PROVE  Sink(Advance(d, n), before, consented)
<1>1. CASE IsFile(d)
  <2>1. Advance(d, n) = FileAt(d[2], d[3] + n) /\ d[3] + n \in Nat
    BY <1>1 DEF Advance, Sink
  <2>2. QED
    BY <1>1, <2>1, Ends DEF Sink
<1>2. CASE ~IsFile(d)
  BY <1>2 DEF Advance
<1>3. QED
  BY <1>1, <1>2

LEMMA CopiesKeeps ==
  ASSUME ShellInv, NEW k \in Child, pc[k] = "run", NEW l \in Line, NEW n \in Nat, Copies(k, l, n),
         UNCHANGED <<cmd, current, in_fd, pipe_fd, saved, before, inbuf, consented>>
  PROVE  ShellInv'
<1> DEFINE a == Advance(fds[k][0], n)
           b == Advance(fds[k][1], 1)
           t == [ReadOn(k, n) EXCEPT ![1] = Advance(@, 1)]
<1>1. /\ k \in Proc /\ k # Shell /\ pc[k] \in Active
      /\ Types /\ Tables /\ <<l>> \in Text
  BY ProcIs DEF Active, ShellInv, Text
<1>2. /\ inbuf' \in Text /\ files \in [Name -> Text] /\ Drained(k, n) \in [Child -> Text]
      /\ Source(fds[k][0]) /\ Sink(fds[k][1], before, consented)
      /\ fds[k] = [fd \in Fd |-> fds[k][fd]]
  BY <1>1, Has, DrainedTyped DEF Types, Pcs
<1>3. files' \in [Name -> Text] /\ pipe' \in [Child -> Text]
  BY <1>1, <1>2, FiledIs, PipedTyped DEF Copies
<1>4. \A f \in Name : files'[f] # files[f] => before[f] = Absent \/ f \in consented'
  BY <1>1, <1>2, FiledIs DEF Copies
<1>5. Source(a) /\ Sink(b, before, consented)
  BY <1>2, AdvanceIs, SinkOn
<1>6. t = [fds[k] EXCEPT ![0] = a, ![1] = b]
  <2>1. ReadOn(k, n) = [fds[k] EXCEPT ![0] = a] /\ ReadOn(k, n)[1] = fds[k][1]
    BY <1>2, PlainTables DEF ReadOn
  <2>2. t = [ReadOn(k, n) EXCEPT ![1] = b]
    BY <2>1
  <2> HIDE DEF t, a, b
  <2>3. QED
    BY <1>2, <2>1, <2>2, PlainTables
<1>7. CASE pc' = [pc EXCEPT ![k] = "dead"] /\ fds' = [fds EXCEPT ![k] = NoTable]
  BY <1>1, <1>2, <1>3, <1>4, <1>7, ActiveKeeps DEF Gone
<1>8. CASE pc' = [pc EXCEPT ![k] = "run"] /\ fds' = [fds EXCEPT ![k] = t]
  <2> HIDE DEF t, a, b
  <2>1. Carries(k, t, consented')
    BY <1>1, <1>5, <1>6, CarriesOver
  <2>2. QED
    BY <1>1, <1>2, <1>3, <1>4, <1>8, <2>1, ActiveKeeps DEF Active
<1>9. QED
  BY <1>7, <1>8 DEF Copies

LEMMA LeaveKeeps ==
  ASSUME ShellInv, NEW p \in Proc, pc[p] \in Active, Leave(p),
         UNCHANGED <<cmd, current, in_fd, pipe_fd, saved, before, inbuf, consented, files, pipe>>
  PROVE  ShellInv'
<1>1. inbuf' \in Text /\ files' \in [Name -> Text] /\ pipe' \in [Child -> Text]
  BY DEF ShellInv, Types, Pcs
<1>2. QED
  BY <1>1, ActiveKeeps DEF Leave

LEMMA CopyKeeps ==
  ASSUME ShellInv, NEW k \in Child, Copy(k)
  PROVE  ShellInv'
<1>1. /\ k \in Proc /\ pc[k] = "run" /\ pc[k] \in Active /\ Types /\ Tables
      /\ UNCHANGED <<cmd, current, in_fd, pipe_fd, saved, before, inbuf, consented>>
  BY ProcIs DEF Copy, Active, ShellInv, parse, forking
<1>2. ASSUME NEW c \in Chunks(k), c # <<>>, Copies(k, c[1], 1) PROVE ShellInv'
  <2>1. c[1] \in Line
    BY <1>1, <1>2, ChunksTyped DEF Text
  <2>2. QED
    BY <1>1, <1>2, <2>1, CopiesKeeps
<1>3. CASE Leave(k) /\ UNCHANGED <<pipe, files>>
  BY <1>1, <1>3, LeaveKeeps
<1>4. CASE Copies(k, Notice, 0)
  BY <1>1, <1>4, Words, CopiesKeeps
<1>5. QED
  BY <1>2, <1>3, <1>4 DEF Copy

LEMMA ReadsEndKeeps ==
  ASSUME ShellInv, NEW k \in Child, ReadsEnd(k)
  PROVE  ShellInv'
<1>1. /\ k \in Proc /\ pc[k] \in Active /\ Leave(k)
      /\ UNCHANGED <<cmd, current, in_fd, pipe_fd, saved, before, inbuf, consented, files, pipe>>
  BY ProcIs DEF ReadsEnd, Active, parse, forking
<1>2. QED
  BY <1>1, LeaveKeeps

-----------------------------------------------------------------------------
(* The shell's own steps.                                                  *)

\* At the prompt no process has a file or a pipe open.
LEMMA AtPrompt ==
  ASSUME ShellInv, pc[Shell] = "read"
  PROVE  /\ fds[Shell] = TtyTable
         /\ \A k \in Child : pc[k] = "none" /\ fds[k] = NoTable
<1>1. \A k \in Child : pc[k] = "none"
  BY DEF ShellInv, Children
<1>2. QED
  BY <1>1 DEF ShellInv, Resting, Children

\* The line begins: what the shell does next starts from its three descriptors.
LEMMA BeginKeeps ==
  ASSUME ShellInv, pc[Shell] = "read", NEW nodes, Sound(nodes), Len(nodes) >= 1, Begin(nodes),
         NoCommand(nodes) \/ StartBuiltin(nodes) \/ StartExternal(nodes),
         inbuf' \in Text, UNCHANGED <<pipe, files>>
  PROVE  ShellInv'
<1>1. /\ Types /\ Tables /\ fds[Shell] = TtyTable
      /\ \A k \in Child : pc[k] = "none" /\ fds[k] = NoTable
  BY AtPrompt DEF ShellInv
<1>2. /\ cmd' = nodes /\ current' = 1 /\ in_fd' = 0 /\ before' = files /\ consented' = {}
      /\ files' = files /\ pipe' = pipe
  BY DEF Begin
<1>3. PICK q, t : /\ pc' = [pc EXCEPT ![Shell] = q] /\ fds' = [fds EXCEPT ![Shell] = t]
                  /\ \/ q = "ended" /\ t = NoTable
                     \/ q = "redirect" /\ Len(nodes) = 1 /\ saved' = <<3, 4>>
                        /\ t = [TtyTable EXCEPT ![3] = Tty, ![4] = Tty]
                     \/ q = "fork" /\ t = TtyTable
  <2>1. CASE NoCommand(nodes)
    BY <2>1 DEF NoCommand, Leave, Gone
  <2>2. CASE StartBuiltin(nodes)
    <3> DEFINE u == [TtyTable EXCEPT ![3] = Tty]
               v == [TtyTable EXCEPT ![3] = Tty, ![4] = Tty]
    <3>1. LowestFree(TtyTable) = 3
      BY PlainTables, Ends, LowestIs
    <3>2. /\ u[0] = Tty /\ u[1] = Tty /\ u[2] = Tty /\ u[3] = Tty /\ u[4] = Closed
      BY PlainTables
    <3>3. LowestFree(u) = 4
      <4> HIDE DEF u
      <4>1. \A e \in 0 .. 4 - 1 : u[e] # Closed
        BY <3>2, Ends
      <4>2. QED
        BY <3>2, <4>1, PlainTables, LowestIs
    <3>4. Open(TtyTable, TtyTable[0]) = u
      BY <3>1, PlainTables DEF Open
    <3>5. Open(u, u[1]) = v
      BY <3>2, <3>3 DEF Open
    <3>6. saved' = <<3, 4>> /\ fds' = [fds EXCEPT ![Shell] = v]
      BY <1>1, <2>2, <3>1, <3>3, <3>4, <3>5 DEF StartBuiltin
    <3>7. Len(nodes) = 1 /\ pc' = [pc EXCEPT ![Shell] = "redirect"]
      BY <2>2 DEF StartBuiltin
    <3>8. QED
      BY <3>6, <3>7
  <2>3. CASE StartExternal(nodes)
    <3>1. fds = [fds EXCEPT ![Shell] = TtyTable]
      BY <1>1 DEF Tables
    <3>2. QED
      BY <2>3, <3>1 DEF StartExternal
  <2>4. QED
    BY <2>1, <2>2, <2>3
<1>4. /\ pc'[Shell] = q /\ fds'[Shell] = t
      /\ \A k \in Child : pc'[k] = "none" /\ fds'[k] = NoTable
  BY <1>1, <1>3, ProcIs DEF Types, Pcs, Tables
<1>5. /\ t = [fd \in Fd |-> t[fd]] /\ t[0] \in {Tty, Closed} /\ t[1] \in {Tty, Closed}
  BY <1>3, PlainTables
<1>6. Types'
  BY <1>1, <1>2, <1>3 DEF Types, Pcs, Active, Sound
<1>7. Tables' /\ Owned'
  <2>1. ASSUME NEW o \in Proc
        PROVE  /\ fds'[o] = [fd \in Fd |-> fds'[o][fd]]
               /\ fds'[o][0] \in {Tty, Closed} /\ fds'[o][1] \in {Tty, Closed}
    BY <1>4, <1>5, PlainTables, ProcIs
  <2>2. fds' = [o \in Proc |-> fds'[o]]
    BY <1>1, <1>3 DEF Tables
  <2>3. \A o \in Proc : pc'[o] # "create"
    BY <1>3, <1>4, ProcIs
  <2>4. QED
    BY <2>1, <2>2, <2>3, Ends DEF Tables, Owned, Source, Sink
<1>8. Forking'
  <2>1. CASE q = "fork"
    <3>1. t = With(0, 0, 0)'
      BY <1>3, <2>1 DEF TtyTable, With
    <3>2. QED
      BY <1>2, <1>4, <2>1, <3>1 DEF Forking, Sound
  <2>2. CASE q # "fork"
    BY <1>3, <1>4, <2>2 DEF Forking
  <2>3. QED
    BY <2>1, <2>2
<1>9. BuiltinRuns'
  <2>1. CASE q = "redirect"
    BY <1>2, <1>3, <1>4, <2>1, PlainTables DEF BuiltinRuns
  <2>2. CASE q # "redirect"
    BY <1>3, <1>4, <2>2 DEF BuiltinRuns, Active
  <2>3. QED
    BY <2>1, <2>2
<1>10. Resting' /\ Children'
  BY <1>3, <1>4 DEF Resting, Children
<1>11. OverwriteAsked'
  BY <1>2 DEF OverwriteAsked
<1>12. QED
  BY <1>6, <1>7, <1>8, <1>9, <1>10, <1>11 DEF ShellInv

LEMMA LineTyped ==
  ASSUME inbuf \in Text,
         NEW line \in IF inbuf # <<>> THEN {Head(inbuf)} ELSE Lines
  PROVE  line \in Line
<1>1. inbuf # <<>> => Head(inbuf) \in Line
  BY DEF Text
<1>2. Lines \subseteq Line
  BY TextAssumption, Words
<1>3. QED
  BY <1>1, <1>2

LEMMA ReadLineKeeps == ShellInv /\ ReadLine => ShellInv'
<1> SUFFICES ASSUME ShellInv, ReadLine PROVE ShellInv'
  OBVIOUS
<1>1. /\ pc[Shell] = "read" /\ inbuf \in Text /\ UNCHANGED <<pipe, files>>
  BY DEF ReadLine, ShellInv, Types, Pcs
<1>2. inbuf' \in Text
  <2>1. inbuf # <<>> => Tail(inbuf) \in Text
    BY <1>1 DEF Text
  <2>2. QED
    BY <1>1, <2>1 DEF ReadLine
<1>3. CASE UNCHANGED <<pc, fds, saved, current, in_fd, pipe_fd, parse, screen, keyed, consented>>
  BY <1>1, <1>2, <1>3 DEF ShellInv, Types, Pcs, Tables, Forking, BuiltinRuns, Resting, Children, Owned,
       OverwriteAsked, MayOpen, Node, Sound, With, parse
<1>4. ASSUME NEW line \in IF inbuf # <<>> THEN {Head(inbuf)} ELSE Lines, NEW left \in Lefts(line),
             Begin(split_line(line, left)),
             \/ NoCommand(split_line(line, left))
             \/ StartBuiltin(split_line(line, left))
             \/ StartExternal(split_line(line, left))
      PROVE  ShellInv'
  <2>1. line \in Line
    BY <1>1, LineTyped
  <2>2. Sound(split_line(line, left)) /\ Len(split_line(line, left)) >= 1
    BY <2>1, ParseTyped
  <2>3. QED
    BY <1>1, <1>2, <1>4, <2>2, BeginKeeps
<1>5. QED
  BY <1>3, <1>4 DEF ReadLine

LEMMA ReadNothingKeeps == ShellInv /\ ReadNothing => ShellInv'
<1> SUFFICES ASSUME ShellInv, ReadNothing PROVE ShellInv'
  OBVIOUS
<1>1. /\ pc[Shell] = "read" /\ inbuf' \in Text /\ UNCHANGED <<pipe, files>>
  BY DEF ReadNothing, ShellInv, Types, Pcs
<1> DEFINE nodes(line) == split_line(line, <<Initialised>>)
<1>2. PICK line \in {<<>>, <<Garbage>>} :
        Begin(nodes(line)) /\ (NoCommand(nodes(line)) \/ StartExternal(nodes(line)))
  BY DEF ReadNothing
<1>3. line \in Line
  BY <1>2, Words
<1>4. Sound(nodes(line)) /\ Len(nodes(line)) >= 1
  BY <1>3, ParseTyped
<1> HIDE DEF nodes
<1>5. QED
  BY <1>1, <1>2, <1>4, BeginKeeps

LEMMA ModIs ==
  ASSUME NEW x \in Nat, NEW m \in Nat \ {0}
  PROVE  x % m \in 0 .. m - 1
OBVIOUS

LEMMA RecordedTyped == HistoryInv => Recorded \in Text
<1> SUFFICES ASSUME HistoryInv PROVE Recorded \in Text
  OBVIOUS
<1>1. /\ history_count \in Nat /\ MaxRecord \in Nat \ {0}
      /\ \A j \in 0 .. MaxRecord - 1 : history[j] \in Line
  BY SizeAssumption DEF HistoryInv
<1>2. CASE history_count < MaxRecord
  <2>1. \A i \in 1 .. history_count : history[i - 1] \in Line
    BY <1>1, <1>2
  <2>2. [i \in 1 .. history_count |-> history[i - 1]] \in Seq(Line)
    BY <1>1, <2>1
  <2>3. QED
    BY <1>2, <2>2 DEF Recorded, Text
<1>3. CASE ~(history_count < MaxRecord)
  <2> DEFINE e(i) == history[((history_count % MaxRecord) + i - 1) % MaxRecord]
  <2>1. ASSUME NEW i \in 1 .. MaxRecord PROVE e(i) \in Line
    <3>1. history_count % MaxRecord \in Nat
      BY <1>1, ModIs
    <3>2. (history_count % MaxRecord) + i - 1 \in Nat
      BY <3>1
    <3>3. ((history_count % MaxRecord) + i - 1) % MaxRecord \in 0 .. MaxRecord - 1
      BY <1>1, <3>2, ModIs
    <3>4. QED
      BY <1>1, <3>3
  <2> HIDE DEF e
  <2>2. [i \in 1 .. MaxRecord |-> e(i)] \in Seq(Line)
    BY <1>1, <2>1
  <2>3. QED
    BY <1>3, <2>2 DEF Recorded, Text, e
<1>4. QED
  BY <1>2, <1>3

LEMMA PrintedTyped ==
  ASSUME HistoryInv, NEW args \in Line
  PROVE  Printed(args) \in Text
<1>1. /\ SubSeq(args, 2, Len(args)) \in Line /\ SubSeq(args, 3, Len(args)) \in Line
  <2>1. /\ SubSeq(args, 1 + 1, Len(args)) \in Line /\ SubSeq(args, 2 + 1, Len(args)) \in Line
    BY TailTyped DEF Line
  <2>2. QED
    BY <2>1
<1>2. <<SubSeq(args, IF NoNewline(args) THEN 3 ELSE 2, Len(args))>> \in Text
  BY <1>1 DEF Text
<1>3. QED
  BY <1>2, RecordedTyped, Words DEF Printed

LEMMA RunBuiltinKeeps == ShellInv /\ HistoryInv /\ RunBuiltin => ShellInv'
<1> SUFFICES ASSUME ShellInv, HistoryInv, RunBuiltin PROVE ShellInv'
  OBVIOUS
<1> DEFINE t == fds[Shell]
           args == cmd[1].args
<1>1. /\ pc[Shell] = "run" /\ pc[Shell] \in Active /\ Types /\ Tables /\ Children
      /\ Len(cmd) = 1 /\ saved = <<3, 4>>
      /\ t[2] = Tty /\ t[3] = Tty /\ t[4] = Tty /\ t[5] = Closed
      /\ cmd[1].in = None => t[0] = Tty
      /\ cmd[1].out = None => t[1] = Tty
      /\ t = [fd \in Fd |-> t[fd]]
  BY ProcIs DEF RunBuiltin, ShellInv, Active, BuiltinRuns, Tables
<1>2. args \in Line
  BY <1>1 DEF Types, Pcs, Sound
<1>3. Restored(t) = TtyTable
  <2> DEFINE a == IF cmd[1].in # None THEN Dup2(t, 3, 0) ELSE t
             b == IF cmd[1].out # None THEN Dup2(a, 4, 1) ELSE a
             c == Close(b, 3)
             e == Close(c, 4)
  <2>1. Restored(t) = e
    BY <1>1, NodeIs DEF Restored
  <2> HIDE DEF t
  <2>2. a = [fd \in Fd |-> a[fd]] /\ a[0] = Tty /\ \A fd \in Fd \ {0} : a[fd] = t[fd]
    BY <1>1, PlainTables DEF Dup2
  <2> HIDE DEF a
  <2>3. b = [fd \in Fd |-> b[fd]] /\ b[0] = Tty /\ b[1] = Tty /\ \A fd \in Fd \ {0, 1} : b[fd] = t[fd]
    BY <1>1, <2>2, PlainTables DEF Dup2
  <2> HIDE DEF b
  <2>4. c = [fd \in Fd |-> c[fd]] /\ c[3] = Closed /\ \A fd \in Fd \ {3} : c[fd] = b[fd]
    BY <2>3, PlainTables DEF Close
  <2> HIDE DEF c
  <2>5. e = [fd \in Fd |-> e[fd]] /\ e[4] = Closed /\ \A fd \in Fd \ {4} : e[fd] = c[fd]
    BY <2>4, PlainTables DEF Close
  <2> HIDE DEF e
  <2>6. /\ e = [fd \in Fd |-> e[fd]] /\ e[0] = Tty /\ e[1] = Tty /\ e[2] = Tty
        /\ e[3] = Closed /\ e[4] = Closed /\ e[5] = Closed
    BY <1>1, <2>3, <2>4, <2>5, PlainTables
  <2>7. \A fd \in Fd : e[fd] = TtyTable[fd]
    BY <2>6, PlainTables
  <2>8. QED
    BY <2>1, <2>6, <2>7, PlainTables
<1>4. /\ fds' = [fds EXCEPT ![Shell] = IF args[1] = "exit" THEN NoTable ELSE TtyTable]
      /\ pc' = [pc EXCEPT ![Shell] = IF args[1] = "exit" THEN "ended" ELSE "read"]
      /\ \E d \in {Tty, t[1]} : files' = Filed(d, Printed(args))
      /\ cmd' = <<>>
      /\ UNCHANGED <<pipe, inbuf, before, consented>>
  BY <1>3, NodeIs, PlainTables DEF RunBuiltin, FreeNodes
<1>5. PICK d \in {Tty, t[1]} : files' = Filed(d, Printed(args))
  BY <1>4
<1>6. Sink(d, before, consented) /\ files \in [Name -> Text]
  BY <1>1, <1>5, Has, Ends, ProcIs DEF Sink, Types, Pcs
<1>7. /\ files' \in [Name -> Text]
      /\ \A f \in Name : files'[f] # files[f] => before[f] = Absent \/ f \in consented
  BY <1>2, <1>5, <1>6, PrintedTyped, FiledIs
<1> HIDE DEF t, args
<1>8. PICK q, u : /\ pc' = [pc EXCEPT ![Shell] = q] /\ fds' = [fds EXCEPT ![Shell] = u]
                  /\ \/ q = "ended" /\ u = NoTable
                     \/ q = "read" /\ u = TtyTable
  BY <1>4
<1>9. \A k \in Child : pc[k] = "none"
  BY <1>1 DEF Children, Active
<1>10. /\ pc'[Shell] = q /\ fds'[Shell] = u
       /\ \A k \in Child : pc'[k] = "none" /\ fds'[k] = fds[k] /\ fds[k] = NoTable
  BY <1>1, <1>8, <1>9, ProcIs DEF Types, Pcs, Tables, Children
<1>11. Types'
  <2>1. pc' \in [Proc -> Pcs]
    BY <1>1, <1>8 DEF Types, Pcs
  <2>2. Sound(cmd)'
    BY <1>4 DEF Sound
  <2>3. pipe' \in [Child -> Text] /\ inbuf' \in Text
    BY <1>1, <1>4 DEF Types, Pcs
  <2>4. QED
    BY <1>7, <2>1, <2>2, <2>3 DEF Types, Pcs
<1>12. Tables' /\ Owned'
  <2>1. ASSUME NEW o \in Proc
        PROVE  /\ fds'[o] = [fd \in Fd |-> fds'[o][fd]]
               /\ fds'[o][0] \in {Tty, Closed} /\ fds'[o][1] \in {Tty, Closed}
    BY <1>8, <1>10, PlainTables, ProcIs
  <2>2. fds' = [o \in Proc |-> fds'[o]]
    BY <1>1, <1>8 DEF Tables
  <2>3. \A o \in Proc : pc'[o] # "create"
    BY <1>8, <1>10, ProcIs
  <2>4. QED
    BY <2>1, <2>2, <2>3, Ends DEF Tables, Owned, Source, Sink
<1>13. Forking' /\ BuiltinRuns' /\ Resting' /\ Children'
  BY <1>8, <1>10 DEF Forking, BuiltinRuns, Resting, Children, Active
<1>14. OverwriteAsked'
  BY <1>4, <1>7 DEF ShellInv, OverwriteAsked
<1>15. QED
  BY <1>11, <1>12, <1>13, <1>14 DEF ShellInv

LEMMA WithIs ==
  ASSUME NEW in \in {0, 3, 4}, NEW r, NEW w
  PROVE  /\ IsTable(With(in, r, w))
         /\ With(in, r, w)[0] = Tty /\ With(in, r, w)[1] = Tty /\ With(in, r, w)[2] = Tty
         /\ \A fd \in {3, 4, 5} :
              With(in, r, w)[fd] = IF fd = in THEN ReadEnd(current - 1)
                                   ELSE IF fd = r THEN ReadEnd(current)
                                   ELSE IF fd = w THEN WriteEnd(current) ELSE Closed
BY DEF With, Fd, IsTable

LEMMA NothingOpen == With(0, 0, 0) = TtyTable
BY DEF With, TtyTable

LEMMA SameTable ==
  ASSUME NEW s, NEW t, IsTable(s), IsTable(t),
         s[0] = t[0], s[1] = t[1], s[2] = t[2], s[3] = t[3], s[4] = t[4], s[5] = t[5]
  PROVE  s = t
<1>1. \A fd \in Fd : s[fd] = t[fd]
  BY PlainTables
<1>2. QED
  BY <1>1 DEF IsTable

\* pipe() opens the two lowest descriptors that are free.
LEMMA PipeOpens ==
  ASSUME NEW in \in {0, 3, 4}
  PROVE  LET t == With(in, 0, 0)
             r == LowestFree(t)
             u == Open(t, ReadEnd(current))
             w == LowestFree(u)
         IN /\ r \in {3, 4} /\ w \in {4, 5} /\ r # w /\ r # in /\ w # in
            /\ Open(u, WriteEnd(current)) = With(in, r, w)
<1> DEFINE t == With(in, 0, 0)
           R == ReadEnd(current)
           W == WriteEnd(current)
           u == Open(t, R)
           v == Open(u, W)
<1>1. ASSUME NEW r \in {3, 4}, NEW w \in {4, 5}, r # w, r # in, w # in,
             r < w, \A fd \in 3 .. w - 1 : fd \in {in, r},
             \A fd \in 3 .. r - 1 : fd = in
      PROVE  LowestFree(t) = r /\ LowestFree(u) = w /\ v = With(in, r, w)
  <2>1. /\ IsTable(t) /\ t[0] = Tty /\ t[1] = Tty /\ t[2] = Tty
        /\ \A fd \in {3, 4, 5} : t[fd] = IF fd = in THEN ReadEnd(current - 1) ELSE Closed
    BY WithIs
  <2> HIDE DEF t
  <2>2. r \in Fd /\ t[r] = Closed /\ \A e \in 0 .. r - 1 : t[e] # Closed
    <3>1. ASSUME NEW e \in 0 .. r - 1 PROVE t[e] # Closed
      <4>1. e \in {0, 1, 2} \/ (e \in {3, 4, 5} /\ e = in)
        BY <1>1
      <4>2. QED
        BY <2>1, <4>1, Ends
    <3>2. QED
      BY <1>1, <2>1, <3>1, PlainTables
  <2>3. LowestFree(t) = r
    BY <2>2, LowestIs
  <2>4. u = [t EXCEPT ![r] = R]
    BY <2>3 DEF Open
  <2> HIDE DEF u, R, W
  <2>5. /\ IsTable(u) /\ u[r] = R /\ u[0] = Tty /\ u[1] = Tty /\ u[2] = Tty
        /\ \A fd \in {3, 4, 5} \ {r} : u[fd] = t[fd]
    BY <1>1, <2>1, <2>4, PlainTables DEF IsTable
  <2>6. w \in Fd /\ u[w] = Closed /\ \A e \in 0 .. w - 1 : u[e] # Closed
    <3>1. ASSUME NEW e \in 0 .. w - 1 PROVE u[e] # Closed
      <4>1. e \in {0, 1, 2} \/ (e \in {3, 4, 5} /\ (e = in \/ e = r))
        BY <1>1
      <4>2. R # Closed
        BY Ends DEF R
      <4>3. QED
        BY <1>1, <2>1, <2>5, <4>1, <4>2, Ends
    <3>2. QED
      BY <1>1, <2>1, <2>5, <3>1, PlainTables
  <2>7. LowestFree(u) = w
    BY <2>6, LowestIs
  <2>8. v = [u EXCEPT ![w] = W]
    BY <2>7 DEF Open
  <2> HIDE DEF v
  <2>9. /\ IsTable(v) /\ v[r] = R /\ v[w] = W
        /\ v[0] = Tty /\ v[1] = Tty /\ v[2] = Tty
        /\ \A fd \in {3, 4, 5} \ {r, w} : v[fd] = IF fd = in THEN ReadEnd(current - 1) ELSE Closed
    BY <1>1, <2>1, <2>5, <2>8, PlainTables DEF IsTable
  <2>10. \A fd \in {3, 4, 5} : v[fd] = With(in, r, w)[fd]
    <3>1. \A fd \in {3, 4, 5} :
            With(in, r, w)[fd] = IF fd = in THEN ReadEnd(current - 1)
                                 ELSE IF fd = r THEN R ELSE IF fd = w THEN W ELSE Closed
      BY WithIs DEF R, W
    <3>2. QED
      BY <1>1, <2>9, <3>1
  <2>11. v = With(in, r, w)
    <3> DEFINE x == With(in, r, w)
    <3>1. IsTable(x) /\ x[0] = Tty /\ x[1] = Tty /\ x[2] = Tty
      BY WithIs
    <3> HIDE DEF x
    <3>2. \A fd \in {3, 4, 5} : v[fd] = x[fd]
      BY <2>10 DEF x
    <3>3. v = x
      BY <2>9, <3>1, <3>2, SameTable
    <3>4. QED
      BY <3>3 DEF x
  <2>12. QED
    BY <2>3, <2>7, <2>11
<1> HIDE DEF t, R, W, u, v
<1>2. CASE in = 0
  <2>1. LowestFree(t) = 3 /\ LowestFree(u) = 4 /\ v = With(in, 3, 4)
    BY <1>1, <1>2
  <2>2. QED
    BY <1>2, <2>1 DEF t, R, W, u, v
<1>3. CASE in = 3
  <2>1. LowestFree(t) = 4 /\ LowestFree(u) = 5 /\ v = With(in, 4, 5)
    BY <1>1, <1>3
  <2>2. QED
    BY <1>3, <2>1 DEF t, R, W, u, v
<1>4. CASE in = 4
  <2>1. LowestFree(t) = 3 /\ LowestFree(u) = 5 /\ v = With(in, 3, 5)
    BY <1>1, <1>4
  <2>2. QED
    BY <1>4, <2>1 DEF t, R, W, u, v
<1>5. QED
  BY <1>2, <1>3, <1>4

LEMMA CloseIs ==
  ASSUME NEW t, IsTable(t), NEW n \in Fd
  PROVE  /\ IsTable(Close(t, n))
         /\ Close(t, n)[n] = Closed /\ \A fd \in Fd \ {n} : Close(t, n)[fd] = t[fd]
BY DEF Close, IsTable

\* The table a child begins with reads from the last pipe or the terminal and
\* writes to the next pipe or the terminal.
LEMMA PlumbedIs ==
  ASSUME in_fd \in {0, 3, 4}, NEW ends, NEW more \in BOOLEAN,
         ends[1] \in {3, 4}, ends[2] \in {4, 5}, ends[2] # in_fd,
         NEW r, NEW w, NEW t, t = With(in_fd, r, w),
         more => t[ends[2]] = WriteEnd(current)
  PROVE  LET u == Plumbed(t, ends, more)
         IN /\ IsTable(u)
            /\ u[0] = IF in_fd # 0 THEN ReadEnd(current - 1) ELSE Tty
            /\ u[1] = IF more THEN WriteEnd(current) ELSE Tty
<1> DEFINE a0 == Dup2(t, in_fd, 0)
           a == IF in_fd # 0 THEN Close(a0, in_fd) ELSE t
           b0 == Dup2(a, ends[2], 1)
           b == IF more THEN Close(b0, ends[2]) ELSE a
           u == Close(b, ends[1])
<1>1. /\ IsTable(t) /\ t[0] = Tty /\ t[1] = Tty
      /\ in_fd # 0 => t[in_fd] = ReadEnd(current - 1)
  BY WithIs
<1>2. ends[1] \in Fd /\ ends[2] \in Fd /\ in_fd \in Fd
  BY PlainTables
<1>3. IsTable(a0) /\ a0[0] = t[in_fd] /\ \A fd \in Fd \ {0} : a0[fd] = t[fd]
  <2>1. 0 \in Fd
    BY PlainTables
  <2>2. QED
    BY <1>1, <1>2, <2>1 DEF Dup2, IsTable
<1> HIDE DEF a0
<1>4. /\ IsTable(a) /\ a[0] = IF in_fd # 0 THEN ReadEnd(current - 1) ELSE Tty
      /\ \A fd \in Fd \ {0, in_fd} : a[fd] = t[fd]
  <2>1. CASE in_fd = 0
    BY <1>1, <2>1
  <2>2. CASE in_fd # 0
    <3>1. a = Close(a0, in_fd)
      BY <2>2
    <3> HIDE DEF a
    <3>2. /\ IsTable(a) /\ \A fd \in Fd \ {in_fd} : a[fd] = a0[fd]
      BY <1>2, <1>3, <3>1, CloseIs
    <3>3. QED
      BY <1>1, <1>3, <2>2, <3>2, PlainTables
  <2>3. QED
    BY <2>1, <2>2
<1> HIDE DEF a
<1>5. a[1] = Tty /\ a[ends[2]] = t[ends[2]]
  BY <1>1, <1>4, PlainTables
<1>6. /\ IsTable(b0) /\ b0[1] = a[ends[2]]
      /\ \A fd \in Fd \ {1} : b0[fd] = a[fd]
  <2>1. 1 \in Fd
    BY PlainTables
  <2>2. QED
    BY <1>2, <1>4, <2>1 DEF Dup2, IsTable
<1> HIDE DEF b0
<1>7. /\ IsTable(b) /\ b[0] = a[0]
      /\ b[1] = IF more THEN WriteEnd(current) ELSE Tty
  <2>1. CASE ~more
    BY <1>4, <1>5, <2>1
  <2>2. CASE more
    <3>1. b = Close(b0, ends[2])
      BY <2>2
    <3> HIDE DEF b
    <3>2. /\ IsTable(b) /\ \A fd \in Fd \ {ends[2]} : b[fd] = b0[fd]
      BY <1>2, <1>6, <3>1, CloseIs
    <3>3. QED
      BY <1>5, <1>6, <2>2, <3>2, PlainTables
  <2>3. QED
    BY <2>1, <2>2
<1> HIDE DEF b
<1>8. IsTable(u) /\ u[0] = b[0] /\ u[1] = b[1]
  <2>1. IsTable(u) /\ \A fd \in Fd \ {ends[1]} : u[fd] = b[fd]
    BY <1>2, <1>7, CloseIs
  <2> HIDE DEF u
  <2>2. 0 \in Fd \ {ends[1]} /\ 1 \in Fd \ {ends[1]}
    BY PlainTables
  <2>3. QED
    BY <2>1, <2>2
<1>9. Plumbed(t, ends, more) = u
  BY DEF Plumbed, a, a0, b, b0
<1> HIDE DEF u
<1>10. QED
  BY <1>4, <1>7, <1>8, <1>9

\* Steps that open no file and answer no question.
LEMMA Frame ==
  ASSUME ShellInv, UNCHANGED <<files, inbuf, before, consented>>, pipe' \in [Child -> Text],
         Sound(cmd'), pc' \in [Proc -> Pcs], fds' = [o \in Proc |-> fds'[o]],
         \A o \in Proc : \/ fds'[o] = fds[o]
                         \/ IsTable(fds'[o]) /\ Source(fds'[o][0]) /\ ~IsFile(fds'[o][1]),
         \A o \in Proc : pc'[o] = "create" => pc[o] = "create" /\ cmd' = cmd
  PROVE  Types' /\ Tables' /\ Owned' /\ OverwriteAsked'
<1>1. Types'
  BY DEF ShellInv, Types, Pcs, Sound
<1>2. ASSUME NEW o \in Proc
      PROVE  /\ fds'[o] = [fd \in Fd |-> fds'[o][fd]] /\ Source(fds'[o][0])
             /\ Sink(fds'[o][1], before, consented)
  <2>1. CASE fds'[o] = fds[o]
    BY <2>1 DEF ShellInv, Tables, Owned
  <2>2. CASE IsTable(fds'[o]) /\ Source(fds'[o][0]) /\ ~IsFile(fds'[o][1])
    BY <2>2 DEF IsTable, Sink
  <2>3. QED
    BY <2>1, <2>2
<1>3. \A o \in Proc : pc'[o] = "create" => MayOpen(o, before, consented)'
  BY DEF ShellInv, Owned, MayOpen, Node
<1>4. Tables' /\ Owned'
  BY <1>2, <1>3 DEF Tables, Owned, Source, Sink
<1>5. OverwriteAsked'
  BY DEF ShellInv, OverwriteAsked
<1>6. QED
  BY <1>1, <1>4, <1>5

LEMMA TtyIs == IsTable(TtyTable) /\ Source(TtyTable[0]) /\ ~IsFile(TtyTable[1])
BY PlainTables, Ends DEF IsTable, Source

LEMMA SpawnProcKeeps == ShellInv /\ SpawnProc => ShellInv'
<1> SUFFICES ASSUME ShellInv, SpawnProc PROVE ShellInv'
  OBVIOUS
<1>1. /\ Types /\ Tables /\ Forking /\ Children /\ pc[Shell] = "fork" /\ Len(cmd) = 1
      /\ UNCHANGED <<files, inbuf, before, consented, pipe, cmd>>
      /\ pc' = [pc EXCEPT ![Shell] = "wait", ![1] = "redirect"]
      /\ fds' = [fds EXCEPT ![1] = fds[Shell]]
  BY DEF ShellInv, SpawnProc, parse, forking
<1>2. current = 1 /\ in_fd = 0
  BY <1>1 DEF Forking
<1>3. fds[Shell] = TtyTable
  BY <1>1, <1>2, NothingOpen DEF Forking
<1>4. /\ Shell # 1 /\ pc'[Shell] = "wait" /\ pc'[1] = "redirect"
      /\ fds'[Shell] = TtyTable /\ fds'[1] = TtyTable
      /\ \A o \in Proc \ {Shell, 1} : pc'[o] = pc[o] /\ fds'[o] = fds[o]
  BY <1>1, <1>3, ProcIs DEF Types, Pcs, Tables
<1>5. \A k \in Child \ {1} : pc[k] = "none"
  <2>1. ASSUME NEW k \in Child, k # 1 PROVE ~(k < current)
    BY <1>2, ProcIs
  <2>2. QED
    BY <1>1, <2>1 DEF Children
<1>6. Types' /\ Tables' /\ Owned' /\ OverwriteAsked'
  <2>1. pc' \in [Proc -> Pcs] /\ pipe' \in [Child -> Text] /\ Sound(cmd')
    BY <1>1 DEF Types, Pcs, Active
  <2>2. fds' = [o \in Proc |-> fds'[o]]
    BY <1>1 DEF Tables
  <2>3. \A o \in Proc : \/ fds'[o] = fds[o]
                        \/ IsTable(fds'[o]) /\ Source(fds'[o][0]) /\ ~IsFile(fds'[o][1])
    BY <1>4, TtyIs
  <2>4. \A o \in Proc : pc'[o] = "create" => pc[o] = "create" /\ cmd' = cmd
    BY <1>1, <1>4
  <2>5. QED
    BY <1>1, <2>1, <2>2, <2>3, <2>4, Frame
<1>7. Forking' /\ BuiltinRuns' /\ Resting'
  BY <1>4 DEF Forking, BuiltinRuns, Resting, Active
<1>8. Children'
  <2>1. ASSUME NEW k \in Child
        PROVE  /\ pc'[k] \in {"redirect", "none"}
               /\ pc'[k] = "none" => fds'[k] = NoTable
               /\ pc'[k] # "none" => k <= Len(cmd)
    <3>1. CASE k = 1
      BY <1>1, <1>4, <3>1
    <3>2. CASE k # 1
      BY <1>1, <1>4, <1>5, <3>2, ProcIs DEF Children
    <3>3. QED
      BY <3>1, <3>2
  <2>2. QED
    BY <1>1, <1>4, <2>1 DEF Children, Active
<1>9. QED
  BY <1>6, <1>7, <1>8 DEF ShellInv

LEMMA ForkFailsKeeps == ShellInv /\ ForkFails => ShellInv'
<1> SUFFICES ASSUME ShellInv, ForkFails PROVE ShellInv'
  OBVIOUS
<1>1. /\ Types /\ Tables /\ Forking /\ Children /\ pc[Shell] = "fork"
      /\ UNCHANGED <<files, inbuf, before, consented, pipe, current>>
      /\ pipe' \in [Child -> Text]
  BY DEF ShellInv, ForkFails, forking, Types, Pcs
<1>2. CASE Len(cmd) = 1 /\ pc' = [pc EXCEPT ![Shell] = "read"] /\ FreeNodes /\ UNCHANGED fds
  <2>1. current = 1 /\ in_fd = 0
    BY <1>1, <1>2 DEF Forking
  <2>2. fds[Shell] = TtyTable
    BY <1>1, <2>1, NothingOpen DEF Forking
  <2>3. pc'[Shell] = "read" /\ \A k \in Child : pc'[k] = pc[k] /\ pc[k] = "none"
    <3>1. ASSUME NEW k \in Child PROVE pc[k] = "none" /\ k # Shell /\ k \in Proc
      <4>1. ~(k < current) /\ k # Shell /\ k \in Proc
        BY <2>1, ProcIs
      <4>2. QED
        BY <1>1, <4>1 DEF Children
    <3>2. QED
      BY <1>1, <1>2, <3>1, ProcIs DEF Types, Pcs
  <2>4. pc' \in [Proc -> Pcs] /\ Sound(cmd')
    <3>1. cmd' = <<>>
      BY <1>2 DEF FreeNodes
    <3>2. Sound(cmd')
      BY <3>1 DEF Sound
    <3>3. pc' \in [Proc -> Pcs]
      BY <1>1, <1>2 DEF Types, Pcs
    <3>4. QED
      BY <3>2, <3>3
  <2>5. \A o \in Proc : pc'[o] # "create"
    BY <2>3, ProcIs
  <2>6. Types' /\ Tables' /\ Owned' /\ OverwriteAsked'
    BY <1>1, <1>2, <2>4, <2>5, Frame DEF Tables
  <2>7. QED
    BY <1>1, <1>2, <2>2, <2>3, <2>6
    DEF ShellInv, Forking, BuiltinRuns, Resting, Children, Active
<1>3. CASE Len(cmd) > 1 /\ Leave(Shell) /\ UNCHANGED <<cmd, pool>>
  <2>1. /\ pc'[Shell] = "ended" /\ fds'[Shell] = NoTable
        /\ \A k \in Child : pc'[k] = pc[k] /\ fds'[k] = fds[k]
    BY <1>1, <1>3, ProcIs DEF Types, Pcs, Tables, Leave, Gone
  <2>2. pc' \in [Proc -> Pcs] /\ Sound(cmd') /\ fds' = [o \in Proc |-> fds'[o]]
    BY <1>1, <1>3 DEF Types, Tables, Pcs, Leave, Gone
  <2>3. IsTable(NoTable) /\ Source(NoTable[0]) /\ ~IsFile(NoTable[1])
    BY PlainTables, Ends DEF IsTable, Source
  <2>4. \A o \in Proc : pc'[o] = "create" => pc[o] = "create" /\ cmd' = cmd
    BY <1>3, <2>1, ProcIs
  <2>5. Types' /\ Tables' /\ Owned' /\ OverwriteAsked'
    BY <1>1, <2>1, <2>2, <2>3, <2>4, Frame, ProcIs
  <2>6. QED
    BY <1>1, <1>3, <2>1, <2>5 DEF ShellInv, Forking, BuiltinRuns, Resting, Children, Active
<1>4. QED
  BY <1>2, <1>3 DEF ForkFails

LEMMA WaitChildrenKeeps == ShellInv /\ WaitChildren => ShellInv'
<1> SUFFICES ASSUME ShellInv, WaitChildren PROVE ShellInv'
  OBVIOUS
<1>1. /\ Types /\ Tables /\ Resting /\ Children /\ pc[Shell] = "wait" /\ AllDone
      /\ UNCHANGED <<files, inbuf, before, consented, pipe, current, fds>>
      /\ pipe' \in [Child -> Text] /\ cmd' = <<>>
      /\ DOMAIN cmd = 1 .. Len(cmd) /\ Len(cmd) \in Nat
  BY DEF ShellInv, WaitChildren, forking, Types, Pcs, FreeNodes, Sound
<1>2. pc' = [p \in Proc |-> CASE p = Shell -> "read"
                              [] p \in DOMAIN cmd /\ pc[p] = "dead" -> "none"
                              [] OTHER -> pc[p]]
  BY DEF WaitChildren
<1>3. pc'[Shell] = "read"
  <2>1. Shell \notin DOMAIN cmd
    BY <1>1 DEF Shell
  <2>2. QED
    BY <1>2, <2>1, ProcIs
<1>4. ASSUME NEW k \in Child PROVE pc'[k] = "none" /\ fds[k] = NoTable
  <2>1. k \in Proc /\ k # Shell /\ k \in Nat /\ k >= 1
    BY ProcIs DEF Child
  <2>2. CASE pc[k] = "none"
    BY <1>1, <1>2, <2>1, <2>2 DEF Children
  <2>3. CASE pc[k] # "none"
    <3>1. k \in DOMAIN cmd
      BY <1>1, <2>1, <2>3 DEF Children
    <3>2. pc[k] = "dead"
      BY <1>1, <3>1 DEF AllDone
    <3>3. QED
      BY <1>1, <1>2, <2>1, <3>1, <3>2 DEF Children
  <2>4. QED
    BY <2>2, <2>3
<1>5. pc' \in [Proc -> Pcs] /\ Sound(cmd')
  <2>1. \A p \in Proc : pc'[p] \in {"read", "none"}
    BY <1>3, <1>4, ProcIs
  <2>2. Sound(cmd')
    BY <1>1 DEF Sound
  <2>3. QED
    BY <1>2, <2>1, <2>2 DEF Pcs
<1>6. \A o \in Proc : pc'[o] # "create"
  BY <1>3, <1>4, ProcIs
<1>7. Types' /\ Tables' /\ Owned' /\ OverwriteAsked'
  BY <1>1, <1>5, <1>6, Frame DEF Tables
<1>8. QED
  BY <1>1, <1>3, <1>4, <1>7 DEF ShellInv, Forking, BuiltinRuns, Resting, Children, Active

\* The descriptors of a round of fork_cmd_node are the lowest ones free.
LEMMA RoundOpens ==
  ASSUME ShellInv, ForkNode
  PROVE  /\ pipe_fd'[1] \in {3, 4} /\ pipe_fd'[2] \in {4, 5} /\ pipe_fd'[1] # pipe_fd'[2]
         /\ pipe_fd'[2] # in_fd /\ in_fd \in {0, 3, 4} /\ (current > 1 <=> in_fd # 0)
         /\ current < Len(cmd) => pipe_fd'[1] # in_fd
         /\ ~(current < Len(cmd)) => pipe_fd'[1] = in_fd
         /\ fds'[Shell] = IF current < Len(cmd) THEN With(in_fd, pipe_fd'[1], pipe_fd'[2])
                          ELSE With(in_fd, 0, 0)
         /\ fds'[current] = Plumbed(fds'[Shell], pipe_fd', current < Len(cmd))
         /\ \A o \in Proc \ {Shell, current} : fds'[o] = fds[o]
         /\ fds' = [o \in Proc |-> fds'[o]]
<1> DEFINE t == With(in_fd, 0, 0)
           r == LowestFree(t)
           u == Open(t, ReadEnd(current))
           w == LowestFree(u)
           more == current < Len(cmd)
           table == IF more THEN Open(u, WriteEnd(current)) ELSE t
           ends == IF more THEN <<r, w>> ELSE pipe_fd
<1>1. /\ pc[Shell] = "fork" /\ Len(cmd) > 1 /\ current \in Child
      /\ fds[Shell] = t /\ Sound(cmd)
      /\ current \in 1 .. Len(cmd) /\ (IF current = 1 THEN in_fd = 0 ELSE in_fd \in {3, 4})
      /\ current > 1 => pipe_fd[1] = in_fd /\ pipe_fd[2] \in {4, 5} \ {in_fd}
  BY DEF ShellInv, ForkNode, Forking, Types, Pcs
<1>2. /\ pipe_fd' = ends
      /\ fds' = [fds EXCEPT ![Shell] = table, ![current] = Plumbed(table, ends, more)]
  BY <1>1 DEF ForkNode
<1>3. in_fd \in {0, 3, 4} /\ (current > 1 <=> in_fd # 0)
  BY <1>1
<1>4. /\ r \in {3, 4} /\ w \in {4, 5} /\ r # w /\ r # in_fd /\ w # in_fd
      /\ Open(u, WriteEnd(current)) = With(in_fd, r, w)
  BY <1>3, PipeOpens
<1> HIDE DEF t, r, u, w
<1>5. /\ ends[1] \in {3, 4} /\ ends[2] \in {4, 5} /\ ends[1] # ends[2] /\ ends[2] # in_fd
      /\ more => ends[1] # in_fd
      /\ ~more => ends[1] = in_fd
  <2>1. CASE more
    BY <1>4, <2>1
  <2>2. CASE ~more
    <3>1. current > 1 /\ in_fd # 0
      BY <1>1, <1>3, <2>2 DEF Sound
    <3>2. QED
      BY <1>1, <1>3, <2>2, <3>1
  <2>3. QED
    BY <2>1, <2>2
<1>6. table = IF more THEN With(in_fd, ends[1], ends[2]) ELSE With(in_fd, 0, 0)
  BY <1>4 DEF t
<1> HIDE DEF table, ends
<1>7. /\ fds'[Shell] = table /\ fds'[current] = Plumbed(table, ends, more)
      /\ \A o \in Proc \ {Shell, current} : fds'[o] = fds[o]
      /\ fds' = [o \in Proc |-> fds'[o]]
  BY <1>1, <1>2, ProcIs DEF ShellInv, Tables
<1>8. QED
  BY <1>2, <1>3, <1>5, <1>6, <1>7

LEMMA ForkNodeKeeps == ShellInv /\ ForkNode => ShellInv'
<1> SUFFICES ASSUME ShellInv, ForkNode PROVE ShellInv'
  OBVIOUS
<1> DEFINE more == current < Len(cmd)
           T == fds'[Shell]
           U == fds'[current]
<1>1. /\ Types /\ Tables /\ Forking /\ Children /\ pc[Shell] = "fork" /\ Len(cmd) > 1
      /\ current \in Child /\ current # Shell /\ current \in Proc
      /\ current \in 1 .. Len(cmd) /\ (current > 1 => current - 1 \in Child)
      /\ (IF current = 1 THEN in_fd = 0 ELSE in_fd \in {3, 4})
      /\ UNCHANGED <<files, inbuf, before, consented, cmd, current, in_fd>>
      /\ pc' = [pc EXCEPT ![Shell] = "close", ![current] = "redirect"]
  BY ProcIs DEF ShellInv, ForkNode, parse, Forking
<1>2. /\ pipe_fd'[1] \in {3, 4} /\ pipe_fd'[2] \in {4, 5} /\ pipe_fd'[1] # pipe_fd'[2]
      /\ pipe_fd'[2] # in_fd /\ in_fd \in {0, 3, 4} /\ (current > 1 <=> in_fd # 0)
      /\ more => pipe_fd'[1] # in_fd
      /\ ~more => pipe_fd'[1] = in_fd
      /\ T = IF more THEN With(in_fd, pipe_fd'[1], pipe_fd'[2]) ELSE With(in_fd, 0, 0)
      /\ U = Plumbed(T, pipe_fd', more)
      /\ \A o \in Proc \ {Shell, current} : fds'[o] = fds[o]
      /\ fds' = [o \in Proc |-> fds'[o]]
  BY RoundOpens
<1>3. PICK r, w : T = With(in_fd, r, w) /\ (more => T[pipe_fd'[2]] = WriteEnd(current))
  <2>1. CASE more
    <3>1. T = With(in_fd, pipe_fd'[1], pipe_fd'[2])
      BY <1>2, <2>1
    <3> DEFINE r == pipe_fd'[1]
               w == pipe_fd'[2]
    <3> HIDE DEF T, r, w
    <3>2. T = With(in_fd, r, w) /\ r \in {3, 4} /\ w \in {4, 5} /\ r # w /\ w # in_fd
      BY <1>2, <3>1 DEF r, w
    <3>3. With(in_fd, r, w)[w] = WriteEnd(current)
      BY <1>2, <3>2, WithIs
    <3>4. QED
      BY <3>2, <3>3 DEF w
  <2>2. CASE ~more
    BY <1>2, <2>2
  <2>3. QED
    BY <2>1, <2>2
<1>4. IsTable(T) /\ T[0] = Tty /\ T[1] = Tty
  BY <1>2, <1>3, WithIs
<1> HIDE DEF T
<1>5. /\ IsTable(U) /\ U[0] \in {Tty, ReadEnd(current - 1)}
      /\ U[0] = ReadEnd(current - 1) => current > 1
      /\ U[1] \in {Tty, WriteEnd(current)}
  <2>1. more \in BOOLEAN
    OBVIOUS
  <2>2. /\ IsTable(Plumbed(T, pipe_fd', more))
        /\ Plumbed(T, pipe_fd', more)[0] = IF in_fd # 0 THEN ReadEnd(current - 1) ELSE Tty
        /\ Plumbed(T, pipe_fd', more)[1] = IF more THEN WriteEnd(current) ELSE Tty
    <3>1. PICK ends : ends = pipe_fd'
      OBVIOUS
    <3> HIDE DEF more
    <3>2. ends[1] \in {3, 4} /\ ends[2] \in {4, 5} /\ ends[2] # in_fd
      BY <1>2, <3>1
    <3>3. more => T[ends[2]] = WriteEnd(current)
      BY <1>3, <3>1
    <3>4. /\ IsTable(Plumbed(T, ends, more))
          /\ Plumbed(T, ends, more)[0] = IF in_fd # 0 THEN ReadEnd(current - 1) ELSE Tty
          /\ Plumbed(T, ends, more)[1] = IF more THEN WriteEnd(current) ELSE Tty
      BY <1>2, <1>3, <2>1, <3>2, <3>3, PlumbedIs
    <3>5. QED
      BY <3>1, <3>4
  <2>3. ReadEnd(current - 1) # Tty
    BY DEF ReadEnd, Tty
  <2> HIDE DEF U
  <2>4. QED
    BY <1>2, <2>2, <2>3
<1> HIDE DEF U
<1>6. Source(T[0]) /\ ~IsFile(T[1]) /\ Source(U[0]) /\ ~IsFile(U[1])
  BY <1>1, <1>4, <1>5, Ends DEF Source
<1>7. pipe' \in [Child -> Text]
  BY <1>1, Words DEF ForkNode, Types, Pcs
<1>8. /\ pc'[Shell] = "close" /\ pc'[current] = "redirect"
      /\ \A o \in Proc \ {Shell, current} : pc'[o] = pc[o]
      /\ pc' \in [Proc -> Pcs]
  BY <1>1, ProcIs DEF Types, Pcs, Active
<1>9. Types' /\ Tables' /\ Owned' /\ OverwriteAsked'
  <2>1. \A o \in Proc : \/ fds'[o] = fds[o]
                        \/ IsTable(fds'[o]) /\ Source(fds'[o][0]) /\ ~IsFile(fds'[o][1])
    BY <1>2, <1>4, <1>5, <1>6 DEF T, U
  <2>2. Sound(cmd') /\ cmd' = cmd
    BY <1>1 DEF Types, Pcs
  <2>3. \A o \in Proc : pc'[o] = "create" => pc[o] = "create" /\ cmd' = cmd
    BY <1>8, <2>2
  <2>4. QED
    BY <1>1, <1>2, <1>7, <1>8, <2>1, <2>2, <2>3, Frame
<1>10. Forking'
  <2>1. fds'[Shell] = (IF current < Len(cmd) THEN With(in_fd, pipe_fd[1], pipe_fd[2])
                       ELSE With(in_fd, 0, 0))'
    BY <1>1, <1>2 DEF With, T
  <2>2. QED
    BY <1>1, <1>2, <1>8, <2>1 DEF Forking
<1>11. BuiltinRuns' /\ Resting'
  BY <1>8 DEF BuiltinRuns, Resting, Active
<1>12. Children'
  <2>1. ASSUME NEW k \in Child
        PROVE  /\ pc'[k] \in Active \cup {"none", "dead"}
               /\ pc'[k] \in {"none", "dead"} => fds'[k] = NoTable
               /\ pc'[k] # "none" => k <= Len(cmd) /\ k <= current
    <3>1. CASE k = current
      BY <1>1, <1>8, <3>1 DEF Active
    <3>2. CASE k # current
      <4>1. pc'[k] = pc[k] /\ fds'[k] = fds[k]
        BY <1>2, <1>8, <3>2, ProcIs
      <4>2. pc[k] # "none" => k < current /\ k <= Len(cmd)
        BY <1>1 DEF Children
      <4>3. QED
        BY <1>1, <4>1, <4>2, ProcIs DEF Children
    <3>3. QED
      BY <3>1, <3>2
  <2>2. QED
    BY <1>1, <1>8, <2>1 DEF Children
<1>13. QED
  BY <1>9, <1>10, <1>11, <1>12 DEF ShellInv

LEMMA CloseEndsKeeps == ShellInv /\ CloseEnds => ShellInv'
<1> SUFFICES ASSUME ShellInv, CloseEnds PROVE ShellInv'
  OBVIOUS
<1> DEFINE more == current < Len(cmd)
           t == fds[Shell]
           r == pipe_fd[1]
           w == pipe_fd[2]
           a == Close(t, w)
           b == IF in_fd # 0 THEN Close(a, in_fd) ELSE a
           now == IF more THEN [TtyTable EXCEPT ![r] = ReadEnd(current)] ELSE TtyTable
<1>1. /\ Types /\ Tables /\ Children /\ pc[Shell] = "close" /\ Len(cmd) > 1
      /\ current \in Child /\ current \in 1 .. Len(cmd) /\ Len(cmd) \in Nat
      /\ in_fd \in {0, 3, 4} /\ (current > 1 => in_fd # 0)
      /\ r \in {3, 4} /\ w \in {4, 5} /\ r # w /\ w # in_fd
      /\ IF more THEN r # in_fd /\ t = With(in_fd, r, w)
                 ELSE r = in_fd /\ t = With(in_fd, 0, 0)
      /\ UNCHANGED <<files, inbuf, before, consented, cmd, pipe, pipe_fd>>
      /\ in_fd' = r /\ current' = current + 1
      /\ pc' = [pc EXCEPT ![Shell] = IF more THEN "fork" ELSE "wait"]
      /\ fds' = [fds EXCEPT ![Shell] = b]
  BY DEF ShellInv, CloseEnds, parse, Forking, Types, Pcs, Sound, ParentTable
<1>2. /\ IsTable(t) /\ t[0] = Tty /\ t[1] = Tty /\ t[2] = Tty
      /\ \A fd \in {3, 4, 5} \ {in_fd, w} : t[fd] = IF more /\ fd = r THEN ReadEnd(current) ELSE Closed
  <2>1. CASE more
    <3>1. t = With(in_fd, r, w)
      BY <1>1, <2>1
    <3> HIDE DEF t, r, w
    <3>2. QED
      BY <1>1, <2>1, <3>1, WithIs
  <2>2. CASE ~more
    <3>1. t = With(in_fd, 0, 0)
      BY <1>1, <2>2
    <3> HIDE DEF t, r, w
    <3>2. QED
      BY <1>1, <2>2, <3>1, WithIs
  <2>3. QED
    BY <2>1, <2>2
<1> HIDE DEF t, r, w
<1>3. w \in Fd /\ r \in Fd /\ in_fd \in Fd
  BY <1>1, PlainTables
<1>4. IsTable(a) /\ a[w] = Closed /\ \A fd \in Fd \ {w} : a[fd] = t[fd]
  BY <1>2, <1>3, CloseIs
<1> HIDE DEF a
<1>5. /\ IsTable(b) /\ b[w] = Closed /\ (in_fd # 0 => b[in_fd] = Closed)
      /\ \A fd \in Fd \ {w, in_fd} : b[fd] = t[fd]
      /\ in_fd = 0 => b[0] = Tty
  <2>1. CASE in_fd = 0
    BY <1>1, <1>2, <1>4, <2>1, PlainTables
  <2>2. CASE in_fd # 0
    <3>1. b = Close(a, in_fd)
      BY <2>2
    <3> HIDE DEF b
    <3>2. IsTable(b) /\ b[in_fd] = Closed /\ \A fd \in Fd \ {in_fd} : b[fd] = a[fd]
      BY <1>3, <1>4, <3>1, CloseIs
    <3>3. QED
      BY <1>1, <1>3, <1>4, <2>2, <3>2
  <2>3. QED
    BY <2>1, <2>2
<1> HIDE DEF b
<1>6. b = now
  <2>1. /\ IsTable(now) /\ now[0] = Tty /\ now[1] = Tty /\ now[2] = Tty
        /\ \A fd \in {3, 4, 5} : now[fd] = IF more /\ fd = r THEN ReadEnd(current) ELSE Closed
    BY <1>1, PlainTables DEF IsTable
  <2> HIDE DEF now
  <2>2. b[0] = Tty /\ b[1] = Tty /\ b[2] = Tty
    BY <1>1, <1>2, <1>5, PlainTables
  <2>3. \A fd \in {3, 4, 5} : b[fd] = now[fd]
    <3>1. ASSUME NEW fd \in {3, 4, 5} PROVE b[fd] = now[fd]
      <4>1. CASE fd = w
        BY <1>1, <1>5, <2>1, <4>1
      <4>2. CASE fd = in_fd
        BY <1>1, <1>5, <2>1, <4>2
      <4>3. CASE fd \notin {w, in_fd}
        <5>1. fd \in Fd
          BY PlainTables
        <5>2. QED
          BY <1>2, <1>5, <2>1, <4>3, <5>1
      <4>4. QED
        BY <4>1, <4>2, <4>3
    <3>2. QED
      BY <3>1
  <2>4. QED
    BY <1>5, <2>1, <2>2, <2>3, SameTable
<1>7. IsTable(b) /\ Source(b[0]) /\ ~IsFile(b[1])
  BY <1>1, <1>2, <1>5, PlainTables, Ends DEF Source
<1>8. /\ fds'[Shell] = b /\ pc'[Shell] = IF more THEN "fork" ELSE "wait"
      /\ \A k \in Child : pc'[k] = pc[k] /\ fds'[k] = fds[k]
      /\ pc' \in [Proc -> Pcs] /\ fds' = [o \in Proc |-> fds'[o]]
  BY <1>1, ProcIs DEF Types, Tables, Pcs
<1>9. Types' /\ Tables' /\ Owned' /\ OverwriteAsked'
  <2>1. \A o \in Proc : \/ fds'[o] = fds[o]
                        \/ IsTable(fds'[o]) /\ Source(fds'[o][0]) /\ ~IsFile(fds'[o][1])
    BY <1>7, <1>8, ProcIs
  <2>2. Sound(cmd') /\ pipe' \in [Child -> Text] /\ cmd' = cmd
    BY <1>1 DEF Types, Pcs
  <2>3. \A o \in Proc : pc'[o] = "create" => pc[o] = "create" /\ cmd' = cmd
    BY <1>8, <2>2, ProcIs
  <2>4. QED
    BY <1>1, <1>8, <2>1, <2>2, <2>3, Frame
<1>10. Forking'
  <2>1. CASE more
    <3>1. now = With(r, 0, 0)'
      <4>1. current' - 1 = current /\ r' = r
        BY <1>1 DEF r
      <4>2. With(r, 0, 0)' = [fd \in Fd |-> CASE fd <= 2 -> Tty
                                              [] fd > 2 /\ fd = r -> ReadEnd(current)
                                              [] OTHER -> Closed]
        BY <1>1, <4>1 DEF With, Fd
      <4>3. now = [fd \in Fd |-> CASE fd <= 2 -> Tty
                                   [] fd > 2 /\ fd = r -> ReadEnd(current)
                                   [] OTHER -> Closed]
        <5>1. now = [TtyTable EXCEPT ![r] = ReadEnd(current)]
          BY <2>1
        <5>2. now = [fd \in Fd |-> IF fd = r THEN ReadEnd(current) ELSE TtyTable[fd]]
          BY <1>3, <5>1 DEF TtyTable
        <5>3. \A fd \in Fd : (IF fd = r THEN ReadEnd(current) ELSE TtyTable[fd])
                = CASE fd <= 2 -> Tty
                    [] fd > 2 /\ fd = r -> ReadEnd(current)
                    [] OTHER -> Closed
          BY <1>1 DEF TtyTable, Fd
        <5> HIDE DEF now
        <5>4. QED
          BY <5>2, <5>3
      <4>4. QED
        BY <4>2, <4>3
    <3>2. fds'[Shell] = With(in_fd, 0, 0)'
      BY <1>1, <1>6, <1>8, <3>1 DEF r, With
    <3>3. QED
      BY <1>1, <1>8, <2>1, <3>2 DEF Forking, r, w
  <2>2. CASE ~more
    BY <1>8, <2>2 DEF Forking
  <2>3. QED
    BY <2>1, <2>2
<1>11. BuiltinRuns' /\ Resting'
  BY <1>6, <1>8 DEF BuiltinRuns, Resting, Active
<1>12. Children'
  <2>1. ASSUME NEW k \in Child
        PROVE  /\ pc[k] \in Active \cup {"none", "dead"}
               /\ pc[k] \in {"none", "dead"} => fds[k] = NoTable
               /\ pc[k] # "none" => k <= Len(cmd) /\ k < current + 1
    <3>1. pc[k] # "none" => k <= Len(cmd) /\ k <= current
      BY <1>1 DEF Children
    <3>2. QED
      BY <1>1, <3>1, ProcIs DEF Children
  <2>2. QED
    BY <1>1, <1>8, <2>1 DEF Children
<1>13. QED
  BY <1>9, <1>10, <1>11, <1>12 DEF ShellInv

-----------------------------------------------------------------------------
(* The history.                                                            *)

LEMMA Times ==
  ASSUME NEW a \in Nat, NEW b \in Nat, NEW m \in Nat
  PROVE  /\ a * m \in Nat /\ (a + b) * m = (a * m) + (b * m)
         /\ a <= b => a * m <= b * m
OBVIOUS

LEMMA DivIs ==
  ASSUME NEW x \in Nat, NEW m \in Nat \ {0}
  PROVE  x \div m \in Nat /\ x % m \in Nat /\ x % m < m /\ x = ((x \div m) * m) + (x % m)
OBVIOUS

LEMMA DivUnique ==
  ASSUME NEW m \in Nat \ {0}, NEW q \in Nat, NEW r \in Nat, r < m
  PROVE  ((q * m) + r) % m = r
OBVIOUS

\* Two numbers less than m apart have different slots of a ring of m.
LEMMA ModApart ==
  ASSUME NEW m \in Nat \ {0}, NEW x \in Nat, NEW y \in Nat, y < x, x - y < m
  PROVE  x % m # y % m
<1> DEFINE p == x \div m
           q == y \div m
           r == x % m
<1> SUFFICES ASSUME r = y % m PROVE FALSE
  OBVIOUS
<1>1. p \in Nat /\ r \in Nat /\ x = (p * m) + r
  BY DivIs
<1>2. q \in Nat /\ y = (q * m) + r
  BY DivIs
<1> HIDE DEF p, q, r
<1>3. p * m \in Nat /\ q * m \in Nat
  BY <1>1, <1>2, Times
<1>4. CASE p <= q
  <2>1. p * m <= q * m
    BY <1>1, <1>2, <1>4, Times
  <2> DEFINE s == p * m
             t == q * m
  <2> HIDE DEF s, t
  <2>2. s \in Nat /\ t \in Nat /\ s <= t /\ x = s + r /\ y = t + r
    BY <1>1, <1>2, <1>3, <2>1 DEF s, t
  <2>3. QED
    BY <1>1, <2>2
<1>5. CASE ~(p <= q)
  <2>1. q + 1 \in Nat /\ q + 1 <= p
    BY <1>1, <1>2, <1>5
  <2>2. (q + 1) * m <= p * m
    BY <1>1, <2>1, Times
  <2>3. (q + 1) * m = (q * m) + m
    BY <1>2, Times
  <2> DEFINE s == p * m
             t == q * m
  <2> HIDE DEF s, t
  <2>4. s \in Nat /\ t \in Nat /\ t + m <= s /\ x = s + r /\ y = t + r
    BY <1>1, <1>2, <1>3, <2>2, <2>3 DEF s, t
  <2>5. QED
    BY <1>1, <2>4
<1>6. QED
  BY <1>4, <1>5

\* Going on from n's slot is going on from the one m before.
LEMMA ModShift ==
  ASSUME NEW m \in Nat \ {0}, NEW n \in Nat, n >= m, NEW j \in Nat
  PROVE  ((n % m) + j) % m = ((n - m) + j) % m
<1> DEFINE q == n \div m
           r == n % m
           d == (r + j) \div m
           e == (r + j) % m
<1>1. q \in Nat /\ r \in Nat /\ r < m /\ n = (q * m) + r
  BY DivIs
<1>2. d \in Nat /\ e \in Nat /\ e < m /\ r + j = (d * m) + e
  <2>1. r + j \in Nat
    BY <1>1
  <2> HIDE DEF r
  <2>2. QED
    BY <2>1, DivIs
<1> HIDE DEF q, r, d, e
<1>3. q # 0
  <2> SUFFICES ASSUME q = 0 PROVE FALSE
    OBVIOUS
  <2>1. n = r
    BY <1>1
  <2>2. QED
    BY <1>1, <2>1
<1>4. PICK k \in Nat : q = k + 1
  <2>1. q - 1 \in Nat /\ q = (q - 1) + 1
    BY <1>1, <1>3
  <2>2. QED
    BY <2>1
<1>5. q * m = (k * m) + m /\ (k + d) * m = (k * m) + (d * m) /\ k * m \in Nat /\ d * m \in Nat
  BY <1>2, <1>4, Times
<1>6. (n - m) + j = ((k + d) * m) + e
  <2> DEFINE s == k * m
             t == d * m
             u == q * m
             v == (k + d) * m
  <2> HIDE DEF s, t, u, v
  <2>1. s \in Nat /\ t \in Nat /\ u = s + m /\ v = s + t /\ n = u + r /\ r + j = t + e
    BY <1>1, <1>2, <1>5 DEF s, t, u, v
  <2>2. (n - m) + j = v + e
    BY <1>1, <1>2, <2>1
  <2>3. QED
    BY <2>2 DEF v
<1>7. (((k + d) * m) + e) % m = e
  BY <1>2, <1>4, DivUnique
<1>8. QED
  BY <1>6, <1>7 DEF e, r

LEMMA RememberKeeps ==
  ASSUME HistoryInv, NEW line \in Line, Remember(line)
  PROVE  HistoryInv'
<1> DEFINE n == Len(accepted)
           M == MaxRecord
<1>1. /\ n \in Nat /\ M \in Nat \ {0} /\ history_count = n
      /\ history \in [0 .. M - 1 -> Line] /\ accepted \in Seq(Line)
      /\ history' = [history EXCEPT ![n % M] = line]
      /\ history_count' = n + 1 /\ accepted' = Append(accepted, line)
  BY SizeAssumption DEF HistoryInv, Remember
<1>2. /\ accepted' \in Seq(Line) /\ Len(accepted') = n + 1
      /\ accepted'[n + 1] = line /\ \A i \in 1 .. n : accepted'[i] = accepted[i]
  BY <1>1
<1>3. n % M \in 0 .. M - 1
  BY <1>1, ModIs
<1>4. history' \in [0 .. M - 1 -> Line] /\ history'[n % M] = line
  BY <1>1, <1>3
<1>5. ASSUME NEW i \in 1 .. n + 1, i > (n + 1) - M
      PROVE  history'[(i - 1) % M] = accepted'[i]
  <2>1. CASE i = n + 1
    BY <1>1, <1>2, <1>4, <2>1
  <2>2. CASE i # n + 1
    <3>1. i \in 1 .. n /\ i - 1 \in Nat /\ i - 1 < n /\ n - (i - 1) < M /\ i > n - M
      BY <1>1, <1>5, <2>2
    <3>2. n % M # (i - 1) % M
      BY <1>1, <3>1, ModApart
    <3>3. (i - 1) % M \in 0 .. M - 1
      BY <1>1, <3>1, ModIs
    <3>4. history'[(i - 1) % M] = history[(i - 1) % M]
      BY <1>1, <3>2, <3>3
    <3>5. history[(i - 1) % M] = accepted[i]
      BY <3>1 DEF HistoryInv
    <3>6. QED
      BY <1>2, <3>1, <3>4, <3>5
  <2>3. QED
    BY <2>1, <2>2
<1> HIDE DEF n
<1>6. QED
  BY <1>1, <1>2, <1>4, <1>5 DEF HistoryInv

LEMMA HistoryIs == HistoryInv => HistoryRecent
<1> SUFFICES ASSUME HistoryInv PROVE HistoryRecent
  OBVIOUS
<1> DEFINE n == Len(accepted)
           M == MaxRecord
           first == Max({0, n - M})
<1>1. n \in Nat /\ M \in Nat \ {0} /\ history_count = n /\ accepted \in Seq(Line)
  BY SizeAssumption DEF HistoryInv
<1>2. first \in {0, n - M} /\ first >= 0 /\ first >= n - M
  <2> DEFINE b == n - M
  <2>1. 0 \in Int /\ b \in Int
    BY <1>1
  <2> HIDE DEF b
  <2>2. Max({0, b}) \in {0, b} /\ Max({0, b}) >= 0 /\ Max({0, b}) >= b
    BY <2>1, MaxOfTwo
  <2>3. QED
    BY <2>2 DEF b
<1>3. \A i \in 1 .. n : i > n - M => history[(i - 1) % M] = accepted[i]
  BY DEF HistoryInv
<1> HIDE DEF first
<1>4. SubSeq(accepted, first + 1, n) = [i \in 1 .. n - first |-> accepted[i + first]]
  <2>1. first + 1 \in Int /\ n \in Int /\ 1 .. (n - (first + 1)) + 1 = 1 .. n - first
    BY <1>1, <1>2
  <2>2. SubSeq(accepted, first + 1, n)
          = [i \in 1 .. (n - (first + 1)) + 1 |-> accepted[(i + (first + 1)) - 1]]
    BY <1>1, <1>2
  <2>3. \A i \in 1 .. n - first : accepted[(i + (first + 1)) - 1] = accepted[i + first]
    <3>1. ASSUME NEW i \in 1 .. n - first PROVE (i + (first + 1)) - 1 = i + first
      BY <1>1, <1>2
    <3>2. QED
      BY <3>1
  <2>4. QED
    BY <2>1, <2>2, <2>3
<1>5. CASE n < M
  <2>1. first = 0
    BY <1>1, <1>2, <1>5
  <2>2. ASSUME NEW i \in 1 .. n PROVE history[i - 1] = accepted[i + first]
    <3>1. i - 1 \in Nat /\ i - 1 < M /\ i > n - M /\ i + first = i
      BY <1>1, <1>5, <2>1
    <3>2. ((0 * M) + (i - 1)) % M = i - 1 /\ (0 * M) + (i - 1) = i - 1
      BY <1>1, <3>1, DivUnique
    <3>3. QED
      BY <1>3, <3>1, <3>2
  <2>3. Recorded = [i \in 1 .. n |-> history[i - 1]]
    BY <1>1, <1>5 DEF Recorded
  <2>4. n - first = n
    BY <1>1, <2>1
  <2>5. QED
    BY <1>4, <2>2, <2>3, <2>4 DEF HistoryRecent, first, n, M
<1>6. CASE ~(n < M)
  <2>1. first = n - M /\ n - first = M
    BY <1>1, <1>2, <1>6
  <2>2. ASSUME NEW i \in 1 .. M
        PROVE  history[((n % M) + i - 1) % M] = accepted[i + first]
    <3>1. i - 1 \in Nat /\ i + first \in 1 .. n /\ i + first > n - M
      BY <1>1, <1>6, <2>1
    <3>2. PICK j \in Nat : j = i - 1
      BY <3>1
    <3>a. n >= M
      BY <1>1, <1>6
    <3>b. ((n % M) + j) % M = ((n - M) + j) % M
      BY <1>1, <3>a, ModShift
    <3>3. (n - M) + j = (i + first) - 1
      BY <1>1, <2>1, <3>2
    <3>4. (n % M) + i - 1 = (n % M) + j
      BY <1>1, <3>2, ModIs
    <3>5. QED
      BY <1>3, <3>1, <3>b, <3>3, <3>4
  <2>3. Recorded = [i \in 1 .. M |-> history[((n % M) + i - 1) % M]]
    BY <1>1, <1>6 DEF Recorded
  <2>4. QED
    BY <1>4, <2>1, <2>2, <2>3 DEF HistoryRecent, first, n, M
<1>7. QED
  BY <1>5, <1>6

LEMMA InitHistoryInv == Init => HistoryInv
<1> SUFFICES ASSUME Init PROVE HistoryInv
  OBVIOUS
<1>1. history = [i \in 0 .. MaxRecord - 1 |-> <<>>] /\ history_count = 0 /\ accepted = <<>>
  BY DEF Init
<1>2. accepted \in Seq(Line) /\ Len(accepted) = 0
  BY <1>1
<1>3. history \in [0 .. MaxRecord - 1 -> Line]
  BY <1>1, Words
<1>4. QED
  BY <1>1, <1>2, <1>3 DEF HistoryInv

LEMMA HistoryStays ==
  ASSUME HistoryInv, UNCHANGED <<history, history_count, accepted>>
  PROVE  HistoryInv'
BY DEF HistoryInv

LEMMA ReadLineRecords == ShellInv /\ HistoryInv /\ ReadLine => HistoryInv'
<1> SUFFICES ASSUME ShellInv, HistoryInv, ReadLine PROVE HistoryInv'
  OBVIOUS
<1>1. inbuf \in Text
  BY DEF ShellInv, Types, Pcs
<1>2. PICK line \in IF inbuf # <<>> THEN {Head(inbuf)} ELSE Lines :
        Remember(line) \/ UNCHANGED parse
  BY DEF ReadLine
<1>3. line \in Line
  BY <1>1, LineTyped
<1>4. CASE Remember(line)
  BY <1>3, <1>4, RememberKeeps
<1>5. CASE UNCHANGED parse
  BY <1>5, HistoryStays DEF parse
<1>6. QED
  BY <1>2, <1>4, <1>5

LEMMA RedirectionKeeps ==
  ASSUME ShellInv, HistoryInv, NEW p \in Proc, Redirection(p)
  PROVE  ShellInv' /\ HistoryInv'
<1>1. ShellInv'
  BY RedirectInKeeps, RedirectOutKeeps, CreateKeeps, AskKeeps, AnswerKeeps DEF Redirection
<1>2. UNCHANGED parse
  BY DEF Redirection, RedirectIn, RedirectOut, Create, Ask, Answer
<1>3. HistoryInv'
  BY <1>2, HistoryStays DEF parse
<1>4. QED
  BY <1>1, <1>3

LEMMA StepKeeps == ShellInv /\ HistoryInv /\ [Next]_vars => ShellInv' /\ HistoryInv'
<1> SUFFICES ASSUME ShellInv, HistoryInv, [Next]_vars PROVE ShellInv' /\ HistoryInv'
  OBVIOUS
<1>1. CASE ReadLine
  BY <1>1, ReadLineKeeps, ReadLineRecords
<1>2. CASE ReadNothing
  BY <1>2, ReadNothingKeeps, HistoryStays DEF ReadNothing
<1>3. CASE Redirection(Shell)
  BY <1>3, ProcIs, RedirectionKeeps
<1>4. CASE RunBuiltin
  BY <1>4, RunBuiltinKeeps, HistoryStays DEF RunBuiltin
<1>5. CASE SpawnProc
  BY <1>5, SpawnProcKeeps, HistoryStays DEF SpawnProc, parse
<1>6. CASE ForkNode
  BY <1>6, ForkNodeKeeps, HistoryStays DEF ForkNode, parse
<1>7. CASE CloseEnds
  BY <1>7, CloseEndsKeeps, HistoryStays DEF CloseEnds, parse
<1>8. CASE ForkFails
  BY <1>8, ForkFailsKeeps, HistoryStays DEF ForkFails
<1>9. CASE WaitChildren
  BY <1>9, WaitChildrenKeeps, HistoryStays DEF WaitChildren
<1>10. ASSUME NEW k \in Child, ChildStep(k) PROVE ShellInv' /\ HistoryInv'
  <2>1. CASE Redirection(k)
    BY <2>1, ProcIs, RedirectionKeeps
  <2>2. CASE Copy(k)
    BY <2>2, CopyKeeps, HistoryStays DEF Copy, parse
  <2>3. CASE ReadsEnd(k)
    BY <2>3, ReadsEndKeeps, HistoryStays DEF ReadsEnd, parse
  <2>4. QED
    BY <1>10, <2>1, <2>2, <2>3 DEF ChildStep
<1>11. CASE UNCHANGED vars
  <2>1. /\ UNCHANGED <<pc, fds, pipe, files, cmd, before, current, in_fd, pipe_fd, saved, inbuf,
                       consented>>
        /\ UNCHANGED <<history, history_count, accepted>>
    BY <1>11 DEF vars, parse, forking
  <2>2. Types' /\ Tables' /\ BuiltinRuns' /\ Resting' /\ Children'
    BY <2>1 DEF ShellInv, Types, Pcs, Tables, BuiltinRuns, Resting, Children, Sound
  <2>3. Forking'
    BY <2>1 DEF ShellInv, Forking, With
  <2>4. Owned' /\ OverwriteAsked'
    BY <2>1 DEF ShellInv, Owned, OverwriteAsked, MayOpen, Node
  <2>5. ShellInv'
    BY <2>2, <2>3, <2>4 DEF ShellInv
  <2>6. QED
    BY <2>1, <2>5, HistoryStays
<1>12. QED
  BY <1>1, <1>2, <1>3, <1>4, <1>5, <1>6, <1>7, <1>8, <1>9, <1>10, <1>11
     DEF Next, ShellStep, Ended

LEMMA Invariant == Spec => [](ShellInv /\ HistoryInv)
BY InitShellInv, InitHistoryInv, StepKeeps, PTL DEF Spec

\* However a line ends, with a built-in, a pipeline, a fork that fails or an
\* answer that is not yes, the shell is at its prompt with the terminal at 0, 1
\* and 2, nothing else open and no child left (shell.c:165-186, 202-221).
THEOREM ShellPromptClean == Spec => []PromptClean
<1>1. ShellInv => PromptClean
  BY AtPrompt DEF PromptClean
<1>2. QED
  BY <1>1, Invariant, PTL

\* Whatever commands of a line run at once and share a pipe, the terminal or a
\* file, a file that was there when the line began is as it was until someone
\* has said yes to its being overwritten (shell.c:36-62).
THEOREM ShellOverwriteAsked == Spec => []OverwriteAsked
<1>1. ShellInv => OverwriteAsked
  BY DEF ShellInv
<1>2. QED
  BY <1>1, Invariant, PTL

\* However many lines the shell has taken up, what record prints is the last
\* MaxRecord of them in their order (shell.c:205-206, builtin.c:112-122).
THEOREM ShellHistoryRecent == Spec => []HistoryRecent
BY HistoryIs, Invariant, PTL

-----------------------------------------------------------------------------
(* The nodes of the line at hand, and those that malloc may give again.    *)

\* Some of the first n lines has the sign.
Used(n, sign) == \E i \in 1 .. n : \E j \in DOMAIN accepted[i] : First(accepted[i][j]) = sign

AsWritten ==
  /\ accepted # <<>>
  /\ LET line == accepted[Len(accepted)] IN
     /\ Len(cmd) = Nodes(line)
     /\ \A k \in DOMAIN cmd :
          /\ cmd[k].args = Arguments(line, k)
          /\ \A field \in {"in", "out"} :
               IF Signs(line, k, SignOf(field)) # {}
               THEN cmd[k][field] = FileOf(line, k, SignOf(field))
               ELSE cmd[k][field] # None => k > 1 /\ Used(Len(accepted) - 1, SignOf(field))

\* The line the shell makes up at the end of its input.
MadeUp == Len(cmd) = 1 /\ cmd[1].args = <<Garbage>> /\ cmd[1].in = None /\ cmd[1].out = None

\* A freed node has had a redirection only if some line has.
PoolUsed ==
  /\ pool \in Seq([in : BOOLEAN, out : BOOLEAN])
  /\ \A i \in DOMAIN pool : \A field \in {"in", "out"} :
       pool[i][field] => Used(Len(accepted), SignOf(field))

Idle == {"read", "ended"}

NodesInv == PoolUsed /\ (pc[Shell] \notin Idle => MadeUp \/ AsWritten)

LEMMA InitNodesInv == Init => NodesInv
BY ProcIs DEF Init, NodesInv, PoolUsed, Idle

LEMMA NodesStay ==
  ASSUME NodesInv, UNCHANGED <<cmd, pool, accepted>>, pc'[Shell] \notin Idle => pc[Shell] \notin Idle
  PROVE  NodesInv'
BY DEF NodesInv, PoolUsed, AsWritten, MadeUp, Used

\* What is freed goes back to malloc as the line has left it.
LEMMA FreedUsed ==
  ASSUME NodesInv, HistoryInv, Sound(cmd), pc[Shell] \notin Idle,
         FreeNodes, UNCHANGED accepted, pc'[Shell] \in Idle
  PROVE  NodesInv'
<1> DEFINE R == [in : BOOLEAN, out : BOOLEAN]
           freed == [k \in DOMAIN cmd |-> [in |-> cmd[k].in # None, out |-> cmd[k].out # None]]
           n == Len(cmd)
           a == Len(accepted)
<1>1. /\ pool \in Seq(R) /\ n \in Nat /\ DOMAIN cmd = 1 .. n /\ a \in Nat
      /\ pool' = pool \o freed /\ accepted' = accepted
  BY DEF NodesInv, PoolUsed, Sound, FreeNodes, Freed, HistoryInv
<1>2. freed \in Seq(R) /\ Len(freed) = n
  <2>1. \A k \in 1 .. n : [in |-> cmd[k].in # None, out |-> cmd[k].out # None] \in R
    <3>1. \A k \in 1 .. n : (cmd[k].in # None) \in BOOLEAN /\ (cmd[k].out # None) \in BOOLEAN
      BY Zenon
    <3>2. QED
      BY <3>1
  <2>2. freed \in [1 .. n -> R]
    BY <1>1, <2>1
  <2> HIDE DEF freed, n, R
  <2>3. QED
    BY <1>1, <2>2
<1>3. ASSUME NEW k \in 1 .. n, NEW field \in {"in", "out"}, freed[k][field]
      PROVE  Used(a, SignOf(field))
  <2>1. cmd[k][field] # None
    <3> DEFINE in == cmd[k].in # None
               out == cmd[k].out # None
    <3>1. freed[k] = [in |-> in, out |-> out]
      BY <1>1
    <3> HIDE DEF in, out, freed
    <3>2. freed[k].in = in /\ freed[k].out = out
      BY <3>1
    <3>3. CASE field = "in"
      BY <1>3, <3>2, <3>3, Zenon DEF in
    <3>4. CASE field = "out"
      BY <1>3, <3>2, <3>4, Zenon DEF out
    <3>5. QED
      BY <3>3, <3>4
  <2>2. AsWritten
    <3>1. MadeUp => cmd[k][field] = None
      BY <1>1 DEF MadeUp
    <3>2. QED
      BY <2>1, <3>1 DEF NodesInv
  <2> DEFINE line == accepted[a]
             sign == SignOf(field)
  <2>3. a \in 1 .. a /\ line \in Line
    BY <1>1, <2>2 DEF AsWritten, HistoryInv
  <2>4. CASE Signs(line, k, sign) # {}
    <3>1. PICK j \in DOMAIN line : First(line[j]) = sign
      BY <2>4 DEF Signs, Segment, Is
    <3>2. QED
      BY <2>3, <3>1 DEF Used
  <2>5. CASE Signs(line, k, sign) = {}
    <3>1. Used(a - 1, sign)
      BY <1>1, <2>1, <2>2, <2>5 DEF AsWritten
    <3>2. \A i \in 1 .. a - 1 : i \in 1 .. a
      BY <1>1
    <3>3. QED
      BY <3>1, <3>2 DEF Used
  <2>6. QED
    BY <2>4, <2>5
<1> HIDE DEF freed, n, a, R
<1>4. PoolUsed'
  <2>1. pool' \in Seq(R)
    BY <1>1, <1>2
  <2>2. ASSUME NEW i \in DOMAIN pool', NEW field \in {"in", "out"}, pool'[i][field]
        PROVE  Used(a, SignOf(field))
    <3> DEFINE p == Len(pool)
    <3>1. p \in Nat /\ DOMAIN pool = 1 .. p /\ DOMAIN pool' = 1 .. p + n
          /\ \A o \in 1 .. p + n : pool'[o] = IF o <= p THEN pool[o] ELSE freed[o - p]
      <4>1. p \in Nat /\ DOMAIN pool = 1 .. p
        BY <1>1
      <4>2. /\ Len(pool \o freed) = p + n /\ pool \o freed \in Seq(R)
            /\ \A o \in 1 .. p + n : (pool \o freed)[o] = IF o <= p THEN pool[o] ELSE freed[o - p]
        BY <1>1, <1>2, ConcatProperties, Zenon
      <4>3. DOMAIN (pool \o freed) = 1 .. p + n
        <5> DEFINE l == pool \o freed
        <5> HIDE DEF l
        <5>1. l \in Seq(R) => DOMAIN l = 1 .. Len(l)
          OBVIOUS
        <5>2. QED
          BY <4>2, <5>1 DEF l
      <4>4. QED
        BY <1>1, <4>1, <4>2, <4>3, Zenon
    <3> HIDE DEF p
    <3>2. CASE i <= p
      <4>1. i \in DOMAIN pool /\ pool[i][field]
        BY <2>2, <3>1, <3>2
      <4>2. QED
        BY <4>1 DEF NodesInv, PoolUsed, a
    <3>3. CASE ~(i <= p)
      <4>1. i - p \in 1 .. n /\ freed[i - p][field]
        BY <1>1, <2>2, <3>1, <3>3
      <4>2. QED
        BY <1>3, <4>1
    <3>4. QED
      BY <3>2, <3>3
  <2>3. QED
    BY <1>1, <2>1, <2>2 DEF PoolUsed, Used, a, R
<1>5. QED
  BY <1>4 DEF NodesInv

\* The nodes of a new line are taken from the end of the pool.
LEMMA TakenUsed ==
  ASSUME PoolUsed, NEW nodes, Sound(nodes), Begin(nodes),
         \A sign : Used(Len(accepted), sign) => Used(Len(accepted), sign)'
  PROVE  PoolUsed'
<1> DEFINE R == [in : BOOLEAN, out : BOOLEAN]
           p == Len(pool)
           m == Max({0, p - Len(nodes)})
<1>1. pool \in Seq(R) /\ p \in Nat /\ DOMAIN pool = 1 .. p /\ Len(nodes) \in Nat
  BY DEF PoolUsed, Sound
<1>2. m \in 0 .. p
  <2>1. p - Len(nodes) \in Int /\ p - Len(nodes) <= p /\ 0 \in Int
    BY <1>1
  <2>2. m \in {0, p - Len(nodes)} /\ m >= 0
    BY <2>1, MaxOfTwo
  <2> DEFINE d == p - Len(nodes)
  <2>3. p \in Nat /\ d \in Int /\ d <= p /\ m \in {0, d} /\ m >= 0
    BY <1>1, <2>1, <2>2
  <2> HIDE DEF m, d, p
  <2>4. QED
    BY <2>3
<1>3. pool' = SubSeq(pool, 1, m)
  BY DEF Begin
<1> HIDE DEF m, p, R
<1>4. pool' \in Seq(R) /\ DOMAIN pool' = 1 .. m /\ \A i \in 1 .. m : pool'[i] = pool[i] /\ i \in 1 .. p
  <2> HIDE DEF R
  <2>1. /\ SubSeq(pool, 1, m) \in Seq(R) /\ Len(SubSeq(pool, 1, m)) = m
        /\ \A i \in 1 .. m : SubSeq(pool, 1, m)[i] = pool[i]
    BY <1>1, <1>2 DEF p
  <2> DEFINE l == SubSeq(pool, 1, m)
  <2> HIDE DEF l
  <2>2. l \in Seq(R) => DOMAIN l = 1 .. Len(l)
    OBVIOUS
  <2>3. \A i \in 1 .. m : i \in 1 .. p
    BY <1>1, <1>2
  <2>4. QED
    BY <1>3, <2>1, <2>2, <2>3 DEF l
<1>5. ASSUME NEW i \in 1 .. m, NEW field \in {"in", "out"}, pool'[i][field]
      PROVE  Used(Len(accepted), SignOf(field))'
  <2>1. pool[i][field] /\ i \in DOMAIN pool
    BY <1>1, <1>4, <1>5
  <2>2. Used(Len(accepted), SignOf(field))
    BY <2>1 DEF PoolUsed
  <2>3. Used(Len(accepted), SignOf(field)) => Used(Len(accepted), SignOf(field))'
    OBVIOUS
  <2>4. QED
    BY <2>2, <2>3
<1>6. QED
  BY <1>4, <1>5 DEF PoolUsed, R, SignOf

LEMMA UsedMore ==
  ASSUME HistoryInv, NEW line \in Line, Remember(line), NEW sign
  PROVE  /\ Used(Len(accepted), sign) => Used(Len(accepted), sign)'
         /\ Used(Len(accepted), sign) => Used(Len(accepted) - 1, sign)'
         /\ accepted' # <<>> /\ accepted'[Len(accepted')] = line
<1> DEFINE n == Len(accepted)
<1>1. /\ n \in Nat /\ Len(accepted') = n + 1 /\ accepted'[n + 1] = line
      /\ \A i \in 1 .. n : accepted'[i] = accepted[i] /\ i \in 1 .. n + 1
      /\ accepted' # <<>> /\ (n + 1) - 1 = n
  <2>1. accepted \in Seq(Line) /\ accepted' = Append(accepted, line)
    BY DEF HistoryInv, Remember
  <2>2. QED
    BY <2>1
<1> HIDE DEF n
<1>2. QED
  BY <1>1 DEF Used, n

\* A node's field that the line does not set has what a freed node had.
LEMMA LeftUsed ==
  ASSUME PoolUsed, NEW line, Nodes(line) \in Nat, NEW left \in Lefts(line), NEW k \in 1 .. Nodes(line),
         NEW field \in {"in", "out"}, left[k][field] # None
  PROVE  Used(Len(accepted), SignOf(field))
<1> DEFINE n == Len(pool) + 1 - k
           was == IF n \in DOMAIN pool THEN pool[n] ELSE NoFields
<1>1. left[k] \in [in : IF was.in THEN Name ELSE {None}, out : IF was.out THEN Name ELSE {None}]
  BY DEF Lefts, Leftovers
<1> HIDE DEF was
<1>2. was[field]
  <2>1. CASE field = "in"
    BY <1>1, <2>1
  <2>2. CASE field = "out"
    BY <1>1, <2>2
  <2>3. QED
    BY <2>1, <2>2
<1>3. n \in DOMAIN pool /\ pool[n][field]
  <2>1. ~NoFields[field]
    BY DEF NoFields
  <2>2. QED
    BY <1>2, <2>1 DEF was
<1> HIDE DEF n
<1>4. QED
  BY <1>3 DEF PoolUsed

LEMMA ReadLineWritten ==
  ASSUME ShellInv, HistoryInv, NodesInv, ReadLine
  PROVE  NodesInv'
<1>1. pc[Shell] = "read" /\ inbuf \in Text
  BY DEF ReadLine, ShellInv, Types, Pcs
<1>2. CASE UNCHANGED <<pc, parse>>
  BY <1>2, NodesStay DEF parse
<1>3. ASSUME NEW line \in IF inbuf # <<>> THEN {Head(inbuf)} ELSE Lines, NEW left \in Lefts(line),
             Remember(line), Begin(split_line(line, left))
      PROVE  NodesInv'
  <2> DEFINE nodes == split_line(line, left)
             n == Len(accepted)
  <2>1. line \in Line
    BY <1>1, <1>3, LineTyped
  <2>2. Sound(nodes) /\ cmd' = nodes
    BY <1>3, <2>1, ParseTyped DEF Begin
  <2>3. /\ \A sign : /\ Used(n, sign) => Used(n, sign)'
                     /\ Used(n, sign) => Used(n - 1, sign)'
        /\ accepted' # <<>> /\ accepted'[Len(accepted')] = line
    BY <1>3, <2>1, UsedMore
  <2>4. PoolUsed /\ PoolUsed'
    BY <1>3, <2>2, <2>3, TakenUsed DEF NodesInv
  <2>5. Nodes(line) \in Nat
    BY <2>1, BarsAre
  <2>6. /\ Len(nodes) = Nodes(line) /\ DOMAIN nodes = 1 .. Nodes(line)
        /\ \A k \in 1 .. Nodes(line) :
             /\ nodes[k].args = Arguments(line, k)
             /\ \A field \in {"in", "out"} : nodes[k][field] = Field(line, left, k, field)
    BY <2>1, <2>2, SplitIs DEF Sound
  <2> HIDE DEF nodes, n
  <2>7. ASSUME NEW k \in 1 .. Nodes(line), NEW field \in {"in", "out"}
        PROVE  IF Signs(line, k, SignOf(field)) # {}
               THEN nodes[k][field] = FileOf(line, k, SignOf(field))
               ELSE nodes[k][field] # None => k > 1 /\ Used(n - 1, SignOf(field))'
    <3>1. nodes[k][field] = Field(line, left, k, field)
      BY <2>6
    <3>2. CASE Signs(line, k, SignOf(field)) # {}
      BY <3>1, <3>2 DEF Field
    <3>3. ASSUME Signs(line, k, SignOf(field)) = {}, nodes[k][field] # None
          PROVE  k > 1 /\ Used(n - 1, SignOf(field))'
      <4>1. k # 1 /\ left[k][field] # None
        BY <3>1, <3>3 DEF Field
      <4>2. Used(n, SignOf(field))
        BY <1>3, <2>4, <2>5, <4>1, LeftUsed DEF n
      <4>3. Used(n, SignOf(field)) => Used(n - 1, SignOf(field))'
        BY <2>3
      <4>4. k > 1
        BY <2>5, <4>1
      <4>5. QED
        BY <4>2, <4>3, <4>4
    <3>4. QED
      BY <3>2, <3>3
  <2>8. AsWritten'
    BY <2>2, <2>3, <2>6, <2>7 DEF AsWritten, SignOf, n
  <2>9. QED
    BY <2>4, <2>8 DEF NodesInv
<1>4. QED
  BY <1>2, <1>3 DEF ReadLine

\* A line of one plain word; a line of no words.
LEMMA PlainSplit ==
  ASSUME NEW left
  PROVE  /\ split_line(<<>>, left)[1].args = <<>> /\ Len(split_line(<<>>, left)) = 1
         /\ LET nodes == split_line(<<Garbage>>, left) IN
              /\ Len(nodes) = 1 /\ nodes[1].args = <<Garbage>>
              /\ nodes[1].in = None /\ nodes[1].out = None
<1> DEFINE e == <<>>
           g == <<Garbage>>
<1>1. e \in Line /\ Garbage \in Word /\ g \in Line /\ g = Append(e, Garbage) /\ 1 \in 1 .. 1 /\ 1 \in Nat
  BY Words DEF Garbage, Word
<1>2. /\ Nodes(e) = 1 /\ Pending(e) = None /\ Arguments(e, 1) = <<>>
      /\ \A field \in {"in", "out"} : Field(e, left, 1, field) = None
  <2>1. Parsed(e, left, Start)
    BY ParsedStart
  <2>2. /\ Start.operand = None /\ Len(Start.nodes) = 1 /\ Start.nodes[1] = NewNode(Initialised)
        /\ NewNode(Initialised).args = <<>>
        /\ \A field \in {"in", "out"} : NewNode(Initialised)[field] = None
    BY DEF Start, NewNode, Initialised
  <2> HIDE DEF e
  <2>3. QED
    BY <1>1, <2>1, <2>2 DEF Parsed
<1> HIDE DEF e
<1>3. /\ IsArgument(e, Garbage) /\ ~EndsCommand(e, Garbage)
      /\ \A field \in {"in", "out"} : Pending(e) # field /\ First(Garbage) # SignOf(field)
  BY <1>2, GarbageAssumption DEF IsArgument, EndsCommand, None, SignOf
<1>4. Append(<<>>, Garbage) = <<Garbage>>
  OBVIOUS
<1> HIDE DEF g
<1>5. Nodes(g) = 1
  BY <1>1, <1>2, <1>3, BarsMore
<1>6. Arguments(g, 1) = <<Garbage>>
  BY <1>1, <1>2, <1>3, <1>4, ArgumentsMore
<1>7. \A field \in {"in", "out"} : Field(g, left, 1, field) = None
  BY <1>1, <1>2, <1>3, FieldMore
<1> DEFINE s(line) == split_line(line, left)
<1>8. ASSUME NEW line \in Line, Nodes(line) = 1
       PROVE  /\ Len(s(line)) = 1 /\ s(line)[1].args = Arguments(line, 1)
             /\ \A field \in {"in", "out"} : s(line)[1][field] = Field(line, left, 1, field)
  <2>1. /\ Len(s(line)) = Nodes(line)
        /\ \A k \in 1 .. Nodes(line) :
             /\ s(line)[k].args = Arguments(line, k)
             /\ \A field \in {"in", "out"} : s(line)[k][field] = Field(line, left, k, field)
    BY SplitIs
  <2>2. 1 \in 1 .. Nodes(line)
    BY <1>8
  <2> HIDE DEF s
  <2>3. QED
    BY <1>8, <2>1, <2>2
<1> HIDE DEF s
<1>9. Len(s(e)) = 1 /\ s(e)[1].args = <<>>
  BY <1>1, <1>2, <1>8
<1>10. /\ Len(s(g)) = 1 /\ s(g)[1].args = <<Garbage>>
      /\ \A field \in {"in", "out"} : s(g)[1][field] = None
  BY <1>1, <1>5, <1>6, <1>7, <1>8
<1>11. s(g)[1].in = None /\ s(g)[1].out = None
  BY <1>10
<1>12. QED
  BY <1>9, <1>10, <1>11 DEF e, g, s

LEMMA ReadNothingWritten ==
  ASSUME ShellInv, HistoryInv, NodesInv, ReadNothing
  PROVE  NodesInv'
<1> DEFINE split(line) == split_line(line, <<Initialised>>)
<1>1. PICK line \in {<<>>, <<Garbage>>} :
        Begin(split(line)) /\ (NoCommand(split(line)) \/ StartExternal(split(line)))
  BY DEF ReadNothing
<1>2. UNCHANGED accepted /\ pc \in [Proc -> Pcs]
  BY DEF ReadNothing, ShellInv, Types
<1>3. PoolUsed'
  <2>1. line \in Line
    BY <1>1, Words
  <2>2. Sound(split(line))
    BY <2>1, ParseTyped
  <2>3. \A sign : Used(Len(accepted), sign) => Used(Len(accepted), sign)'
    BY <1>2 DEF Used
  <2> HIDE DEF split
  <2>4. QED
    BY <1>1, <2>2, <2>3, TakenUsed DEF NodesInv
<1>4. CASE line = <<>>
  <2>1. Len(split(line)) = 1 /\ split(line)[1].args = <<>>
    BY <1>4, PlainSplit
  <2>2. NoCommand(split(line))
    BY <1>1, <2>1 DEF StartExternal
  <2>3. pc'[Shell] = "ended"
    BY <1>2, <2>2, ProcIs DEF NoCommand, Leave, Gone
  <2>4. QED
    BY <1>3, <2>3 DEF NodesInv, Idle
<1>5. CASE line = <<Garbage>>
  <2>1. /\ Len(split(line)) = 1 /\ split(line)[1].args = <<Garbage>>
        /\ split(line)[1].in = None /\ split(line)[1].out = None
    BY <1>5, PlainSplit
  <2>2. cmd' = split(line)
    BY <1>1 DEF Begin
  <2> HIDE DEF split
  <2>3. MadeUp'
    BY <2>1, <2>2 DEF MadeUp
  <2>4. QED
    BY <1>3, <2>3 DEF NodesInv
<1>6. QED
  BY <1>1, <1>4, <1>5

LEMMA RedirectionWritten ==
  ASSUME ShellInv, NodesInv, NEW p \in Proc, Redirection(p)
  PROVE  NodesInv'
<1>1. UNCHANGED <<cmd, pool, accepted>> /\ pc[p] \in {"redirect", "output", "create", "asked"}
  BY DEF Redirection, RedirectIn, RedirectOut, Create, Ask, Answer, parse
<1>2. \/ UNCHANGED pc
      \/ \E q : pc' = [pc EXCEPT ![p] = q]
  BY DEF Redirection, RedirectIn, RedirectOut, Create, Ask, Answer, Reply, Proceed, Leave
<1>3. CASE p = Shell
  BY <1>1, <1>3, NodesStay DEF Idle
<1>4. CASE p # Shell
  BY <1>1, <1>2, <1>4, ProcIs, NodesStay DEF ShellInv, Types
<1>5. QED
  BY <1>3, <1>4

LEMMA ChildWritten ==
  ASSUME ShellInv, NodesInv, NEW k \in Child, Copy(k) \/ ReadsEnd(k)
  PROVE  NodesInv'
<1>1. UNCHANGED <<cmd, pool, accepted>>
  BY DEF Copy, ReadsEnd, parse
<1>2. \E q : pc' = [pc EXCEPT ![k] = q]
  BY DEF Copy, ReadsEnd, Copies, Leave
<1>3. QED
  BY <1>1, <1>2, ProcIs, NodesStay DEF ShellInv, Types

LEMMA StepWrites == ShellInv /\ HistoryInv /\ NodesInv /\ [Next]_vars => NodesInv'
<1> SUFFICES ASSUME ShellInv, HistoryInv, NodesInv, [Next]_vars PROVE NodesInv'
  OBVIOUS
<1>1. pc \in [Proc -> Pcs] /\ Sound(cmd) /\ Shell \in Proc
  BY ProcIs DEF ShellInv, Types
<1>2. CASE ReadLine
  BY <1>2, ReadLineWritten
<1>3. CASE ReadNothing
  BY <1>3, ReadNothingWritten
<1>4. CASE Redirection(Shell)
  BY <1>1, <1>4, RedirectionWritten
<1>5. CASE RunBuiltin
  <2>1. pc[Shell] = "run" /\ pc'[Shell] \in Idle /\ FreeNodes /\ UNCHANGED accepted
    BY <1>1, <1>5 DEF RunBuiltin, Idle
  <2>2. QED
    BY <1>1, <2>1, FreedUsed DEF Idle
<1>6. CASE SpawnProc \/ ForkNode \/ CloseEnds
  <2>1. pc[Shell] \notin Idle /\ UNCHANGED <<cmd, pool, accepted>>
    BY <1>6 DEF SpawnProc, ForkNode, CloseEnds, Idle, parse
  <2>2. QED
    BY <2>1, NodesStay
<1>7. CASE ForkFails
  <2>1. pc[Shell] = "fork" /\ pc'[Shell] \in Idle /\ UNCHANGED accepted
    BY <1>1, <1>7 DEF ForkFails, Leave, Gone, Idle
  <2>2. CASE FreeNodes
    BY <1>1, <2>1, <2>2, FreedUsed DEF Idle
  <2>3. CASE UNCHANGED <<cmd, pool>>
    BY <2>1, <2>3, NodesStay
  <2>4. QED
    BY <1>7, <2>2, <2>3 DEF ForkFails
<1>8. CASE WaitChildren
  <2>1. pc[Shell] = "wait" /\ pc'[Shell] \in Idle /\ FreeNodes /\ UNCHANGED accepted
    BY <1>1, <1>8 DEF WaitChildren, Idle
  <2>2. QED
    BY <1>1, <2>1, FreedUsed DEF Idle
<1>9. ASSUME NEW k \in Child, ChildStep(k) PROVE NodesInv'
  <2>1. CASE Redirection(k)
    BY <2>1, ProcIs, RedirectionWritten
  <2>2. CASE Copy(k) \/ ReadsEnd(k)
    BY <2>2, ChildWritten
  <2>3. QED
    BY <1>9, <2>1, <2>2 DEF ChildStep
<1>10. CASE UNCHANGED vars
  BY <1>10, NodesStay DEF vars, parse
<1>11. QED
  BY <1>2, <1>3, <1>4, <1>5, <1>6, <1>7, <1>8, <1>9, <1>10 DEF Next, ShellStep, Ended

LEMMA NodesInvariant == Spec => []NodesInv
BY Invariant, InitNodesInv, StepWrites, PTL DEF Spec

\* However long a line is and wherever its bars and signs are, each command gets
\* the arguments and the redirections the line gives it; a redirection it does
\* not give it is one that malloc returns from an earlier line (command.c:60-84).
THEOREM ShellCommandsAsWritten == Spec => []CommandsAsWritten
<1>1. NodesInv => CommandsAsWritten
  BY DEF NodesInv, Idle, MadeUp, AsWritten, CommandsAsWritten, Used, SignOf
<1>2. QED
  BY <1>1, NodesInvariant, PTL

-----------------------------------------------------------------------------
(* What goes through a pipeline.                                           *)

Final == Len(cmd)
Program(k) == IF cmd[k].args = <<>> THEN None ELSE cmd[k].args[1]
Working == pc[Shell] \in {"fork", "close", "wait"}
Forked(k) == k \in Child /\ pc[k] # "none"
AtStep(k, steps) == k \in Child /\ pc[k] \in steps

\* s is the beginning of t.
Begins(s, t) == Len(s) <= Len(t) /\ \A i \in 1 .. Len(s) : s[i] = t[i]

\* What the k-th command has taken in when the commands have written w.
Taken(w, k) == IF Program(k) \in Filters THEN w[k] ELSE <<>>

\* A pipe holds what has been written to it and not been taken from it.
Flow(w) ==
  /\ w \in [1 .. Final -> Text]
  /\ \A k \in 1 .. Final :
       /\ ~Forked(k) \/ AtStep(k, {"redirect", "output", "create"}) => w[k] = <<>>
       /\ k < Final /\ Forked(k) => w[k] = Taken(w, k + 1) \o pipe[k]
       /\ AtStep(k, {"run"}) => Program(k) \in Programs /\ (Program(k) # "cat" => w[k] = <<>>)

\* What the last command has written is where it goes.
Output(w) ==
  LET out == cmd[Final].out IN
  IF out = None THEN screen = w[Final]
  ELSE files[out] = IF AtStep(Final, {"run", "dead"}) THEN w[Final] ELSE Absent

Input(w) == keyed \in Text /\ (cmd[1].in = None => keyed = Taken(w, 1))

\* A command that has not ended holds its ends of the pipes.
Holds(w) ==
  \A k \in Child : pc[k] \in Active =>
    /\ pc[k] # "asked"
    /\ fds[k][0] = IF k > 1 THEN ReadEnd(k - 1)
                   ELSE IF cmd[1].in = None \/ pc[1] = "redirect" THEN Tty
                   ELSE FileAt(cmd[1].in, Len(Taken(w, 1)))
    /\ fds[k][1] = IF k < Final THEN WriteEnd(k)
                   ELSE IF cmd[k].out = None \/ pc[k] # "run" THEN Tty
                   ELSE FileAt(cmd[k].out, Len(w[k]))

\* The commands are forked in their order.
Forks ==
  /\ pc[Shell] = "fork" => \A k \in 1 .. current - 1 : Forked(k)
  /\ pc[Shell] = "close" => \A k \in 1 .. current : Forked(k)
  /\ pc[Shell] = "wait" => Final >= 1 /\ \A k \in 1 .. Final : Forked(k)

OneWritten == \A f \in Name : f # cmd[Final].out => files[f] = before[f]

\* All that the first command may yet have for its input.
Sources ==
  IF cmd[1].in # None THEN {before[cmd[1].in]}
  ELSE IF AtStep(1, {"dead"}) THEN {keyed} ELSE {keyed \o more : more \in Text}

\* e[k] is what the first k commands make of the source e[0].
Composes(e) ==
  /\ e \in [0 .. Final -> Text]
  /\ e[0] \in Sources
  /\ \A k \in 1 .. Final : e[k] = Passed(Program(k), e[k - 1])

\* No command goes wrong, and one that ends early does so because the next has ended.
Follows(w, e) ==
  \A k \in 1 .. Final :
    /\ Begins(w[k], e[k])
    /\ AtStep(k, {"dead"}) => w[k] = e[k] \/ (k < Final /\ AtStep(k + 1, {"dead"}))

Pipes(w) ==
  /\ Flow(w) /\ Output(w) /\ Input(w) /\ Holds(w) /\ Forks /\ OneWritten
  /\ \A e : Composes(e) => Follows(w, e)

PipeInv == Working /\ Plain => \E w : Pipes(w)

-----------------------------------------------------------------------------
\* Texts that begin others, and texts joined.
LEMMA BeginsAgain ==
  ASSUME NEW s \in Text, NEW t \in Text, NEW u \in Text, Begins(s, t), Begins(t, u)
  PROVE  Begins(s, u)
<1>1. Len(s) \in Nat /\ Len(t) \in Nat /\ Len(u) \in Nat
  BY DEF Text
<1>2. QED
  BY <1>1 DEF Begins

LEMMA BeginsAll ==
  ASSUME NEW s \in Text, NEW t \in Text, Begins(s, t), Len(t) <= Len(s)
  PROVE  s = t
BY DEF Begins, Text

LEMMA Joined ==
  ASSUME NEW s \in Text, NEW t \in Text
  PROVE  /\ s \o t \in Text /\ Len(s \o t) = Len(s) + Len(t) /\ Begins(s, s \o t)
         /\ t = <<>> => s \o t = s
<1>1. /\ Len(s) \in Nat /\ Len(t) \in Nat /\ s \o t \in Text /\ Len(s \o t) = Len(s) + Len(t)
      /\ \A i \in 1 .. Len(s) + Len(t) : (s \o t)[i] = IF i <= Len(s) THEN s[i] ELSE t[i - Len(s)]
  BY ConcatProperties DEF Text
<1>2. Begins(s, s \o t)
  BY <1>1 DEF Begins
<1>3. t = <<>> => s \o t = s
  BY ConcatEmptySeq DEF Text
<1>4. QED
  BY <1>1, <1>2, <1>3

LEMMA JoinedAgain ==
  ASSUME NEW s \in Text, NEW t \in Text, NEW u \in Text
  PROVE  (s \o t) \o u = s \o (t \o u)
BY ConcatAssociative DEF Text

LEMMA NothingBegins ==
  ASSUME NEW t \in Text
  PROVE  <<>> \in Text /\ Begins(<<>>, t) /\ Begins(t, t) /\ (Len(t) = 0 <=> t = <<>>) /\ Len(t) \in Nat
BY DEF Begins, Text

LEMMA ProgramsAre ==
  /\ Filters = {"cat", "head"} /\ Programs = {"cat", "head", "ls"}
  /\ "cat" # "head" /\ "cat" # "ls" /\ "head" # "ls"
BY DEF Filters, Programs

\* What the programs make of a text.
LEMMA PassedIs ==
  ASSUME NEW t \in Text
  PROVE  /\ Passed("cat", t) = t
         /\ Passed("head", t) = IF t = <<>> THEN <<>> ELSE <<t[1]>>
         /\ Passed("ls", t) = <<Notice>>
         /\ \A p : p \notin Programs => Passed(p, t) = <<>>
         /\ \A p : Passed(p, t) \in Text
<1>1. Len(t) \in Nat /\ (Len(t) = 0 <=> t = <<>>)
  BY NothingBegins
<1>2. Min({1, Len(t)}) = IF t = <<>> THEN 0 ELSE 1
  <2> DEFINE n == Len(t)
  <2>1. n \in Nat /\ (n = 0 <=> t = <<>>)
    BY <1>1
  <2> HIDE DEF n
  <2>2. \E x \in {1, n} : \A y \in {1, n} : x <= y
    <3>1. CASE n = 0
      BY <3>1
    <3>2. CASE n # 0
      BY <2>1, <3>2
    <3>3. QED
      BY <3>1, <3>2
  <2>3. Min({1, n}) \in {1, n} /\ Min({1, n}) <= 1 /\ Min({1, n}) <= n
    BY <2>2 DEF Min
  <2>4. Min({1, n}) = IF t = <<>> THEN 0 ELSE 1
    BY <2>1, <2>3
  <2>5. QED
    BY <2>4 DEF n
<1>3. SubSeq(t, 1, Min({1, Len(t)})) = IF t = <<>> THEN <<>> ELSE <<t[1]>>
  <2>1. CASE t = <<>>
    BY <1>2, <2>1
  <2>2. CASE t # <<>>
    <3>1. SubSeq(t, 1, 1) = <<t[1]>>
      <4>1. t \in Seq(Line) /\ 1 \in 1 .. Len(t)
        BY <1>1, <2>2 DEF Text
      <4> DEFINE u == SubSeq(t, 1, 1)
      <4>2. u \in Seq(Line) /\ Len(u) = 1 /\ u[1] = t[1]
        BY <4>1
      <4> HIDE DEF u
      <4>3. u = <<t[1]>>
        BY <4>2
      <4>4. QED
        BY <4>3 DEF u
    <3>2. QED
      BY <1>2, <2>2, <3>1
  <2>3. QED
    BY <2>1, <2>2
<1>4. t # <<>> => <<t[1]>> \in Text
  BY <1>1 DEF Text
<1>5. QED
  BY <1>3, <1>4, Words, ProgramsAre DEF Passed

-----------------------------------------------------------------------------
(* The ends of the pipes.                                                  *)

\* A forked command is one of the line, and so are those before it; the next one is there,
\* or being forked, or there is none.
LEMMA ForkedIs ==
  ASSUME ShellInv, Working, Forks, NEW k \in Child, pc[k] # "none"
  PROVE  /\ k \in 1 .. Final /\ k \in Nat /\ Final \in Nat /\ DOMAIN cmd = 1 .. Final
         /\ pc[k] \in Active \cup {"dead"} /\ \A j \in 1 .. k - 1 : Forked(j)
         /\ \/ Forked(k + 1)
            \/ pc[Shell] = "fork" /\ current = k + 1
            \/ pc[Shell] = "close" /\ current = k
            \/ k = Final
<1>1. /\ k \in Nat /\ k >= 1 /\ Final \in Nat /\ Children /\ Forking /\ DOMAIN cmd = 1 .. Final
  BY ProcIs DEF ShellInv, Types, Sound, Final
<1>2. /\ pc[k] \in Active \cup {"none", "dead"} /\ k <= Final
      /\ pc[Shell] = "fork" => k < current
      /\ pc[Shell] = "close" => k <= current
  BY <1>1 DEF Children, Final
<1>3. pc[Shell] \in {"fork", "close"} => current \in Nat /\ current <= Final
  BY <1>1 DEF Forking, Final
<1>4. CASE pc[Shell] = "fork"
  <2>1. \A j \in 1 .. current - 1 : Forked(j)
    BY <1>4 DEF Forks
  <2>2. QED
    BY <1>1, <1>2, <1>3, <1>4, <2>1
<1>5. CASE pc[Shell] = "close"
  <2>1. \A j \in 1 .. current : Forked(j)
    BY <1>5 DEF Forks
  <2>2. QED
    BY <1>1, <1>2, <1>3, <1>5, <2>1
<1>6. CASE pc[Shell] = "wait"
  <2>1. \A j \in 1 .. Final : Forked(j)
    BY <1>6 DEF Forks
  <2>2. QED
    BY <1>1, <1>2, <1>6, <2>1
<1>7. QED
  BY <1>4, <1>5, <1>6 DEF Working

\* Who gets SIGPIPE writes to a command that has ended.
LEMMA NextDead ==
  ASSUME ShellInv, Working, NEW w, Forks, Holds(w), NEW k \in Child, pc[k] \in Active,
         k < Final, Readers(k) = {}
  PROVE  AtStep(k + 1, {"dead"})
<1>1. pc[k] # "none"
  BY DEF Active
<1>2. k \in Nat /\ k >= 1 /\ Forking /\ Shell \in Proc /\ Child \subseteq Proc
  BY ProcIs DEF ShellInv
<1>3. \A p \in Proc, fd \in Fd : fds[p][fd] # ReadEnd(k)
  BY DEF Readers
<1>4. ~(pc[Shell] = "fork" /\ current = k + 1)
  <2> SUFFICES ASSUME pc[Shell] = "fork", current = k + 1 PROVE FALSE
    OBVIOUS
  <2>1. fds[Shell] = With(in_fd, 0, 0) /\ in_fd \in {3, 4} /\ current - 1 = k
    BY <1>2 DEF Forking
  <2>2. With(in_fd, 0, 0)[in_fd] = ReadEnd(current - 1)
    BY <2>1, WithIs
  <2>3. QED
    BY <1>2, <1>3, <2>1, <2>2, PlainTables
<1>5. ~(pc[Shell] = "close" /\ current = k)
  <2> SUFFICES ASSUME pc[Shell] = "close", current = k PROVE FALSE
    OBVIOUS
  <2> DEFINE r == pipe_fd[1]
  <2>1. /\ r \in {3, 4} /\ r # in_fd /\ in_fd \in {0, 3, 4}
        /\ fds[Shell] = With(in_fd, r, pipe_fd[2])
    BY <1>2 DEF Forking, Final
  <2> HIDE DEF r
  <2>2. With(in_fd, r, pipe_fd[2])[r] = ReadEnd(current)
    BY <2>1, WithIs
  <2>3. QED
    BY <1>2, <1>3, <2>1, <2>2, PlainTables
<1>6. Forked(k + 1)
  <2>1. k # Final
    BY <1>2
  <2>2. QED
    BY <1>1, <1>4, <1>5, <2>1, ForkedIs
<1>7. pc[k + 1] \notin Active
  <2> SUFFICES ASSUME pc[k + 1] \in Active PROVE FALSE
    OBVIOUS
  <2>1. k + 1 \in Child /\ k + 1 > 1 /\ (k + 1) - 1 = k
    BY <1>2, <1>6 DEF Forked
  <2>2. fds[k + 1][0] = ReadEnd(k)
    BY <2>1 DEF Holds
  <2>3. QED
    BY <1>2, <1>3, <2>1, <2>2, PlainTables
<1>8. pc[k + 1] \in Active \cup {"dead"}
  BY <1>6, ForkedIs DEF Forked
<1>9. QED
  BY <1>6, <1>7, <1>8 DEF AtStep, Forked

\* Who finds the end of the input reads from a command that has ended.
LEMMA LastDead ==
  ASSUME ShellInv, Working, NEW w, Forks, Holds(w), NEW k \in Child, pc[k] \in Active,
         k > 1, Writers(k - 1) = {}
  PROVE  AtStep(k - 1, {"dead"})
<1>1. pc[k] # "none"
  BY DEF Active
<1>2. k \in 1 .. Final /\ k \in Nat /\ Final \in Nat /\ \A j \in 1 .. k - 1 : Forked(j)
  BY <1>1, ForkedIs
<1>3. Forked(k - 1) /\ k - 1 < Final
  BY <1>2
<1>4. pc[k - 1] \in Active \cup {"dead"}
  BY <1>3, ForkedIs DEF Forked
<1>5. pc[k - 1] \notin Active
  <2> SUFFICES ASSUME pc[k - 1] \in Active PROVE FALSE
    OBVIOUS
  <2>1. fds[k - 1][1] = WriteEnd(k - 1)
    BY <1>3 DEF Holds, Forked
  <2>2. QED
    BY <1>3, <2>1, ProcIs, PlainTables DEF Writers, Forked
<1>6. QED
  BY <1>3, <1>4, <1>5 DEF AtStep, Forked

-----------------------------------------------------------------------------
(* A command's step.                                                       *)

\* A step of one command leaves the others and the shell where they are.
LEMMA Apart ==
  ASSUME ShellInv, NEW k \in Child, NEW q, NEW t,
         pc' = [pc EXCEPT ![k] = q], fds' = [fds EXCEPT ![k] = t]
  PROVE  /\ pc'[k] = q /\ fds'[k] = t /\ pc'[Shell] = pc[Shell] /\ fds'[Shell] = fds[Shell]
         /\ \A j \in Child : j # k => pc'[j] = pc[j] /\ fds'[j] = fds[j]
BY ProcIs DEF ShellInv, Types, Tables

\* While the terminal is read, fewer inputs remain possible.
LEMMA FewerSources ==
  ASSUME UNCHANGED <<cmd, before>>, AtStep(1, {"dead"}) => AtStep(1, {"dead"})' /\ keyed' = keyed,
         cmd[1].in = None => keyed \in Text /\ \E l \in Text : keyed' = keyed \o l, NEW e
  PROVE  Composes(e)' => Composes(e)
<1> SUFFICES ASSUME Composes(e)' PROVE Composes(e)
  OBVIOUS
<1>1. e[0] \in Sources'
  BY DEF Composes
<1>2. e[0] \in Sources
  <2>1. CASE cmd[1].in # None
    BY <1>1, <2>1 DEF Sources
  <2>2. CASE cmd[1].in = None
    <3>1. PICK l \in Text : keyed' = keyed \o l
      BY <2>2
    <3>2. CASE AtStep(1, {"dead"})
      BY <1>1, <2>2, <3>2 DEF Sources
    <3>3. CASE ~AtStep(1, {"dead"})
      <4>1. Sources = {keyed \o more : more \in Text}
        BY <2>2, <3>3 DEF Sources
      <4>2. CASE AtStep(1, {"dead"})'
        <5>1. e[0] = keyed \o l
          BY <1>1, <2>2, <3>1, <4>2 DEF Sources
        <5>2. QED
          BY <4>1, <5>1
      <4>3. CASE ~AtStep(1, {"dead"})'
        <5>1. PICK more \in Text : e[0] = (keyed \o l) \o more
          BY <1>1, <2>2, <3>1, <4>3 DEF Sources
        <5>2. (keyed \o l) \o more = keyed \o (l \o more)
          BY <2>2, JoinedAgain
        <5>3. l \o more \in Text
          BY Joined
        <5>4. QED
          BY <4>1, <5>1, <5>2, <5>3
      <4>4. QED
        BY <4>2, <4>3
    <3>4. QED
      BY <3>2, <3>3
  <2>3. QED
    BY <2>1, <2>2
<1>3. QED
  BY <1>2 DEF Composes, Final, Program

\* What a step of a command has to keep when v is what the commands have written after it.
LEMMA Moves ==
  ASSUME ShellInv, Working, NEW w, Pipes(w), NEW k \in Child, pc[k] \in Active,
         NEW q \in {"output", "create", "run", "dead"}, NEW t,
         pc' = [pc EXCEPT ![k] = q], fds' = [fds EXCEPT ![k] = t],
         UNCHANGED <<cmd, before, current>>,
         NEW v \in [1 .. Final -> Text], \A j \in 1 .. Final : j # k => v[j] = w[j],
         q \in {"output", "create"} => v[k] = <<>>,
         q = "run" => Program(k) \in Programs /\ (Program(k) # "cat" => v[k] = <<>>),
         \A j \in 1 .. Final : j < Final /\ Forked(j) => v[j] = Taken(v, j + 1) \o pipe'[j],
         Output(v)', Input(v)', OneWritten',
         q # "dead" =>
           /\ t[0] = IF k > 1 THEN ReadEnd(k - 1)
                     ELSE IF cmd[1].in = None THEN Tty ELSE FileAt(cmd[1].in, Len(Taken(v, 1)))
           /\ t[1] = IF k < Final THEN WriteEnd(k)
                     ELSE IF cmd[k].out = None \/ q # "run" THEN Tty
                     ELSE FileAt(cmd[k].out, Len(v[k])),
         \A e : Composes(e)' => Composes(e),
         \A e : Composes(e)' =>
           /\ Begins(v[k], e[k])
           /\ q = "dead" => v[k] = e[k] \/ (k < Final /\ AtStep(k + 1, {"dead"}))
  PROVE  Pipes(v)'
<1>1. /\ Flow(w) /\ Holds(w) /\ Forks /\ \A e : Composes(e) => Follows(w, e)
  BY DEF Pipes
<1>2. pc[k] # "none" /\ pc[k] # "dead" /\ q # "none" /\ q # "redirect" /\ q # "asked"
  BY DEF Active
<1>3. k \in 1 .. Final /\ k \in Nat /\ Final \in Nat
  BY <1>1, <1>2, ForkedIs
<1>4. /\ pc'[k] = q /\ fds'[k] = t /\ pc'[Shell] = pc[Shell] /\ fds'[Shell] = fds[Shell]
      /\ \A j \in Child : j # k => pc'[j] = pc[j] /\ fds'[j] = fds[j]
  BY Apart, Zenon
<1>5. Final' = Final /\ \A j : Program(j)' = Program(j) /\ Taken(v, j)' = Taken(v, j)
  BY DEF Final, Program, Taken
<1>6. \A j : Forked(j)' <=> Forked(j)
  BY <1>2, <1>4 DEF Forked
<1>7. Flow(v)'
  <2>1. ASSUME NEW j \in 1 .. Final
        PROVE  /\ ~Forked(j)' \/ AtStep(j, {"redirect", "output", "create"})' => v[j] = <<>>
               /\ j < Final /\ Forked(j)' => v[j] = Taken(v, j + 1) \o pipe'[j]
               /\ AtStep(j, {"run"})' => Program(j) \in Programs /\ (Program(j) # "cat" => v[j] = <<>>)
    <3>1. CASE j = k
      <4>1. /\ Forked(k)'
            /\ AtStep(k, {"redirect", "output", "create"})' => q \in {"output", "create"}
            /\ AtStep(k, {"run"})' => q = "run"
        BY <1>2, <1>4 DEF Forked, AtStep
      <4>2. QED
        BY <1>6, <3>1, <4>1
    <3>2. CASE j # k
      <4>1. /\ AtStep(j, {"redirect", "output", "create"})' => AtStep(j, {"redirect", "output", "create"})
            /\ AtStep(j, {"run"})' => AtStep(j, {"run"})
        BY <1>4, <3>2 DEF AtStep
      <4>2. QED
        BY <1>1, <1>6, <3>2, <4>1 DEF Flow
    <3>3. QED
      BY <3>1, <3>2
  <2>2. QED
    BY <1>5, <2>1 DEF Flow
<1>8. Holds(v)'
  <2>1. ASSUME NEW j \in Child, pc'[j] \in Active
        PROVE  /\ pc'[j] # "asked"
               /\ fds'[j][0] = IF j > 1 THEN ReadEnd(j - 1)
                               ELSE IF cmd[1].in = None \/ pc'[1] = "redirect" THEN Tty
                               ELSE FileAt(cmd[1].in, Len(Taken(v, 1)))
               /\ fds'[j][1] = IF j < Final THEN WriteEnd(j)
                               ELSE IF cmd[j].out = None \/ pc'[j] # "run" THEN Tty
                               ELSE FileAt(cmd[j].out, Len(v[j]))
    <3>1. CASE j = k
      <4>1. q # "dead"
        BY <1>4, <2>1, <3>1 DEF Active
      <4>2. ~(k > 1) => k = 1
        BY <1>3
      <4>3. QED
        BY <1>2, <1>4, <3>1, <4>1, <4>2
    <3>2. CASE j # k
      <4>1. pc'[j] = pc[j] /\ fds'[j] = fds[j] /\ pc[j] \in Active /\ pc[j] # "none"
        BY <1>4, <2>1, <3>2 DEF Active
      <4>2. j \in 1 .. Final /\ v[j] = w[j]
        BY <1>1, <3>2, <4>1, ForkedIs
      <4>3. ~(j > 1) => j = 1 /\ Taken(v, 1) = Taken(w, 1) /\ pc'[1] = pc[1]
        BY <4>1, <4>2 DEF Taken
      <4>4. QED
        BY <1>1, <4>1, <4>2, <4>3 DEF Holds
    <3>3. QED
      BY <3>1, <3>2
  <2>2. QED
    BY <1>5, <2>1 DEF Holds
<1>9. Forks'
  BY <1>1, <1>4, <1>5, <1>6 DEF Forks
<1>10. ASSUME NEW e, Composes(e)' PROVE Follows(v, e)'
  <2>1. Follows(w, e)
    BY <1>1, <1>10
  <2>2. \A j \in 1 .. Final : AtStep(j + 1, {"dead"}) => AtStep(j + 1, {"dead"})'
    BY <1>2, <1>4 DEF AtStep
  <2>3. ASSUME NEW j \in 1 .. Final
        PROVE  /\ Begins(v[j], e[j])
               /\ AtStep(j, {"dead"})' => v[j] = e[j] \/ (j < Final /\ AtStep(j + 1, {"dead"})')
    <3>1. CASE j = k
      <4>1. AtStep(k, {"dead"})' => q = "dead"
        BY <1>4 DEF AtStep
      <4>2. QED
        BY <1>10, <2>2, <3>1, <4>1
    <3>2. CASE j # k
      <4>1. AtStep(j, {"dead"})' => AtStep(j, {"dead"})
        BY <1>4, <3>2 DEF AtStep
      <4>2. QED
        BY <2>1, <2>2, <3>2, <4>1 DEF Follows
    <3>3. QED
      BY <3>1, <3>2
  <2>4. QED
    BY <1>5, <2>3 DEF Follows
<1>11. QED
  BY <1>7, <1>8, <1>9, <1>10 DEF Pipes

\* What is known of a command that has not ended.
LEMMA CommandIs ==
  ASSUME ShellInv, Working, Plain, NEW w, Pipes(w), NEW k \in Child, pc[k] \in Active
  PROVE  /\ Flow(w) /\ Output(w) /\ Input(w) /\ Holds(w) /\ Forks /\ OneWritten
         /\ \A e : Composes(e) => Follows(w, e)
         /\ k \in 1 .. Final /\ k \in Nat /\ k >= 1 /\ Final \in Nat /\ Forked(k)
         /\ (~(k > 1) => k = 1) /\ (~(k < Final) => k = Final)
         /\ w \in [1 .. Final -> Text] /\ w[k] \in Text
         /\ k > 1 => cmd[k].in = None /\ k - 1 \in 1 .. Final /\ k - 1 \in Child /\ Forked(k - 1)
                     /\ (k - 1) + 1 = k /\ k - 1 < Final
         /\ k < Final => cmd[k].out = None
         /\ Node(k) = cmd[k] /\ k # Shell /\ k \in Proc
         /\ pc[k] \in {"redirect", "output", "create", "run"}
         /\ fds = [p \in Proc |-> fds[p]] /\ files \in [Name -> Text] /\ pipe \in [Child -> Text]
<1>1. /\ Flow(w) /\ Output(w) /\ Input(w) /\ Holds(w) /\ Forks /\ OneWritten
      /\ \A e : Composes(e) => Follows(w, e)
  BY DEF Pipes
<1>2. pc[k] # "none" /\ Forked(k)
  BY DEF Active, Forked
<1>3. /\ k \in 1 .. Final /\ k \in Nat /\ Final \in Nat
      /\ DOMAIN cmd = 1 .. Final /\ \A j \in 1 .. k - 1 : Forked(j)
  BY <1>1, <1>2, ForkedIs
<1>4. k >= 1 /\ (~(k > 1) => k = 1) /\ (~(k < Final) => k = Final)
      /\ (k > 1 => k - 1 \in 1 .. Final /\ k - 1 \in 1 .. k - 1 /\ (k - 1) + 1 = k /\ k - 1 < Final)
  BY <1>3
<1>5. k > 1 => Forked(k - 1) /\ k - 1 \in Child
  BY <1>3, <1>4 DEF Forked
<1>6. (k > 1 => cmd[k].in = None) /\ (k < Final => cmd[k].out = None)
  BY <1>3 DEF Plain, Final
<1>7. w \in [1 .. Final -> Text] /\ w[k] \in Text
  BY <1>1, <1>3 DEF Flow
<1>8. pc[k] \in {"redirect", "output", "create", "run"}
  BY <1>1 DEF Holds, Active
<1>9. k # Shell /\ k \in Proc
  BY ProcIs
<1>10. Node(k) = cmd[k]
  BY <1>9 DEF Node
<1>11. fds = [p \in Proc |-> fds[p]] /\ files \in [Name -> Text] /\ pipe \in [Child -> Text]
  BY DEF ShellInv, Types, Tables
<1>12. QED
  BY <1>1, <1>2, <1>3, <1>4, <1>5, <1>6, <1>7, <1>8, <1>9, <1>10, <1>11

\* A step that moves no line.
LEMMA MovesOnly ==
  ASSUME ShellInv, Working, Plain, NEW w, Pipes(w), NEW k \in Child, pc[k] \in Active,
         NEW q \in {"output", "create", "run", "dead"}, NEW t,
         pc' = [pc EXCEPT ![k] = q], fds' = [fds EXCEPT ![k] = t],
         UNCHANGED <<cmd, before, current, pipe, files, screen, keyed>>,
         q # "dead" => w[k] = <<>>,
         q = "run" => Program(k) \in Programs,
         k = Final /\ cmd[k].out # None =>
           (pc[k] = "run" /\ q = "dead") \/ (pc[k] # "run" /\ q \in {"output", "create"}),
         q # "dead" =>
           /\ t[0] = IF k > 1 THEN ReadEnd(k - 1)
                     ELSE IF cmd[1].in = None THEN Tty ELSE FileAt(cmd[1].in, 0)
           /\ t[1] = IF k < Final THEN WriteEnd(k) ELSE Tty,
         q = "dead" => \A e : Composes(e) /\ Composes(e)' =>
                         w[k] = e[k] \/ (k < Final /\ AtStep(k + 1, {"dead"}))
  PROVE  Pipes(w)'
<1>1. /\ Flow(w) /\ Output(w) /\ Input(w) /\ Holds(w) /\ Forks /\ OneWritten
      /\ \A e : Composes(e) => Follows(w, e)
      /\ k \in 1 .. Final /\ k \in Nat /\ Final \in Nat /\ Forked(k) /\ k >= 1
      /\ w \in [1 .. Final -> Text] /\ w[k] \in Text /\ (~(k > 1) => k = 1)
  BY CommandIs
<1>2. /\ pc'[k] = q /\ fds'[k] = t /\ pc'[Shell] = pc[Shell] /\ fds'[Shell] = fds[Shell]
      /\ \A j \in Child : j # k => pc'[j] = pc[j] /\ fds'[j] = fds[j]
  BY Apart, Zenon
<1>3. Output(w)'
  <2>1. Final' = Final
    BY DEF Final
  <2>2. cmd[Final].out # None => (AtStep(Final, {"run", "dead"})' <=> AtStep(Final, {"run", "dead"}))
    <3>1. CASE k = Final
      <4>1. pc[k] # "dead"
        BY DEF Active
      <4>2. QED
        BY <1>2, <2>1, <3>1, <4>1 DEF AtStep
    <3>2. CASE k # Final
      BY <1>2, <2>1, <3>2 DEF AtStep
    <3>3. QED
      BY <3>1, <3>2
  <2>3. QED
    BY <1>1, <2>1, <2>2 DEF Output
<1>4. Input(w)' /\ OneWritten'
  BY <1>1 DEF Input, OneWritten, Taken, Program, Final
<1>5. ASSUME NEW e, Composes(e)' PROVE Composes(e)
  <2>1. AtStep(1, {"dead"}) => AtStep(1, {"dead"})'
    <3>1. pc[k] # "dead"
      BY DEF Active
    <3>2. QED
      BY <1>2, <3>1 DEF AtStep
  <2>2. cmd[1].in = None => keyed \in Text /\ \E l \in Text : keyed' = keyed \o l
    <3> SUFFICES ASSUME cmd[1].in = None PROVE keyed \in Text /\ \E l \in Text : keyed' = keyed \o l
      OBVIOUS
    <3>1. 1 \in 1 .. Final
      BY <1>1
    <3>2. keyed \in Text
      BY <1>1, <3>1, Words DEF Input, Taken
    <3>3. keyed = keyed \o <<>> /\ <<>> \in Text
      BY <3>2, Joined, Words
    <3>4. QED
      BY <3>2, <3>3
  <2>3. QED
    BY <1>5, <2>1, <2>2, FewerSources
<1>6. ASSUME NEW e, Composes(e)'
      PROVE  /\ Begins(w[k], e[k])
             /\ q = "dead" => w[k] = e[k] \/ (k < Final /\ AtStep(k + 1, {"dead"}))
  BY <1>1, <1>5, <1>6 DEF Follows
<1>7. \A j \in 1 .. Final : j < Final /\ Forked(j) => w[j] = Taken(w, j + 1) \o pipe'[j]
  BY <1>1 DEF Flow
<1>8. q # "dead" => /\ Len(w[k]) = 0
                    /\ k = 1 => Len(Taken(w, 1)) = 0
  BY <1>1, Words, NothingBegins DEF Taken
<1>9. q # "dead" =>
        /\ t[0] = IF k > 1 THEN ReadEnd(k - 1)
                  ELSE IF cmd[1].in = None THEN Tty ELSE FileAt(cmd[1].in, Len(Taken(w, 1)))
        /\ t[1] = IF k < Final THEN WriteEnd(k)
                  ELSE IF cmd[k].out = None \/ q # "run" THEN Tty
                  ELSE FileAt(cmd[k].out, Len(w[k]))
  <2>1. ~(k < Final) => k = Final
    BY <1>1
  <2>2. k = Final /\ q = "run" => cmd[k].out = None
    OBVIOUS
  <2>3. QED
    BY <1>1, <1>8, <2>1, <2>2
<1>10. QED
  BY <1>1, <1>3, <1>4, <1>5, <1>6, <1>7, <1>9, Moves

\* The commands of a plain line open the file of <.
LEMMA RedirectInPipes ==
  ASSUME ShellInv, Working, Plain, NEW w, Pipes(w), NEW k \in Child, RedirectIn(k)
  PROVE  Pipes(w)'
<1>1. /\ pc[k] = "redirect" /\ pc[k] \in Active
      /\ UNCHANGED <<cmd, before, current, pipe, files, screen, keyed>>
  BY DEF RedirectIn, Active, parse, forking
<1>2. /\ Flow(w) /\ Holds(w) /\ OneWritten
      /\ k \in 1 .. Final /\ k \in Nat /\ Final \in Nat /\ k >= 1
      /\ k > 1 => cmd[k].in = None
      /\ Node(k) = cmd[k] /\ fds = [p \in Proc |-> fds[p]] /\ k \in Proc
      /\ (~(k > 1) => k = 1)
  BY <1>1, CommandIs
<1>3. w[k] = <<>>
  BY <1>1, <1>2 DEF Flow, AtStep
<1>4. /\ fds[k][0] = IF k > 1 THEN ReadEnd(k - 1) ELSE Tty
      /\ fds[k][1] = IF k < Final THEN WriteEnd(k) ELSE Tty
  BY <1>1, <1>2 DEF Holds
<1>5. CASE cmd[k].in = None
  <2>1. pc' = [pc EXCEPT ![k] = "output"] /\ fds' = fds
    BY <1>2, <1>5 DEF RedirectIn
  <2>2. fds' = [fds EXCEPT ![k] = fds[k]]
    BY <1>2, <2>1
  <2>3. fds[k][0] = IF k > 1 THEN ReadEnd(k - 1)
                    ELSE IF cmd[1].in = None THEN Tty ELSE FileAt(cmd[1].in, 0)
    BY <1>2, <1>4, <1>5
  <2>4. QED
    BY <1>1, <1>3, <1>4, <2>1, <2>2, <2>3, MovesOnly
<1>6. CASE cmd[k].in # None
  <2>1. k = 1 /\ cmd[1].in # None /\ cmd[1].in \in Name /\ before[cmd[1].in] # Absent
    BY <1>2, <1>6 DEF Plain
  <2>2. cmd[1].in # cmd[Final].out
    BY <2>1 DEF Plain, Final
  <2>3. Exists(cmd[1].in)
    BY <1>2, <2>1, <2>2 DEF Exists, OneWritten
  <2> DEFINE t == [fds[k] EXCEPT ![0] = FileAt(cmd[1].in, 0)]
  <2>4. pc' = [pc EXCEPT ![k] = "output"] /\ fds' = [fds EXCEPT ![k] = t]
    BY <1>2, <1>6, <2>1, <2>3 DEF RedirectIn
  <2>5. t[0] = FileAt(cmd[1].in, 0) /\ t[1] = fds[k][1]
    BY <1>1, <1>2, Has, PlainTables
  <2> HIDE DEF t
  <2>6. /\ t[0] = IF k > 1 THEN ReadEnd(k - 1)
                  ELSE IF cmd[1].in = None THEN Tty ELSE FileAt(cmd[1].in, 0)
        /\ t[1] = IF k < Final THEN WriteEnd(k) ELSE Tty
    BY <1>2, <1>4, <2>1, <2>5
  <2>7. QED
    BY <1>1, <1>3, <2>4, <2>6, MovesOnly
<1>7. QED
  BY <1>5, <1>6

\* Whoever redirects the output starts with nothing written.
LEMMA OutputFree ==
  ASSUME ShellInv, Working, Plain, NEW w, Pipes(w), NEW k \in Child,
         pc[k] \in {"output", "create"}
  PROVE  /\ w[k] = <<>> /\ ~(Node(k).out # None /\ MustAsk(k))
         /\ Node(k).out # None => k = Final /\ cmd[Final].out \in Name
<1>1. pc[k] \in Active
  BY DEF Active
<1>2. /\ Flow(w) /\ Output(w) /\ Node(k) = cmd[k] /\ k \in 1 .. Final
      /\ k < Final => cmd[k].out = None
      /\ ~(k < Final) => k = Final
  BY <1>1, CommandIs
<1>3. w[k] = <<>>
  BY <1>2 DEF Flow, AtStep
<1>4. ASSUME Node(k).out # None PROVE k = Final /\ cmd[Final].out \in Name /\ ~MustAsk(k)
  <2>1. k = Final
    BY <1>2, <1>4
  <2>2. ~AtStep(Final, {"run", "dead"}) /\ cmd[Final].out # None
    BY <1>2, <1>4, <2>1 DEF AtStep
  <2>3. files[cmd[Final].out] = Absent
    BY <1>2, <2>2 DEF Output
  <2>4. cmd[Final].out \in Name
    BY <2>2 DEF Plain, Final
  <2>5. QED
    BY <1>2, <2>1, <2>3, <2>4 DEF MustAsk, Exists
<1>5. QED
  BY <1>3, <1>4

\* Before it goes on to its program it has the ends of its pipes at 0 and 1.
LEMMA OutputHas ==
  ASSUME ShellInv, Working, Plain, NEW w, Pipes(w), NEW k \in Child,
         pc[k] \in {"output", "create"}
  PROVE  /\ fds[k][0] = IF k > 1 THEN ReadEnd(k - 1)
                        ELSE IF cmd[1].in = None THEN Tty ELSE FileAt(cmd[1].in, 0)
         /\ fds[k][1] = IF k < Final THEN WriteEnd(k) ELSE Tty
<1>1. pc[k] \in Active /\ pc[k] # "redirect" /\ pc[k] # "run"
  BY DEF Active
<1>2. Holds(w) /\ (~(k > 1) => k = 1) /\ k \in 1 .. Final
  BY <1>1, CommandIs
<1>3. w[k] = <<>>
  BY OutputFree
<1>4. k = 1 => Len(Taken(w, 1)) = 0
  BY <1>3, Words, NothingBegins DEF Taken
<1>5. QED
  BY <1>1, <1>2, <1>4 DEF Holds

\* A command goes on to its program, or there is none and it has nothing to write.
LEMMA Proceeds ==
  ASSUME ShellInv, Working, Plain, NEW w, Pipes(w), NEW k \in Child,
         pc[k] \in {"output", "create"}, NEW t, Proceed(k, t)
  PROVE  IF Program(k) \in Programs
         THEN pc' = [pc EXCEPT ![k] = "run"] /\ fds' = [fds EXCEPT ![k] = t]
         ELSE /\ pc' = [pc EXCEPT ![k] = "dead"] /\ fds' = [fds EXCEPT ![k] = NoTable]
              /\ \A e : Composes(e) => w[k] = e[k]
<1>1. pc[k] \in Active
  BY DEF Active
<1>2. k \in 1 .. Final /\ Node(k) = cmd[k] /\ k # Shell /\ k \in Nat /\ Final \in Nat
  BY <1>1, CommandIs
<1>3. w[k] = <<>> /\ None \notin Programs
  BY OutputFree, ProgramsAre DEF None
<1>4. ExecFails(k) <=> Program(k) \notin Programs
  BY <1>2, <1>3 DEF ExecFails, Program
<1>5. CASE Program(k) \in Programs
  BY <1>4, <1>5 DEF Proceed
<1>6. CASE Program(k) \notin Programs
  <2>1. pc' = [pc EXCEPT ![k] = "dead"] /\ fds' = [fds EXCEPT ![k] = NoTable]
    BY <1>2, <1>4, <1>6 DEF Proceed, Leave, Gone
  <2>2. ASSUME NEW e, Composes(e) PROVE w[k] = e[k]
    <3>1. e[k] = Passed(Program(k), e[k - 1]) /\ e[k - 1] \in Text
      BY <1>2, <2>2 DEF Composes
    <3>2. QED
      BY <1>3, <1>6, <3>1, PassedIs
  <2>3. QED
    BY <1>6, <2>1, <2>2
<1>7. QED
  BY <1>5, <1>6

\* They see that nobody need be asked for the file of >.
LEMMA RedirectOutPipes ==
  ASSUME ShellInv, Working, Plain, NEW w, Pipes(w), NEW k \in Child, RedirectOut(k)
  PROVE  Pipes(w)'
<1>1. /\ pc[k] = "output" /\ pc[k] \in Active
      /\ UNCHANGED <<cmd, before, current, pipe, files, screen, keyed>>
  BY DEF RedirectOut, Active, parse, forking
<1>2. Node(k) = cmd[k] /\ fds = [p \in Proc |-> fds[p]]
  BY <1>1, CommandIs
<1>3. w[k] = <<>>
  BY <1>1, OutputFree
<1>4. /\ fds[k][0] = IF k > 1 THEN ReadEnd(k - 1)
                     ELSE IF cmd[1].in = None THEN Tty ELSE FileAt(cmd[1].in, 0)
      /\ fds[k][1] = IF k < Final THEN WriteEnd(k) ELSE Tty
  BY <1>1, OutputHas
<1>5. CASE cmd[k].out = None /\ Proceed(k, fds[k])
  <2> DEFINE q == IF Program(k) \in Programs THEN "run" ELSE "dead"
             u == IF Program(k) \in Programs THEN fds[k] ELSE NoTable
  <2>1. /\ q \in {"run", "dead"}
        /\ pc' = [pc EXCEPT ![k] = q] /\ fds' = [fds EXCEPT ![k] = u]
        /\ q = "run" => u = fds[k] /\ Program(k) \in Programs
        /\ q = "dead" => \A e : Composes(e) => w[k] = e[k]
    BY <1>1, <1>5, Proceeds
  <2> HIDE DEF q, u
  <2>2. q # "dead" =>
          /\ u[0] = IF k > 1 THEN ReadEnd(k - 1)
                    ELSE IF cmd[1].in = None THEN Tty ELSE FileAt(cmd[1].in, 0)
          /\ u[1] = IF k < Final THEN WriteEnd(k) ELSE Tty
    BY <1>4, <2>1
  <2>3. q \in {"output", "create", "run", "dead"}
    BY <2>1
  <2>4. q = "dead" => \A e : Composes(e) /\ Composes(e)' =>
                        w[k] = e[k] \/ (k < Final /\ AtStep(k + 1, {"dead"}))
    BY <2>1
  <2>5. k = Final /\ cmd[k].out # None =>
          (pc[k] = "run" /\ q = "dead") \/ (pc[k] # "run" /\ q \in {"output", "create"})
    BY <1>5
  <2>6. QED
    BY <1>1, <1>3, <2>1, <2>2, <2>3, <2>4, <2>5, MovesOnly, Zenon
<1>6. CASE pc' = [pc EXCEPT ![k] = "create"] /\ UNCHANGED fds
  <2>1. fds' = [fds EXCEPT ![k] = fds[k]]
    BY <1>2, <1>6
  <2>2. QED
    BY <1>1, <1>3, <1>4, <1>6, <2>1, MovesOnly
<1>7. QED
  BY <1>2, <1>5, <1>6 DEF RedirectOut

\* They open the file of >.
LEMMA CreatePipes ==
  ASSUME ShellInv, Working, Plain, NEW w, Pipes(w), NEW k \in Child, Create(k)
  PROVE  Pipes(w)'
<1>1. /\ pc[k] = "create" /\ pc[k] \in Active
      /\ UNCHANGED <<cmd, before, current, pipe, screen, keyed>>
  BY DEF Create, Active, parse, forking
<1>2. /\ Flow(w) /\ Output(w) /\ Input(w) /\ Holds(w) /\ OneWritten
      /\ \A e : Composes(e) => Follows(w, e)
      /\ k \in 1 .. Final /\ k \in Nat /\ Final \in Nat /\ k >= 1 /\ Forked(k)
      /\ Node(k) = cmd[k] /\ fds = [p \in Proc |-> fds[p]] /\ k \in Proc
      /\ w \in [1 .. Final -> Text]
      /\ (~(k > 1) => k = 1) /\ (k < Final => cmd[k].out = None) /\ (~(k < Final) => k = Final)
  BY <1>1, CommandIs
<1>3. cmd[k].out # None
  BY <1>1, <1>2 DEF ShellInv, Owned, MayOpen
<1>4. w[k] = <<>> /\ k = Final /\ cmd[Final].out \in Name
  BY <1>1, <1>2, <1>3, OutputFree
<1>5. /\ fds[k][0] = IF k > 1 THEN ReadEnd(k - 1)
                     ELSE IF cmd[1].in = None THEN Tty ELSE FileAt(cmd[1].in, 0)
      /\ fds[k][1] = IF k < Final THEN WriteEnd(k) ELSE Tty
  BY <1>1, OutputHas
<1> DEFINE t == [fds[k] EXCEPT ![1] = FileAt(cmd[k].out, 0)]
<1>6. Proceed(k, t) /\ files' = [files EXCEPT ![cmd[k].out] = <<>>]
  BY <1>2 DEF Create, ToFile
<1>7. t[1] = FileAt(cmd[k].out, 0) /\ t[0] = fds[k][0]
  BY <1>1, <1>2, Has, PlainTables
<1> HIDE DEF t
<1> DEFINE q == IF Program(k) \in Programs THEN "run" ELSE "dead"
           u == IF Program(k) \in Programs THEN t ELSE NoTable
<1>8. /\ q \in {"run", "dead"}
      /\ pc' = [pc EXCEPT ![k] = q] /\ fds' = [fds EXCEPT ![k] = u]
      /\ q = "run" => u = t /\ Program(k) \in Programs
      /\ q = "dead" => \A e : Composes(e) => w[k] = e[k]
  BY <1>1, <1>6, Proceeds
<1> HIDE DEF q, u
<1> DEFINE out == cmd[Final].out
<1>9. out # None /\ out \in Name /\ files' = [files EXCEPT ![out] = <<>>]
  BY <1>3, <1>4, <1>6
<1>10. files \in [Name -> Text]
  BY DEF ShellInv, Types
<1> HIDE DEF out
<1>11. files'[out] = <<>> /\ \A f \in Name : f # out => files'[f] = files[f]
  BY <1>9, <1>10
<1>12. /\ pc'[k] = q /\ fds'[k] = u
       /\ \A j \in Child : j # k => pc'[j] = pc[j] /\ fds'[j] = fds[j]
  BY <1>8, Apart, Zenon
<1>13. Final' = Final /\ out' = out
  BY <1>1 DEF Final, out
<1>14. Output(w)'
  <2>1. AtStep(Final, {"run", "dead"})'
    BY <1>4, <1>8, <1>12, <1>13 DEF AtStep
  <2>2. QED
    BY <1>4, <1>9, <1>11, <1>13, <2>1 DEF Output, out
<1>15. Input(w)' /\ OneWritten'
  BY <1>1, <1>2, <1>11 DEF Input, OneWritten, Taken, Program, Final, out
<1>16. ASSUME NEW e, Composes(e)' PROVE Composes(e)
  <2>1. AtStep(1, {"dead"}) => AtStep(1, {"dead"})'
    BY <1>1, <1>12 DEF AtStep
  <2>2. cmd[1].in = None => keyed \in Text /\ \E l \in Text : keyed' = keyed \o l
    <3> SUFFICES ASSUME cmd[1].in = None PROVE keyed \in Text /\ \E l \in Text : keyed' = keyed \o l
      OBVIOUS
    <3>1. 1 \in 1 .. Final
      BY <1>2
    <3>2. keyed \in Text
      BY <1>2, <3>1, Words DEF Input, Taken
    <3>3. keyed = keyed \o <<>> /\ <<>> \in Text
      BY <3>2, Joined, Words
    <3>4. QED
      BY <1>1, <3>2, <3>3
  <2>3. QED
    BY <1>1, <1>16, <2>1, <2>2, FewerSources
<1>17. ASSUME NEW e, Composes(e)'
       PROVE  /\ Begins(w[k], e[k])
              /\ q = "dead" => w[k] = e[k] \/ (k < Final /\ AtStep(k + 1, {"dead"}))
  BY <1>2, <1>8, <1>16, <1>17 DEF Follows
<1>18. \A j \in 1 .. Final : j < Final /\ Forked(j) => w[j] = Taken(w, j + 1) \o pipe'[j]
  BY <1>1, <1>2 DEF Flow
<1>19. Len(w[k]) = 0 /\ (k = 1 => Len(Taken(w, 1)) = 0)
  BY <1>4, Words, NothingBegins DEF Taken
<1>20. ASSUME q # "dead"
       PROVE  /\ u[0] = IF k > 1 THEN ReadEnd(k - 1)
                        ELSE IF cmd[1].in = None THEN Tty ELSE FileAt(cmd[1].in, Len(Taken(w, 1)))
              /\ u[1] = IF k < Final THEN WriteEnd(k)
                        ELSE IF cmd[k].out = None \/ q # "run" THEN Tty
                        ELSE FileAt(cmd[k].out, Len(w[k]))
  <2>1. u = t /\ q = "run" /\ ~(k < Final)
    BY <1>2, <1>4, <1>8, <1>20
  <2>2. u[0] = fds[k][0] /\ u[1] = FileAt(cmd[k].out, 0)
    BY <1>7, <2>1
  <2>3. QED
    BY <1>2, <1>3, <1>5, <1>19, <2>1, <2>2
<1>21. /\ q \in {"output", "create", "run", "dead"} /\ (q = "run" => Program(k) \in Programs)
       /\ q \notin {"output", "create"} /\ UNCHANGED <<cmd, before, current>>
  BY <1>1, <1>8
<1>22. QED
  BY <1>1, <1>2, <1>4, <1>8, <1>14, <1>15, <1>16, <1>17, <1>18, <1>20, <1>21, Moves

\* Nobody is asked on a plain line.
LEMMA NothingAsked ==
  ASSUME ShellInv, Working, Plain, NEW w, Pipes(w), NEW k \in Child
  PROVE  ~Ask(k) /\ ~Answer(k)
<1>1. ~Ask(k)
  BY OutputFree DEF Ask
<1>2. ~Answer(k)
  BY DEF Answer, Pipes, Holds, Active
<1>3. QED
  BY <1>1, <1>2

\* What is left of a text after its first n lines.
LEMMA Rest ==
  ASSUME NEW s \in Text, NEW n \in Nat
  PROVE  /\ SubSeq(s, n + 1, Len(s)) \in Text
         /\ SubSeq(s, n + 1, Len(s)) = <<>> <=> Len(s) <= n
         /\ SubSeq(s, n + 1, Len(s)) # <<>> =>
              n + 1 \in 1 .. Len(s) /\ SubSeq(s, n + 1, Len(s))[1] = s[n + 1]
<1> DEFINE m == Len(s)
           u == SubSeq(s, n + 1, m)
<1>1. s \in Seq(Line) /\ m \in Nat
  BY DEF Text
<1>2. /\ u \in Seq(Line) /\ Len(u) = (IF n + 1 <= m THEN m - n ELSE 0)
      /\ n + 1 <= m => u[1] = s[n + 1]
  <2>1. CASE n + 1 <= m
    <3>1. u \in Seq(Line) /\ Len(u) = m - n
      BY <1>1, <2>1
    <3>2. 1 \in 1 .. m - n
      <4> HIDE DEF m, u
      <4>1. QED
        BY <1>1, <2>1
    <3>3. u[1] = s[n + 1]
      BY <1>1, <2>1, <3>2
    <3> HIDE DEF u, m
    <3>4. QED
      BY <2>1, <3>1, <3>3
  <2>2. CASE ~(n + 1 <= m)
    <3>1. u = <<>>
      BY <1>1, <2>2
    <3> HIDE DEF u, m
    <3>2. QED
      BY <2>2, <3>1
  <2>3. QED
    BY <2>1, <2>2
<1> HIDE DEF m, u
<1>3. u = <<>> <=> Len(u) = 0
  BY <1>2
<1>4. u = <<>> <=> m <= n
  BY <1>1, <1>2, <1>3
<1>5. u # <<>> => n + 1 \in 1 .. m /\ u[1] = s[n + 1]
  BY <1>1, <1>2, <1>4
<1>6. QED
  BY <1>2, <1>4, <1>5 DEF m, u, Text

\* What a read may give at once.
LEMMA ChunksAre ==
  ASSUME NEW p
  PROVE  LET d == fds[p][0] IN
         /\ d = Tty => \A c \in Chunks(p) : c = <<>> \/ \E r \in Replies : c = <<r>>
         /\ IsFile(d) => Chunks(p) = {SubSeq(files[d[2]], d[3] + 1, Len(files[d[2]]))}
         /\ IsPipeEnd(d) => \A c \in Chunks(p) :
              c = pipe[d[2]] /\ (c = <<>> => Writers(d[2]) = {})
<1> DEFINE d == fds[p][0]
<1>1. d = Tty => ~IsFile(d) /\ ~IsPipeEnd(d)
  BY Ends
<1>2. ~(IsFile(d) /\ IsPipeEnd(d))
  BY DEF IsFile, IsPipeEnd
<1>3. Chunks(p) = CASE d = Tty -> {<<>>} \cup IF typed < MaxTyped THEN {<<r>> : r \in Replies} ELSE {}
                    [] IsFile(d) -> {SubSeq(files[d[2]], d[3] + 1, Len(files[d[2]]))}
                    [] IsPipeEnd(d) -> IF pipe[d[2]] # <<>> THEN {pipe[d[2]]}
                                       ELSE IF Writers(d[2]) = {} THEN {<<>>} ELSE {}
                    [] OTHER -> {<<>>}
  BY DEF Chunks
<1> HIDE DEF d
<1>4. CASE d = Tty
  BY <1>1, <1>3, <1>4 DEF d
<1>5. CASE IsFile(d)
  BY <1>1, <1>2, <1>3, <1>5 DEF d
<1>6. CASE IsPipeEnd(d)
  BY <1>1, <1>2, <1>3, <1>6 DEF d
<1>7. QED
  BY <1>4, <1>5, <1>6 DEF d

\* The filters pass on what they have taken in, cat all of it.
LEMMA Filtered ==
  ASSUME ShellInv, Working, Plain, NEW w, Pipes(w), NEW k \in Child, pc[k] = "run",
         Program(k) \in Filters, NEW e, Composes(e)
  PROVE  /\ e[k - 1] \in Text /\ e[k] \in Text /\ e[k] = Passed(Program(k), e[k - 1])
         /\ k - 1 \in 0 .. Final
         /\ Begins(w[k], e[k]) /\ Begins(w[k], e[k - 1])
         /\ Taken(w, k) = w[k] /\ (Program(k) # "cat" => w[k] = <<>>)
         /\ k > 1 => w[k - 1] \in Text /\ w[k - 1] = w[k] \o pipe[k - 1] /\ Begins(w[k - 1], e[k - 1])
                     /\ pipe[k - 1] \in Text
<1>1. /\ Flow(w) /\ Follows(w, e) /\ k \in 1 .. Final /\ k \in Nat /\ Final \in Nat /\ k >= 1
      /\ k > 1 => k - 1 \in 1 .. Final /\ k - 1 \in Child /\ Forked(k - 1)
                  /\ (k - 1) + 1 = k /\ k - 1 < Final
      /\ pipe \in [Child -> Text] /\ w \in [1 .. Final -> Text] /\ w[k] \in Text
  BY CommandIs DEF Active
<1>2. k - 1 \in 0 .. Final /\ k \in 0 .. Final
  BY <1>1
<1>3. e[k - 1] \in Text /\ e[k] \in Text /\ e[k] = Passed(Program(k), e[k - 1])
  BY <1>1, <1>2 DEF Composes
<1>4. Begins(w[k], e[k]) /\ Taken(w, k) = w[k]
  BY <1>1 DEF Follows, Taken
<1>5. Program(k) # "cat" => w[k] = <<>>
  BY <1>1 DEF Flow, AtStep
<1>6. Begins(w[k], e[k - 1])
  <2>1. CASE Program(k) = "cat"
    BY <1>3, <1>4, <2>1, PassedIs
  <2>2. CASE Program(k) # "cat"
    BY <1>3, <1>5, <2>2, NothingBegins
  <2>3. QED
    BY <2>1, <2>2
<1>7. ASSUME k > 1
      PROVE  w[k - 1] \in Text /\ w[k - 1] = w[k] \o pipe[k - 1] /\ Begins(w[k - 1], e[k - 1])
             /\ pipe[k - 1] \in Text
  <2>1. k - 1 \in 1 .. Final /\ k - 1 \in Child /\ Forked(k - 1) /\ (k - 1) + 1 = k /\ k - 1 < Final
    BY <1>1, <1>7
  <2>2. w[k - 1] \in Text /\ pipe[k - 1] \in Text
    BY <1>1, <2>1
  <2>3. w[k - 1] = Taken(w, (k - 1) + 1) \o pipe[k - 1]
    BY <1>1, <2>1 DEF Flow
  <2>4. Begins(w[k - 1], e[k - 1])
    BY <1>1, <2>1 DEF Follows
  <2>5. QED
    BY <1>4, <2>1, <2>2, <2>3, <2>4
<1>8. QED
  BY <1>2, <1>3, <1>4, <1>5, <1>6, <1>7

\* Where a command reads.
LEMMA ReadsFrom ==
  ASSUME ShellInv, Working, Plain, NEW w, Pipes(w), NEW k \in Child, pc[k] = "run"
  PROVE  \/ /\ k = 1 /\ cmd[1].in = None /\ fds[k][0] = Tty
         \/ /\ k = 1 /\ cmd[1].in # None /\ cmd[1].in \in Name
            /\ fds[k][0] = FileAt(cmd[1].in, Len(Taken(w, 1)))
            /\ files[cmd[1].in] = before[cmd[1].in] /\ files[cmd[1].in] \in Text
         \/ /\ k > 1 /\ fds[k][0] = ReadEnd(k - 1)
<1>1. /\ Holds(w) /\ OneWritten /\ (~(k > 1) => k = 1) /\ files \in [Name -> Text]
  BY CommandIs DEF Active
<1>2. fds[k][0] = IF k > 1 THEN ReadEnd(k - 1)
                  ELSE IF cmd[1].in = None THEN Tty ELSE FileAt(cmd[1].in, Len(Taken(w, 1)))
  <2>1. pc[k] \in Active /\ (k = 1 => pc[1] # "redirect")
    BY DEF Active
  <2>2. QED
    BY <1>1, <2>1 DEF Holds
<1>3. ASSUME cmd[1].in # None
      PROVE  cmd[1].in \in Name /\ files[cmd[1].in] = before[cmd[1].in] /\ files[cmd[1].in] \in Text
  <2>1. cmd[1].in \in Name /\ before[cmd[1].in] # Absent
    BY <1>3 DEF Plain
  <2>2. cmd[1].in # cmd[Final].out
    BY <1>3, <2>1 DEF Plain, Final
  <2>3. QED
    BY <1>1, <2>1, <2>2 DEF OneWritten
<1>4. QED
  BY <1>1, <1>2, <1>3

\* A command that finds the end of its input has passed on all of it.
LEMMA ReadsEndPipes ==
  ASSUME ShellInv, Working, Plain, NEW w, Pipes(w), NEW k \in Child, ReadsEnd(k)
  PROVE  Pipes(w)'
<1>1. /\ pc[k] = "run" /\ pc[k] \in Active /\ <<>> \in Chunks(k)
      /\ UNCHANGED <<cmd, before, current, pipe, files, screen, keyed>>
  BY DEF ReadsEnd, Active, parse, forking
<1>2. /\ Flow(w) /\ Input(w) /\ Holds(w) /\ Forks /\ k \in 1 .. Final /\ k \in Nat
      /\ w \in [1 .. Final -> Text] /\ w[k] \in Text /\ k # Shell
      /\ \A e : Composes(e) => Follows(w, e)
      /\ k > 1 => k - 1 \in 1 .. Final /\ (k - 1) + 1 = k
  BY <1>1, CommandIs
<1>3. Program(k) \in Filters
  <2>1. Program(k) \in Programs
    BY <1>1, <1>2 DEF Flow, AtStep
  <2>2. Program(k) # None
    BY <2>1, ProgramsAre DEF None
  <2>3. QED
    BY <2>2 DEF Program, ReadsEnd
<1>4. pc' = [pc EXCEPT ![k] = "dead"] /\ fds' = [fds EXCEPT ![k] = NoTable]
  BY <1>2 DEF ReadsEnd, Leave, Gone
<1>5. ASSUME NEW e, Composes(e), Composes(e)' PROVE w[k] = e[k]
  <2>1. /\ e[k - 1] \in Text /\ e[k] \in Text /\ e[k] = Passed(Program(k), e[k - 1])
        /\ Begins(w[k], e[k]) /\ Begins(w[k], e[k - 1])
        /\ Taken(w, k) = w[k] /\ (Program(k) # "cat" => w[k] = <<>>)
        /\ k > 1 => w[k - 1] \in Text /\ w[k - 1] = w[k] \o pipe[k - 1] /\ Begins(w[k - 1], e[k - 1])
    BY <1>1, <1>3, <1>5, Filtered
  <2>2. e[k - 1] = w[k]
    <3>1. CASE k = 1 /\ cmd[1].in = None
      <4>1. AtStep(1, {"dead"})'
        BY <1>1, <1>4, <3>1, Apart DEF AtStep
      <4>2. e[0] = keyed
        BY <1>1, <1>5, <3>1, <4>1 DEF Composes, Sources
      <4>3. QED
        BY <1>2, <2>1, <3>1, <4>2 DEF Input
    <3>2. CASE /\ k = 1 /\ cmd[1].in # None /\ cmd[1].in \in Name
               /\ fds[k][0] = FileAt(cmd[1].in, Len(Taken(w, 1)))
               /\ files[cmd[1].in] = before[cmd[1].in] /\ files[cmd[1].in] \in Text
      <4>1. e[0] = files[cmd[1].in]
        BY <1>5, <3>2 DEF Composes, Sources
      <4>2. <<>> = SubSeq(e[0], Len(w[k]) + 1, Len(e[0]))
        <5>1. fds[k][0] # Tty /\ IsFile(fds[k][0]) /\ fds[k][0][2] = cmd[1].in /\ fds[k][0][3] = Len(w[k])
          BY <2>1, <3>2, Ends
        <5>2. Chunks(k) = {SubSeq(files[fds[k][0][2]], fds[k][0][3] + 1, Len(files[fds[k][0][2]]))}
          BY <5>1, ChunksAre
        <5>3. QED
          BY <1>1, <4>1, <5>1, <5>2
      <4>3. Len(e[0]) <= Len(w[k])
        <5>1. PICK s \in Text : s = e[0]
          BY <2>1, <3>2
        <5>2. SubSeq(s, Len(w[k]) + 1, Len(s)) = <<>> <=> Len(s) <= Len(w[k])
          BY <1>2, NothingBegins, Rest
        <5>3. QED
          BY <4>2, <5>1, <5>2
      <4>4. QED
        BY <1>2, <2>1, <3>2, <4>3, BeginsAll
    <3>3. CASE k > 1 /\ fds[k][0] = ReadEnd(k - 1)
      <4>1. pipe[k - 1] = <<>> /\ Writers(k - 1) = {}
        <5>1. fds[k][0] # Tty /\ ~IsFile(fds[k][0]) /\ IsPipeEnd(fds[k][0]) /\ fds[k][0][2] = k - 1
          BY <3>3, Ends
        <5>2. QED
          BY <1>1, <5>1 DEF Chunks
      <4>2. AtStep(k - 1, {"dead"})
        BY <1>1, <1>2, <3>3, <4>1, LastDead
      <4>3. k - 1 \in 1 .. Final /\ (k - 1) + 1 = k
        BY <1>2, <3>3
      <4>4. ~AtStep((k - 1) + 1, {"dead"})
        BY <1>1, <4>3 DEF AtStep
      <4>5. w[k - 1] = e[k - 1]
        BY <1>2, <1>5, <4>2, <4>3, <4>4 DEF Follows
      <4>6. w[k] \o <<>> = w[k]
        BY <1>2, Joined, Words
      <4>7. QED
        BY <2>1, <3>3, <4>1, <4>5, <4>6
    <3>4. QED
      BY <1>1, <3>1, <3>2, <3>3, ReadsFrom
  <2>3. CASE Program(k) = "cat"
    BY <2>1, <2>2, <2>3, PassedIs
  <2>4. CASE Program(k) = "head"
    <3>1. w[k] = <<>>
      BY <2>1, <2>4, ProgramsAre
    <3>2. QED
      BY <2>1, <2>2, <2>4, <3>1, PassedIs
  <2>5. QED
    BY <1>3, <2>3, <2>4 DEF Filters
<1>6. QED
  <2>1. "dead" \in {"output", "create", "run", "dead"} /\ "dead" # "run" /\ "dead" # "output"
    OBVIOUS
  <2> HIDE DEF Working
  <2>2. PICK q : q = "dead"
    OBVIOUS
  <2>3. QED
    BY <1>1, <1>4, <1>5, <2>1, <2>2, MovesOnly, Zenon

-----------------------------------------------------------------------------
(* A line goes through a command.                                          *)

\* One more line.
LEMMA OneMore ==
  ASSUME NEW s \in Text, NEW l \in Line
  PROVE  /\ <<l>> \in Text /\ s \o <<l>> \in Text /\ Len(s) \in Nat /\ Len(s \o <<l>>) = Len(s) + 1
         /\ \A i \in 1 .. Len(s) : (s \o <<l>>)[i] = s[i]
         /\ (s \o <<l>>)[Len(s) + 1] = l
         /\ s = <<>> => s \o <<l>> = <<l>>
<1>1. <<l>> \in Seq(Line) /\ s \in Seq(Line) /\ Len(s) \in Nat /\ Len(<<l>>) = 1 /\ <<l>>[1] = l
  BY DEF Text
<1> DEFINE u == s \o <<l>>
           n == Len(s)
<1>2. /\ u \in Seq(Line) /\ Len(u) = n + 1
      /\ \A i \in 1 .. n + 1 : u[i] = IF i <= n THEN s[i] ELSE <<l>>[i - n]
  BY <1>1, ConcatProperties
<1>3. n \in Nat
  BY <1>1
<1> HIDE DEF u, n
<1>4. (\A i \in 1 .. n : u[i] = s[i]) /\ u[n + 1] = l
  <2>1. (n + 1) - n = 1 /\ n + 1 \in 1 .. n + 1 /\ ~(n + 1 <= n)
    BY <1>3
  <2>2. u[n + 1] = <<l>>[(n + 1) - n]
    BY <1>2, <2>1
  <2>3. QED
    BY <1>1, <1>2, <1>3, <2>1, <2>2
<1>5. s = <<>> => u = <<l>>
  <2>1. <<>> \o <<l>> = <<l>>
    BY <1>1, ConcatEmptySeq
  <2>2. QED
    BY <2>1 DEF u
<1>6. QED
  BY <1>1, <1>2, <1>4, <1>5 DEF u, n, Text

\* A beginning with the next line is a beginning.
LEMMA BeginsNext ==
  ASSUME NEW s \in Text, NEW t \in Text, Begins(s, t), Len(s) + 1 \in 1 .. Len(t)
  PROVE  t[Len(s) + 1] \in Line /\ Begins(s \o <<t[Len(s) + 1]>>, t)
<1> DEFINE n == Len(s)
           l == t[n + 1]
           u == s \o <<l>>
<1>1. n \in Nat /\ Len(t) \in Nat /\ l \in Line
  BY DEF Text
<1>2. Len(u) = n + 1 /\ u[n + 1] = l /\ \A i \in 1 .. n : u[i] = s[i]
  BY <1>1, OneMore
<1>3. n + 1 <= Len(t) /\ \A i \in 1 .. n : s[i] = t[i]
  BY DEF Begins
<1>4. l = t[n + 1]
  OBVIOUS
<1> HIDE DEF n, l, u
<1>5. \A i \in 1 .. n + 1 : i \in 1 .. n \/ i = n + 1
  BY <1>1
<1>6. Begins(u, t)
  BY <1>1, <1>2, <1>3, <1>4, <1>5 DEF Begins
<1>7. QED
  BY <1>1, <1>6 DEF u, l, n

\* A text is its first line and the rest.
LEMMA HeadAndRest ==
  ASSUME NEW s \in Text, s # <<>>
  PROVE  /\ s[1] \in Line /\ SubSeq(s, 2, Len(s)) \in Text
         /\ s = <<s[1]>> \o SubSeq(s, 2, Len(s))
<1> DEFINE m == Len(s)
           l == s[1]
           u == SubSeq(s, 2, m)
<1>1. s \in Seq(Line) /\ m \in Nat /\ m >= 1 /\ l \in Line
  BY DEF Text
<1>2. u \in Seq(Line) /\ Len(u) = m - 1 /\ \A i \in 1 .. m - 1 : u[i] = s[i + 1]
  <2>1. CASE m = 1
    <3>1. u = <<>>
      BY <1>1, <2>1
    <3> HIDE DEF u, m
    <3>2. QED
      BY <1>1, <2>1, <3>1
  <2>2. CASE m # 1
    <3>1. u \in Seq(Line)
      BY <1>1
    <3>2. Len(u) = m - 1
      <4>1. Len(u) = IF 2 <= m THEN m - 2 + 1 ELSE 0
        BY <1>1
      <4> HIDE DEF m, u
      <4>2. QED
        BY <1>1, <2>2, <4>1
    <3>3. ASSUME NEW i \in 1 .. m - 1 PROVE u[i] = s[i + 1]
      <4>1. u[i] = s[2 + i - 1]
        BY <1>1, <2>2
      <4>2. 2 + i - 1 = i + 1
        OBVIOUS
      <4>3. QED
        BY <4>1, <4>2
    <3>4. QED
      BY <3>1, <3>2, <3>3
  <2>3. QED
    BY <2>1, <2>2
<1>3. <<l>> \in Seq(Line) /\ Len(<<l>>) = 1 /\ <<l>>[1] = l
  BY <1>1
<1> DEFINE v == <<l>> \o u
<1> HIDE DEF m, u, v
<1>4. /\ v \in Seq(Line) /\ Len(v) = 1 + (m - 1)
      /\ \A i \in 1 .. 1 + (m - 1) : v[i] = IF i <= 1 THEN <<l>>[i] ELSE u[i - 1]
  BY <1>2, <1>3, ConcatProperties DEF v
<1>5. 1 + (m - 1) = m
  BY <1>1
<1>6. \A i \in 1 .. m : v[i] = s[i]
  <2>1. ASSUME NEW i \in 1 .. m PROVE v[i] = s[i]
    <3>1. CASE i = 1
      BY <1>1, <1>3, <1>4, <1>5, <3>1
    <3>2. CASE i # 1
      <4>1. i - 1 \in 1 .. m - 1 /\ (i - 1) + 1 = i /\ ~(i <= 1)
        BY <1>1, <3>2
      <4>2. v[i] = u[i - 1]
        BY <1>4, <1>5, <4>1
      <4>3. QED
        BY <1>2, <4>1, <4>2
    <3>3. QED
      BY <3>1, <3>2
  <2>2. QED
    BY <2>1
<1>7. s = v
  BY <1>1, <1>4, <1>5, <1>6 DEF m
<1>8. QED
  BY <1>1, <1>2, <1>7 DEF v, u, m, Text

\* A write at the end of a file appends.
LEMMA WriteAtEnd ==
  ASSUME NEW text \in Text, NEW l \in Line
  PROVE  WriteAt(text, Len(text), <<l>>) = text \o <<l>>
<1> DEFINE n == Len(text)
           u == text \o <<l>>
           x == Max({n, n + 1})
<1>1. n \in Nat /\ Len(<<l>>) = 1
  BY DEF Text
<1>2. x = n + 1
  <2>1. n \in Int /\ n + 1 \in Int
    BY <1>1
  <2> HIDE DEF n
  <2>2. x \in {n, n + 1} /\ x >= n + 1
    BY <2>1, MaxOfTwo
  <2> HIDE DEF x
  <2>3. QED
    BY <1>1, <2>2
<1>3. WriteAt(text, n, <<l>>)
        = [i \in 1 .. n + 1 |-> CASE i \in n + 1 .. n + 1 -> <<l>>[i - n]
                                  [] i \notin n + 1 .. n + 1 /\ i <= n -> text[i]
                                  [] OTHER -> <<>>]
  BY <1>1, <1>2 DEF WriteAt
<1>4. u \in Text /\ Len(u) = n + 1 /\ u[n + 1] = l /\ \A i \in 1 .. n : u[i] = text[i]
  BY OneMore
<1>5. <<l>>[1] = l
  OBVIOUS
<1> HIDE DEF n, u, x
<1>6. \A i \in 1 .. n + 1 : u[i] = CASE i \in n + 1 .. n + 1 -> <<l>>[i - n]
                                     [] i \notin n + 1 .. n + 1 /\ i <= n -> text[i]
                                     [] OTHER -> <<>>
  <2>1. ASSUME NEW i \in 1 .. n + 1
        PROVE  u[i] = CASE i \in n + 1 .. n + 1 -> <<l>>[i - n]
                        [] i \notin n + 1 .. n + 1 /\ i <= n -> text[i]
                        [] OTHER -> <<>>
    <3>1. CASE i = n + 1
      <4>1. i \in n + 1 .. n + 1 /\ i - n = 1
        BY <1>1, <3>1
      <4>2. QED
        BY <1>4, <1>5, <3>1, <4>1
    <3>2. CASE i # n + 1
      <4>1. i \notin n + 1 .. n + 1 /\ i <= n /\ i \in 1 .. n
        BY <1>1, <3>2
      <4>2. QED
        BY <1>4, <4>1
    <3>3. QED
      BY <3>1, <3>2
  <2>2. QED
    BY <2>1
<1>7. u = [i \in 1 .. n + 1 |-> u[i]]
  BY <1>4 DEF Text
<1>8. WriteAt(text, n, <<l>>) = u
  BY <1>3, <1>6, <1>7
<1>9. QED
  BY <1>8 DEF n, u

\* The next line a filter gets is the next one it should get.
LEMMA Supplied ==
  ASSUME ShellInv, Working, Plain, NEW w, Pipes(w), NEW k \in Child, pc[k] = "run",
         Program(k) \in Filters, NEW c \in Chunks(k), c # <<>>
  PROVE  /\ c[1] \in Line
         /\ k > 1 => /\ w[k - 1] = (w[k] \o <<c[1]>>) \o SubSeq(pipe[k - 1], 2, Len(pipe[k - 1]))
                     /\ pipe[k - 1] # <<>>
         /\ \A e : Composes(e) /\ (fds[k][0] = Tty => Begins(keyed \o <<c[1]>>, e[0]))
                     => Begins(w[k] \o <<c[1]>>, e[k - 1])
<1>1. /\ Flow(w) /\ Input(w) /\ k \in 1 .. Final /\ k \in Nat /\ w[k] \in Text /\ k \in Proc
      /\ \A e : Composes(e) => Follows(w, e)
      /\ k > 1 => k - 1 \in 1 .. Final /\ k - 1 \in Child /\ Forked(k - 1)
                  /\ (k - 1) + 1 = k /\ k - 1 < Final
      /\ pipe \in [Child -> Text] /\ w \in [1 .. Final -> Text]
      /\ Taken(w, k) = w[k]
  BY CommandIs DEF Active, Taken
<1>2. \A e : Composes(e) =>
        /\ e[k - 1] \in Text /\ Begins(w[k], e[k - 1])
        /\ k > 1 => w[k - 1] \in Text /\ w[k - 1] = w[k] \o pipe[k - 1] /\ Begins(w[k - 1], e[k - 1])
  BY Filtered
<1>3. c \in Text
  BY <1>1, ChunksTyped DEF ShellInv
<1>4. c[1] \in Line
  BY <1>3, HeadAndRest
<1>5. CASE k = 1 /\ cmd[1].in = None /\ fds[k][0] = Tty
  <2>1. keyed = w[k]
    BY <1>1, <1>5 DEF Input
  <2>2. ~(k > 1) /\ k - 1 = 0
    BY <1>5
  <2>3. QED
    BY <1>4, <1>5, <2>1, <2>2
<1>6. CASE /\ k = 1 /\ cmd[1].in # None /\ cmd[1].in \in Name
           /\ fds[k][0] = FileAt(cmd[1].in, Len(Taken(w, 1)))
           /\ files[cmd[1].in] = before[cmd[1].in] /\ files[cmd[1].in] \in Text
  <2>1. PICK s \in Text : s = files[cmd[1].in]
    BY <1>6
  <2>2. c = SubSeq(s, Len(w[k]) + 1, Len(s))
    <3>1. IsFile(fds[k][0]) /\ fds[k][0][2] = cmd[1].in /\ fds[k][0][3] = Len(w[k])
      BY <1>1, <1>6, Ends
    <3>2. Chunks(k) = {SubSeq(files[fds[k][0][2]], fds[k][0][3] + 1, Len(files[fds[k][0][2]]))}
      BY <3>1, ChunksAre
    <3>3. QED
      BY <2>1, <3>1, <3>2
  <2>3. Len(w[k]) + 1 \in 1 .. Len(s) /\ c[1] = s[Len(w[k]) + 1]
    <3>1. Len(w[k]) \in Nat
      BY <1>1, NothingBegins
    <3>2. QED
      BY <2>2, <3>1, Rest
  <2>4. ASSUME NEW e, Composes(e) PROVE Begins(w[k] \o <<c[1]>>, e[k - 1])
    <3>1. e[0] = s /\ k - 1 = 0
      BY <1>6, <2>1, <2>4 DEF Composes, Sources
    <3>2. Begins(w[k], s)
      BY <1>2, <2>4, <3>1
    <3>3. QED
      BY <1>1, <2>3, <3>1, <3>2, BeginsNext
  <2>5. QED
    BY <1>4, <1>6, <2>4
<1>7. CASE k > 1 /\ fds[k][0] = ReadEnd(k - 1)
  <2>1. c = pipe[k - 1]
    <3>1. IsPipeEnd(fds[k][0]) /\ fds[k][0][2] = k - 1
      BY <1>7, Ends
    <3>2. QED
      BY <3>1, ChunksAre
  <2>2. c = <<c[1]>> \o SubSeq(c, 2, Len(c)) /\ SubSeq(c, 2, Len(c)) \in Text /\ <<c[1]>> \in Text
    BY <1>3, <1>4, HeadAndRest, OneMore, Words
  <2> DEFINE rest == SubSeq(c, 2, Len(c))
             one == <<c[1]>>
  <2>3. c = one \o rest /\ rest \in Text /\ one \in Text
    BY <2>2
  <2> HIDE DEF rest, one
  <2>4. w[k] \o c = (w[k] \o one) \o rest
    BY <1>1, <2>3, JoinedAgain
  <2>5. w[k - 1] = w[k] \o c
    BY <1>1, <1>7, <2>1 DEF Flow
  <2>6. ASSUME NEW e, Composes(e) PROVE Begins(w[k] \o one, e[k - 1])
    <3>1. w[k] \o one \in Text
      BY <1>1, <2>3, Joined
    <3>2. Begins(w[k] \o one, w[k - 1]) /\ w[k - 1] \in Text
      BY <2>3, <2>4, <2>5, <3>1, Joined
    <3>3. e[k - 1] \in Text /\ Begins(w[k - 1], e[k - 1])
      BY <1>2, <1>7, <2>6
    <3>4. QED
      BY <3>1, <3>2, <3>3, BeginsAgain
  <2>7. QED
    BY <1>4, <2>1, <2>4, <2>5, <2>6 DEF rest, one
<1>8. QED
  BY <1>5, <1>6, <1>7, ReadsFrom

\* Where a command writes.
LEMMA WritesTo ==
  ASSUME ShellInv, Working, Plain, NEW w, Pipes(w), NEW k \in Child, pc[k] = "run"
  PROVE  \/ k < Final /\ fds[k][1] = WriteEnd(k) /\ cmd[k].out = None
         \/ k = Final /\ fds[k][1] = Tty /\ cmd[k].out = None
         \/ /\ k = Final /\ cmd[k].out # None /\ cmd[k].out \in Name
            /\ fds[k][1] = FileAt(cmd[k].out, Len(w[k])) /\ files[cmd[k].out] = w[k]
<1>1. /\ Holds(w) /\ Output(w) /\ (~(k < Final) => k = Final) /\ (k < Final => cmd[k].out = None)
  BY CommandIs DEF Active
<1>2. fds[k][1] = IF k < Final THEN WriteEnd(k)
                  ELSE IF cmd[k].out = None THEN Tty ELSE FileAt(cmd[k].out, Len(w[k]))
  BY <1>1 DEF Holds, Active
<1>3. ASSUME ~(k < Final), cmd[k].out # None
      PROVE  k = Final /\ cmd[k].out \in Name /\ files[cmd[k].out] = w[k]
  <2>1. k = Final
    BY <1>1, <1>3
  <2>2. cmd[k].out \in Name
    BY <1>3, <2>1 DEF Plain, Final
  <2>3. AtStep(Final, {"run", "dead"})
    BY <2>1 DEF AtStep
  <2>4. QED
    BY <1>1, <1>3, <2>1, <2>2, <2>3 DEF Output
<1>4. QED
  BY <1>1, <1>2, <1>3

\* The pipes when a command has read n lines and written one.
LEMMA PipesMove ==
  ASSUME ShellInv, Working, Plain, NEW w, Pipes(w), NEW k \in Child, pc[k] = "run",
         NEW l \in Line, NEW n \in {0, 1}, pipe' = Piped(Drained(k, n), fds[k][1], <<l>>)
  PROVE  /\ k < Final => pipe'[k] = pipe[k] \o <<l>>
         /\ k > 1 => pipe'[k - 1] = SubSeq(pipe[k - 1], n + 1, Len(pipe[k - 1]))
         /\ \A j \in Child : j # k /\ (j + 1) # k => pipe'[j] = pipe[j]
<1>1. /\ pipe \in [Child -> Text] /\ k \in Nat /\ \A j \in Child : j \in Nat
      /\ k > 1 => k - 1 \in Child
  BY CommandIs, ProcIs DEF Active
<1> DEFINE D == Drained(k, n)
<1>2. /\ D = [j \in Child |-> D[j]]
      /\ k > 1 => D[k - 1] = SubSeq(pipe[k - 1], n + 1, Len(pipe[k - 1]))
      /\ \A j \in Child : (j + 1) # k => D[j] = pipe[j]
  <2>1. CASE k > 1 /\ fds[k][0] = ReadEnd(k - 1)
    <3>1. IsPipeEnd(fds[k][0]) /\ fds[k][0][2] = k - 1
      BY <2>1, Ends
    <3>2. D = [pipe EXCEPT ![k - 1] = SubSeq(pipe[k - 1], n + 1, Len(pipe[k - 1]))]
      BY <3>1 DEF Drained
    <3>3. \A j \in Child : (j + 1) # k => j # k - 1
      BY <1>1
    <3> HIDE DEF D
    <3>4. QED
      BY <1>1, <2>1, <3>2, <3>3
  <2>2. CASE k = 1 /\ ~IsPipeEnd(fds[k][0])
    <3>1. D = pipe
      BY <2>2 DEF Drained
    <3> HIDE DEF D
    <3>2. ~(k > 1)
      BY <2>2
    <3>3. QED
      BY <1>1, <3>1, <3>2
  <2>3. QED
    <3>1. (k = 1 /\ ~IsPipeEnd(fds[k][0])) \/ (k > 1 /\ fds[k][0] = ReadEnd(k - 1))
      BY ReadsFrom, Ends
    <3>2. QED
      BY <2>1, <2>2, <3>1
<1>3. pipe' = Piped(D, fds[k][1], <<l>>)
  OBVIOUS
<1> HIDE DEF D
<1>4. CASE k < Final /\ fds[k][1] = WriteEnd(k)
  <2>1. IsPipeEnd(fds[k][1]) /\ fds[k][1][2] = k
    BY <1>4, Ends
  <2>2. pipe' = [D EXCEPT ![k] = D[k] \o <<l>>]
    BY <1>3, <2>1 DEF Piped
  <2>3. k + 1 # k /\ k - 1 # k /\ \A j \in Child : j # k /\ (j + 1) # k => j # k - 1
    BY <1>1
  <2>4. D[k] = pipe[k]
    BY <1>2, <2>3
  <2>5. QED
    BY <1>1, <1>2, <2>2, <2>3, <2>4
<1>5. CASE k = Final /\ ~IsPipeEnd(fds[k][1])
  <2>1. pipe' = D /\ ~(k < Final)
    BY <1>1, <1>3, <1>5 DEF Piped
  <2>2. QED
    BY <1>1, <1>2, <2>1
<1>6. QED
  <2>1. (k < Final /\ fds[k][1] = WriteEnd(k)) \/ (k = Final /\ ~IsPipeEnd(fds[k][1]))
    BY WritesTo, Ends
  <2>2. QED
    BY <1>4, <1>5, <2>1

More(w, k, l) == [w EXCEPT ![k] = w[k] \o <<l>>]

\* What the commands have written when k has written l.
LEMMA MoreIs ==
  ASSUME NEW k \in 1 .. Final, NEW w \in [1 .. Final -> Text], NEW l \in Line
  PROVE  /\ More(w, k, l) \in [1 .. Final -> Text] /\ More(w, k, l)[k] = w[k] \o <<l>>
         /\ \A j \in 1 .. Final : j # k => More(w, k, l)[j] = w[j]
<1>1. w[k] \o <<l>> \in Text
  BY OneMore
<1>2. QED
  BY <1>1 DEF More

\* What k reads to write l: n lines.
ReadsFor(w, k, l, n) ==
  /\ n = 1 <=> Program(k) \in Filters
  /\ n = 1 /\ k > 1 => w[k - 1] = (w[k] \o <<l>>) \o SubSeq(pipe[k - 1], 2, Len(pipe[k - 1]))

\* A line goes from the pipe before a command to the pipe after it.
LEMMA LinesMove ==
  ASSUME ShellInv, Working, Plain, NEW w, Pipes(w), NEW k \in Child, pc[k] = "run",
         NEW l \in Line, NEW n \in {0, 1}, pipe' = Piped(Drained(k, n), fds[k][1], <<l>>),
         ReadsFor(w, k, l, n),
         NEW v, v = More(w, k, l)
  PROVE  \A j \in 1 .. Final : j < Final /\ Forked(j) => v[j] = Taken(v, j + 1) \o pipe'[j]
<1> SUFFICES ASSUME NEW j \in 1 .. Final, j < Final, Forked(j)
             PROVE  v[j] = Taken(v, j + 1) \o pipe'[j]
  OBVIOUS
<1>1. v[k] = w[k] \o <<l>> /\ \A i \in 1 .. Final : i # k => v[i] = w[i]
  BY CommandIs, MoreIs DEF Active
<1>2. /\ Flow(w) /\ k \in 1 .. Final /\ k \in Nat /\ Final \in Nat /\ k >= 1
      /\ pipe \in [Child -> Text] /\ w \in [1 .. Final -> Text]
      /\ k > 1 => k - 1 \in Child
  BY CommandIs DEF Active
<1>3. /\ k < Final => pipe'[k] = pipe[k] \o <<l>>
      /\ k > 1 => pipe'[k - 1] = SubSeq(pipe[k - 1], n + 1, Len(pipe[k - 1]))
      /\ \A i \in Child : i # k /\ (i + 1) # k => pipe'[i] = pipe[i]
  BY PipesMove
<1>4. /\ j \in Nat /\ j >= 1 /\ j + 1 \in 1 .. Final /\ j \in Child
      /\ w[j] = Taken(w, j + 1) \o pipe[j]
  <2>1. j \in Nat /\ j >= 1 /\ j + 1 \in 1 .. Final
    BY <1>2
  <2>2. j \in Child
    BY DEF Forked
  <2>3. w[j] = Taken(w, j + 1) \o pipe[j]
    BY <1>2 DEF Flow
  <2>4. QED
    BY <2>1, <2>2, <2>3
<1>5. j + 1 # k => Taken(v, j + 1) = Taken(w, j + 1) /\ Taken(w, j + 1) \in Text
  BY <1>2, <1>4, <1>1, Words DEF Taken
<1>6. CASE j = k
  <2>1. j + 1 # k
    BY <1>4, <1>6
  <2>2. <<l>> \in Text /\ pipe[k] \in Text
    BY <1>2, OneMore, Words
  <2>3. (Taken(w, j + 1) \o pipe[k]) \o <<l>> = Taken(w, j + 1) \o (pipe[k] \o <<l>>)
    BY <1>5, <2>1, <2>2, JoinedAgain
  <2>4. pipe'[j] = pipe[k] \o <<l>> /\ v[j] = w[k] \o <<l>> /\ w[k] = Taken(w, j + 1) \o pipe[k]
    BY <1>3, <1>4, <1>6, <1>1
  <2>5. QED
    BY <1>5, <2>1, <2>3, <2>4
<1>7. CASE j + 1 = k
  <2>1. k > 1 /\ j = k - 1 /\ j # k
    BY <1>4, <1>7
  <2>2. v[j] = w[j] /\ pipe'[j] = SubSeq(pipe[j], n + 1, Len(pipe[j]))
    BY <1>3, <1>1, <2>1
  <2>3. CASE n = 1
    <3>1. Taken(v, j + 1) = w[k] \o <<l>>
      BY <1>7, <1>1, <2>3 DEF Taken, ReadsFor
    <3>2. n + 1 = 2
      BY <2>3
    <3>3. QED
      BY <2>1, <2>2, <2>3, <3>1, <3>2 DEF ReadsFor
  <2>4. CASE n = 0
    <3>1. Taken(v, j + 1) = <<>> /\ Taken(w, j + 1) = <<>>
      BY <1>7, <2>4 DEF Taken, ReadsFor
    <3>2. SubSeq(pipe[j], 1, Len(pipe[j])) = pipe[j]
      <4>1. PICK s \in Seq(Line) : s = pipe[j]
        BY <1>2, <1>4 DEF Text
      <4>2. SubSeq(s, 1, Len(s)) = s
        OBVIOUS
      <4>3. QED
        BY <4>1, <4>2
    <3>3. n + 1 = 1
      BY <2>4
    <3>4. QED
      BY <1>4, <2>2, <3>1, <3>2, <3>3
  <2>5. QED
    BY <2>3, <2>4
<1>8. CASE j # k /\ j + 1 # k
  <2>1. pipe'[j] = pipe[j] /\ v[j] = w[j]
    BY <1>3, <1>4, <1>8, <1>1
  <2>2. QED
    BY <1>4, <1>5, <1>8, <2>1
<1>9. QED
  BY <1>6, <1>7, <1>8

\* The last command's line goes to the screen or to the file.
LEMMA Arrives ==
  ASSUME ShellInv, Working, Plain, NEW w, Pipes(w), NEW k \in Child, pc[k] = "run",
         NEW l \in Line, screen' = Shown(fds[k][1], <<l>>), files' = Filed(fds[k][1], <<l>>),
         UNCHANGED <<cmd, before>>, AtStep(k, {"run", "dead"})',
         \A j \in Child : j # k => (AtStep(j, {"run", "dead"})' <=> AtStep(j, {"run", "dead"})),
         NEW v, v = More(w, k, l)
  PROVE  Output(v)' /\ OneWritten'
<1>1. v[k] = w[k] \o <<l>> /\ \A i \in 1 .. Final : i # k => v[i] = w[i]
  BY CommandIs, MoreIs DEF Active
<1>2. /\ Output(w) /\ OneWritten /\ k \in 1 .. Final /\ k \in Nat /\ Final \in Nat /\ w[k] \in Text
      /\ files \in [Name -> Text]
  BY CommandIs DEF Active
<1>3. Final' = Final
  BY DEF Final
<1>4. CASE k < Final /\ fds[k][1] = WriteEnd(k)
  <2>1. fds[k][1] # Tty /\ ~IsFile(fds[k][1])
    BY <1>4, Ends
  <2>2. screen' = screen /\ files' = files
    BY <2>1 DEF Shown, Filed
  <2>3. Final # k /\ Final \in 1 .. Final
    BY <1>2, <1>4
  <2>4. AtStep(Final, {"run", "dead"})' <=> AtStep(Final, {"run", "dead"})
    BY <1>3, <2>3 DEF AtStep
  <2>5. v[Final] = w[Final]
    BY <1>1, <2>3
  <2>6. Output(v)'
    BY <1>2, <1>3, <2>2, <2>4, <2>5 DEF Output
  <2>7. QED
    BY <1>2, <1>3, <2>2, <2>6 DEF OneWritten
<1>5. CASE k = Final /\ fds[k][1] = Tty /\ cmd[k].out = None
  <2>1. ~IsFile(fds[k][1])
    BY <1>5, Ends
  <2>2. screen' = screen \o <<l>> /\ files' = files
    BY <1>5, <2>1 DEF Shown, Filed
  <2>3. screen = w[Final] /\ cmd[Final].out = None
    BY <1>2, <1>5 DEF Output
  <2>4. Output(v)'
    BY <1>3, <1>5, <1>1, <2>2, <2>3 DEF Output
  <2>5. QED
    BY <1>2, <1>3, <2>2, <2>4 DEF OneWritten
<1>6. CASE /\ k = Final /\ cmd[k].out # None /\ cmd[k].out \in Name
           /\ fds[k][1] = FileAt(cmd[k].out, Len(w[k])) /\ files[cmd[k].out] = w[k]
  <2> DEFINE out == cmd[Final].out
  <2>1. IsFile(fds[k][1]) /\ fds[k][1][2] = out /\ fds[k][1][3] = Len(w[k])
    BY <1>6, Ends
  <2>2. files' = [files EXCEPT ![out] = WriteAt(files[out], Len(w[k]), <<l>>)]
    BY <2>1 DEF Filed
  <2>3. out \in Name /\ out # None /\ files[out] = w[k]
    BY <1>6
  <2> HIDE DEF out
  <2>4. files'[out] = w[k] \o <<l>> /\ \A f \in Name : f # out => files'[f] = files[f]
    <3>1. WriteAt(w[k], Len(w[k]), <<l>>) = w[k] \o <<l>>
      BY <1>2, WriteAtEnd
    <3>2. QED
      BY <1>2, <2>2, <2>3, <3>1
  <2>5. out' = out
    BY <1>3 DEF out
  <2>6. Output(v)'
    <3>1. AtStep(Final, {"run", "dead"})'
      BY <1>3, <1>6 DEF AtStep
    <3>2. QED
      BY <1>3, <1>6, <1>1, <2>3, <2>4, <2>5, <3>1 DEF Output, out
  <2>7. OneWritten'
    BY <1>2, <1>3, <2>4, <2>5 DEF OneWritten, out
  <2>8. QED
    BY <2>6, <2>7
<1>7. QED
  BY <1>4, <1>5, <1>6, WritesTo

\* One line goes through a command.
LEMMA Relayed ==
  ASSUME ShellInv, Working, Plain, NEW w, Pipes(w), NEW k \in Child, pc[k] = "run",
         NEW l \in Line, NEW n \in {0, 1}, Copies(k, l, n),
         UNCHANGED <<cmd, before, current>>,
         ReadsFor(w, k, l, n),
         keyed' = IF n = 1 /\ fds[k][0] = Tty THEN keyed \o <<l>> ELSE keyed,
         \A e : Composes(e) /\ Composes(e)' =>
           Begins(w[k] \o <<l>>, e[k]) /\ (Program(k) # "cat" => w[k] \o <<l>> = e[k])
  PROVE  \E v : Pipes(v)'
<1>1. /\ Flow(w) /\ Input(w) /\ \A e : Composes(e) => Follows(w, e)
      /\ k \in 1 .. Final /\ k \in Nat /\ Final \in Nat /\ k >= 1 /\ k # Shell
      /\ w \in [1 .. Final -> Text] /\ w[k] \in Text /\ (~(k > 1) => k = 1)
      /\ (~(k < Final) => k = Final)
  BY CommandIs DEF Active
<1>2. PICK v \in [1 .. Final -> Text] : v = More(w, k, l)
  BY <1>1, MoreIs
<1>3. v[k] = w[k] \o <<l>> /\ (\A j \in 1 .. Final : j # k => v[j] = w[j])
      /\ Len(v[k]) = Len(w[k]) + 1 /\ Len(w[k]) \in Nat
  <2>1. v[k] = w[k] \o <<l>> /\ \A j \in 1 .. Final : j # k => v[j] = w[j]
    BY <1>1, <1>2, MoreIs
  <2>2. Len(w[k] \o <<l>>) = Len(w[k]) + 1 /\ Len(w[k]) \in Nat
    BY <1>1, OneMore
  <2>3. QED
    BY <2>1, <2>2
<1>4. Program(k) \in Programs /\ cmd[k].args[1] = Program(k)
  <2>1. Program(k) \in Programs
    BY <1>1 DEF Flow, AtStep
  <2>2. Program(k) # None
    BY <2>1, ProgramsAre DEF None
  <2>3. QED
    BY <2>1, <2>2 DEF Program
<1> DEFINE q == IF Program(k) # "cat" THEN "dead" ELSE "run"
           t == IF Program(k) # "cat" THEN NoTable ELSE [ReadOn(k, n) EXCEPT ![1] = Advance(@, 1)]
<1>5. /\ pc' = [pc EXCEPT ![k] = q] /\ fds' = [fds EXCEPT ![k] = t]
      /\ screen' = Shown(fds[k][1], <<l>>) /\ files' = Filed(fds[k][1], <<l>>)
      /\ pipe' = Piped(Drained(k, n), fds[k][1], <<l>>)
  BY <1>4 DEF Copies
<1>6. /\ q \in {"run", "dead"} /\ (q = "dead" => t = NoTable /\ Program(k) # "cat")
      /\ q # "dead" => q = "run" /\ Program(k) = "cat" /\ t = [ReadOn(k, n) EXCEPT ![1] = Advance(@, 1)]
  OBVIOUS
<1> HIDE DEF q, t
<1>7. /\ pc'[k] = q /\ fds'[k] = t
      /\ \A j \in Child : j # k => pc'[j] = pc[j] /\ fds'[j] = fds[j]
  <2>1. pc \in [Proc -> Pcs] /\ fds = [p \in Proc |-> fds[p]]
    BY DEF ShellInv, Types, Tables
  <2>2. QED
    BY <1>5, <2>1, ProcIs
<1>8. Output(v)' /\ OneWritten'
  <2>1. /\ AtStep(k, {"run", "dead"})'
        /\ \A j \in Child : j # k =>
             (AtStep(j, {"run", "dead"})' <=> AtStep(j, {"run", "dead"}))
    BY <1>6, <1>7 DEF AtStep
  <2>2. UNCHANGED <<cmd, before>>
    OBVIOUS
  <2>3. QED
    BY <1>2, <1>5, <2>1, <2>2, Arrives
<1>9. \A j \in 1 .. Final : j < Final /\ Forked(j) => v[j] = Taken(v, j + 1) \o pipe'[j]
  <2>1. v = More(w, k, l)
    BY <1>2
  <2>2. pipe' = Piped(Drained(k, n), fds[k][1], <<l>>)
    BY <1>5
  <2>3. QED
    BY <2>1, <2>2, LinesMove, ZenonT(60)
<1>10. ~AtStep(1, {"dead"}) \/ k # 1
  BY DEF AtStep
<1>11. ASSUME cmd[1].in = None
       PROVE  /\ keyed \in Text /\ keyed' = Taken(v, 1)
              /\ \E m \in Text : keyed' = keyed \o m
              /\ k # 1 => keyed' = keyed
  <2>1. 1 \in 1 .. Final
    BY <1>1
  <2>2. keyed = Taken(w, 1) /\ keyed \in Text
    BY <1>1, <1>11, <2>1, Words DEF Input, Taken
  <2>3. CASE k = 1 /\ n = 1
    <3>1. fds[k][0] = Tty
      BY <1>11, <2>3, ReadsFrom
    <3>2. keyed' = keyed \o <<l>> /\ Taken(v, 1) = v[1] /\ Taken(w, 1) = w[1]
      BY <2>3, <3>1 DEF Taken, ReadsFor
    <3>3. QED
      BY <1>3, <2>2, <2>3, <3>2, OneMore
  <2>4. CASE k # 1 \/ n # 1
    <3>1. keyed' = keyed
      <4>1. CASE n # 1
        BY <4>1
      <4>2. CASE k # 1
        BY <4>2, ReadsFrom, Ends
      <4>3. QED
        BY <2>4, <4>1, <4>2
    <3>2. Taken(v, 1) = Taken(w, 1)
      <4>1. CASE k # 1
        BY <1>3, <2>1, <4>1 DEF Taken
      <4>2. CASE k = 1 /\ n # 1
        BY <4>2 DEF Taken, ReadsFor
      <4>3. QED
        BY <2>4, <4>1, <4>2
    <3>3. keyed = keyed \o <<>> /\ <<>> \in Text
      BY <2>2, Joined, Words
    <3>4. QED
      BY <2>2, <3>1, <3>2, <3>3
  <2>5. QED
    BY <2>3, <2>4
<1>12. Input(v)'
  <2>1. Taken(v, 1)' = Taken(v, 1)
    BY DEF Taken, Program
  <2>2. keyed' \in Text
    BY <1>1, OneMore DEF Input
  <2>3. QED
    BY <1>11, <2>1, <2>2 DEF Input
<1>13. ASSUME NEW e, Composes(e)' PROVE Composes(e)
  <2>1. AtStep(1, {"dead"}) => AtStep(1, {"dead"})' /\ keyed' = keyed
    <3>1. k # 1 => fds[k][0] # Tty
      BY ReadsFrom, Ends
    <3>2. QED
      BY <1>7, <1>10, <3>1 DEF AtStep
  <2>2. cmd[1].in = None => keyed \in Text /\ \E m \in Text : keyed' = keyed \o m
    BY <1>11
  <2>3. UNCHANGED <<cmd, before>>
    OBVIOUS
  <2>4. QED
    BY <1>13, <2>1, <2>2, <2>3, FewerSources
<1>14. ASSUME NEW e, Composes(e)'
       PROVE  /\ Begins(v[k], e[k])
              /\ q = "dead" => v[k] = e[k] \/ (k < Final /\ AtStep(k + 1, {"dead"}))
  BY <1>3, <1>6, <1>13, <1>14
<1>15. ASSUME q # "dead"
       PROVE  /\ t[0] = IF k > 1 THEN ReadEnd(k - 1)
                        ELSE IF cmd[1].in = None THEN Tty ELSE FileAt(cmd[1].in, Len(Taken(v, 1)))
              /\ t[1] = IF k < Final THEN WriteEnd(k)
                        ELSE IF cmd[k].out = None \/ q # "run" THEN Tty
                        ELSE FileAt(cmd[k].out, Len(v[k]))
  <2>1. q = "run" /\ Program(k) = "cat" /\ n = 1 /\ t = [ReadOn(k, n) EXCEPT ![1] = Advance(@, 1)]
    BY <1>6, <1>15, ProgramsAre DEF ReadsFor
  <2>2. t[0] = Advance(fds[k][0], 1) /\ t[1] = Advance(fds[k][1], 1)
    <3>1. fds[k] = [fd \in Fd |-> fds[k][fd]]
      BY ProcIs DEF ShellInv, Tables
    <3>2. t = [[fds[k] EXCEPT ![0] = Advance(@, 1)] EXCEPT ![1] = Advance(@, 1)]
      BY <2>1 DEF ReadOn
    <3>3. 0 \in Fd /\ 1 \in Fd
      BY PlainTables
    <3>4. QED
      BY <3>1, <3>2, <3>3
  <2>3. t[0] = IF k > 1 THEN ReadEnd(k - 1)
               ELSE IF cmd[1].in = None THEN Tty ELSE FileAt(cmd[1].in, Len(Taken(v, 1)))
    <3>1. Taken(w, k) = w[k] /\ Taken(v, k) = v[k]
      BY <2>1, ProgramsAre DEF Taken
    <3>2. QED
      BY <1>1, <1>3, <2>2, <3>1, ReadsFrom, Ends DEF Advance
  <2>4. t[1] = IF k < Final THEN WriteEnd(k)
               ELSE IF cmd[k].out = None \/ q # "run" THEN Tty
               ELSE FileAt(cmd[k].out, Len(v[k]))
    BY <1>1, <1>3, <2>1, <2>2, WritesTo, Ends DEF Advance
  <2>5. QED
    BY <2>3, <2>4
<1>16. Pipes(v)'
  <2>1. q \in {"output", "create", "run", "dead"} /\ pc[k] \in Active /\ q \notin {"output", "create"}
        /\ (q = "run" => Program(k) \in Programs /\ (Program(k) # "cat" => v[k] = <<>>))
    BY <1>4, <1>6 DEF Active
  <2>2. QED
    BY <1>3, <1>5, <1>8, <1>9, <1>12, <1>13, <1>14, <1>15, <2>1, Moves, Zenon
<1>17. QED
  BY <1>16

\* A command dies of SIGPIPE only when the next one has ended.
LEMMA BrokenPipes ==
  ASSUME ShellInv, Working, Plain, NEW w, Pipes(w), NEW k \in Child, pc[k] = "run", Broken(k),
         Leave(k), UNCHANGED <<cmd, before, current, pipe, files, screen, keyed>>
  PROVE  Pipes(w)'
<1>1. Forks /\ Holds(w) /\ k # Shell /\ pc[k] \in Active
  BY CommandIs DEF Active
<1>2. k < Final /\ Readers(k) = {}
  BY WritesTo, Ends DEF Broken
<1>3. AtStep(k + 1, {"dead"})
  BY <1>1, <1>2, NextDead
<1>4. pc' = [pc EXCEPT ![k] = "dead"] /\ fds' = [fds EXCEPT ![k] = NoTable]
  BY <1>1 DEF Leave, Gone
<1>5. PICK q : q = "dead"
  OBVIOUS
<1>6. q \in {"output", "create", "run", "dead"} /\ q # "run" /\ q # "output"
  BY <1>5
<1>7. QED
  BY <1>1, <1>2, <1>3, <1>4, <1>5, <1>6, MovesOnly, Zenon

\* The steps of a program: it reads and writes a line, ends, or prints what it prints.
LEMMA CopyPipes ==
  ASSUME ShellInv, Working, Plain, NEW w, Pipes(w), NEW k \in Child, Copy(k)
  PROVE  \E v : Pipes(v)'
<1>1. /\ pc[k] = "run" /\ UNCHANGED <<cmd, before, current>>
  BY DEF Copy, parse, forking
<1>2. /\ Flow(w) /\ Input(w) /\ k \in 1 .. Final /\ w[k] \in Text /\ keyed \in Text
      /\ k \in Nat /\ Final \in Nat
      /\ \A e : Composes(e) => Follows(w, e)
  BY <1>1, CommandIs DEF Active, Input
<1>3. /\ Program(k) \in Programs /\ cmd[k].args[1] = Program(k)
      /\ Program(k) # "cat" => w[k] = <<>>
  <2>1. Program(k) \in Programs /\ (Program(k) # "cat" => w[k] = <<>>)
    BY <1>1, <1>2 DEF Flow, AtStep
  <2>2. Program(k) # None
    BY <2>1, ProgramsAre DEF None
  <2>3. QED
    BY <2>1, <2>2 DEF Program
<1>4. CASE Broken(k)
  <2>1. Leave(k) /\ UNCHANGED <<pipe, files, screen, keyed>>
    BY <1>4 DEF Copy
  <2>2. QED
    BY <1>1, <1>4, <2>1, BrokenPipes
<1>5. CASE ~Broken(k) /\ Program(k) \in Filters
  <2>1. PICK c \in Chunks(k) : /\ c # <<>> /\ Copies(k, c[1], 1)
                               /\ keyed' = keyed \o FromTty(k, <<c[1]>>)
    BY <1>3, <1>5, ProgramsAre DEF Copy
  <2>2. PICK l \in Line : l = c[1]
    BY <1>1, <1>5, <2>1, Supplied
  <2>3. ReadsFor(w, k, l, 1)
    BY <1>1, <1>5, <2>1, <2>2, Supplied DEF ReadsFor
  <2>4. keyed' = IF fds[k][0] = Tty THEN keyed \o <<l>> ELSE keyed
    <3>1. keyed \o <<>> = keyed
      BY <1>2, Joined, Words
    <3>2. QED
      BY <2>1, <2>2, <3>1 DEF FromTty
  <2>5. ASSUME NEW e, Composes(e), Composes(e)'
        PROVE  /\ Begins(w[k] \o <<l>>, e[k])
               /\ Program(k) # "cat" => w[k] \o <<l>> = e[k]
    <3>1. fds[k][0] = Tty => Begins(keyed \o <<l>>, e[0])
      <4> SUFFICES ASSUME fds[k][0] = Tty PROVE Begins(keyed \o <<l>>, e[0])
        OBVIOUS
      <4>1. cmd[1].in = None
        BY <1>1, ReadsFrom, Ends
      <4>2. keyed' = keyed \o <<l>> /\ keyed' \in Text /\ cmd'[1].in = None
        BY <1>1, <1>2, <2>4, <4>1, OneMore
      <4>3. Begins(keyed', e[0])
        <5>1. e[0] \in Sources'
          BY <2>5 DEF Composes
        <5>2. CASE AtStep(1, {"dead"})'
          BY <4>2, <5>1, <5>2, NothingBegins DEF Sources
        <5>3. CASE ~AtStep(1, {"dead"})'
          <6>1. PICK more \in Text : e[0] = keyed' \o more
            BY <4>2, <5>1, <5>3 DEF Sources
          <6>2. QED
            BY <4>2, <6>1, Joined
        <5>4. QED
          BY <5>2, <5>3
      <4>4. QED
        BY <4>2, <4>3
    <3>2. Begins(w[k] \o <<l>>, e[k - 1])
      BY <1>1, <1>5, <2>1, <2>2, <2>5, <3>1, Supplied
    <3>3. e[k - 1] \in Text /\ e[k] = Passed(Program(k), e[k - 1])
      BY <1>1, <1>5, <2>5, Filtered
    <3>4. CASE Program(k) = "cat"
      BY <3>2, <3>3, <3>4, PassedIs
    <3>5. CASE Program(k) = "head"
      <4>1. w[k] \o <<l>> = <<l>> /\ <<l>> \in Text
        BY <1>2, <1>3, <3>5, OneMore, ProgramsAre
      <4>2. PICK s \in Text : s = e[k - 1]
        BY <3>3
      <4>3. s # <<>> /\ s[1] = l
        <5>1. Len(<<l>>) = 1 /\ <<l>>[1] = l
          OBVIOUS
        <5>2. 1 <= Len(s) /\ \A i \in 1 .. 1 : <<l>>[i] = s[i]
          BY <3>2, <4>1, <4>2, <5>1 DEF Begins
        <5>3. QED
          BY <5>1, <5>2, NothingBegins
      <4>4. e[k] = <<l>>
        BY <3>3, <3>5, <4>2, <4>3, PassedIs
      <4>5. QED
        BY <4>1, <4>4, NothingBegins
    <3>6. QED
      BY <1>5, <3>4, <3>5 DEF Filters
  <2>6. PICK n \in {0, 1} : n = 1
    OBVIOUS
  <2>7. Copies(k, l, n) /\ ReadsFor(w, k, l, n)
    BY <2>1, <2>2, <2>3, <2>6
  <2>8. keyed' = IF n = 1 /\ fds[k][0] = Tty THEN keyed \o <<l>> ELSE keyed
    BY <2>4, <2>6
  <2>9. QED
    BY <1>1, <2>5, <2>7, <2>8, Relayed, Zenon
<1>6. CASE ~Broken(k) /\ Program(k) = "ls"
  <2>1. Copies(k, Notice, 0) /\ keyed' = keyed
    BY <1>3, <1>6, ProgramsAre DEF Copy
  <2>2. PICK l \in Line : l = Notice
    BY Words
  <2>3. PICK n \in {0, 1} : n = 0
    OBVIOUS
  <2>4. Copies(k, l, n) /\ ReadsFor(w, k, l, n)
    BY <1>6, <2>1, <2>2, <2>3, ProgramsAre DEF ReadsFor
  <2>5. keyed' = IF n = 1 /\ fds[k][0] = Tty THEN keyed \o <<l>> ELSE keyed
    BY <2>1, <2>3
  <2>6. ASSUME NEW e, Composes(e), Composes(e)'
        PROVE  /\ Begins(w[k] \o <<l>>, e[k])
               /\ Program(k) # "cat" => w[k] \o <<l>> = e[k]
    <3>1. e[k - 1] \in Text /\ e[k] = Passed(Program(k), e[k - 1])
      <4>1. k - 1 \in 0 .. Final
        BY <1>2
      <4>2. QED
        BY <1>2, <2>6, <4>1 DEF Composes
    <3>2. e[k] = <<l>>
      BY <1>6, <2>2, <3>1, PassedIs
    <3>3. w[k] \o <<l>> = <<l>> /\ <<l>> \in Text
      BY <1>2, <1>3, <1>6, OneMore, ProgramsAre
    <3>4. QED
      BY <3>2, <3>3, NothingBegins
  <2>7. QED
    BY <1>1, <2>4, <2>5, <2>6, Relayed, Zenon
<1>7. QED
  BY <1>3, <1>4, <1>5, <1>6, ProgramsAre

\* Every step of a command keeps what is said of the pipes.
LEMMA ChildPipes ==
  ASSUME ShellInv, PipeInv, NEW k \in Child, ChildStep(k)
  PROVE  PipeInv'
<1>1. UNCHANGED <<cmd, before>> /\ pc'[Shell] = pc[Shell]
  <2>1. /\ pc \in [Proc -> Pcs] /\ k # Shell
    BY ProcIs DEF ShellInv, Types
  <2>2. UNCHANGED <<cmd, before>>
    BY DEF ChildStep, Redirection, RedirectIn, RedirectOut, Create, Ask, Answer, Copy, ReadsEnd, parse
  <2>3. \A q : [pc EXCEPT ![k] = q][Shell] = pc[Shell]
    BY <2>1, ProcIs
  <2>4. ASSUME Leave(k) PROVE pc'[Shell] = pc[Shell]
    BY <2>3, <2>4 DEF Leave
  <2>5. ASSUME NEW t, Proceed(k, t) PROVE pc'[Shell] = pc[Shell]
    BY <2>3, <2>4, <2>5 DEF Proceed
  <2>6. ASSUME RedirectIn(k) \/ RedirectOut(k) \/ Create(k) \/ Ask(k) PROVE pc'[Shell] = pc[Shell]
    BY <2>3, <2>4, <2>5, <2>6 DEF RedirectIn, RedirectOut, Create, Ask
  <2>7. ASSUME NEW c, NEW n, Reply(k, c, n) PROVE pc'[Shell] = pc[Shell]
    BY <2>4, <2>5, <2>7 DEF Reply
  <2>8. ASSUME Answer(k) PROVE pc'[Shell] = pc[Shell]
    BY <2>7, <2>8 DEF Answer
  <2>9. ASSUME NEW l, NEW n, Copies(k, l, n) PROVE pc'[Shell] = pc[Shell]
    BY <2>3, <2>9 DEF Copies
  <2>10. ASSUME Copy(k) \/ ReadsEnd(k) PROVE pc'[Shell] = pc[Shell]
    BY <2>4, <2>9, <2>10 DEF Copy, ReadsEnd
  <2>11. QED
    BY <2>2, <2>6, <2>8, <2>10 DEF ChildStep, Redirection
<1> SUFFICES ASSUME Working', Plain' PROVE \E w : Pipes(w)'
  BY DEF PipeInv
<1>2. Working /\ Plain
  BY <1>1 DEF Working, Plain
<1>3. PICK w : Pipes(w)
  BY <1>2 DEF PipeInv
<1>4. CASE RedirectIn(k)
  BY <1>2, <1>3, <1>4, RedirectInPipes
<1>5. CASE RedirectOut(k)
  BY <1>2, <1>3, <1>5, RedirectOutPipes
<1>6. CASE Copy(k)
  BY <1>2, <1>3, <1>6, CopyPipes
<1>7. CASE ReadsEnd(k)
  BY <1>2, <1>3, <1>7, ReadsEndPipes
<1>8. ~Ask(k) /\ ~Answer(k)
  BY <1>2, <1>3, NothingAsked
<1>9. CASE Create(k)
  BY <1>2, <1>3, <1>9, CreatePipes
<1>10. QED
  BY <1>4, <1>5, <1>6, <1>7, <1>8, <1>9 DEF ChildStep, Redirection

-----------------------------------------------------------------------------
(* The shell's steps.                                                      *)

\* A line is begun: nothing has been written.
LEMMA StartPipes ==
  ASSUME ShellInv, pc[Shell] = "read", NEW nodes, Sound(nodes), Len(nodes) >= 1, Begin(nodes),
         StartExternal(nodes), UNCHANGED files, Plain'
  PROVE  \E w : Pipes(w)'
<1>1. /\ cmd' = nodes /\ current' = 1 /\ before' = files /\ screen' = <<>> /\ keyed' = <<>>
      /\ files' = files /\ pc' = [pc EXCEPT ![Shell] = "fork"]
  BY DEF Begin, StartExternal
<1>2. pc'[Shell] = "fork" /\ \A k \in Child : pc'[k] = "none"
  BY <1>1, AtPrompt, ProcIs DEF ShellInv, Types
<1>3. \A k, steps : ~Forked(k)' /\ ("none" \notin steps => ~AtStep(k, steps)')
  BY <1>2 DEF Forked, AtStep
<1> DEFINE n == Len(nodes)
           none == [k \in 1 .. n |-> <<>>]
<1>4. n \in Nat /\ n >= 1 /\ Final' = n
  BY <1>1 DEF Sound, Final
<1>5. none \in [1 .. n -> Text] /\ \A k \in 1 .. n : none[k] = <<>>
  BY Words
<1> HIDE DEF n, none
<1>6. \A k \in 1 .. n : Taken(none, k)' = <<>>
  BY <1>5 DEF Taken
<1>7. Flow(none)'
  BY <1>3, <1>4, <1>5 DEF Flow
<1>8. OneWritten'
  BY <1>1 DEF OneWritten
<1>9. Output(none)'
  <2>1. n \in 1 .. n
    BY <1>4
  <2>2. cmd'[n].out # None => files'[cmd'[n].out] = Absent
    <3>1. cmd'[Len(cmd')].out # None => before'[cmd'[Len(cmd')].out] = Absent
      BY DEF Plain
    <3>2. Len(cmd') = n
      BY <1>1 DEF n
    <3>3. QED
      BY <1>1, <3>1, <3>2
  <2>3. ~AtStep(Final, {"run", "dead"})'
    BY <1>3
  <2>4. QED
    BY <1>1, <1>4, <1>5, <2>1, <2>2, <2>3 DEF Output
<1>10. Input(none)'
  <2>1. 1 \in 1 .. n
    BY <1>4
  <2>2. QED
    BY <1>1, <1>6, <2>1, Words DEF Input
<1>11. Holds(none)'
  BY <1>2 DEF Holds, Active
<1>12. Forks'
  BY <1>1, <1>2 DEF Forks
<1>13. ASSUME NEW e, Composes(e)' PROVE Follows(none, e)'
  <2>1. e \in [0 .. n -> Text]
    BY <1>4, <1>13 DEF Composes
  <2>2. \A k \in 1 .. n : e[k] \in Text
    BY <1>4, <2>1
  <2>3. QED
    BY <1>3, <1>4, <1>5, <2>2, NothingBegins DEF Follows
<1>14. QED
  BY <1>7, <1>8, <1>9, <1>10, <1>11, <1>12, <1>13 DEF Pipes

\* A command is forked.
LEMMA JoinPipes ==
  ASSUME ShellInv, Working, NEW w, Pipes(w), NEW c \in Child, c \in 1 .. Final, pc[c] = "none",
         NEW q \in {"close", "wait"}, pc[Shell] = "fork", c = current,
         pc'[Shell] = q, pc'[c] = "redirect", \A j \in Child : j # c => pc'[j] = pc[j],
         \A j \in Child : j # c => fds'[j] = fds[j],
         fds'[c][0] = IF c > 1 THEN ReadEnd(c - 1) ELSE Tty,
         fds'[c][1] = IF c < Final THEN WriteEnd(c) ELSE Tty,
         c < Final => pipe'[c] = <<>>, \A j \in Child : j # c => pipe'[j] = pipe[j],
         q = "wait" => Final = 1,
         UNCHANGED <<cmd, before, files, screen, keyed, current>>
  PROVE  Pipes(w)'
<1>1. /\ Flow(w) /\ Output(w) /\ Input(w) /\ Holds(w) /\ Forks /\ OneWritten
      /\ \A e : Composes(e) => Follows(w, e)
      /\ w \in [1 .. Final -> Text]
  BY DEF Pipes, Flow
<1>2. Final' = Final /\ \A j : Program(j)' = Program(j) /\ Taken(w, j)' = Taken(w, j)
  BY DEF Final, Program, Taken
<1>3. /\ \A j : j # c => (Forked(j)' <=> Forked(j))
      /\ Forked(c)' /\ ~Forked(c)
      /\ \A j, steps : j # c => (AtStep(j, steps)' <=> AtStep(j, steps))
      /\ \A steps : "redirect" \notin steps => ~AtStep(c, steps)'
      /\ \A steps : "none" \notin steps => ~AtStep(c, steps)
  BY DEF Forked, AtStep
<1>4. c \in Nat /\ Final \in Nat /\ c >= 1 /\ Children /\ ~Forked(c + 1)
  <2>1. Children /\ \A j \in Child : j \in Nat
    BY ProcIs DEF ShellInv
  <2>2. ~Forked(c + 1)
    BY <2>1 DEF Forked, Children
  <2>3. Final \in Nat
    BY DEF ShellInv, Types, Sound, Final
  <2>4. QED
    BY <2>1, <2>2, <2>3
<1>5. w[c] = <<>> /\ (c < Final => Taken(w, c + 1) = <<>>)
  <2>1. w[c] = <<>>
    BY <1>1, <1>3 DEF Flow
  <2>2. c < Final => c + 1 \in 1 .. Final
    BY <1>4
  <2>3. c < Final => w[c + 1] = <<>>
    BY <1>1, <1>4, <2>2 DEF Flow
  <2>4. QED
    BY <2>1, <2>3 DEF Taken
<1>6. Flow(w)'
  <2>1. ASSUME NEW j \in 1 .. Final
        PROVE  /\ ~Forked(j)' \/ AtStep(j, {"redirect", "output", "create"})' => w[j] = <<>>
               /\ j < Final /\ Forked(j)' => w[j] = Taken(w, j + 1) \o pipe'[j]
               /\ AtStep(j, {"run"})' => Program(j) \in Programs /\ (Program(j) # "cat" => w[j] = <<>>)
    <3>1. CASE j = c
      <4>1. <<>> \o <<>> = <<>>
        BY Joined, Words
      <4>2. ~AtStep(c, {"run"})'
        BY <1>3
      <4>3. QED
        BY <1>3, <1>5, <3>1, <4>1, <4>2
    <3>2. CASE j # c
      <4>1. Forked(j) => pipe'[j] = pipe[j]
        BY <3>2 DEF Forked
      <4>2. QED
        BY <1>1, <1>3, <3>2, <4>1 DEF Flow
    <3>3. QED
      BY <3>1, <3>2
  <2>2. QED
    BY <1>1, <1>2, <2>1 DEF Flow
<1>7. Output(w)'
  <2>1. AtStep(Final, {"run", "dead"})' <=> AtStep(Final, {"run", "dead"})
    <3>1. ~AtStep(c, {"run", "dead"}) /\ ~AtStep(c, {"run", "dead"})'
      BY <1>3
    <3>2. QED
      BY <1>2, <1>3, <3>1
  <2>2. QED
    BY <1>1, <1>2, <2>1 DEF Output
<1>8. Input(w)' /\ OneWritten'
  BY <1>1, <1>2 DEF Input, OneWritten
<1>9. Holds(w)'
  <2>1. ASSUME NEW j \in Child, pc'[j] \in Active
        PROVE  /\ pc'[j] # "asked"
               /\ fds'[j][0] = IF j > 1 THEN ReadEnd(j - 1)
                               ELSE IF cmd[1].in = None \/ pc'[1] = "redirect" THEN Tty
                               ELSE FileAt(cmd[1].in, Len(Taken(w, 1)))
               /\ fds'[j][1] = IF j < Final THEN WriteEnd(j)
                               ELSE IF cmd[j].out = None \/ pc'[j] # "run" THEN Tty
                               ELSE FileAt(cmd[j].out, Len(w[j]))
    <3>1. CASE j = c
      <4>1. ~(c > 1) => c = 1
        BY <1>4
      <4>2. QED
        BY <3>1, <4>1
    <3>2. CASE j # c
      <4>1. pc'[j] = pc[j] /\ fds'[j] = fds[j] /\ pc[j] \in Active
        BY <2>1, <3>2
      <4>2. ~(j > 1) => j = 1 /\ pc'[1] = pc[1]
        BY <4>1, ProcIs
      <4>3. QED
        BY <1>1, <4>1, <4>2 DEF Holds
    <3>3. QED
      BY <3>1, <3>2
  <2>2. QED
    BY <1>2, <2>1 DEF Holds
<1>10. Forks'
  <2>1. \A k \in 1 .. current : Forked(k)'
    <3>1. \A k \in 1 .. current - 1 : Forked(k)
      BY <1>1 DEF Forks
    <3>2. \A k \in 1 .. current : k = c \/ (k # c /\ k \in 1 .. current - 1)
      BY <1>4
    <3>3. QED
      BY <1>3, <3>1, <3>2
  <2>2. q = "wait" => Final = current /\ Final >= 1
    BY <1>4
  <2>3. QED
    BY <1>2, <2>1, <2>2 DEF Forks
<1>11. ASSUME NEW e, Composes(e)' PROVE Follows(w, e)'
  <2>1. AtStep(1, {"dead"})' <=> AtStep(1, {"dead"})
    BY <1>3
  <2>2. Sources' = Sources
    BY <2>1 DEF Sources
  <2>3. Composes(e)
    BY <1>2, <1>11, <2>2 DEF Composes
  <2>4. \A j : AtStep(j, {"dead"})' <=> AtStep(j, {"dead"})
    BY <1>3
  <2>5. QED
    BY <1>1, <1>2, <2>3, <2>4 DEF Follows
<1>12. QED
  BY <1>6, <1>7, <1>8, <1>9, <1>10, <1>11 DEF Pipes

\* spawn_proc forks the only command of a line.
LEMMA SpawnProcPipes ==
  ASSUME ShellInv, SpawnProc, NEW w, Pipes(w)
  PROVE  Pipes(w)'
<1>1. /\ pc[Shell] = "fork" /\ Len(cmd) = 1 /\ Final = 1 /\ Children /\ Forking
      /\ pc \in [Proc -> Pcs] /\ fds = [p \in Proc |-> fds[p]] /\ Working
      /\ UNCHANGED <<cmd, before, files, screen, keyed, current, pipe>>
  BY DEF SpawnProc, ShellInv, Types, Tables, parse, forking, Final, Working
<1>2. current = 1 /\ in_fd = 0 /\ fds[Shell] = TtyTable
  BY <1>1, NothingOpen DEF Forking
<1>3. PICK c : c = 1
  OBVIOUS
<1>4. c \in Child /\ c \in 1 .. Final /\ ~(c > 1) /\ ~(c < Final) /\ c = current /\ c # Shell
  BY <1>1, <1>2, <1>3, ProcIs
<1>5. pc[c] = "none"
  <2>1. pc[c] # "none" => c < current
    BY <1>1, <1>4 DEF Children
  <2>2. QED
    BY <1>2, <1>3, <2>1
<1>6. /\ pc'[Shell] = "wait" /\ pc'[c] = "redirect" /\ \A j \in Child : j # c => pc'[j] = pc[j]
      /\ fds'[c] = TtyTable /\ \A j \in Child : j # c => fds'[j] = fds[j]
  BY <1>1, <1>2, <1>3, ProcIs DEF SpawnProc
<1>7. /\ fds'[c][0] = (IF c > 1 THEN ReadEnd(c - 1) ELSE Tty)
      /\ fds'[c][1] = (IF c < Final THEN WriteEnd(c) ELSE Tty)
  BY <1>4, <1>6, PlainTables
<1>8. PICK q \in {"close", "wait"} : q = "wait"
  OBVIOUS
<1>9. pc'[Shell] = q /\ (q = "wait" => Final = 1)
  BY <1>1, <1>6, <1>8
<1>10. (c < Final => pipe'[c] = <<>>) /\ \A j \in Child : j # c => pipe'[j] = pipe[j]
  BY <1>1, <1>4
<1>11. QED
  BY <1>1, <1>4, <1>5, <1>6, <1>7, <1>9, <1>10, JoinPipes

\* fork_cmd_node makes a pipe and forks a command.
LEMMA ForkNodePipes ==
  ASSUME ShellInv, ForkNode, NEW w, Pipes(w)
  PROVE  Pipes(w)'
<1>1. /\ pc[Shell] = "fork" /\ Len(cmd) > 1 /\ Final = Len(cmd) /\ Children /\ Forking
      /\ current \in Child /\ current \in 1 .. Final /\ Working
      /\ pc \in [Proc -> Pcs] /\ pipe \in [Child -> Text]
      /\ UNCHANGED <<cmd, before, files, screen, keyed, current>>
      /\ pc' = [pc EXCEPT ![Shell] = "close", ![current] = "redirect"]
      /\ pipe' = IF current < Len(cmd) THEN [pipe EXCEPT ![current] = <<>>] ELSE pipe
  BY DEF ForkNode, ShellInv, Types, parse, Final, Working, Forking
<1>2. /\ pipe_fd'[1] \in {3, 4} /\ pipe_fd'[2] \in {4, 5} /\ pipe_fd'[2] # in_fd
      /\ in_fd \in {0, 3, 4} /\ (current > 1 <=> in_fd # 0)
      /\ fds'[Shell] = IF current < Len(cmd) THEN With(in_fd, pipe_fd'[1], pipe_fd'[2])
                       ELSE With(in_fd, 0, 0)
      /\ fds'[current] = Plumbed(fds'[Shell], pipe_fd', current < Len(cmd))
      /\ \A o \in Proc \ {Shell, current} : fds'[o] = fds[o]
      /\ pipe_fd'[1] # pipe_fd'[2]
  BY RoundOpens
<1>3. PICK c, t, ends, more : c = current /\ t = fds'[Shell] /\ ends = pipe_fd' /\ more = (c < Len(cmd))
  OBVIOUS
<1>4. PICK r, u : t = With(in_fd, r, u) /\ (more => t[ends[2]] = WriteEnd(c))
  <2>1. CASE more
    <3>1. t = With(in_fd, ends[1], ends[2])
      BY <1>2, <1>3, <2>1
    <3>2. ends[2] \in {3, 4, 5} /\ ends[2] # in_fd /\ ends[2] # ends[1]
      BY <1>2, <1>3
    <3>3. With(in_fd, ends[1], ends[2])[ends[2]] = WriteEnd(c)
      BY <1>2, <1>3, <3>2, WithIs
    <3>4. QED
      BY <3>1, <3>3
  <2>2. CASE ~more
    BY <1>2, <1>3, <2>2
  <2>3. QED
    BY <2>1, <2>2
<1>5. /\ fds'[c][0] = IF c > 1 THEN ReadEnd(c - 1) ELSE Tty
      /\ fds'[c][1] = IF c < Final THEN WriteEnd(c) ELSE Tty
  <2>1. more \in BOOLEAN /\ (more <=> c < Final)
    <3>1. (c < Len(cmd)) \in BOOLEAN
      OBVIOUS
    <3>2. more \in BOOLEAN
      BY <1>3, <3>1, Zenon
    <3>3. more <=> c < Final
      BY <1>1, <1>3, Zenon
    <3>4. QED
      BY <3>2, <3>3
  <2>2. ends[1] \in {3, 4} /\ ends[2] \in {4, 5} /\ ends[2] # in_fd
    BY <1>2, <1>3
  <2>3. more => t[ends[2]] = WriteEnd(current)
    BY <1>3, <1>4
  <2>4. /\ Plumbed(t, ends, more)[0] = IF in_fd # 0 THEN ReadEnd(current - 1) ELSE Tty
        /\ Plumbed(t, ends, more)[1] = IF more THEN WriteEnd(current) ELSE Tty
    BY <1>2, <1>4, <2>1, <2>2, <2>3, PlumbedIs
  <2>5. fds'[c] = Plumbed(t, ends, more)
    BY <1>2, <1>3
  <2>6. QED
    BY <1>2, <1>3, <2>1, <2>4, <2>5
<1>6. c \in Child /\ c \in 1 .. Final /\ c # Shell /\ c = current
  BY <1>1, <1>3, ProcIs
<1>7. pc[c] = "none"
  <2>1. pc[c] # "none" => c < current
    BY <1>1, <1>6 DEF Children
  <2>2. c \in Nat
    BY <1>6, ProcIs
  <2>3. QED
    BY <1>6, <2>1, <2>2
<1>8. PICK q \in {"close", "wait"} : q = "close"
  OBVIOUS
<1>9. /\ pc'[Shell] = q /\ pc'[c] = "redirect" /\ \A j \in Child : j # c => pc'[j] = pc[j]
      /\ \A j \in Child : j # c => fds'[j] = fds[j]
      /\ q = "wait" => Final = 1
  BY <1>1, <1>2, <1>6, <1>8, ProcIs
<1>10. (c < Final => pipe'[c] = <<>>) /\ \A j \in Child : j # c => pipe'[j] = pipe[j]
  BY <1>1, <1>6
<1>11. UNCHANGED <<cmd, before, files, screen, keyed, current>>
  BY <1>1
<1>12. QED
  BY <1>1, <1>5, <1>6, <1>7, <1>9, <1>10, <1>11, JoinPipes

\* The shell closes its ends of a pipe.
LEMMA CloseEndsPipes ==
  ASSUME ShellInv, CloseEnds, NEW w, Pipes(w)
  PROVE  Pipes(w)'
<1>1. /\ pc[Shell] = "close" /\ Forking /\ pc \in [Proc -> Pcs] /\ fds = [p \in Proc |-> fds[p]]
      /\ UNCHANGED <<cmd, before, files, screen, keyed, pipe>>
      /\ pc' = [pc EXCEPT ![Shell] = IF current < Len(cmd) THEN "fork" ELSE "wait"]
      /\ fds' = [fds EXCEPT ![Shell] = ParentTable(@)] /\ current' = current + 1
      /\ Len(cmd) \in Nat /\ current \in 1 .. Len(cmd)
  BY DEF CloseEnds, ShellInv, Types, Tables, parse, Forking, Sound
<1>2. \A k \in Child : pc'[k] = pc[k] /\ fds'[k] = fds[k]
  BY <1>1, ProcIs
<1>3. pc'[Shell] = IF current < Len(cmd) THEN "fork" ELSE "wait"
  BY <1>1, ProcIs
<1>4. Final' = Final /\ (\A j : Program(j)' = Program(j) /\ Taken(w, j)' = Taken(w, j))
      /\ (\A j : Forked(j)' <=> Forked(j)) /\ \A j, steps : AtStep(j, steps)' <=> AtStep(j, steps)
  BY <1>1, <1>2 DEF Final, Program, Taken, Forked, AtStep
<1>5. Sources' = Sources
  BY <1>1, <1>4 DEF Sources
<1>6. \A e : Composes(e)' => Composes(e)
  BY <1>4, <1>5 DEF Composes
<1>7. Forks'
  <2>1. \A k \in 1 .. current : Forked(k)'
    BY <1>1, <1>4 DEF Pipes, Forks
  <2>2. CASE current < Len(cmd)
    <3>1. current' - 1 = current
      BY <1>1
    <3>2. QED
      BY <1>3, <2>1, <2>2, <3>1 DEF Forks
  <2>3. CASE ~(current < Len(cmd))
    <3>1. Final = current /\ Final >= 1
      BY <1>1, <2>3 DEF Final
    <3>2. QED
      BY <1>3, <1>4, <2>1, <2>3, <3>1 DEF Forks
  <2>4. QED
    BY <2>2, <2>3
<1>8. Flow(w)' /\ Output(w)' /\ Input(w)' /\ OneWritten'
  BY <1>1, <1>4 DEF Pipes, Flow, Output, Input, OneWritten
<1>9. Holds(w)'
  <2>1. Holds(w) /\ \A k \in Child : k > 1 \/ k = 1
    BY ProcIs DEF Pipes
  <2>2. ASSUME NEW k \in Child, pc'[k] \in Active
        PROVE  /\ pc'[k] # "asked"
               /\ fds'[k][0] = IF k > 1 THEN ReadEnd(k - 1)
                               ELSE IF cmd[1].in = None \/ pc'[1] = "redirect" THEN Tty
                               ELSE FileAt(cmd[1].in, Len(Taken(w, 1)))
               /\ fds'[k][1] = IF k < Final THEN WriteEnd(k)
                               ELSE IF cmd[k].out = None \/ pc'[k] # "run" THEN Tty
                               ELSE FileAt(cmd[k].out, Len(w[k]))
    <3>1. pc'[k] = pc[k] /\ fds'[k] = fds[k]
      BY <1>2
    <3>2. ~(k > 1) => pc'[1] = pc[1]
      BY <2>1, <3>1
    <3>3. QED
      BY <2>1, <2>2, <3>1, <3>2 DEF Holds
  <2>3. QED
    BY <1>1, <1>4, <2>2 DEF Holds
<1>10. \A e : Composes(e)' => Follows(w, e)'
  BY <1>4, <1>6 DEF Pipes, Follows
<1>11. QED
  BY <1>7, <1>8, <1>9, <1>10 DEF Pipes

\* Nothing the pipes depend on changes.
LEMMA SamePipes ==
  ASSUME PipeInv, UNCHANGED <<pc, fds, pipe, files, cmd, before, screen, keyed, current>>
  PROVE  PipeInv'
<1>1. Final' = Final /\ (\A j : Program(j)' = Program(j)) /\ (\A w, j : Taken(w, j)' = Taken(w, j))
      /\ (\A j : Forked(j)' <=> Forked(j)) /\ (\A j, steps : AtStep(j, steps)' <=> AtStep(j, steps))
  BY DEF Final, Program, Taken, Forked, AtStep
<1>2. Sources' = Sources
  BY <1>1 DEF Sources
<1>3. \A e : Composes(e)' => Composes(e)
  BY <1>1, <1>2 DEF Composes
<1>4. \A w, e : Follows(w, e) => Follows(w, e)'
  BY <1>1 DEF Follows
<1>5. ASSUME NEW w, Pipes(w) PROVE Pipes(w)'
  <2>1. Flow(w)' /\ Output(w)' /\ Input(w)' /\ OneWritten' /\ Forks'
    BY <1>1, <1>5 DEF Pipes, Flow, Output, Input, OneWritten, Forks
  <2>2. Holds(w)'
    BY <1>1, <1>5 DEF Pipes, Holds
  <2>3. QED
    BY <1>3, <1>4, <1>5, <2>1, <2>2 DEF Pipes
<1>6. (Working' <=> Working) /\ (Plain' <=> Plain)
  BY DEF Working, Plain
<1>7. QED
  BY <1>5, <1>6 DEF PipeInv

\* No other step of the shell leads to a line being worked on.
LEMMA ElsePipes ==
  ASSUME ShellInv, Redirection(Shell) \/ RunBuiltin \/ ForkFails \/ WaitChildren
  PROVE  PipeInv'
<1>1. pc \in [Proc -> Pcs] /\ Shell \in Proc
  BY ProcIs DEF ShellInv, Types
<1> DEFINE Away == pc'[Shell] \notin {"fork", "close", "wait"}
<1>2. \A q : [pc EXCEPT ![Shell] = q][Shell] = q
  BY <1>1
<1>3. ASSUME Leave(Shell) PROVE Away
  <2>1. pc'[Shell] = "ended"
    BY <1>2, <1>3 DEF Leave, Gone
  <2>2. QED
    BY <2>1
<1>4. ASSUME NEW t, Proceed(Shell, t) PROVE Away
  <2>1. pc'[Shell] = "run"
    BY <1>2, <1>4 DEF Proceed, ExecFails
  <2>2. QED
    BY <2>1
<1>5. ASSUME NEW q \in {"output", "create", "asked", "read", "ended"}, pc' = [pc EXCEPT ![Shell] = q] PROVE Away
  BY <1>2, <1>5
<1> HIDE DEF Away
<1>6. ASSUME RedirectIn(Shell) PROVE Away
  BY <1>3, <1>5, <1>6 DEF RedirectIn
<1>7. ASSUME RedirectOut(Shell) PROVE Away
  BY <1>4, <1>5, <1>7 DEF RedirectOut
<1>8. ASSUME Ask(Shell) PROVE Away
  BY <1>3, <1>5, <1>8 DEF Ask
<1>9. ASSUME Answer(Shell) PROVE Away
  <2>1. ASSUME NEW c, NEW n, Reply(Shell, c, n) PROVE Away
    BY <1>3, <1>4, <2>1 DEF Reply
  <2>2. ASSUME pc' = pc PROVE Away
    BY <1>9, <2>2 DEF Answer, Away
  <2>3. QED
    BY <1>9, <2>1, <2>2 DEF Answer
<1>10. ASSUME RunBuiltin PROVE Away
  BY <1>5, <1>10 DEF RunBuiltin
<1>11. ASSUME ForkFails PROVE Away
  BY <1>3, <1>5, <1>11 DEF ForkFails
<1>12. ASSUME WaitChildren PROVE Away
  <2>1. pc'[Shell] = "read"
    BY <1>1, <1>12 DEF WaitChildren
  <2>2. QED
    BY <2>1 DEF Away
<1>13. ASSUME Create(Shell) PROVE Away
  BY <1>4, <1>13 DEF Create
<1>14. Away
  BY <1>6, <1>7, <1>8, <1>9, <1>10, <1>11, <1>12, <1>13 DEF Redirection
<1>15. QED
  BY <1>14 DEF PipeInv, Working, Away

\* A line is read, and perhaps begun.
LEMMA ReadPipes ==
  ASSUME ShellInv, PipeInv, ReadLine \/ ReadNothing
  PROVE  PipeInv'
<1>1. /\ pc[Shell] = "read" /\ inbuf \in Text /\ UNCHANGED <<pipe, files>>
      /\ pc \in [Proc -> Pcs] /\ Shell \in Proc
  BY ProcIs DEF ReadLine, ReadNothing, ShellInv, Types
<1>2. ASSUME NEW line \in Line, NEW left, Begin(split_line(line, left)),
             \/ NoCommand(split_line(line, left))
             \/ StartBuiltin(split_line(line, left))
             \/ StartExternal(split_line(line, left))
      PROVE  PipeInv'
  <2>1. PICK nodes : nodes = split_line(line, left)
    OBVIOUS
  <2>2. Sound(nodes) /\ Len(nodes) >= 1 /\ Begin(nodes)
    BY <1>2, <2>1, ParseTyped
  <2>3. CASE NoCommand(nodes) \/ StartBuiltin(nodes)
    <3>1. pc'[Shell] \in {"ended", "redirect"}
      BY <1>1, <2>3 DEF NoCommand, StartBuiltin, Leave, Gone
    <3>2. QED
      BY <3>1 DEF PipeInv, Working
  <2>4. CASE StartExternal(nodes)
    <3>1. UNCHANGED files
      BY <1>1
    <3>2. QED
      BY <1>1, <2>2, <2>4, <3>1, StartPipes DEF PipeInv
  <2>5. QED
    BY <1>2, <2>1, <2>3, <2>4
<1>3. CASE ReadLine
  <2>1. CASE UNCHANGED <<pc, fds, saved, current, in_fd, pipe_fd, parse, screen, keyed, consented>>
    BY <1>1, <2>1 DEF PipeInv, Working
  <2>2. ASSUME NEW line \in IF inbuf # <<>> THEN {Head(inbuf)} ELSE Lines, NEW left \in Lefts(line),
               Begin(split_line(line, left)),
               \/ NoCommand(split_line(line, left))
               \/ StartBuiltin(split_line(line, left))
               \/ StartExternal(split_line(line, left))
        PROVE  PipeInv'
    BY <1>1, <1>2, <2>2, LineTyped
  <2>3. QED
    BY <1>3, <2>1, <2>2 DEF ReadLine
<1>4. CASE ReadNothing
  <2>1. PICK line \in {<<>>, <<Garbage>>} :
          /\ Begin(split_line(line, <<Initialised>>))
          /\ \/ NoCommand(split_line(line, <<Initialised>>))
             \/ StartExternal(split_line(line, <<Initialised>>))
    BY <1>4 DEF ReadNothing
  <2>2. line \in Line
    BY <2>1, Words
  <2>3. QED
    BY <1>2, <2>1, <2>2
<1>5. QED
  BY <1>3, <1>4

\* The pipes of every plain line.
LEMMA PipesInvariant == Spec => []PipeInv
<1>1. Init => PipeInv
  <2> SUFFICES ASSUME Init PROVE ~Working
    BY DEF PipeInv
  <2>1. pc[Shell] = "read"
    BY ProcIs DEF Init
  <2>2. QED
    BY <2>1 DEF Working
<1>2. ShellInv /\ PipeInv /\ [Next]_vars => PipeInv'
  <2> SUFFICES ASSUME ShellInv, PipeInv, [Next]_vars PROVE PipeInv'
    OBVIOUS
  <2>1. CASE ReadLine \/ ReadNothing
    BY <2>1, ReadPipes
  <2>2. CASE Redirection(Shell) \/ RunBuiltin \/ ForkFails \/ WaitChildren
    BY <2>2, ElsePipes
  <2>3. ASSUME SpawnProc \/ ForkNode \/ CloseEnds, Working', Plain'
        PROVE  \E w : Pipes(w)'
    <3>1. UNCHANGED <<cmd, before>> /\ Working
      BY <2>3 DEF SpawnProc, ForkNode, CloseEnds, parse, Working
    <3>2. Plain
      BY <2>3, <3>1 DEF Plain
    <3>3. PICK w : Pipes(w)
      BY <3>1, <3>2 DEF PipeInv
    <3>4. Pipes(w)'
      BY <2>3, <3>3, SpawnProcPipes, ForkNodePipes, CloseEndsPipes
    <3>5. QED
      BY <3>4
  <2>4. CASE SpawnProc \/ ForkNode \/ CloseEnds
    BY <2>3, <2>4 DEF PipeInv
  <2>5. CASE Ended \/ UNCHANGED vars
    <3>1. UNCHANGED <<pc, fds, pipe, files, cmd, before, screen, keyed, current>>
      BY <2>5 DEF Ended, vars, parse, forking
    <3>2. QED
      BY <3>1, SamePipes
  <2>6. ASSUME NEW k \in Child, ChildStep(k) PROVE PipeInv'
    BY <2>6, ChildPipes
  <2>7. QED
    BY <2>1, <2>2, <2>4, <2>5, <2>6 DEF Next, ShellStep
<1>3. QED
  BY <1>1, <1>2, Invariant, PTL DEF Spec

-----------------------------------------------------------------------------
\* What the fold over the nodes computes for the sets of their positions.
PassesOver(g, base, D) ==
  g = [s \in D |-> IF s = {} THEN base ELSE Passed(Program(Max(s)), g[s \ {Max(s)}])]

\* There is such a function for any number of nodes.
LEMMA PassesExist ==
  ASSUME NEW n \in Nat, NEW base
  PROVE  \E g : PassesOver(g, base, SUBSET (1 .. n))
<1> DEFINE S == {m \in Nat : \E g : PassesOver(g, base, SUBSET (1 .. m))}
<1>1. 0 \in S
  <2> DEFINE g == [s \in SUBSET (1 .. 0) |-> base]
  <2>1. \A s \in SUBSET (1 .. 0) : s = {}
    OBVIOUS
  <2>2. PassesOver(g, base, SUBSET (1 .. 0))
    BY <2>1 DEF PassesOver
  <2>3. QED
    BY <2>2
<1>2. ASSUME NEW m \in Nat, m \in S PROVE m + 1 \in S
  <2>1. PICK g : PassesOver(g, base, SUBSET (1 .. m))
    BY <1>2
  <2> DEFINE D == SUBSET (1 .. m)
             E == SUBSET (1 .. m + 1)
             Next1(f, s) == IF s = {} THEN base ELSE Passed(Program(Max(s)), f[s \ {Max(s)}])
             h == [s \in E |-> Next1(g, s)]
  <2>2. ASSUME NEW u \in D PROVE h[u] = g[u]
    <3>1. u \in E
      OBVIOUS
    <3>2. g[u] = Next1(g, u)
      BY <2>1 DEF PassesOver
    <3>3. QED
      BY <3>1, <3>2
  <2>3. ASSUME NEW s \in E, s # {} PROVE s \ {Max(s)} \in D
    <3>1. m + 1 \in Nat /\ s \in SUBSET (1 .. m + 1) /\ s # {}
      BY <2>3
    <3>2. Max(s) \in s /\ \A y \in s : Max(s) >= y
      BY <3>1, MaxIs
    <3> HIDE DEF h
    <3>3. ASSUME NEW y \in s \ {Max(s)} PROVE y \in 1 .. m
      <4>1. y \in 1 .. m + 1 /\ Max(s) \in 1 .. m + 1 /\ Max(s) >= y /\ y # Max(s)
        BY <3>1, <3>2
      <4>2. QED
        BY <4>1
    <3>4. QED
      BY <3>3
  <2>4. \A s \in E : h[s] = Next1(h, s)
    BY <2>2, <2>3
  <2>5. PassesOver(h, base, E)
    <3>1. h = [s \in E |-> h[s]]
      OBVIOUS
    <3> HIDE DEF h, D, E
    <3>2. QED
      BY <2>4, <3>1 DEF PassesOver
  <2> HIDE DEF h, D
  <2>6. QED
    BY <2>5
<1> HIDE DEF S
<1>3. n \in S
  BY <1>1, <1>2, Induct
<1>4. QED
  BY <1>3 DEF S

\* What PipelineComposes makes of a source.
Composition(source) ==
  LET Step(text, node) == Passed(IF node.args = <<>> THEN None ELSE node.args[1], text)
  IN FoldLeft(Step, source, cmd)

\* The composition command by command.
LEMMA CompositionSteps ==
  ASSUME NEW source \in Text, Sound(cmd)
  PROVE  \E e : /\ e \in [0 .. Final -> Text]
                /\ e[0] = source
                /\ \A k \in 1 .. Final : e[k] = Passed(Program(k), e[k - 1])
                /\ e[Final] = Composition(source)
<1> DEFINE n == Len(cmd)
           g == CHOOSE f : PassesOver(f, source, SUBSET (1 .. n))
           e == [m \in 0 .. n |-> g[1 .. m]]
<1>1. n \in Nat /\ DOMAIN cmd = 1 .. n /\ Final = n
  BY DEF Sound, Final
<1> HIDE DEF n
<1>2. PassesOver(g, source, SUBSET (1 .. n))
  BY <1>1, PassesExist
<1>3. Composition(source) = g[1 .. n]
  BY <1>1 DEF Composition, FoldLeft, MapThenFoldSet, PassesOver, Program
<1> HIDE DEF g
<1>4. \A s \in SUBSET (1 .. n) :
        g[s] = IF s = {} THEN source ELSE Passed(Program(Max(s)), g[s \ {Max(s)}])
  BY <1>2 DEF PassesOver
<1>5. e[0] = source
  <2>1. 1 .. 0 = {} /\ {} \in SUBSET (1 .. n) /\ 0 \in 0 .. n
    BY <1>1
  <2>2. QED
    BY <1>4, <2>1
<1>6. ASSUME NEW m \in Nat, m + 1 <= n
      PROVE  e[m + 1] = Passed(Program(m + 1), e[m])
  <2> DEFINE l == m + 1
  <2>1. l \in Nat /\ l >= 1 /\ l \in 0 .. n /\ m \in 0 .. n /\ (1 .. l) \ {l} = 1 .. m
    BY <1>1, <1>6
  <2> HIDE DEF l
  <2>2. 1 .. l # {} /\ 1 .. l \in SUBSET (1 .. n) /\ Max(1 .. l) = l
    BY <1>1, <2>1, LastIs
  <2>3. g[1 .. l] = Passed(Program(l), g[1 .. m])
    BY <1>4, <2>1, <2>2
  <2>4. e[l] = Passed(Program(l), e[m])
    BY <2>1, <2>3
  <2>5. QED
    BY <2>4 DEF l
<1>7. e[n] = Composition(source)
  BY <1>1, <1>3
<1>8. e = [m \in 0 .. n |-> e[m]]
  OBVIOUS
<1> HIDE DEF e
<1>9. ASSUME NEW m \in 0 .. n PROVE e[m] \in Text
  <2> DEFINE S == {x \in Nat : x <= n => e[x] \in Text}
  <2>1. 0 \in S
    BY <1>5
  <2>2. ASSUME NEW x \in Nat, x \in S PROVE x + 1 \in S
    <3>1. CASE x + 1 <= n
      <4>1. e[x] \in Text
        BY <1>1, <2>2, <3>1
      <4>2. e[x + 1] \in Text
        BY <1>6, <3>1, <4>1, PassedIs
      <4>3. QED
        BY <4>2
    <3>2. CASE ~(x + 1 <= n)
      BY <3>2
    <3>3. QED
      BY <3>1, <3>2
  <2> HIDE DEF S
  <2>3. m \in S
    BY <1>1, <2>1, <2>2, Induct
  <2>4. QED
    BY <1>1, <2>3 DEF S
<1>10. ASSUME NEW k \in 1 .. n PROVE e[k] = Passed(Program(k), e[k - 1])
  <2> DEFINE m == k - 1
  <2>1. m \in Nat /\ m + 1 <= n /\ m + 1 = k
    BY <1>1
  <2> HIDE DEF m
  <2>2. e[m + 1] = Passed(Program(m + 1), e[m])
    BY <1>6, <2>1
  <2>3. QED
    BY <2>1, <2>2 DEF m
<1>11. e \in [0 .. n -> Text]
  BY <1>8, <1>9
<1>12. QED
  BY <1>1, <1>5, <1>7, <1>10, <1>11

\* What has arrived when all commands have ended.
LEMMA Arrived ==
  ASSUME ShellInv, PipeInv
  PROVE  PipelineComposes
<1> SUFFICES ASSUME pc[Shell] = "wait", AllDone, Plain PROVE PipelineComposes
  BY DEF PipelineComposes
<1>1. Working /\ Sound(cmd)
  BY DEF Working, ShellInv, Types
<1>2. PICK w : Pipes(w)
  BY <1>1 DEF PipeInv
<1>3. /\ Final \in Nat /\ Final >= 1 /\ DOMAIN cmd = 1 .. Final
      /\ \A k \in 1 .. Final : k \in Child /\ AtStep(k, {"dead"})
  <2>1. Final \in Nat /\ DOMAIN cmd = 1 .. Final
    BY <1>1 DEF Sound, Final
  <2>2. Final >= 1 /\ \A k \in 1 .. Final : k \in Child
    BY <1>2 DEF Pipes, Forks, Forked
  <2>3. QED
    BY <2>1, <2>2 DEF AllDone, AtStep
<1>4. 1 \in 1 .. Final /\ Final \in 1 .. Final
  BY <1>3
<1> DEFINE source == IF cmd[1].in = None THEN keyed ELSE before[cmd[1].in]
<1>5. source \in Text
  <2>1. CASE cmd[1].in = None
    BY <1>2, <2>1 DEF Pipes, Input
  <2>2. CASE cmd[1].in # None
    <3>1. cmd[1].in \in Name /\ before[cmd[1].in] # Absent
      BY <2>2 DEF Plain
    <3>2. cmd[1].in # cmd[Final].out
      <4>1. cmd[Final].out # None => before[cmd[Final].out] = Absent
        BY DEF Plain, Final
      <4>2. QED
        BY <2>2, <3>1, <4>1
    <3>3. before[cmd[1].in] = files[cmd[1].in]
      BY <1>2, <3>1, <3>2 DEF Pipes, OneWritten
    <3>4. QED
      BY <2>2, <3>1, <3>3 DEF ShellInv, Types
  <2>3. QED
    BY <2>1, <2>2
<1>6. source \in Sources
  BY <1>3, <1>4 DEF Sources
<1> HIDE DEF source
<1>7. PICK e : /\ e \in [0 .. Final -> Text]
               /\ e[0] = source
               /\ \A k \in 1 .. Final : e[k] = Passed(Program(k), e[k - 1])
               /\ e[Final] = Composition(source)
  BY <1>1, <1>5, CompositionSteps
<1>8. Composes(e)
  BY <1>6, <1>7 DEF Composes
<1>9. w[Final] = Composition(source)
  <2>1. AtStep(Final, {"dead"}) /\ ~(Final < Final)
    BY <1>3, <1>4
  <2>2. Follows(w, e)
    BY <1>2, <1>8 DEF Pipes
  <2>3. w[Final] = e[Final]
    BY <1>4, <2>1, <2>2 DEF Follows
  <2>4. QED
    BY <1>7, <2>3
<1>10. (IF cmd[Final].out = None THEN screen ELSE files[cmd[Final].out]) = w[Final]
  <2>1. AtStep(Final, {"run", "dead"})
    BY <1>3, <1>4 DEF AtStep
  <2>2. QED
    BY <1>2, <2>1 DEF Pipes, Output
<1>11. QED
  BY <1>9, <1>10 DEF PipelineComposes, Composition, Final, source

\* When all commands of a plain line have ended, what has arrived at its end, the screen or
\* the file of >, is the composition of the programs applied to what the first one had to
\* read, the keyboard's lines or the file of <, for every number and order of the commands,
\* however the kernel interleaves them and splits their reads and writes (shell.c:142-186).
THEOREM ShellPipelineComposes == Spec => []PipelineComposes
<1>1. ShellInv /\ PipeInv => PipelineComposes
  BY Arrived
<1>2. QED
  BY <1>1, Invariant, PipesInvariant, PTL

=============================================================================
