------------------------------- MODULE Shell -------------------------------
(***************************************************************************)
(* The shell of lab2 and the commands it starts, process by process.       *)
(* Standard input and output of the shell are a terminal, so that stdout   *)
(* is flushed at every newline and before every read.  A text is a         *)
(* sequence of lines, a line a sequence of words: what a command prints    *)
(* and what the shell reads as a command are of one kind.                  *)
(***************************************************************************)
EXTENDS Descriptors, CommandLine

CONSTANTS
  MaxRecord,   \* MAX_RECORD_NUM
  Name,        \* names of files
  InitFiles,   \* [Name -> text], Absent where there is no file
  Lines,       \* lines that may be typed at the prompt
  MaxTyped,    \* how many lines are typed before the input ends
  MaxCmds,     \* commands of the longest line
  PipeCap      \* lines a pipe holds

ASSUME SizeAssumption == MaxRecord \in Nat \ {0} /\ MaxCmds \in Nat \ {0}
ASSUME TextAssumption ==
  Lines \subseteq Seq(STRING) /\ InitFiles \in [Name -> Seq(Seq(STRING))]

Shell == 0
Child == 1..MaxCmds
Proc == {Shell} \cup Child
Absent == << <<"absent">> >>
Notice == <<"notice">>
Garbage == "garbage"

ASSUME GarbageAssumption == First(Garbage) \notin {"|", "<", ">"}

Replies == {<<"y">>, <<"n">>}
Builtins == {"help", "cd", "pwd", "echo", "exit", "record"}
Filters == {"cat", "head"}
Programs == Filters \cup {"ls"}

VARIABLES
  pc,             \* where each process is
  fds,            \* descriptor table of each process
  pipe,           \* contents of the pipe between command k and k + 1
  files,          \* contents of the files
  cmd,            \* the nodes of the line at hand
  current,        \* the node fork_cmd_node is at
  in_fd, pipe_fd, \* its variables
  saved,          \* in and out: the shell's own 0 and 1 while a built-in runs
  inbuf,          \* lines stdin's buffer holds
  history, history_count,
  pool,           \* freed nodes, the last freed at the end: were in and out set?
  typed,          \* lines taken from the terminal
  accepted,       \* every line put into the history
  before, screen, keyed, consented  \* of this line: files at its start, what the
                  \* terminal has shown and has given to commands, files allowed to be overwritten

parse == <<cmd, pool, history, history_count, accepted, before>>
forking == <<current, in_fd, pipe_fd>>
vars == <<pc, fds, pipe, files, parse, forking, saved, inbuf, typed, screen, keyed, consented>>

NoFields == [in |-> FALSE, out |-> FALSE]

Init ==
  /\ pc = [p \in Proc |-> IF p = Shell THEN "read" ELSE "none"]
  /\ fds = [p \in Proc |-> IF p = Shell THEN TtyTable ELSE NoTable]
  /\ pipe = [k \in Child |-> <<>>]
  /\ files = InitFiles
  /\ cmd = <<>>
  /\ current = 1 /\ in_fd = 0 /\ pipe_fd = <<0, 0>> /\ saved = <<0, 0>>
  /\ inbuf = <<>>
  /\ history = [i \in 0..MaxRecord - 1 |-> <<>>]
  /\ history_count = 0
  /\ pool = <<>>
  /\ typed = 0
  /\ accepted = <<>>
  /\ before = InitFiles
  /\ screen = <<>> /\ keyed = <<>> /\ consented = {}

-----------------------------------------------------------------------------
(* Reading and writing.                                                    *)

Readers(k) == {p \in Proc : \E fd \in Fd : fds[p][fd] = ReadEnd(k)}
Writers(k) == {p \in Proc : \E fd \in Fd : fds[p][fd] = WriteEnd(k)}

\* A text written to a file at a position; a gap before it reads as empty lines.
WriteAt(text, n, ls) ==
  [i \in 1..Max({Len(text), n + Len(ls)}) |->
     CASE i \in n + 1..n + Len(ls) -> ls[i - n]
       [] i \notin n + 1..n + Len(ls) /\ i <= Len(text) -> text[i]
       [] OTHER -> <<>>]

Advance(d, n) == IF IsFile(d) THEN FileAt(d[2], d[3] + n) ELSE d

\* p's descriptor 1 takes the lines ls of a text; a full pipe makes p wait.
HasRoom(p) == IsPipeEnd(fds[p][1]) => Len(pipe[fds[p][1][2]]) < PipeCap
Broken(p) == IsPipeEnd(fds[p][1]) /\ Readers(fds[p][1][2]) = {}
Shown(d, ls) == IF d = Tty THEN screen \o ls ELSE screen
Filed(d, ls) == IF IsFile(d) THEN [files EXCEPT ![d[2]] = WriteAt(@, d[3], ls)] ELSE files
Piped(pp, d, ls) == IF IsPipeEnd(d) THEN [pp EXCEPT ![d[2]] = @ \o ls] ELSE pp

\* What one read of p's descriptor 0 may return, <<>> at the end of the input:
\* the terminal a line or the end, a file all from here on, a pipe all it holds.
Chunks(p) ==
  LET d == fds[p][0] IN
  CASE d = Tty -> {<<>>} \cup IF typed < MaxTyped THEN {<<r>> : r \in Replies} ELSE {}
    [] IsFile(d) -> {SubSeq(files[d[2]], d[3] + 1, Len(files[d[2]]))}
    [] IsPipeEnd(d) -> IF pipe[d[2]] # <<>> THEN {pipe[d[2]]}
                       ELSE IF Writers(d[2]) = {} THEN {<<>>} ELSE {}
    [] OTHER -> {<<>>}

\* The table and the pipes after p has read n lines through descriptor 0.
ReadOn(p, n) == [fds[p] EXCEPT ![0] = Advance(@, n)]
Drained(p, n) == IF IsPipeEnd(fds[p][0])
                 THEN [pipe EXCEPT ![fds[p][0][2]] = SubSeq(@, n + 1, Len(@))] ELSE pipe
FromTty(p, c) == IF fds[p][0] = Tty THEN c ELSE <<>>

\* exit(): a process is gone and its descriptors are closed.
Gone(p) == IF p = Shell THEN "ended" ELSE "dead"
Leave(p) == /\ pc' = [pc EXCEPT ![p] = Gone(p)]
            /\ fds' = [fds EXCEPT ![p] = NoTable]

-----------------------------------------------------------------------------
(* The command loop: read_line, split_line, searchBuiltInCommand.          *)

\* The text a stale pointer leads to is in the buffer of the current line: any name.
Leftovers(k) ==
  LET n == Len(pool) + 1 - k
      was == IF n \in DOMAIN pool THEN pool[n] ELSE NoFields
  IN [in : IF was.in THEN Name ELSE {None}, out : IF was.out THEN Name ELSE {None}]

Nodes(line) == Cardinality(Bars(line)) + 1

\* All that malloc may have left in the nodes after the first.
Lefts(line) ==
  {left \in [1..Nodes(line) -> UNION {Leftovers(k) : k \in 1..Nodes(line)}] :
     \A k \in 1..Nodes(line) : left[k] \in Leftovers(k)}

\* A new line: its nodes are allocated, and all that is told of a line starts anew.
Begin(nodes) ==
  /\ cmd' = nodes
  /\ pool' = SubSeq(pool, 1, Max({0, Len(pool) - Len(nodes)}))
  /\ current' = 1 /\ in_fd' = 0 /\ pipe_fd' = pipe_fd
  /\ before' = files /\ screen' = <<>> /\ keyed' = <<>> /\ consented' = {}

IsBuiltin(nodes) == nodes[1].args # <<>> /\ nodes[1].args[1] \in Builtins

\* strcmp(NULL, ...) ends the shell.
NoCommand(nodes) ==
  /\ Len(nodes) = 1 /\ nodes[1].args = <<>>
  /\ Leave(Shell)
  /\ UNCHANGED saved

\* dup of 0 and of 1.
StartBuiltin(nodes) ==
  LET in == LowestFree(fds[Shell])
      t == Open(fds[Shell], fds[Shell][0])
  IN /\ Len(nodes) = 1 /\ IsBuiltin(nodes)
     /\ saved' = <<in, LowestFree(t)>>
     /\ fds' = [fds EXCEPT ![Shell] = Open(t, t[1])]
     /\ pc' = [pc EXCEPT ![Shell] = "redirect"]

StartExternal(nodes) ==
  /\ Len(nodes) = 1 => nodes[1].args # <<>> /\ ~IsBuiltin(nodes)
  /\ pc' = [pc EXCEPT ![Shell] = "fork"]
  /\ UNCHANGED <<fds, saved>>

\* Mutant: the line is counted before it is stored.
CountThenStore(line) ==
  /\ history' = [history EXCEPT ![(history_count + 1) % MaxRecord] = line]
  /\ history_count' = history_count + 1
  /\ accepted' = Append(accepted, line)
Remember(line) ==
  /\ history' = [history EXCEPT ![history_count % MaxRecord] = line]
  /\ history_count' = history_count + 1
  /\ accepted' = Append(accepted, line)

\* read_line: a line from stdin's buffer or typed.  Empty ones are skipped.
ReadLine ==
  /\ pc[Shell] = "read"
  /\ \E line \in IF inbuf # <<>> THEN {Head(inbuf)} ELSE Lines :
       /\ inbuf = <<>> => typed < MaxTyped
       /\ inbuf' = IF inbuf # <<>> THEN Tail(inbuf) ELSE inbuf
       /\ typed' = IF inbuf # <<>> THEN typed ELSE typed + 1
       /\ \/ /\ line = <<>>
             /\ UNCHANGED <<pc, fds, saved, current, in_fd, pipe_fd, parse, screen, keyed, consented>>
          \/ /\ line # <<>>
             /\ Remember(line)
             /\ \E left \in Lefts(line) :
                  LET nodes == split_line(line, left) IN
                  /\ Begin(nodes)
                  /\ NoCommand(nodes) \/ StartBuiltin(nodes) \/ StartExternal(nodes)
  /\ UNCHANGED <<pipe, files>>

\* At the end of the input fgets leaves the buffer as malloc returned it: an
\* empty string, or a word no program has for a name.
ReadNothing ==
  /\ pc[Shell] = "read"
  /\ inbuf = <<>>
  /\ \E line \in {<<>>, <<Garbage>>} :
       LET nodes == split_line(line, <<Initialised>>) IN
       /\ Begin(nodes)
       /\ NoCommand(nodes) \/ StartExternal(nodes)
  /\ UNCHANGED <<pipe, files, inbuf, typed, history, history_count, accepted>>

\* free of the nodes, first to last.
Freed == pool \o [k \in DOMAIN cmd |-> [in |-> cmd[k].in # None, out |-> cmd[k].out # None]]
FreeNodes == /\ cmd' = <<>>
             /\ pool' = Freed

-----------------------------------------------------------------------------
(* redirection(), by the shell for a built-in and by a child for itself.   *)

Node(p) == IF p = Shell THEN cmd[1] ELSE cmd[p]

\* execvp() follows in a child, execBuiltInCommand() in the shell.
ExecFails(p) == LET args == Node(p).args
                IN p # Shell /\ (args = <<>> \/ args[1] \notin Programs)
Proceed(p, t) ==
  IF ExecFails(p)
  THEN Leave(p)
  ELSE /\ pc' = [pc EXCEPT ![p] = "run"]
       /\ fds' = [fds EXCEPT ![p] = t]

Exists(f) == f \in Name /\ files[f] # Absent

RedirectIn(p) ==
  /\ pc[p] = "redirect"
  /\ \/ /\ Node(p).in = None
        /\ pc' = [pc EXCEPT ![p] = "output"]
        /\ UNCHANGED fds
     \/ /\ Node(p).in # None /\ Exists(Node(p).in)
        /\ pc' = [pc EXCEPT ![p] = "output"]
        /\ fds' = [fds EXCEPT ![p][0] = FileAt(Node(p).in, 0)]
     \/ /\ Node(p).in # None /\ ~Exists(Node(p).in)
        /\ Leave(p)
  /\ UNCHANGED <<pipe, files, parse, forking, saved, inbuf, typed, screen, keyed, consented>>

\* Mutant: the file is opened without a look whether it is there.
NeverAsks(p) == FALSE
MustAsk(p) == Exists(Node(p).out)

\* access: the file is not there, or there is none.
RedirectOut(p) ==
  /\ pc[p] = "output"
  /\ \/ /\ Node(p).out = None
        /\ Proceed(p, fds[p])
     \/ /\ Node(p).out # None /\ ~MustAsk(p)
        /\ pc' = [pc EXCEPT ![p] = "create"]
        /\ UNCHANGED fds
  /\ UNCHANGED <<pipe, files, parse, forking, saved, inbuf, typed, screen, keyed, consented>>

\* open with O_CREAT and O_TRUNC, and dup2 to 1.
ToFile(p, t) == [t EXCEPT ![1] = FileAt(Node(p).out, 0)]

\* Another process may have made the file since access was called.
Create(p) ==
  /\ pc[p] = "create"
  /\ Proceed(p, ToFile(p, fds[p]))
  /\ files' = [files EXCEPT ![Node(p).out] = <<>>]
  /\ UNCHANGED <<pipe, parse, forking, saved, inbuf, typed, screen, keyed, consented>>

Blank(text) == \A i \in DOMAIN text : text[i] = <<>>

\* The question whether to overwrite the file goes to descriptor 1, which is
\* still the terminal or a pipe, when scanf has to read.  With an answer in stdin's
\* buffer it stays in stdout's.
Ask(p) ==
  /\ pc[p] = "output"
  /\ Node(p).out # None /\ MustAsk(p)
  /\ \/ /\ ~Blank(inbuf)
        /\ pc' = [pc EXCEPT ![p] = "asked"]
        /\ UNCHANGED <<fds, pipe, screen>>
     \/ /\ Blank(inbuf) /\ Broken(p) /\ Leave(p)
        /\ UNCHANGED <<pipe, screen>>
     \/ /\ Blank(inbuf) /\ ~Broken(p) /\ HasRoom(p)
        /\ pc' = [pc EXCEPT ![p] = "asked"]
        /\ screen' = Shown(fds[p][1], <<Notice>>)
        /\ pipe' = Piped(pipe, fds[p][1], <<Notice>>)
        /\ UNCHANGED fds
  /\ UNCHANGED <<files, parse, forking, saved, inbuf, typed, keyed, consented>>

\* What is left of a line without its first character; what begins with a
\* space or a newline read_line skips.
Remainder(line) ==
  IF line[1] \in {"y", "n", "|", "<", ">"} THEN <<>> ELSE <<(<<Garbage>>) \o Tail(line)>>

\* scanf skips the blank lines before the answer.
FirstWords(text) == CHOOSE i \in DOMAIN text : text[i] # <<>> /\ Blank(SubSeq(text, 1, i - 1))

\* A question still in stdout's buffer goes to the file at exit().  What is printed
\* instead has it before its first line, and execvp() drops it.
Flushed(p) ==
  IF ~Blank(inbuf) /\ (ExecFails(p) \/ (p = Shell /\ Node(p).args[1] = "exit"))
  THEN <<Notice>> ELSE <<>>

\* The answer is the first character that is not a space: of stdin's buffer, of
\* which a child has a copy, or else of what descriptor 0 has become.
Reply(p, c, n) ==
  LET t == ReadOn(p, n)
      said == c[FirstWords(c)]
      yes == c # <<>> /\ said[1] = "y"
  IN /\ inbuf' = IF p = Shell /\ c # <<>>
                 THEN Remainder(said) \o SubSeq(c, FirstWords(c) + 1, Len(c)) ELSE inbuf
     /\ \/ /\ yes
           /\ Proceed(p, ToFile(p, t))
           /\ files' = [files EXCEPT ![Node(p).out] = Flushed(p)]
           /\ consented' = consented \cup {Node(p).out}
           /\ pipe' = Drained(p, n)
           /\ UNCHANGED screen
        \/ /\ ~yes /\ Broken(p) /\ Leave(p)
           /\ pipe' = Drained(p, n)
           /\ UNCHANGED <<files, screen, consented>>
        \/ /\ ~yes /\ ~Broken(p) /\ HasRoom(p)
           /\ Proceed(p, t)
           /\ screen' = Shown(fds[p][1], <<Notice>>)
           /\ pipe' = Piped(Drained(p, n), fds[p][1], <<Notice>>)
           /\ UNCHANGED <<files, consented>>

Answer(p) ==
  /\ pc[p] = "asked"
  /\ \/ /\ ~Blank(inbuf)
        /\ Reply(p, inbuf, 0)
        /\ UNCHANGED typed
     \/ /\ Blank(inbuf)
        /\ \E c \in Chunks(p) :
             /\ typed' = typed + Len(FromTty(p, c))
             /\ \/ /\ c # <<>> => ~Blank(c)
                   /\ Reply(p, c, Len(c))
                \/ /\ c # <<>> /\ Blank(c)
                   /\ fds' = [fds EXCEPT ![p] = ReadOn(p, Len(c))]
                   /\ pipe' = Drained(p, Len(c))
                   /\ UNCHANGED <<pc, files, screen, inbuf, consented>>
  /\ UNCHANGED <<parse, forking, saved, keyed>>

-----------------------------------------------------------------------------
(* Built-ins.                                                              *)

\* record: the last MaxRecord lines, the oldest first.
\* Mutant: from the first slot on, wherever the oldest is.
FromFirstSlot ==
  [i \in 1..Min({history_count, MaxRecord}) |-> history[i - 1]]
Recorded ==
  IF history_count < MaxRecord
  THEN [i \in 1..history_count |-> history[i - 1]]
  ELSE [i \in 1..MaxRecord |-> history[((history_count % MaxRecord) + i - 1) % MaxRecord]]

NoNewline(args) == args[1] = "echo" /\ Len(args) > 1 /\ args[2] = "-n"

Printed(args) ==
  CASE args[1] = "echo" -> <<SubSeq(args, IF NoNewline(args) THEN 3 ELSE 2, Len(args))>>
    [] args[1] = "record" -> Recorded
    [] args[1] \in {"help", "pwd"} -> <<Notice>>
    [] OTHER -> <<>>

\* dup2 of what has been redirected, and close of both copies.
\* Mutant: standard output is left as the built-in had it.
RestoreInput(t) ==
  LET a == IF Node(Shell).in # None THEN Dup2(t, saved[1], 0) ELSE t
  IN Close(Close(a, saved[1]), saved[2])
Restored(t) ==
  LET a == IF Node(Shell).in # None THEN Dup2(t, saved[1], 0) ELSE t
      b == IF Node(Shell).out # None THEN Dup2(a, saved[2], 1) ELSE a
  IN Close(Close(b, saved[1]), saved[2])

\* Text without a newline is still in stdout's buffer when 1 is the terminal again.
RunBuiltin ==
  /\ pc[Shell] = "run"
  /\ LET args == Node(Shell).args
         d == IF NoNewline(args) THEN Restored(fds[Shell])[1] ELSE fds[Shell][1]
     IN /\ screen' = Shown(d, Printed(args))
        /\ files' = Filed(d, Printed(args))
        /\ pc' = [pc EXCEPT ![Shell] = IF args[1] = "exit" THEN "ended" ELSE "read"]
        /\ fds' = [fds EXCEPT ![Shell] = IF args[1] = "exit" THEN NoTable ELSE Restored(@)]
  /\ FreeNodes
  /\ UNCHANGED <<pipe, forking, saved, inbuf, history, history_count, accepted, before,
                 typed, keyed, consented>>

-----------------------------------------------------------------------------
(* External commands: spawn_proc for one, fork_cmd_node for several.       *)

\* What a child does to its copy of the table before it redirects.
\* Mutant: its standard output stays the shell's.
PlumbedInput(t, ends, more) ==
  LET a == IF in_fd # 0 THEN Close(Dup2(t, in_fd, 0), in_fd) ELSE t
  IN Close(IF more THEN Close(a, ends[2]) ELSE a, ends[1])
\* Mutant: it keeps the descriptors it has duplicated.
PlumbedOnly(t, ends, more) ==
  LET a == IF in_fd # 0 THEN Dup2(t, in_fd, 0) ELSE t
  IN IF more THEN Dup2(a, ends[2], 1) ELSE a
Plumbed(t, ends, more) ==
  LET a == IF in_fd # 0 THEN Close(Dup2(t, in_fd, 0), in_fd) ELSE t
      b == IF more THEN Close(Dup2(a, ends[2], 1), ends[2]) ELSE a
  IN Close(b, ends[1])

SpawnProc ==
  /\ pc[Shell] = "fork"
  /\ Len(cmd) = 1
  /\ pc' = [pc EXCEPT ![Shell] = "wait", ![1] = "redirect"]
  /\ fds' = [fds EXCEPT ![1] = fds[Shell]]
  /\ UNCHANGED <<pipe, files, parse, forking, saved, inbuf, typed, screen, keyed, consented>>

\* pipe, when another command follows, and fork.
ForkNode ==
  LET more == current < Len(cmd)
      r == LowestFree(fds[Shell])
      t == Open(fds[Shell], ReadEnd(current))
      ends == IF more THEN <<r, LowestFree(t)>> ELSE pipe_fd
      table == IF more THEN Open(t, WriteEnd(current)) ELSE fds[Shell]
  IN /\ pc[Shell] = "fork"
     /\ Len(cmd) > 1 /\ current \in Child
     /\ pipe_fd' = ends
     /\ pipe' = IF more THEN [pipe EXCEPT ![current] = <<>>] ELSE pipe
     /\ pc' = [pc EXCEPT ![Shell] = "close", ![current] = "redirect"]
     /\ fds' = [fds EXCEPT ![Shell] = table, ![current] = Plumbed(table, ends, more)]
     /\ UNCHANGED <<files, parse, current, in_fd, saved, inbuf, typed, screen, keyed, consented>>

\* The parent's part of the round.
ParentTable(t) ==
  LET a == Close(t, pipe_fd[2])
  IN IF in_fd # 0 THEN Close(a, in_fd) ELSE a

CloseEnds ==
  /\ pc[Shell] = "close"
  /\ fds' = [fds EXCEPT ![Shell] = ParentTable(@)]
  /\ in_fd' = pipe_fd[1]
  /\ current' = current + 1
  /\ pc' = [pc EXCEPT ![Shell] = IF current < Len(cmd) THEN "fork" ELSE "wait"]
  /\ UNCHANGED <<pipe, files, parse, pipe_fd, saved, inbuf, typed, screen, keyed, consented>>

\* fork or pipe fails: spawn_proc gives up the line, fork_cmd_node the shell.
ForkFails ==
  /\ pc[Shell] = "fork"
  /\ \/ /\ Len(cmd) = 1
        /\ pc' = [pc EXCEPT ![Shell] = "read"]
        /\ FreeNodes
        /\ UNCHANGED fds
     \/ /\ Len(cmd) > 1
        /\ Leave(Shell)
        /\ UNCHANGED <<cmd, pool>>
  /\ UNCHANGED <<pipe, files, forking, saved, inbuf, history, history_count, accepted, before,
                 typed, screen, keyed, consented>>

\* waitpid, or wait until there is no child left.
\* Mutant: fork_cmd_node waits for the last command only.
LastDone == pc[Len(cmd)] = "dead"
AllDone == \A k \in DOMAIN cmd : pc[k] = "dead"

WaitChildren ==
  /\ pc[Shell] = "wait"
  /\ AllDone
  /\ pc' = [p \in Proc |-> CASE p = Shell -> "read"
                             [] p \in DOMAIN cmd /\ pc[p] = "dead" -> "none"
                             [] OTHER -> pc[p]]
  /\ FreeNodes
  /\ UNCHANGED <<fds, pipe, files, forking, saved, inbuf, history, history_count, accepted,
                 before, typed, screen, keyed, consented>>

-----------------------------------------------------------------------------
(* The programs, which are not the repository's: cat copies every line,    *)
(* head one; ls prints a line and reads nothing.                           *)

Copies(k, l, n) ==
  LET t == ReadOn(k, n)
      last == cmd[k].args[1] # "cat"
  IN /\ pc' = [pc EXCEPT ![k] = IF last THEN "dead" ELSE "run"]
     /\ fds' = [fds EXCEPT ![k] = IF last THEN NoTable ELSE [t EXCEPT ![1] = Advance(@, 1)]]
     /\ screen' = Shown(fds[k][1], <<l>>)
     /\ files' = Filed(fds[k][1], <<l>>)
     /\ pipe' = Piped(Drained(k, n), fds[k][1], <<l>>)

\* A line goes from standard input to standard output; without readers the
\* writer dies of SIGPIPE.
Copy(k) ==
  /\ pc[k] = "run"
  /\ \/ /\ cmd[k].args[1] \in Filters
        /\ \E c \in Chunks(k) :
             \/ /\ c # <<>> /\ ~Broken(k) /\ HasRoom(k)
                /\ Copies(k, c[1], 1)
                /\ typed' = typed + Len(FromTty(k, <<c[1]>>))
                /\ keyed' = keyed \o FromTty(k, <<c[1]>>)
             \/ /\ c # <<>> /\ Broken(k)
                /\ Leave(k)
                /\ UNCHANGED <<pipe, files, screen, typed, keyed>>
     \/ /\ cmd[k].args[1] = "ls" /\ ~Broken(k) /\ HasRoom(k)
        /\ Copies(k, Notice, 0)
        /\ UNCHANGED <<typed, keyed>>
     \/ /\ cmd[k].args[1] = "ls" /\ Broken(k)
        /\ Leave(k)
        /\ UNCHANGED <<pipe, files, screen, typed, keyed>>
  /\ UNCHANGED <<parse, forking, saved, inbuf, consented>>

ReadsEnd(k) ==
  /\ pc[k] = "run"
  /\ cmd[k].args[1] \in Filters
  /\ <<>> \in Chunks(k)
  /\ Leave(k)
  /\ UNCHANGED <<pipe, files, parse, forking, saved, inbuf, typed, screen, keyed, consented>>

Ended ==
  /\ pc[Shell] = "ended"
  /\ \A k \in Child : pc[k] \in {"none", "dead"}
  /\ UNCHANGED vars

-----------------------------------------------------------------------------
Redirection(p) == RedirectIn(p) \/ RedirectOut(p) \/ Create(p) \/ Ask(p) \/ Answer(p)
ShellStep == \/ Redirection(Shell) \/ RunBuiltin \/ SpawnProc \/ ForkNode \/ CloseEnds
             \/ ForkFails \/ WaitChildren
ChildStep(k) == Redirection(k) \/ Copy(k) \/ ReadsEnd(k)

Next == \/ ReadLine \/ ReadNothing \/ ShellStep \/ Ended
        \/ \E k \in Child : ChildStep(k)

Spec == Init /\ [][Next]_vars
FairSpec == Spec /\ WF_vars(ShellStep) /\ \A k \in Child : WF_vars(ChildStep(k))

-----------------------------------------------------------------------------
(* Properties.                                                             *)

\* At the prompt the shell has the terminal at 0, 1 and 2 and nothing else open,
\* and none of its children is left (shell.c:215-221, 171-186).
PromptClean ==
  pc[Shell] = "read" => /\ fds[Shell] = TtyTable
                        /\ \A k \in Child : pc[k] = "none"

\* Each command of a line has the arguments and the redirections the line gives
\* it, and one it does not give only if an earlier line had that kind (command.c:60-84).
CommandsAsWritten ==
  pc[Shell] \notin {"read", "ended"} /\ cmd[1].args # <<Garbage>> =>
    LET line == accepted[Len(accepted)]
        Had(sign) == \E i \in 1..Len(accepted) - 1 : \E j \in DOMAIN accepted[i] :
                       First(accepted[i][j]) = sign
    IN /\ Len(cmd) = Nodes(line)
       /\ \A k \in DOMAIN cmd :
            /\ cmd[k].args = Arguments(line, k)
            /\ \A field \in {"in", "out"} :
                 LET sign == IF field = "in" THEN "<" ELSE ">" IN
                 IF Signs(line, k, sign) # {}
                 THEN cmd[k][field] = FileOf(line, k, sign)
                 ELSE cmd[k][field] # None => k > 1 /\ Had(sign)

\* What record prints is the end of the sequence of all lines the shell has
\* taken up, however often the ring has gone round (builtin.c:112-122).
HistoryRecent ==
  Recorded = SubSeq(accepted, Max({0, Len(accepted) - MaxRecord}) + 1, Len(accepted))

\* A file that was there when the line began has changed only if someone has
\* said yes to its being overwritten (shell.c:41-47).
OverwriteAsked ==
  \A f \in Name : before[f] # Absent /\ files[f] # before[f] => f \in consented

Passed(program, text) ==
  CASE program = "cat" -> text
    [] program = "head" -> SubSeq(text, 1, Min({1, Len(text)}))
    [] program = "ls" -> <<Notice>>
    [] OTHER -> <<>>

\* Redirections at the ends only, from a file that is there, to one that is not.
Plain ==
  /\ \A k \in DOMAIN cmd : (k > 1 => cmd[k].in = None) /\ (k < Len(cmd) => cmd[k].out = None)
  /\ cmd[1].in # None => cmd[1].in \in Name /\ before[cmd[1].in] # Absent
  /\ cmd[Len(cmd)].out # None =>
       cmd[Len(cmd)].out \in Name /\ before[cmd[Len(cmd)].out] = Absent

\* When all commands of a plain line have ended, what has arrived at its end is
\* the composition of the commands applied to what its first one had to read.
PipelineComposes ==
  pc[Shell] = "wait" /\ AllDone /\ Plain =>
    LET source == IF cmd[1].in = None THEN keyed ELSE before[cmd[1].in]
        out == cmd[Len(cmd)].out
        Step(text, node) == Passed(IF node.args = <<>> THEN None ELSE node.args[1], text)
    IN (IF out = None THEN screen ELSE files[out]) = FoldLeft(Step, source, cmd)

\* The shell comes back to the prompt after every line, or ends: no command waits
\* for input that cannot come or output nobody takes (shell.c:142-186).
LineFinishes == pc[Shell] # "read" ~> pc[Shell] \in {"read", "ended"}
=============================================================================
