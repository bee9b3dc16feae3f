------------------------------- MODULE MyShell ------------------------------
(***************************************************************************)
(* The shell of my-shell/my-shell.c: main reads lines, a line is split     *)
(* into commands, and the commands run one after the other, each in a      *)
(* child the shell waits for (cd and exit run in the shell itself).        *)
(*                                                                         *)
(* The state of interest is the descriptor table: the shell opens files    *)
(* and pipes in its own table before it forks, closes some of them after   *)
(* the child, and moves its own 0 and 1 for cd.  Text is left out: a line  *)
(* is a sequence of tokens, and a pipe holds a number of units.  Whether   *)
(* a file can be opened or a directory entered is left open.               *)
(*                                                                         *)
(* A definition named X__Y is X with the mistake Y in it.  No other        *)
(* definition uses it.                                                     *)
(***************************************************************************)
EXTENDS Integers, SequencesExt

CONSTANTS
  NFds,       \* the length of a descriptor table (1024 on most systems)
  PipeCap,    \* how much a pipe holds (64 kB on Linux)
  Lines,      \* the lines users type, as tokenize splits them
  Program     \* what a program does, by its name; see below

(***************************************************************************)
(* A program reads its standard input to the end (or not at all), writes   *)
(* some units of its own and one for each unit it read, and exits.         *)
(***************************************************************************)
ASSUME ProgramAssumption ==
  Program \in [DOMAIN Program -> [reads : BOOLEAN, writes : Nat, fails : BOOLEAN]]
ASSUME BoundsAssumption == NFds \in Nat /\ NFds > 3 /\ PipeCap \in Nat \ {0}

Operators == {"<", ">", "|"}

\* What intoCommands puts in the place of a file.  A file of such a name is left out.
Marks == {"STDIN", "STDOUT", "PIPE_READ", "PIPE_WRITE"}

ASSUME LinesAssumption == \A l \in Lines : l \in Seq(STRING \ Marks)

-----------------------------------------------------------------------------
(* Lines.                                                                  *)

\* validateTokenArrangement: a line neither begins nor ends with an operator, and
\* has no two of them in a row.  tokenize drops an empty line.
Refused(line) ==
  \/ line = <<>>
  \/ line[1] \in Operators \cup {"*"} \/ Last(line) \in Operators
  \/ \E i \in 2..Len(line) : line[i - 1] \in Operators /\ line[i] \in Operators

\* The j-th smallest of a set of positions.
Nth(set, j) == Min({x \in set : Cardinality({y \in set : y <= x}) >= j})

\* intoCommands, for the tokens between two pipes: the last redirection of each
\* kind counts, and a `<' wins over the pipe it stands behind, a `|' over a `>'.
Words(s) ==
  LET at == {i \in 1..Len(s) : i = 1 \/ {s[i - 1], s[i]} \cap {"<", ">"} = {}}
  IN  [j \in 1..Cardinality(at) |-> s[Nth(at, j)]]

Target(s, op, default) ==
  LET i == SelectLastInSeq(s, LAMBDA token : token = op)
  IN  IF i = 0 THEN default ELSE s[i + 1]

\* The pipes of a line, with the places before and behind it.
Bars(line) == {i \in 1..Len(line) : line[i] = "|"} \cup {0, Len(line) + 1}

Between(line, j) ==
  SubSeq(line, Nth(Bars(line), j) + 1, Nth(Bars(line), j + 1) - 1)

IntoCommands(line) ==
  LET n == Cardinality(Bars(line)) - 1
  IN  [j \in 1..n |->
        [words  |-> Words(Between(line, j)),
         input  |-> Target(Between(line, j), "<", IF j = 1 THEN "STDIN" ELSE "PIPE_READ"),
         output |-> IF j < n THEN "PIPE_WRITE" ELSE Target(Between(line, j), ">", "STDOUT")]]

-----------------------------------------------------------------------------
(* Descriptor tables.  An open file description is a record of its kind    *)
(* and, for the two ends of a pipe, the pipe.                              *)

Fds == 0..NFds - 1
Pipes == 1..NFds
NoFd == -1

Shut == [kind |-> "shut", pipe |-> 0]
Tty == [kind |-> "tty", pipe |-> 0]
Script == [kind |-> "script", pipe |-> 0]
File == [kind |-> "file", pipe |-> 0]
R(p) == [kind |-> "r", pipe |-> p]
W(p) == [kind |-> "w", pipe |-> p]

FreeFds(table) == {f \in Fds : table[f] = Shut}
Lowest(table) == IF FreeFds(table) = {} THEN NoFd ELSE Min(FreeFds(table))

Opened(table, description) == [table EXCEPT ![Lowest(table)] = description]
Close(table, f) == [table EXCEPT ![f] = Shut]

\* dup2 with a descriptor that is not open (the -1 of a dup that failed) does nothing.
Dup2(table, from, to) ==
  IF from = NoFd THEN table ELSE [table EXCEPT ![to] = table[from]]

\* What the child and cd do with a redirected side.
Moved(table, from, to) ==
  IF from = to THEN table ELSE Close(Dup2(table, from, to), from)

VARIABLES
  fd,         \* the descriptor table of the shell
  fin,        \* the descriptor main reads lines from
  content,    \* how much is in each pipe
  pc,         \* where the shell is
  commands,   \* the commands of the line, from intoCommands
  k,          \* the index of the command that runs
  in, out,    \* pCommands[k]->input and output
  nextIn,     \* pCommands[k + 1]->input, set early for a pipe
  child,      \* the child the shell waits for
  failed,     \* what parseLineAndExecute returns
  start,      \* the descriptor table when the line was read
  joins,      \* the pipes made for this line, in their order
  unsaved     \* whether some cd had no descriptor left to keep its 0 or 1 in

lineVars == <<fin, commands, k, failed, start, unsaved>>
plumbing == <<in, out, nextIn, joins>>
vars == <<fd, content, pc, child, lineVars, plumbing>>

NoChild == [fd |-> <<>>, reads |-> FALSE, left |-> 0]
Children == IF child = NoChild THEN {} ELSE {child}

Held(description) ==
  \/ \E f \in Fds : fd[f] = description
  \/ \E c \in Children, f \in Fds : c.fd[f] = description
UnusedPipes == {p \in Pipes : ~Held(R(p)) /\ ~Held(W(p))}

Init ==
  /\ fin \in {0, 3}
  /\ fd = [f \in Fds |-> IF f <= 2 THEN Tty ELSE IF f = fin THEN Script ELSE Shut]
  /\ content = [p \in Pipes |-> 0]
  /\ pc = "read"
  /\ commands = <<>> /\ k = 0
  /\ in = NoFd /\ out = NoFd /\ nextIn = NoFd
  /\ child = NoChild
  /\ failed = FALSE /\ start = fd /\ joins = <<>> /\ unsaved = FALSE

-----------------------------------------------------------------------------
(* main.                                                                   *)

\* A line from `fin'.  In interactive mode that is descriptor 0, whatever it is by
\* now: a cd that failed may have left a file or a pipe there.
ReadLine ==
  /\ pc = "read"
  /\ IF fd[fin].kind = "r"
       THEN /\ content[fd[fin].pipe] > 0
            /\ content' = [content EXCEPT ![fd[fin].pipe] = @ - 1]
       ELSE UNCHANGED content
  /\ \E line \in Lines :
       IF Refused(line)
         THEN pc' = "prompt" /\ failed' = (line # <<>>) /\ UNCHANGED <<commands, k>>
         ELSE /\ pc' = "resolve" /\ failed' = FALSE
              /\ commands' = IntoCommands(line) /\ k' = 1
  /\ start' = fd
  /\ UNCHANGED <<fd, fin, child, unsaved, plumbing>>

EndOfInput ==
  /\ pc = "read"
  /\ fd[fin].kind = "r" =>
       content[fd[fin].pipe] = 0 /\ ~Held(W(fd[fin].pipe))
  /\ pc' = "exited"
  /\ UNCHANGED <<fd, content, child, lineVars, plumbing>>

\* The shell writes to its own descriptor 1, which may be a pipe.
WritesToSelf ==
  IF fd[1].kind = "w"
    THEN /\ content[fd[1].pipe] < PipeCap
         /\ content' = [content EXCEPT ![fd[1].pipe] = @ + 1]
    ELSE UNCHANGED content

\* The prompt of interactive mode, and the end of the line in either mode.
Prompt ==
  /\ pc = "prompt"
  /\ IF fin = 0 THEN WritesToSelf ELSE UNCHANGED content
  /\ pc' = "read" /\ failed' = FALSE
  /\ commands' = <<>> /\ k' = 0
  /\ in' = NoFd /\ out' = NoFd /\ nextIn' = NoFd /\ joins' = <<>> /\ start' = fd
  /\ UNCHANGED <<fd, fin, child, unsaved>>

-----------------------------------------------------------------------------
(* executeCommand, up to the child.                                        *)

Command == commands[k]
Name == Command.words[1]

\* A command that fails is the last of its line; nothing is closed on the way out.
GiveUp ==
  /\ pc' = "prompt" /\ failed' = TRUE
  /\ UNCHANGED <<content, child, fin, commands, k, start, unsaved, plumbing>>

Resolve ==
  /\ pc = "resolve" /\ Name \in {"pwd", "cd", "exit"} \cup DOMAIN Program
  /\ pc' = "input"
  /\ UNCHANGED <<fd, content, child, lineVars, plumbing>>

NotRecognized ==
  /\ pc = "resolve" /\ Name \notin {"pwd", "cd", "exit"} \cup DOMAIN Program
  /\ GiveUp /\ UNCHANGED fd

InputIsFile == Command.input \notin {"STDIN", "PIPE_READ"}
OutputIsFile == Command.output \notin {"STDOUT", "PIPE_WRITE"}

Input ==
  /\ pc = "input"
  /\ \/ Command.input = "STDIN" /\ in' = 0 /\ UNCHANGED fd
     \/ Command.input = "PIPE_READ" /\ in' = nextIn /\ UNCHANGED fd
     \/ InputIsFile /\ FreeFds(fd) # {} /\ in' = Lowest(fd) /\ fd' = Opened(fd, File)
  /\ pc' = "output"
  /\ UNCHANGED <<content, child, lineVars, out, nextIn, joins>>

\* The file does not exist or may not be opened, or the table is full.
InputFails ==
  /\ pc = "input" /\ InputIsFile
  /\ GiveUp /\ UNCHANGED fd

Output ==
  /\ pc = "output"
  /\ \/ Command.output = "STDOUT" /\ out' = 1 /\ UNCHANGED fd
     \/ OutputIsFile /\ FreeFds(fd) # {} /\ out' = Lowest(fd) /\ fd' = Opened(fd, File)
  /\ pc' = "run"
  /\ UNCHANGED <<content, child, lineVars, in, nextIn, joins>>

MakePipe__EndsSwapped ==
  LET p == Min(UnusedPipes)
      half == Opened(fd, R(p))
  IN  /\ pc = "output" /\ Command.output = "PIPE_WRITE"
      /\ Cardinality(FreeFds(fd)) >= 2
      /\ out' = Lowest(fd) /\ nextIn' = Lowest(half)
      /\ fd' = Opened(half, W(p))
      /\ content' = [content EXCEPT ![p] = 0]
      /\ joins' = Append(joins, p)
      /\ pc' = "run"
      /\ UNCHANGED <<child, lineVars, in>>

\* pipe(fd): the read end gets the lower number and is kept for the next command.
MakePipe ==
  LET p == Min(UnusedPipes)
      half == Opened(fd, R(p))
  IN  /\ pc = "output" /\ Command.output = "PIPE_WRITE"
      /\ Cardinality(FreeFds(fd)) >= 2
      /\ nextIn' = Lowest(fd) /\ out' = Lowest(half)
      /\ fd' = Opened(half, W(p))
      /\ content' = [content EXCEPT ![p] = 0]
      /\ joins' = Append(joins, p)
      /\ pc' = "run"
      /\ UNCHANGED <<child, lineVars, in>>

OutputFails ==
  /\ pc = "output" /\ Command.output # "STDOUT"
  /\ OutputIsFile \/ Cardinality(FreeFds(fd)) < 2
  /\ GiveUp /\ UNCHANGED fd

-----------------------------------------------------------------------------
(* executeCommand: the commands of the shell itself.                       *)

Exit ==
  /\ pc = "run" /\ Name = "exit"
  /\ WritesToSelf
  /\ pc' = "exited"
  /\ UNCHANGED <<fd, child, lineVars, plumbing>>

GoOn__OnePast ==
  /\ IF k <= Len(commands) THEN k' = k + 1 /\ pc' = "resolve"
                           ELSE k' = k /\ pc' = "prompt"
  /\ UNCHANGED <<content, fin, commands, failed, start, plumbing>>

\* The next command of the line, or the end of it.
GoOn ==
  /\ IF k < Len(commands) THEN k' = k + 1 /\ pc' = "resolve"
                          ELSE k' = k /\ pc' = "prompt"
  /\ UNCHANGED <<content, fin, commands, failed, start, plumbing>>

\* cd keeps its own 0 in a duplicate and puts the input in its place, then the
\* same for 1.  The numbers of the duplicates are -1 when the table is full.
Saved(table, from, to) ==
  IF from = to THEN table
  ELSE Moved(IF FreeFds(table) = {} THEN table ELSE Opened(table, table[to]), from, to)
Duplicate(table, from, to) == IF from = to THEN NoFd ELSE Lowest(table)

Redirected == Saved(Saved(fd, in, 0), out, 1)
NoneSaved ==
  \/ in # 0 /\ FreeFds(fd) = {}
  \/ out # 1 /\ FreeFds(Saved(fd, in, 0)) = {}

Restored__NotInput(table, ogIn, ogOut) == Dup2(table, ogOut, 1)

\* The duplicates themselves are never closed.
Restored(table, ogIn, ogOut) == Dup2(Dup2(table, ogIn, 0), ogOut, 1)

ChangeDir ==
  /\ pc = "run" /\ Name = "cd" /\ Len(Command.words) <= 2
  /\ fd' = Restored(Redirected, Duplicate(fd, in, 0),
                    Duplicate(Saved(fd, in, 0), out, 1))
  /\ unsaved' = (unsaved \/ NoneSaved)
  /\ GoOn /\ UNCHANGED child

ChangeDirFails__Tidies ==
  /\ pc = "run" /\ Name = "cd"
  /\ fd' = IF nextIn = NoFd THEN Redirected ELSE Close(Redirected, nextIn)
  /\ GiveUp

\* Too many arguments, or chdir fails: each of the three errors returns before
\* descriptors 0 and 1 are put back.
ChangeDirFails ==
  /\ pc = "run" /\ Name = "cd"
  /\ fd' = Redirected
  /\ GiveUp

-----------------------------------------------------------------------------
(* executeCommand: the child, and what the shell does after it.            *)

Behaviour == IF Name = "pwd" THEN [reads |-> FALSE, writes |-> 1, fails |-> FALSE]
                             ELSE Program[Name]

Fork ==
  /\ pc = "run" /\ Name \notin {"cd", "exit"}
  /\ child' = [fd    |-> Moved(Moved(fd, in, 0), out, 1),
               reads |-> Behaviour.reads, left |-> Behaviour.writes]
  /\ pc' = "wait"
  /\ UNCHANGED <<fd, content, lineVars, plumbing>>

UnchangedShell == UNCHANGED <<fd, pc, lineVars, plumbing>>

\* A unit from a pipe, which the program writes out again.
ChildReads ==
  /\ pc = "wait" /\ child.reads /\ child.fd[0].kind = "r"
  /\ content[child.fd[0].pipe] > 0
  /\ content' = [content EXCEPT ![child.fd[0].pipe] = @ - 1]
  /\ child' = [child EXCEPT !.left = @ + 1]
  /\ UnchangedShell

\* The end of a pipe comes when nobody holds its write end.  Files end, and so does
\* what a user types for a program.
ChildEof ==
  /\ pc = "wait" /\ child.reads
  /\ child.fd[0].kind = "r" =>
       content[child.fd[0].pipe] = 0 /\ ~Held(W(child.fd[0].pipe))
  /\ child' = [child EXCEPT !.reads = FALSE]
  /\ UNCHANGED content /\ UnchangedShell

Full(description) ==
  description.kind = "w" /\ content[description.pipe] = PipeCap

ChildWrites ==
  /\ pc = "wait" /\ child.left > 0 /\ ~Full(child.fd[1])
  /\ content' = IF child.fd[1].kind = "w"
                  THEN [content EXCEPT ![child.fd[1].pipe] = @ + 1] ELSE content
  /\ child' = [child EXCEPT !.left = @ - 1]
  /\ UnchangedShell

AfterChild__ReadEndOnly(table) ==
  IF Command.input = "PIPE_READ" THEN Close(table, in) ELSE table
AfterChild__WriteEndOnly(table) ==
  IF Command.output = "PIPE_WRITE" THEN Close(table, out) ELSE table

\* The two ends are closed by what the command's strings say, so a pipe end that a
\* `<' has replaced stays open, and so does every file.
AfterChild(table) ==
  LET t == IF Command.input = "PIPE_READ" THEN Close(table, in) ELSE table
  IN  IF Command.output = "PIPE_WRITE" THEN Close(t, out) ELSE t

\* wait returns when the child has exited, with its status.
Reap ==
  /\ pc = "wait" /\ ~child.reads /\ child.left = 0 /\ ~Behaviour.fails
  /\ child' = NoChild
  /\ fd' = AfterChild(fd)
  /\ GoOn /\ UNCHANGED unsaved

ReapFailure ==
  /\ pc = "wait" /\ ~child.reads /\ child.left = 0 /\ Behaviour.fails
  /\ child' = NoChild
  /\ fd' = AfterChild(fd)
  /\ pc' = "prompt" /\ failed' = TRUE
  /\ UNCHANGED <<content, fin, commands, k, start, unsaved, plumbing>>

-----------------------------------------------------------------------------
Main == ReadLine \/ EndOfInput
Parse == \/ Resolve \/ NotRecognized \/ Input \/ InputFails
         \/ Output \/ MakePipe \/ OutputFails
Builtin == Exit \/ ChangeDir \/ ChangeDirFails
Child == ChildReads \/ ChildEof \/ ChildWrites

Next == Main \/ Parse \/ Builtin \/ Fork \/ Child \/ Reap \/ ReapFailure \/ Prompt

Spec == Init /\ [][Next]_vars

\* The shell and its child run on.  Users need not type anything.
FairSpec == Spec /\ WF_vars(Parse \/ Builtin \/ Fork \/ Reap \/ ReapFailure \/ Prompt)
                 /\ WF_vars(Child)

-----------------------------------------------------------------------------
(* What the shell should guarantee.                                        *)

Descriptions == {Shut, Tty, Script, File} \cup {R(p) : p \in Pipes} \cup {W(p) : p \in Pipes}

\* The type of every variable.
TypeOK ==
  /\ fd \in [Fds -> Descriptions] /\ start \in [Fds -> Descriptions]
  /\ fin \in {0, 3}
  /\ content \in [Pipes -> 0..PipeCap]
  /\ pc \in {"read", "resolve", "input", "output", "run", "wait", "prompt", "exited"}
  /\ k \in 0..Len(commands)
  /\ {in, out, nextIn} \subseteq Fds \cup {NoFd}
  /\ child \in [fd : [Fds -> Descriptions], reads : BOOLEAN, left : Nat] \cup {NoChild}
  /\ (child # NoChild) = (pc = "wait")
  /\ {failed, unsaved} \subseteq BOOLEAN
  /\ joins \in Seq(Pipes)

\* A child of a pipeline has the two pipes of its place in it: the one its neighbour
\* on the left wrote to, by its number in the shell's table, and the one its
\* neighbour on the right will read.  A side that is not redirected is the shell's.
ChildHasItsEnds ==
  pc = "wait" =>
    /\ child.fd[0] = CASE Command.input = "STDIN" -> fd[0]
                       [] Command.input = "PIPE_READ" -> R(joins[k - 1])
                       [] OTHER -> File
    /\ child.fd[1] = CASE Command.output = "STDOUT" -> fd[1]
                       [] Command.output = "PIPE_WRITE" -> W(joins[k])
                       [] OTHER -> File

\* When a program reads from a pipe, nobody holds its write end any more, neither
\* the shell nor the program itself, so the pipe has an end.  The exception is a
\* shell that once had no descriptor left to keep its own 1 in during a cd.
ReadersSeeTheEnd ==
  pc = "wait" /\ child.fd[0].kind = "r" /\ ~unsaved => ~Held(W(child.fd[0].pipe))

\* Whoever writes to a pipe writes to one that somebody can read: neither a program
\* nor the shell is ever killed by SIGPIPE.  The exception is a shell that once had
\* no descriptor left to keep its own 1 in: it may lose the reader of what is there.
NoBrokenPipe ==
  ~unsaved => \A p \in Pipes : Held(W(p)) => Held(R(p))

\* The shell's own input and output are what they were after every line, unless a
\* cd in the line has failed or had nothing to keep them in.
StdKept ==
  pc = "prompt" /\ ~unsaved /\ ~(failed /\ commands # <<>> /\ Name = "cd") =>
    fd[0] = start[0] /\ fd[1] = start[1]

\* The commands of a line that leave descriptors behind: one for each file, one for
\* the pipe a file has replaced, one for each redirected side of a cd.
FilesRead(c) == {i \in DOMAIN c : c[i].input \notin Marks}
FilesWritten(c) == {i \in DOMAIN c : c[i].output \notin Marks}
PipesReplaced(c) == FilesRead(c) \ {1}
SidesMoved(c, mark) ==
  {i \in DOMAIN c : c[i].words[1] = "cd" /\ mark \in {c[i].input, c[i].output}}

Residue(c) ==
  Cardinality(FilesRead(c)) + Cardinality(FilesWritten(c)) + Cardinality(PipesReplaced(c))
    + Cardinality(SidesMoved(c, "PIPE_READ")) + Cardinality(SidesMoved(c, "PIPE_WRITE"))

OpenFds(table) == Cardinality({f \in Fds : table[f] # Shut})

\* A line leaves no more descriptors open than its files and its cds account for,
\* and one more when it fails: the pipe the next command would have read.
LeaksBounded ==
  pc = "prompt" =>
    OpenFds(fd) <= OpenFds(start) + (IF failed THEN 1 ELSE 0) + Residue(commands)

\* The shell waits for ever only for a program that has filled a pipe.
Blocked == pc = "wait" /\ child.left > 0 /\ Full(child.fd[1])
WaitsEnd == pc = "wait" ~> pc # "wait" \/ Blocked \/ unsaved
=============================================================================
