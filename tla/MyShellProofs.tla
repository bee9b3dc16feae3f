---------------------------- MODULE MyShellProofs ---------------------------
(***************************************************************************)
(* Proofs about the shell for descriptor tables of any length, pipes of    *)
(* any capacity, and any programs and lines.                               *)
(***************************************************************************)
EXTENDS MyShell, FiniteSetTheorems, WellFoundedInduction, TLAPS

-----------------------------------------------------------------------------
(* Open file descriptions and tables.                                      *)

\* The two ends of a pipe, the ends of two pipes, and the other kinds differ.
LEMMA DescriptionsDiffer ==
  /\ \A p, q : R(p) # W(q) /\ (R(p) = R(q) => p = q) /\ (W(p) = W(q) => p = q)
  /\ \A p : \A d \in {Shut, Tty, Script, File} : d # R(p) /\ d # W(p)
  /\ File # Shut /\ Tty # Shut /\ Script # Shut
  BY DEF R, W, Shut, Tty, Script, File

LEMMA DescriptionTypes ==
  /\ {Shut, Tty, Script, File} \subseteq Descriptions
  /\ \A p \in Pipes : R(p) \in Descriptions /\ W(p) \in Descriptions
  BY DEF Descriptions

LEMMA FdFacts == Fds \subseteq Nat /\ {0, 1, 2, 3} \subseteq Fds /\ NoFd \notin Fds /\ 0 # NoFd
  BY BoundsAssumption DEF Fds, NoFd

\* A set of naturals has a least element.
LEMMA LeastOf ==
  ASSUME NEW T \in SUBSET Nat, T # {}
  PROVE  Min(T) \in T /\ \A y \in T : Min(T) <= y
<1>1. IsWellFoundedOn(OpToRel(<, Nat), Nat)
  BY NatLessThanWellFounded
<1>2. PICK x \in T : \A y \in T : ~(<<y, x>> \in OpToRel(<, Nat))
  BY <1>1, WFMin
<1>3. \A y \in T : ~(y < x)
  BY <1>2 DEF OpToRel
<1>4. \A y \in T : x <= y
  BY <1>3
<1>5. Min(T) = CHOOSE m \in T : \A y \in T : m <= y
  BY DEF Min
<1> QED BY <1>4, <1>5

\* open, dup and pipe take a number that is free.
LEMMA LowestFree ==
  ASSUME NEW table, FreeFds(table) # {}
  PROVE  Lowest(table) \in Fds /\ table[Lowest(table)] = Shut
<1>1. FreeFds(table) \in SUBSET Nat
  BY FdFacts DEF FreeFds
<1>2. Min(FreeFds(table)) \in FreeFds(table)
  BY <1>1, LeastOf
<1> QED BY <1>2 DEF Lowest, FreeFds

Table == [Fds -> Descriptions]

\* Opening changes the free number only.
LEMMA OpenFacts ==
  ASSUME NEW table \in Table, FreeFds(table) # {}, NEW d \in Descriptions
  PROVE  /\ Opened(table, d) \in Table
         /\ Lowest(table) \in Fds /\ table[Lowest(table)] = Shut
         /\ Opened(table, d)[Lowest(table)] = d
         /\ \A f \in Fds : table[f] # Shut => Opened(table, d)[f] = table[f]
         /\ \A f \in Fds : f # Lowest(table) => Opened(table, d)[f] = table[f]
<1>1. Lowest(table) \in Fds /\ table[Lowest(table)] = Shut
  BY LowestFree
<1> QED BY <1>1 DEF Opened, Table

\* Moving a descriptor to 0 or 1 leaves the others alone.
LEMMA MoveFacts ==
  ASSUME NEW table \in Table, NEW from \in Fds, NEW to \in Fds
  PROVE  /\ Moved(table, from, to) \in Table
         /\ from = to => Moved(table, from, to) = table
         /\ from # to => Moved(table, from, to)[to] = table[from] /\ Moved(table, from, to)[from] = Shut
         /\ \A f \in Fds : f \notin {from, to} => Moved(table, from, to)[f] = table[f]
<1>1. from # NoFd /\ Shut \in Descriptions
  BY FdFacts, DescriptionTypes
<1>2. CASE from = to
  BY <1>2 DEF Moved
<1>3. CASE from # to
  BY <1>1, <1>3 DEF Moved, Dup2, Close, Table
<1> QED BY <1>2, <1>3

\* What cd does with one side: the old description may end up in the lowest free
\* number, and nothing else is touched.
LEMMA SaveFacts ==
  ASSUME NEW table \in Table, NEW from \in Fds, NEW to \in Fds, from # to,
         table[from] # Shut, table[to] # Shut
  PROVE  /\ Saved(table, from, to) \in Table
         /\ Saved(table, from, to)[to] = table[from]
         /\ Saved(table, from, to)[from] = Shut
         /\ \A f \in Fds : f \notin {from, to} /\ table[f] # Shut =>
              Saved(table, from, to)[f] = table[f]
         /\ \A f \in Fds : f \notin {from, to} =>
              Saved(table, from, to)[f] \in {table[f], table[to]}
         /\ \A f \in Fds : f \notin {from, to, Lowest(table)} =>
              Saved(table, from, to)[f] = table[f]
         /\ FreeFds(table) # {} =>
              /\ Lowest(table) \in Fds \ {from, to} /\ table[Lowest(table)] = Shut
              /\ Saved(table, from, to)[Lowest(table)] = table[to]
<1> DEFINE dup == IF FreeFds(table) = {} THEN table ELSE Opened(table, table[to])
<1>1. table[to] \in Descriptions
  BY DEF Table
<1>2. /\ dup \in Table /\ dup[from] = table[from]
      /\ \A f \in Fds : table[f] # Shut => dup[f] = table[f]
      /\ \A f \in Fds : dup[f] \in {table[f], table[to]}
      /\ \A f \in Fds : f # Lowest(table) => dup[f] = table[f]
      /\ FreeFds(table) # {} =>
           /\ Lowest(table) \in Fds \ {from, to} /\ table[Lowest(table)] = Shut
           /\ dup[Lowest(table)] = table[to]
  BY <1>1, OpenFacts
<1>3. Saved(table, from, to) = Moved(dup, from, to)
  BY DEF Saved
<1> HIDE DEF dup
<1>4. /\ Moved(dup, from, to) \in Table
      /\ Moved(dup, from, to)[to] = dup[from] /\ Moved(dup, from, to)[from] = Shut
      /\ \A f \in Fds : f \notin {from, to} => Moved(dup, from, to)[f] = dup[f]
  BY <1>2, MoveFacts
<1> QED BY <1>2, <1>3, <1>4

\* With two free numbers there is a pipe nobody holds, and room for its second end
\* when the first is open: a table of NFds numbers holds the ends of at most NFds pipes.
LEMMA SparePipe ==
  ASSUME fd \in Table, child = NoChild, Cardinality(FreeFds(fd)) >= 2
  PROVE  /\ Min(UnusedPipes) \in Pipes /\ FreeFds(fd) # {}
         /\ \A f \in Fds : fd[f] # R(Min(UnusedPipes)) /\ fd[f] # W(Min(UnusedPipes))
         /\ FreeFds(Opened(fd, R(Min(UnusedPipes)))) # {}
<1>1. /\ NFds \in Nat /\ NFds > 3 /\ IsFiniteSet(Fds) /\ Cardinality(Fds) = NFds
      /\ IsFiniteSet(Pipes) /\ Cardinality(Pipes) = NFds
  <2>1. NFds \in Nat /\ NFds > 3 /\ 0 \in Int /\ 1 \in Int /\ NFds \in Int /\ NFds - 1 \in Int
    BY BoundsAssumption
  <2>2. IsFiniteSet(0..NFds - 1) /\ Cardinality(0..NFds - 1) = IF 0 > NFds - 1 THEN 0 ELSE NFds - 1 - 0 + 1
    BY <2>1, FS_Interval, Zenon
  <2>3. IsFiniteSet(1..NFds) /\ Cardinality(1..NFds) = IF 1 > NFds THEN 0 ELSE NFds - 1 + 1
    BY <2>1, FS_Interval, Zenon
  <2> QED BY <2>1, <2>2, <2>3 DEF Fds, Pipes
<1>2. FreeFds(fd) \subseteq Fds /\ IsFiniteSet(FreeFds(fd)) /\ FreeFds(fd) # {}
  <2>1. FreeFds(fd) \subseteq Fds
    BY DEF FreeFds
  <2> QED BY <1>1, <2>1, FS_Subset, FS_EmptySet
<1>3. \A p : Held(R(p)) <=> \E f \in Fds : fd[f] = R(p)
  BY DEF Held, Children
<1>4. \A p : Held(W(p)) <=> \E f \in Fds : fd[f] = W(p)
  BY DEF Held, Children
<1>5. ASSUME UnusedPipes = {} PROVE FALSE
  <2>1. PICK free \in Fds : fd[free] = Shut
    BY <1>2 DEF FreeFds
  <2>2. \A p \in Pipes : \E f \in Fds \ {free} : fd[f] = R(p) \/ fd[f] = W(p)
    BY <1>3, <1>4, <1>5, <2>1, DescriptionsDiffer DEF UnusedPipes
  <2> DEFINE holder == [p \in Pipes |-> CHOOSE f \in Fds \ {free} : fd[f] = R(p) \/ fd[f] = W(p)]
  <2>3. /\ holder \in [Pipes -> Fds \ {free}]
        /\ \A p \in Pipes : fd[holder[p]] = R(p) \/ fd[holder[p]] = W(p)
    BY <2>2
  <2> HIDE DEF holder
  <2>4. IsFiniteSet(Fds \ {free}) /\ Cardinality(Fds \ {free}) = NFds - 1
    BY <1>1, <2>1, FS_RemoveElement
  <2>5. Cardinality(Fds \ {free}) < Cardinality(Pipes)
    BY <1>1, <2>4
  <2>6. \E p, q \in Pipes : p # q /\ holder[p] = holder[q]
    BY <1>1, <2>3, <2>4, <2>5, FS_PigeonHole
  <2> QED BY <2>3, <2>6, DescriptionsDiffer
<1>6. UnusedPipes \in SUBSET Nat /\ UnusedPipes \subseteq Pipes
  BY DEF UnusedPipes, Pipes
<1>7. Min(UnusedPipes) \in UnusedPipes
  BY <1>5, <1>6, LeastOf
<1> DEFINE p == Min(UnusedPipes)
<1>8. p \in Pipes /\ \A f \in Fds : fd[f] # R(p) /\ fd[f] # W(p)
  BY <1>3, <1>4, <1>7 DEF UnusedPipes
<1> HIDE DEF p
<1>9. FreeFds(Opened(fd, R(p))) # {}
  <2>1. \E f \in FreeFds(fd) : f # Lowest(fd)
    <3>1. ASSUME \A f \in FreeFds(fd) : f = Lowest(fd) PROVE FALSE
      <4>1. FreeFds(fd) = {Lowest(fd)}
        BY <1>2, <3>1
      <4>2. Cardinality({Lowest(fd)}) = 1
        BY FS_Singleton, Zenon
      <4>3. Cardinality(FreeFds(fd)) = 1
        BY <4>1, <4>2
      <4> QED BY <4>3
    <3> QED BY <3>1
  <2>2. PICK f \in FreeFds(fd) : f # Lowest(fd)
    BY <2>1
  <2>3. R(p) \in Descriptions
    BY <1>8, DescriptionTypes
  <2>4. Opened(fd, R(p))[f] = fd[f]
    BY <1>2, <2>2, <2>3, OpenFacts
  <2> QED BY <2>2, <2>4 DEF FreeFds
<1> QED BY <1>2, <1>8, <1>9 DEF p

-----------------------------------------------------------------------------
(* The commands of a line.                                                 *)

\* What intoCommands makes of a line: a command reads from the pipe on its left or
\* from a file, and writes to the pipe on its right if it has one.
Placed(c) ==
  /\ Len(c) \in Nat \ {0} /\ DOMAIN c = 1..Len(c)
  /\ \A i \in 1..Len(c) :
       /\ c[i].input \notin Marks \/ c[i].input = (IF i = 1 THEN "STDIN" ELSE "PIPE_READ")
       /\ i < Len(c) => c[i].output = "PIPE_WRITE"
       /\ i = Len(c) => c[i].output \notin Marks \/ c[i].output = "STDOUT"

\* A set of naturals with an upper bound has a greatest element.
LEMMA GreatestOf ==
  ASSUME NEW n \in Nat, NEW T \in SUBSET (1..n), T # {}
  PROVE  Max(T) \in T
<1> DEFINE bounds == {m \in Nat : \A i \in T : i <= m}
<1>1. n \in bounds
  OBVIOUS
<1>2. Min(bounds) \in bounds
  BY <1>1, LeastOf
<1> DEFINE m == Min(bounds)
<1>3. m \in Nat /\ \A i \in T : i <= m
  BY <1>2
<1>4. \A x \in bounds : m <= x
  BY <1>1, LeastOf
<1> HIDE DEF m, bounds
<1>5. ASSUME m \notin T PROVE FALSE
  <2>1. \A i \in T : i <= m - 1
    BY <1>3, <1>5
  <2>2. m - 1 \in Nat
    <3> PICK i : i \in T
      OBVIOUS
    <3>1. i \in 1..n
      OBVIOUS
    <3> QED BY <1>3, <2>1, <3>1
  <2>3. m - 1 \in bounds
    BY <2>1, <2>2 DEF bounds
  <2> QED BY <1>3, <1>4, <2>3
<1> QED BY <1>3, <1>5 DEF Max

LEMMA NthFacts ==
  ASSUME NEW set \in SUBSET Nat, NEW top \in set, \A x \in set : x <= top,
         NEW j \in Nat, j <= Cardinality(set), Cardinality(set) \in Nat
  PROVE  Nth(set, j) \in set
<1> DEFINE late == {x \in set : Cardinality({y \in set : y <= x}) >= j}
<1>1. {y \in set : y <= top} = set
  OBVIOUS
<1>2. top \in late
  BY <1>1
<1>3. Min(late) \in late
  BY <1>2, LeastOf
<1> QED BY <1>3 DEF Nth

LEMMA BarsFacts ==
  ASSUME NEW line \in Seq(STRING)
  PROVE  /\ Bars(line) \in SUBSET Nat
         /\ Cardinality(Bars(line)) \in Nat /\ Cardinality(Bars(line)) - 1 \in Nat \ {0}
         /\ \A j \in 1..Cardinality(Bars(line)) : Nth(Bars(line), j) \in Bars(line)
<1> DEFINE n == Len(line)
           top == n + 1
<1>1. n \in Nat /\ 0 \in Int /\ top \in Int /\ top \in Nat /\ top # 0
  OBVIOUS
<1>2. /\ Bars(line) \in SUBSET Nat /\ Bars(line) \subseteq 0..top
      /\ top \in Bars(line) /\ 0 \in Bars(line)
  BY DEF Bars
<1>3. \A x \in Bars(line) : x <= top
  BY <1>1, <1>2
<1>4. IsFiniteSet(Bars(line)) /\ Cardinality(Bars(line)) \in Nat
  <2>1. IsFiniteSet(0..top)
    BY <1>1, FS_Interval, Zenon
  <2> QED BY <1>2, <2>1, FS_Subset, FS_CardinalityType
<1>5. Cardinality(Bars(line)) >= 2
  <2>1. IsFiniteSet({0}) /\ Cardinality({0}) = 1
    BY FS_Singleton, Zenon
  <2> HIDE DEF top
  <2>2. Cardinality({0} \cup {top}) = IF top \in {0} THEN Cardinality({0}) ELSE Cardinality({0}) + 1
    BY <2>1, FS_AddElement, Zenon
  <2>3. {0} \cup {top} \subseteq Bars(line) /\ top \notin {0}
    BY <1>1, <1>2
  <2>4. Cardinality({0} \cup {top}) = 2
    BY <2>1, <2>2, <2>3
  <2>5. Cardinality({0} \cup {top}) <= Cardinality(Bars(line))
    BY <1>4, <2>3, FS_Subset
  <2> QED BY <1>4, <2>4, <2>5
<1>6. \A j \in 1..Cardinality(Bars(line)) : Nth(Bars(line), j) \in Bars(line)
  <2> HIDE DEF top
  <2> QED BY <1>2, <1>3, <1>4, NthFacts
<1> QED BY <1>2, <1>4, <1>5, <1>6

\* A redirection is followed by the name of a file, before the next pipe or the end.
LEMMA TargetFacts ==
  ASSUME NEW line \in Seq(STRING \ Marks), ~Refused(line),
         NEW a \in Bars(line), NEW b \in Bars(line), NEW op \in {"<", ">"}, NEW default
  PROVE  Target(SubSeq(line, a + 1, b - 1), op, default) \in {default} \cup (STRING \ Marks)
<1> DEFINE s == SubSeq(line, a + 1, b - 1)
           at == {i \in 1..Len(s) : s[i] = op}
<1>1. /\ a \in 0..Len(line) + 1 /\ b \in 0..Len(line) + 1 /\ Len(line) \in Nat
      /\ b \in 1..Len(line) => line[b] = "|"
  BY DEF Bars
<1>2. CASE a + 1 > b - 1
  <2>1. Len(s) = 0
    BY <1>1, <1>2
  <2> HIDE DEF s
  <2>2. at = {}
    BY <2>1
  <2>3. SelectLastInSeq(s, LAMBDA token : token = op) = 0
    BY <2>2 DEF SelectLastInSeq
  <2> QED BY <2>3 DEF Target, s
<1>3. CASE a + 1 <= b - 1
  <2>1. /\ Len(s) = b - 1 - a /\ Len(s) \in Nat
        /\ \A i \in 1..b - 1 - a : s[i] = line[a + i]
    BY <1>1, <1>3
  <2> HIDE DEF s
  <2>2. CASE at = {}
    <3>1. SelectLastInSeq(s, LAMBDA token : token = op) = 0
      BY <2>2 DEF SelectLastInSeq
    <3> QED BY <3>1 DEF Target, s
  <2>3. CASE at # {}
    <3>1. SelectLastInSeq(s, LAMBDA token : token = op) = Max(at)
      BY <2>3 DEF SelectLastInSeq
    <3>2. Max(at) \in at
      BY <2>1, <2>3, GreatestOf
    <3> DEFINE i == Max(at)
    <3>3. i \in 1..b - 1 - a /\ line[a + i] = op /\ op \in Operators
      BY <2>1, <3>2 DEF Operators
    <3> HIDE DEF i
    <3>4. a + i # b - 1
      <4>1. ASSUME a + i = b - 1 PROVE FALSE
        <5>1. CASE b = Len(line) + 1
          <6>1. line[Len(line)] \in Operators /\ line # <<>>
            BY <1>1, <1>3, <3>3, <4>1, <5>1
          <6> QED BY <6>1 DEF Refused, Last
        <5>2. CASE b \in 1..Len(line)
          <6>1. b \in 2..Len(line) /\ line[b - 1] \in Operators /\ line[b] \in Operators
            BY <1>1, <1>3, <3>3, <4>1, <5>2 DEF Operators
          <6> QED BY <6>1 DEF Refused
        <5> QED BY <1>1, <1>3, <5>1, <5>2
      <4> QED BY <4>1
    <3>5. i + 1 \in 1..b - 1 - a /\ s[i + 1] = line[a + (i + 1)]
      BY <1>1, <2>1, <3>3, <3>4
    <3>6. a + (i + 1) \in 1..Len(line)
      BY <1>1, <3>5
    <3>7. s[i + 1] \in STRING \ Marks
      BY <3>5, <3>6
    <3>8. Target(s, op, default) = s[i + 1]
      BY <3>1, <3>3 DEF Target, i
    <3> QED BY <3>7, <3>8 DEF s
  <2> QED BY <2>2, <2>3
<1> QED BY <1>1, <1>2, <1>3

\* The commands of a line that is not refused.
LEMMA LineRead ==
  ASSUME NEW line \in Lines, ~Refused(line)
  PROVE  Placed(IntoCommands(line)) /\ Len(IntoCommands(line)) \in Nat \ {0}
<1> DEFINE c == IntoCommands(line)
           n == Cardinality(Bars(line)) - 1
<1>1. line \in Seq(STRING \ Marks) /\ line \in Seq(STRING)
  BY LinesAssumption
<1>2. n \in Nat \ {0} /\ \A j \in 1..n + 1 : Nth(Bars(line), j) \in Bars(line)
  BY <1>1, BarsFacts
<1> HIDE DEF n
<1>3. /\ Len(c) = n /\ DOMAIN c = 1..n
      /\ \A j \in 1..n :
           /\ c[j].input = Target(Between(line, j), "<", IF j = 1 THEN "STDIN" ELSE "PIPE_READ")
           /\ c[j].output = IF j < n THEN "PIPE_WRITE" ELSE Target(Between(line, j), ">", "STDOUT")
  BY <1>2 DEF IntoCommands, n
<1>4. ASSUME NEW j \in 1..n, NEW op \in {"<", ">"}, NEW default
      PROVE  Target(Between(line, j), op, default) \in {default} \cup (STRING \ Marks)
  <2>1. Nth(Bars(line), j) \in Bars(line) /\ Nth(Bars(line), j + 1) \in Bars(line)
    BY <1>2
  <2> QED BY <1>1, <2>1, TargetFacts DEF Between
<1> HIDE DEF c
<1>5. ASSUME NEW j \in 1..n
      PROVE  /\ c[j].input \notin Marks \/ c[j].input = (IF j = 1 THEN "STDIN" ELSE "PIPE_READ")
             /\ j < n => c[j].output = "PIPE_WRITE"
             /\ j = n => c[j].output \notin Marks \/ c[j].output = "STDOUT"
  BY <1>3, <1>4
<1> QED BY <1>2, <1>3, <1>5 DEF Placed, c

-----------------------------------------------------------------------------
(* The inductive invariant.                                                *)

Builtins == {"pwd", "cd", "exit"}
Busy == pc \in {"resolve", "input", "output", "run", "wait"}

\* Whether the pipe to the next command is made.
Joined == pc \in {"run", "wait"} /\ k < Len(commands)

\* Where the line stands.
LineInv ==
  /\ Busy => Placed(commands) /\ k \in 1..Len(commands)
  /\ pc \in {"input", "output", "run", "wait"} => Name \in Builtins \cup DOMAIN Program
  /\ pc = "wait" => Name \notin {"cd", "exit"}
  /\ Busy => Len(joins) = IF Joined THEN k ELSE k - 1
  /\ pc = "read" => in = NoFd /\ out = NoFd /\ nextIn = NoFd /\ joins = <<>>

\* The numbers kept in pCommands stand for what the command is to use: they are
\* different, not 0 or 1, and refer to its file or to the pipe of its place.
InputPlaced ==
  \/ Command.input = "STDIN" /\ in = 0
  \/ Command.input = "PIPE_READ" /\ k > 1 /\ in \in Fds \ {0, 1} /\ fd[in] = R(joins[k - 1])
  \/ InputIsFile /\ in \in Fds \ {0, 1} /\ fd[in] = File

OutputPlaced ==
  \/ Command.output = "STDOUT" /\ out = 1
  \/ Command.output = "PIPE_WRITE" /\ out \in Fds \ {0, 1, in} /\ fd[out] = W(joins[k])
  \/ OutputIsFile /\ out \in Fds \ {0, 1, in} /\ fd[out] = File

NumbersInv ==
  /\ fd[0] # Shut /\ fd[1] # Shut
  /\ pc \in {"resolve", "input", "output"} /\ k > 1 =>
       nextIn \in Fds \ {0, 1} /\ fd[nextIn] = R(joins[k - 1])
  /\ pc \in {"output", "run", "wait"} => InputPlaced
  /\ pc \in {"run", "wait"} => OutputPlaced
  /\ Joined => nextIn \in Fds \ {0, 1, in, out} /\ fd[nextIn] = R(joins[k])
  /\ pc = "wait" => child.fd = Moved(Moved(fd, in, 0), out, 1)

\* Where ends of pipes are.  A pipe that is written to has its read end in a number
\* that no command is going to close; nobody can write to the pipe a command reads.
Using == IF Busy THEN {in, out, nextIn} ELSE {}
ReadEndStays(p) == \E f \in Fds \ ({0, 1} \cup Using) : fd[f] = R(p)

PipeInv ==
  /\ Joined => \A g \in Fds : fd[g] = W(joins[k]) => g = out
  /\ ~unsaved =>
       /\ \A g \in Fds, p \in Pipes :
            fd[g] = W(p) => (Joined /\ p = joins[k]) \/ ReadEndStays(p)
       /\ \A p \in Pipes : fd[0] = R(p) => \A g \in Fds : fd[g] # W(p)
       /\ Busy /\ k > 1 => \A g \in Fds : fd[g] # W(joins[k - 1])

StdInv ==
  /\ StdKept
  /\ Busy /\ ~unsaved => fd[0] = start[0] /\ fd[1] = start[1]

ShellInv == TypeOK /\ LineInv /\ NumbersInv /\ PipeInv /\ StdInv

\* What ends of pipes look like.
LEMMA Kinds ==
  ASSUME NEW d \in Descriptions
  PROVE  /\ d.kind = "r" => d.pipe \in Pipes /\ d = R(d.pipe)
         /\ d.kind = "w" => d.pipe \in Pipes /\ d = W(d.pipe)
<1>1. CASE d \in {Shut, Tty, Script, File}
  BY <1>1 DEF Shut, Tty, Script, File
<1>2. CASE \E p \in Pipes : d = R(p)
  BY <1>2 DEF R
<1>3. CASE \E p \in Pipes : d = W(p)
  BY <1>3 DEF W
<1> QED BY <1>1, <1>2, <1>3 DEF Descriptions

\* A child has a table, so it is not the absence of one.
LEMMA ChildIsThere ==
  ASSUME NEW c \in [fd : Table, reads : BOOLEAN, left : Nat]
  PROVE  c # NoChild
<1>1. DOMAIN c.fd = Fds /\ 0 \in Fds
  BY FdFacts DEF Table
<1>2. DOMAIN NoChild.fd = {}
  BY DEF NoChild
<1> QED BY <1>1, <1>2

\* The type of the state in terms of Table.
LEMMA Typed ==
  ASSUME TypeOK
  PROVE  /\ fd \in Table /\ start \in Table /\ {in, out, nextIn} \subseteq Fds \cup {NoFd}
         /\ k \in 0..Len(commands) /\ joins \in Seq(Pipes)
         /\ content \in [Pipes -> 0..PipeCap] /\ PipeCap \in Nat \ {0}
         /\ pc = "wait" => child \in [fd : Table, reads : BOOLEAN, left : Nat]
         /\ pc # "wait" => child = NoChild
         /\ unsaved \in BOOLEAN /\ failed \in BOOLEAN
  BY BoundsAssumption DEF TypeOK, Table

-----------------------------------------------------------------------------
(* What cd makes of the table.                                             *)

\* A command that runs has its input and output open, in two different numbers.
LEMMA Sides ==
  ASSUME TypeOK, NumbersInv, pc \in {"run", "wait"}
  PROVE  /\ in \in Fds \ {1} /\ out \in Fds \ {0, in}
         /\ fd[in] # Shut /\ fd[out] # Shut /\ fd[0] # Shut /\ fd[1] # Shut
         /\ Command.output = "PIPE_WRITE" => out # 1 /\ fd[out] = W(joins[k])
         /\ in # 0 => fd[in] = File \/ (k > 1 /\ fd[in] = R(joins[k - 1]))
         /\ out # 1 => fd[out] = File \/ (fd[out] = W(joins[k]) /\ Command.output = "PIPE_WRITE")
         /\ Command.input = "PIPE_READ" => in # 0
<1>1. InputPlaced /\ OutputPlaced /\ fd[0] # Shut /\ fd[1] # Shut
  BY DEF NumbersInv
<1> QED BY <1>1, FdFacts, DescriptionsDiffer DEF InputPlaced, OutputPlaced, InputIsFile, OutputIsFile

\* While cd runs, its input and output are its own 0 and 1; where the file or pipe
\* was is closed, and whatever else was open stays as it was.
LEMMA CdRedirects ==
  ASSUME TypeOK, NumbersInv, pc = "run"
  PROVE  /\ Redirected \in Table
         /\ Redirected[0] = fd[in] /\ Redirected[1] = fd[out]
         /\ in # 0 => Redirected[in] \in {Shut, fd[1]}
         /\ out # 1 => Redirected[out] = Shut
         /\ \A f \in Fds \ {0, 1, in, out} : fd[f] # Shut => Redirected[f] = fd[f]
         /\ \A f \in Fds \ {0, 1, in, out} : Redirected[f] \in {fd[f], fd[0], fd[1]}
<1> DEFINE mid == Saved(fd, in, 0)
<1>1. fd \in Table /\ 0 \in Fds /\ 1 \in Fds
  BY Typed, FdFacts
<1>2. /\ in \in Fds \ {1} /\ out \in Fds \ {0, in}
      /\ fd[in] # Shut /\ fd[out] # Shut /\ fd[0] # Shut /\ fd[1] # Shut
  BY Sides
<1>3. /\ mid \in Table /\ mid[0] = fd[in]
      /\ in # 0 => mid[in] = Shut
      /\ \A f \in Fds : f \notin {in, 0} /\ fd[f] # Shut => mid[f] = fd[f]
      /\ \A f \in Fds : f \notin {in, 0} => mid[f] \in {fd[f], fd[0]}
  <2>1. CASE in = 0
    BY <1>1, <2>1 DEF Saved
  <2>2. CASE in # 0
    BY <1>1, <1>2, <2>2, SaveFacts
  <2> QED BY <2>1, <2>2
<1> HIDE DEF mid
<1>4. mid[1] = fd[1] /\ mid[out] = fd[out] /\ Redirected = Saved(mid, out, 1)
  BY <1>1, <1>2, <1>3 DEF Redirected, mid
<1>5. CASE out = 1
  BY <1>1, <1>2, <1>3, <1>4, <1>5 DEF Saved
<1>6. CASE out # 1
  <2>1. /\ Saved(mid, out, 1) \in Table
        /\ Saved(mid, out, 1)[1] = mid[out]
        /\ Saved(mid, out, 1)[out] = Shut
        /\ \A f \in Fds : f \notin {out, 1} /\ mid[f] # Shut => Saved(mid, out, 1)[f] = mid[f]
        /\ \A f \in Fds : f \notin {out, 1} => Saved(mid, out, 1)[f] \in {mid[f], mid[1]}
    BY <1>1, <1>2, <1>3, <1>4, <1>6, SaveFacts
  <2> QED BY <1>1, <1>2, <1>3, <1>4, <2>1
<1> QED BY <1>5, <1>6

\* After cd the shell has its own 0 and 1 back, unless it had nowhere to keep them.
LEMMA CdRestores ==
  ASSUME TypeOK, NumbersInv, pc = "run",
         NEW t, t = Restored(Redirected, Duplicate(fd, in, 0), Duplicate(Saved(fd, in, 0), out, 1))
  PROVE  /\ t \in Table
         /\ t[0] # Shut /\ t[1] # Shut
         /\ ~NoneSaved => t[0] = fd[0] /\ t[1] = fd[1]
         /\ \A f \in Fds \ {0, 1} : t[f] = Redirected[f]
<1> DEFINE mid == Saved(fd, in, 0)
           ogIn == Duplicate(fd, in, 0)
           ogOut == Duplicate(mid, out, 1)
<1>1. fd \in Table /\ 0 \in Fds /\ 1 \in Fds /\ NoFd \notin Fds
  BY Typed, FdFacts
<1>2. /\ in \in Fds \ {1} /\ out \in Fds \ {0, in}
      /\ fd[in] # Shut /\ fd[out] # Shut /\ fd[0] # Shut /\ fd[1] # Shut
  BY Sides
<1>3. /\ Redirected \in Table /\ Redirected[0] = fd[in] /\ Redirected[1] = fd[out]
  BY CdRedirects
<1>4. /\ mid \in Table /\ mid[1] = fd[1] /\ mid[out] = fd[out] /\ mid[0] = fd[in]
      /\ in = 0 => ogIn = NoFd
      /\ in # 0 /\ FreeFds(fd) = {} => ogIn = NoFd
      /\ in # 0 /\ FreeFds(fd) # {} =>
           ogIn \in Fds \ {0, 1, in, out} /\ mid[ogIn] = fd[0]
  <2>1. CASE in = 0
    BY <1>1, <1>2, <2>1 DEF Saved, Duplicate
  <2>2. CASE in # 0
    <3>1. /\ mid \in Table /\ mid[0] = fd[in]
          /\ \A f \in Fds : f \notin {in, 0} /\ fd[f] # Shut => mid[f] = fd[f]
          /\ FreeFds(fd) # {} =>
               /\ Lowest(fd) \in Fds \ {in, 0} /\ fd[Lowest(fd)] = Shut
               /\ mid[Lowest(fd)] = fd[0]
      BY <1>1, <1>2, <2>2, SaveFacts
    <3>2. ogIn = Lowest(fd) /\ (FreeFds(fd) = {} => Lowest(fd) = NoFd)
      BY <2>2 DEF Duplicate, Lowest
    <3> HIDE DEF mid, ogIn
    <3> QED BY <1>1, <1>2, <2>2, <3>1, <3>2
  <2> QED BY <2>1, <2>2
<1>5. /\ out = 1 => ogOut = NoFd /\ Redirected = mid
      /\ out # 1 /\ FreeFds(mid) = {} => ogOut = NoFd
      /\ out # 1 /\ FreeFds(mid) # {} =>
           ogOut \in Fds \ {0, 1, out} /\ Redirected[ogOut] = fd[1]
      /\ \A f \in Fds \ {1, out} : mid[f] # Shut => Redirected[f] = mid[f]
  <2>1. CASE out = 1
    BY <1>1, <1>2, <2>1 DEF Saved, Duplicate, Redirected
  <2>2. CASE out # 1
    <3>1. Redirected = Saved(mid, out, 1)
      BY DEF Redirected
    <3>2. ogOut = Lowest(mid) /\ (FreeFds(mid) = {} => Lowest(mid) = NoFd)
      BY <2>2 DEF Duplicate, Lowest
    <3> HIDE DEF mid, ogOut
    <3>3. /\ \A f \in Fds : f \notin {out, 1} /\ mid[f] # Shut => Saved(mid, out, 1)[f] = mid[f]
          /\ FreeFds(mid) # {} =>
               /\ Lowest(mid) \in Fds \ {out, 1} /\ mid[Lowest(mid)] = Shut
               /\ Saved(mid, out, 1)[Lowest(mid)] = mid[1]
      BY <1>1, <1>2, <1>4, <2>2, SaveFacts
    <3> QED BY <1>1, <1>2, <1>4, <2>2, <3>1, <3>2, <3>3
  <2> QED BY <2>1, <2>2
<1>6. NoneSaved <=> (in # 0 /\ FreeFds(fd) = {}) \/ (out # 1 /\ FreeFds(mid) = {})
  BY DEF NoneSaved
<1>7. t = Dup2(Dup2(Redirected, ogIn, 0), ogOut, 1)
  BY DEF Restored
<1> HIDE DEF mid, ogIn, ogOut
<1>8. ogIn # NoFd => Redirected[ogIn] = fd[0]
  BY <1>2, <1>4, <1>5
<1> DEFINE one == Dup2(Redirected, ogIn, 0)
<1>9. /\ one \in Table /\ one[0] \in {fd[0], Redirected[0]}
      /\ ogIn # NoFd => one[0] = fd[0]
      /\ ogIn = NoFd => one[0] = Redirected[0]
      /\ \A f \in Fds \ {0} : one[f] = Redirected[f]
  BY <1>1, <1>3, <1>8 DEF Dup2, Table
<1> HIDE DEF one
<1>10. /\ t \in Table /\ t[0] = one[0]
       /\ ogOut # NoFd => t[1] = one[ogOut]
       /\ ogOut = NoFd => t[1] = one[1]
       /\ \A f \in Fds \ {1} : t[f] = one[f]
  <2>1. ogOut # NoFd => one[ogOut] \in Descriptions
    BY <1>4, <1>5, <1>9 DEF Table
  <2> QED BY <1>1, <1>7, <1>9, <2>1 DEF Dup2, Table, one
<1>11. t[1] \in {fd[1], fd[out]} /\ (ogOut # NoFd => t[1] = fd[1])
  BY <1>1, <1>2, <1>3, <1>5, <1>9, <1>10
<1>12. ~NoneSaved => t[0] = fd[0] /\ t[1] = fd[1]
  BY <1>1, <1>2, <1>3, <1>4, <1>5, <1>6, <1>9, <1>10, <1>11
<1>13. t[0] # Shut /\ t[1] # Shut
  BY <1>2, <1>3, <1>9, <1>10, <1>11
<1> QED BY <1>1, <1>9, <1>10, <1>12, <1>13

-----------------------------------------------------------------------------
(* The type of the state.                                                  *)

\* After a child the shell closes what the command had of its pipes, and nothing
\* that the other commands or the shell itself use.
LEMMA AfterChildCloses ==
  ASSUME TypeOK, NumbersInv, pc = "wait", NEW t, t = AfterChild(fd)
  PROVE  /\ t \in Table /\ t[0] = fd[0] /\ t[1] = fd[1]
         /\ \A f \in Fds : t[f] \in {fd[f], Shut}
         /\ \A f \in Fds \ {in, out} : t[f] = fd[f]
         /\ Command.output = "PIPE_WRITE" => t[out] = Shut
<1>1. fd \in Table /\ Shut \in Descriptions /\ 0 \in Fds /\ 1 \in Fds
  BY Typed, FdFacts, DescriptionTypes
<1>2. /\ in \in Fds \ {1} /\ out \in Fds \ {0, in}
      /\ Command.output = "PIPE_WRITE" => out # 1
      /\ Command.input = "PIPE_READ" => in # 0
  BY Sides
<1> QED BY <1>1, <1>2 DEF AfterChild, Close, Table

\* What a pipe holds stays within its bounds.
LEMMA Counts ==
  ASSUME TypeOK, NEW p \in Pipes
  PROVE  /\ [content EXCEPT ![p] = 0] \in [Pipes -> 0..PipeCap]
         /\ content[p] > 0 => [content EXCEPT ![p] = @ - 1] \in [Pipes -> 0..PipeCap]
         /\ content[p] # PipeCap => [content EXCEPT ![p] = @ + 1] \in [Pipes -> 0..PipeCap]
<1>1. content \in [Pipes -> 0..PipeCap] /\ PipeCap \in Nat \ {0} /\ content[p] \in 0..PipeCap
  BY Typed
<1>2. /\ 0 \in 0..PipeCap
      /\ content[p] > 0 => content[p] - 1 \in 0..PipeCap
      /\ content[p] # PipeCap => content[p] + 1 \in 0..PipeCap
  BY <1>1
<1>3. \A v \in 0..PipeCap : [content EXCEPT ![p] = v] \in [Pipes -> 0..PipeCap]
  BY <1>1
<1> QED BY <1>2, <1>3

LEMMA SelfWrite ==
  ASSUME TypeOK, WritesToSelf
  PROVE  content' \in [Pipes -> 0..PipeCap]
<1>1. fd[1] \in Descriptions
  BY Typed, FdFacts DEF Table
<1>2. fd[1].kind = "w" => fd[1].pipe \in Pipes
  BY <1>1, Kinds
<1>3. content \in [Pipes -> 0..PipeCap] /\ PipeCap \in Nat
  BY Typed
<1> QED BY <1>2, <1>3, Counts DEF WritesToSelf

\* Every step preserves the type.
LEMMA TypeStep ==
  ASSUME ShellInv, Next
  PROVE  TypeOK'
<1> USE DEF ShellInv
<1>1. TypeOK /\ LineInv /\ NumbersInv
  OBVIOUS
<1>2. fin \in {0, 3} /\ PipeCap \in Nat \ {0} /\ NoFd \notin Fds /\ 0 \in Fds /\ 1 \in Fds
  BY BoundsAssumption, FdFacts DEF TypeOK
<1>3. CASE ReadLine
  <2>1. content' \in [Pipes -> 0..PipeCap]
    <3>1. fd[fin] \in Descriptions
      BY <1>2, Typed, FdFacts DEF Table
    <3>2. fd[fin].kind = "r" => fd[fin].pipe \in Pipes
      BY <3>1, Kinds
    <3>3. content \in [Pipes -> 0..PipeCap]
      BY Typed
    <3> QED BY <1>3, <3>2, <3>3, Counts DEF ReadLine
  <2>2. k' \in 0..Len(commands') /\ pc' \in {"prompt", "resolve"} /\ failed' \in BOOLEAN
    <3>1. PICK line \in Lines :
            IF Refused(line)
              THEN pc' = "prompt" /\ failed' = (line # <<>>) /\ UNCHANGED <<commands, k>>
              ELSE /\ pc' = "resolve" /\ failed' = FALSE
                   /\ commands' = IntoCommands(line) /\ k' = 1
      BY <1>3 DEF ReadLine
    <3>2. CASE Refused(line)
      BY <3>1, <3>2, Typed, Zenon
    <3>3. CASE ~Refused(line)
      <4>1. Len(commands') \in Nat \ {0} /\ k' = 1
        BY <3>1, <3>3, LineRead
      <4>2. k' \in 0..Len(commands')
        BY <4>1
      <4> QED BY <3>1, <3>3, <4>2, Zenon
    <3> QED BY <3>2, <3>3
  <2> QED BY <1>2, <1>3, <2>1, <2>2 DEF ReadLine, TypeOK, plumbing
<1>4. CASE EndOfInput
  BY <1>4 DEF EndOfInput, TypeOK, plumbing, lineVars
<1>5. CASE Prompt
  <2>1. content' \in [Pipes -> 0..PipeCap]
    BY <1>5, SelfWrite DEF Prompt, TypeOK
  <2>2. joins' \in Seq(Pipes) /\ k' \in 0..Len(commands')
    BY <1>5 DEF Prompt
  <2> QED BY <1>2, <1>5, <2>1, <2>2 DEF Prompt, TypeOK
<1>6. CASE Resolve
  BY <1>6 DEF Resolve, TypeOK, plumbing, lineVars
<1>7. CASE NotRecognized
  BY <1>7 DEF NotRecognized, GiveUp, TypeOK, plumbing
<1>8. ASSUME FreeFds(fd) # {} PROVE Opened(fd, File) \in Table /\ Lowest(fd) \in Fds
  BY <1>8, Typed, OpenFacts, DescriptionTypes
<1>9. CASE Input
  BY <1>2, <1>8, <1>9 DEF Input, TypeOK, lineVars, Table
<1>10. CASE InputFails
  BY <1>10 DEF InputFails, GiveUp, TypeOK, plumbing
<1>11. CASE Output
  BY <1>2, <1>8, <1>11 DEF Output, TypeOK, lineVars, Table
<1>12. CASE MakePipe
  <2> DEFINE p == Min(UnusedPipes)
             half == Opened(fd, R(p))
  <2>1. fd \in Table /\ child = NoChild /\ Cardinality(FreeFds(fd)) >= 2
    BY <1>12, Typed DEF MakePipe
  <2>2. p \in Pipes /\ FreeFds(fd) # {} /\ FreeFds(half) # {}
    BY <2>1, SparePipe
  <2>3. R(p) \in Descriptions /\ W(p) \in Descriptions
    BY <2>2, DescriptionTypes
  <2>4. half \in Table /\ Lowest(fd) \in Fds
    BY <2>1, <2>2, <2>3, OpenFacts
  <2> HIDE DEF half
  <2>5. Opened(half, W(p)) \in Table /\ Lowest(half) \in Fds
    BY <2>2, <2>3, <2>4, OpenFacts
  <2> HIDE DEF p
  <2>6. /\ fd' = Opened(half, W(p)) /\ nextIn' = Lowest(fd) /\ out' = Lowest(half)
        /\ content' = [content EXCEPT ![p] = 0] /\ joins' = Append(joins, p)
        /\ pc' = "run" /\ pc = "output" /\ UNCHANGED <<child, lineVars, in>>
    BY <1>12 DEF MakePipe, half, p
  <2>7. content' \in [Pipes -> 0..PipeCap]
    BY <2>2, <2>6, Counts
  <2>8. joins' \in Seq(Pipes)
    BY <2>2, <2>6, Typed
  <2> QED BY <2>4, <2>5, <2>6, <2>7, <2>8 DEF TypeOK, Table, lineVars
<1>13. CASE OutputFails
  BY <1>13 DEF OutputFails, GiveUp, TypeOK, plumbing
<1>14. CASE Exit
  <2>1. content' \in [Pipes -> 0..PipeCap]
    BY <1>14, SelfWrite DEF Exit
  <2> QED BY <1>14, <2>1 DEF Exit, TypeOK, plumbing, lineVars
<1>15. ASSUME GoOn, k \in 1..Len(commands), pc \in {"run", "wait"}
       PROVE  k' \in 0..Len(commands') /\ pc' \in {"resolve", "prompt"}
  BY <1>15, Typed DEF GoOn
<1>16. pc \in {"run", "wait"} => k \in 1..Len(commands)
  BY DEF LineInv, Busy
<1>17. CASE ChangeDir
  <2>1. fd' \in Table
    BY <1>17, CdRestores DEF ChangeDir
  <2>2. unsaved' \in BOOLEAN
    BY <1>17 DEF ChangeDir
  <2>3. k' \in 0..Len(commands') /\ pc' \in {"resolve", "prompt"}
    BY <1>15, <1>16, <1>17 DEF ChangeDir
  <2> QED BY <1>17, <2>1, <2>2, <2>3 DEF ChangeDir, GoOn, TypeOK, Table, plumbing
<1>18. CASE ChangeDirFails
  <2>1. fd' \in Table
    BY <1>18, CdRedirects DEF ChangeDirFails
  <2> QED BY <1>18, <2>1 DEF ChangeDirFails, GiveUp, TypeOK, Table, plumbing
<1>19. CASE Fork
  <2>1. child' \in [fd : Table, reads : BOOLEAN, left : Nat]
    <3>1. Moved(Moved(fd, in, 0), out, 1) \in Table
      BY <1>2, <1>19, Typed, Sides, MoveFacts DEF Fork
    <3>2. Behaviour.reads \in BOOLEAN /\ Behaviour.writes \in Nat
      BY <1>19, ProgramAssumption DEF Fork, Behaviour, LineInv, Builtins
    <3> QED BY <1>19, <3>1, <3>2 DEF Fork
  <2>2. child' # NoChild
    BY <2>1, ChildIsThere
  <2> QED BY <1>19, <2>1, <2>2 DEF Fork, TypeOK, Table, lineVars, plumbing
<1>20. CASE Child
  <2>1. pc = "wait" /\ child \in [fd : Table, reads : BOOLEAN, left : Nat]
    BY <1>20, Typed DEF Child, ChildReads, ChildEof, ChildWrites
  <2>2. child.fd[0] \in Descriptions /\ child.fd[1] \in Descriptions
    BY <1>2, <2>1 DEF Table
  <2>3. /\ child' \in [fd : Table, reads : BOOLEAN, left : Nat]
        /\ content' \in [Pipes -> 0..PipeCap] /\ UnchangedShell
    <3>1. CASE ChildReads
      BY <2>1, <2>2, <3>1, Kinds, Counts DEF ChildReads
    <3>2. CASE ChildEof
      BY <2>1, <2>2, <3>2, Typed DEF ChildEof
    <3>3. CASE ChildWrites
      <4>1. child.fd[1].kind = "w" => child.fd[1].pipe \in Pipes
        BY <2>2, Kinds
      <4>2. content' \in [Pipes -> 0..PipeCap]
        BY <3>3, <4>1, Typed, Counts DEF ChildWrites, Full
      <4>3. child' \in [fd : Table, reads : BOOLEAN, left : Nat]
        BY <2>1, <3>3 DEF ChildWrites
      <4> QED BY <3>3, <4>2, <4>3 DEF ChildWrites
    <3> QED BY <1>20, <3>1, <3>2, <3>3 DEF Child
  <2>4. child' # NoChild
    BY <2>3, ChildIsThere
  <2> QED BY <2>1, <2>3, <2>4 DEF UnchangedShell, TypeOK, Table, lineVars, plumbing
<1>21. CASE Reap
  <2>1. fd' \in Table
    BY <1>21, AfterChildCloses DEF Reap
  <2>2. k' \in 0..Len(commands') /\ pc' \in {"resolve", "prompt"}
    BY <1>15, <1>16, <1>21 DEF Reap
  <2> QED BY <1>21, <2>1, <2>2 DEF Reap, GoOn, TypeOK, Table, plumbing
<1>22. CASE ReapFailure
  <2>1. fd' \in Table
    BY <1>22, AfterChildCloses DEF ReapFailure
  <2> QED BY <1>22, <2>1 DEF ReapFailure, TypeOK, Table, plumbing
<1> QED
  BY <1>3, <1>4, <1>5, <1>6, <1>7, <1>9, <1>10, <1>11, <1>12, <1>13, <1>14, <1>17,
     <1>18, <1>19, <1>20, <1>21, <1>22
  DEF Next, Main, Parse, Builtin

-----------------------------------------------------------------------------
(* Where the line stands.                                                  *)

\* What Placed says of the command at hand.
LEMMA CommandPlaced ==
  ASSUME LineInv, Busy
  PROVE  /\ k \in 1..Len(commands) /\ Len(commands) \in Nat
         /\ Command.input \notin {"STDOUT", "PIPE_WRITE"} /\ (Command.input = "PIPE_READ" => k > 1)
         /\ Command.output \notin {"STDIN", "PIPE_READ"}
         /\ Command.output = "PIPE_WRITE" <=> k < Len(commands)
         /\ Command.input = "STDIN" => k = 1
<1>1. /\ k \in 1..Len(commands) /\ Len(commands) \in Nat \ {0}
      /\ Command.input \notin Marks \/ Command.input = (IF k = 1 THEN "STDIN" ELSE "PIPE_READ")
      /\ k < Len(commands) => Command.output = "PIPE_WRITE"
      /\ k = Len(commands) => Command.output \notin Marks \/ Command.output = "STDOUT"
  BY DEF LineInv, Placed, Command
<1>2. k < Len(commands) \/ k = Len(commands)
  BY <1>1
<1> QED BY <1>1, <1>2 DEF Marks

\* The pipes made so far.
LEMMA PipesMade ==
  ASSUME TypeOK, LineInv, Busy
  PROVE  /\ k > 1 => joins[k - 1] \in Pipes
         /\ Joined => joins[k] \in Pipes
<1>1. joins \in Seq(Pipes) /\ k \in 1..Len(commands) /\ Len(joins) = IF Joined THEN k ELSE k - 1
  BY Typed DEF LineInv
<1> QED BY <1>1

\* Steps that end the line, or the shell.
Ends == \/ EndOfInput \/ NotRecognized \/ InputFails \/ OutputFails \/ Exit
        \/ ChangeDirFails \/ ReapFailure

LEMMA EndsFacts == Ends => pc' \in {"prompt", "exited"}
  BY DEF Ends, EndOfInput, NotRecognized, InputFails, OutputFails, Exit, ChangeDirFails,
         ReapFailure, GiveUp

\* The next step of the line after its command has run.
LEMMA GoOnFacts ==
  ASSUME TypeOK, LineInv, Busy, GoOn
  PROVE  \/ k < Len(commands) /\ k' = k + 1 /\ pc' = "resolve"
         \/ k = Len(commands) /\ k' = k /\ pc' = "prompt"
  BY CommandPlaced DEF GoOn

\* Every step preserves LineInv.
LEMMA LineStep ==
  ASSUME ShellInv, Next
  PROVE  LineInv'
<1>1. TypeOK /\ LineInv /\ k \in 0..Len(commands) /\ joins \in Seq(Pipes)
  BY Typed DEF ShellInv
<1>2. CASE ReadLine
  <2>1. PICK line \in Lines :
          IF Refused(line)
            THEN pc' = "prompt" /\ failed' = (line # <<>>) /\ UNCHANGED <<commands, k>>
            ELSE /\ pc' = "resolve" /\ failed' = FALSE
                 /\ commands' = IntoCommands(line) /\ k' = 1
    BY <1>2 DEF ReadLine
  <2>2. CASE Refused(line)
    BY <2>1, <2>2 DEF LineInv, Busy
  <2>3. CASE ~Refused(line)
    <3>1. Placed(commands') /\ Len(commands') \in Nat \ {0} /\ k' = 1 /\ pc' = "resolve"
      BY <2>1, <2>3, LineRead
    <3>2. joins' = <<>> /\ k' \in 1..Len(commands')
      BY <1>1, <1>2, <3>1 DEF LineInv, ReadLine, plumbing
    <3> QED BY <3>1, <3>2 DEF LineInv, Busy, Joined
  <2> QED BY <2>2, <2>3
<1>3. CASE Ends
  <2>1. pc' \in {"prompt", "exited"}
    BY <1>3, EndsFacts
  <2> QED BY <2>1 DEF LineInv, Busy
<1>4. CASE Prompt
  BY <1>4 DEF Prompt, LineInv, Busy
<1>5. CASE Resolve
  BY <1>1, <1>5 DEF Resolve, LineInv, Busy, Joined, Name, Command, Builtins, lineVars, plumbing
<1>6. CASE Input
  BY <1>1, <1>6 DEF Input, LineInv, Busy, Joined, Name, Command, lineVars
<1>7. CASE Output
  <2>1. Busy /\ Command.output # "PIPE_WRITE"
    BY <1>7 DEF Output, OutputIsFile, Busy
  <2>2. ~(k < Len(commands))
    BY <1>1, <2>1, CommandPlaced
  <2> QED BY <1>1, <1>7, <2>2 DEF Output, LineInv, Busy, Joined, Name, Command, lineVars
<1>8. CASE MakePipe
  <2>1. Busy /\ Command.output = "PIPE_WRITE" /\ pc = "output" /\ pc' = "run"
    BY <1>8 DEF MakePipe, Busy
  <2>2. k < Len(commands)
    BY <1>1, <2>1, CommandPlaced
  <2>3. joins' = Append(joins, Min(UnusedPipes)) /\ Len(joins) = k - 1
    BY <1>1, <1>8, <2>1 DEF MakePipe, LineInv, Joined
  <2>4. Len(joins') = k
    BY <1>1, <2>3
  <2> QED BY <1>1, <1>8, <2>1, <2>2, <2>4 DEF MakePipe, LineInv, Busy, Joined, Name, Command, lineVars
<1>9. CASE Fork
  BY <1>1, <1>9 DEF Fork, LineInv, Busy, Joined, Name, Command, lineVars, plumbing
<1>10. CASE Child
  BY <1>1, <1>10
  DEF Child, ChildReads, ChildEof, ChildWrites, UnchangedShell, LineInv, Busy, Joined, Name,
      Command, lineVars, plumbing
<1>11. CASE ChangeDir \/ Reap
  <2>1. pc \in {"run", "wait"} /\ GoOn /\ Busy
    BY <1>11 DEF ChangeDir, Reap, Busy
  <2>2. Len(joins) = IF k < Len(commands) THEN k ELSE k - 1
    BY <1>1, <2>1 DEF LineInv, Joined
  <2>3. Placed(commands) /\ k \in 1..Len(commands) /\ Len(commands) \in Nat
    BY <1>1, <2>1, CommandPlaced DEF LineInv
  <2>4. CASE k < Len(commands) /\ k' = k + 1 /\ pc' = "resolve"
    <3>1. commands' = commands /\ joins' = joins
      BY <2>1 DEF GoOn, plumbing
    <3> QED BY <2>2, <2>3, <2>4, <3>1 DEF LineInv, Busy, Joined
  <2>5. CASE k = Len(commands) /\ k' = k /\ pc' = "prompt"
    BY <2>5 DEF LineInv, Busy
  <2> QED BY <1>1, <2>1, <2>4, <2>5, GoOnFacts
<1> QED
  BY <1>2, <1>3, <1>4, <1>5, <1>6, <1>7, <1>8, <1>9, <1>10, <1>11
  DEF Next, Main, Parse, Builtin, Ends

-----------------------------------------------------------------------------
(* The numbers kept for the command.                                       *)

\* What a step that ends the line does to the table.
LEMMA EndsTable ==
  ASSUME TypeOK, NumbersInv, Ends
  PROVE  fd'[0] # Shut /\ fd'[1] # Shut
<1>1. fd[0] # Shut /\ fd[1] # Shut
  BY DEF NumbersInv
<1>2. CASE ChangeDirFails
  BY <1>2, CdRedirects, Sides DEF ChangeDirFails
<1>3. CASE ReapFailure
  BY <1>1, <1>3, AfterChildCloses DEF ReapFailure
<1>4. CASE EndOfInput \/ NotRecognized \/ InputFails \/ OutputFails \/ Exit
  BY <1>1, <1>4 DEF EndOfInput, NotRecognized, InputFails, OutputFails, Exit
<1> QED BY <1>2, <1>3, <1>4 DEF Ends

\* The number the next command reads from is not touched by the one that runs.
LEMMA NextInputStays ==
  ASSUME TypeOK, LineInv, NumbersInv, GoOn,
         ChangeDir \/ Reap
  PROVE  /\ fd'[0] # Shut /\ fd'[1] # Shut
         /\ \A f \in Fds \ {0, 1, in, out} : fd[f] # Shut => fd'[f] = fd[f]
         /\ k < Len(commands) =>
              /\ nextIn' \in Fds \ {0, 1} /\ nextIn' = nextIn /\ nextIn \notin {in, out}
              /\ fd'[nextIn'] = R(joins'[k]) /\ joins' = joins
<1>1. fd[0] # Shut /\ fd[1] # Shut
  BY DEF NumbersInv
<1>2. /\ fd'[0] # Shut /\ fd'[1] # Shut
      /\ \A f \in Fds \ {0, 1, in, out} : fd[f] # Shut => fd'[f] = fd[f]
  <2>1. CASE ChangeDir
    BY <2>1, CdRestores, CdRedirects DEF ChangeDir
  <2>2. CASE Reap
    BY <1>1, <2>2, AfterChildCloses DEF Reap
  <2> QED BY <2>1, <2>2
<1>3. nextIn' = nextIn /\ joins' = joins
  BY DEF GoOn, plumbing
<1>4. k < Len(commands) => nextIn \in Fds \ {0, 1, in, out} /\ fd[nextIn] = R(joins[k])
  BY DEF NumbersInv, Joined, ChangeDir, Reap
<1> QED BY <1>2, <1>3, <1>4, DescriptionsDiffer

\* Every step preserves NumbersInv.
LEMMA NumbersStep ==
  ASSUME ShellInv, Next
  PROVE  NumbersInv'
<1>1. TypeOK /\ LineInv /\ NumbersInv
  BY DEF ShellInv
<1>2. /\ fd \in Table /\ {in, out, nextIn} \subseteq Fds \cup {NoFd} /\ k \in 0..Len(commands)
      /\ joins \in Seq(Pipes) /\ fd[0] # Shut /\ fd[1] # Shut
      /\ {0, 1} \subseteq Fds /\ NoFd \notin Fds
  BY <1>1, Typed, FdFacts DEF NumbersInv
<1>3. CASE ReadLine
  <2>1. pc' = "prompt" \/ (pc' = "resolve" /\ k' = 1)
    BY <1>3 DEF ReadLine
  <2> QED BY <1>2, <1>3, <2>1 DEF ReadLine, NumbersInv, Joined
<1>4. CASE Ends
  BY <1>1, <1>4, EndsFacts, EndsTable DEF NumbersInv, Joined
<1>5. CASE Prompt
  BY <1>2, <1>5 DEF Prompt, NumbersInv, Joined
<1>6. CASE Resolve
  BY <1>1, <1>6 DEF Resolve, NumbersInv, Joined, lineVars, plumbing
<1>7. ASSUME FreeFds(fd) # {}
      PROVE  /\ Lowest(fd) \in Fds \ {0, 1} /\ fd[Lowest(fd)] = Shut
             /\ Opened(fd, File)[Lowest(fd)] = File
             /\ \A f \in Fds : fd[f] # Shut => Opened(fd, File)[f] = fd[f]
  BY <1>2, <1>7, OpenFacts, DescriptionTypes
<1>8. CASE Input
  <2>1. Busy /\ pc = "input" /\ pc' = "output"
    BY <1>8 DEF Input, Busy
  <2>2. Command.input = "PIPE_READ" => k > 1
    BY <1>1, <2>1, CommandPlaced
  <2>3. k > 1 => nextIn \in Fds \ {0, 1} /\ fd[nextIn] = R(joins[k - 1])
    BY <1>1, <2>1 DEF NumbersInv
  <2>4. UNCHANGED <<commands, k, joins, nextIn>>
    BY <1>8 DEF Input, lineVars
  <2>5. fd' \in {fd, Opened(fd, File)} /\ \A f \in Fds : fd[f] # Shut => fd'[f] = fd[f]
    BY <1>7, <1>8 DEF Input
  <2>6. InputPlaced'
    BY <1>2, <1>7, <1>8, <2>2, <2>3, <2>4 DEF Input, InputPlaced, InputIsFile, Command
  <2> QED BY <1>2, <2>1, <2>3, <2>4, <2>5, <2>6, DescriptionsDiffer DEF NumbersInv, Joined
<1>9. CASE Output
  <2>1. Busy /\ pc = "output" /\ pc' = "run" /\ Command.output # "PIPE_WRITE"
    BY <1>9 DEF Output, OutputIsFile, Busy
  <2>2. ~(k < Len(commands))
    BY <1>1, <2>1, CommandPlaced
  <2>3. UNCHANGED <<commands, k, joins, nextIn, in>>
    BY <1>9 DEF Output, lineVars
  <2>4. \A f \in Fds : fd[f] # Shut => fd'[f] = fd[f]
    BY <1>7, <1>9 DEF Output
  <2>5. InputPlaced
    BY <1>1, <2>1 DEF NumbersInv
  <2>6. InputPlaced'
    BY <1>2, <2>3, <2>4, <2>5, DescriptionsDiffer DEF InputPlaced, InputIsFile, Command
  <2>7. in \in Fds \ {1} /\ fd[in] # Shut
    BY <1>2, <2>5, DescriptionsDiffer DEF InputPlaced
  <2>8. OutputPlaced'
    BY <1>2, <1>7, <1>9, <2>3, <2>7 DEF Output, OutputPlaced, OutputIsFile, Command
  <2>9. ~Joined'
    BY <2>2, <2>3 DEF Joined
  <2> QED BY <1>2, <2>1, <2>4, <2>6, <2>8, <2>9 DEF NumbersInv
<1>10. CASE MakePipe
  <2> DEFINE p == Min(UnusedPipes)
             half == Opened(fd, R(p))
  <2>1. Busy /\ Command.output = "PIPE_WRITE" /\ pc = "output" /\ pc' = "run"
    BY <1>10 DEF MakePipe, Busy
  <2>2. child = NoChild /\ Cardinality(FreeFds(fd)) >= 2
    BY <1>1, <1>10, <2>1, Typed DEF MakePipe
  <2>3. p \in Pipes /\ FreeFds(fd) # {} /\ FreeFds(half) # {}
    BY <1>2, <2>2, SparePipe
  <2>4. R(p) \in Descriptions /\ W(p) \in Descriptions /\ R(p) # Shut
    BY <2>3, DescriptionTypes, DescriptionsDiffer
  <2>5. /\ half \in Table /\ Lowest(fd) \in Fds \ {0, 1} /\ fd[Lowest(fd)] = Shut
        /\ half[Lowest(fd)] = R(p)
        /\ \A f \in Fds : fd[f] # Shut => half[f] = fd[f]
    BY <1>2, <2>3, <2>4, OpenFacts
  <2> HIDE DEF half
  <2>6. /\ Lowest(half) \in Fds \ {0, 1, Lowest(fd)} /\ half[Lowest(half)] = Shut
        /\ Opened(half, W(p))[Lowest(half)] = W(p)
        /\ \A f \in Fds : half[f] # Shut => Opened(half, W(p))[f] = half[f]
    BY <1>2, <2>3, <2>4, <2>5, OpenFacts
  <2> HIDE DEF p
  <2>7. /\ fd' = Opened(half, W(p)) /\ nextIn' = Lowest(fd) /\ out' = Lowest(half)
        /\ joins' = Append(joins, p) /\ UNCHANGED <<commands, k, in>>
    BY <1>10 DEF MakePipe, half, p, lineVars
  <2>8. Len(joins) = k - 1 /\ k \in 1..Len(commands)
    BY <1>1, <2>1 DEF LineInv, Joined
  <2>9. joins'[k] = p /\ (k > 1 => joins'[k - 1] = joins[k - 1])
    BY <1>2, <2>7, <2>8
  <2>10. \A f \in Fds : fd[f] # Shut => fd'[f] = fd[f] /\ f # Lowest(half) /\ f # Lowest(fd)
    BY <2>5, <2>6, <2>7
  <2>11. InputPlaced
    BY <1>1, <2>1 DEF NumbersInv
  <2>12. InputPlaced'
    BY <1>2, <2>7, <2>9, <2>10, <2>11, DescriptionsDiffer DEF InputPlaced, InputIsFile, Command
  <2>13. in \in Fds \ {1} /\ fd[in] # Shut
    BY <1>2, <2>11, DescriptionsDiffer DEF InputPlaced
  <2>14. in # Lowest(half) /\ in # Lowest(fd) /\ fd'[Lowest(fd)] = R(p)
    BY <2>4, <2>5, <2>6, <2>7, <2>10, <2>13
  <2>15. OutputPlaced'
    BY <2>1, <2>6, <2>7, <2>9, <2>14 DEF OutputPlaced, Command
  <2>16. nextIn' \in (Fds \ {0, 1, in, out})' /\ fd'[nextIn'] = R(joins'[k'])
    BY <2>5, <2>6, <2>7, <2>9, <2>14
  <2> QED BY <1>2, <2>1, <2>10, <2>12, <2>15, <2>16 DEF NumbersInv
<1>11. CASE Fork
  <2>1. UNCHANGED <<fd, commands, k, joins, in, out, nextIn>> /\ pc = "run" /\ pc' = "wait"
        /\ child'.fd = Moved(Moved(fd, in, 0), out, 1)
    BY <1>11 DEF Fork, lineVars, plumbing
  <2> QED BY <1>1, <2>1
    DEF NumbersInv, InputPlaced, OutputPlaced, InputIsFile, OutputIsFile, Joined, Command
<1>12. CASE Child
  <2>1. pc = "wait" /\ child \in [fd : Table, reads : BOOLEAN, left : Nat]
    BY <1>1, <1>12, Typed DEF Child, ChildReads, ChildEof, ChildWrites
  <2>2. UNCHANGED <<fd, commands, k, joins, in, out, nextIn, pc>> /\ child'.fd = child.fd
    BY <1>12, <2>1 DEF Child, ChildReads, ChildEof, ChildWrites, UnchangedShell, lineVars, plumbing
  <2> QED BY <1>1, <2>1, <2>2
    DEF NumbersInv, InputPlaced, OutputPlaced, InputIsFile, OutputIsFile, Joined, Command
<1>13. CASE ChangeDir \/ Reap
  <2>1. Busy /\ GoOn
    BY <1>13 DEF ChangeDir, Reap, Busy
  <2>2. /\ fd'[0] # Shut /\ fd'[1] # Shut
        /\ k < Len(commands) =>
              nextIn' \in Fds \ {0, 1} /\ fd'[nextIn'] = R(joins'[k])
    BY <1>1, <1>13, <2>1, NextInputStays
  <2>3. \/ k < Len(commands) /\ k' = k + 1 /\ pc' = "resolve"
        \/ pc' = "prompt"
    BY <1>1, <2>1, GoOnFacts
  <2>4. k' = k + 1 => k' - 1 = k
    BY <1>1, <2>1, CommandPlaced
  <2> QED BY <2>2, <2>3, <2>4 DEF NumbersInv, Joined
<1> QED
  BY <1>3, <1>4, <1>5, <1>6, <1>8, <1>9, <1>10, <1>11, <1>12, <1>13
  DEF Next, Main, Parse, Builtin, Ends

-----------------------------------------------------------------------------
(* Where the ends of pipes are.                                            *)

\* Steps that leave the table as it is, and the numbers the line uses.
LEMMA PipeQuiet ==
  ASSUME PipeInv, UNCHANGED <<fd, unsaved>>, Joined' <=> Joined,
         Joined => joins'[k'] = joins[k] /\ out' = out,
         \A f \in Fds : f \in Using' => f \in Using,
         Busy' /\ k' > 1 => Busy /\ k > 1 /\ joins'[k' - 1] = joins[k - 1]
  PROVE  PipeInv'
<1>1. \A p \in Pipes : ReadEndStays(p) => ReadEndStays(p)'
  BY DEF ReadEndStays
<1> QED BY <1>1 DEF PipeInv

\* A step that ends the line: the next command's end of a new pipe is left open, and
\* so is every read end that was kept before.
LEMMA PipeEnds ==
  ASSUME ShellInv, Busy, pc' \in {"prompt", "exited"}, UNCHANGED unsaved,
         \A f \in Fds \ {0, 1, in, out} : fd[f] # Shut => fd'[f] = fd[f],
         \A g \in Fds, p \in Pipes : fd'[g] = W(p) => \E h \in Fds : fd[h] = W(p),
         fd'[0] = fd[0] \/ (pc = "run" /\ fd'[0] = fd[in])
  PROVE  PipeInv'
<1>1. TypeOK /\ LineInv /\ NumbersInv /\ PipeInv
  BY DEF ShellInv
<1>2. ~Joined' /\ ~Busy' /\ Using' = {}
  BY DEF Joined, Busy, Using
<1>3. SUFFICES ASSUME ~unsaved
               PROVE  /\ \A g \in Fds, p \in Pipes : fd'[g] = W(p) => ReadEndStays(p)'
                      /\ \A p \in Pipes : fd'[0] = R(p) => \A g \in Fds : fd'[g] # W(p)
  BY <1>2 DEF PipeInv
<1>4. ASSUME NEW p \in Pipes, NEW f \in Fds \ {0, 1, in, out}, fd[f] = R(p)
      PROVE  ReadEndStays(p)'
  BY <1>2, <1>4, DescriptionsDiffer DEF ReadEndStays
<1>5. ASSUME NEW g \in Fds, NEW p \in Pipes, fd'[g] = W(p) PROVE ReadEndStays(p)'
  <2>1. (Joined /\ p = joins[k]) \/ ReadEndStays(p)
    BY <1>1, <1>3, <1>5 DEF PipeInv
  <2>2. CASE Joined /\ p = joins[k]
    BY <1>1, <1>4, <2>2 DEF NumbersInv
  <2>3. CASE ReadEndStays(p)
    BY <1>4, <2>3 DEF ReadEndStays, Using
  <2> QED BY <2>1, <2>2, <2>3
<1>6. ASSUME NEW p \in Pipes, fd'[0] = R(p) PROVE \A g \in Fds : fd[g] # W(p)
  <2>1. CASE fd[0] = R(p)
    BY <1>1, <1>3, <2>1 DEF PipeInv
  <2>2. CASE pc = "run" /\ fd[in] = R(p) /\ in # 0
    <3>1. k > 1 /\ fd[in] = R(joins[k - 1])
      BY <1>1, <2>2, Sides, DescriptionsDiffer
    <3>2. p = joins[k - 1]
      BY <2>2, <3>1, DescriptionsDiffer
    <3> QED BY <1>1, <1>3, <3>1, <3>2 DEF PipeInv
  <2> QED BY <1>6, <2>1, <2>2
<1> QED BY <1>5, <1>6

\* cd and a child leave nobody who can write to the pipe the next command reads.
LEMMA PipeGoesOn ==
  ASSUME ShellInv, ChangeDir \/ Reap
  PROVE  PipeInv'
<1>1. TypeOK /\ LineInv /\ NumbersInv /\ PipeInv
  BY DEF ShellInv
<1>2. Busy /\ GoOn /\ pc \in {"run", "wait"}
  BY DEF ChangeDir, Reap, Busy
<1>3. /\ in \in Fds \ {1} /\ out \in Fds \ {0, in} /\ 0 \in Fds /\ 1 \in Fds
      /\ Command.output = "PIPE_WRITE" => out # 1
  BY <1>1, <1>2, Sides, FdFacts
<1>4. /\ UNCHANGED <<in, out, nextIn, joins, commands>>
      /\ \/ k < Len(commands) /\ k' = k + 1 /\ pc' = "resolve"
         \/ k = Len(commands) /\ k' = k /\ pc' = "prompt"
  BY <1>1, <1>2, GoOnFacts DEF GoOn, plumbing
<1>5. ~Joined' /\ Using' \subseteq Using /\ (Busy' => k < Len(commands) /\ k' - 1 = k)
  BY <1>1, <1>2, <1>4, CommandPlaced DEF Joined, Busy, Using
<1>6. unsaved' = FALSE => unsaved = FALSE /\ (ChangeDir => ~NoneSaved)
  BY <1>1, Typed DEF ChangeDir, Reap
<1>7. SUFFICES ASSUME ~unsaved'
               PROVE  /\ \A g \in Fds, p \in Pipes : fd'[g] = W(p) => ReadEndStays(p)'
                      /\ \A p \in Pipes : fd'[0] = R(p) => \A g \in Fds : fd'[g] # W(p)
                      /\ k < Len(commands) => \A g \in Fds : fd'[g] # W(joins[k])
  BY <1>4, <1>5 DEF PipeInv
<1>8. ~unsaved /\ (ChangeDir => ~NoneSaved)
  BY <1>1, <1>6, <1>7, Typed DEF ChangeDir, Reap
<1>9. fd'[0] = fd[0]
  <2>1. CASE ChangeDir
    BY <1>1, <1>8, <2>1, CdRestores DEF ChangeDir
  <2>2. CASE Reap
    BY <1>1, <2>2, AfterChildCloses DEF Reap
  <2> QED BY <2>1, <2>2
<1>10. ASSUME NEW g \in Fds, NEW p, fd'[g] = W(p)
       PROVE  \E h \in Fds : fd[h] = W(p) /\ (Command.output = "PIPE_WRITE" => h # out)
  <2>1. W(p) # Shut
    BY DescriptionsDiffer
  <2>2. CASE Reap
    BY <1>1, <1>10, <2>1, <2>2, AfterChildCloses DEF Reap
  <2>3. CASE ChangeDir
    <3>1. /\ fd'[0] = fd[0] /\ fd'[1] = fd[1]
          /\ \A f \in Fds \ {0, 1} : fd'[f] = Redirected[f]
      BY <1>1, <1>8, <2>3, CdRestores DEF ChangeDir
    <3>2. /\ in # 0 => Redirected[in] \in {Shut, fd[1]}
          /\ out # 1 => Redirected[out] = Shut
          /\ \A f \in Fds \ {0, 1, in, out} : Redirected[f] \in {fd[f], fd[0], fd[1]}
      BY <1>1, <2>3, CdRedirects DEF ChangeDir
    <3> QED BY <1>3, <1>10, <2>1, <3>1, <3>2
  <2> QED BY <2>2, <2>3
<1>11. Joined => \A g \in Fds : fd'[g] # W(joins[k])
  <2>1. Joined => Command.output = "PIPE_WRITE" /\ \A g \in Fds : fd[g] = W(joins[k]) => g = out
    BY <1>1, <1>2, CommandPlaced DEF Joined, PipeInv
  <2> QED BY <1>10, <2>1
<1>12. ASSUME NEW g \in Fds, NEW p \in Pipes, fd'[g] = W(p) PROVE ReadEndStays(p)'
  <2>1. \E h \in Fds : fd[h] = W(p)
    BY <1>10, <1>12
  <2>2. (Joined /\ p = joins[k]) \/ ReadEndStays(p)
    BY <1>1, <1>8, <2>1 DEF PipeInv
  <2>3. ReadEndStays(p)
    BY <1>11, <1>12, <2>2
  <2>4. PICK f \in Fds \ ({0, 1} \cup Using) : fd[f] = R(p)
    BY <2>3 DEF ReadEndStays
  <2>5. f \in Fds \ {0, 1, in, out} /\ fd[f] # Shut
    BY <1>2, <2>4, DescriptionsDiffer DEF Using
  <2>6. fd'[f] = fd[f]
    BY <1>1, <1>2, <2>5, NextInputStays
  <2> QED BY <1>5, <2>4, <2>6 DEF ReadEndStays
<1>13. ASSUME NEW p \in Pipes, fd'[0] = R(p) PROVE \A g \in Fds : fd'[g] # W(p)
  <2>1. \A h \in Fds : fd[h] # W(p)
    BY <1>1, <1>8, <1>9, <1>13 DEF PipeInv
  <2> QED BY <1>10, <2>1
<1> QED BY <1>2, <1>11, <1>12, <1>13 DEF Joined

\* Opening the file of a side moves no end of a pipe.
LEMMA PipeOpens ==
  ASSUME ShellInv, Input \/ Output
  PROVE  PipeInv'
<1>1. TypeOK /\ LineInv /\ NumbersInv /\ PipeInv
  BY DEF ShellInv
<1>2. Busy /\ Busy' /\ pc \in {"input", "output"} /\ UNCHANGED <<k, commands, joins, nextIn, unsaved>>
  BY DEF Input, Output, Busy, lineVars
<1>3. ~Joined /\ ~Joined'
  <2>1. CASE Input
    BY <2>1 DEF Input, Joined
  <2>2. CASE Output
    <3>1. Command.output # "PIPE_WRITE" /\ pc = "output"
      BY <2>2 DEF Output, OutputIsFile
    <3> QED BY <1>1, <1>2, <3>1, CommandPlaced DEF Joined
  <2> QED BY <2>1, <2>2
<1>4. \/ fd' = fd /\ (\A f \in Fds : f \in Using' => f \in Using \cup {0, 1})
      \/ /\ FreeFds(fd) # {} /\ fd' = Opened(fd, File)
         /\ \A f \in Fds : f \in Using' => f \in Using \cup {Lowest(fd)}
  BY <1>2 DEF Input, Output, Using
<1>5. FreeFds(fd) # {} =>
        /\ Lowest(fd) \in Fds /\ fd[Lowest(fd)] = Shut /\ Opened(fd, File)[Lowest(fd)] = File
        /\ \A f \in Fds : fd[f] # Shut => Opened(fd, File)[f] = fd[f]
        /\ \A f \in Fds : f # Lowest(fd) => Opened(fd, File)[f] = fd[f]
  BY <1>1, Typed, OpenFacts, DescriptionTypes
<1>6. ASSUME NEW g \in Fds, NEW p, fd'[g] = W(p) PROVE fd[g] = W(p)
  BY <1>4, <1>5, <1>6, DescriptionsDiffer
<1>7. ASSUME NEW p, ReadEndStays(p) PROVE ReadEndStays(p)'
  BY <1>4, <1>5, <1>7, DescriptionsDiffer DEF ReadEndStays
<1>8. fd'[0] = fd[0]
  BY <1>1, <1>4, <1>5, FdFacts DEF NumbersInv
<1> QED BY <1>1, <1>2, <1>3, <1>6, <1>7, <1>8 DEF PipeInv

\* The write end of a new pipe is in one number, and its read end in another that the
\* next command will use.
LEMMA PipeMade ==
  ASSUME ShellInv, MakePipe
  PROVE  PipeInv'
<1> DEFINE p == Min(UnusedPipes)
           half == Opened(fd, R(p))
<1>1. TypeOK /\ LineInv /\ NumbersInv /\ PipeInv
  BY DEF ShellInv
<1>2. Busy /\ pc = "output" /\ pc' = "run" /\ child = NoChild /\ Cardinality(FreeFds(fd)) >= 2
  BY <1>1, Typed DEF MakePipe, Busy
<1>3. /\ fd \in Table /\ p \in Pipes /\ FreeFds(fd) # {} /\ FreeFds(half) # {}
      /\ \A f \in Fds : fd[f] # R(p) /\ fd[f] # W(p)
  BY <1>1, <1>2, SparePipe, Typed
<1>4. R(p) \in Descriptions /\ W(p) \in Descriptions /\ R(p) # Shut
  BY <1>3, DescriptionTypes, DescriptionsDiffer
<1>5. /\ half \in Table /\ Lowest(fd) \in Fds /\ fd[Lowest(fd)] = Shut
      /\ half[Lowest(fd)] = R(p)
      /\ \A f \in Fds : f # Lowest(fd) => half[f] = fd[f]
  BY <1>3, <1>4, OpenFacts
<1> HIDE DEF half
<1>6. /\ Lowest(half) \in Fds /\ half[Lowest(half)] = Shut
      /\ Opened(half, W(p))[Lowest(half)] = W(p)
      /\ \A f \in Fds : f # Lowest(half) => Opened(half, W(p))[f] = half[f]
  BY <1>3, <1>4, <1>5, OpenFacts
<1> HIDE DEF p
<1>7. /\ fd' = Opened(half, W(p)) /\ nextIn' = Lowest(fd) /\ out' = Lowest(half)
      /\ joins' = Append(joins, p) /\ UNCHANGED <<commands, k, in, unsaved>>
  BY DEF MakePipe, half, p, lineVars
<1>8. Len(joins) = k - 1 /\ k \in 1..Len(commands) /\ joins \in Seq(Pipes) /\ ~Joined
  BY <1>1, <1>2, Typed DEF LineInv, Joined
<1>9. joins'[k] = p /\ (k > 1 => joins'[k - 1] = joins[k - 1])
  BY <1>7, <1>8
<1>10. Lowest(half) # Lowest(fd) /\ fd[Lowest(half)] = Shut
  BY <1>4, <1>5, <1>6
<1>11. /\ fd'[Lowest(half)] = W(p) /\ fd'[Lowest(fd)] = R(p)
       /\ \A f \in Fds \ {Lowest(fd), Lowest(half)} : fd'[f] = fd[f]
  BY <1>5, <1>6, <1>7, <1>10
<1>12. \A g \in Fds : \A q : fd'[g] = W(q) => (q = p /\ g = Lowest(half)) \/ (q # p /\ fd[g] = W(q))
  BY <1>3, <1>11, DescriptionsDiffer
<1>13. \A f \in Fds : f \in Using' => f \in Using \cup {Lowest(fd), Lowest(half)}
  BY <1>2, <1>7 DEF Using
<1>14. ASSUME NEW q, ReadEndStays(q) PROVE ReadEndStays(q)'
  <2>1. PICK f \in Fds \ ({0, 1} \cup Using) : fd[f] = R(q)
    BY <1>14 DEF ReadEndStays
  <2>2. f \notin {Lowest(fd), Lowest(half)}
    BY <1>5, <1>10, <2>1, DescriptionsDiffer
  <2> QED BY <1>11, <1>13, <2>1, <2>2 DEF ReadEndStays
<1>15. fd'[0] = fd[0] /\ 0 \in Fds
  BY <1>1, <1>5, <1>10, <1>11, FdFacts DEF NumbersInv
<1>16. Joined' => \A g \in Fds : fd'[g] = W(joins'[k']) => g = out'
  BY <1>7, <1>9, <1>12
<1>17. SUFFICES ASSUME ~unsaved
                PROVE  /\ \A g \in Fds, q \in Pipes : fd'[g] = W(q) => q = p \/ ReadEndStays(q)'
                       /\ \A q \in Pipes : fd'[0] = R(q) => \A g \in Fds : fd'[g] # W(q)
                       /\ k > 1 => \A g \in Fds : fd'[g] # W(joins[k - 1])
  <2>1. (Joined' <=> k < Len(commands)) /\ k < Len(commands)
    <3>1. Command.output = "PIPE_WRITE"
      BY DEF MakePipe
    <3> QED BY <1>1, <1>2, <1>7, <3>1, CommandPlaced DEF Joined
  <2> QED BY <1>7, <1>9, <1>16, <2>1 DEF PipeInv
<1>18. \A g \in Fds, q \in Pipes : fd'[g] = W(q) => q = p \/ ReadEndStays(q)'
  BY <1>1, <1>8, <1>12, <1>14, <1>17 DEF PipeInv
<1>19. \A q \in Pipes : fd'[0] = R(q) => \A g \in Fds : fd'[g] # W(q)
  BY <1>1, <1>3, <1>12, <1>15, <1>17, DescriptionsDiffer DEF PipeInv
<1>20. k > 1 => \A g \in Fds : fd'[g] # W(joins[k - 1])
  <2>1. k > 1 => nextIn \in Fds /\ fd[nextIn] = R(joins[k - 1])
    BY <1>1, <1>2 DEF NumbersInv
  <2>2. k > 1 => joins[k - 1] # p
    BY <1>3, <2>1
  <2>3. k > 1 => \A g \in Fds : fd[g] # W(joins[k - 1])
    BY <1>1, <1>2, <1>17 DEF PipeInv
  <2> QED BY <1>12, <2>2, <2>3, DescriptionsDiffer
<1> QED BY <1>18, <1>19, <1>20

\* Every step preserves PipeInv.
LEMMA PipeStep ==
  ASSUME ShellInv, Next
  PROVE  PipeInv'
<1>1. TypeOK /\ LineInv /\ NumbersInv /\ PipeInv
  BY DEF ShellInv
<1>2. CASE pc = "read" /\ UNCHANGED <<fd, unsaved, plumbing>> /\ ~Joined' /\ (Busy' => k' = 1)
  <2>1. ~Busy /\ ~Joined /\ in = NoFd /\ out = NoFd /\ nextIn = NoFd /\ NoFd \notin Fds
    BY <1>1, <1>2, FdFacts DEF LineInv, Busy, Joined
  <2>2. \A f \in Fds : f \in Using' => f \in Using
    BY <1>2, <2>1 DEF Using, plumbing
  <2> QED BY <1>1, <1>2, <2>1, <2>2, PipeQuiet
<1>3. CASE ReadLine
  <2>1. pc' = "prompt" \/ (pc' = "resolve" /\ k' = 1)
    BY <1>3 DEF ReadLine
  <2> QED BY <1>2, <1>3, <2>1 DEF ReadLine, Joined, Busy
<1>4. CASE EndOfInput
  BY <1>2, <1>4 DEF EndOfInput, Joined, Busy, lineVars
<1>5. CASE Prompt
  <2>1. ~Joined /\ ~Joined' /\ ~Busy' /\ Using' = {} /\ UNCHANGED <<fd, unsaved>>
    BY <1>5 DEF Prompt, Joined, Busy, Using
  <2> QED BY <1>1, <2>1, PipeQuiet
<1>6. CASE Resolve \/ Fork \/ Child
  <2>1. /\ Busy /\ Busy' /\ UNCHANGED <<fd, unsaved, k, commands, joins, in, out, nextIn>>
        /\ pc \in {"run", "wait"} <=> pc' \in {"run", "wait"}
    BY <1>6 DEF Resolve, Fork, Child, ChildReads, ChildEof, ChildWrites, UnchangedShell, Busy,
                lineVars, plumbing
  <2>2. Using' = Using /\ (Joined' <=> Joined)
    BY <2>1 DEF Using, Joined
  <2> QED BY <1>1, <2>1, <2>2, PipeQuiet
<1>7. CASE NotRecognized \/ InputFails \/ OutputFails \/ Exit
  <2>1. Busy /\ pc' \in {"prompt", "exited"} /\ UNCHANGED <<unsaved, fd>>
    BY <1>7 DEF NotRecognized, InputFails, OutputFails, Exit, GiveUp, Busy, lineVars
  <2> QED BY <2>1, PipeEnds
<1>8. CASE ChangeDirFails
  <2>1. Busy /\ pc = "run" /\ pc' = "prompt" /\ UNCHANGED unsaved /\ fd' = Redirected
    BY <1>8 DEF ChangeDirFails, GiveUp, Busy
  <2>2. /\ in \in Fds \ {1} /\ out \in Fds \ {0, in} /\ 0 \in Fds /\ 1 \in Fds
    BY <1>1, <2>1, Sides, FdFacts
  <2>3. /\ Redirected[0] = fd[in] /\ Redirected[1] = fd[out]
        /\ in # 0 => Redirected[in] \in {Shut, fd[1]}
        /\ out # 1 => Redirected[out] = Shut
        /\ \A f \in Fds \ {0, 1, in, out} : fd[f] # Shut => Redirected[f] = fd[f]
        /\ \A f \in Fds \ {0, 1, in, out} : Redirected[f] \in {fd[f], fd[0], fd[1]}
    BY <1>1, <2>1, CdRedirects
  <2>4. \A g \in Fds, p \in Pipes : fd'[g] = W(p) => \E h \in Fds : fd[h] = W(p)
    BY <2>1, <2>2, <2>3, DescriptionsDiffer
  <2>5. fd'[0] = fd[in]
    BY <2>1, <2>3
  <2> QED BY <2>1, <2>3, <2>4, <2>5, PipeEnds
<1>9. CASE ReapFailure
  <2>1. Busy /\ pc = "wait" /\ pc' = "prompt" /\ UNCHANGED unsaved /\ fd' = AfterChild(fd)
    BY <1>9 DEF ReapFailure, Busy
  <2>2. /\ fd'[0] = fd[0]
        /\ \A f \in Fds : fd'[f] \in {fd[f], Shut}
        /\ \A f \in Fds \ {in, out} : fd'[f] = fd[f]
    BY <1>1, <2>1, AfterChildCloses
  <2>3. \A g \in Fds, p \in Pipes : fd'[g] = W(p) => \E h \in Fds : fd[h] = W(p)
    BY <2>2, DescriptionsDiffer
  <2> QED BY <2>1, <2>2, <2>3, PipeEnds
<1> QED
  BY <1>3, <1>4, <1>5, <1>6, <1>7, <1>8, <1>9, PipeOpens, PipeMade, PipeGoesOn
  DEF Next, Main, Parse, Builtin

-----------------------------------------------------------------------------
(* The shell's own input and output.                                       *)

\* Every step but a cd that fails, or has nothing to keep them in, leaves the shell's
\* own 0 and 1 as they were.
LEMMA StdUntouched ==
  ASSUME ShellInv, Next, ~ChangeDirFails, ChangeDir => ~NoneSaved
  PROVE  fd'[0] = fd[0] /\ fd'[1] = fd[1]
<1>1. TypeOK /\ LineInv /\ NumbersInv
  BY DEF ShellInv
<1>2. /\ fd \in Table /\ 0 \in Fds /\ 1 \in Fds /\ fd[0] # Shut /\ fd[1] # Shut
      /\ \A d \in {File} : d \in Descriptions
  BY <1>1, Typed, FdFacts, DescriptionTypes DEF NumbersInv
<1>3. CASE Input \/ Output
  BY <1>2, <1>3, OpenFacts DEF Input, Output
<1>4. CASE MakePipe
  <2> DEFINE p == Min(UnusedPipes)
             half == Opened(fd, R(p))
  <2>1. child = NoChild /\ Cardinality(FreeFds(fd)) >= 2 /\ fd' = Opened(half, W(p))
    BY <1>1, <1>4, Typed DEF MakePipe
  <2>2. p \in Pipes /\ FreeFds(fd) # {} /\ FreeFds(half) # {}
    BY <1>2, <2>1, SparePipe
  <2>3. R(p) \in Descriptions /\ W(p) \in Descriptions
    BY <2>2, DescriptionTypes
  <2>4. half \in Table /\ half[0] = fd[0] /\ half[1] = fd[1]
    BY <1>2, <2>2, <2>3, OpenFacts
  <2> HIDE DEF half, p
  <2> QED BY <1>2, <2>1, <2>2, <2>3, <2>4, OpenFacts
<1>5. CASE ChangeDir
  BY <1>1, <1>5, CdRestores DEF ChangeDir
<1>6. CASE Reap \/ ReapFailure
  BY <1>1, <1>6, AfterChildCloses DEF Reap, ReapFailure
<1>7. CASE \/ ReadLine \/ EndOfInput \/ Prompt \/ Resolve \/ NotRecognized \/ InputFails
           \/ OutputFails \/ Exit \/ Fork \/ Child
  BY <1>7 DEF ReadLine, EndOfInput, Prompt, Resolve, NotRecognized, InputFails, OutputFails,
              Exit, Fork, Child, ChildReads, ChildEof, ChildWrites, UnchangedShell, GiveUp
<1> QED BY <1>3, <1>4, <1>5, <1>6, <1>7 DEF Next, Main, Parse, Builtin

\* Every step preserves StdInv.
LEMMA StdStep ==
  ASSUME ShellInv, Next
  PROVE  StdInv'
<1>1. TypeOK /\ LineInv /\ NumbersInv /\ StdInv
  BY DEF ShellInv
<1>2. CASE ReadLine
  BY <1>2 DEF ReadLine, StdInv, StdKept
<1>3. CASE Prompt \/ EndOfInput \/ Exit
  BY <1>3 DEF Prompt, EndOfInput, Exit, StdInv, StdKept, Busy
<1>4. CASE ChangeDirFails
  <2>1. /\ pc' = "prompt" /\ failed' = TRUE /\ UNCHANGED <<commands, k>> /\ Name = "cd"
        /\ Busy
    BY <1>4 DEF ChangeDirFails, GiveUp, Busy
  <2>2. commands # <<>>
    BY <1>1, <2>1, CommandPlaced
  <2> QED BY <2>1, <2>2 DEF StdInv, StdKept, Busy, Name, Command
<1>5. CASE Busy /\ start' = start /\ fd'[0] = fd[0] /\ fd'[1] = fd[1] /\ (~unsaved' => ~unsaved)
  BY <1>1, <1>5 DEF StdInv, StdKept
<1>6. CASE ChangeDir /\ NoneSaved
  BY <1>6 DEF ChangeDir, StdInv, StdKept
<1>7. CASE /\ \/ Resolve \/ NotRecognized \/ Input \/ InputFails \/ Output \/ MakePipe \/ OutputFails
              \/ ChangeDir \/ Fork \/ Child \/ Reap \/ ReapFailure
           /\ ChangeDir => ~NoneSaved
           /\ ~ChangeDirFails
  <2>1. Busy /\ start' = start /\ (unsaved' = unsaved \/ unsaved' = (unsaved \/ NoneSaved))
    BY <1>7 DEF Resolve, NotRecognized, Input, InputFails, Output, MakePipe, OutputFails, ChangeDir,
                Fork, Child, ChildReads, ChildEof, ChildWrites, UnchangedShell, Reap, ReapFailure,
                GiveUp, GoOn, Busy, lineVars
  <2>2. fd'[0] = fd[0] /\ fd'[1] = fd[1]
    BY <1>7, StdUntouched
  <2>3. ~unsaved' => ~unsaved
    BY <1>1, <2>1, Typed, Zenon
  <2> QED BY <1>5, <2>1, <2>2, <2>3
<1> QED
  BY <1>2, <1>3, <1>4, <1>6, <1>7 DEF Next, Main, Parse, Builtin

-----------------------------------------------------------------------------
(* The theorems.                                                           *)

LEMMA InitInv == Init => ShellInv
<1> SUFFICES ASSUME Init PROVE ShellInv
  OBVIOUS
<1>1. /\ Tty # Shut /\ Tty \in Descriptions /\ Script \in Descriptions /\ Shut \in Descriptions
      /\ \A p \in Pipes : \A d \in {Shut, Tty, Script} : d # R(p) /\ d # W(p)
  BY DescriptionsDiffer, DescriptionTypes
<1>2. /\ fd \in Table /\ fd[0] = Tty /\ fd[1] = Tty
      /\ \A f \in Fds : fd[f] \in {Tty, Script, Shut}
  BY <1>1, FdFacts DEF Init, Table
<1>3. TypeOK
  <2>1. content \in [Pipes -> 0..PipeCap] /\ joins \in Seq(Pipes) /\ k \in 0..Len(commands)
    BY BoundsAssumption DEF Init
  <2>2. child = NoChild /\ pc = "read" /\ start = fd
    BY DEF Init
  <2> QED BY <1>2, <2>1, <2>2 DEF Init, TypeOK, Table
<1>4. LineInv /\ NumbersInv
  BY <1>1, <1>2 DEF Init, LineInv, NumbersInv, Busy, Joined
<1>5. PipeInv
  <2>1. ~Joined /\ ~Busy /\ \A g \in Fds, p \in Pipes : fd[g] # W(p)
    BY <1>1, <1>2 DEF Init, Joined, Busy
  <2> QED BY <2>1 DEF PipeInv
<1>6. StdInv
  BY DEF Init, StdInv, StdKept, Busy
<1> QED BY <1>3, <1>4, <1>5, <1>6 DEF ShellInv

LEMMA Stutter == ShellInv /\ UNCHANGED vars => ShellInv'
  BY DEF ShellInv, TypeOK, LineInv, NumbersInv, PipeInv, StdInv, StdKept, InputPlaced, OutputPlaced,
         InputIsFile, OutputIsFile, Joined, Busy, Using, ReadEndStays, Command, Name,
         vars, lineVars, plumbing

LEMMA ShellInvariant == Spec => []ShellInv
<1>1. ShellInv /\ [Next]_vars => ShellInv'
  <2>1. ASSUME ShellInv, Next PROVE ShellInv'
    BY <2>1, TypeStep, LineStep, NumbersStep, PipeStep, StdStep DEF ShellInv
  <2> QED BY <2>1, Stutter
<1> QED BY <1>1, InitInv, PTL DEF Spec

\* Every variable keeps its type: in particular a command is only ever run with open
\* numbers for its input and output.
THEOREM TypeCorrect == Spec => []TypeOK
<1>1. ShellInv => TypeOK
  BY DEF ShellInv
<1> QED BY <1>1, ShellInvariant, PTL

\* The child's table, for the numbers NumbersInv knows of.
LEMMA ChildTable ==
  ASSUME ShellInv, pc = "wait"
  PROVE  /\ child.fd[0] = fd[in] /\ child.fd[1] = fd[out]
         /\ \A f \in Fds : child.fd[f] = Shut \/ \E g \in Fds : child.fd[f] = fd[g]
<1> DEFINE mid == Moved(fd, in, 0)
<1>1. /\ fd \in Table /\ in \in Fds \ {1} /\ out \in Fds \ {0, in} /\ 0 \in Fds /\ 1 \in Fds
      /\ child.fd = Moved(mid, out, 1)
  BY Typed, Sides, FdFacts DEF ShellInv, NumbersInv
<1>2. /\ mid \in Table /\ mid[0] = fd[in] /\ (in # 0 => mid[in] = Shut)
      /\ \A f \in Fds \ {0, in} : mid[f] = fd[f]
  <2>1. in = 0 => mid = fd
    BY DEF Moved
  <2>2. in # 0 => /\ mid \in Table /\ mid[0] = fd[in] /\ mid[in] = Shut
                 /\ \A f \in Fds : f \notin {in, 0} => mid[f] = fd[f]
    BY <1>1, MoveFacts
  <2> QED BY <1>1, <2>1, <2>2
<1> HIDE DEF mid
<1>3. /\ Moved(mid, out, 1)[1] = mid[out] /\ (out # 1 => Moved(mid, out, 1)[out] = Shut)
      /\ \A f \in Fds \ {1, out} : Moved(mid, out, 1)[f] = mid[f]
  <2>1. out = 1 => Moved(mid, out, 1) = mid
    BY DEF Moved
  <2>2. out # 1 => /\ Moved(mid, out, 1)[1] = mid[out] /\ Moved(mid, out, 1)[out] = Shut
                  /\ \A f \in Fds : f \notin {out, 1} => Moved(mid, out, 1)[f] = mid[f]
    BY <1>1, <1>2, MoveFacts
  <2> QED BY <1>1, <2>1, <2>2
<1> QED BY <1>1, <1>2, <1>3

\* A child of a pipeline has the pipe of its left neighbour for its input and that of
\* its right neighbour for its output, unless a file has taken the place; otherwise
\* they are the shell's own (executeCommand between fork and exec).
THEOREM EndsPlaced == Spec => []ChildHasItsEnds
<1>1. ShellInv => ChildHasItsEnds
  <2> SUFFICES ASSUME ShellInv, pc = "wait"
               PROVE  /\ child.fd[0] = CASE Command.input = "STDIN" -> fd[0]
                                         [] Command.input = "PIPE_READ" -> R(joins[k - 1])
                                         [] OTHER -> File
                      /\ child.fd[1] = CASE Command.output = "STDOUT" -> fd[1]
                                         [] Command.output = "PIPE_WRITE" -> W(joins[k])
                                         [] OTHER -> File
    BY DEF ChildHasItsEnds
  <2>1. InputPlaced /\ OutputPlaced
    BY DEF ShellInv, NumbersInv
  <2> QED BY <2>1, ChildTable DEF InputPlaced, OutputPlaced, InputIsFile, OutputIsFile
<1> QED BY <1>1, ShellInvariant, PTL

\* A description somebody holds while a child runs is in the shell's own table.
LEMMA HeldByShell ==
  ASSUME ShellInv, NEW p, Held(W(p))
  PROVE  \E g \in Fds : fd[g] = W(p)
<1>1. CASE pc = "wait"
  BY <1>1, ChildTable, DescriptionsDiffer DEF Held, Children
<1>2. CASE pc # "wait"
  BY <1>2, Typed DEF ShellInv, Held, Children
<1> QED BY <1>1, <1>2

\* While a program reads a pipe, neither the shell nor the program has the write end
\* open, so the end of the input comes (the shell closes both ends after each child).
THEOREM PipesEnd == Spec => []ReadersSeeTheEnd
<1>1. ShellInv => ReadersSeeTheEnd
  <2> SUFFICES ASSUME ShellInv, pc = "wait", child.fd[0].kind = "r", ~unsaved,
                      Held(W(child.fd[0].pipe))
               PROVE  FALSE
    BY DEF ReadersSeeTheEnd
  <2>1. TypeOK /\ NumbersInv /\ LineInv /\ PipeInv
    BY DEF ShellInv
  <2> DEFINE p == child.fd[0].pipe
  <2>2. in \in Fds /\ fd[in] \in Descriptions /\ child.fd[0] = fd[in]
    BY <2>1, ChildTable, Sides, Typed DEF Table
  <2>3. p \in Pipes /\ fd[in] = R(p)
    BY <2>2, Kinds
  <2>4. PICK g \in Fds : fd[g] = W(p)
    BY HeldByShell
  <2>5. CASE in = 0
    BY <2>1, <2>3, <2>4, <2>5 DEF PipeInv
  <2>6. CASE in # 0
    <3>1. k > 1 /\ fd[in] = R(joins[k - 1])
      BY <2>1, <2>3, <2>6, Sides, DescriptionsDiffer
    <3>2. p = joins[k - 1]
      BY <2>3, <3>1, DescriptionsDiffer
    <3>3. Busy
      BY DEF Busy
    <3> QED BY <2>1, <2>4, <3>1, <3>2, <3>3 DEF PipeInv
  <2> QED BY <2>5, <2>6
<1> QED BY <1>1, ShellInvariant, PTL

\* A pipe that can be written to can be read: no SIGPIPE kills the shell or a program,
\* also when commands or redirections have failed before.
THEOREM PipesHaveReaders == Spec => []NoBrokenPipe
<1>1. ShellInv => NoBrokenPipe
  <2> SUFFICES ASSUME ShellInv, ~unsaved, NEW p \in Pipes, Held(W(p)) PROVE Held(R(p))
    BY DEF NoBrokenPipe
  <2>1. PICK g \in Fds : fd[g] = W(p)
    BY HeldByShell
  <2>2. (Joined /\ p = joins[k]) \/ ReadEndStays(p)
    BY <2>1 DEF ShellInv, PipeInv
  <2>3. \E f \in Fds : fd[f] = R(p)
    BY <2>2 DEF ShellInv, NumbersInv, ReadEndStays
  <2> QED BY <2>3 DEF Held
<1> QED BY <1>1, ShellInvariant, PTL

\* After a line the shell reads and writes where it did before, unless a cd of the
\* line failed or had no number left to keep its 0 or 1 in.
THEOREM ShellKeepsItsOwn == Spec => []StdKept
<1>1. ShellInv => StdKept
  BY DEF ShellInv, StdInv
<1> QED BY <1>1, ShellInvariant, PTL

-----------------------------------------------------------------------------
(* What a line leaves open.                                                *)

Open(table) == {f \in Fds : table[f] # Shut}

LEMMA OpenType ==
  ASSUME NEW table
  PROVE  /\ IsFiniteSet(Open(table)) /\ OpenFds(table) = Cardinality(Open(table))
         /\ OpenFds(table) \in Nat
<1>1. NFds \in Nat /\ 0 \in Int /\ NFds - 1 \in Int
  BY BoundsAssumption
<1>2. IsFiniteSet(Fds)
  BY <1>1, FS_Interval, Zenon DEF Fds
<1>3. Open(table) \subseteq Fds /\ OpenFds(table) = Cardinality(Open(table))
  BY DEF Open, OpenFds
<1> QED BY <1>2, <1>3, FS_Subset, FS_CardinalityType

\* One number more is open.
LEMMA OneOpened ==
  ASSUME NEW table, NEW t, NEW f \in Fds, table[f] = Shut, t[f] # Shut,
         \A g \in Fds \ {f} : t[g] = table[g]
  PROVE  OpenFds(t) = OpenFds(table) + 1
<1>1. Open(t) = Open(table) \cup {f} /\ f \notin Open(table)
  BY DEF Open
<1>2. Cardinality(Open(table) \cup {f})
        = IF f \in Open(table) THEN Cardinality(Open(table)) ELSE Cardinality(Open(table)) + 1
  BY OpenType, FS_AddElement, Zenon
<1> QED BY <1>1, <1>2, OpenType

LEMMA OneClosed ==
  ASSUME NEW table \in Table, NEW f \in Fds, table[f] # Shut
  PROVE  OpenFds(Close(table, f)) = OpenFds(table) - 1
<1>1. Close(table, f)[f] = Shut /\ \A g \in Fds \ {f} : table[g] = Close(table, f)[g]
  BY DEF Close, Table
<1>2. OpenFds(table) = OpenFds(Close(table, f)) + 1
  BY <1>1, OneOpened
<1> QED BY <1>2, OpenType

LEMMA SameOpen ==
  ASSUME NEW table, NEW t, \A f \in Fds : t[f] = Shut <=> table[f] = Shut
  PROVE  OpenFds(t) = OpenFds(table)
<1>1. Open(t) = Open(table)
  BY DEF Open
<1> QED BY <1>1, OpenType

\* cd has one duplicate more and one description less for each side that it moves.
LEMMA SaveOpens ==
  ASSUME NEW table \in Table, NEW from \in Fds, NEW to \in Fds,
         table[from] # Shut, table[to] # Shut
  PROVE  OpenFds(Saved(table, from, to)) <= OpenFds(table)
<1>1. CASE from = to
  BY <1>1, OpenType DEF Saved
<1>2. CASE from # to
  <2> DEFINE t == Saved(table, from, to)
             rest == Open(table) \ {from}
  <2>1. /\ t[from] = Shut
        /\ \A f \in Fds : f \notin {from, to, Lowest(table)} => t[f] = table[f]
    BY <1>2, SaveFacts
  <2>2. Open(t) \subseteq rest \cup {Lowest(table)}
    BY <2>1 DEF Open
  <2>3. from \in Open(table)
    BY DEF Open
  <2>4. IsFiniteSet(rest) /\ Cardinality(rest) = Cardinality(Open(table)) - 1
    BY <2>3, OpenType, FS_RemoveElement
  <2> HIDE DEF rest, t
  <2>5. /\ IsFiniteSet(rest \cup {Lowest(table)})
        /\ Cardinality(rest \cup {Lowest(table)})
             = IF Lowest(table) \in rest THEN Cardinality(rest) ELSE Cardinality(rest) + 1
    BY <2>4, FS_AddElement, Zenon
  <2>6. Cardinality(Open(t)) <= Cardinality(rest \cup {Lowest(table)})
    BY <2>2, <2>5, FS_Subset
  <2>7. /\ OpenFds(t) = Cardinality(Open(t)) /\ OpenFds(t) \in Nat
        /\ OpenFds(table) = Cardinality(Open(table)) /\ OpenFds(table) \in Nat
    BY OpenType
  <2>8. OpenFds(t) <= OpenFds(table)
    BY <2>4, <2>5, <2>6, <2>7
  <2> QED BY <2>8 DEF t
<1> QED BY <1>1, <1>2

LEMMA CdOpens ==
  ASSUME TypeOK, NumbersInv, pc = "run"
  PROVE  OpenFds(Redirected) <= OpenFds(fd)
<1> DEFINE mid == Saved(fd, in, 0)
<1>1. fd \in Table /\ 0 \in Fds /\ 1 \in Fds
  BY Typed, FdFacts
<1>2. /\ in \in Fds \ {1} /\ out \in Fds \ {0, in}
      /\ fd[in] # Shut /\ fd[out] # Shut /\ fd[0] # Shut /\ fd[1] # Shut
  BY Sides
<1>3. OpenFds(mid) <= OpenFds(fd)
  BY <1>1, <1>2, SaveOpens
<1>4. mid \in Table /\ mid[out] # Shut /\ mid[1] # Shut
  <2>1. CASE in = 0
    BY <1>1, <1>2, <2>1 DEF Saved
  <2>2. CASE in # 0
    BY <1>1, <1>2, <2>2, SaveFacts
  <2> QED BY <2>1, <2>2
<1> HIDE DEF mid
<1>5. OpenFds(Saved(mid, out, 1)) <= OpenFds(mid)
  BY <1>1, <1>2, <1>4, SaveOpens
<1>6. Redirected = Saved(mid, out, 1)
  BY DEF Redirected, mid
<1> QED BY <1>3, <1>5, <1>6, OpenType

\* Putting 0 and 1 back closes nothing and opens nothing.
LEMMA CdLeaves ==
  ASSUME TypeOK, NumbersInv, ChangeDir
  PROVE  OpenFds(fd') <= OpenFds(fd)
<1>1. /\ pc = "run"
      /\ fd' = Restored(Redirected, Duplicate(fd, in, 0), Duplicate(Saved(fd, in, 0), out, 1))
  BY DEF ChangeDir
<1>2. fd'[0] # Shut /\ fd'[1] # Shut /\ \A f \in Fds \ {0, 1} : fd'[f] = Redirected[f]
  BY <1>1, CdRestores
<1>3. Redirected[0] # Shut /\ Redirected[1] # Shut
  BY <1>1, CdRedirects, Sides
<1>4. OpenFds(fd') = OpenFds(Redirected)
  BY <1>2, <1>3, SameOpen
<1> QED BY <1>1, <1>4, CdOpens

\* After a child the ends of its pipes are closed.
LEMMA ReapLeaves ==
  ASSUME TypeOK, NumbersInv, pc = "wait"
  PROVE  OpenFds(AfterChild(fd)) = OpenFds(fd) - (IF Command.input = "PIPE_READ" THEN 1 ELSE 0)
                                     - (IF Command.output = "PIPE_WRITE" THEN 1 ELSE 0)
<1> DEFINE mid == IF Command.input = "PIPE_READ" THEN Close(fd, in) ELSE fd
<1>1. fd \in Table /\ Shut \in Descriptions
  BY Typed, DescriptionTypes
<1>2. in \in Fds /\ out \in Fds \ {in} /\ fd[in] # Shut /\ fd[out] # Shut
  BY Sides
<1>3. /\ mid \in Table /\ mid[out] # Shut
      /\ OpenFds(mid) = OpenFds(fd) - (IF Command.input = "PIPE_READ" THEN 1 ELSE 0)
  <2>1. CASE Command.input = "PIPE_READ"
    <3>1. Close(fd, in) \in Table /\ Close(fd, in)[out] = fd[out]
      BY <1>1, <1>2 DEF Close, Table
    <3>2. OpenFds(Close(fd, in)) = OpenFds(fd) - 1
      BY <1>1, <1>2, OneClosed
    <3> QED BY <1>2, <2>1, <3>1, <3>2
  <2>2. CASE Command.input # "PIPE_READ"
    BY <1>1, <1>2, <2>2, OpenType
  <2> QED BY <2>1, <2>2
<1>4. AfterChild(fd) = IF Command.output = "PIPE_WRITE" THEN Close(mid, out) ELSE mid
  BY DEF AfterChild
<1> HIDE DEF mid
<1>5. OpenFds(Close(mid, out)) = OpenFds(mid) - 1
  BY <1>2, <1>3, OneClosed
<1>6. OpenFds(fd) \in Nat /\ OpenFds(mid) \in Nat
  BY OpenType
<1> QED BY <1>3, <1>4, <1>5, <1>6

\* The commands of a set that come before the n-th.
Before(S, n) == Cardinality({i \in S : i < n})

LEMMA BeforeFacts ==
  ASSUME NEW n \in Nat, NEW S \in SUBSET (1..n)
  PROVE  /\ Cardinality(S) \in Nat
         /\ \A m \in Int : Before(S, m) \in Nat /\ Before(S, m) <= Cardinality(S)
         /\ \A m \in 1..n : Before(S, m + 1) = Before(S, m) + (IF m \in S THEN 1 ELSE 0)
<1>1. 1 \in Int /\ n \in Int
  OBVIOUS
<1>2. IsFiniteSet(1..n)
  BY <1>1, FS_Interval, Zenon
<1>3. IsFiniteSet(S) /\ Cardinality(S) \in Nat
  BY <1>2, FS_Subset, FS_CardinalityType
<1>4. ASSUME NEW m \in Int PROVE Before(S, m) \in Nat /\ Before(S, m) <= Cardinality(S)
  <2> DEFINE T == {i \in S : i < m}
  <2>1. T \subseteq S /\ Before(S, m) = Cardinality(T)
    BY DEF Before
  <2> HIDE DEF T
  <2>2. IsFiniteSet(T) /\ Cardinality(T) <= Cardinality(S) /\ Cardinality(T) \in Nat
    BY <1>3, <2>1, FS_Subset, FS_CardinalityType
  <2> QED BY <2>1, <2>2
<1>5. ASSUME NEW m \in 1..n PROVE Before(S, m + 1) = Before(S, m) + (IF m \in S THEN 1 ELSE 0)
  <2> DEFINE T == {i \in S : i < m}
             U == {i \in S : i < m + 1}
  <2>1. T \subseteq S /\ Before(S, m) = Cardinality(T) /\ Before(S, m + 1) = Cardinality(U)
    BY DEF Before
  <2>2. m \notin T
    BY DEF T
  <2>0. \A i \in S : i < m + 1 <=> i < m \/ i = m
    OBVIOUS
  <2>3. m \in S => U = T \cup {m}
    <3>1. ~(m < m)
      OBVIOUS
    <3> QED BY <2>0, <3>1, Zenon
  <2>4. m \notin S => U = T
    BY <2>0, Zenon
  <2> HIDE DEF T, U
  <2>5. IsFiniteSet(T) /\ Cardinality(T) \in Nat
    BY <1>3, <2>1, FS_Subset, FS_CardinalityType
  <2>6. Cardinality(T \cup {m}) = IF m \in T THEN Cardinality(T) ELSE Cardinality(T) + 1
    BY <2>5, FS_AddElement, Zenon
  <2> QED BY <2>1, <2>2, <2>3, <2>4, <2>5, <2>6
<1> QED BY <1>3, <1>4, <1>5

\* What the commands before the a-th have read from files, and those before the
\* b-th have left behind otherwise.
Due(c, a, b) ==
  Before(FilesRead(c), a) + Before(FilesWritten(c), b) + Before(PipesReplaced(c), b)
    + Before(SidesMoved(c, "PIPE_READ"), b) + Before(SidesMoved(c, "PIPE_WRITE"), b)

\* Sums of five numbers.
LEMMA FiveNaturals ==
  ASSUME NEW i1 \in Nat, NEW i2 \in Nat, NEW i3 \in Nat, NEW i4 \in Nat, NEW i5 \in Nat
  PROVE  i1 + i2 + i3 + i4 + i5 \in Nat
  OBVIOUS

LEMMA DueFacts ==
  ASSUME NEW c, Len(c) \in Nat, DOMAIN c = 1..Len(c)
  PROVE  /\ Residue(c) \in Nat
         /\ \A a, b \in Int : Due(c, a, b) \in Nat /\ Due(c, a, b) <= Residue(c)
         /\ \A a \in 1..Len(c), b \in Int :
              Due(c, a + 1, b) = Due(c, a, b) + (IF a \in FilesRead(c) THEN 1 ELSE 0)
         /\ \A a \in Int, b \in 1..Len(c) :
              Due(c, a, b + 1) = Due(c, a, b) + ((IF b \in FilesWritten(c) THEN 1 ELSE 0)
                 + (IF b \in PipesReplaced(c) THEN 1 ELSE 0)
                 + (IF b \in SidesMoved(c, "PIPE_READ") THEN 1 ELSE 0)
                 + (IF b \in SidesMoved(c, "PIPE_WRITE") THEN 1 ELSE 0))
<1> DEFINE Counted(S) ==
             /\ Cardinality(S) \in Nat
             /\ \A m \in Int : Before(S, m) \in Nat /\ Before(S, m) <= Cardinality(S)
             /\ \A m \in 1..Len(c) : Before(S, m + 1) = Before(S, m) + (IF m \in S THEN 1 ELSE 0)
           r == FilesRead(c)
           w == FilesWritten(c)
           q == PipesReplaced(c)
           x == SidesMoved(c, "PIPE_READ")
           y == SidesMoved(c, "PIPE_WRITE")
<1>1. \A S \in SUBSET (1..Len(c)) : Counted(S)
  BY BeforeFacts
<1>2. /\ r \in SUBSET (1..Len(c)) /\ w \in SUBSET (1..Len(c)) /\ q \in SUBSET (1..Len(c))
      /\ x \in SUBSET (1..Len(c)) /\ y \in SUBSET (1..Len(c))
  BY DEF FilesRead, FilesWritten, PipesReplaced, SidesMoved
<1>3. /\ Residue(c) = Cardinality(r) + Cardinality(w) + Cardinality(q) + Cardinality(x) + Cardinality(y)
      /\ \A a, b : Due(c, a, b) = Before(r, a) + Before(w, b) + Before(q, b) + Before(x, b) + Before(y, b)
  BY DEF Residue, Due
<1> HIDE DEF r, w, q, x, y, Counted
<1>4. Counted(r) /\ Counted(w) /\ Counted(q) /\ Counted(x) /\ Counted(y)
  BY <1>1, <1>2, Zenon
<1>5. Residue(c) \in Nat
  <2>1. /\ Cardinality(r) \in Nat /\ Cardinality(w) \in Nat /\ Cardinality(q) \in Nat
        /\ Cardinality(x) \in Nat /\ Cardinality(y) \in Nat
    BY <1>4 DEF Counted
  <2>2. Cardinality(r) + Cardinality(w) + Cardinality(q) + Cardinality(x) + Cardinality(y) \in Nat
    BY <2>1, FiveNaturals
  <2> QED BY <1>3, <2>2, Zenon
<1>6. ASSUME NEW a \in Int, NEW b \in Int PROVE Due(c, a, b) \in Nat /\ Due(c, a, b) <= Residue(c)
  <2>1. Before(r, a) \in Nat /\ Before(r, a) <= Cardinality(r) /\ Cardinality(r) \in Nat
    BY <1>4 DEF Counted
  <2>2. Before(w, b) \in Nat /\ Before(w, b) <= Cardinality(w) /\ Cardinality(w) \in Nat
    BY <1>4 DEF Counted
  <2>3. Before(q, b) \in Nat /\ Before(q, b) <= Cardinality(q) /\ Cardinality(q) \in Nat
    BY <1>4 DEF Counted
  <2>4. Before(x, b) \in Nat /\ Before(x, b) <= Cardinality(x) /\ Cardinality(x) \in Nat
    BY <1>4 DEF Counted
  <2>5. Before(y, b) \in Nat /\ Before(y, b) <= Cardinality(y) /\ Cardinality(y) \in Nat
    BY <1>4 DEF Counted
  <2>6. Due(c, a, b) = Before(r, a) + Before(w, b) + Before(q, b) + Before(x, b) + Before(y, b)
    BY <1>3, Zenon
  <2>7. Before(r, a) + Before(w, b) + Before(q, b) + Before(x, b) + Before(y, b) \in Nat
    BY <2>1, <2>2, <2>3, <2>4, <2>5, FiveNaturals
  <2>8. /\ Before(r, a) + Before(w, b) <= Cardinality(r) + Cardinality(w)
        /\ Before(r, a) + Before(w, b) \in Nat /\ Cardinality(r) + Cardinality(w) \in Nat
    BY <2>1, <2>2
  <2>9. /\ Before(r, a) + Before(w, b) + Before(q, b) <= Cardinality(r) + Cardinality(w) + Cardinality(q)
        /\ Before(r, a) + Before(w, b) + Before(q, b) \in Nat
        /\ Cardinality(r) + Cardinality(w) + Cardinality(q) \in Nat
    BY <2>3, <2>8
  <2>10. /\ Before(r, a) + Before(w, b) + Before(q, b) + Before(x, b)
              <= Cardinality(r) + Cardinality(w) + Cardinality(q) + Cardinality(x)
         /\ Before(r, a) + Before(w, b) + Before(q, b) + Before(x, b) \in Nat
         /\ Cardinality(r) + Cardinality(w) + Cardinality(q) + Cardinality(x) \in Nat
    BY <2>4, <2>9
  <2>11. Before(r, a) + Before(w, b) + Before(q, b) + Before(x, b) + Before(y, b)
           <= Cardinality(r) + Cardinality(w) + Cardinality(q) + Cardinality(x) + Cardinality(y)
    BY <2>5, <2>10
  <2> QED BY <1>3, <2>6, <2>7, <2>11, Zenon
<1>7. ASSUME NEW a \in 1..Len(c), NEW b \in Int
      PROVE  Due(c, a + 1, b) = Due(c, a, b) + (IF a \in r THEN 1 ELSE 0)
  <2>1. Before(r, a + 1) = Before(r, a) + (IF a \in r THEN 1 ELSE 0) /\ Before(r, a) \in Nat
    BY <1>4 DEF Counted
  <2>2. Before(w, b) \in Nat /\ Before(q, b) \in Nat /\ Before(x, b) \in Nat /\ Before(y, b) \in Nat
    BY <1>4 DEF Counted
  <2>3. Due(c, a, b) = Before(r, a) + Before(w, b) + Before(q, b) + Before(x, b) + Before(y, b)
    BY <1>3, Zenon
  <2>4. Due(c, a + 1, b) = Before(r, a + 1) + Before(w, b) + Before(q, b) + Before(x, b) + Before(y, b)
    BY <1>3, Zenon
  <2> QED BY <2>1, <2>2, <2>3, <2>4, SMTT(60)
<1>8. ASSUME NEW a \in Int, NEW b \in 1..Len(c)
      PROVE  Due(c, a, b + 1) = Due(c, a, b) + ((IF b \in w THEN 1 ELSE 0) + (IF b \in q THEN 1 ELSE 0)
                                  + (IF b \in x THEN 1 ELSE 0) + (IF b \in y THEN 1 ELSE 0))
  <2>1. Before(w, b + 1) = Before(w, b) + (IF b \in w THEN 1 ELSE 0) /\ Before(w, b) \in Nat
    BY <1>4 DEF Counted
  <2>2. Before(q, b + 1) = Before(q, b) + (IF b \in q THEN 1 ELSE 0) /\ Before(q, b) \in Nat
    BY <1>4 DEF Counted
  <2>3. Before(x, b + 1) = Before(x, b) + (IF b \in x THEN 1 ELSE 0) /\ Before(x, b) \in Nat
    BY <1>4 DEF Counted
  <2>4. Before(y, b + 1) = Before(y, b) + (IF b \in y THEN 1 ELSE 0) /\ Before(y, b) \in Nat
    BY <1>4 DEF Counted
  <2>5. Before(r, a) \in Nat
    BY <1>4 DEF Counted
  <2>6. Due(c, a, b) = Before(r, a) + Before(w, b) + Before(q, b) + Before(x, b) + Before(y, b)
    BY <1>3, Zenon
  <2>7. Due(c, a, b + 1) = Before(r, a) + Before(w, b + 1) + Before(q, b + 1) + Before(x, b + 1) + Before(y, b + 1)
    BY <1>3, Zenon
  <2>8. PICK i1 \in Nat, i2 \in Nat, i3 \in Nat, i4 \in Nat, i5 \in Nat :
          /\ i1 = Before(r, a) /\ i2 = Before(w, b) /\ i3 = Before(q, b)
          /\ i4 = Before(x, b) /\ i5 = Before(y, b)
    BY <2>1, <2>2, <2>3, <2>4, <2>5, Zenon
  <2>9. PICK d2 \in Nat, d3 \in Nat, d4 \in Nat, d5 \in Nat :
          /\ d2 = (IF b \in w THEN 1 ELSE 0) /\ d3 = (IF b \in q THEN 1 ELSE 0)
          /\ d4 = (IF b \in x THEN 1 ELSE 0) /\ d5 = (IF b \in y THEN 1 ELSE 0)
    OBVIOUS
  <2>10. i1 + (i2 + d2) + (i3 + d3) + (i4 + d4) + (i5 + d5)
           = (i1 + i2 + i3 + i4 + i5) + (d2 + d3 + d4 + d5)
    OBVIOUS
  <2>11. /\ Before(w, b + 1) = i2 + d2 /\ Before(q, b + 1) = i3 + d3
         /\ Before(x, b + 1) = i4 + d4 /\ Before(y, b + 1) = i5 + d5
    BY <2>1, <2>2, <2>3, <2>4, <2>8, <2>9, Zenon
  <2>12. Due(c, a, b + 1) = Due(c, a, b) + (d2 + d3 + d4 + d5)
    BY <2>6, <2>7, <2>8, <2>10, <2>11, Zenon
  <2> QED BY <2>9, <2>12, Zenon
<1> QED BY <1>5, <1>6, <1>7, <1>8 DEF r, w, q, x, y

\* What a line may have open at each of its steps.  The pipe on the left of a command
\* is pending until the command has run, and the command's own output (both ends, if
\* it is a pipe) until it is closed, counted as left behind, or pending in its turn.
Pending == IF k > 1 THEN 1 ELSE 0
OwnOutput == IF Command.output = "STDOUT" THEN 0 ELSE IF Command.output = "PIPE_WRITE" THEN 2 ELSE 1

LeakInv ==
  /\ pc = "read" => commands = <<>>
  /\ pc \in {"resolve", "input"} =>
       OpenFds(fd) <= OpenFds(start) + Due(commands, k, k) + Pending
  /\ pc = "output" =>
       OpenFds(fd) <= OpenFds(start) + Due(commands, k + 1, k) + Pending
  /\ pc \in {"run", "wait"} =>
       OpenFds(fd) <= OpenFds(start) + Due(commands, k + 1, k) + Pending + OwnOutput
  /\ LeaksBounded

\* The numbers that the bounds are made of, and how they grow with the command at hand.
LEMMA LeakNumbers ==
  ASSUME ShellInv, Busy
  PROVE  /\ Len(commands) \in Nat /\ k \in 1..Len(commands) /\ Residue(commands) \in Nat
         /\ OpenFds(start) \in Nat /\ OpenFds(fd) \in Nat /\ Pending \in Nat /\ OwnOutput \in Nat
         /\ Due(commands, k, k) \in Nat /\ Due(commands, k, k) <= Due(commands, k + 1, k)
         /\ Due(commands, k + 1, k) \in Nat /\ Due(commands, k + 1, k) <= Residue(commands)
         /\ Due(commands, k + 1, k + 1) \in Nat /\ Due(commands, k + 1, k + 1) <= Residue(commands)
         /\ InputIsFile => Due(commands, k + 1, k) = Due(commands, k, k) + 1
         /\ Due(commands, k + 1, k + 1)
              = Due(commands, k + 1, k)
                  + ((IF k \in FilesWritten(commands) THEN 1 ELSE 0)
                     + (IF k \in PipesReplaced(commands) THEN 1 ELSE 0)
                     + (IF k \in SidesMoved(commands, "PIPE_READ") THEN 1 ELSE 0)
                     + (IF k \in SidesMoved(commands, "PIPE_WRITE") THEN 1 ELSE 0))
<1>1. /\ k \in 1..Len(commands) /\ Len(commands) \in Nat /\ DOMAIN commands = 1..Len(commands)
      /\ Command.input \notin {"STDOUT", "PIPE_WRITE"}
  BY CommandPlaced DEF ShellInv, LineInv, Placed
<1>2. k \in Int /\ k + 1 \in Int
  BY <1>1
<1>3. OpenFds(start) \in Nat /\ OpenFds(fd) \in Nat
  BY OpenType
<1>4. Pending \in Nat /\ OwnOutput \in Nat
  BY DEF Pending, OwnOutput
<1>5. /\ Residue(commands) \in Nat
      /\ Due(commands, k, k) \in Nat
      /\ Due(commands, k + 1, k) \in Nat /\ Due(commands, k + 1, k) <= Residue(commands)
      /\ Due(commands, k + 1, k + 1) \in Nat /\ Due(commands, k + 1, k + 1) <= Residue(commands)
  BY <1>1, <1>2, DueFacts, Zenon
<1>6. Due(commands, k + 1, k) = Due(commands, k, k) + (IF k \in FilesRead(commands) THEN 1 ELSE 0)
  BY <1>1, <1>2, DueFacts, Zenon
<1>7. InputIsFile => k \in FilesRead(commands)
  BY <1>1 DEF InputIsFile, FilesRead, Marks, Command
<1>8. Due(commands, k + 1, k + 1)
              = Due(commands, k + 1, k)
                  + ((IF k \in FilesWritten(commands) THEN 1 ELSE 0)
                     + (IF k \in PipesReplaced(commands) THEN 1 ELSE 0)
                     + (IF k \in SidesMoved(commands, "PIPE_READ") THEN 1 ELSE 0)
                     + (IF k \in SidesMoved(commands, "PIPE_WRITE") THEN 1 ELSE 0))
  BY <1>1, <1>2, DueFacts, Zenon
<1>9. /\ Due(commands, k, k) <= Due(commands, k + 1, k)
      /\ InputIsFile => Due(commands, k + 1, k) = Due(commands, k, k) + 1
  BY <1>5, <1>6, <1>7
<1> QED BY <1>1, <1>3, <1>4, <1>5, <1>8, <1>9, Zenon

\* A command that has run leaves what its place in Residue accounts for, and the pipe
\* it has made, if any.  The two ends that cd does not close are its two sides.
StillPending == IF k < Len(commands) THEN 1 ELSE 0
Allowance == OpenFds(start) + Due(commands, k + 1, k + 1) + StillPending

LEMMA CommandLeaves ==
  ASSUME ShellInv, LeakInv, pc \in {"run", "wait"}
  PROVE  /\ pc = "wait" => OpenFds(AfterChild(fd)) <= Allowance
         /\ Name = "cd" => OpenFds(fd) <= Allowance
<1> DEFINE n == OpenFds(fd)
           m == OpenFds(start)
           before == Due(commands, k + 1, k)
           after == Due(commands, k + 1, k + 1)
           w == IF k \in FilesWritten(commands) THEN 1 ELSE 0
           q == IF k \in PipesReplaced(commands) THEN 1 ELSE 0
           x == IF k \in SidesMoved(commands, "PIPE_READ") THEN 1 ELSE 0
           y == IF k \in SidesMoved(commands, "PIPE_WRITE") THEN 1 ELSE 0
           inside == IF Command.input = "PIPE_READ" THEN 1 ELSE 0
           outside == IF Command.output = "PIPE_WRITE" THEN 1 ELSE 0
<1>1. Busy /\ TypeOK /\ LineInv /\ NumbersInv
  BY DEF Busy, ShellInv
<1>2. /\ k \in 1..Len(commands) /\ Len(commands) \in Nat /\ DOMAIN commands = 1..Len(commands)
      /\ Command.input \notin {"STDOUT", "PIPE_WRITE"} /\ (Command.input = "PIPE_READ" => k > 1)
      /\ Command.output \notin {"STDIN", "PIPE_READ"}
      /\ (Command.output = "PIPE_WRITE" <=> k < Len(commands))
      /\ Command.input = "STDIN" => k = 1
  BY <1>1, CommandPlaced DEF LineInv, Placed
<1>3. /\ m \in Nat /\ n \in Nat /\ before \in Nat /\ after \in Nat
      /\ after = before + (w + q + x + y)
  BY <1>1, LeakNumbers, Zenon
<1>4. n <= m + before + Pending + OwnOutput
  BY DEF LeakInv
<1>5. /\ w \in Nat /\ q \in Nat /\ x \in Nat /\ y \in Nat /\ inside \in Nat /\ outside \in Nat
      /\ Pending \in Nat /\ OwnOutput \in Nat /\ StillPending \in Nat
  BY DEF Pending, OwnOutput, StillPending
<1>6. Pending <= q + inside
  <2>1. CASE Command.input = "PIPE_READ"
    BY <2>1 DEF Pending
  <2>2. CASE Command.input = "STDIN"
    BY <1>2, <2>2 DEF Pending
  <2>3. CASE Command.input \notin {"PIPE_READ", "STDIN"}
    <3>1. k > 1 => k \in PipesReplaced(commands)
      BY <1>2, <2>3 DEF PipesReplaced, FilesRead, Marks, Command
    <3> QED BY <3>1 DEF Pending
  <2> QED BY <2>1, <2>2, <2>3
<1>7. OwnOutput <= w + outside + StillPending
  <2>1. CASE Command.output = "PIPE_WRITE"
    BY <1>2, <2>1 DEF OwnOutput, StillPending
  <2>2. CASE Command.output = "STDOUT"
    BY <2>2 DEF OwnOutput, StillPending
  <2>3. CASE Command.output \notin {"PIPE_WRITE", "STDOUT"}
    <3>1. k \in FilesWritten(commands)
      BY <1>2, <2>3 DEF FilesWritten, Marks, Command
    <3> QED BY <2>3, <3>1 DEF OwnOutput, StillPending
  <2> QED BY <2>1, <2>2, <2>3
<1>8. Name = "cd" => inside <= x /\ outside <= y
  <2>1. Name = "cd" /\ Command.input = "PIPE_READ" => k \in SidesMoved(commands, "PIPE_READ")
    BY <1>2 DEF SidesMoved, Name, Command
  <2>2. Name = "cd" /\ Command.output = "PIPE_WRITE" => k \in SidesMoved(commands, "PIPE_WRITE")
    BY <1>2 DEF SidesMoved, Name, Command
  <2> QED BY <2>1, <2>2
<1>9. pc = "wait" => OpenFds(AfterChild(fd)) = n - inside - outside
  BY <1>1, ReapLeaves
<1> HIDE DEF n, m, before, after, w, q, x, y, inside, outside
<1>10. n <= m + after + StillPending + inside + outside - x - y
  <2>1. after = before + w + q + x + y
    BY <1>3, <1>5
  <2> QED BY <1>3, <1>4, <1>5, <1>6, <1>7, <2>1
<1>11. n - inside - outside <= m + after + StillPending
  BY <1>3, <1>5, <1>10
<1>12. Name = "cd" => n <= m + after + StillPending
  BY <1>3, <1>5, <1>8, <1>10
<1>13. m + after + StillPending = Allowance
  BY DEF Allowance, m, after
<1> QED BY <1>9, <1>11, <1>12, <1>13 DEF n

\* A line that ends, well or not, with its commands and its table as they were given.
LEMMA LineEnds ==
  ASSUME ShellInv, Busy, pc' = "prompt", UNCHANGED <<commands, start>>,
         NEW d \in {0, 1}, failed' \in BOOLEAN, d = 0 \/ failed',
         OpenFds(fd') <= OpenFds(start) + Due(commands, k + 1, k + 1) + d
           \/ OpenFds(fd') <= OpenFds(start) + Due(commands, k + 1, k) + d
  PROVE  LeakInv'
<1>1. /\ OpenFds(start) \in Nat /\ Residue(commands) \in Nat
      /\ Due(commands, k + 1, k + 1) \in Nat /\ Due(commands, k + 1, k + 1) <= Residue(commands)
      /\ Due(commands, k + 1, k) \in Nat /\ Due(commands, k + 1, k) <= Residue(commands)
  BY LeakNumbers, Zenon
<1>2. OpenFds(fd') \in Nat
  BY OpenType
<1>3. OpenFds(fd') <= OpenFds(start) + d + Residue(commands)
  BY <1>1, <1>2
<1>4. d <= (IF failed' THEN 1 ELSE 0)
  OBVIOUS
<1>5. OpenFds(fd') <= OpenFds(start) + (IF failed' THEN 1 ELSE 0) + Residue(commands)
  BY <1>1, <1>2, <1>3, <1>4
<1>6. commands' = commands /\ start' = start
  OBVIOUS
<1>7. LeaksBounded'
  BY <1>5, <1>6 DEF LeaksBounded
<1> QED BY <1>7 DEF LeakInv

\* A command that has run, and what comes next.
LEMMA CommandGoesOn ==
  ASSUME ShellInv, Busy, GoOn, failed \in BOOLEAN, OpenFds(fd') <= Allowance
  PROVE  LeakInv'
<1>1. UNCHANGED <<commands, start, failed>> /\ TypeOK /\ LineInv
  BY DEF GoOn, ShellInv
<1>2. k \in 1..Len(commands) /\ Len(commands) \in Nat
  BY <1>1, CommandPlaced
<1>3. CASE k < Len(commands) /\ k' = k + 1 /\ pc' = "resolve"
  <2>1. Pending' = 1 /\ StillPending = 1
    BY <1>2, <1>3 DEF Pending, StillPending
  <2>2. Allowance = OpenFds(start) + Due(commands, k + 1, k + 1) + 1
    BY <2>1 DEF Allowance
  <2>3. (OpenFds(start) + Due(commands, k, k) + Pending)'
          = OpenFds(start) + Due(commands, k + 1, k + 1) + 1
    BY <1>1, <1>3, <2>1
  <2>4. OpenFds(fd') <= (OpenFds(start) + Due(commands, k, k) + Pending)'
    BY <2>2, <2>3, Zenon
  <2> QED BY <1>3, <2>4 DEF LeakInv, LeaksBounded
<1>4. CASE k = Len(commands) /\ k' = k /\ pc' = "prompt"
  <2>1. StillPending = 0
    BY <1>2, <1>4 DEF StillPending
  <2>2. OpenFds(fd') <= OpenFds(start) + Due(commands, k + 1, k + 1) + 0
    BY <2>1 DEF Allowance
  <2>3. failed' \in BOOLEAN
    BY <1>1
  <2> QED BY <1>1, <1>4, <2>2, <2>3, LineEnds
<1> QED BY <1>1, <1>3, <1>4, GoOnFacts

\* Every step preserves LeakInv.
LEMMA LeakStep ==
  ASSUME ShellInv, LeakInv, Next
  PROVE  LeakInv'
<1>1. TypeOK /\ LineInv /\ NumbersInv /\ fd \in Table /\ failed \in BOOLEAN
  BY Typed DEF ShellInv
<1>2. OpenFds(fd) \in Nat /\ OpenFds(fd') \in Nat /\ OpenFds(start) \in Nat
  BY OpenType
<1>3. CASE ReadLine
  <2>1. start' = fd /\ fd' = fd /\ pc = "read"
    BY <1>3 DEF ReadLine
  <2>2. PICK line \in Lines :
          IF Refused(line)
            THEN pc' = "prompt" /\ failed' = (line # <<>>) /\ UNCHANGED <<commands, k>>
            ELSE /\ pc' = "resolve" /\ failed' = FALSE
                 /\ commands' = IntoCommands(line) /\ k' = 1
    BY <1>3 DEF ReadLine
  <2>3. CASE Refused(line)
    <3>1. commands' = <<>> /\ pc' = "prompt"
      BY <2>1, <2>2, <2>3 DEF LeakInv
    <3>2. Len(<<>>) \in Nat /\ DOMAIN <<>> = 1..Len(<<>>)
      OBVIOUS
    <3>3. Residue(<<>>) \in Nat
      BY <3>2, DueFacts, Zenon
    <3>4. OpenFds(fd') <= OpenFds(fd') + (IF failed' THEN 1 ELSE 0) + Residue(<<>>)
      BY <1>2, <3>3
    <3>5. LeaksBounded'
      BY <2>1, <3>1, <3>4 DEF LeaksBounded
    <3> QED BY <3>1, <3>5 DEF LeakInv
  <2>4. CASE ~Refused(line)
    <3>1. Placed(commands') /\ k' = 1 /\ pc' = "resolve"
      BY <2>2, <2>4, LineRead
    <3>2. Len(commands') \in Nat /\ DOMAIN (commands') = 1..Len(commands')
      BY <3>1 DEF Placed
    <3>3. \A a, b \in Int : Due(commands', a, b) \in Nat
      BY <3>2, DueFacts, Zenon
    <3>4. Due(commands', k', k') \in Nat /\ Pending' = 0
      BY <3>1, <3>3 DEF Pending
    <3>5. OpenFds(fd') <= OpenFds(start') + Due(commands', k', k') + Pending'
      BY <1>2, <2>1, <3>4
    <3> QED BY <3>1, <3>5 DEF LeakInv, LeaksBounded
  <2> QED BY <2>3, <2>4
<1>4. CASE EndOfInput \/ Exit
  BY <1>4 DEF EndOfInput, Exit, LeakInv, LeaksBounded
<1>5. CASE Prompt
  BY <1>5 DEF Prompt, LeakInv, LeaksBounded
<1>6. CASE Resolve
  BY <1>6 DEF Resolve, LeakInv, LeaksBounded, Pending, lineVars
<1>7. CASE Fork
  BY <1>7 DEF Fork, LeakInv, LeaksBounded, Pending, OwnOutput, Command, lineVars
<1>8. CASE Child
  BY <1>8 DEF Child, ChildReads, ChildEof, ChildWrites, UnchangedShell, LeakInv, LeaksBounded, Pending,
              OwnOutput, Command, lineVars
<1>9. CASE NotRecognized \/ InputFails \/ OutputFails
  <2>1. /\ pc \in {"resolve", "input", "output"} /\ fd' = fd /\ pc' = "prompt" /\ failed' = TRUE
        /\ UNCHANGED <<commands, start>>
    BY <1>9 DEF NotRecognized, InputFails, OutputFails, GiveUp
  <2>2. Busy
    BY <2>1 DEF Busy
  <2>3. /\ Due(commands, k, k) \in Nat /\ Due(commands, k, k) <= Due(commands, k + 1, k)
        /\ Due(commands, k + 1, k) \in Nat
    BY <2>2, LeakNumbers, Zenon
  <2>4. Pending \in {0, 1}
    BY DEF Pending
  <2>5. \/ OpenFds(fd) <= OpenFds(start) + Due(commands, k, k) + Pending
        \/ OpenFds(fd) <= OpenFds(start) + Due(commands, k + 1, k) + Pending
    BY <2>1 DEF LeakInv
  <2>6. OpenFds(fd') <= OpenFds(start) + Due(commands, k + 1, k) + 1
    BY <1>2, <2>1, <2>3, <2>4, <2>5
  <2> QED BY <2>1, <2>2, <2>6, LineEnds
<1>10. CASE ChangeDirFails
  <2>1. /\ pc = "run" /\ Name = "cd" /\ fd' = Redirected /\ pc' = "prompt" /\ failed' = TRUE
        /\ UNCHANGED <<commands, start>>
    BY <1>10 DEF ChangeDirFails, GiveUp
  <2>2. Busy /\ OpenFds(fd) <= Allowance
    BY <2>1, CommandLeaves DEF Busy
  <2>3. OpenFds(fd') <= OpenFds(fd)
    BY <1>1, <2>1, CdOpens
  <2>4. Due(commands, k + 1, k + 1) \in Nat
    BY <2>2, LeakNumbers, Zenon
  <2>5. OpenFds(fd') <= OpenFds(start) + Due(commands, k + 1, k + 1) + 1
    BY <1>2, <2>2, <2>3, <2>4 DEF Allowance, StillPending
  <2> QED BY <2>1, <2>2, <2>5, LineEnds
<1>11. CASE ReapFailure
  <2>1. /\ pc = "wait" /\ fd' = AfterChild(fd) /\ pc' = "prompt" /\ failed' = TRUE
        /\ UNCHANGED <<commands, start>>
    BY <1>11 DEF ReapFailure
  <2>2. Busy /\ OpenFds(fd') <= Allowance
    BY <2>1, CommandLeaves DEF Busy
  <2>3. Due(commands, k + 1, k + 1) \in Nat
    BY <2>2, LeakNumbers, Zenon
  <2>4. OpenFds(fd') <= OpenFds(start) + Due(commands, k + 1, k + 1) + 1
    BY <1>2, <2>2, <2>3 DEF Allowance, StillPending
  <2> QED BY <2>1, <2>2, <2>4, LineEnds
<1>12. CASE Reap
  <2>1. pc = "wait" /\ fd' = AfterChild(fd) /\ GoOn
    BY <1>12 DEF Reap
  <2>2. Busy /\ OpenFds(fd') <= Allowance
    BY <2>1, CommandLeaves DEF Busy
  <2> QED BY <1>1, <2>1, <2>2, CommandGoesOn
<1>13. CASE ChangeDir
  <2>1. pc = "run" /\ Name = "cd" /\ GoOn
    BY <1>13 DEF ChangeDir
  <2>2. Busy /\ OpenFds(fd) <= Allowance
    BY <2>1, CommandLeaves DEF Busy
  <2>3. OpenFds(fd') <= OpenFds(fd)
    BY <1>1, <1>13, CdLeaves
  <2>4. Due(commands, k + 1, k + 1) \in Nat
    BY <2>2, LeakNumbers, Zenon
  <2>5. OpenFds(fd') <= Allowance
    BY <1>2, <2>2, <2>3, <2>4 DEF Allowance, StillPending
  <2> QED BY <1>1, <2>1, <2>2, <2>5, CommandGoesOn
<1>14. ASSUME FreeFds(fd) # {} PROVE OpenFds(Opened(fd, File)) = OpenFds(fd) + 1
  <2>1. File \in Descriptions /\ File # Shut
    BY DescriptionTypes, DescriptionsDiffer
  <2>2. /\ Lowest(fd) \in Fds /\ fd[Lowest(fd)] = Shut /\ Opened(fd, File)[Lowest(fd)] # Shut
        /\ \A f \in Fds \ {Lowest(fd)} : Opened(fd, File)[f] = fd[f]
    BY <1>1, <1>14, <2>1, OpenFacts
  <2> QED BY <2>2, OneOpened
<1>15. CASE Input
  <2>1. /\ pc = "input" /\ pc' = "output" /\ UNCHANGED <<commands, k, start>>
        /\ fd' = fd \/ (InputIsFile /\ OpenFds(fd') = OpenFds(fd) + 1)
    BY <1>14, <1>15 DEF Input, lineVars
  <2>2. Busy
    BY <2>1 DEF Busy
  <2>3. /\ Due(commands, k, k) \in Nat /\ Due(commands, k, k) <= Due(commands, k + 1, k)
        /\ Due(commands, k + 1, k) \in Nat /\ Pending \in Nat
        /\ InputIsFile => Due(commands, k + 1, k) = Due(commands, k, k) + 1
    BY <2>2, LeakNumbers, Zenon
  <2>4. OpenFds(fd) <= OpenFds(start) + Due(commands, k, k) + Pending
    BY <2>1 DEF LeakInv
  <2>5. OpenFds(fd') <= OpenFds(start) + Due(commands, k + 1, k) + Pending
    BY <1>2, <2>1, <2>3, <2>4
  <2>6. Pending' = Pending
    BY <2>1 DEF Pending
  <2> QED BY <2>1, <2>5, <2>6 DEF LeakInv, LeaksBounded
<1>16. CASE Output \/ MakePipe
  <2>1. pc = "output" /\ pc' = "run" /\ UNCHANGED <<commands, k, start>>
    BY <1>16 DEF Output, MakePipe, lineVars
  <2>2. Busy
    BY <2>1 DEF Busy
  <2>3. Due(commands, k + 1, k) \in Nat /\ Pending \in Nat /\ OwnOutput \in Nat
    BY <2>2, LeakNumbers, Zenon
  <2>4. OpenFds(fd) <= OpenFds(start) + Due(commands, k + 1, k) + Pending
    BY <2>1 DEF LeakInv
  <2>5. OpenFds(fd') = OpenFds(fd) + OwnOutput
    <3>1. CASE Output
      BY <1>2, <1>14, <3>1 DEF Output, OutputIsFile, OwnOutput
    <3>2. CASE MakePipe
      <4> DEFINE p == Min(UnusedPipes)
                 half == Opened(fd, R(p))
      <4>1. Command.output = "PIPE_WRITE" /\ Cardinality(FreeFds(fd)) >= 2 /\ fd' = Opened(half, W(p))
        BY <3>2 DEF MakePipe
      <4>2. child = NoChild
        BY <1>1, <2>1, Typed
      <4>3. p \in Pipes /\ FreeFds(fd) # {} /\ FreeFds(half) # {}
        BY <1>1, <4>1, <4>2, SparePipe
      <4>4. /\ R(p) \in Descriptions /\ W(p) \in Descriptions /\ R(p) # Shut /\ W(p) # Shut
        BY <4>3, DescriptionTypes, DescriptionsDiffer
      <4>5. /\ half \in Table /\ Lowest(fd) \in Fds /\ fd[Lowest(fd)] = Shut
            /\ half[Lowest(fd)] # Shut /\ \A f \in Fds \ {Lowest(fd)} : half[f] = fd[f]
        BY <1>1, <4>3, <4>4, OpenFacts
      <4> HIDE DEF p, half
      <4>6. OpenFds(half) = OpenFds(fd) + 1
        BY <4>5, OneOpened
      <4>7. /\ Lowest(half) \in Fds /\ half[Lowest(half)] = Shut /\ fd'[Lowest(half)] # Shut
            /\ \A f \in Fds \ {Lowest(half)} : fd'[f] = half[f]
        BY <4>1, <4>3, <4>4, <4>5, OpenFacts
      <4>8. OpenFds(fd') = OpenFds(half) + 1
        BY <4>7, OneOpened
      <4>9. OwnOutput = 2
        BY <4>1 DEF OwnOutput
      <4> QED BY <1>2, <4>6, <4>8, <4>9
    <3> QED BY <1>16, <3>1, <3>2
  <2>6. OpenFds(fd') <= OpenFds(start) + Due(commands, k + 1, k) + Pending + OwnOutput
    BY <1>2, <2>3, <2>4, <2>5
  <2>7. Pending' = Pending /\ OwnOutput' = OwnOutput
    BY <2>1 DEF Pending, OwnOutput, Command
  <2> QED BY <2>1, <2>6, <2>7 DEF LeakInv, LeaksBounded
<1> QED
  BY <1>3, <1>4, <1>5, <1>6, <1>7, <1>8, <1>9, <1>10, <1>11, <1>12, <1>13, <1>15, <1>16
  DEF Next, Main, Parse, Builtin

\* A line leaves open at most its files, the pipes they replace and the sides of its cds,
\* and one descriptor more when it has failed.
THEOREM LeaksAreBounded == Spec => []LeaksBounded
<1>1. ASSUME Init PROVE LeakInv
  BY <1>1 DEF Init, LeakInv, LeaksBounded
<1>2. ShellInv /\ LeakInv /\ [Next]_vars => LeakInv'
  <2>1. ASSUME ShellInv, LeakInv, UNCHANGED vars PROVE LeakInv'
    BY <2>1 DEF LeakInv, LeaksBounded, Pending, OwnOutput, Command, vars, lineVars
  <2> QED BY <2>1, LeakStep
<1>3. LeakInv => LeaksBounded
  BY DEF LeakInv
<1> QED BY <1>1, <1>2, <1>3, ShellInvariant, PTL DEF Spec
=============================================================================
