# Verification of the CS214 programs

This directory models the programs of the repository in TLA+: the tic-tac-toe
server (`src/tic-tac-toe/ttts.c`) and its two clients (`ttt.c`, `tttx.c`), the
allocator (`src/little-malloc/mymalloc.c`) and the shell
(`src/my-shell/my-shell.c`).  The modules are checked on small instances with
TLC; all their safety properties are also proved for every size with TLAPS.

## The system

| part | state | operations | hard part |
|---|---|---|---|
| game server, `thread_function` and `proc_msg` | `games[100]` (state, alert, board, last message), the mutex `games_lock`; per thread `currentGame`, `player`, `errno` | choose a game, poll for an alert, `recv`, process a message, record a disconnect | threads that share games, state that is read in one critical section and used in the next, clients that leave at any moment |
| board, `checkWin`, `isGameOver` | none | decide a board | order of the tests, diagonals |
| listener, `main` | `sock`, `threads[200]`, `active_threads[200]`, the descriptors | accept, find a place, join, create | the thread reads `sock` through a pointer; descriptors are reused |
| message framing, `tokenize`, `findmsglen` | none | decode a message | lengths, truncation, messages split or joined by TCP |
| clients, `ttt.c` and `tttx.c` | the next line; `waiting` of `tttx.c` | send a line, wait for one answer | the server may send two messages, or none; TCP may join them |
| allocator | 4096 bytes of chunks, each with a 5-byte header | `mymalloc`, `myfree` and its `coal`, `clearMemory` | long sequences of splits and merges, integer widths, ends of the array |
| shell, parsing | the line buffer, tokens | `read`, `append`, `tokenize`, `validateTokenArrangement`, `intoCommands` | lines that `read` cuts or joins, boundaries of tokens |
| shell, execution | the descriptor table, child processes, the working directory | `executeCommands`: redirection, pipes, `fork`, `wait`, built-in commands | order of commands and pipes, descriptors kept after errors |

The parts of one program interact as follows.  The listener starts one thread
per connection; the threads share `games` under `games_lock` and talk to their
own client only.  A thread learns what the other player did by polling
`playerUnhandled` of its game: this field names the player that is owed a
message, and there is one field, hence one alert, per game.  The allocator and
the shell are sequential programs of their own.

What makes each part correct:

* server: it keeps to the rules of the game, that is a seat belongs to one thread; a running game has both players; turns
  alternate; a verdict is on the board and is final; a win or an agreed draw is told
  to both clients, each once and matching; a player that goes forfeits, and nobody
  else does; an alert arrives;
* messages: what is acted on is what was sent, once it is complete;
* clients: the player on turn is asked for its move, and the instructions of the
  README lead to the results it promises;
* board: the verdict is that of the eight lines;
* listener: each connection gets a thread, each thread a connection and a place;
* allocator: its answers are those of an allocator that only knows the blocks, that
  is chunks tile the array; blocks are disjoint and keep their bytes;
  what is freed can be allocated again; `myfree` accepts blocks only;
* shell: no typed byte is lost; a line runs the commands it spells, each with the descriptors it asks
  for, and leaves the shell as it was.

## Modules

| module | models | code |
|---|---|---|
| `TTTBoard` | the board, `checkWin`, `isGameOver` | ttts.c 331-368 |
| `TTTServer` | the connection threads | ttts.c 25-93, 140-148, 275-329, 402-755 |
| `TTTServerClaims` | what the server's README promises and the code breaks | src/tic-tac-toe/README.md |
| `TTTGames` | abstract: the rules of the game, for many games | |
| `TTTServerGames` | `TTTServer` implements `TTTGames` | |
| `TTTListener` | `main` and the descriptors | ttts.c 757-804, 618, 751 |
| `TTTFraming` | `findmsglen` and `tokenize` on the bytes of one `recv` | ttts.c 150-270 |
| `TTTClients` | both clients, the connections and the server together | ttt.c 65-102, tttx.c 59-146, with `TTTServer` and `TTTFraming` |
| `MyMalloc` | the allocator | mymalloc.c 8-28, 76-178 |
| `Heap` | abstract: an allocator that knows only the blocks | |
| `MyMallocHeap` | `MyMalloc` implements `Heap` | |
| `MyShellLines` | from bytes to lines to tokens; the reference for its tokens | my-shell.c 114-179, 502-583 |
| `MyShell` | the lines, commands, children and descriptors of the shell | my-shell.c 92-161, 207-500, 585-612 |
| `MCFunctions`, `MCTTTServer`, `MCTTTDelivery`, `MCTTTClients`, `MCMyMalloc`, `MCMyShell` | small instances for TLC | |
| `TTTServerProofs`, `TTTServerPlayProofs`, `TTTServerGamesProofs`, `TTTClientsProofs`, `TTTListenerProofs`, `MyMallocProofs`, `MyShellProofs`, `FunctionsProofs` | theorems | |

A definition `X__Y` is the definition `X` with a mistake `Y` that somebody
could make in the code.  Nothing uses it; with `X` replaced by it, TLC finds
the property it belongs to violated, so the property does depend on that code.

### TTTServer

A critical section is one action, enabled when `lock = NoThread`: `ChooseGame`
(622-629), the poll at the head of the loop (634-708: `TellMove`, `TellDraw`,
`TellBegin`, `TellOver`, `PollQuietly`), `RecordLoss` (716-735) and the
branches of `proc_msg` (742-747: `JoinFirst`, `JoinSecond`, `Move`,
`OfferDraw`, `RejectDraw`, `AcceptDraw`, `AnswerInvalid`).  `recv` is outside
the mutex and is an action of its own (`RecvNothing`, `RecvMessage`,
`RecvEof`, `RecvError`).  The interleavings TLC explores are therefore those of
critical sections, which is what the mutex leaves to the scheduler.  A thread
that breaks out of its loop before the unlock leaves `lock` set to itself.

`gameState`, `playerUnhandled`, `board`, `currentGame`, `player` and `errno` are
the variables of the code; `lastBoard` is `lastProtInfo.board`.  `peer` is the
kernel's view of the client: open, closed, closed and read to the end, reset,
or reset after a close.  `view` and `told` are history variables: the board and
the outcomes the client was sent.

A message is a record of its type and the fields `proc_msg` reads; names,
reasons and the text of the answers are left out.  Messages may arrive at any
time and in any order: clients are not assumed to follow the protocol.  How bytes
become messages is the subject of `TTTFraming` and `TTTClients`.  `recv` decides that there is a message and
`proc_msg` which one it is, which is equivalent, as nothing reads the buffer in
between, and keeps the state small.

`findOpenGame` may return -1, and the thread then works on `games[-1]`.  The
Makefile builds with AddressSanitizer, so the access may stop the process
(`OutOfBounds`); without it the zero bytes in front of the array behave like one
more game, `NoGame`.

Bytes with which `tokenize` writes behind its arrays are a message of type "WILD";
under the sanitizer they end the process (`Overrun`).  `delivery` and
`clients` have such messages.

A `send` to a client that has reset its connection ends the process
(`serverUp`): by SIGPIPE, or by the `exit(1)` of `send_resp`.

### TTTGames and TTTServerGames

`TTTGames` states the rules with neither threads nor messages in it: X sits down,
then O, marks are written in turn on free cells until a line or a full grid, a
draw is agreed on after an offer, a player that goes has lost.  Two peculiarities
of the code are part of the rules, as nothing in the repository says otherwise:
after a rejected offer it is X's turn, whoever made it, and a player that goes
when the game is over is recorded as having left.  `TTTServerGames` maps the
`gameState` of each slot to a status and its board to the grid.  The mutex, the
alerts, the saved boards and the places of the threads are hidden.  In the
mapping a slot that is "over, ready for new" has been withdrawn from for good,
which holds because no PLAY is accepted in it.

### TTTFraming and TTTClients

`TTTFraming` takes bytes as fields with bars between them; a field has a text, a
length and a value for `atoi`.  `FindMsgLen` and `Tokenize` compute what the code
does, which is not what the length field promises: the pointer arithmetic on
`tokens[1]`, the test of the last byte, the truncation.  `Decode` is the set of
possible results: a pointer that was never set and a sixth token lead outside the
arrays (`Wild`).

`TTTClients` puts the server between two clients.  `wire` holds the lines a client
has sent, of which one `recv` of the thread takes one or several; `inbox` is what
it took, and `answers` what the thread has sent and the client not received.  A
step of the server is the action of `TTTServer`, restricted to the message that
`Decode` makes of `inbox`, and the answers it sends.  Both clients are the loop
prompt, send, wait for one `recv`: `ttt.c` sends the line without its newline and
nothing for an empty line, `tttx.c` sends the next line of its file, newline
included, and waits for another `recv` after WAIT until BEGN or MOVD (`WaitsAfter`).
Users are either patient, pressing ENTER in the order the README gives when the
clients have shown what there is, or impatient.

### TTTListener

One action per step of the accept loop, one iteration of the search of
`threads[]` at a time, because the threads that end in between decide which
place is found.  `file` is the descriptor table, `accept` takes its lowest free
number, and `serves` is the descriptor a thread has read from `sock`.  `sock` is
declared in the loop body: a read between two iterations is out of its scope,
which the sanitizer of the build reports or which yields the old value.

### MyMalloc

One action per turn of a loop: `FindNext`, `Split` or `TakeWhole` in `mymalloc`,
`WalkNext` or `FreeChunk` in `myfree`, `Merge` or `CoalNext` in `coal`.  `occ` and
`size` are the headers, by the address at which they are read; payload bytes are
not modelled, and `PayloadUntouched` speaks of which bytes a header write
reaches.  `heads` (where chunks begin) and `live` (the blocks callers hold) are
history variables.  The int arithmetic of `validChunkSize` and of the header
fields wraps at `HalfInt`.  From the first access outside the array on the
program is in the state `wild`, of which nothing is said.

`clearMemory` (76) writes the first header only and leaves the others behind it.
The model forgets them (it is therefore no check of what a walk over old headers does) and goes to the state `cleared`, from which the next call is
a `mymalloc`: all callers in the repository (`tests.c`, `memgrind.c`) allocate
before they free again, and `mymalloc` writes every header before it is read.

`Heap` says what such an allocator owes its callers in terms of the blocks they hold
and nothing else: where there is room, which requests may be refused (no hole of
the exact size and none with room for a header and one byte more), which pointers
are taken back.  `MyMallocHeap` maps a call to one step of `Heap`, the step in which
its loop answers; headers, walks and merges are hidden.

### MyShellLines

The loop of `main` over `read`: `buffer` is what was read and not looked at,
`lineBuffer` the partial line that `append` keeps, `lineSize` the length of its
block.  `read` may return any number of bytes.  `consumed` and `handed` are history
variables: all lines given to `tokenize`, and the last of them.  A byte is a blank, an
operator, a newline or any other.  What `tokenize` writes outside its arrays is
`Undefined`.  This includes its very first write (503): the zero behind a line that is
as long as its block, which the AddressSanitizer build of the Makefile answers by ending
the shell.  `ShellTokenize` therefore takes the length of the block, and `TokensAsTyped`
claims nothing of such a line; the loop is modelled as going on after it, as it does
without the sanitizer.  (`TokensAsTyped` reads the block of the last line from
`lineSize`, which is that block when the line is handed out; a block that a later
piece makes longer only asks the question again with more room.)  `Starts` and `TokenAt` are the reference for the tokens of a line: an
operator, or a longest run of bytes that are neither operators nor blanks.

### MyShell

`fd` is the descriptor table of the shell, `child.fd` that of the child it has
forked and waits for; there is at most one, since the commands of a line run one
after the other.  An entry says which open file description it refers to: the
terminal, the script of batch mode, some file, or one end of a pipe.  `fin` is
the descriptor `main` reads lines from (0, or 3 in batch mode).  `in`, `out` and
`nextIn` are the numbers kept in `pCommands[k]` and `pCommands[k + 1]`.  One
action stands for each step of `executeCommand` that other processes or a full
table can make a difference to: find the command (`Resolve`, `NotRecognized`),
open or take over its input (`Input`), its output (`Output`, `MakePipe`), run it
(`Exit`, `ChangeDir`, `Fork`), wait for it and close the ends of its pipes (`Reap`,
`ReapFailure`); an error in any of them (`InputFails`, `OutputFails`,
`ChangeDirFails`) ends the line through `GiveUp` with the descriptors as they are.

A line is a sequence of tokens out of `Lines`; `Refused` and `IntoCommands` do to
it what `validateTokenArrangement` and `intoCommands` do.  A token is any string but
the four (`Marks`) with which the code stands for the shell's own descriptors
and the pipes.  Whether a file can be opened and a directory be entered is left open,
so each redirection and each `cd` may fail.  The kernel and the programs are modelled from how the shell uses
them: `open`, `dup` and `pipe` take the lowest free number, a pipe holds up to
`PipeCap` units, a write to a full pipe and a read from an empty one with a
writer left block, and a program (`Program`) reads to the end of its input or not
at all, writes what it read and some units of its own, and exits with a status.
`start` (the table when the line was read), `joins` (the pipes of the line, in
order) and `unsaved` (a `cd` once found no descriptor to keep 0 or 1 in) are
history variables.

## Runs

Every run takes at most about two minutes with two workers.

| run | instance | shows |
|---|---|---|
| `match` | 2 threads, the full grid | whole games keep to the rules of `TTTGames`; after a win or an agreed draw both clients are told, each once and matching; after a full grid only the client that filled it is |
| `leaving` | 2 threads, both clients may leave at any step, a short game with one shared cell and all draw messages | no running game without both players; turns and marks stay right through offers, rejections and disconnects; the mover saw the board; the rules of `TTTGames` hold to the end and after it |
| `delivery` | 4 threads in 2 games, from the middle of both, one client may leave, fairness | alerts are delivered, a connection error ends the game, whatever the other game does, unless it ends first and its thread keeps the mutex |
| `functions` | all boards; messages of each type with right and wrong lengths, cut at any byte, with every kind of tail; all texts of up to 6 bytes | `checkWin` and `isGameOver` agree with the eight lines; what is acted on is what was sent; no byte of a line is lost, and its tokens are those typed unless it fills its block |
| `clients` | the three matchups of the README with the files `c1.txt` to `c6.txt`, and impatient users of both clients | the documented results are reached; the player on turn is asked for its move, but for two named cases |
| `listener` | 4 connections, 2 places, 3 descriptors | places and threads correspond |
| `heap` | 34 bytes, sizes 1, 2, 3, 7, 12, 29, every pointer into the array, fairness | the invariants of the allocator; it implements `Heap`; every call returns |
| `shell` | 8 descriptors, pipes of 2 units, 18 lines, both modes, fairness | children get the pipe ends of their place, readers see the end, no pipe breaks, 0 and 1 are kept, what is left open is bounded, waits end |

Bounds.  Games do not share any state but the mutex, so for safety one slot shows what
happens in a game, and two threads on it are the two players; a thread without a
seat occurs when one of them comes after the other has left.  A third thread, and
several slots, are covered by the theorems: every safety property of the server is
proved for any number of threads and slots.  For liveness one slot is not enough: a
game that ends takes the mutex from all others (ttts.c 656).  `delivery` therefore has
two games.  Four threads from an empty server are too many states for a temporal
property, so it starts in the middle (`InTheMiddle`): one game in which a draw offer
waits for its answer, and which may go on, wait for ever or end, and one that has just
begun or whose first offer was rejected, of which one client may leave.  Both are
states that an empty server reaches.  The two properties except
`LostToOther`, a thread that ended another game and holds the mutex; without the
exception TLC finds both violated in each of the games.  A game has at most nine
moves, so the full grid needs no further bound, and `match` has the offer and the
acceptance of a draw besides; in the runs with rejections or
disconnects fewer cells are playable, since draw offers and rejections may go
round for ever and the length of a game adds nothing to them.  `match` leaves a
few cells to one mark only, which keeps wins of both, full grids without a line
and moves to occupied cells.  In 34 bytes there is room for five chunks of one
byte, which is enough for a free chunk to have a free or an occupied neighbour
on either side, and for exact fits, splits and chunks that are one to five bytes
too large.  In `shell` the number of lines is not bounded: sessions go on until
the eight descriptors are used up, so every way of running out of them, in the
middle of each command, is met; three commands in a pipeline have a first, a
middle and a last one; one program fits into a pipe exactly and one is a unit too
long for it.  In `functions` a read returns up to two bytes and a token has up to
four, so that lines of six bytes come in pieces, fill the block of the line exactly (the case of line 503),
make it grow, and have too many and too long tokens; declared lengths lie on both
sides of 10 and of 100, where the header changes its own length.    In `clients` the
answers in flight and the lines in a `recv` are not bounded other than by the lines
the users have.  The safety properties are also proved, without these bounds.

Deadlock is not checked: threads end, the server may die, the allocator waits
for a call, a shell may exit or wait for a program that waits for it.

Fairness.  `Fairness` of the server assumes that each thread runs again and again
(`WF` of `Runs`, whatever its next step is).  A critical section is one step, so
the mutex is either free or lost for ever, and weak fairness says no more than that a
thread gets a mutex that stays free in the end.  And it assumes that `recv` reports
the end or the error of a connection whose client may leave (`Leavers`) when it is asked
again and again and there is one: what a client has sent before it left is finite, so
`SF` of `RecvEof` and `RecvError`.  Nothing else is assumed about clients.  `FairSpec` of the allocator: a
call that was made runs on.  `FairSpec` of the shell: the shell runs on, and so
does its child, since the kernel schedules both; users owe no line, but what a
user types as the input of a program comes to an end.  `ClientsSpec`: threads and
clients run on, and patient users press ENTER in the end, which is what the README
tells them; nothing is assumed of impatient ones, about whom only a safety property
is asked.

### Where the code does not do what its documentation says

Each of these runs checks one sentence of a README as a property, and TLC finds
the behaviour that contradicts it.

| run | sentence | what happens |
|---|---|---|
| `lock` | state is kept intact using a mutex | every game-over branch ends the thread with the mutex held, and no thread of any game runs again |
| `close` | a player that disconnects forfeits | `recv` returns 0 and the `errno` of an earlier call says EAGAIN |
| `race` | a thread for every request | the thread reads `sock` after main has overwritten it |
| `zero` | bytes are preserved until freed | a 0-byte block makes the array look uninitialized |

The code also does the following, with no sentence of the documentation against it.
The models contain it, except for the bytes outside the arrays of the last item.

* ttts.c 292: a `send` to a connection that was reset ends the whole process.
* ttts.c 605: RSGN has no branch and is answered INVL.
* ttts.c 579, 598: after a rejected draw it is always player 1's turn.
* ttts.c 654: after a full grid the player that filled it is told OVER with a draw, the
  other one is sent `DRAW|2|S|`, which offers a draw, and its thread ends.  This client
  never receives a result.  `VerdictsAgree` says so: of the two players one is told a
  draw and the other nothing.
* ttts.c 716-728: a winner that leaves before the other client has read the
  result is recorded as having resigned.  `VerdictsAgree` is therefore stated for
  games nobody leaves.
* ttts.c 551-552: a second change overwrites the alert of the first, so a client
  may miss a board.  `MoverSawBoard` states what does hold: in the states that
  await a move the player to move was shown the board.
* ttts.c 692: a connection without a seat is player 0, which matches "no alert":
  it is told that it plays X.
* ttts.c 725: when such a connection is lost, player 2 of the slot is recorded as
  having resigned.
* ttts.c 142, 415, 719: a slot that is "over, ready for new" is found by
  `findOpenGame` but its PLAY is refused.
* ttts.c 776, 784: with all places taken a connection is forgotten; joining a
  finished thread closes the newest connection, not the finished one.
* ttts.c 195: more than five fields in a message, such as three lines joined in one
  `recv`, are written behind `tokens`; a length read through a `tokens[1]` that was
  never set is any number.
* ttts.c 150-270: a message is accepted only if a byte follows its last bar.  `tttx.c`
  sends the newline of its line; `ttt.c` strips it, so that a line that is exactly a
  message is refused, and its user has to type one character more.
* ttt.c 89: offers and rejections of a draw are not answered, nor is an empty line,
  and the client waits in `recv` for the next thing the server has to say.
* tttx.c 134: WAIT and BEGN in one `recv` are taken for WAIT.  Player 1 then waits for a
  move of player 2, which waits for that of player 1.
* mymalloc.c 107-123: chunks one to five bytes larger than asked for are passed
  over, so NULL may be returned although there is room; the int comparison of
  line 107 wraps for sizes near 2^31.
* mymalloc.c 156: the walk of `myfree` is bounded by the pointer, not by the array.
* my-shell.c 424-436: the errors of `cd` leave 0 or 1 redirected.
* my-shell.c 485: a program that writes more than a pipe holds is waited for
  before its reader is started.
* my-shell.c 412: with a full descriptor table `cd` cannot keep its own 0 or 1, and
  the shell goes on with those of the command (`unsaved`); `ReadersSeeTheEnd` and
  `NoBrokenPipe` make an exception of such a shell, and fail without it.
* my-shell.c 503: the terminating zero of a line of exactly `lineSize` bytes lands one
  past the block, and the shell, built with AddressSanitizer, ends there; 508, 576: long
  words, many tokens and lines of blanks leave the arrays of `tokenize`.  All of these
  are `Undefined`, and `TokensAsTyped` makes an exception of them.

## Proofs

Every safety property of the runs that pass is a theorem, and so is the refinement of
`TTTGames` and of `Heap`.  The theorems hold for any value of the constants that
satisfies the named assumptions of the modules; those of the allocator are also
conditional on `SoundCalls`, and that the results of a game agree on nobody leaving it.  Those assumptions give the types of the
constants and what the C library or the kernel gives for granted: a buffer has a
positive length, a regular byte is neither an operator nor a blank, `NoThread` is no thread.

**TTTServerProofs.**  `TypeCorrect` (types), `SeatsAreUnique`,
`BothPlayersThere`, `VerdictsAreSound`, `NeverRetired`, `OverStaysOver`,
`MarksArePermanent`.

* Seats: `SeatInv` adds to `SeatsUnique` that seats are taken in order: a slot
  waiting for player 1 has nobody seated, one waiting for player 2 has no
  player 2.  Without it, `JoinFirst` could duplicate a seat.
* Players: `PlayersInv` adds that a slot waiting for player 2 has a first player
  in its loop (`FirstPlayerWaits`), since that is the player `JoinSecond` starts
  the game with.
* Board: `BoardInv` adds that the board of a slot whose game has not begun is
  empty (`NotBegunEmpty`).  The step of interest is `Move`: the board was
  undecided, one mark was added, so only a line of that mark can be new, which
  is the one line the code looks for.
* `OverStaysOver` rests on `RetireUnreachable`: `PollQuietly` would take a game
  out of the over states, but cannot when the mutex is free.

**TTTServerPlayProofs.**  What the two players do and are shown: `PlayerTwoTrails`,
`MoverKnowsTheBoard`, `ResultsAgree`.

* The turn order alone makes `OTrailsX` inductive; its steps count the marks of a board
  before and after a write (`WriteCounts`).
* `MoverSawBoard` needs to know what the next alert will show: `SavedForTheMover` says
  that the message saved in `lastProtInfo` has the board as it is, until the game is
  over.  Delivering it then shows that board, and a rejected draw leaves it alone.
* `ResultsAgree` is proved for `Leavers = {}`, as a winner that leaves changes the
  result.  `VerdictsAgree` says what both players were told in every state and with
  every alert; it is inductive together with `NothingYet` (nobody has been told
  a result of a game that goes on, so a result is the only one) and
  `LoserIsOwed` (the alert of a won game never waits for the winner, so the message that
  clears it, L, goes to the loser).  The steps with content are the one that ends the game
  and tells one player (`ToldVerdict`) and the alert that tells the other (`AlertCompletes`).

**TTTServerGamesProofs.**  `ServerPlaysByTheRules`: `TTTServer` implements
`TTTGames`.  Each critical section is a step of one game or none of any; `Move` is the
step with content: that the board was undecided before it (`BoardInv`) makes the
verdict of `isGameOver` the one the rules give.  `PollQuietly` changes no game because
of `RetireUnreachable`.

**TTTListenerProofs.**  `TypeCorrect`, `NoThreadLost` and `GivesUpOnlyWhenFull`: the inductive
invariant adds to `ThreadsRegistered` that while main scans, the places below `i`
are taken and the accepted connection has no thread yet.

**MyMallocProofs.**  Under `SoundCalls`, that is sizes which are neither 0 nor so
large that `validChunkSize` wraps, and pointers into the array: `TypeCorrect`,
`ChunksTile`, `ArrayIsNotLeft`, `BlocksAreKept`, `BlocksAreDisjoint`, `PassCoalesces`, `AllComesBack`,
`PayloadsAreSafe`, `FreeIsExact`, `SearchIsComplete`.  The run `zero` shows that
these are not theorems for blocks of no bytes; larger sizes wrap in line 107 and
pointers behind the array are walked to (line 156).

* `Layout`, the inductive invariant, joins types, `Tiling` and `BlocksAreChunks`
  with `Zeroed` (the array before the first call) and `Position`: a loop of
  `mymalloc` or `myfree` is always at a chunk or at the end of the array, and
  `coal` at two neighbours.  `Split` and `Merge` are the steps with content; what
  they do to the chunks is stated once, in `SplitFacts` and `MergeFacts`.
* `Visited`, inductive on top of `Layout`, says what a loop knows of the chunks
  it has passed: `mymalloc` none that fits, `myfree` none that is the block,
  `coal` no two free neighbours.  The results about complete searches and
  about coalescing follow when the loop ends.

At the end of the module `MallocIsAHeap`: under `SoundCalls`, `MyMalloc` implements
`Heap`.  The step with content is a refusal: a hole between the blocks has to be one
free chunk, or the loop of `mymalloc` could miss it.  The chunks cover the array
(`Cover`), no two free ones are neighbours when a call begins (`Coalesced`), so a hole
is a chunk (`HoleIsChunk`), and the loop has seen them all (`Searched`).

**MyShellProofs.**  `TypeCorrect`, `EndsPlaced`, `PipesEnd`, `PipesHaveReaders` and
`ShellKeepsItsOwn`, for descriptor tables and pipelines of any length.  The inductive
invariant `ShellInv` has five parts, each preserved by every step given all of them:

* `TypeOK`; that a pipe is found when there are two free numbers is a counting
  argument: a table of `NFds` numbers cannot hold ends of `NFds` pipes and have one
  free (`SparePipe`);
* `LineInv`: where in the line the shell is, and how many pipes it has made;
* `NumbersInv`: the numbers in `pCommands` are different, are not 0 or 1, and refer to
  the file or the pipe of their place, though commands have run and descriptors were
  closed since they were stored;
* `PipeInv`: nobody holds the write end of the pipe a command reads; the write end of
  a new pipe is in one number only; any other write end (one that a failed line or a
  failed `cd` has left behind) has its read end in a number no command will close;
* `StdInv`: between the prompts 0 and 1 are those of the start of the line.

`CdRedirects` and `CdRestores` state what `cd` does to the table, with its duplicates
in the lowest free numbers; everything else follows from these two and from
`AfterChildCloses`.  What `intoCommands` makes of a line that is not refused is the lemma
`LineRead`, for lines of any length: a command reads from the pipe on its left or from a
file, and writes to the pipe on its right if it has one (`Placed`).

`LeaksAreBounded` counts descriptors.  `LeakInv` bounds the table at every step of a line
by what the commands before `k` may have left behind (`Due`), one for the pipe on the left of
the command at hand (`Pending`), and the output the command has opened (`OwnOutput`: both
ends, if it is a pipe).  Each step of `executeCommand` opens, closes or moves a known
number; the step with content is `AfterChild`, which
must close descriptors that are open and different from each other; `NumbersInv` says they are.

**TTTClientsProofs.**  The server together with its clients.

* `ClientsRunTheServer`: every step of the composed system is a step of `TTTServer` or none.
  The theorems about `Spec` hold therefore for `ClientsSpec`, so for messages that
  arrive joined and at any time.
* `MoverAlwaysAsked`: for any number of users, any lines and either program.  `LoopInv`
  says where each client is in its loop.  For `ttt.c` it is enough that a client that waits
  has a message to come (`Pending`).  `tttx.c` is followed through a game: until its
  thread has a seat it has one message on its way at the most (`BeforeSeat`); player 1 then
  waits for BEGN (`BeforeBegin`, `BeginSent`), or has taken it together with WAIT
  (`BeginMissed`); from then on it is like `ttt.c` (`Playing`).  The two exceptions of
  the property are `BeginMissed` and the lines that are not answered.

**FunctionsProofs.**  What the programs compute from their inputs alone.  A recursive
function is unfolded by the lemmas `RecursionRuns` and `LoopRuns`, whose induction is done
with a least counterexample (`LeastNat`), as the induction theorems of the library cannot
be instantiated.  Strings that are written out are collected in `Names`, because the
provers have no rule that they are in STRING.

* `ShellKeepsInput`, `ShellTakesOneLine`, `ShellLineFits`: for every length of the buffer.
  The invariant adds that `lineBuffer` has no newline in it (`NoNewlineKept`) and how long
  the pieces are (`SizesInv`): what `append` copies is at most `BUFSIZE` bytes, and the
  block is never shorter than that, so doubling it once is enough.
* `TokensAreAsTyped`: for every line within the limits and shorter than its block, whatever
  the limits and the block are.  The
  invariant of the loop of `tokenize` (`Sound`) says that after `i` bytes the tokens are
  those that are complete, and `strtemp` is the beginning of the next.
* `WinsAreLines`, `VerdictIsRight`: for every board.  Three cells one constant step apart
  are a row, a column or a diagonal (`GridLineMeans`).
* `AnyMessageActedOn`, `HalfMessageRefused`, `WholeMessageAccepted`: for every message with as many
  arguments as its type has, with arguments of any length, any bytes behind it, and
  wherever `recv` breaks off.  They rest on the offsets of the fields (`OffsetFacts`), on what a
  `'\0'` leaves of them (`CutFacts`: whole fields and at most one begun), and on the tokens of a
  beginning being the first tokens of the whole (`AsSent`).  `WholeLinesRead` and
  `NothingElseActedOn` are the properties of the run, for the messages of `MCFunctions`.

Only model-checked: `AlertsDelivered`, `ResetForfeits`, `CallsReturn`, `WaitsEnd` and
`EndsAsDocumented`, which are liveness, and which the prover does not do.

## Not modelled

* The set-up of connections: `connect_inet`, `open_listener`, a `pthread_create` that
  fails.
* `send` that blocks or sends a part.  `send_resp` runs under the mutex, so a client
  that does not read can stop the server; it takes more answers in flight than any
  instance here has.
* Names of 100 bytes and more, which overflow their buffer.
* The allocator for sizes of 2^63 and more, which takes pointer arithmetic of 64 bits
  next to that of ints; the bytes of payloads; `printMemChunks` and `getMemChunkLen`,
  which only read.
* `tests.c` and `memgrind.c`: sequential callers of the allocator, of which the model
  takes what they may call.
* A shell without an argument whose input is not a terminal: a read of `main` may
  then bring several lines, which are run from its buffer whatever descriptor 0
  has become.  A terminal hands out one line at a time.  (`MyShellLines` has reads of
  several lines, `MyShell` has descriptors; they meet in the sequence of tokens.)
* Wildcards and `~` in the shell, the search for the path of a command, a `fork` that
  fails, files named like the marks `STDIN`, `STDOUT`, `PIPE_READ` and
  `PIPE_WRITE`.

## Plan

1. The shell: path search and wildcards as one nondeterministic step of `Resolve` and
   of the arguments; reads of several lines composed with the descriptors.
2. A `send` that blocks, with bounded socket buffers, under `games_lock`.
