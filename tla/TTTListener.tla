----------------------------- MODULE TTTListener ----------------------------
(***************************************************************************)
(* The main thread of tic-tac-toe/ttts.c: accept, the search for a place   *)
(* in threads[], pthread_create, and the descriptors that the new threads  *)
(* read from main's variable `sock' through the pointer they are given.    *)
(* What a thread does with its descriptor is the module TTTServer; here it *)
(* reads `sock' once, serves that descriptor, and closes it in the end.    *)
(***************************************************************************)
EXTENDS Integers

CONSTANTS
  Conns,     \* the connections clients make; also names the thread made for each
  NoConn,
  NSlots,    \* THREADSIZE
  NFds       \* descriptors the process may have open for connections

ASSUME NoConnAssumption == NoConn \notin Conns
ASSUME NSlotsAssumption == NSlots \in Nat \ {0}
ASSUME NFdsAssumption == NFds \in Nat \ {0}

Slots == 1..NSlots
Fds == 1..NFds
BadFd == 0          \* the -1 of a failed accept

VARIABLES
  mainPc,    \* "top" (sock out of scope), "accept" or "scan"
  sock,      \* main's variable
  accepted,  \* the connections accept has returned
  cur,       \* the last of them
  i,         \* the loop variable of the search
  slot,      \* threads[] and active_threads[]: the thread in each place
  thread,    \* the life of the thread made for each connection
  serves,    \* the descriptor each thread has read
  file,      \* the connection behind each descriptor
  serverUp

vars == <<mainPc, sock, accepted, cur, i, slot, thread, serves, file, serverUp>>

Init ==
  /\ mainPc = "top" /\ sock = BadFd /\ accepted = {} /\ cur = NoConn /\ i = 1
  /\ slot = [n \in Slots |-> NoConn]
  /\ thread = [c \in Conns |-> "none"]
  /\ serves = [c \in Conns |-> BadFd]
  /\ file = [f \in Fds |-> NoConn]
  /\ serverUp = TRUE

\* close of a number that is not open changes nothing.
Closed(files, f) == [g \in Fds |-> IF g = f THEN NoConn ELSE files[g]]

-----------------------------------------------------------------------------
(* main                                                                    *)

EnterLoop ==
  /\ serverUp /\ mainPc = "top"
  /\ mainPc' = "accept"
  /\ UNCHANGED <<sock, accepted, cur, i, slot, thread, serves, file, serverUp>>

\* The kernel gives the new connection the lowest free number.
Accept(c) ==
  /\ serverUp /\ mainPc = "accept" /\ c \notin accepted
  /\ \E f \in Fds :
       /\ file[f] = NoConn /\ \A g \in 1..f - 1 : file[g] # NoConn
       /\ file' = [file EXCEPT ![f] = c]
       /\ sock' = f
  /\ mainPc' = "scan" /\ i' = 1 /\ cur' = c /\ accepted' = accepted \cup {c}
  /\ UNCHANGED <<slot, thread, serves, serverUp>>

AcceptFails ==
  /\ serverUp /\ mainPc = "accept" /\ \A f \in Fds : file[f] # NoConn
  /\ mainPc' = "top" /\ sock' = BadFd
  /\ UNCHANGED <<accepted, cur, i, slot, thread, serves, file, serverUp>>

\* pthread_tryjoin_np succeeds for a thread that has exited.
Joinable(n) == slot[n] # NoConn /\ thread[slot[n]] = "ended"

LastSlot__OneLate == NSlots + 1
LastSlot__OneEarly == NSlots - 1
LastSlot == NSlots

TakeSlot__JoinInverted ==
  /\ serverUp /\ mainPc = "scan"
  /\ slot[i] = NoConn \/ ~Joinable(i)
  /\ file' = IF slot[i] # NoConn THEN Closed(file, sock) ELSE file
  /\ slot' = [slot EXCEPT ![i] = cur]
  /\ thread' = [thread EXCEPT ![cur] = "started"]
  /\ mainPc' = "top"
  /\ UNCHANGED <<sock, accepted, cur, i, serves, serverUp>>

\* Place n is free, or its thread is joined and the descriptor in `sock' closed.
TakeSlot ==
  /\ serverUp /\ mainPc = "scan"
  /\ slot[i] = NoConn \/ Joinable(i)
  /\ file' = IF Joinable(i) THEN Closed(file, sock) ELSE file
  /\ slot' = [slot EXCEPT ![i] = cur]
  /\ thread' = [c \in Conns |-> IF c = cur THEN "started"
                                ELSE IF Joinable(i) /\ c = slot[i] THEN "joined"
                                ELSE thread[c]]
  /\ mainPc' = "top"
  /\ UNCHANGED <<sock, accepted, cur, i, serves, serverUp>>

\* After the last place the connection is left as it is: no thread, still open.
NextSlot ==
  /\ serverUp /\ mainPc = "scan"
  /\ slot[i] # NoConn /\ ~Joinable(i)
  /\ IF i < LastSlot THEN i' = i + 1 /\ mainPc' = mainPc ELSE i' = i /\ mainPc' = "top"
  /\ UNCHANGED <<sock, accepted, cur, slot, thread, serves, file, serverUp>>

-----------------------------------------------------------------------------
(* thread_function, as far as main can see it                              *)

\* int sock = *((int *) arg).
ReadSock(c) ==
  /\ serverUp /\ thread[c] = "started" /\ mainPc # "top"
  /\ thread' = [thread EXCEPT ![c] = "running"]
  /\ serves' = [serves EXCEPT ![c] = sock]
  /\ UNCHANGED <<mainPc, sock, accepted, cur, i, slot, file, serverUp>>

\* The same read while `sock' is out of scope: an error to the AddressSanitizer of
\* the build, or the old value.
ReadOutOfScope(c) ==
  /\ serverUp /\ thread[c] = "started" /\ mainPc = "top"
  /\ \/ serverUp' = FALSE /\ UNCHANGED <<thread, serves>>
     \/ /\ thread' = [thread EXCEPT ![c] = "running"]
        /\ serves' = [serves EXCEPT ![c] = sock]
        /\ UNCHANGED serverUp
  /\ UNCHANGED <<mainPc, sock, accepted, cur, i, slot, file>>

\* close(sock) and pthread_exit: the number may by now stand for another connection.
EndThread(c) ==
  /\ serverUp /\ thread[c] = "running"
  /\ thread' = [thread EXCEPT ![c] = "ended"]
  /\ file' = Closed(file, serves[c])
  /\ UNCHANGED <<mainPc, sock, accepted, cur, i, slot, serves, serverUp>>

-----------------------------------------------------------------------------
Next ==
  \/ EnterLoop \/ AcceptFails \/ TakeSlot \/ NextSlot
  \/ \E c \in Conns : Accept(c) \/ ReadSock(c) \/ ReadOutOfScope(c) \/ EndThread(c)

Spec == Init /\ [][Next]_vars

-----------------------------------------------------------------------------
(* What the accept loop should guarantee.                                  *)

Unjoined == {"started", "running", "ended"}

\* The type of every variable.
TypeOK ==
  /\ mainPc \in {"top", "accept", "scan"}
  /\ sock \in Fds \cup {BadFd}
  /\ accepted \subseteq Conns
  /\ cur \in accepted \cup {NoConn}
  /\ i \in Slots
  /\ slot \in [Slots -> Conns \cup {NoConn}]
  /\ thread \in [Conns -> Unjoined \cup {"none", "joined"}]
  /\ serves \in [Conns -> Fds \cup {BadFd}]
  /\ file \in [Fds -> Conns \cup {NoConn}]
  /\ serverUp \in BOOLEAN

\* threads[] never loses a thread: each one that was created and not joined has
\* exactly one place, and a place never holds one that was joined.  So a thread
\* is joined once, and at most THREADSIZE of them exist.
ThreadsRegistered ==
  /\ \A n \in Slots : slot[n] # NoConn => thread[slot[n]] \in Unjoined
  /\ \A c \in Conns : thread[c] \in Unjoined => \E n \in Slots : slot[n] = c
  /\ \A m, n \in Slots : slot[m] = slot[n] /\ slot[m] # NoConn => m = n

\* The search gives a connection up only after every place was taken.
GivesUp == mainPc = "scan" /\ mainPc' = "top" /\ thread'[cur] = "none"

\* A connection is left without a thread only when no place of threads[] is free.
GivenUpOnlyWhenFull == [][GivesUp => \A n \in Slots : slot[n] # NoConn]_vars

-----------------------------------------------------------------------------
(* What tic-tac-toe/README.md says of it and the code does not do.         *)

\* "Everytime a new request is made, a new thread is spinned up to account for the
\* request": no two threads serve one connection.  A thread reads `sock' after main
\* may have accepted the next connection into it.
OneThreadPerConnection ==
  \A c, d \in Conns :
    /\ c # d /\ thread[c] = "running" /\ thread[d] = "running"
    /\ serves[c] # BadFd
    => serves[c] # serves[d]
=============================================================================
