-------------------------- MODULE TTTListenerProofs -------------------------
(***************************************************************************)
(* Proofs about the accept loop for any number of connections, places and  *)
(* descriptors.                                                            *)
(***************************************************************************)
EXTENDS TTTListener, TLAPS

\* While main searches, the connection it holds has no thread, the places behind
\* it are taken, and only accepted connections ever get a thread.
SearchInv ==
  /\ mainPc = "scan" => /\ cur \in accepted
                        /\ thread[cur] = "none"
                        /\ \A n \in Slots : n < i => slot[n] # NoConn
  /\ \A c \in Conns : thread[c] # "none" => c \in accepted

ListenerInv == TypeOK /\ SearchInv /\ ThreadsRegistered

LEMMA SlotsFacts == 1 \in Slots /\ NSlots \in Slots /\ Slots \subseteq Int
  BY NSlotsAssumption DEF Slots

LEMMA ListenerInit == Init => ListenerInv
  BY SlotsFacts, NoConnAssumption
     DEF Init, ListenerInv, TypeOK, SearchInv, ThreadsRegistered, Unjoined

\* The steps of a thread do not move it to another place or change what is
\* joined: enough that it stays created and not joined.
LEMMA ThreadMoves ==
  ASSUME ListenerInv, NEW c \in Conns, NEW now \in Unjoined,
         thread[c] \in Unjoined, thread' = [thread EXCEPT ![c] = now],
         UNCHANGED <<mainPc, accepted, cur, i, slot>>
  PROVE  SearchInv' /\ ThreadsRegistered'
  BY NoConnAssumption DEF ListenerInv, TypeOK, SearchInv, ThreadsRegistered, Unjoined

LEMMA ListenerStep == ListenerInv /\ [Next]_vars => ListenerInv'
<1> SUFFICES ASSUME ListenerInv, [Next]_vars PROVE ListenerInv'
  OBVIOUS
<1> USE SlotsFacts, NoConnAssumption, NSlotsAssumption
<1>1. CASE UNCHANGED vars
  BY <1>1 DEF vars, ListenerInv, TypeOK, SearchInv, ThreadsRegistered
<1>2. CASE EnterLoop
  BY <1>2 DEF EnterLoop, ListenerInv, TypeOK, SearchInv, ThreadsRegistered
<1>3. CASE AcceptFails
  BY <1>3 DEF AcceptFails, ListenerInv, TypeOK, SearchInv, ThreadsRegistered
<1>4. CASE TakeSlot
  <2>1. TypeOK'
    BY <1>4 DEF TakeSlot, Closed, ListenerInv, TypeOK, SearchInv, Joinable, Unjoined
  <2>2. SearchInv'
    BY <1>4 DEF TakeSlot, ListenerInv, TypeOK, SearchInv, Joinable, Unjoined, ThreadsRegistered
  <2>3. /\ cur \in Conns /\ thread[cur] = "none" /\ i \in Slots
        /\ slot' = [slot EXCEPT ![i] = cur]
        /\ thread'[cur] = "started"
    BY <1>4 DEF TakeSlot, ListenerInv, TypeOK, SearchInv
  <2>4. \A n \in Slots : slot[n] # cur
    BY <2>3 DEF ListenerInv, ThreadsRegistered, Unjoined
  <2>5. \A c \in Conns : c # cur /\ c # slot[i] => thread'[c] = thread[c]
    BY <1>4 DEF TakeSlot
  <2>6. slot[i] \in Conns => thread'[slot[i]] \notin Unjoined
    BY <1>4, <2>3, <2>4 DEF TakeSlot, Joinable, Unjoined
  <2>7. ThreadsRegistered'
    <3>1. \A n \in Slots : slot'[n] # NoConn => thread'[slot'[n]] \in Unjoined
      BY <2>3, <2>4, <2>5 DEF ListenerInv, TypeOK, ThreadsRegistered, Unjoined
    <3>2. \A c \in Conns : thread'[c] \in Unjoined => \E n \in Slots : slot'[n] = c
      <4> SUFFICES ASSUME NEW c \in Conns, thread'[c] \in Unjoined
                   PROVE  \E n \in Slots : slot'[n] = c
        OBVIOUS
      <4>1. CASE c = cur
        BY <4>1, <2>3 DEF ListenerInv, TypeOK
      <4>2. CASE c # cur
        <5>1. c # slot[i] /\ thread[c] \in Unjoined
          BY <4>2, <2>5, <2>6
        <5>2. PICK n \in Slots : slot[n] = c
          BY <5>1 DEF ListenerInv, ThreadsRegistered
        <5> QED BY <5>1, <5>2, <2>3 DEF ListenerInv, TypeOK
      <4> QED BY <4>1, <4>2
    <3>3. \A m, n \in Slots : slot'[m] = slot'[n] /\ slot'[m] # NoConn => m = n
      BY <2>3, <2>4 DEF ListenerInv, TypeOK, ThreadsRegistered
    <3> QED BY <3>1, <3>2, <3>3 DEF ThreadsRegistered
  <2> QED BY <2>1, <2>2, <2>7 DEF ListenerInv
<1>5. CASE NextSlot
  <2>1. i' \in Slots /\ (i' = i \/ i' = i + 1) /\ slot[i] # NoConn
    BY <1>5 DEF NextSlot, LastSlot, ListenerInv, TypeOK, Slots
  <2>2. mainPc' = "scan" => \A n \in Slots : n < i' => slot[n] # NoConn
    BY <1>5, <2>1 DEF NextSlot, ListenerInv, TypeOK, SearchInv, Slots
  <2> QED BY <1>5, <2>1, <2>2
          DEF NextSlot, ListenerInv, TypeOK, SearchInv, ThreadsRegistered
<1>6. ASSUME NEW c \in Conns, Accept(c) PROVE ListenerInv'
  <2>1. \A n \in Slots : ~(n < 1)
    BY DEF Slots
  <2> QED BY <1>6, <2>1
          DEF Accept, ListenerInv, TypeOK, SearchInv, ThreadsRegistered, Unjoined
<1>7. ASSUME NEW c \in Conns, ReadSock(c) PROVE ListenerInv'
  BY <1>7, ThreadMoves DEF ReadSock, ListenerInv, TypeOK, Unjoined
<1>8. ASSUME NEW c \in Conns, ReadOutOfScope(c) PROVE ListenerInv'
  <2>1. CASE serverUp' = FALSE /\ UNCHANGED <<thread, serves>>
    BY <1>8, <2>1 DEF ReadOutOfScope, ListenerInv, TypeOK, SearchInv, ThreadsRegistered
  <2>2. CASE /\ thread' = [thread EXCEPT ![c] = "running"]
             /\ serves' = [serves EXCEPT ![c] = sock]
             /\ UNCHANGED serverUp
    BY <1>8, <2>2, ThreadMoves DEF ReadOutOfScope, ListenerInv, TypeOK, Unjoined
  <2> QED BY <1>8, <2>1, <2>2 DEF ReadOutOfScope
<1>9. ASSUME NEW c \in Conns, EndThread(c) PROVE ListenerInv'
  BY <1>9, ThreadMoves DEF EndThread, Closed, ListenerInv, TypeOK, Unjoined
<1> QED BY <1>1, <1>2, <1>3, <1>4, <1>5, <1>6, <1>7, <1>8, <1>9 DEF Next

\* Every variable keeps its type, the places of threads[] included.
THEOREM TypeCorrect == Spec => []TypeOK
<1>1. ListenerInv => TypeOK
  BY DEF ListenerInv
<1> QED BY ListenerInit, ListenerStep, <1>1, PTL DEF Spec

\* Every thread that was created and not joined has exactly one place in
\* threads[], for any number of connections: none is lost and none joined twice.
THEOREM NoThreadLost == Spec => [](TypeOK /\ ThreadsRegistered)
<1>1. ListenerInv => TypeOK /\ ThreadsRegistered
  BY DEF ListenerInv
<1> QED BY ListenerInit, ListenerStep, <1>1, PTL DEF Spec

LEMMA GivesUpStep == ListenerInv /\ [Next]_vars => [GivesUp => \A n \in Slots : slot[n] # NoConn]_vars
<1> SUFFICES ASSUME ListenerInv, [Next]_vars, GivesUp PROVE \A n \in Slots : slot[n] # NoConn
  OBVIOUS
<1>1. mainPc = "scan" /\ mainPc' = "top" /\ thread'[cur] = "none" /\ cur \in Conns
  BY DEF GivesUp, ListenerInv, TypeOK, SearchInv
<1>2. ~TakeSlot
  BY <1>1 DEF TakeSlot
<1>3. NextSlot
  BY <1>1, <1>2 DEF Next, vars, EnterLoop, AcceptFails, Accept, ReadSock, ReadOutOfScope, EndThread
<1>4. i = NSlots /\ slot[i] # NoConn
  BY <1>1, <1>3, NSlotsAssumption DEF NextSlot, LastSlot, ListenerInv, TypeOK, Slots
<1> QED BY <1>1, <1>4, NSlotsAssumption DEF ListenerInv, TypeOK, SearchInv, Slots

\* A connection is left without a thread only when all THREADSIZE places are taken.
THEOREM GivesUpOnlyWhenFull == Spec => GivenUpOnlyWhenFull
  BY ListenerInit, ListenerStep, GivesUpStep, PTL DEF Spec, GivenUpOnlyWhenFull
=============================================================================
