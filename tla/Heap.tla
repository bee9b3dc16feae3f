-------------------------------- MODULE Heap --------------------------------
(***************************************************************************)
(* What an allocator with one array and a header of META bytes in front of *)
(* each block owes its callers, with no headers, no loops and no merging   *)
(* in it.  MyMallocHeap shows that mymalloc.c keeps to it.                 *)
(***************************************************************************)
EXTENDS Integers

CONSTANTS MEM, META, Sizes, Pointers

VARIABLES
  blocks,   \* what the callers hold, <<pointer, length>>
  call,     \* "none", "malloc" or "free"
  operand   \* the size asked for, or the pointer given back

heapVars == <<blocks, call, operand>>

HeapInit == blocks = {} /\ call = "none" /\ operand = 0

\* The k bytes from a on lie in the array and belong to no block or its header.
Room(a, k) ==
  /\ 0 <= a /\ a + k <= MEM
  /\ \A b \in blocks : a + k <= b[1] - META \/ b[1] + b[2] <= a

\* These k bytes, and not one more on either side.
Hole(a, k) == Room(a, k) /\ ~Room(a - 1, k + 1) /\ ~Room(a, k + 1)

Ask(n) == call = "none" /\ call' = "malloc" /\ operand' = n /\ UNCHANGED blocks

GiveBack(p) == call = "none" /\ call' = "free" /\ operand' = p /\ UNCHANGED blocks

\* The memory is cleared, and what the callers hold with it.
Clear == call = "none" /\ blocks' = {} /\ UNCHANGED <<call, operand>>

Answered == call' = "none" /\ operand' = 0

Grant ==
  /\ call = "malloc"
  /\ \E p \in 0..MEM : /\ Room(p - META, META + operand)
                       /\ blocks' = blocks \cup {<<p, operand>>}
  /\ Answered

\* A hole is of no use if it is too small, or if what is left of it has no room for
\* a header and one byte.
Refuse ==
  /\ call = "malloc"
  /\ \A a \in 0..MEM, k \in 1..MEM :
       Hole(a, k) => k # META + operand /\ k < META + operand + META + 1
  /\ Answered /\ UNCHANGED blocks

TakeBack ==
  /\ call = "free"
  /\ \E b \in blocks : b[1] = operand /\ blocks' = blocks \ {b}
  /\ Answered

Reject ==
  /\ call = "free" /\ \A b \in blocks : b[1] # operand
  /\ Answered /\ UNCHANGED blocks

HeapNext ==
  \/ \E n \in Sizes : Ask(n)
  \/ \E p \in Pointers : GiveBack(p)
  \/ Clear \/ Grant \/ Refuse \/ TakeBack \/ Reject

HeapSpec == HeapInit /\ [][HeapNext]_heapVars
=============================================================================
