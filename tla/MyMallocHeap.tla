---------------------------- MODULE MyMallocHeap ----------------------------
(***************************************************************************)
(* The allocator of MyMalloc implements Heap: a call is answered in one    *)
(* step of its loops, and all the other steps are hidden.                  *)
(***************************************************************************)
EXTENDS MyMalloc

Abstract == INSTANCE Heap WITH
  blocks <- live,
  call <- IF pc = "find" THEN "malloc"
          ELSE IF pc \in {"walk", "wild"} THEN "free" ELSE "none",
  operand <- arg

\* mymalloc returns bytes of the array that nobody holds and gives up only when no
\* hole between the blocks would do, whatever was split and merged before; myfree
\* gives back exactly the block it is given, and refuses every other pointer.
RefinesHeap == Abstract!HeapSpec
=============================================================================
