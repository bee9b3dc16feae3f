----------------------------- MODULE MCMyMalloc -----------------------------
(***************************************************************************)
(* A memory of a few bytes: room for up to five chunks of one byte.        *)
(***************************************************************************)
EXTENDS MyMallocHeap

AllPointers == Addr
=============================================================================
