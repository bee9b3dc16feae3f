------------------------------ MODULE MyMalloc ------------------------------
(***************************************************************************)
(* The allocator of little-malloc/mymalloc.c: mymalloc, myfree and coal    *)
(* over the array MEMORY, and clearMemory.  Each turn of their loops is a  *)
(* step, so that the half-done states in between can be looked at and      *)
(* proved about.                                                           *)
(*                                                                         *)
(* A chunk is a header of METADATA_SIZE bytes (occupied, size) and `size'  *)
(* bytes of payload.  occ and size are the headers by address; the bytes   *)
(* of payloads are not modelled, only which of them a step writes over.    *)
(*                                                                         *)
(* A definition named X__Y is X with the mistake Y in it.  No other        *)
(* definition uses it; it shows that a property depends on X being right.  *)
(***************************************************************************)
EXTENDS Integers

CONSTANTS
  MEM,       \* MEM_BYTE_SIZE, 4096 in the code
  HalfInt,   \* 2^31: an int holds -HalfInt .. HalfInt - 1
  Sizes,     \* the sizes callers ask for
  Pointers   \* the non-null pointers callers free, as offsets from MEMORY

META == 5
Addr == 0..MEM - 1

ASSUME MEMAssumption == MEM \in Nat /\ MEM > META
ASSUME HalfIntAssumption == HalfInt \in Nat /\ HalfInt > MEM
ASSUME SizesAssumption == Sizes \subseteq Nat
ASSUME PointersAssumption == Pointers \subseteq Int

VARIABLES
  occ, size,    \* the header at each address
  pc,           \* "idle", "find" (mymalloc), "walk" (myfree), "coal", "wild", or
                \* "cleared": idle, and nothing was allocated since clearMemory
  arg,          \* the size asked for, or the pointer to free
  cur, next,    \* current_metadata_addr and next_metadata_addr
  heads,        \* history: where the chunks begin
  live          \* history: the blocks the callers hold, <<pointer, length>>

headers == <<occ, size, heads>>
vars == <<occ, size, pc, arg, cur, next, heads, live>>

Init ==
  /\ occ = [a \in Addr |-> 0]
  /\ size = [a \in Addr |-> 0]
  /\ pc = "idle" /\ arg = 0 /\ cur = 0 /\ next = 0
  /\ heads = {} /\ live = {}

\* Conversion of a size_t or long to int.
ToInt(n) == ((n + HalfInt) % (2 * HalfInt)) - HalfInt

\* Where the chunk at a ends, if its header is what it should be.
End(a) == a + META + size[a]

\* The header at a lies in the array.  Reading or writing one that does not is
\* undefined: nothing is said of the program from there on ("wild").
Inside(a) == 0 <= a /\ a + META <= MEM

-----------------------------------------------------------------------------
(* mymalloc                                                                *)

IsInitialized == size[0] # 0

MallocCall(n) ==
  /\ pc \in {"idle", "cleared"}
  /\ IF IsInitialized THEN UNCHANGED <<size, heads>>
     ELSE size' = [size EXCEPT ![0] = MEM - META] /\ heads' = {0}
  /\ pc' = "find" /\ arg' = n /\ cur' = 0
  /\ UNCHANGED <<occ, next, live>>

Finding == pc = "find" /\ cur + META < MEM

Fits == occ[cur] = 0 /\ size[cur] = arg
MinSplit__NoHeader(n) == ToInt(n)
MinSplit__OneMore(n) == ToInt(n + META + 2)
MinSplit(n) == ToInt(n + META + 1)
Splits == occ[cur] = 0 /\ ~Fits /\ size[cur] >= MinSplit(arg)

\* The locals mean nothing between two calls; they are 0 there.
Return == pc' = "idle" /\ arg' = 0 /\ cur' = 0 /\ next' = 0

TakeWhole ==
  /\ Finding /\ Fits
  /\ occ' = [occ EXCEPT ![cur] = 1]
  /\ live' = live \cup {<<cur + META, arg>>}
  /\ Return /\ UNCHANGED <<size, heads>>

Rest__HeaderForgotten(n) == ToInt(size[cur] - n)
Rest(n) == ToInt(size[cur] - n - META)

Split ==
  LET new == cur + META + arg
  IN  /\ Finding /\ Splits
      /\ IF Inside(new)
           THEN /\ occ' = [occ EXCEPT ![new] = 0, ![cur] = 1]
                /\ size' = [size EXCEPT ![new] = Rest(arg), ![cur] = ToInt(arg)]
                /\ heads' = heads \cup {new}
                /\ live' = live \cup {<<cur + META, arg>>}
                /\ Return
           ELSE pc' = "wild" /\ UNCHANGED <<headers, live, arg, cur, next>>

FindNext ==
  /\ Finding /\ ~Fits /\ ~Splits
  /\ cur' = End(cur)
  /\ UNCHANGED <<headers, pc, arg, next, live>>

NotEnough ==
  /\ pc = "find" /\ ~(cur + META < MEM)
  /\ Return /\ UNCHANGED <<headers, live>>

-----------------------------------------------------------------------------
(* myfree and coal                                                         *)

FreeCall(p) ==
  /\ pc = "idle"
  /\ pc' = "walk" /\ arg' = p /\ cur' = 0
  /\ UNCHANGED <<headers, next, live>>

Walking == pc = "walk" /\ cur <= arg
IsBlock__Anywhere == cur + META <= arg /\ arg < End(cur)
IsBlock == cur + META = arg

FreeChunk ==
  /\ Walking /\ IsBlock /\ Inside(cur) /\ occ[cur] # 0
  /\ occ' = [occ EXCEPT ![cur] = 0]
  /\ live' = {b \in live : b[1] # arg}
  /\ pc' = "coal" /\ arg' = 0 /\ cur' = 0 /\ next' = End(0)
  /\ UNCHANGED <<size, heads>>

AlreadyFree ==
  /\ Walking /\ IsBlock /\ Inside(cur) /\ occ[cur] = 0
  /\ Return /\ UNCHANGED <<headers, live>>

WalkNext ==
  /\ Walking /\ ~IsBlock /\ Inside(cur)
  /\ cur' = End(cur)
  /\ UNCHANGED <<headers, pc, arg, next, live>>

\* Nothing stops the walk at the end of the array.
WalkOut ==
  /\ Walking /\ ~Inside(cur)
  /\ pc' = "wild" /\ UNCHANGED <<headers, live, arg, cur, next>>

NotAllocated ==
  /\ pc = "walk" /\ ~(cur <= arg)
  /\ Return /\ UNCHANGED <<headers, live>>

CoalBound__Strict(a) == a + META < MEM - META
CoalBound(a) == a + META <= MEM

BothFree__LeftOnly == occ[cur] = 0
BothFree == occ[cur] = 0 /\ occ[next] = 0

Merge__Advances ==
  /\ pc = "coal" /\ CoalBound(next) /\ BothFree
  /\ size' = [size EXCEPT ![cur] = @ + META + size[next], ![next] = 0]
  /\ cur' = cur + META + size'[cur]
  /\ next' = IF Inside(cur') THEN cur' + META + size'[cur'] ELSE MEM
  /\ heads' = heads \ {next}
  /\ UNCHANGED <<occ, pc, arg, live>>

\* The merged chunk stays current, so that it can take in the one after it.  The
\* bytes of the second header become payload: nothing reads them as a header
\* before it is written again, and they count as 0 until then.
Merge ==
  /\ pc = "coal" /\ CoalBound(next) /\ BothFree
  /\ size' = [size EXCEPT ![cur] = @ + META + size[next], ![next] = 0]
  /\ next' = cur + META + size'[cur]
  /\ heads' = heads \ {next}
  /\ UNCHANGED <<occ, pc, arg, cur, live>>

CoalNext__Stays ==
  /\ pc = "coal" /\ CoalBound(next) /\ ~BothFree
  /\ cur' = next
  /\ UNCHANGED <<headers, pc, arg, next, live>>

CoalNext ==
  /\ pc = "coal" /\ CoalBound(next) /\ ~BothFree
  /\ cur' = next /\ next' = End(next)
  /\ UNCHANGED <<headers, pc, arg, live>>

CoalDone ==
  /\ pc = "coal" /\ ~CoalBound(next)
  /\ Return /\ UNCHANGED <<headers, live>>

-----------------------------------------------------------------------------
\* clearMemory writes the first header only.  What is behind it counts as 0, as
\* after a merge: the callers allocate before they free again, and a header is
\* written before it is read.
ClearMemory ==
  /\ pc = "idle"
  /\ occ' = [a \in Addr |-> 0] /\ size' = [a \in Addr |-> 0]
  /\ heads' = {} /\ live' = {}
  /\ pc' = "cleared" /\ UNCHANGED <<arg, cur, next>>

Call ==
  \/ \E n \in Sizes : MallocCall(n)
  \/ \E p \in Pointers : FreeCall(p)
  \/ ClearMemory
Malloc == TakeWhole \/ Split \/ FindNext \/ NotEnough
Free == FreeChunk \/ AlreadyFree \/ WalkNext \/ WalkOut \/ NotAllocated
Coal == Merge \/ CoalNext \/ CoalDone

Next == Call \/ Malloc \/ Free \/ Coal

Spec == Init /\ [][Next]_vars

\* A call that has been made runs on; callers need not make one.
FairSpec == Spec /\ WF_vars(Malloc \/ Free \/ Coal)

-----------------------------------------------------------------------------
(* What the allocator should guarantee.                                    *)

\* What the guarantees rest on: nobody asks for 0 bytes or for so many that the
\* conversion to int wraps, and the pointers freed lie in the array.
SoundCalls == Sizes \subseteq 1..HalfInt - META - 2 /\ Pointers \subseteq Addr

\* The type of every variable.
TypeOK ==
  /\ occ \in [Addr -> {0, 1}]
  /\ size \in [Addr -> 0..MEM]
  /\ pc \in {"idle", "find", "walk", "coal", "wild", "cleared"}
  /\ arg \in {0} \cup Sizes \cup Pointers
  /\ cur \in 0..MEM
  /\ next \in Nat
  /\ heads \subseteq Addr
  /\ live \subseteq Nat \X Nat

\* The chunks tile the array, from its first byte to its last, after every step:
\* following the sizes from the first header meets every chunk and ends at MEM.
Tiling ==
  IsInitialized =>
    /\ 0 \in heads
    /\ \A h \in heads :
         /\ size[h] > 0
         /\ End(h) = MEM \/ End(h) \in heads
         /\ End(h) <= MEM
         /\ \A k \in heads : k <= h \/ End(h) <= k

\* The blocks the callers hold are the occupied chunks, with the lengths they
\* were asked for: no block is lost by a split or a merge, none appears.
BlocksAreChunks ==
  /\ \A b \in live : /\ b[1] - META \in heads
                     /\ occ[b[1] - META] = 1 /\ size[b[1] - META] = b[2]
  /\ \A h \in heads : occ[h] = 1 => <<h + META, size[h]>> \in live

\* Two blocks in use share no byte, and none reaches out of the array.
BlocksDisjoint ==
  /\ \A b \in live : META <= b[1] /\ b[1] + b[2] <= MEM
  /\ \A b, c \in live : b # c => b[1] + b[2] <= c[1] \/ c[1] + c[2] <= b[1]

\* Between calls, and while mymalloc searches, no two neighbouring chunks are
\* free: one pass of coal after a free merges on both sides.
Coalesced ==
  pc \in {"idle", "find", "walk"} =>
    \A h \in heads : occ[h] = 0 /\ End(h) \in heads => occ[End(h)] = 1

\* When everything has been given back the memory is one chunk again, whatever
\* the order of the calls was.
AllReturned == pc = "idle" /\ live = {} /\ IsInitialized => heads = {0} /\ End(0) = MEM

\* No call reads or writes a header outside the array, once there are headers:
\* before the first mymalloc, myfree steps over zeroes, five bytes at a time, and
\* may read beyond the end if the pointer is among the last bytes.
StaysInArray == pc = "wild" => ~IsInitialized

Wrote(a) == occ'[a] # occ[a] \/ size'[a] # size[a]

\* A header is never written over the bytes of a block in use.
PayloadUntouched ==
  [][\A a \in Addr : Wrote(a) =>
       \A b \in live : b \in live' => a + META <= b[1] \/ b[1] + b[2] <= a]_vars

\* myfree accepts a pointer exactly when it is one mymalloc returned and that has
\* not been freed since.
FreeDecidesRight ==
  [][pc = "walk" /\ pc' # "walk" =>
       (pc' = "coal" <=> \E b \in live : b[1] = arg)]_vars

\* mymalloc gives up only when no free chunk is of the size asked for or can be
\* split for it.
GivesUpRightly ==
  [][pc = "find" /\ pc' = "idle" /\ live' = live =>
       \A h \in heads : occ[h] = 0 => size[h] # arg /\ size[h] < arg + META + 1]_vars

\* Every call returns: no walk over the chunks goes round in circles.
CallsReturn == pc \notin {"idle", "cleared"} ~> pc \in {"idle", "wild"}

-----------------------------------------------------------------------------
(* What little-malloc/README.md says of it and the code does not do.       *)

\* "bytes written to at occupied memory are preserved until freed": after a 0-byte
\* chunk at the front the array looks uninitialized, and the next mymalloc starts
\* over on top of the blocks in use.
PreservedUntilFreed == BlocksDisjoint
=============================================================================
