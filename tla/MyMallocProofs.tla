--------------------------- MODULE MyMallocProofs ---------------------------
(***************************************************************************)
(* Proofs about the allocator for any size of the memory and of int, under *)
(* SoundCalls: sizes that are neither 0 nor near the largest int, pointers *)
(* in the array.                                                           *)
(*                                                                         *)
(* Layout is the inductive invariant: the chunks tile the array, the       *)
(* blocks are the occupied chunks, and every loop is at a chunk or at the  *)
(* end of the array.  Visited says what the loops know of the chunks they  *)
(* have passed, and is inductive on top of it.                             *)
(***************************************************************************)
EXTENDS MyMallocHeap, WellFoundedInduction, TLAPS

\* Before the first mymalloc the array is all zeroes.
Zeroed ==
  ~IsInitialized =>
    /\ heads = {} /\ live = {}
    /\ \A a \in Addr : occ[a] = 0 /\ size[a] = 0
    /\ pc \in {"idle", "walk", "wild", "cleared"}

\* Where each loop can be.
Position ==
  /\ pc = "find" => arg \in Sizes
  /\ pc = "walk" => arg \in Pointers
  /\ pc \in {"find", "walk"} /\ IsInitialized => cur \in heads \cup {MEM}
  /\ pc = "coal" => cur \in heads /\ next = End(cur)
  /\ pc = "cleared" => ~IsInitialized

Layout ==
  /\ TypeOK /\ Zeroed /\ Position
  /\ Tiling /\ BlocksAreChunks /\ StaysInArray

\* What each loop knows of the chunks before cur.
Searched ==
  pc = "find" =>
    \A h \in heads :
      h < cur /\ occ[h] = 0 => size[h] # arg /\ size[h] < arg + META + 1

Walked == pc = "walk" => \A h \in heads : h < cur => h + META # arg

CoalescedBefore ==
  pc = "coal" =>
    \A h \in heads : h < cur /\ occ[h] = 0 /\ End(h) \in heads => occ[End(h)] = 1

Visited == Searched /\ Walked /\ CoalescedBefore /\ Coalesced

-----------------------------------------------------------------------------
LEMMA ModSmall ==
  ASSUME NEW a \in Nat, NEW b \in Nat, a < b
  PROVE  a % b = a
  OBVIOUS

\* A number that fits an int is not changed by the conversion.
LEMMA ToIntFits ==
  ASSUME NEW n \in Nat, n < HalfInt
  PROVE  ToInt(n) = n
<1>1. n + HalfInt \in Nat /\ 2 * HalfInt \in Nat /\ n + HalfInt < 2 * HalfInt
  BY HalfIntAssumption
<1>2. (n + HalfInt) % (2 * HalfInt) = n + HalfInt
  BY <1>1, ModSmall
<1> QED BY <1>2, HalfIntAssumption DEF ToInt

\* The size a sound call asks for, and the bytes a chunk needs to be split for it.
LEMMA SoundSizes ==
  ASSUME SoundCalls, NEW n \in Sizes
  PROVE  /\ n \in Nat /\ n > 0
         /\ ToInt(n) = n /\ MinSplit(n) = n + META + 1
<1>1. n \in Nat /\ n > 0 /\ n + META + 1 \in Nat /\ n + META + 1 < HalfInt /\ n < HalfInt
  BY HalfIntAssumption DEF SoundCalls, META
<1> QED BY <1>1, ToIntFits DEF MinSplit

\* A chunk lies in the array with room for its header.
LEMMA Chunk ==
  ASSUME TypeOK, Tiling, IsInitialized, NEW h \in heads
  PROVE  /\ h \in Addr /\ h \in Nat /\ occ[h] \in {0, 1}
         /\ size[h] \in Nat /\ size[h] > 0
         /\ End(h) = h + META + size[h] /\ End(h) <= MEM
         /\ Inside(h) /\ h + META < MEM
  BY MEMAssumption DEF TypeOK, Tiling, End, Inside, Addr, META

\* The first mymalloc makes the array one chunk.
LEMMA MallocCallLayout ==
  ASSUME SoundCalls, Layout, NEW n \in Sizes, MallocCall(n)
  PROVE  Layout'
<1> USE DEF Layout
<1>0. /\ n \in Nat /\ n > 0 /\ MEM \in Nat /\ MEM > META /\ 0 \in Addr
      /\ pc \in {"idle", "cleared"} /\ pc' = "find" /\ arg' = n /\ cur' = 0
      /\ occ' = occ /\ next' = next /\ live' = live
  BY SoundSizes, MEMAssumption DEF MallocCall, Addr, META
<1>1. CASE IsInitialized
  <2>1. size' = size /\ heads' = heads
    BY <1>1 DEF MallocCall
  <2>2. TypeOK'
    BY <1>0, <2>1 DEF TypeOK
  <2>3. Tiling' /\ BlocksAreChunks'
    BY <1>0, <2>1 DEF Tiling, BlocksAreChunks, IsInitialized, End
  <2>4. Zeroed' /\ StaysInArray'
    BY <1>0, <1>1, <2>1 DEF Zeroed, StaysInArray, IsInitialized
  <2>5. Position'
    BY <1>0, <1>1, <2>1 DEF Position, Tiling, IsInitialized
  <2> QED BY <2>2, <2>3, <2>4, <2>5
<1>2. CASE ~IsInitialized
  <2>1. size' = [size EXCEPT ![0] = MEM - META] /\ heads' = {0}
    BY <1>2 DEF MallocCall
  <2>2. /\ size'[0] = MEM - META /\ occ[0] = 0 /\ live = {}
        /\ size' \in [Addr -> 0..MEM]
    BY <2>1, <1>0, <1>2 DEF TypeOK, Zeroed, META
  <2>3. IsInitialized'
    BY <2>2, <1>0 DEF IsInitialized, META
  <2>4. TypeOK'
    BY <1>0, <2>1, <2>2 DEF TypeOK, Addr
  <2>5. Tiling'
    BY <1>0, <2>1, <2>2 DEF Tiling, End, META
  <2>6. BlocksAreChunks'
    BY <1>0, <2>1, <2>2 DEF BlocksAreChunks
  <2> QED BY <1>0, <2>1, <2>3, <2>4, <2>5, <2>6 DEF Zeroed, Position, StaysInArray
<1> QED BY <1>1, <1>2

\* Steps that leave the headers and the blocks alone only move in the array.
LEMMA SameLayout ==
  ASSUME Layout, UNCHANGED <<headers, live>>, TypeOK', Zeroed', Position', StaysInArray'
  PROVE  Layout'
  BY DEF Layout, headers, Tiling, BlocksAreChunks, IsInitialized, End
LEMMA ReturnLayout ==
  ASSUME Layout, UNCHANGED <<headers, live>>, Return
  PROVE  Layout'
<1>1. TypeOK' /\ Zeroed' /\ Position' /\ StaysInArray'
  BY MEMAssumption
     DEF Layout, headers, Return, TypeOK, Zeroed, Position, StaysInArray, IsInitialized
<1> QED BY <1>1, SameLayout

LEMMA TakeWholeLayout ==
  ASSUME SoundCalls, Layout, TakeWhole
  PROVE  Layout'
<1> USE DEF Layout
<1>1. /\ pc = "find" /\ IsInitialized /\ cur \in heads /\ cur \in Addr
      /\ arg \in Nat /\ arg > 0 /\ size[cur] = arg /\ occ[cur] = 0
  BY MEMAssumption, Chunk, SoundSizes
     DEF TakeWhole, Finding, Fits, Position, Zeroed, META
<1>2. /\ occ' = [occ EXCEPT ![cur] = 1] /\ live' = live \cup {<<cur + META, arg>>}
      /\ pc' = "idle" /\ arg' = 0 /\ cur' = 0 /\ next' = 0
      /\ size' = size /\ heads' = heads
  BY DEF TakeWhole, Return
<1>3. occ' \in [Addr -> {0, 1}] /\ live' \subseteq Nat \X Nat
  BY <1>1, <1>2 DEF TypeOK, Addr, META
<1>4. TypeOK'
  BY <1>2, <1>3, MEMAssumption DEF TypeOK
<1>5. IsInitialized' /\ Tiling'
  BY <1>1, <1>2 DEF Tiling, IsInitialized, End
<1>6. BlocksAreChunks'
  <2>1. ASSUME NEW b \in live'
        PROVE  /\ b[1] - META \in heads' /\ occ'[b[1] - META] = 1
               /\ size'[b[1] - META] = b[2]
    <3>1. CASE b \in live
      <4>1. /\ b[1] - META \in heads /\ occ[b[1] - META] = 1
            /\ size[b[1] - META] = b[2]
        BY <3>1 DEF BlocksAreChunks
      <4>2. b[1] - META \in Addr
        BY <4>1 DEF TypeOK
      <4>3. b[1] - META # cur
        BY <4>1, <1>1
      <4> QED BY <4>1, <4>2, <4>3, <1>2 DEF TypeOK
    <3>2. CASE b = <<cur + META, arg>>
      <4>1. b[1] - META = cur /\ b[2] = arg
        BY <3>2, <1>1 DEF Addr, META
      <4> QED BY <4>1, <1>1, <1>2 DEF TypeOK
    <3> QED BY <2>1, <3>1, <3>2, <1>2
  <2>2. ASSUME NEW h \in heads', occ'[h] = 1
        PROVE  <<h + META, size'[h]>> \in live'
    <3>1. CASE h = cur
      BY <3>1, <1>1, <1>2
    <3>2. CASE h # cur
      BY <3>2, <2>2, <1>1, <1>2 DEF BlocksAreChunks, TypeOK
    <3> QED BY <3>1, <3>2
  <2> QED BY <2>1, <2>2 DEF BlocksAreChunks
<1> QED BY <1>2, <1>4, <1>5, <1>6 DEF Zeroed, Position, StaysInArray
\* What Split does to the chunks: `new' is the free chunk it makes.
SplitAt(new) ==
  /\ IsInitialized /\ cur \in heads /\ cur \in Addr /\ cur \in Nat
  /\ occ[cur] = 0 /\ size[cur] \in Nat /\ arg \in Nat /\ arg > 0
  /\ End(cur) = cur + META + size[cur] /\ End(cur) <= MEM /\ MEM \in Nat
  /\ new = cur + META + arg
  /\ new \in Addr /\ new \in Nat /\ new \notin heads /\ new # cur
  /\ cur < new /\ new + META < End(cur)
  /\ heads' = heads \cup {new} /\ live' = live \cup {<<cur + META, arg>>}
  /\ pc = "find" /\ pc' = "idle" /\ arg' = 0 /\ cur' = 0 /\ next' = 0
  /\ occ' \in [Addr -> {0, 1}] /\ size' \in [Addr -> 0..MEM]
  /\ occ'[cur] = 1 /\ occ'[new] = 0 /\ size'[cur] = arg
  /\ size'[new] = size[cur] - arg - META
  /\ \A a \in Addr : a # cur /\ a # new => occ'[a] = occ[a] /\ size'[a] = size[a]

LEMMA SplitFacts ==
  ASSUME SoundCalls, Layout, Split
  PROVE  SplitAt(cur + META + arg)
<1> USE DEF Layout
<1> DEFINE new == cur + META + arg
<1>1. /\ pc = "find" /\ IsInitialized /\ cur \in heads
      /\ arg \in Nat /\ arg > 0 /\ ToInt(arg) = arg /\ MinSplit(arg) = arg + META + 1
      /\ occ[cur] = 0 /\ size[cur] >= arg + META + 1
  BY MEMAssumption, SoundSizes
     DEF Split, Finding, Splits, Position, Zeroed, META
<1>2. /\ cur \in Addr /\ cur \in Nat /\ size[cur] \in Nat /\ MEM \in Nat
      /\ End(cur) = cur + META + size[cur] /\ End(cur) <= MEM
  BY <1>1, Chunk, MEMAssumption
<1>3. /\ new \in Addr /\ new \in Nat /\ new # cur /\ Inside(new)
      /\ cur < new /\ new + META < End(cur)
  BY <1>1, <1>2 DEF Addr, Inside, META
<1>4. new \notin heads
  BY <1>1, <1>2, <1>3 DEF Tiling, META
<1>5. Rest(arg) = size[cur] - arg - META /\ Rest(arg) \in 1..MEM
  <2>1. /\ size[cur] - arg - META \in Nat /\ size[cur] - arg - META < HalfInt
        /\ size[cur] - arg - META \in 1..MEM
    BY <1>1, <1>2, HalfIntAssumption DEF META
  <2> QED BY <2>1, ToIntFits DEF Rest
<1>6. /\ occ' = [occ EXCEPT ![new] = 0, ![cur] = 1]
      /\ size' = [size EXCEPT ![new] = Rest(arg), ![cur] = arg]
      /\ heads' = heads \cup {new}
      /\ live' = live \cup {<<cur + META, arg>>}
      /\ pc' = "idle" /\ arg' = 0 /\ cur' = 0 /\ next' = 0
  BY <1>1, <1>3 DEF Split, Return
<1>7. /\ occ' \in [Addr -> {0, 1}] /\ size' \in [Addr -> 0..MEM]
      /\ occ'[cur] = 1 /\ occ'[new] = 0 /\ size'[cur] = arg
      /\ size'[new] = size[cur] - arg - META
      /\ \A a \in Addr : a # cur /\ a # new => occ'[a] = occ[a] /\ size'[a] = size[a]
  <2>1. arg \in 0..MEM
    BY <1>1, <1>2 DEF META
  <2> QED BY <2>1, <1>2, <1>3, <1>5, <1>6 DEF TypeOK
<1> QED BY <1>1, <1>2, <1>3, <1>4, <1>6, <1>7 DEF SplitAt

LEMMA SplitLayout ==
  ASSUME SoundCalls, Layout, Split
  PROVE  Layout'
<1> USE DEF Layout
<1>1. PICK new : SplitAt(new)
  BY SplitFacts
<1>2. TypeOK'
  <2>1. live' \subseteq Nat \X Nat
    BY <1>1 DEF SplitAt, TypeOK, META
  <2>2. heads' \subseteq Addr
    BY <1>1 DEF SplitAt, TypeOK
  <2>3. /\ occ' \in [Addr -> {0, 1}] /\ size' \in [Addr -> 0..MEM]
        /\ pc' = "idle" /\ arg' = 0 /\ cur' = 0 /\ next' = 0
    BY <1>1 DEF SplitAt
  <2> QED BY <2>1, <2>2, <2>3, MEMAssumption DEF TypeOK
<1>3. IsInitialized'
  <2>1. 0 \in Addr /\ 0 # new
    BY <1>1, MEMAssumption DEF SplitAt, Addr, META
  <2>2. CASE cur = 0
    BY <2>2, <1>1 DEF SplitAt, IsInitialized
  <2>3. CASE cur # 0
    BY <2>1, <2>3, <1>1 DEF SplitAt, IsInitialized
  <2> QED BY <2>2, <2>3
<1>4. Tiling'
  <2>1. 0 \in heads'
    BY <1>1 DEF SplitAt, Tiling
  <2>2. ASSUME NEW h \in heads'
        PROVE  /\ size'[h] > 0 /\ End(h)' \in heads' \cup {MEM} /\ End(h)' <= MEM
               /\ \A k \in heads' : k <= h \/ End(h)' <= k
    <3>1. CASE h = cur
      <4>1. End(h)' = new
        BY <3>1, <1>1 DEF SplitAt, End
      <4>2. ASSUME NEW k \in heads' PROVE k <= h \/ new <= k
        <5>1. CASE k = new
          BY <5>1, <1>1 DEF SplitAt
        <5>2. CASE k \in heads
          <6>1. k \in Nat
            BY <5>2 DEF TypeOK, Addr
          <6>2. k <= cur \/ End(cur) <= k
            BY <5>2, <1>1 DEF SplitAt, Tiling
          <6> QED BY <6>1, <6>2, <3>1, <1>1 DEF SplitAt, META
        <5> QED BY <5>1, <5>2, <1>1 DEF SplitAt
      <4>3. size'[h] > 0 /\ new \in heads' /\ new <= MEM
        BY <3>1, <1>1 DEF SplitAt, META
      <4> QED BY <4>1, <4>2, <4>3
    <3>2. CASE h = new
      <4>1. End(h)' = End(cur)
        BY <3>2, <1>1 DEF SplitAt, End, META
      <4>2. ASSUME NEW k \in heads' PROVE k <= h \/ End(cur) <= k
        <5>1. CASE k = new
          BY <5>1, <3>2, <1>1 DEF SplitAt
        <5>2. CASE k \in heads
          <6>1. k \in Nat
            BY <5>2 DEF TypeOK, Addr
          <6>2. k <= cur \/ End(cur) <= k
            BY <5>2, <1>1 DEF SplitAt, Tiling
          <6> QED BY <6>1, <6>2, <3>2, <1>1 DEF SplitAt, META
        <5> QED BY <5>1, <5>2, <1>1 DEF SplitAt
      <4>3. End(cur) \in heads' \cup {MEM}
        BY <1>1 DEF SplitAt, Tiling
      <4>4. size'[h] > 0
        BY <3>2, <1>1 DEF SplitAt, META
      <4> QED BY <4>1, <4>2, <4>3, <4>4, <1>1 DEF SplitAt
    <3>3. CASE h \in heads /\ h # cur /\ h # new
      <4>1. /\ h \in Addr /\ h \in Nat /\ size'[h] = size[h] /\ End(h)' = End(h)
            /\ End(h) \in Nat
        BY <3>3, <1>1, Chunk DEF SplitAt, End, META
      <4>2. /\ size[h] > 0 /\ End(h) \in heads \cup {MEM} /\ End(h) <= MEM
            /\ \A k \in heads : k <= h \/ End(h) <= k
        BY <3>3, <1>1 DEF SplitAt, Tiling
      <4>3. new <= h \/ End(h) <= new
        <5>1. (cur <= h \/ End(h) <= cur) /\ (h <= cur \/ End(cur) <= h)
          BY <3>3, <1>1 DEF SplitAt, Tiling
        <5> QED BY <5>1, <3>3, <4>1, <1>1 DEF SplitAt, META
      <4> QED BY <4>1, <4>2, <4>3, <1>1 DEF SplitAt
    <3> QED BY <2>2, <3>1, <3>2, <3>3, <1>1 DEF SplitAt
  <2> QED BY <2>1, <2>2 DEF Tiling
<1>5. BlocksAreChunks'
  <2>1. ASSUME NEW b \in live'
        PROVE  /\ b[1] - META \in heads' /\ occ'[b[1] - META] = 1
               /\ size'[b[1] - META] = b[2]
    <3>1. CASE b \in live
      <4>1. /\ b[1] - META \in heads /\ occ[b[1] - META] = 1
            /\ size[b[1] - META] = b[2]
        BY <3>1 DEF BlocksAreChunks
      <4>2. b[1] - META \in Addr
        BY <4>1 DEF TypeOK
      <4>3. b[1] - META # cur
        BY <4>1, <1>1 DEF SplitAt
      <4>4. b[1] - META # new
        BY <4>1, <1>1 DEF SplitAt
      <4> QED BY <4>1, <4>2, <4>3, <4>4, <1>1 DEF SplitAt
    <3>2. CASE b = <<cur + META, arg>>
      <4>1. b[1] - META = cur /\ b[2] = arg
        BY <3>2, <1>1 DEF SplitAt, META
      <4> QED BY <4>1, <1>1 DEF SplitAt
    <3> QED BY <2>1, <3>1, <3>2, <1>1 DEF SplitAt
  <2>2. ASSUME NEW h \in heads', occ'[h] = 1
        PROVE  <<h + META, size'[h]>> \in live'
    <3>1. CASE h = cur
      BY <3>1, <1>1 DEF SplitAt
    <3>2. CASE h # cur
      <4>1. h # new
        BY <2>2, <1>1 DEF SplitAt
      <4>2. h \in heads /\ h \in Addr
        BY <4>1, <1>1 DEF SplitAt, TypeOK
      <4> QED BY <3>2, <2>2, <4>1, <4>2, <1>1 DEF SplitAt, BlocksAreChunks
    <3> QED BY <3>1, <3>2
  <2> QED BY <2>1, <2>2 DEF BlocksAreChunks
<1>6. Zeroed' /\ Position' /\ StaysInArray'
  BY <1>1, <1>3 DEF SplitAt, Zeroed, Position, StaysInArray
<1> QED BY <1>2, <1>4, <1>5, <1>6

LEMMA FindNextLayout ==
  ASSUME SoundCalls, Layout, FindNext
  PROVE  Layout'
<1> USE DEF Layout
<1>1. /\ pc = "find" /\ IsInitialized /\ cur \in heads
      /\ End(cur) \in heads \cup {MEM} /\ End(cur) \in 0..MEM
  <2>1. pc = "find" /\ IsInitialized /\ cur \in heads
    BY MEMAssumption DEF FindNext, Finding, Position, Zeroed, META
  <2>2. End(cur) \in heads \cup {MEM}
    BY <2>1 DEF Tiling
  <2> QED BY <2>1, <2>2, Chunk, MEMAssumption DEF META
<1>2. /\ cur' = End(cur) /\ UNCHANGED <<headers, live, pc, arg, next>>
      /\ UNCHANGED <<occ, size, heads>>
  BY DEF FindNext, headers
<1>3. TypeOK' /\ Zeroed' /\ Position' /\ StaysInArray'
  BY <1>1, <1>2 DEF TypeOK, Zeroed, Position, StaysInArray, IsInitialized
<1> QED BY <1>2, <1>3, SameLayout

LEMMA FreeCallLayout ==
  ASSUME SoundCalls, Layout, NEW p \in Pointers, FreeCall(p)
  PROVE  Layout'
<1> USE DEF Layout
<1>1. /\ pc' = "walk" /\ arg' = p /\ cur' = 0 /\ pc = "idle"
      /\ UNCHANGED <<headers, live, next>> /\ UNCHANGED <<occ, size, heads>>
  BY DEF FreeCall, headers
<1>2. TypeOK' /\ Zeroed' /\ StaysInArray'
  BY <1>1, MEMAssumption DEF TypeOK, Zeroed, StaysInArray, IsInitialized
<1>3. Position'
  BY <1>1 DEF Position, Tiling, IsInitialized
<1> QED BY <1>1, <1>2, <1>3, SameLayout

LEMMA WalkNextLayout ==
  ASSUME SoundCalls, Layout, WalkNext
  PROVE  Layout'
<1> USE DEF Layout
<1>1. /\ pc = "walk" /\ cur <= arg /\ Inside(cur) /\ cur \in Addr /\ arg \in Addr
      /\ cur' = End(cur) /\ UNCHANGED <<headers, live, pc, arg, next>>
      /\ UNCHANGED <<occ, size, heads>>
  BY MEMAssumption
     DEF WalkNext, Walking, headers, Position, SoundCalls, TypeOK, Addr, Inside, META
<1>2. End(cur) \in 0..MEM /\ (IsInitialized => End(cur) \in heads \cup {MEM})
  <2>1. CASE IsInitialized
    <3>1. cur \in heads
      BY <2>1, <1>1, MEMAssumption DEF Position, Addr
    <3>2. End(cur) \in heads \cup {MEM}
      BY <2>1, <3>1 DEF Tiling
    <3> QED BY <2>1, <3>1, <3>2, Chunk, MEMAssumption DEF META
  <2>2. CASE ~IsInitialized
    BY <2>2, <1>1, MEMAssumption DEF Zeroed, End, Inside, Addr, META
  <2> QED BY <2>1, <2>2
<1>3. TypeOK' /\ Zeroed' /\ Position' /\ StaysInArray'
  BY <1>1, <1>2 DEF TypeOK, Zeroed, Position, StaysInArray, IsInitialized
<1> QED BY <1>1, <1>3, SameLayout

\* The walk leaves the array only before the first mymalloc.
LEMMA WalkOutLayout ==
  ASSUME SoundCalls, Layout, WalkOut
  PROVE  Layout' /\ ~IsInitialized
<1> USE DEF Layout
<1>1. /\ pc = "walk" /\ cur <= arg /\ ~Inside(cur) /\ arg \in Addr /\ pc' = "wild"
      /\ UNCHANGED <<headers, live, arg, cur, next>> /\ UNCHANGED <<occ, size, heads>>
  BY DEF WalkOut, Walking, headers, Position, SoundCalls
<1>2. ~IsInitialized
  <2>1. SUFFICES ASSUME IsInitialized PROVE FALSE
    OBVIOUS
  <2>2. CASE cur \in heads
    BY <2>1, <2>2, <1>1, Chunk
  <2>3. CASE cur = MEM
    BY <2>3, <1>1, MEMAssumption DEF Addr
  <2> QED BY <2>1, <2>2, <2>3, <1>1 DEF Position
<1>3. TypeOK' /\ Zeroed' /\ Position' /\ StaysInArray'
  BY <1>1, <1>2 DEF TypeOK, Zeroed, Position, StaysInArray, IsInitialized
<1> QED BY <1>1, <1>2, <1>3, SameLayout

LEMMA FreeChunkLayout ==
  ASSUME SoundCalls, Layout, FreeChunk
  PROVE  Layout' /\ IsInitialized /\ cur \in heads /\ occ[cur] = 1
<1> USE DEF Layout
<1>1. /\ pc = "walk" /\ cur + META = arg /\ Inside(cur) /\ occ[cur] # 0
      /\ cur \in Addr /\ cur \in Nat
  BY MEMAssumption DEF FreeChunk, Walking, IsBlock, TypeOK, Addr, Inside, META
<1>2. IsInitialized /\ occ[cur] = 1 /\ cur \in heads
  BY <1>1, MEMAssumption DEF Zeroed, TypeOK, Position, Addr
<1>3. /\ occ' = [occ EXCEPT ![cur] = 0] /\ live' = {b \in live : b[1] # arg}
      /\ pc' = "coal" /\ arg' = 0 /\ cur' = 0 /\ next' = End(0)
      /\ size' = size /\ heads' = heads
  BY DEF FreeChunk
<1>4. 0 \in heads /\ End(0)' = End(0) /\ End(0) \in Nat
  <2>1. 0 \in heads
    BY <1>2 DEF Tiling
  <2> QED BY <2>1, <1>2, <1>3, Chunk DEF End, META
<1>5. TypeOK'
  BY <1>1, <1>3, <1>4, MEMAssumption DEF TypeOK
<1>6. IsInitialized' /\ Tiling'
  BY <1>2, <1>3 DEF Tiling, IsInitialized, End
<1>7. BlocksAreChunks'
  <2>1. ASSUME NEW b \in live'
        PROVE  /\ b[1] - META \in heads' /\ occ'[b[1] - META] = 1
               /\ size'[b[1] - META] = b[2]
    <3>1. b \in live /\ b[1] # arg /\ b[1] \in Nat
      BY <1>3 DEF TypeOK
    <3>2. /\ b[1] - META \in heads /\ occ[b[1] - META] = 1
          /\ size[b[1] - META] = b[2]
      BY <3>1 DEF BlocksAreChunks
    <3>3. b[1] - META \in Addr
      BY <3>2 DEF TypeOK
    <3>4. b[1] - META # cur
      BY <3>1, <1>1 DEF META
    <3> QED BY <3>2, <3>3, <3>4, <1>3 DEF TypeOK
  <2>2. ASSUME NEW h \in heads', occ'[h] = 1
        PROVE  <<h + META, size'[h]>> \in live'
    <3>1. h \in heads /\ h \in Addr /\ h # cur /\ occ[h] = 1
      BY <2>2, <1>1, <1>3 DEF TypeOK
    <3>2. <<h + META, size[h]>> \in live /\ h + META # arg
      BY <3>1, <1>1 DEF BlocksAreChunks, Addr, META
    <3> QED BY <3>2, <1>3
  <2> QED BY <2>1, <2>2 DEF BlocksAreChunks
<1>8. Zeroed' /\ Position' /\ StaysInArray'
  BY <1>3, <1>4, <1>6 DEF Zeroed, Position, StaysInArray
<1> QED BY <1>2, <1>5, <1>6, <1>7, <1>8
\* Where coal is.  If there is a next chunk it begins where the current one ends.
LEMMA CoalPosition ==
  ASSUME Layout, pc = "coal"
  PROVE  /\ IsInitialized /\ cur \in heads /\ next = End(cur)
         /\ CoalBound(next) => next \in heads
         /\ ~CoalBound(next) => next = MEM
<1> USE DEF Layout
<1>1. IsInitialized /\ cur \in heads /\ next = End(cur)
  BY DEF Zeroed, Position
<1>2. next \in heads \cup {MEM}
  BY <1>1 DEF Tiling
<1>3. next = MEM => ~CoalBound(next)
  BY MEMAssumption DEF CoalBound, META
<1>4. next \in heads => CoalBound(next)
  BY <1>1, Chunk DEF CoalBound, Inside
<1> QED BY <1>1, <1>2, <1>3, <1>4

LEMMA CoalNextLayout ==
  ASSUME Layout, CoalNext
  PROVE  Layout' /\ ~BothFree /\ next \in heads
<1> USE DEF Layout
<1>1. /\ pc = "coal" /\ ~BothFree /\ cur' = next /\ next' = End(next)
      /\ UNCHANGED <<headers, live, pc, arg>> /\ UNCHANGED <<occ, size, heads>>
      /\ IsInitialized /\ next \in heads
  BY CoalPosition DEF CoalNext, headers
<1>2. cur' \in 0..MEM /\ next' \in Nat
  BY <1>1, Chunk, MEMAssumption DEF Addr, META
<1>3. TypeOK' /\ Zeroed' /\ StaysInArray'
  BY <1>1, <1>2 DEF TypeOK, Zeroed, StaysInArray, IsInitialized
<1>4. Position'
  BY <1>1 DEF Position, End
<1> QED BY <1>1, <1>3, <1>4, SameLayout

\* What Merge does to the chunks.
LEMMA MergeFacts ==
  ASSUME Layout, Merge
  PROVE  /\ IsInitialized /\ cur \in heads /\ next \in heads
         /\ next = End(cur) /\ cur < next /\ End(next) <= MEM
         /\ occ[cur] = 0 /\ occ[next] = 0 /\ heads' = heads \ {next}
         /\ size' \in [Addr -> 0..MEM] /\ size'[cur] > 0 /\ End(cur)' = End(next)
         /\ UNCHANGED <<occ, pc, arg, cur, live>>
         /\ \A h \in heads : h # cur /\ h # next => size'[h] = size[h] /\ End(h)' = End(h)
         /\ \A h \in heads : h # cur => End(h) # next
<1> USE DEF Layout
<1>1. /\ IsInitialized /\ cur \in heads /\ next \in heads /\ next = End(cur)
      /\ occ[cur] = 0 /\ occ[next] = 0 /\ heads' = heads \ {next}
      /\ size' = [size EXCEPT ![cur] = @ + META + size[next], ![next] = 0]
      /\ UNCHANGED <<occ, pc, arg, cur, live>>
  BY CoalPosition DEF Merge, BothFree
<1>2. /\ cur \in Addr /\ next \in Addr /\ cur \in Nat /\ next \in Nat
      /\ size[cur] \in Nat /\ size[next] \in Nat /\ size[cur] > 0 /\ size[next] > 0
      /\ next = cur + META + size[cur] /\ End(next) = next + META + size[next]
      /\ End(next) <= MEM
  BY <1>1, Chunk
<1>3. cur < next /\ cur # next
  BY <1>2 DEF META
<1>4. size'[cur] = size[cur] + META + size[next]
  BY <1>1, <1>2, <1>3 DEF TypeOK
<1>5. size'[cur] \in 0..MEM /\ size'[cur] > 0 /\ End(cur)' = End(next)
  BY <1>1, <1>2, <1>4, MEMAssumption DEF End, META
<1>6. size' \in [Addr -> 0..MEM]
  <2>1. size[cur] + META + size[next] \in 0..MEM /\ 0 \in 0..MEM
    BY <1>4, <1>5, MEMAssumption
  <2> QED BY <1>1, <1>2, <2>1 DEF TypeOK
<1>7. ASSUME NEW h \in heads, h # cur, h # next
      PROVE  size'[h] = size[h] /\ End(h)' = End(h)
  <2>1. h \in Addr /\ size'[h] = size[h]
    BY <1>1, <1>7 DEF TypeOK
  <2> QED BY <2>1 DEF End
<1>8. ASSUME NEW h \in heads, h # cur PROVE End(h) # next
  <2>1. h \in Nat /\ End(h) \in Nat
    BY <1>1, Chunk DEF META
  <2>2. (cur <= h \/ End(h) <= cur) /\ (h <= cur \/ next <= h)
    BY <1>1 DEF Tiling
  <2>3. h < End(h)
    BY <1>1, Chunk DEF META
  <2> QED BY <1>8, <2>1, <2>2, <2>3, <1>2, <1>3
<1> QED BY <1>1, <1>2, <1>3, <1>5, <1>6, <1>7, <1>8

LEMMA MergeLayout ==
  ASSUME Layout, Merge
  PROVE  Layout'
<1> USE DEF Layout
<1>1. /\ cur \in Addr /\ next \in Addr /\ cur \in Nat /\ next \in Nat /\ End(next) \in Nat
      /\ next < End(next)
  BY MergeFacts, Chunk DEF META
<1>2. next' = End(next) /\ pc = "coal" /\ cur' = cur
  <2>1. next' = cur + META + size'[cur] /\ pc = "coal" /\ cur' = cur
    BY DEF Merge
  <2>2. End(cur)' = cur + META + size'[cur]
    BY <2>1 DEF End
  <2> QED BY <2>1, <2>2, MergeFacts
<1>3. TypeOK'
  <2>1. /\ occ' = occ /\ live' = live /\ pc' = pc /\ arg' = arg /\ cur' = cur
        /\ heads' \subseteq heads /\ size' \in [Addr -> 0..MEM]
    BY MergeFacts
  <2> QED BY <2>1, <1>1, <1>2 DEF TypeOK
<1>4. IsInitialized'
  <2>1. 0 \in heads /\ 0 # next
    BY MergeFacts, <1>1 DEF Tiling
  <2>2. CASE cur = 0
    BY <2>2, MergeFacts DEF IsInitialized
  <2>3. CASE cur # 0
    BY <2>1, <2>3, MergeFacts DEF IsInitialized
  <2> QED BY <2>2, <2>3
<1>5. Tiling'
  <2>1. 0 \in heads'
    BY MergeFacts, <1>1 DEF Tiling
  <2>2. ASSUME NEW h \in heads'
        PROVE  /\ size'[h] > 0 /\ End(h)' \in heads' \cup {MEM} /\ End(h)' <= MEM
               /\ \A k \in heads' : k <= h \/ End(h)' <= k
    <3>1. CASE h = cur
      <4>1. End(next) \in heads' \cup {MEM}
        BY MergeFacts, <1>1 DEF Tiling
      <4>2. ASSUME NEW k \in heads' PROVE k <= cur \/ End(next) <= k
        <5>1. k \in heads /\ k # next /\ k \in Nat
          <6>1. heads' = heads \ {next}
            BY MergeFacts
          <6> QED BY <6>1 DEF TypeOK, Addr
        <5>2. (k <= cur \/ End(cur) <= k) /\ (k <= next \/ End(next) <= k)
          BY <5>1, MergeFacts DEF Tiling
        <5> QED BY <5>1, <5>2, <1>1, MergeFacts
      <4> QED BY <3>1, <4>1, <4>2, MergeFacts
    <3>2. CASE h # cur
      <4>1. h \in heads /\ h # next /\ size'[h] = size[h] /\ End(h)' = End(h) /\ End(h) # next
        BY <3>2, MergeFacts
      <4>2. /\ size[h] > 0 /\ End(h) \in heads \cup {MEM} /\ End(h) <= MEM
            /\ \A k \in heads : k <= h \/ End(h) <= k
        BY <4>1, MergeFacts DEF Tiling
      <4> QED BY <4>1, <4>2, MergeFacts
    <3> QED BY <3>1, <3>2
  <2> QED BY <2>1, <2>2 DEF Tiling
<1>6. BlocksAreChunks'
  <2>1. ASSUME NEW b \in live'
        PROVE  /\ b[1] - META \in heads' /\ occ'[b[1] - META] = 1
               /\ size'[b[1] - META] = b[2]
    <3>1. /\ b[1] - META \in heads /\ occ[b[1] - META] = 1
          /\ size[b[1] - META] = b[2]
      BY MergeFacts DEF BlocksAreChunks
    <3>2. b[1] - META # cur
      BY <3>1, MergeFacts
    <3>3. b[1] - META # next
      BY <3>1, MergeFacts
    <3> QED BY <3>1, <3>2, <3>3, MergeFacts
  <2>2. ASSUME NEW h \in heads', occ'[h] = 1
        PROVE  <<h + META, size'[h]>> \in live'
    BY <2>2, MergeFacts DEF BlocksAreChunks
  <2> QED BY <2>1, <2>2 DEF BlocksAreChunks
<1>7. Zeroed' /\ Position' /\ StaysInArray'
  <2>1. cur' \in heads' /\ next' = End(cur)' /\ cur' = cur /\ pc' = "coal"
    BY MergeFacts, <1>1, <1>2
  <2>2. End(cur') = End(cur)
    BY <2>1
  <2> QED BY <1>4, <2>1 DEF Zeroed, Position, StaysInArray, End
<1> QED BY <1>3, <1>4, <1>5, <1>6, <1>7
\* clearMemory takes the headers and the blocks away at once.
LEMMA ClearMemoryLayout ==
  ASSUME SoundCalls, Layout, ClearMemory
  PROVE  Layout'
<1> USE DEF Layout
<1>1. /\ occ' = [a \in Addr |-> 0] /\ size' = [a \in Addr |-> 0] /\ pc' = "cleared"
      /\ arg' = arg /\ cur' = cur /\ next' = next /\ heads' = {} /\ live' = {}
      /\ MEM \in Nat /\ 0 \in Addr /\ 0 \in 0..MEM
  BY MEMAssumption DEF ClearMemory, Addr, META
<1>2. TypeOK'
  BY <1>1 DEF TypeOK
<1>3. ~IsInitialized'
  BY <1>1 DEF IsInitialized
<1>4. Zeroed'
  BY <1>1 DEF Zeroed
<1>5. Position' /\ Tiling' /\ BlocksAreChunks' /\ StaysInArray'
  BY <1>1, <1>3 DEF Position, Tiling, BlocksAreChunks, StaysInArray
<1> QED BY <1>2, <1>4, <1>5

LEMMA LayoutInit ==
  ASSUME Init
  PROVE  Layout
<1>1. /\ occ = [a \in Addr |-> 0] /\ size = [a \in Addr |-> 0] /\ pc = "idle"
      /\ arg = 0 /\ cur = 0 /\ next = 0 /\ heads = {} /\ live = {}
      /\ MEM \in Nat /\ 0 \in Addr /\ 0 \in 0..MEM
  BY MEMAssumption DEF Init, Addr, META
<1>2. TypeOK
  BY <1>1 DEF TypeOK
<1>3. ~IsInitialized
  BY <1>1 DEF IsInitialized
<1>4. Zeroed
  BY <1>1 DEF Zeroed
<1>5. Position /\ Tiling /\ BlocksAreChunks /\ StaysInArray
  BY <1>1, <1>3 DEF Position, Tiling, BlocksAreChunks, StaysInArray
<1> QED BY <1>2, <1>4, <1>5 DEF Layout

LEMMA LayoutStep ==
  ASSUME SoundCalls, Layout, [Next]_vars
  PROVE  Layout'
<1>1. ASSUME NEW n \in Sizes, MallocCall(n) PROVE Layout'
  BY <1>1, MallocCallLayout
<1>2. ASSUME NEW p \in Pointers, FreeCall(p) PROVE Layout'
  BY <1>2, FreeCallLayout
<1>3. CASE Malloc
  <2>1. CASE TakeWhole BY <2>1, TakeWholeLayout
  <2>2. CASE Split BY <2>2, SplitLayout
  <2>3. CASE FindNext BY <2>3, FindNextLayout
  <2>4. CASE NotEnough BY <2>4, ReturnLayout DEF NotEnough
  <2> QED BY <1>3, <2>1, <2>2, <2>3, <2>4 DEF Malloc
<1>4. CASE Free
  <2>1. CASE FreeChunk BY <2>1, FreeChunkLayout
  <2>2. CASE AlreadyFree BY <2>2, ReturnLayout DEF AlreadyFree
  <2>3. CASE WalkNext BY <2>3, WalkNextLayout
  <2>4. CASE WalkOut BY <2>4, WalkOutLayout
  <2>5. CASE NotAllocated BY <2>5, ReturnLayout DEF NotAllocated
  <2> QED BY <1>4, <2>1, <2>2, <2>3, <2>4, <2>5 DEF Free
<1>5. CASE Coal
  <2>1. CASE Merge BY <2>1, MergeLayout
  <2>2. CASE CoalNext BY <2>2, CoalNextLayout
  <2>3. CASE CoalDone BY <2>3, ReturnLayout DEF CoalDone
  <2> QED BY <1>5, <2>1, <2>2, <2>3 DEF Coal
<1>6. CASE UNCHANGED vars
  <2>1. /\ UNCHANGED <<headers, live>>
        /\ UNCHANGED <<occ, size, heads, live, pc, arg, cur, next>>
    BY <1>6 DEF vars, headers
  <2>2. TypeOK' /\ Zeroed' /\ Position' /\ StaysInArray'
    BY <2>1
       DEF Layout, TypeOK, Zeroed, Position, StaysInArray, IsInitialized, End
  <2> QED BY <2>1, <2>2, SameLayout
<1>7. CASE ClearMemory
  BY <1>7, ClearMemoryLayout
<1> QED BY <1>1, <1>2, <1>3, <1>4, <1>5, <1>6, <1>7 DEF Next, Call

LEMMA LayoutInvariant == SoundCalls => (Spec => []Layout)
<1>1. SUFFICES ASSUME SoundCalls PROVE Spec => []Layout
  OBVIOUS
<1>2. Init => Layout
  BY LayoutInit
<1>3. Layout /\ [Next]_vars => Layout'
  BY <1>1, LayoutStep
<1> QED BY <1>2, <1>3, PTL DEF Spec

-----------------------------------------------------------------------------
\* For every size of the memory the chunks tile it after every step: mymalloc and
\* myfree never lose a byte.
THEOREM ChunksTile == SoundCalls => (Spec => []Tiling)
<1>1. Layout => Tiling
  BY DEF Layout
<1> QED BY <1>1, LayoutInvariant, PTL

\* Every variable keeps its type: sizes stay within the memory, and cur in the array.
THEOREM TypeCorrect == SoundCalls => (Spec => []TypeOK)
<1>1. Layout => TypeOK
  BY DEF Layout
<1> QED BY <1>1, LayoutInvariant, PTL

\* No walk of mymalloc, myfree or coal reads a header outside the array once there are
\* headers in it.
THEOREM ArrayIsNotLeft == SoundCalls => (Spec => []StaysInArray)
<1>1. Layout => StaysInArray
  BY DEF Layout
<1> QED BY <1>1, LayoutInvariant, PTL

\* The blocks the callers hold are the occupied chunks, at their lengths.
THEOREM BlocksAreKept == SoundCalls => (Spec => []BlocksAreChunks)
<1>1. Layout => BlocksAreChunks
  BY DEF Layout
<1> QED BY <1>1, LayoutInvariant, PTL

LEMMA DisjointByLayout ==
  ASSUME Layout
  PROVE  BlocksDisjoint
<1> USE DEF Layout
<1>1. ASSUME NEW b \in live
      PROVE  /\ IsInitialized /\ b[1] - META \in heads /\ b[1] \in Nat /\ b[2] \in Nat
             /\ b = <<b[1], b[2]>> /\ size[b[1] - META] = b[2]
             /\ b[1] - META \in Nat /\ End(b[1] - META) = b[1] + b[2]
             /\ b[1] + b[2] <= MEM /\ META <= b[1]
  <2>1. /\ b[1] - META \in heads /\ size[b[1] - META] = b[2]
    BY DEF BlocksAreChunks
  <2>2. IsInitialized /\ b[1] \in Nat /\ b[2] \in Nat /\ b = <<b[1], b[2]>>
    BY DEF Zeroed, TypeOK
  <2>3. /\ b[1] - META \in Nat
        /\ End(b[1] - META) = b[1] - META + META + size[b[1] - META]
        /\ End(b[1] - META) <= MEM
    BY <2>1, <2>2, Chunk
  <2> QED BY <2>1, <2>2, <2>3 DEF META
<1>2. ASSUME NEW b \in live, NEW c \in live, b # c
      PROVE  b[1] + b[2] <= c[1] \/ c[1] + c[2] <= b[1]
  <2>1. b[1] - META # c[1] - META
    <3>1. SUFFICES ASSUME b[1] - META = c[1] - META PROVE FALSE
      OBVIOUS
    <3>2. b[1] = c[1] /\ b[2] = c[2]
      BY <3>1, <1>1 DEF META
    <3> QED BY <3>2, <1>1, <1>2
  <2>2. /\ b[1] - META <= c[1] - META \/ c[1] + c[2] <= b[1] - META
        /\ c[1] - META <= b[1] - META \/ b[1] + b[2] <= c[1] - META
    BY <1>1 DEF Tiling
  <2> QED BY <2>1, <2>2, <1>1 DEF META
<1> QED BY <1>1, <1>2 DEF BlocksDisjoint

\* Two blocks in use never share a byte and never reach out of the array.
THEOREM BlocksAreDisjoint == SoundCalls => (Spec => []BlocksDisjoint)
<1>1. Layout => BlocksDisjoint
  BY DisjointByLayout
<1> QED BY <1>1, LayoutInvariant, PTL
-----------------------------------------------------------------------------
\* Steps that leave the chunks alone keep them coalesced.
LEMMA SameCoalesced ==
  ASSUME Coalesced, UNCHANGED headers, pc \in {"idle", "find", "walk"}
  PROVE  Coalesced'
  BY DEF Coalesced, headers, End

LEMMA CallVisited ==
  ASSUME SoundCalls, Layout, Visited, Call
  PROVE  Visited'
<1> USE DEF Layout, Visited
<1>0. \A h \in heads : h \in Nat
  BY DEF TypeOK, Addr
<1>1. ASSUME NEW n \in Sizes, MallocCall(n) PROVE Visited'
  <2>1. pc \in {"idle", "cleared"} /\ pc' = "find" /\ cur' = 0 /\ occ' = occ
    BY <1>1 DEF MallocCall
  <2>2. CASE IsInitialized
    <3>1. UNCHANGED headers /\ heads' = heads /\ pc = "idle"
      BY <1>1, <2>1, <2>2 DEF MallocCall, headers, Position
    <3> QED BY <3>1, <2>1, <1>0, SameCoalesced DEF Searched, Walked, CoalescedBefore
  <2>3. CASE ~IsInitialized
    <3>1. heads' = {0} /\ size' = [size EXCEPT ![0] = MEM - META] /\ 0 \in Addr
      BY <1>1, <2>3, MEMAssumption DEF MallocCall, Addr, META
    <3>2. size'[0] = MEM - META
      BY <3>1 DEF TypeOK
    <3>3. Coalesced'
      BY <3>1, <3>2, MEMAssumption DEF Coalesced, End, META
    <3> QED BY <3>1, <3>3, <2>1 DEF Searched, Walked, CoalescedBefore
  <2> QED BY <2>2, <2>3
<1>2. ASSUME NEW p \in Pointers, FreeCall(p) PROVE Visited'
  <2>1. pc = "idle" /\ pc' = "walk" /\ cur' = 0 /\ UNCHANGED headers /\ heads' = heads
    BY <1>2 DEF FreeCall, headers
  <2> QED BY <2>1, <1>0, SameCoalesced DEF Searched, Walked, CoalescedBefore
<1>3. CASE ClearMemory
  BY <1>3 DEF ClearMemory, Searched, Walked, CoalescedBefore, Coalesced
<1> QED BY <1>1, <1>2, <1>3 DEF Call

LEMMA ReturnVisited ==
  ASSUME Visited, UNCHANGED headers, Return, pc \in {"find", "walk"}
  PROVE  Visited'
  BY SameCoalesced DEF Visited, Return, Searched, Walked, CoalescedBefore

LEMMA MallocVisited ==
  ASSUME SoundCalls, Layout, Visited, Malloc
  PROVE  Visited'
<1> USE DEF Layout, Visited
<1>1. CASE TakeWhole
  <2>1. /\ pc = "find" /\ pc' = "idle" /\ occ' = [occ EXCEPT ![cur] = 1]
        /\ size' = size /\ heads' = heads
    BY <1>1 DEF TakeWhole, Finding, Return
  <2>2. Coalesced'
    BY <2>1 DEF Coalesced, End, TypeOK
  <2> QED BY <2>1, <2>2 DEF Searched, Walked, CoalescedBefore
<1>2. CASE Split
  <2>1. PICK new : SplitAt(new)
    BY <1>2, SplitFacts
  <2>2. ASSUME NEW h \in heads', occ'[h] = 0, End(h)' \in heads'
        PROVE  occ'[End(h)'] = 1
    <3>1. CASE h = new
      <4>1. End(h)' = End(cur) /\ End(cur) # new
        BY <3>1, <2>1 DEF SplitAt, End, META
      <4>2. End(cur) \in heads /\ End(cur) \in Addr
        BY <4>1, <2>1, <2>2 DEF SplitAt, TypeOK
      <4>3. occ[End(cur)] = 1
        BY <4>2, <2>1 DEF SplitAt, Coalesced
      <4> QED BY <4>1, <4>2, <4>3, <2>1 DEF SplitAt
    <3>2. CASE h # new
      <4>1. h \in heads /\ h \in Addr /\ h # cur /\ occ[h] = 0 /\ size'[h] = size[h]
        BY <3>2, <2>1, <2>2 DEF SplitAt, TypeOK
      <4>2. End(h)' = End(h)
        BY <4>1 DEF End
      <4>3. End(h) \in heads
        <5>1. End(h) \in heads \cup {MEM}
          BY <4>1, <2>1 DEF SplitAt, Tiling
        <5>2. MEM \notin heads
          BY MEMAssumption DEF TypeOK, Addr
        <5>3. MEM # new
          BY <2>1, MEMAssumption DEF SplitAt, Addr
        <5> QED BY <5>1, <5>3, <4>2, <2>1, <2>2 DEF SplitAt
      <4>4. occ[End(h)] = 1
        BY <4>1, <4>3, <2>1 DEF SplitAt, Coalesced
      <4>5. End(h) \in Addr
        BY <4>3 DEF TypeOK
      <4>6. End(h) # cur /\ End(h) # new
        BY <4>3, <4>4, <2>1 DEF SplitAt
      <4> QED BY <4>2, <4>4, <4>5, <4>6, <2>1 DEF SplitAt
    <3> QED BY <3>1, <3>2
  <2>3. Coalesced'
    BY <2>2 DEF Coalesced
  <2> QED BY <2>1, <2>3 DEF SplitAt, Searched, Walked, CoalescedBefore
<1>3. CASE FindNext
  <2>1. /\ pc = "find" /\ pc' = "find" /\ cur' = End(cur) /\ arg' = arg
        /\ UNCHANGED headers /\ UNCHANGED <<occ, size, heads>> /\ ~Fits /\ ~Splits
        /\ IsInitialized /\ cur \in heads /\ arg \in Sizes
    BY <1>3, MEMAssumption DEF FindNext, Finding, headers, Position, Zeroed, META
  <2>2. occ[cur] = 0 => size[cur] # arg /\ size[cur] < arg + META + 1
    BY <2>1, SoundSizes, Chunk DEF Fits, Splits, META
  <2>3. ASSUME NEW h \in heads, h < End(cur) PROVE h < cur \/ h = cur
    <3>1. h \in Nat /\ cur \in Nat /\ End(cur) \in Nat
      BY <2>1, Chunk DEF TypeOK, Addr, META
    <3>2. h <= cur \/ End(cur) <= h
      BY <2>1 DEF Tiling
    <3> QED BY <3>1, <3>2, <2>3
  <2>4. Searched'
    BY <2>1, <2>2, <2>3 DEF Searched
  <2> QED BY <2>1, <2>4, SameCoalesced DEF Walked, CoalescedBefore
<1>4. CASE NotEnough
  BY <1>4, ReturnVisited DEF NotEnough
<1> QED BY <1>1, <1>2, <1>3, <1>4 DEF Malloc

LEMMA FreeVisited ==
  ASSUME SoundCalls, Layout, Visited, Free
  PROVE  Visited'
<1> USE DEF Layout, Visited
<1>1. CASE FreeChunk
  <2>1. pc' = "coal" /\ cur' = 0 /\ \A h \in heads' : h \in Nat
    BY <1>1 DEF FreeChunk, TypeOK, Addr
  <2> QED BY <2>1 DEF Searched, Walked, CoalescedBefore, Coalesced
<1>2. CASE AlreadyFree
  BY <1>2, ReturnVisited DEF AlreadyFree, Walking
<1>3. CASE WalkNext
  <2>1. /\ pc = "walk" /\ pc' = "walk" /\ cur' = End(cur) /\ arg' = arg
        /\ UNCHANGED headers /\ UNCHANGED <<occ, size, heads>>
        /\ cur + META # arg /\ cur \in Addr /\ cur # MEM
    BY <1>3, MEMAssumption
       DEF WalkNext, Walking, IsBlock, headers, TypeOK, Addr, Inside, META
  <2>2. ASSUME NEW h \in heads, h < End(cur) PROVE h < cur \/ h = cur
    <3>1. IsInitialized /\ cur \in heads
      BY <2>1 DEF Zeroed, Position
    <3>2. h \in Nat /\ cur \in Nat /\ End(cur) \in Nat
      BY <3>1, Chunk DEF TypeOK, Addr, META
    <3>3. h <= cur \/ End(cur) <= h
      BY <3>1 DEF Tiling
    <3> QED BY <3>2, <3>3, <2>2
  <2>3. Walked'
    BY <2>1, <2>2 DEF Walked
  <2> QED BY <2>1, <2>3, SameCoalesced DEF Searched, CoalescedBefore
<1>4. CASE WalkOut
  <2>1. pc' = "wild"
    BY <1>4 DEF WalkOut
  <2> QED BY <2>1 DEF Searched, Walked, CoalescedBefore, Coalesced
<1>5. CASE NotAllocated
  BY <1>5, ReturnVisited DEF NotAllocated
<1> QED BY <1>1, <1>2, <1>3, <1>4, <1>5 DEF Free

LEMMA CoalVisited ==
  ASSUME SoundCalls, Layout, Visited, Coal
  PROVE  Visited'
<1> USE DEF Layout, Visited
<1>1. CASE Merge
  <2>1. /\ pc = "coal" /\ pc' = "coal" /\ cur' = cur /\ occ' = occ
        /\ heads' = heads \ {next}
    BY <1>1, MergeFacts DEF Merge
  <2>2. ASSUME NEW h \in heads', h < cur, occ[h] = 0, End(h)' \in heads'
        PROVE  occ[End(h)'] = 1
    <3>1. h \in heads /\ h # next /\ h # cur
      BY <2>1, <2>2 DEF TypeOK, Addr
    <3>2. End(h)' = End(h) /\ End(h) \in heads
      BY <3>1, <2>1, <2>2, <1>1, MergeFacts
    <3> QED BY <3>1, <3>2, <2>1, <2>2 DEF CoalescedBefore
  <2> QED BY <2>1, <2>2 DEF Searched, Walked, CoalescedBefore, Coalesced
<1>2. CASE CoalNext
  <2>1. /\ pc = "coal" /\ pc' = "coal" /\ cur' = next /\ ~BothFree
        /\ UNCHANGED <<occ, size, heads>>
        /\ IsInitialized /\ cur \in heads /\ next \in heads /\ next = End(cur)
    BY <1>2, CoalPosition, CoalNextLayout DEF CoalNext, headers
  <2>2. ASSUME NEW h \in heads, h < next PROVE h < cur \/ h = cur
    <3>1. h \in Nat /\ cur \in Nat /\ next \in Nat /\ (h <= cur \/ next <= h)
      BY <2>1 DEF TypeOK, Addr, Tiling
    <3> QED BY <3>1, <2>2
  <2>3. occ[cur] = 0 => occ[End(cur)] = 1
    BY <2>1 DEF BothFree, TypeOK
  <2>4. CoalescedBefore'
    BY <2>1, <2>2, <2>3 DEF CoalescedBefore, End
  <2> QED BY <2>1, <2>4 DEF Searched, Walked, Coalesced
<1>3. CASE CoalDone
  <2>1. /\ pc = "coal" /\ pc' = "idle" /\ UNCHANGED <<occ, size, heads>>
        /\ IsInitialized /\ cur \in heads /\ End(cur) = MEM
    BY <1>3, CoalPosition DEF CoalDone, Return, headers
  <2>2. ASSUME NEW h \in heads PROVE h < cur \/ End(h) = MEM
    <3>1. h \in Nat /\ cur \in Nat /\ h < MEM /\ MEM \in Nat
      BY <2>1, MEMAssumption DEF TypeOK, Addr
    <3>2. h <= cur \/ MEM <= h
      BY <2>1 DEF Tiling
    <3> QED BY <3>1, <3>2, <2>1
  <2>3. MEM \notin heads
    BY MEMAssumption DEF TypeOK, Addr
  <2>4. Coalesced'
    BY <2>1, <2>2, <2>3 DEF CoalescedBefore, Coalesced, End
  <2> QED BY <2>1, <2>4 DEF Searched, Walked, CoalescedBefore
<1> QED BY <1>1, <1>2, <1>3 DEF Coal
LEMMA VisitedInit ==
  ASSUME Init
  PROVE  Visited
  BY DEF Init, Visited, Searched, Walked, CoalescedBefore, Coalesced

LEMMA VisitedInvariant == SoundCalls => (Spec => [](Layout /\ Visited))
<1>1. SUFFICES ASSUME SoundCalls PROVE Spec => [](Layout /\ Visited)
  OBVIOUS
<1>2. Init => Layout /\ Visited
  BY LayoutInit, VisitedInit
<1>3. (Layout /\ Visited) /\ [Next]_vars => (Layout /\ Visited)'
  <2>1. SUFFICES ASSUME Layout, Visited, [Next]_vars PROVE Layout' /\ Visited'
    OBVIOUS
  <2>2. Layout'
    BY <1>1, <2>1, LayoutStep
  <2>3. CASE UNCHANGED vars
    <3>1. Searched' /\ Walked'
      BY <2>1, <2>3 DEF vars, Visited, Searched, Walked
    <3>2. CoalescedBefore' /\ Coalesced'
      BY <2>1, <2>3 DEF vars, Visited, CoalescedBefore, Coalesced, End
    <3> QED BY <2>2, <3>1, <3>2 DEF Visited
  <2>4. CASE Next
    BY <1>1, <2>1, <2>2, <2>4, CallVisited, MallocVisited, FreeVisited, CoalVisited DEF Next
  <2> QED BY <2>1, <2>2, <2>3, <2>4
<1> QED BY <1>2, <1>3, PTL DEF Spec

-----------------------------------------------------------------------------
\* One pass of coal is enough: no two neighbouring chunks are free between calls.
THEOREM PassCoalesces == SoundCalls => (Spec => []Coalesced)
<1>1. Visited => Coalesced
  BY DEF Visited
<1> QED BY <1>1, VisitedInvariant, PTL

LEMMA OneChunkLeft ==
  ASSUME Layout, Coalesced
  PROVE  AllReturned
<1> USE DEF Layout
<1>1. SUFFICES ASSUME pc = "idle", live = {}, IsInitialized
               PROVE  heads = {0} /\ End(0) = MEM
  BY DEF AllReturned
<1>2. ASSUME NEW h \in heads PROVE occ[h] = 0
  <2>1. occ[h] # 1
    BY <1>1 DEF BlocksAreChunks
  <2>2. occ[h] \in {0, 1}
    BY <1>1, Chunk
  <2> QED BY <2>1, <2>2
<1>3. 0 \in heads /\ End(0) = MEM
  <2>1. 0 \in heads /\ (End(0) = MEM \/ End(0) \in heads)
    BY <1>1 DEF Tiling
  <2>2. End(0) \notin heads
    BY <1>1, <1>2, <2>1 DEF Coalesced
  <2> QED BY <2>1, <2>2
<1>4. ASSUME NEW h \in heads PROVE h = 0
  <2>1. h <= 0 \/ MEM <= h
    BY <1>1, <1>3 DEF Tiling
  <2> QED BY <2>1, MEMAssumption DEF TypeOK, Addr
<1> QED BY <1>3, <1>4

\* When every block has been freed the whole memory is one free chunk.
THEOREM AllComesBack == SoundCalls => (Spec => []AllReturned)
<1>1. Layout /\ Visited => AllReturned
  BY OneChunkLeft DEF Visited
<1> QED BY <1>1, VisitedInvariant, PTL

\* A block in use and the header of a chunk do not overlap.
LEMMA HeadersOutsideBlocks ==
  ASSUME Layout, NEW a \in heads, NEW b \in live
  PROVE  a + META <= b[1] \/ b[1] + b[2] <= a
<1> USE DEF Layout
<1>1. /\ b[1] - META \in heads /\ size[b[1] - META] = b[2]
  BY DEF BlocksAreChunks
<1>2. IsInitialized /\ b[1] \in Nat /\ b[2] \in Nat
  BY DEF Zeroed, TypeOK
<1>3. End(b[1] - META) = b[1] - META + META + size[b[1] - META] /\ a \in Nat
  BY <1>1, <1>2, Chunk
<1>4. a <= b[1] - META \/ End(b[1] - META) <= a
  BY <1>1, <1>2 DEF Tiling
<1> QED BY <1>1, <1>2, <1>3, <1>4 DEF META

LEMMA WritesOutsideBlocks ==
  ASSUME SoundCalls, Layout, [Next]_vars, NEW a \in Addr, Wrote(a),
         NEW b \in live, b \in live'
  PROVE  a + META <= b[1] \/ b[1] + b[2] <= a
<1> USE DEF Layout
<1>1. CASE Call
  <2>1. CASE ClearMemory
    BY <2>1 DEF ClearMemory
  <2> QED BY <1>1, <2>1 DEF Call, MallocCall, FreeCall, headers, Wrote, Zeroed
<1>2. CASE Malloc
  <2>1. CASE TakeWhole
    <3>1. cur \in heads /\ occ' = [occ EXCEPT ![cur] = 1] /\ size' = size
      BY <2>1, MEMAssumption DEF TakeWhole, Finding, Position, Zeroed, META
    <3>2. a = cur
      BY <3>1 DEF Wrote, TypeOK
    <3> QED BY <3>1, <3>2, HeadersOutsideBlocks
  <2>2. CASE Split
    <3>1. PICK new : SplitAt(new)
      BY <2>2, SplitFacts
    <3>2. a = cur \/ a = new
      BY <3>1 DEF SplitAt, Wrote
    <3>3. CASE a = cur
      BY <3>1, <3>3, HeadersOutsideBlocks DEF SplitAt
    <3>4. CASE a = new
      <4>1. cur + META <= b[1] \/ b[1] + b[2] <= cur
        BY <3>1, HeadersOutsideBlocks DEF SplitAt
      <4>2. /\ b[1] - META \in heads /\ occ[b[1] - META] = 1
        BY DEF BlocksAreChunks
      <4>3. b[1] \in Nat /\ b[2] \in Nat
        BY DEF TypeOK
      <4>4. b[1] - META # cur
        BY <4>2, <3>1 DEF SplitAt
      <4>5. b[1] - META <= cur \/ End(cur) <= b[1] - META
        BY <4>2, <3>1 DEF SplitAt, Tiling
      <4> QED BY <3>1, <3>4, <4>1, <4>3, <4>4, <4>5 DEF SplitAt, META
    <3> QED BY <3>2, <3>3, <3>4
  <2> QED BY <1>2, <2>1, <2>2 DEF Malloc, FindNext, NotEnough, headers, Wrote
<1>3. CASE Free
  <2>1. CASE FreeChunk
    <3>1. cur \in heads /\ occ' = [occ EXCEPT ![cur] = 0] /\ size' = size
      BY <2>1, FreeChunkLayout DEF FreeChunk
    <3>2. a = cur
      BY <3>1 DEF Wrote, TypeOK
    <3> QED BY <3>1, <3>2, HeadersOutsideBlocks
  <2> QED BY <1>3, <2>1
       DEF Free, AlreadyFree, WalkNext, WalkOut, NotAllocated, headers, Wrote
<1>4. CASE Coal
  <2>1. CASE Merge
    <3>1. /\ cur \in heads /\ next \in heads /\ occ' = occ
          /\ size' = [size EXCEPT ![cur] = @ + META + size[next], ![next] = 0]
      BY <2>1, MergeFacts DEF Merge
    <3>2. a = cur \/ a = next
      BY <3>1 DEF Wrote, TypeOK
    <3> QED BY <3>1, <3>2, HeadersOutsideBlocks
  <2> QED BY <1>4, <2>1 DEF Coal, CoalNext, CoalDone, headers, Wrote
<1>5. CASE UNCHANGED vars
  BY <1>5 DEF vars, Wrote
<1> QED BY <1>1, <1>2, <1>3, <1>4, <1>5 DEF Next

\* No step writes a header over the bytes of a block in use.
THEOREM PayloadsAreSafe == SoundCalls => (Spec => PayloadUntouched)
<1>1. SUFFICES ASSUME SoundCalls PROVE Spec => PayloadUntouched
  OBVIOUS
<1>2. Layout /\ [Next]_vars =>
        [\A a \in Addr : Wrote(a) =>
           \A b \in live : b \in live' => a + META <= b[1] \/ b[1] + b[2] <= a]_vars
  BY <1>1, WritesOutsideBlocks
<1> QED BY <1>1, <1>2, LayoutInvariant, PTL DEF Spec, PayloadUntouched

LEMMA WalkDecides ==
  ASSUME SoundCalls, Layout, Visited, [Next]_vars, pc = "walk", pc' # "walk"
  PROVE  pc' = "coal" <=> \E b \in live : b[1] = arg
<1> USE DEF Layout, Visited
<1>1. ASSUME NEW b \in live, b[1] = arg
      PROVE  /\ IsInitialized /\ b[1] - META \in heads /\ occ[b[1] - META] = 1
             /\ arg \in Nat /\ b[1] - META + META = arg
  BY <1>1 DEF BlocksAreChunks, Zeroed, TypeOK, META
<1>2. cur \in Nat
  BY MEMAssumption DEF TypeOK
<1>3. CASE FreeChunk
  <2>1. pc' = "coal" /\ cur + META = arg /\ cur \in heads /\ occ[cur] = 1
    BY <1>3, FreeChunkLayout DEF FreeChunk, IsBlock
  <2>2. <<cur + META, size[cur]>> \in live
    BY <2>1 DEF BlocksAreChunks
  <2> QED BY <2>1, <2>2
<1>4. CASE AlreadyFree
  <2>1. pc' = "idle" /\ cur + META = arg /\ occ[cur] = 0
    BY <1>4 DEF AlreadyFree, IsBlock, Return
  <2>2. ASSUME NEW b \in live, b[1] = arg PROVE FALSE
    <3>1. b[1] - META = cur
      BY <2>1, <2>2, <1>2 DEF META
    <3> QED BY <3>1, <2>1, <2>2, <1>1
  <2> QED BY <2>1, <2>2
<1>5. CASE WalkOut
  BY <1>5, WalkOutLayout DEF WalkOut, Zeroed
<1>6. CASE NotAllocated
  <2>1. pc' = "idle" /\ ~(cur <= arg)
    BY <1>6 DEF NotAllocated, Return
  <2>2. ASSUME NEW b \in live, b[1] = arg PROVE FALSE
    <3>1. b[1] - META < cur
      BY <2>1, <2>2, <1>1, <1>2 DEF META
    <3> QED BY <3>1, <2>2, <1>1 DEF Walked
  <2> QED BY <2>1, <2>2
<1> QED BY <1>3, <1>4, <1>5, <1>6
     DEF Next, Call, MallocCall, FreeCall, ClearMemory, Malloc, TakeWhole, Split, FindNext, NotEnough,
         Finding, Free, WalkNext, Coal, Merge, CoalNext, CoalDone, vars

\* myfree accepts exactly the pointers that are blocks in use.
THEOREM FreeIsExact == SoundCalls => (Spec => FreeDecidesRight)
<1>1. SUFFICES ASSUME SoundCalls PROVE Spec => FreeDecidesRight
  OBVIOUS
<1>2. (Layout /\ Visited) /\ [Next]_vars =>
        [pc = "walk" /\ pc' # "walk" =>
           (pc' = "coal" <=> \E b \in live : b[1] = arg)]_vars
  BY <1>1, WalkDecides
<1> QED BY <1>1, <1>2, VisitedInvariant, PTL DEF Spec, FreeDecidesRight

LEMMA SearchDecides ==
  ASSUME SoundCalls, Layout, Visited, [Next]_vars, pc = "find", pc' = "idle", live' = live,
         NEW h \in heads, occ[h] = 0
  PROVE  size[h] # arg /\ size[h] < arg + META + 1
<1> USE DEF Layout, Visited
<1>1. ~TakeWhole
  <2>1. SUFFICES ASSUME TakeWhole PROVE FALSE
    OBVIOUS
  <2>2. cur \in heads /\ occ[cur] = 0 /\ <<cur + META, arg>> \in live
    BY <2>1, MEMAssumption DEF TakeWhole, Finding, Fits, Position, Zeroed, META
  <2>3. PICK b \in live : b = <<cur + META, arg>>
    BY <2>2
  <2>4. occ[b[1] - META] = 1
    BY DEF BlocksAreChunks
  <2>5. b[1] - META = cur
    BY <2>2, <2>3 DEF TypeOK, Addr, META
  <2> QED BY <2>2, <2>4, <2>5
<1>2. ~Split
  <2>1. SUFFICES ASSUME Split PROVE FALSE
    OBVIOUS
  <2>2. PICK new : SplitAt(new)
    BY <2>1, SplitFacts
  <2>3. occ[cur] = 0 /\ <<cur + META, arg>> \in live /\ cur \in Nat
    BY <2>2 DEF SplitAt
  <2>4. PICK b \in live : b = <<cur + META, arg>>
    BY <2>3
  <2>5. occ[b[1] - META] = 1
    BY DEF BlocksAreChunks
  <2>6. b[1] - META = cur
    BY <2>3, <2>4 DEF META
  <2> QED BY <2>3, <2>5, <2>6
<1>3. NotEnough
  BY <1>1, <1>2
     DEF Next, Call, MallocCall, FreeCall, ClearMemory, Malloc, FindNext, Free, FreeChunk, AlreadyFree,
         WalkNext, WalkOut, NotAllocated, Walking, Coal, Merge, CoalNext, CoalDone, vars
<1>4. cur = MEM
  <2>1. cur \notin heads
    BY <1>3, Chunk DEF NotEnough, Zeroed
  <2> QED BY <2>1 DEF Position, Zeroed
<1>5. h < cur
  BY <1>4, MEMAssumption DEF TypeOK, Addr
<1> QED BY <1>5 DEF Searched

\* mymalloc returns NULL only after it has seen every chunk and can use none.
THEOREM SearchIsComplete == SoundCalls => (Spec => GivesUpRightly)
<1>1. SUFFICES ASSUME SoundCalls PROVE Spec => GivesUpRightly
  OBVIOUS
<1>2. (Layout /\ Visited) /\ [Next]_vars =>
        [pc = "find" /\ pc' = "idle" /\ live' = live =>
           \A h \in heads : occ[h] = 0 => size[h] # arg /\ size[h] < arg + META + 1]_vars
  BY <1>1, SearchDecides
<1> QED BY <1>1, <1>2, VisitedInvariant, PTL DEF Spec, GivesUpRightly

-----------------------------------------------------------------------------
(***************************************************************************)
(* That mymalloc.c implements Heap.  Layout and Visited carry it; what is  *)
(* new is that the chunks cover the array (Cover) and that a hole between  *)
(* the blocks is therefore one free chunk (HoleIsChunk).                   *)
(***************************************************************************)

\* The locals mean nothing while coal runs.
Quiet == pc = "coal" => arg = 0

-----------------------------------------------------------------------------
\* Every nonempty set of naturals has a least element.
LEMMA Least ==
  ASSUME NEW T \in SUBSET Nat, T # {}
  PROVE  \E x \in T : \A y \in T : x <= y
<1>1. IsWellFoundedOn(OpToRel(<, Nat), Nat)
  BY NatLessThanWellFounded
<1>2. PICK x \in T : \A y \in T : ~(<<y, x>> \in OpToRel(<, Nat))
  BY <1>1, WFMin
<1>3. \A y \in T : ~(y < x)
  BY <1>2 DEF OpToRel
<1> QED BY <1>3

\* Every byte of the array lies in a chunk: in that of the last header before it.
LEMMA Cover ==
  ASSUME Layout, IsInitialized, NEW a \in Addr
  PROVE  \E h \in heads : h <= a /\ a < End(h)
<1> USE DEF Layout
<1> DEFINE T == {a - h : h \in {g \in heads : g <= a}}
<1>1. a \in Nat /\ a < MEM /\ MEM \in Nat /\ heads \subseteq Nat
  BY MEMAssumption DEF TypeOK, Addr
<1>2. 0 \in heads /\ 0 <= a
  BY <1>1 DEF Tiling
<1>3. T \in SUBSET Nat /\ T # {}
  BY <1>1, <1>2
<1> HIDE DEF T
<1>4. PICK d \in T : \A y \in T : d <= y
  BY <1>3, Least
<1>5. PICK h \in heads : h <= a /\ d = a - h
  BY <1>4 DEF T
<1>6. ASSUME End(h) <= a PROVE FALSE
  <2>1. End(h) \in Nat /\ h < End(h) /\ h \in Nat
    BY Chunk DEF META
  <2>2. End(h) # MEM
    BY <2>1, <1>1, <1>6
  <2>3. End(h) \in heads
    BY <2>2 DEF Tiling
  <2>4. a - End(h) \in T
    BY <2>3, <1>6 DEF T
  <2>5. d <= a - End(h)
    BY <2>4, <1>4
  <2> QED BY <2>1, <2>5, <1>1, <1>5
<1>7. End(h) \in Nat
  BY Chunk DEF META
<1> QED BY <1>1, <1>5, <1>6, <1>7

\* The chunk of a block in use, and where it lies with respect to a free chunk.
LEMMA BlockAndFree ==
  ASSUME Layout, IsInitialized, NEW h \in heads, occ[h] = 0, NEW b \in live
  PROVE  /\ b[1] \in Nat /\ b[2] \in Nat /\ b[1] - META \in Nat
         /\ h \in Nat /\ End(h) \in Nat /\ h < End(h) /\ b[2] > 0
         /\ End(h) <= b[1] - META \/ b[1] + b[2] <= h
<1> USE DEF Layout
<1>1. /\ b[1] - META \in heads /\ occ[b[1] - META] = 1 /\ size[b[1] - META] = b[2]
  BY DEF BlocksAreChunks
<1>2. b[1] \in Nat /\ b[2] \in Nat
  BY DEF TypeOK
<1>3. PICK g \in heads : g = b[1] - META
  BY <1>1
<1>4. /\ g \in Nat /\ h \in Nat /\ g # h /\ size[g] = b[2] /\ size[g] > 0
      /\ End(g) = g + META + size[g] /\ End(h) \in Nat /\ h < End(h)
  BY <1>1, <1>3, Chunk DEF META
<1>5. (g <= h \/ End(h) <= g) /\ (h <= g \/ End(g) <= h)
  BY DEF Tiling
<1> QED BY <1>2, <1>3, <1>4, <1>5 DEF META

\* An occupied chunk is a block in use.
LEMMA OccupiedIsBlock ==
  ASSUME Layout, IsInitialized, NEW h \in heads, occ[h] # 0
  PROVE  \E b \in live : b[1] = h + META /\ b[2] = size[h]
<1>1. occ[h] = 1
  BY Chunk DEF Layout
<1>2. <<h + META, size[h]>> \in live
  BY <1>1 DEF Layout, BlocksAreChunks
<1> QED BY <1>2

-----------------------------------------------------------------------------
\* A hole between the blocks is exactly one free chunk, header included.
LEMMA HoleIsChunk ==
  ASSUME Layout, Coalesced, pc = "find",
         NEW a \in 0..MEM, NEW k \in 1..MEM, Abstract!Hole(a, k)
  PROVE  \E h \in heads : occ[h] = 0 /\ k = META + size[h]
<1> USE DEF Layout
<1>1. IsInitialized /\ MEM \in Nat /\ a \in Nat /\ k \in Nat /\ k >= 1
  BY MEMAssumption DEF Zeroed
<1>2. /\ a + k <= MEM
      /\ \A b \in live : a + k <= b[1] - META \/ b[1] + b[2] <= a
  BY DEF Abstract!Hole, Abstract!Room
<1>3. ~Abstract!Room(a - 1, k + 1) /\ ~Abstract!Room(a, k + 1)
  BY DEF Abstract!Hole
<1>4. a \in Addr
  BY <1>1, <1>2 DEF Addr
<1>5. PICK h \in heads : h <= a /\ a < End(h)
  BY <1>1, <1>4, Cover
<1>6. /\ h \in Nat /\ size[h] \in Nat /\ End(h) = h + META + size[h] /\ End(h) \in Nat
      /\ End(h) <= MEM
  BY <1>1, Chunk DEF META
<1>7. occ[h] = 0
  <2>1. SUFFICES ASSUME occ[h] # 0 PROVE FALSE
    OBVIOUS
  <2>2. PICK b \in live : b[1] = h + META /\ b[2] = size[h]
    BY <2>1, <1>1, OccupiedIsBlock
  <2>3. a + k <= b[1] - META \/ b[1] + b[2] <= a
    BY <1>2
  <2> QED BY <2>2, <2>3, <1>1, <1>5, <1>6 DEF META
<1>8. h = a
  <2>1. SUFFICES ASSUME h < a PROVE FALSE
    BY <1>1, <1>5, <1>6
  <2>2. ASSUME NEW b \in live
        PROVE  (a - 1) + (k + 1) <= b[1] - META \/ b[1] + b[2] <= a - 1
    <3>1. a + k <= b[1] - META \/ b[1] + b[2] <= a
      BY <1>2
    <3>2. /\ b[1] \in Nat /\ b[2] \in Nat /\ b[1] - META \in Nat
          /\ End(h) <= b[1] - META \/ b[1] + b[2] <= h
          /\ b[2] > 0
      BY <1>1, <1>7, BlockAndFree
    <3> QED BY <3>1, <3>2, <2>1, <1>1, <1>5, <1>6 DEF META
  <2>3. 0 <= a - 1 /\ (a - 1) + (k + 1) <= MEM
    BY <2>1, <1>1, <1>2, <1>6
  <2>4. Abstract!Room(a - 1, k + 1)
    BY <2>2, <2>3 DEF Abstract!Room
  <2> QED BY <2>4, <1>3
<1>9. a + k <= End(h)
  <2>1. SUFFICES ASSUME End(h) < a + k PROVE FALSE
    BY <1>1, <1>6
  <2>2. End(h) # MEM
    BY <2>1, <1>1, <1>2, <1>6
  <2>3. End(h) \in heads
    BY <2>2, <1>1 DEF Tiling
  <2>4. occ[End(h)] # 0
    BY <2>3, <1>7 DEF Coalesced
  <2>5. PICK b \in live : b[1] = End(h) + META /\ b[2] = size[End(h)]
    BY <2>3, <2>4, <1>1, OccupiedIsBlock
  <2>6. size[End(h)] \in Nat
    BY <2>3, <1>1, Chunk
  <2>7. a + k <= b[1] - META \/ b[1] + b[2] <= a
    BY <1>2
  <2> QED BY <2>1, <2>5, <2>6, <2>7, <1>1, <1>5, <1>6 DEF META
<1>10. End(h) <= a + k
  <2>1. SUFFICES ASSUME a + k < End(h) PROVE FALSE
    BY <1>1, <1>6
  <2>2. ASSUME NEW b \in live
        PROVE  a + (k + 1) <= b[1] - META \/ b[1] + b[2] <= a
    <3>1. a + k <= b[1] - META \/ b[1] + b[2] <= a
      BY <1>2
    <3>2. /\ b[1] \in Nat /\ b[2] \in Nat /\ b[1] - META \in Nat
          /\ End(h) <= b[1] - META \/ b[1] + b[2] <= h
      BY <1>1, <1>7, BlockAndFree
    <3> QED BY <3>1, <3>2, <2>1, <1>1, <1>6, <1>8
  <2>3. 0 <= a /\ a + (k + 1) <= MEM
    BY <2>1, <1>1, <1>6
  <2>4. Abstract!Room(a, k + 1)
    BY <2>2, <2>3 DEF Abstract!Room
  <2> QED BY <2>4, <1>3
<1> QED BY <1>1, <1>6, <1>7, <1>8, <1>9, <1>10 DEF META

\* What is handed out begins a free chunk and does not reach beyond it.
LEMMA FreeChunkIsRoom ==
  ASSUME Layout, IsInitialized, NEW h \in heads, occ[h] = 0,
         NEW n \in Nat, h + META + n <= End(h)
  PROVE  \E p \in 0..MEM : p = h + META /\ Abstract!Room(p - META, META + n)
<1>1. /\ h \in Nat /\ End(h) \in Nat /\ End(h) <= MEM /\ MEM \in Nat
  BY MEMAssumption, Chunk DEF Layout, META
<1>2. PICK p \in 0..MEM : p = h + META
  BY <1>1 DEF META
<1>3. ASSUME NEW b \in live
      PROVE  (p - META) + (META + n) <= b[1] - META \/ b[1] + b[2] <= p - META
  <2>1. /\ b[1] \in Nat /\ b[2] \in Nat /\ b[1] - META \in Nat
        /\ End(h) <= b[1] - META \/ b[1] + b[2] <= h
    BY BlockAndFree
  <2> QED BY <2>1, <1>1, <1>2 DEF META
<1>4. 0 <= p - META /\ (p - META) + (META + n) <= MEM
  BY <1>1, <1>2 DEF META
<1>5. Abstract!Room(p - META, META + n)
  BY <1>3, <1>4 DEF Abstract!Room
<1> QED BY <1>2, <1>5

-----------------------------------------------------------------------------
(* One lemma for each way a call ends.                                     *)

LEMMA TakeWholeGrants ==
  ASSUME SoundCalls, Layout, TakeWhole
  PROVE  Abstract!Grant
<1> USE DEF Layout
<1>1. /\ pc = "find" /\ IsInitialized /\ cur \in heads /\ occ[cur] = 0
      /\ arg \in Nat /\ size[cur] = arg
      /\ live' = live \cup {<<cur + META, arg>>} /\ pc' = "idle" /\ arg' = 0
  BY MEMAssumption, SoundSizes
     DEF TakeWhole, Finding, Fits, Position, Zeroed, Return, META
<1>2. PICK h \in heads, n \in Nat : h = cur /\ n = arg
  BY <1>1
<1>3. h + META + n <= End(h)
  BY <1>1, <1>2, Chunk DEF META
<1>4. PICK p \in 0..MEM : p = h + META /\ Abstract!Room(p - META, META + n)
  BY <1>1, <1>2, <1>3, FreeChunkIsRoom
<1>5. Abstract!Room(p - META, META + arg) /\ live' = live \cup {<<p, arg>>}
  BY <1>1, <1>2, <1>4
<1> QED BY <1>1, <1>5 DEF Abstract!Grant, Abstract!Answered

LEMMA SplitGrants ==
  ASSUME SoundCalls, Layout, Split
  PROVE  Abstract!Grant
<1> USE DEF Layout
<1>1. PICK new : SplitAt(new)
  BY SplitFacts
<1>2. PICK h \in heads, n \in Nat : h = cur /\ n = arg
  BY <1>1 DEF SplitAt
<1>3. IsInitialized /\ occ[h] = 0 /\ h + META + n <= End(h)
  BY <1>1, <1>2 DEF SplitAt, META
<1>4. PICK p \in 0..MEM : p = h + META /\ Abstract!Room(p - META, META + n)
  BY <1>3, FreeChunkIsRoom
<1>5. Abstract!Room(p - META, META + arg) /\ live' = live \cup {<<p, arg>>}
  BY <1>1, <1>2, <1>4 DEF SplitAt
<1>6. pc = "find" /\ pc' = "idle" /\ arg' = 0
  BY <1>1 DEF SplitAt
<1> QED BY <1>5, <1>6 DEF Abstract!Grant, Abstract!Answered

LEMMA NotEnoughRefuses ==
  ASSUME SoundCalls, Layout, Visited, Next, NotEnough
  PROVE  Abstract!Refuse
<1> USE DEF Layout
<1>1. /\ pc = "find" /\ pc' = "idle" /\ arg' = 0 /\ live' = live /\ arg \in Nat
  BY SoundSizes DEF NotEnough, Return, Position
<1>2. ASSUME NEW a \in 0..MEM, NEW k \in 1..MEM, Abstract!Hole(a, k)
      PROVE  k # META + arg /\ k < META + arg + META + 1
  <2>1. PICK h \in heads : occ[h] = 0 /\ k = META + size[h]
    BY <1>1, <1>2, HoleIsChunk DEF Visited
  <2>2. size[h] # arg /\ size[h] < arg + META + 1
    BY <1>1, <2>1, SearchDecides
  <2>3. size[h] \in Nat
    BY <1>1, Chunk DEF Zeroed
  <2> QED BY <1>1, <2>1, <2>2, <2>3 DEF META
<1> QED BY <1>1, <1>2 DEF Abstract!Refuse, Abstract!Answered

LEMMA FreeChunkTakesBack ==
  ASSUME SoundCalls, Layout, Visited, Next, FreeChunk
  PROVE  Abstract!TakeBack
<1> USE DEF Layout
<1>1. /\ pc = "walk" /\ pc' = "coal" /\ arg' = 0
      /\ live' = {c \in live : c[1] # arg}
  BY DEF FreeChunk, Walking
<1>2. PICK b \in live : b[1] = arg
  BY <1>1, WalkDecides
<1>3. ASSUME NEW c \in live, c[1] = arg PROVE c = b
  <2>1. c[2] = size[c[1] - META] /\ b[2] = size[b[1] - META]
    BY DEF BlocksAreChunks
  <2>2. c \in Nat \X Nat /\ b \in Nat \X Nat
    BY DEF TypeOK
  <2> QED BY <2>1, <2>2, <1>2, <1>3
<1>4. live' = live \ {b}
  BY <1>1, <1>2, <1>3
<1> QED BY <1>1, <1>2, <1>4 DEF Abstract!TakeBack, Abstract!Answered

LEMMA NoBlockRejects ==
  ASSUME SoundCalls, Layout, Visited, Next, AlreadyFree \/ NotAllocated
  PROVE  Abstract!Reject
<1>1. pc = "walk" /\ pc' = "idle" /\ arg' = 0 /\ live' = live
  BY DEF AlreadyFree, NotAllocated, Walking, Return
<1>2. \A b \in live : b[1] # arg
  BY <1>1, WalkDecides
<1> QED BY <1>1, <1>2 DEF Abstract!Reject, Abstract!Answered

-----------------------------------------------------------------------------
LEMMA QuietInvariant == Spec => []Quiet
<1>1. Init => Quiet
  BY DEF Init, Quiet
<1>2. Quiet /\ [Next]_vars => Quiet'
  BY DEF Quiet, Next, Call, MallocCall, FreeCall, ClearMemory, Malloc, TakeWhole, Split, FindNext,
         NotEnough, Finding, Return, Free, FreeChunk, AlreadyFree, WalkNext, WalkOut,
         NotAllocated, Walking, Coal, Merge, CoalNext, CoalDone, vars
<1> QED BY <1>1, <1>2, PTL DEF Spec

\* Every step of the loops is a step of the abstract allocator, or hidden from it.
LEMMA StepRefines ==
  ASSUME SoundCalls, Layout, Visited, Quiet, [Next]_vars
  PROVE  [Abstract!HeapNext]_(Abstract!heapVars)
<1> USE DEF Abstract!HeapNext, Abstract!heapVars
<1>1. CASE Call
  <2>1. ASSUME NEW n \in Sizes, MallocCall(n) PROVE Abstract!Ask(n)
    BY <2>1 DEF MallocCall, Abstract!Ask
  <2>2. ASSUME NEW p \in Pointers, FreeCall(p) PROVE Abstract!GiveBack(p)
    BY <2>2 DEF FreeCall, Abstract!GiveBack
  <2>3. ASSUME ClearMemory PROVE Abstract!Clear
    BY <2>3 DEF ClearMemory, Abstract!Clear
  <2> QED BY <1>1, <2>1, <2>2, <2>3 DEF Call
<1>2. CASE Malloc
  <2>1. CASE FindNext
    BY <2>1 DEF FindNext, Finding
  <2>2. CASE NotEnough
    BY <1>2, <2>2, NotEnoughRefuses DEF Next
  <2> QED BY <1>2, <2>1, <2>2, TakeWholeGrants, SplitGrants DEF Malloc
<1>3. CASE Free
  <2>1. Next
    BY <1>3 DEF Next
  <2>2. CASE WalkNext
    BY <2>2 DEF WalkNext, Walking
  <2>3. CASE WalkOut
    BY <2>3 DEF WalkOut, Walking
  <2> QED BY <1>3, <2>1, <2>2, <2>3, FreeChunkTakesBack, NoBlockRejects DEF Free
<1>4. CASE Coal
  <2>1. pc = "coal" /\ pc' \in {"coal", "idle"} /\ arg = 0 /\ arg' = 0 /\ live' = live
    BY <1>4 DEF Coal, Merge, CoalNext, CoalDone, Return, Quiet
  <2> QED BY <2>1
<1>5. CASE UNCHANGED vars
  BY <1>5 DEF vars
<1> QED BY <1>1, <1>2, <1>3, <1>4, <1>5 DEF Next

\* mymalloc and myfree with their headers, splits and merges do what an allocator
\* that knows only the blocks in use would: they give out bytes nobody holds, refuse
\* only when no hole would do, and take back exactly the block they are given.
THEOREM MallocIsAHeap == SoundCalls => (Spec => RefinesHeap)
<1>1. SUFFICES ASSUME SoundCalls PROVE Spec => RefinesHeap
  OBVIOUS
<1>2. Init => Abstract!HeapInit
  BY DEF Init, Abstract!HeapInit
<1>3. Layout /\ Visited /\ Quiet /\ [Next]_vars => [Abstract!HeapNext]_(Abstract!heapVars)
  BY <1>1, StepRefines
<1> QED BY <1>1, <1>2, <1>3, VisitedInvariant, QuietInvariant, PTL
         DEF Spec, RefinesHeap, Abstract!HeapSpec
=============================================================================
