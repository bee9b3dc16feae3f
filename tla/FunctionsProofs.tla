--------------------------- MODULE FunctionsProofs --------------------------
(***************************************************************************)
(* Proofs about the functions that MCFunctions checks on bounded inputs:   *)
(* main's loop and tokenize in my-shell.c, for every length of the buffer  *)
(* and of the tokens, every input and every way read cuts it into pieces,  *)
(* the board functions of ttts.c, for every board, and findmsglen and      *)
(* tokenize of ttts.c, for every message and every way recv cuts it.       *)
(***************************************************************************)
EXTENDS MCFunctions, SequenceTheorems, FiniteSetTheorems, WellFoundedInduction, TLAPS

\* Every variable is a sequence of characters, or a length.
TypesInv ==
  /\ text \in Seq(Characters) /\ input \in Seq(Characters)
  /\ buffer \in Seq(Characters) /\ lineBuffer \in Seq(Characters)
  /\ consumed \in Seq(Characters) /\ handed \in Seq(Characters)
  /\ lineSize \in Nat

\* What append copies is never longer than the block it starts with, so twice the
\* block holds what was there and what is added.
SizesInv ==
  /\ BUFSIZE <= lineSize /\ Len(buffer) <= BUFSIZE
  /\ LineFits

Behind(line) == \A q \in DOMAIN line : line[q] # NL

\* Only what is in the buffer may hold a newline that was not looked at.
NoNewlineKept == Behind(lineBuffer)

LinesInv == TypesInv /\ SizesInv /\ NoNewlineKept /\ OneLineAtATime /\ InputKept

-----------------------------------------------------------------------------
(* Sequences.                                                              *)

\* What comes in front of a cut and what comes behind it are the whole.
LEMMA CutInTwo ==
  ASSUME NEW S, NEW s \in Seq(S), NEW n \in 0..Len(s)
  PROVE  /\ SubSeq(s, 1, n) \in Seq(S) /\ SubSeq(s, n + 1, Len(s)) \in Seq(S)
         /\ Len(SubSeq(s, 1, n)) = n
         /\ Len(SubSeq(s, n + 1, Len(s))) = Len(s) - n
         /\ \A i \in 1..n : SubSeq(s, 1, n)[i] = s[i]
         /\ SubSeq(s, 1, n) \o SubSeq(s, n + 1, Len(s)) = s
<1>1. Len(s) \in Nat /\ \A i \in 1..Len(s) : s[i] \in S
  BY ElementOfSeq, LenProperties
<1>2. n \in Int /\ n + 1 \in Int /\ 1 \in Int /\ Len(s) \in Int
  BY <1>1
<1>3. /\ SubSeq(s, 1, n) \in Seq(S)
      /\ Len(SubSeq(s, 1, n)) = IF 1 <= n THEN n - 1 + 1 ELSE 0
      /\ \A i \in 1..n - 1 + 1 : SubSeq(s, 1, n)[i] = s[1 + i - 1]
  <2>1. \A i \in 1..n : s[i] \in S
    BY <1>1
  <2> QED BY <1>2, <2>1, SubSeqProperties
<1>4. /\ SubSeq(s, n + 1, Len(s)) \in Seq(S)
      /\ Len(SubSeq(s, n + 1, Len(s))) = IF n + 1 <= Len(s) THEN Len(s) - (n + 1) + 1 ELSE 0
  <2>1. \A i \in n + 1..Len(s) : s[i] \in S
    BY <1>1
  <2> QED BY <1>2, <2>1, SubSeqProperties
<1>5. SubSeq(s, 1, n) \o SubSeq(s, n + 1, Len(s)) = SubSeq(s, 1, Len(s))
  <2>1. 1 \in 1..Len(s) + 1 /\ n \in 1 - 1..Len(s) /\ Len(s) \in n..Len(s)
    BY <1>1
  <2> QED BY <2>1, ConcatAdjacentSubSeq
<1>6. SubSeq(s, 1, Len(s)) = s
  BY SubSeqFull
<1>7. Len(SubSeq(s, 1, n)) = n /\ Len(SubSeq(s, n + 1, Len(s))) = Len(s) - n
  BY <1>1, <1>3, <1>4
<1>8. \A i \in 1..n : SubSeq(s, 1, n)[i] = s[i]
  <2>1. \A i \in 1..n : i \in 1..n - 1 + 1 /\ 1 + i - 1 = i
    OBVIOUS
  <2> QED BY <1>3, <2>1
<1> QED BY <1>3, <1>4, <1>5, <1>6, <1>7, <1>8

\* The order in which sequences are put together does not matter.
LEMMA Associative ==
  ASSUME NEW a \in Seq(Characters), NEW b \in Seq(Characters), NEW c \in Seq(Characters)
  PROVE  (a \o b) \o c = a \o (b \o c)
BY ConcatAssociative

\* A line that ends with its first newline is complete, whatever is in front of it
\* as long as there is no newline in that.
LEMMA CompleteBehind ==
  ASSUME NEW S, NEW s \in Seq(S), NEW u \in Seq(S), Behind(s), u # <<>>,
         Complete(u, Len(u))
  PROVE  s \o u # <<>> /\ Complete(s \o u, Len(s \o u))
<1>1. /\ Len(s) \in Nat /\ Len(u) \in Nat /\ Len(u) > 0
      /\ DOMAIN s = 1..Len(s) /\ DOMAIN (s \o u) = 1..Len(s \o u)
  BY LenProperties, EmptySeq, ConcatProperties
<1>2. /\ Len(s \o u) = Len(s) + Len(u)
      /\ \A i \in 1..Len(s) + Len(u) :
           (s \o u)[i] = IF i <= Len(s) THEN s[i] ELSE u[i - Len(s)]
  BY ConcatProperties
<1>3. s \o u # <<>>
  BY <1>1, ConcatEqualIffEmpty
<1>4. (s \o u)[Len(s) + Len(u)] = u[Len(u)]
  BY <1>1, <1>2
<1>5. ASSUME NEW q \in 1..Len(s) + Len(u) - 1  PROVE (s \o u)[q] # NL
  <2>1. CASE q <= Len(s)
    BY <1>1, <1>2, <2>1 DEF Behind
  <2>2. CASE q > Len(s)
    <3>1. q - Len(s) \in 1..Len(u) - 1 /\ (s \o u)[q] = u[q - Len(s)]
      BY <1>1, <1>2, <2>2
    <3> QED BY <3>1 DEF Complete
  <2> QED BY <1>1, <2>1, <2>2
<1> QED BY <1>2, <1>3, <1>4, <1>5 DEF Complete

-----------------------------------------------------------------------------
(* The loop.                                                               *)

LEMMA InitLines == LinesInit => LinesInv
<1> SUFFICES ASSUME LinesInit PROVE LinesInv
  OBVIOUS
<1> USE DEF LinesInit
<1>1. <<>> \in Seq(Characters) /\ Len(<<>>) = 0
  BY EmptySeq
<1>2. text \in Seq(Characters)
  BY TextsAssumption
<1>3. TypesInv /\ SizesInv
  BY <1>1, <1>2, BufsizeAssumption DEF TypesInv, SizesInv, LineFits
<1>4. NoNewlineKept /\ OneLineAtATime
  BY DEF NoNewlineKept, Behind, OneLineAtATime
<1>5. InputKept
  <2>1. (<<>> \o <<>>) \o <<>> = <<>> /\ <<>> \o text = text /\ text \o <<>> = text
    BY <1>1, <1>2, ConcatEmptySeq
  <2>2. Lacking = <<>>
    BY DEF Lacking, Ended
  <2> QED BY <2>1, <2>2 DEF InputKept
<1> QED BY <1>3, <1>4, <1>5 DEF LinesInv

\* Nothing is lacking as long as there is something to look at, or to hand out.
LEMMA NothingLacking ==
  ASSUME InputKept, TypesInv,
         buffer # <<>> \/ input # <<>> \/ lineBuffer # <<>>
  PROVE  ((consumed \o lineBuffer) \o buffer) \o input = text
<1>1. Lacking = <<>>
  BY DEF Lacking, Ended
<1>2. text \o <<>> = text
  BY ConcatEmptySeq DEF TypesInv
<1> QED BY <1>1, <1>2 DEF InputKept

\* What is put together to the text keeps the input, whatever is empty.
LEMMA WholeKeepsInput ==
  ASSUME TypesInv', (((consumed \o lineBuffer) \o buffer) \o input = text)'
  PROVE  InputKept'
<1>1. text' \o <<>> = text'
  BY ConcatEmptySeq DEF TypesInv
<1>2. ASSUME Ended', lineBuffer' = <<>>  PROVE consumed' = text'
  <2>1. consumed' \o <<>> = consumed'
    BY ConcatEmptySeq DEF TypesInv
  <2> QED BY <1>2, <2>1 DEF Ended
<1>3. Lacking' = <<>>
  BY <1>2 DEF Lacking
<1> QED BY <1>1, <1>3 DEF InputKept

\* append: the block after it holds what it adds, and is not shorter.
LEMMA GrownFits ==
  ASSUME TypesInv, SizesInv, NEW bytes \in Seq(Characters), Len(bytes) <= BUFSIZE
  PROVE  /\ lineBuffer \o bytes \in Seq(Characters)
         /\ Len(lineBuffer \o bytes) <= Grown(bytes)
         /\ Grown(bytes) \in Nat /\ lineSize <= Grown(bytes)
<1>1. /\ lineBuffer \o bytes \in Seq(Characters)
      /\ Len(lineBuffer \o bytes) = Len(lineBuffer) + Len(bytes)
  BY ConcatProperties DEF TypesInv
<1>2. Len(lineBuffer) \in Nat /\ Len(bytes) \in Nat /\ lineSize \in Nat /\ BUFSIZE \in Nat
  BY LenProperties, BufsizeAssumption DEF TypesInv
<1> QED BY <1>1, <1>2 DEF SizesInv, LineFits, Grown

LEMMA ReadLines == LinesInv /\ Read => LinesInv'
<1> SUFFICES ASSUME LinesInv, Read PROVE LinesInv'
  OBVIOUS
<1>1. PICK n \in 1..BUFSIZE :
        /\ n <= Len(input)
        /\ buffer' = SubSeq(input, 1, n)
        /\ input' = SubSeq(input, n + 1, Len(input))
  BY DEF Read
<1>2. /\ buffer = <<>> /\ input # <<>>
      /\ UNCHANGED <<text, lineBuffer, lineSize, consumed, handed>>
  BY DEF Read
<1>3. n \in 0..Len(input) /\ n \in Nat /\ n > 0
  BY <1>1, BufsizeAssumption, LenProperties DEF LinesInv, TypesInv
<1>4. /\ buffer' \in Seq(Characters) /\ input' \in Seq(Characters)
      /\ Len(buffer') = n /\ buffer' \o input' = input
  BY <1>1, <1>3, CutInTwo DEF LinesInv, TypesInv
<1>5. TypesInv'
  BY <1>2, <1>4 DEF LinesInv, TypesInv
<1>6. SizesInv'
  BY <1>1, <1>2, <1>4 DEF LinesInv, SizesInv, LineFits
<1>7. NoNewlineKept' /\ OneLineAtATime'
  BY <1>2 DEF LinesInv, NoNewlineKept, OneLineAtATime
<1>8. InputKept'
  <2>1. ((consumed \o lineBuffer) \o <<>>) \o input = text
    BY <1>2, NothingLacking DEF LinesInv
  <2>2. (consumed \o lineBuffer) \o <<>> = consumed \o lineBuffer
    BY ConcatProperties, ConcatEmptySeq DEF LinesInv, TypesInv
  <2>3. ((consumed \o lineBuffer) \o buffer') \o input' = (consumed \o lineBuffer) \o input
    <3> DEFINE done == consumed \o lineBuffer
    <3>1. done \in Seq(Characters)
      BY ConcatProperties DEF LinesInv, TypesInv
    <3>2. buffer' \in Seq(Characters) /\ input' \in Seq(Characters)
      BY <1>4
    <3> HIDE DEF done
    <3>3. (done \o buffer') \o input' = done \o (buffer' \o input')
      BY <3>1, <3>2, Associative, SMT
    <3> QED BY <1>4, <3>3 DEF done
  <2>4. (((consumed \o lineBuffer) \o buffer) \o input = text)'
    BY <1>2, <2>1, <2>2, <2>3
  <2> QED BY <1>5, <2>4, WholeKeepsInput
<1> QED BY <1>5, <1>6, <1>7, <1>8 DEF LinesInv

\* The first p bytes of the buffer and the rest of it.
LEMMA BufferCut ==
  ASSUME TypesInv, SizesInv, NEW p \in DOMAIN buffer
  PROVE  /\ p \in Nat /\ p > 0 /\ p <= BUFSIZE
         /\ SubSeq(buffer, 1, p) \in Seq(Characters)
         /\ SubSeq(buffer, p + 1, Len(buffer)) \in Seq(Characters)
         /\ Len(SubSeq(buffer, 1, p)) = p
         /\ Len(SubSeq(buffer, p + 1, Len(buffer))) <= BUFSIZE
         /\ \A i \in 1..p : SubSeq(buffer, 1, p)[i] = buffer[i]
         /\ SubSeq(buffer, 1, p) \o SubSeq(buffer, p + 1, Len(buffer)) = buffer
<1>1. /\ buffer \in Seq(Characters) /\ Len(buffer) \in Nat
      /\ DOMAIN buffer = 1..Len(buffer) /\ Len(buffer) <= BUFSIZE
  BY LenProperties DEF TypesInv, SizesInv
<1>2. p \in 0..Len(buffer) /\ p \in Nat /\ p > 0 /\ p <= Len(buffer)
  BY <1>1
<1>3. BUFSIZE \in Nat
  BY BufsizeAssumption
<1>4. /\ SubSeq(buffer, 1, p) \in Seq(Characters)
      /\ SubSeq(buffer, p + 1, Len(buffer)) \in Seq(Characters)
      /\ Len(SubSeq(buffer, 1, p)) = p
      /\ Len(SubSeq(buffer, p + 1, Len(buffer))) = Len(buffer) - p
      /\ \A i \in 1..p : SubSeq(buffer, 1, p)[i] = buffer[i]
      /\ SubSeq(buffer, 1, p) \o SubSeq(buffer, p + 1, Len(buffer)) = buffer
  BY <1>1, <1>2, CutInTwo
<1>5. Len(SubSeq(buffer, p + 1, Len(buffer))) <= BUFSIZE /\ p <= BUFSIZE
  BY <1>1, <1>2, <1>3, <1>4, SMTT(60)
<1> QED BY <1>2, <1>4, <1>5

LEMMA FinishLineLines == LinesInv /\ FinishLine => LinesInv'
<1> SUFFICES ASSUME LinesInv, FinishLine PROVE LinesInv'
  OBVIOUS
<1>1. PICK p \in DOMAIN buffer :
        /\ Complete(buffer, p)
        /\ Hand(SubSeq(buffer, 1, p))
        /\ buffer' = SubSeq(buffer, p + 1, Len(buffer))
        /\ UNCHANGED <<text, input>>
  BY DEF FinishLine
<1> DEFINE line == SubSeq(buffer, 1, p)
<1>2. /\ line \in Seq(Characters) /\ Len(line) = p /\ p \in Nat /\ p > 0
      /\ buffer' \in Seq(Characters) /\ Len(buffer') <= BUFSIZE /\ p <= BUFSIZE
      /\ \A i \in 1..p : line[i] = buffer[i]
      /\ line \o buffer' = buffer
  BY <1>1, BufferCut DEF LinesInv
<1>3. /\ handed' = lineBuffer \o line /\ consumed' = consumed \o handed'
      /\ lineBuffer' = <<>> /\ lineSize' = Grown(line)
  BY <1>1 DEF Hand
<1> HIDE DEF line
<1>4. /\ handed' \in Seq(Characters) /\ Len(handed') <= lineSize'
      /\ lineSize' \in Nat /\ lineSize <= lineSize'
  BY <1>2, <1>3, GrownFits DEF LinesInv
<1>5. <<>> \in Seq(Characters) /\ Len(<<>>) = 0 /\ consumed' \in Seq(Characters)
  BY <1>3, <1>4, EmptySeq, ConcatProperties DEF LinesInv, TypesInv
<1>6. TypesInv'
  BY <1>1, <1>2, <1>3, <1>4, <1>5 DEF LinesInv, TypesInv
<1>7. SizesInv'
  BY <1>2, <1>3, <1>4, <1>5, BufsizeAssumption DEF LinesInv, SizesInv, LineFits, TypesInv
<1>8. NoNewlineKept'
  BY <1>3 DEF NoNewlineKept, Behind
<1>9. OneLineAtATime'
  <2>1. line # <<>> /\ Complete(line, Len(line))
    BY <1>1, <1>2, EmptySeq DEF Complete
  <2>2. handed' # <<>> /\ Complete(handed', Len(handed'))
    BY <1>2, <1>3, <2>1, CompleteBehind DEF LinesInv, TypesInv, NoNewlineKept
  <2> QED BY <2>2 DEF OneLineAtATime, Complete
<1>10. InputKept'
  <2>1. buffer # <<>>
    BY <1>1
  <2>2. ((consumed \o lineBuffer) \o buffer) \o input = text
    BY <2>1, NothingLacking DEF LinesInv
  <2>3. /\ consumed \in Seq(Characters) /\ lineBuffer \in Seq(Characters)
        /\ line \in Seq(Characters) /\ buffer' \in Seq(Characters)
    BY <1>2 DEF LinesInv, TypesInv
  <2>4. (consumed \o lineBuffer) \o (line \o buffer')
          = ((consumed \o lineBuffer) \o line) \o buffer'
    <3> DEFINE done == consumed \o lineBuffer
    <3>1. done \in Seq(Characters)
      BY <2>3, ConcatProperties
    <3> HIDE DEF done
    <3>2. \A a, b, c \in Seq(Characters) : (a \o b) \o c = a \o (b \o c)
      BY Associative
    <3>3. (done \o line) \o buffer' = done \o (line \o buffer')
      BY <2>3, <3>1, <3>2, Zenon
    <3> QED BY <3>3 DEF done
  <2>5. (consumed \o lineBuffer) \o line = consumed \o handed'
    <3>1. (consumed \o lineBuffer) \o line = consumed \o (lineBuffer \o line)
      BY <2>3, Associative, SMT
    <3> QED BY <1>3, <3>1
  <2>6. consumed' \o lineBuffer' = consumed'
    BY <1>3, <1>5, ConcatEmptySeq
  <2>7. (((consumed \o lineBuffer) \o buffer) \o input = text)'
    BY <1>1, <1>2, <1>3, <2>2, <2>4, <2>5, <2>6
  <2> QED BY <1>6, <2>7, WholeKeepsInput
<1> QED BY <1>6, <1>7, <1>8, <1>9, <1>10 DEF LinesInv

LEMMA KeepPartialLines == LinesInv /\ KeepPartial => LinesInv'
<1> SUFFICES ASSUME LinesInv, KeepPartial PROVE LinesInv'
  OBVIOUS
<1> USE DEF KeepPartial
<1>1. /\ buffer \in Seq(Characters) /\ lineBuffer \in Seq(Characters)
      /\ consumed \in Seq(Characters) /\ input \in Seq(Characters)
      /\ Len(buffer) <= BUFSIZE
  BY DEF LinesInv, TypesInv, SizesInv
<1>2. /\ lineBuffer' \in Seq(Characters) /\ Len(lineBuffer') <= lineSize'
      /\ lineSize' \in Nat /\ lineSize <= lineSize'
  BY <1>1, GrownFits DEF LinesInv
<1>3. <<>> \in Seq(Characters) /\ Len(<<>>) = 0
  BY EmptySeq
<1>4. TypesInv'
  BY <1>2, <1>3 DEF LinesInv, TypesInv
<1>5. SizesInv'
  <2>1. Len(handed) \in Nat
    BY LenProperties DEF LinesInv, TypesInv
  <2> QED BY <1>2, <1>3, <2>1, BufsizeAssumption DEF LinesInv, SizesInv, LineFits, TypesInv
<1>6. NoNewlineKept'
  <2>1. /\ DOMAIN lineBuffer = 1..Len(lineBuffer) /\ DOMAIN buffer = 1..Len(buffer)
        /\ DOMAIN lineBuffer' = 1..Len(lineBuffer')
        /\ Len(lineBuffer) \in Nat /\ Len(buffer) \in Nat
    BY <1>1, <1>2, LenProperties
  <2>2. /\ Len(lineBuffer') = Len(lineBuffer) + Len(buffer)
        /\ \A i \in 1..Len(lineBuffer) + Len(buffer) :
             lineBuffer'[i] = IF i <= Len(lineBuffer) THEN lineBuffer[i]
                                                      ELSE buffer[i - Len(lineBuffer)]
    BY <1>1, ConcatProperties
  <2>3. /\ \A q \in 1..Len(lineBuffer) : lineBuffer[q] # NL
        /\ \A q \in 1..Len(buffer) : buffer[q] # NL
    BY <2>1 DEF LinesInv, NoNewlineKept, Behind
  <2>4. ASSUME NEW q \in 1..Len(lineBuffer) + Len(buffer), q > Len(lineBuffer)
        PROVE  q - Len(lineBuffer) \in 1..Len(buffer)
    <3>1. Len(lineBuffer) \in Nat /\ Len(buffer) \in Nat
      BY <2>1
    <3> HIDE DEF KeepPartial
    <3> QED BY <2>4, <3>1
  <2>5. \A q \in 1..Len(lineBuffer') : lineBuffer'[q] # NL
    BY <2>1, <2>2, <2>3, <2>4
  <2> QED BY <2>1, <2>5 DEF NoNewlineKept, Behind
<1>7. OneLineAtATime'
  BY DEF LinesInv, OneLineAtATime
<1>8. InputKept'
  <2>1. ((consumed \o lineBuffer) \o buffer) \o input = text
    BY NothingLacking DEF LinesInv
  <2>2. (consumed \o lineBuffer) \o buffer = consumed \o lineBuffer'
    <3>1. (consumed \o lineBuffer) \o buffer = consumed \o (lineBuffer \o buffer)
      <4> HIDE DEF KeepPartial
      <4> QED BY <1>1, Associative, SMT
    <3> QED BY <3>1
  <2>3. (consumed \o lineBuffer') \o buffer' = consumed \o lineBuffer'
    <3>1. consumed \o lineBuffer' \in Seq(Characters)
      BY <1>1, <1>2, ConcatProperties
    <3> QED BY <3>1, ConcatEmptySeq
  <2>4. (((consumed \o lineBuffer) \o buffer) \o input = text)'
    BY <2>1, <2>2, <2>3
  <2> QED BY <1>4, <2>4, WholeKeepsInput
<1> QED BY <1>4, <1>5, <1>6, <1>7, <1>8 DEF LinesInv

\* The newline added to a partial line at the end of the file is the one byte that
\* is handed out without having been typed.
LEMMA LastLineLines == LinesInv /\ LastLine => LinesInv'
<1> SUFFICES ASSUME LinesInv, LastLine PROVE LinesInv'
  OBVIOUS
<1> USE DEF LastLine, Hand, Ended
<1>1. /\ lineBuffer \in Seq(Characters) /\ consumed \in Seq(Characters)
      /\ text \in Seq(Characters) /\ input = <<>> /\ buffer = <<>>
  BY DEF LinesInv, TypesInv
<1>2. <<NL>> \in Seq(Characters) /\ Len(<<NL>>) = 1 /\ <<NL>>[1] = NL /\ <<NL>> # <<>>
  BY DEF Characters
<1>3. Len(<<NL>>) <= BUFSIZE
  BY <1>2, BufsizeAssumption
<1>4. /\ handed' \in Seq(Characters) /\ Len(handed') <= lineSize'
      /\ lineSize' \in Nat /\ lineSize <= lineSize'
  BY <1>2, <1>3, GrownFits DEF LinesInv
<1>5. <<>> \in Seq(Characters) /\ Len(<<>>) = 0 /\ consumed' \in Seq(Characters)
  BY <1>1, <1>4, EmptySeq, ConcatProperties
<1>6. TypesInv'
  BY <1>4, <1>5 DEF LinesInv, TypesInv
<1>7. SizesInv'
  <2>1. BUFSIZE <= lineSize /\ BUFSIZE \in Nat /\ lineSize \in Nat
    BY BufsizeAssumption DEF LinesInv, SizesInv, TypesInv
  <2>2. BUFSIZE <= lineSize' /\ 0 <= lineSize'
    BY <1>4, <2>1, SMTT(60)
  <2>3. lineBuffer' = <<>> /\ buffer' = <<>>
    BY <1>1
  <2>4. Len(handed') <= lineSize'
    BY <1>4
  <2> HIDE DEF LastLine, Hand, Ended
  <2> QED BY <1>5, <2>1, <2>2, <2>3, <2>4 DEF SizesInv, LineFits
<1>8. NoNewlineKept'
  BY DEF NoNewlineKept, Behind
<1>9. OneLineAtATime'
  <2>1. Complete(<<NL>>, Len(<<NL>>))
    BY <1>2 DEF Complete
  <2>2. handed' # <<>> /\ Complete(handed', Len(handed'))
    BY <1>1, <1>2, <2>1, CompleteBehind DEF LinesInv, NoNewlineKept
  <2> QED BY <2>2 DEF OneLineAtATime, Complete
<1>10. InputKept'
  <2>1. ((consumed \o lineBuffer) \o buffer) \o input = text
    BY NothingLacking DEF LinesInv
  <2>2. consumed \o lineBuffer = text
    <3> DEFINE done == consumed \o lineBuffer
    <3>1. done \in Seq(Characters)
      BY <1>1, ConcatProperties
    <3> HIDE DEF done
    <3>2. (done \o <<>>) \o <<>> = done
      BY <3>1, ConcatEmptySeq
    <3> QED BY <1>1, <2>1, <3>2 DEF done
  <2>3. consumed' = text \o <<NL>>
    <3>1. (consumed \o lineBuffer) \o <<NL>> = consumed \o (lineBuffer \o <<NL>>)
      BY <1>1, <1>2, Associative, SMTT(60)
    <3> QED BY <2>2, <3>1
  <2>4. text \o <<NL>> # text
    BY <1>1, <1>2, ConcatEqualIffEmpty
  <2>5. Lacking' = <<NL>>
    BY <1>1, <2>3, <2>4 DEF Lacking
  <2>6. ((consumed' \o <<>>) \o <<>>) \o <<>> = consumed'
    BY <1>5, ConcatEmptySeq
  <2>7. ((consumed' \o lineBuffer') \o buffer') \o input' = consumed'
    BY <1>1, <2>6
  <2> QED BY <2>3, <2>5, <2>7 DEF InputKept
<1> QED BY <1>6, <1>7, <1>8, <1>9, <1>10 DEF LinesInv

\* The invariant holds in every state of the loop.
THEOREM LinesInvariant == LinesSpec => []LinesInv
<1>1. LinesInit => LinesInv
  BY InitLines
<1>2. LinesInv /\ [LinesNext]_lineVars => LinesInv'
  <2> SUFFICES ASSUME LinesInv, [LinesNext]_lineVars PROVE LinesInv'
    OBVIOUS
  <2>1. CASE Read
    BY <2>1, ReadLines
  <2>2. CASE FinishLine
    BY <2>2, FinishLineLines
  <2>3. CASE KeepPartial
    BY <2>3, KeepPartialLines
  <2>4. CASE LastLine
    BY <2>4, LastLineLines
  <2>5. CASE UNCHANGED lineVars
    BY <2>5 DEF lineVars, LinesInv, TypesInv, SizesInv, LineFits, NoNewlineKept,
                Behind, OneLineAtATime, Complete, InputKept, Lacking, Ended
  <2> QED BY <2>1, <2>2, <2>3, <2>4, <2>5 DEF LinesNext
<1> QED BY <1>1, <1>2, PTL DEF LinesSpec

\* However read cuts the input, the lines handed to parseLineAndExecute are the
\* input: main's loop (137-165) and append lose, double and reorder nothing.
THEOREM ShellKeepsInput == LinesSpec => []InputKept
<1>1. LinesInv => InputKept
  BY DEF LinesInv
<1> QED BY <1>1, LinesInvariant, PTL

\* parseLineAndExecute is given one whole line at a time.
THEOREM ShellTakesOneLine == LinesSpec => []OneLineAtATime
<1>1. LinesInv => OneLineAtATime
  BY DEF LinesInv
<1> QED BY <1>1, LinesInvariant, PTL

\* append's block is long enough for every line, although it is made twice as long
\* at most once per call.
THEOREM ShellLineFits == LinesSpec => []LineFits
<1>1. LinesInv => LineFits
  BY DEF LinesInv, SizesInv
<1> QED BY <1>1, LinesInvariant, PTL

-----------------------------------------------------------------------------
(* Sets of naturals.                                                       *)

\* A set of naturals has a least element.
LEMMA LeastNat ==
  ASSUME NEW T \in SUBSET Nat, T # {}
  PROVE  \E x \in T : \A y \in T : x <= y
<1>1. IsWellFoundedOn(OpToRel(<, Nat), Nat)
  BY NatLessThanWellFounded
<1>2. PICK x \in T : \A y \in T : ~(<<y, x>> \in OpToRel(<, Nat))
  BY <1>1, WFMin
<1>3. \A y \in T : ~(y < x)
  BY <1>2 DEF OpToRel
<1>4. \A y \in T : x <= y
  BY <1>3
<1> QED BY <1>4

-----------------------------------------------------------------------------
(* The loop of tokenize.                                                   *)

Fresh == [tokens |-> <<>>, strtemp |-> <<>>, fits |-> TRUE]

\* What tokenize has after each byte of the line.
Loop(line, m, g) ==
  g = [i \in 0..m |-> IF i = 0 THEN Fresh ELSE TokenizeByte(g[i - 1], line[i])]

States(line) == CHOOSE g : Loop(line, Len(line), g)

LEMMA LoopRuns ==
  ASSUME NEW line, NEW n \in Nat
  PROVE  \E g : Loop(line, n, g)
<1> DEFINE Bad == {m \in Nat : ~ \E g : Loop(line, m, g)}
<1>1. ASSUME Bad # {} PROVE FALSE
  <2>1. Bad \in SUBSET Nat
    OBVIOUS
  <2>2. PICK m \in Bad : \A y \in Bad : m <= y
    BY <1>1, <2>1, LeastNat
  <2>3. m \in Nat /\ ~ \E g : Loop(line, m, g)
    OBVIOUS
  <2>4. CASE m = 0
    <3> DEFINE h == [i \in 0..m |-> Fresh]
    <3>1. h = [i \in 0..m |-> IF i = 0 THEN Fresh ELSE TokenizeByte(h[i - 1], line[i])]
      BY <2>4
    <3>2. Loop(line, m, h)
      BY <3>1 DEF Loop
    <3> QED BY <2>3, <3>2
  <2>5. CASE m # 0
    <3>1. m - 1 \in Nat /\ m - 1 \notin Bad
      BY <2>2, <2>3, <2>5
    <3>2. PICK g : Loop(line, m - 1, g)
      BY <3>1
    <3> DEFINE h == [i \in 0..m |-> IF i = m THEN TokenizeByte(g[m - 1], line[m]) ELSE g[i]]
    <3>3. \A i \in 0..m - 1 : h[i] = g[i]
      BY <2>3
    <3>4. \A i \in 0..m - 1 : g[i] = IF i = 0 THEN Fresh ELSE TokenizeByte(g[i - 1], line[i])
      BY <3>2 DEF Loop
    <3>5. \A i \in 0..m : h[i] = IF i = 0 THEN Fresh ELSE TokenizeByte(h[i - 1], line[i])
      <4> TAKE i \in 0..m
      <4>1. CASE i = m
        <5>1. h[i] = TokenizeByte(g[m - 1], line[m])
          BY <4>1
        <5>2. h[m - 1] = g[m - 1]
          BY <2>3, <2>5, <3>3
        <5> QED BY <2>5, <4>1, <5>1, <5>2
      <4>2. CASE i # m /\ i # 0
        <5>1. i \in 0..m - 1 /\ i - 1 \in 0..m - 1
          BY <2>3, <4>2
        <5> HIDE DEF h
        <5> QED BY <3>3, <3>4, <4>2, <5>1
      <4>3. CASE i = 0
        <5>1. i \in 0..m - 1
          BY <2>3, <2>5, <4>3
        <5> HIDE DEF h
        <5> QED BY <3>3, <3>4, <4>3, <5>1
      <4> QED BY <4>1, <4>2, <4>3
    <3>6. h = [i \in 0..m |-> IF i = 0 THEN Fresh ELSE TokenizeByte(h[i - 1], line[i])]
      <4>1. h = [i \in 0..m |-> h[i]]
        OBVIOUS
      <4> HIDE DEF h
      <4> QED BY <3>5, <4>1
    <3>7. Loop(line, m, h)
      BY <3>6 DEF Loop
    <3> QED BY <2>3, <3>7
  <2> QED BY <2>4, <2>5
<1> QED BY <1>1

\* tokenize goes through the bytes one by one.
LEMMA LoopSteps ==
  ASSUME NEW line, Len(line) \in Nat
  PROVE  /\ States(line)[0] = Fresh
         /\ \A i \in 1..Len(line) : States(line)[i] = TokenizeByte(States(line)[i - 1], line[i])
         /\ TokenizeBytes(line) = States(line)[Len(line)]
<1>1. Loop(line, Len(line), States(line))
  BY LoopRuns DEF States
<1>2. \A i \in 0..Len(line) :
        States(line)[i] = IF i = 0 THEN Fresh ELSE TokenizeByte(States(line)[i - 1], line[i])
  <2> DEFINE g == States(line)
  <2>1. g = [i \in 0..Len(line) |-> IF i = 0 THEN Fresh ELSE TokenizeByte(g[i - 1], line[i])]
    BY <1>1 DEF Loop
  <2> HIDE DEF g
  <2>2. \A i \in 0..Len(line) : g[i] = IF i = 0 THEN Fresh ELSE TokenizeByte(g[i - 1], line[i])
    BY <2>1
  <2> QED BY <2>2 DEF g
<1>3. TokenizeBytes(line) = States(line)[Len(line)]
  BY DEF TokenizeBytes, States, Loop, Fresh
<1>4. \A i \in 1..Len(line) : States(line)[i] = TokenizeByte(States(line)[i - 1], line[i])
  BY <1>2
<1> QED BY <1>2, <1>3, <1>4

-----------------------------------------------------------------------------
(* Where tokens start and end.                                             *)

Count(line, i) == Cardinality({s \in Starts(line) : s <= i})

LEMMA StartsFacts ==
  ASSUME NEW line \in Seq(Characters)
  PROVE  /\ Len(line) \in Nat /\ DOMAIN line = 1..Len(line)
         /\ Starts(line) \subseteq 1..Len(line)
         /\ IsFiniteSet(Starts(line)) /\ Cardinality(Starts(line)) \in Nat
<1>1. Len(line) \in Nat /\ DOMAIN line = 1..Len(line)
  BY LenProperties
<1>2. Starts(line) \subseteq 1..Len(line)
  BY <1>1 DEF Starts
<1>3. 1 \in Int /\ Len(line) \in Int
  BY <1>1
<1>4. IsFiniteSet(1..Len(line))
  BY <1>3, FS_Interval, Zenon
<1> QED BY <1>1, <1>2, <1>4, FS_Subset, FS_CardinalityType

\* The number of tokens that start up to a byte.
LEMMA CountFacts ==
  ASSUME NEW line \in Seq(Characters)
  PROVE  /\ Count(line, 0) = 0 /\ Count(line, Len(line)) = Cardinality(Starts(line))
         /\ \A i \in Int : Count(line, i) \in Nat
         /\ \A i, j \in Int : i <= j => Count(line, i) <= Count(line, j)
         /\ \A i \in Starts(line) : Count(line, i) = Count(line, i - 1) + 1
         /\ \A i \in Int \ Starts(line) : Count(line, i) = Count(line, i - 1)
<1> DEFINE U(i) == {s \in Starts(line) : s <= i}
<1>1. /\ Starts(line) \subseteq 1..Len(line) /\ Len(line) \in Nat /\ IsFiniteSet(Starts(line))
  BY StartsFacts
<1>2. \A i \in Int : IsFiniteSet(U(i)) /\ Cardinality(U(i)) \in Nat
  <2> TAKE i \in Int
  <2>1. U(i) \subseteq Starts(line)
    OBVIOUS
  <2> HIDE DEF U
  <2> QED BY <1>1, <2>1, FS_Subset, FS_CardinalityType
<1>3. \A i : Count(line, i) = Cardinality(U(i))
  BY DEF Count
<1>4. Count(line, 0) = 0
  <2>1. U(0) = {}
    BY <1>1
  <2>2. Cardinality({}) = 0
    BY FS_EmptySet
  <2> HIDE DEF U
  <2> QED BY <1>3, <2>1, <2>2
<1>5. Count(line, Len(line)) = Cardinality(Starts(line))
  <2>1. U(Len(line)) = Starts(line)
    BY <1>1
  <2> HIDE DEF U
  <2> QED BY <1>3, <2>1
<1>6. ASSUME NEW i \in Int, NEW j \in Int, i <= j PROVE Count(line, i) <= Count(line, j)
  <2>1. U(i) \subseteq U(j)
    <3>1. \A s \in Starts(line) : s <= i => s <= j
      BY <1>1, <1>6
    <3> QED BY <3>1
  <2> HIDE DEF U
  <2> QED BY <1>2, <1>3, <2>1, FS_Subset
<1>7. ASSUME NEW i \in Starts(line) PROVE Count(line, i) = Count(line, i - 1) + 1
  <2>1. i \in Int /\ i - 1 \in Int
    BY <1>1
  <2>2. \A s \in Starts(line) : s <= i <=> s <= i - 1 \/ s = i
    BY <1>1, <2>1
  <2>3. ~(i <= i - 1)
    BY <2>1
  <2>4. U(i) = U(i - 1) \cup {i} /\ i \notin U(i - 1)
    BY <2>2, <2>3, Zenon
  <2> HIDE DEF U
  <2>5. Cardinality(U(i - 1) \cup {i}) = IF i \in U(i - 1) THEN Cardinality(U(i - 1)) ELSE Cardinality(U(i - 1)) + 1
    BY <1>2, <2>1, FS_AddElement, Zenon
  <2> QED BY <1>3, <2>4, <2>5
<1>8. ASSUME NEW i \in Int \ Starts(line) PROVE Count(line, i) = Count(line, i - 1)
  <2>1. \A s \in Starts(line) : s <= i <=> s <= i - 1
    BY <1>1
  <2>2. U(i) = U(i - 1)
    BY <2>1, Zenon
  <2> HIDE DEF U
  <2> QED BY <1>3, <2>2
<1> HIDE DEF U
<1>9. \A i \in Int : Count(line, i) \in Nat
  BY <1>2, <1>3
<1> QED BY <1>4, <1>5, <1>6, <1>7, <1>8, <1>9

\* The place of a token among those that start up to some byte.
LEMMA Places ==
  ASSUME NEW line \in Seq(Characters), NEW x \in Starts(line), NEW i \in Nat
  PROVE  /\ Count(line, x) \in Nat \ {0}
         /\ x <= i => Count(line, x) <= Count(line, i)
         /\ x > i => Count(line, x) > Count(line, i)
<1>1. x \in Int /\ x - 1 \in Int /\ i \in Int /\ x >= 1
  BY StartsFacts
<1>2. Count(line, x) = Count(line, x - 1) + 1
  BY CountFacts
<1>3. Count(line, x - 1) \in Nat /\ Count(line, x) \in Nat /\ Count(line, i) \in Nat
  BY <1>1, CountFacts
<1>4. x <= i => Count(line, x) <= Count(line, i)
  BY <1>1, CountFacts
<1>5. x > i => Count(line, i) <= Count(line, x - 1)
  <2>1. x > i => i <= x - 1
    BY <1>1
  <2> QED BY <1>1, <2>1, CountFacts
<1> QED BY <1>2, <1>3, <1>4, <1>5

\* A run of regular bytes.
Run(line, b, i) == \A j \in b..i : line[j] \in Regular

\* A word goes on to the end of its run.
LEMMA WordEnds ==
  ASSUME NEW line \in Seq(Characters), NEW b \in 1..Len(line), line[b] \in Regular
  PROVE  \E e \in b..Len(line) :
           /\ TokenAt(line, b) = SubSeq(line, b, e) /\ Run(line, b, e)
           /\ e = Len(line) \/ line[e + 1] \notin Regular
           /\ Len(TokenAt(line, b)) = e - b + 1
           /\ \A j \in b..Len(line) : Run(line, b, j) => j <= e
<1> DEFINE Stop == {j \in b..Len(line) : j = Len(line) \/ line[j + 1] \notin Regular}
           End(j) == /\ \A k \in b..j : line[k] \in Regular
                     /\ j = Len(line) \/ line[j + 1] \notin Regular
<1>1. Len(line) \in Nat /\ b \in Nat /\ b <= Len(line) /\ \A j \in 1..Len(line) : line[j] \in Characters
  BY StartsFacts, ElementOfSeq
<1>2. Stop \in SUBSET Nat /\ Stop # {}
  <2>1. Len(line) \in Stop
    BY <1>1
  <2> QED BY <1>1, <2>1
<1>3. PICK e \in Stop : \A y \in Stop : e <= y
  BY <1>2, LeastNat
<1>4. e \in b..Len(line) /\ (e = Len(line) \/ line[e + 1] \notin Regular)
  OBVIOUS
<1>5. ASSUME NEW k \in b..e PROVE line[k] \in Regular
  <2>1. CASE k = b
    BY <2>1
  <2>2. CASE k # b
    <3>1. k - 1 \in b..Len(line) /\ k - 1 < e /\ k - 1 # Len(line) /\ (k - 1) + 1 = k
      BY <1>1, <1>4, <2>2
    <3>2. k - 1 \notin Stop
      <4> HIDE DEF Stop
      <4> QED BY <1>1, <1>3, <1>4, <3>1
    <3> QED BY <3>1, <3>2
  <2> QED BY <2>1, <2>2
<1> HIDE DEF Stop
<1>6. End(e)
  BY <1>4, <1>5
<1>7. ASSUME NEW j \in b..Len(line), End(j) PROVE j = e
  <2>1. j \in Int /\ e \in Int
    BY <1>1, <1>4
  <2>2. CASE j < e
    <3>1. j + 1 \in b..e /\ j # Len(line)
      BY <1>1, <1>4, <2>1, <2>2
    <3> QED BY <1>5, <1>7, <3>1
  <2>3. CASE e < j
    <3>1. e + 1 \in b..j /\ e # Len(line)
      BY <1>1, <1>4, <2>1, <2>3
    <3> QED BY <1>4, <1>7, <3>1
  <2> QED BY <2>1, <2>2, <2>3
<1>8. line[b] \notin Operators
  BY RegularAssumption
<1>9. TokenAt(line, b) = SubSeq(line, b, e)
  <2>1. (CHOOSE j \in b..Len(line) : End(j)) = e
    <3> HIDE DEF End
    <3> QED BY <1>4, <1>6, <1>7
  <2> QED BY <1>8, <2>1 DEF TokenAt
<1>10. Len(SubSeq(line, b, e)) = e - b + 1
  <2>1. b \in Int /\ e \in Int /\ b <= e /\ \A i \in b..e : line[i] \in Characters
    BY <1>1, <1>4
  <2>2. Len(SubSeq(line, b, e)) = IF b <= e THEN e - b + 1 ELSE 0
    BY <2>1, SubSeqProperties
  <2> QED BY <2>1, <2>2
<1>11. ASSUME NEW j \in b..Len(line), Run(line, b, j) PROVE j <= e
  <2>1. j \in Int /\ e \in Int
    BY <1>1, <1>4
  <2>2. CASE e < j
    <3>1. e + 1 \in b..j /\ e # Len(line)
      BY <1>1, <1>4, <2>1, <2>2
    <3> QED BY <1>4, <1>11, <3>1 DEF Run
  <2> QED BY <2>1, <2>2
<1>12. Run(line, b, e)
  BY <1>5 DEF Run
<1> QED BY <1>4, <1>9, <1>10, <1>11, <1>12

\* A run that nothing regular follows is the word.
LEMMA WordIs ==
  ASSUME NEW line \in Seq(Characters), NEW b \in 1..Len(line), NEW i \in b..Len(line),
         Run(line, b, i), i = Len(line) \/ line[i + 1] \notin Regular
  PROVE  TokenAt(line, b) = SubSeq(line, b, i) /\ Len(TokenAt(line, b)) = i - b + 1
<1>1. Len(line) \in Nat /\ b \in b..i
  BY StartsFacts
<1>2. line[b] \in Regular
  BY <1>1 DEF Run
<1>3. PICK e \in b..Len(line) :
           /\ TokenAt(line, b) = SubSeq(line, b, e) /\ Run(line, b, e)
           /\ Len(TokenAt(line, b)) = e - b + 1
           /\ \A j \in b..Len(line) : Run(line, b, j) => j <= e
  BY <1>2, WordEnds
<1>4. i <= e /\ i \in Int /\ e \in Int
  BY <1>1, <1>3
<1>5. ASSUME i < e PROVE FALSE
  <2>1. i + 1 \in b..e /\ i # Len(line)
    BY <1>1, <1>4, <1>5
  <2> QED BY <1>3, <2>1 DEF Run
<1>6. i = e
  BY <1>4, <1>5
<1> QED BY <1>3, <1>6

-----------------------------------------------------------------------------
(* One byte of tokenize.                                                   *)

Progress == [tokens : Seq(Seq(Characters)), strtemp : Seq(Characters), fits : BOOLEAN]

\* The tokens that start up to the i-th byte.
Listed(line, tokens, i) ==
  /\ Len(tokens) = Count(line, i)
  /\ \A x \in Starts(line) : x <= i => tokens[Count(line, x)] = TokenAt(line, x)

\* What tokenize has after i bytes without a newline: all tokens that are complete,
\* and in strtemp the beginning of a word.
Sound(line, s, i) ==
  /\ s \in Progress
  /\ WithinLimits(line) => s.fits
  /\ s.strtemp = <<>> => (i = 0 \/ line[i] \notin Regular) /\ Listed(line, s.tokens, i)
  /\ s.strtemp # <<>> =>
       \E b \in Starts(line) :
         /\ b <= i /\ Run(line, b, i)
         /\ s.strtemp = SubSeq(line, b, i) /\ Listed(line, s.tokens, b - 1)

\* Nothing starts within a word.
LEMMA NoStartInside ==
  ASSUME NEW line \in Seq(Characters), NEW b \in 1..Len(line), NEW i \in b..Len(line), Run(line, b, i)
  PROVE  /\ \A x \in Starts(line) : x <= i => x <= b
         /\ Count(line, i) = Count(line, b)
<1>1. Len(line) \in Nat /\ Starts(line) \subseteq 1..Len(line)
  BY StartsFacts
<1>2. ASSUME NEW x \in Starts(line), x <= i, b < x PROVE FALSE
  <2>1. x \in b..i /\ x - 1 \in b..i /\ x # 1
    BY <1>1, <1>2
  <2>2. line[x] \in Regular /\ line[x - 1] \in Regular
    BY <2>1 DEF Run
  <2>3. line[x] \notin Operators
    BY <2>2, RegularAssumption
  <2> QED BY <1>2, <2>1, <2>2, <2>3 DEF Starts
<1>3. \A x \in Starts(line) : x <= i => x <= b
  BY <1>1, <1>2
<1>4. {x \in Starts(line) : x <= i} = {x \in Starts(line) : x <= b}
  <2>1. \A x \in Starts(line) : x <= i <=> x <= b
    BY <1>1, <1>3
  <2> QED BY <2>1, Zenon
<1> QED BY <1>3, <1>4 DEF Count

\* One token more.
LEMMA OneMoreListed ==
  ASSUME NEW line \in Seq(Characters), NEW tokens \in Seq(Seq(Characters)), NEW b \in Starts(line),
         NEW word \in Seq(Characters), word = TokenAt(line, b), Listed(line, tokens, b - 1)
  PROVE  Append(tokens, word) \in Seq(Seq(Characters)) /\ Listed(line, Append(tokens, word), b)
<1>1. b \in Int /\ b - 1 \in Nat /\ Starts(line) \subseteq 1..Len(line) /\ Len(line) \in Nat
  BY StartsFacts
<1>2. Len(tokens) = Count(line, b - 1) /\ Len(tokens) \in Nat
  BY LenProperties DEF Listed
<1>3. Count(line, b) = Len(tokens) + 1
  BY <1>2, CountFacts
<1>4. /\ Append(tokens, word) \in Seq(Seq(Characters))
      /\ Len(Append(tokens, word)) = Len(tokens) + 1
      /\ \A j \in 1..Len(tokens) : Append(tokens, word)[j] = tokens[j]
      /\ Append(tokens, word)[Len(tokens) + 1] = word
  BY AppendProperties
<1>5. ASSUME NEW x \in Starts(line), x <= b
      PROVE  Append(tokens, word)[Count(line, x)] = TokenAt(line, x)
  <2>1. CASE x = b
    BY <1>3, <1>4, <2>1
  <2>2. CASE x # b
    <3>1. x \in Int /\ x <= b - 1
      BY <1>1, <1>5, <2>2
    <3>2. Count(line, x) \in Nat \ {0} /\ Count(line, x) <= Count(line, b - 1)
      BY <1>1, <3>1, Places
    <3>3. Count(line, x) \in 1..Len(tokens)
      BY <1>2, <3>2
    <3>4. tokens[Count(line, x)] = TokenAt(line, x)
      BY <3>1 DEF Listed
    <3> QED BY <1>4, <3>3, <3>4
  <2> QED BY <2>1, <2>2
<1> QED BY <1>3, <1>4, <1>5 DEF Listed

\* What is listed up to a byte with which nothing starts.
LEMMA SameListed ==
  ASSUME NEW line \in Seq(Characters), NEW tokens, NEW i \in Nat, i + 1 \notin Starts(line),
         Listed(line, tokens, i)
  PROVE  Listed(line, tokens, i + 1)
<1>1. i + 1 \in Int \ Starts(line) /\ (i + 1) - 1 = i
  OBVIOUS
<1>2. Count(line, i + 1) = Count(line, i)
  BY <1>1, CountFacts
<1>3. \A x \in Starts(line) : x <= i + 1 => x <= i
  BY StartsFacts
<1> QED BY <1>2, <1>3 DEF Listed

\* A byte that ends a word puts it behind the tokens.
LEMMA FlushedFacts ==
  ASSUME NEW line \in Seq(Characters), NEW i \in Nat, i < Len(line), NEW s, Sound(line, s, i),
         line[i + 1] \notin Regular
  PROVE  /\ Flushed(s) = [tokens |-> Flushed(s).tokens, strtemp |-> <<>>, fits |-> s.fits]
         /\ Flushed(s).tokens \in Seq(Seq(Characters)) /\ Listed(line, Flushed(s).tokens, i)
<1>1. s \in Progress /\ s = [tokens |-> s.tokens, strtemp |-> s.strtemp, fits |-> s.fits]
  BY DEF Sound, Progress
<1>2. CASE s.strtemp = <<>>
  BY <1>1, <1>2 DEF Sound, Flushed, Progress
<1>3. CASE s.strtemp # <<>>
  <2>1. PICK b \in Starts(line) :
         /\ b <= i /\ Run(line, b, i)
         /\ s.strtemp = SubSeq(line, b, i) /\ Listed(line, s.tokens, b - 1)
    BY <1>3 DEF Sound
  <2>2. b \in 1..Len(line) /\ i \in b..Len(line) /\ b \in Int /\ Len(line) \in Nat
    BY <2>1, StartsFacts
  <2>3. s.strtemp = TokenAt(line, b)
    BY <2>1, <2>2, WordIs
  <2>4. s.tokens \in Seq(Seq(Characters)) /\ s.strtemp \in Seq(Characters)
    BY <1>1 DEF Progress
  <2>5. /\ Append(s.tokens, s.strtemp) \in Seq(Seq(Characters))
        /\ Listed(line, Append(s.tokens, s.strtemp), b)
    BY <2>1, <2>3, <2>4, OneMoreListed
  <2>6. Listed(line, Append(s.tokens, s.strtemp), i)
    <3>1. Count(line, i) = Count(line, b) /\ \A x \in Starts(line) : x <= i => x <= b
      BY <2>1, <2>2, NoStartInside
    <3> QED BY <2>5, <3>1 DEF Listed
  <2>7. Flushed(s) = [tokens |-> Append(s.tokens, s.strtemp), strtemp |-> <<>>, fits |-> s.fits]
    BY <1>3 DEF Flushed
  <2> QED BY <2>5, <2>6, <2>7
<1> QED BY <1>2, <1>3

LEMMA SoundStep ==
  ASSUME NEW line \in Seq(Characters), NEW i \in Nat, i < Len(line), NEW s, Sound(line, s, i),
         line[i + 1] # NL
  PROVE  Sound(line, TokenizeByte(s, line[i + 1]), i + 1)
<1> DEFINE ch == line[i + 1]
           f == Flushed(s)
<1>1. /\ i + 1 \in 1..Len(line) /\ i + 1 \in Int /\ Len(line) \in Nat /\ DOMAIN line = 1..Len(line)
      /\ ch \in Regular \cup Operators \cup {Space} /\ ch \in Characters
  <2>1. Len(line) \in Nat /\ DOMAIN line = 1..Len(line)
    BY StartsFacts
  <2>2. i + 1 \in 1..Len(line) /\ i + 1 \in Int
    BY <2>1
  <2>3. ch \in Characters
    BY <2>2, ElementOfSeq
  <2> QED BY <2>1, <2>2, <2>3 DEF Characters
<1>2. /\ s \in Progress /\ s = [tokens |-> s.tokens, strtemp |-> s.strtemp, fits |-> s.fits]
      /\ WithinLimits(line) => s.fits
  BY DEF Sound, Progress
<1>3. <<>> \in Seq(Characters) /\ s.fits \in BOOLEAN
  BY <1>2, EmptySeq DEF Progress
<1>4. CASE ch = Space
  <2>1. ch \notin Regular /\ ch \notin Operators
    BY <1>4, RegularAssumption DEF Operators, Space
  <2>2. /\ f = [tokens |-> f.tokens, strtemp |-> <<>>, fits |-> s.fits]
        /\ f.tokens \in Seq(Seq(Characters)) /\ Listed(line, f.tokens, i)
    BY <2>1, FlushedFacts
  <2>3. i + 1 \notin Starts(line)
    BY <2>1 DEF Starts
  <2>4. Listed(line, f.tokens, i + 1)
    BY <2>2, <2>3, SameListed
  <2>5. TokenizeByte(s, ch) = f
    BY <1>4 DEF TokenizeByte
  <2> HIDE DEF f, ch
  <2>6. f \in Progress /\ f.strtemp = <<>> /\ f.fits = s.fits
    <3> DEFINE all == f.tokens
    <3>1. f = [tokens |-> all, strtemp |-> <<>>, fits |-> s.fits] /\ all \in Seq(Seq(Characters))
      BY <2>2
    <3> HIDE DEF all
    <3> QED BY <1>3, <3>1 DEF Progress
  <2>7. Sound(line, f, i + 1)
    BY <1>2, <2>1, <2>4, <2>6 DEF Sound, ch
  <2> QED BY <2>5, <2>7 DEF ch
<1>5. CASE ch \in Operators
  <2>1. ch \notin Regular /\ ch # Space
    BY <1>5, RegularAssumption DEF Operators, Space
  <2>2. /\ f = [tokens |-> f.tokens, strtemp |-> <<>>, fits |-> s.fits]
        /\ f.tokens \in Seq(Seq(Characters)) /\ Listed(line, f.tokens, i)
    BY <2>1, FlushedFacts
  <2>3. i + 1 \in Starts(line) /\ TokenAt(line, i + 1) = <<ch>> /\ <<ch>> \in Seq(Characters)
    BY <1>1, <1>5 DEF Starts, TokenAt
  <2> DEFINE more == Append(f.tokens, <<ch>>)
             t == TokenizeByte(s, ch)
  <2>4. t = [f EXCEPT !.tokens = more]
    BY <1>5, <2>1 DEF TokenizeByte
  <2>5. more \in Seq(Seq(Characters)) /\ Listed(line, more, i + 1)
    <3>1. (i + 1) - 1 = i
      OBVIOUS
    <3> QED BY <2>2, <2>3, <3>1, OneMoreListed
  <2> HIDE DEF f, ch, more, t
  <2>6. t = [tokens |-> more, strtemp |-> <<>>, fits |-> s.fits]
    BY <2>2, <2>4
  <2>7. t \in Progress /\ t.strtemp = <<>> /\ t.fits = s.fits /\ t.tokens = more
    BY <1>3, <2>5, <2>6 DEF Progress
  <2>8. Sound(line, t, i + 1)
    BY <1>2, <2>1, <2>5, <2>7 DEF Sound, ch
  <2> QED BY <2>8 DEF t, ch
<1>6. CASE ch \in Regular
  <2>1. ch \notin Operators /\ ch # Space
    BY <1>6, RegularAssumption DEF Operators, Space
  <2> DEFINE word == Append(s.strtemp, ch)
             t == TokenizeByte(s, ch)
  <2>2. /\ s.tokens \in Seq(Seq(Characters)) /\ s.strtemp \in Seq(Characters) /\ Len(s.strtemp) \in Nat
        /\ word \in Seq(Characters) /\ word # <<>> /\ Len(word) = Len(s.strtemp) + 1
    <3>1. s.tokens \in Seq(Seq(Characters)) /\ s.strtemp \in Seq(Characters)
      BY <1>2 DEF Progress
    <3> QED BY <1>1, <3>1, AppendProperties, LenProperties
  <2>3. t = [tokens |-> s.tokens, strtemp |-> word, fits |-> (s.fits /\ Len(s.strtemp) + 1 < MaxToken)]
    <3>1. t = [s EXCEPT !.strtemp = Append(@, ch), !.fits = @ /\ Len(s.strtemp) + 1 < MaxToken]
      BY <2>1 DEF TokenizeByte
    <3> HIDE DEF t, ch
    <3> QED BY <1>2, <3>1
  <2>4. \E b \in Starts(line) :
         /\ b <= i + 1 /\ Run(line, b, i + 1)
         /\ word = SubSeq(line, b, i + 1) /\ Listed(line, s.tokens, b - 1)
    <3>1. CASE s.strtemp = <<>>
      <4>1. (i = 0 \/ line[i] \notin Regular) /\ Listed(line, s.tokens, i)
        BY <3>1 DEF Sound
      <4>2. i + 1 \in Starts(line) /\ (i + 1) - 1 = i
        BY <1>1, <1>6, <4>1 DEF Starts
      <4>3. Run(line, i + 1, i + 1)
        <5>1. \A j \in i + 1..i + 1 : j = i + 1
          BY <1>1
        <5> QED BY <1>6, <5>1 DEF Run
      <4>4. word = SubSeq(line, i + 1, i + 1)
        <5>1. word = <<ch>>
          BY <3>1
        <5>2. i + 1 \in i + 1..Len(line)
          BY <1>1
        <5>3. SubSeq(line, i + 1, i + 1) = SubSeq(line, i + 1, (i + 1) - 1) \o <<line[i + 1]>>
          BY <1>1, <5>2, SubSeqRecursiveSecond
        <5>4. SubSeq(line, i + 1, (i + 1) - 1) = <<>>
          BY <1>1, SubSeqEmpty
        <5>5. <<>> \o <<line[i + 1]>> = <<line[i + 1]>>
          BY <1>1, ConcatEmptySeq
        <5> QED BY <5>1, <5>3, <5>4, <5>5
      <4> HIDE DEF word, ch, t, f
      <4> QED BY <1>1, <4>1, <4>2, <4>3, <4>4
    <3>2. CASE s.strtemp # <<>>
      <4>1. PICK b \in Starts(line) :
              /\ b <= i /\ Run(line, b, i)
              /\ s.strtemp = SubSeq(line, b, i) /\ Listed(line, s.tokens, b - 1)
        BY <3>2 DEF Sound
      <4>2. b \in 1..Len(line) /\ b \in Int /\ i + 1 \in b..Len(line) /\ (i + 1) - 1 = i /\ b <= i + 1
        BY <1>1, <4>1, StartsFacts
      <4>3. SubSeq(line, b, i + 1) = SubSeq(line, b, i) \o <<line[i + 1]>>
        BY <4>2, SubSeqRecursiveSecond
      <4>4. word = s.strtemp \o <<ch>>
        BY <1>1, <2>2, AppendIsConcat
      <4>5. Run(line, b, i + 1)
        <5>1. \A j \in b..i + 1 : j \in b..i \/ j = i + 1
          BY <4>2
        <5> QED BY <1>6, <4>1, <5>1 DEF Run
      <4> HIDE DEF word, t, f
      <4> QED BY <4>1, <4>2, <4>3, <4>4, <4>5
    <3> QED BY <3>1, <3>2
  <2> HIDE DEF word
  <2>5. WithinLimits(line) => Len(s.strtemp) + 1 < MaxToken
    <3> SUFFICES ASSUME WithinLimits(line) PROVE Len(s.strtemp) + 1 < MaxToken
      OBVIOUS
    <3>1. PICK b \in Starts(line) : b <= i + 1 /\ Run(line, b, i + 1) /\ word = SubSeq(line, b, i + 1)
      BY <2>4
    <3>2. b \in 1..Len(line) /\ b \in Int /\ i + 1 \in b..Len(line) /\ line[b] \in Regular
      <4>1. b \in 1..Len(line) /\ b \in Int /\ i + 1 \in b..Len(line) /\ b \in b..i + 1
        BY <1>1, <3>1, StartsFacts
      <4> QED BY <3>1, <4>1 DEF Run
    <3>3. PICK e \in b..Len(line) :
           /\ Len(TokenAt(line, b)) = e - b + 1
           /\ \A j \in b..Len(line) : Run(line, b, j) => j <= e
      BY <3>2, WordEnds
    <3>4. i + 1 <= e /\ e \in Int
      BY <1>1, <3>1, <3>2, <3>3
    <3>5. Len(word) = i + 1 - b + 1
      <4>1. \A j \in b..i + 1 : line[j] \in Characters
        BY <1>1, <3>2, ElementOfSeq
      <4>2. Len(SubSeq(line, b, i + 1)) = IF b <= i + 1 THEN i + 1 - b + 1 ELSE 0
        BY <1>1, <3>2, <4>1, SubSeqProperties
      <4> QED BY <3>1, <4>2
    <3>6. e - b + 1 < MaxToken - 1
      BY <3>3 DEF WithinLimits
    <3>7. MaxToken \in Nat
      BY LengthsAssumption
    <3> QED BY <2>2, <3>2, <3>4, <3>5, <3>6, <3>7
  <2>6. t \in Progress /\ t.tokens = s.tokens /\ t.strtemp = word /\ (WithinLimits(line) => t.fits)
    <3> HIDE DEF t
    <3>1. (s.fits /\ Len(s.strtemp) + 1 < MaxToken) \in BOOLEAN
      OBVIOUS
    <3>2. t.tokens = s.tokens /\ t.strtemp = word /\ t.fits = (s.fits /\ Len(s.strtemp) + 1 < MaxToken)
      BY <2>3
    <3>3. t \in Progress
      BY <2>2, <2>3, <3>1 DEF Progress
    <3> QED BY <1>2, <2>5, <3>2, <3>3
  <2> HIDE DEF t, ch, f
  <2>7. Sound(line, t, i + 1)
    BY <2>2, <2>4, <2>6 DEF Sound
  <2> QED BY <2>7 DEF t, ch
<1> QED BY <1>1, <1>4, <1>5, <1>6

-----------------------------------------------------------------------------
(* A whole line.                                                           *)

Whole(line) == line \in Seq(Characters) /\ line # <<>> /\ Complete(line, Len(line))

LEMMA WholeFacts ==
  ASSUME NEW line, Whole(line)
  PROVE  /\ line \in Seq(Characters) /\ Len(line) \in Nat \ {0} /\ DOMAIN line = 1..Len(line)
         /\ line[Len(line)] = NL /\ \A q \in 1..Len(line) - 1 : line[q] # NL
         /\ NL \notin Regular /\ NL \notin Operators /\ NL # Space
         /\ Len(line) \notin Starts(line)
<1>1. /\ line \in Seq(Characters) /\ Len(line) \in Nat \ {0} /\ DOMAIN line = 1..Len(line)
  BY EmptySeq, LenProperties DEF Whole
<1>2. line[Len(line)] = NL /\ \A q \in 1..Len(line) - 1 : line[q] # NL
  BY DEF Whole, Complete
<1>3. NL \notin Regular /\ NL \notin Operators /\ NL # Space
  BY RegularAssumption DEF NL, Operators, Space
<1>4. Len(line) \notin Starts(line)
  BY <1>2, <1>3 DEF Starts
<1> QED BY <1>1, <1>2, <1>3, <1>4

\* Up to the newline what tokenize has is sound.
LEMMA SoundStates ==
  ASSUME NEW line, Whole(line), NEW i \in 0..Len(line) - 1
  PROVE  Sound(line, States(line)[i], i)
<1> DEFINE Bad == {m \in 0..Len(line) - 1 : ~Sound(line, States(line)[m], m)}
<1>1. /\ line \in Seq(Characters) /\ Len(line) \in Nat /\ \A q \in 1..Len(line) - 1 : line[q] # NL
  BY WholeFacts
<1>2. ASSUME Bad # {} PROVE FALSE
  <2>1. Bad \in SUBSET Nat
    BY <1>1
  <2>2. PICK m \in Bad : \A y \in Bad : m <= y
    BY <1>2, <2>1, LeastNat
  <2>3. m \in 0..Len(line) - 1 /\ ~Sound(line, States(line)[m], m)
    OBVIOUS
  <2>4. CASE m = 0
    <3>1. States(line)[0] = Fresh
      BY <1>1, LoopSteps
    <3>2. <<>> \in Seq(Characters) /\ <<>> \in Seq(Seq(Characters)) /\ Len(<<>>) = 0
      BY EmptySeq
    <3>3. Listed(line, <<>>, 0)
      <4>1. Count(line, 0) = 0
        BY <1>1, CountFacts
      <4>2. \A x \in Starts(line) : ~(x <= 0)
        BY <1>1, StartsFacts
      <4> QED BY <3>2, <4>1, <4>2 DEF Listed
    <3>4. Sound(line, Fresh, 0)
      BY <3>2, <3>3 DEF Sound, Fresh, Progress
    <3> QED BY <2>3, <2>4, <3>1, <3>4
  <2>5. CASE m # 0
    <3>1. m - 1 \in 0..Len(line) - 1 /\ m - 1 \in Nat /\ m - 1 < Len(line) /\ (m - 1) + 1 = m /\ m \in 1..Len(line)
      BY <1>1, <2>3, <2>5
    <3>2. m - 1 \notin Bad
      <4> HIDE DEF Bad
      <4>1. ~(m <= m - 1)
        BY <3>1
      <4> QED BY <2>2, <4>1
    <3>3. Sound(line, States(line)[m - 1], m - 1)
      BY <3>1, <3>2
    <3>4. line[m] # NL
      BY <1>1, <2>3, <2>5
    <3>5. Sound(line, TokenizeByte(States(line)[m - 1], line[(m - 1) + 1]), (m - 1) + 1)
      BY <1>1, <3>1, <3>3, <3>4, SoundStep
    <3>6. States(line)[m] = TokenizeByte(States(line)[m - 1], line[m])
      BY <1>1, <3>1, LoopSteps
    <3> QED BY <2>3, <3>1, <3>5, <3>6
  <2> QED BY <2>4, <2>5
<1> QED BY <1>2

\* A token has no newline in it.
LEMMA NoNewlineInToken ==
  ASSUME NEW line, Whole(line), NEW x \in Starts(line)
  PROVE  /\ \A j \in DOMAIN TokenAt(line, x) : TokenAt(line, x)[j] # NL
         /\ Len(TokenAt(line, x)) \in Nat \ {0}
<1>1. /\ line \in Seq(Characters) /\ Len(line) \in Nat /\ NL \notin Regular /\ NL \notin Operators
      /\ x \in 1..Len(line)
  BY WholeFacts, StartsFacts
<1>2. CASE line[x] \in Operators
  <2>1. TokenAt(line, x) = <<line[x]>>
    BY <1>2 DEF TokenAt
  <2> QED BY <1>1, <1>2, <2>1
<1>3. CASE line[x] \notin Operators
  <2>1. line[x] \in Regular
    BY <1>3 DEF Starts
  <2>2. PICK e \in x..Len(line) :
           TokenAt(line, x) = SubSeq(line, x, e) /\ Run(line, x, e)
    BY <1>1, <2>1, WordEnds
  <2>3. x \in Int /\ e \in Int /\ x <= e /\ \A j \in x..e : line[j] \in Regular
    BY <1>1, <2>2 DEF Run
  <2>4. /\ SubSeq(line, x, e) \in Seq(Regular)
        /\ Len(SubSeq(line, x, e)) = IF x <= e THEN e - x + 1 ELSE 0
    BY <2>3, SubSeqProperties
  <2>5. \A j \in DOMAIN SubSeq(line, x, e) : SubSeq(line, x, e)[j] \in Regular
    BY <2>4, LenProperties
  <2> QED BY <1>1, <2>2, <2>3, <2>4, <2>5
<1> QED BY <1>2, <1>3

\* The last place is taken.
LEMMA LastPlace ==
  ASSUME NEW line \in Seq(Characters), Starts(line) # {}
  PROVE  \E x \in Starts(line) : Count(line, x) = Cardinality(Starts(line))
<1> DEFINE Reached(m) == Count(line, m) = Cardinality(Starts(line))
           T == {m \in Nat : Reached(m)}
<1>1. Len(line) \in Nat /\ Starts(line) \subseteq 1..Len(line) /\ IsFiniteSet(Starts(line))
  BY StartsFacts
<1>2. Len(line) \in T
  BY <1>1, CountFacts
<1>3. PICK m \in T : \A y \in T : m <= y
  <2>1. T \in SUBSET Nat /\ T # {}
    BY <1>2
  <2> HIDE DEF T
  <2> QED BY <2>1, LeastNat
<1>4. m \in Nat /\ Reached(m)
  OBVIOUS
<1>5. m # 0
  <2>1. Cardinality(Starts(line)) # 0
    BY <1>1, FS_EmptySet
  <2> QED BY <1>4, <2>1, CountFacts
<1>6. ASSUME m \notin Starts(line) PROVE FALSE
  <2>1. Count(line, m) = Count(line, m - 1)
    BY <1>4, <1>6, CountFacts
  <2>2. m - 1 \in Nat /\ ~(m <= m - 1)
    BY <1>4, <1>5
  <2>3. m - 1 \in T
    BY <1>4, <2>1, <2>2
  <2> HIDE DEF T
  <2> QED BY <1>3, <2>2, <2>3
<1> QED BY <1>4, <1>6

\* tokenize gives the tokens of a line shorter than its block in their order.
LEMMA TokensOfLine ==
  ASSUME NEW line, Whole(line), Starts(line) # {}, WithinLimits(line),
         NEW size \in Nat, Len(line) < size
  PROVE  Listed(line, ShellTokenize(line, size), Len(line))
<1> DEFINE n == Len(line)
           s == States(line)[n - 1]
           t == States(line)[n]
           flushed == IF Len(t.strtemp) > 1 THEN Flushed(t).tokens ELSE t.tokens
           last == flushed[Len(flushed)]
<1>1. /\ line \in Seq(Characters) /\ n \in Nat \ {0} /\ DOMAIN line = 1..n
      /\ line[n] = NL /\ NL \notin Regular /\ NL \notin Operators /\ NL # Space
      /\ n \notin Starts(line)
  BY WholeFacts
<1>2. Sound(line, s, n - 1)
  <2>1. n - 1 \in 0..Len(line) - 1
    BY <1>1
  <2> QED BY <2>1, SoundStates
<1>3. t = TokenizeByte(s, NL) /\ TokenizeBytes(line) = t
  <2>1. n \in 1..Len(line) /\ Len(line) \in Nat
    BY <1>1
  <2> QED BY <1>1, <2>1, LoopSteps
<1> HIDE DEF s, t
<1>4. /\ s \in Progress /\ s = [tokens |-> s.tokens, strtemp |-> s.strtemp, fits |-> s.fits]
      /\ s.tokens \in Seq(Seq(Characters)) /\ s.strtemp \in Seq(Characters) /\ s.fits = TRUE
      /\ Len(s.strtemp) \in Nat
  BY <1>2, LenProperties DEF Sound, Progress
<1> DEFINE word == Append(s.strtemp, NL)
<1>5. NL \in Characters /\ word \in Seq(Characters) /\ Len(word) = Len(s.strtemp) + 1
      /\ (\A j \in 1..Len(s.strtemp) : word[j] = s.strtemp[j]) /\ word[Len(s.strtemp) + 1] = NL
      /\ DOMAIN word = 1..Len(word)
  <2>1. NL \in Characters
    BY DEF Characters
  <2> QED BY <1>4, <2>1, AppendProperties, LenProperties
<1>6. t = [tokens |-> s.tokens, strtemp |-> word, fits |-> (s.fits /\ Len(s.strtemp) + 1 < MaxToken)]
  <2>1. t = [s EXCEPT !.strtemp = Append(@, NL), !.fits = @ /\ Len(s.strtemp) + 1 < MaxToken]
    BY <1>1, <1>3 DEF TokenizeByte
  <2> QED BY <1>4, <2>1
<1>7. /\ Cardinality(Starts(line)) \in Nat /\ Cardinality(Starts(line)) <= MaxTokens
      /\ \A x \in Starts(line) : Len(TokenAt(line, x)) \in Nat \ {0} /\ Len(TokenAt(line, x)) < MaxToken - 1
      /\ MaxToken \in Nat /\ MaxTokens \in Nat
  BY <1>1, StartsFacts, NoNewlineInToken, LengthsAssumption DEF WithinLimits
<1>8. /\ Count(line, n) = Cardinality(Starts(line)) /\ Count(line, n - 1) = Count(line, n)
      /\ \A x \in Starts(line) : x <= n - 1
  <2>1. n \in Int \ Starts(line)
    BY <1>1
  <2>2. \A x \in Starts(line) : x <= n /\ x # n /\ x \in Int
    BY <1>1, StartsFacts
  <2>3. \A x \in Starts(line) : x <= n - 1
    BY <1>1, <2>2
  <2> QED BY <1>1, <2>1, <2>3, CountFacts
<1>9. line # <<NL>>
  <2>1. ASSUME line = <<NL>> PROVE FALSE
    <3>1. n = 1
      BY <2>1
    <3> QED BY <1>8, <3>1, StartsFacts, <1>1
  <2> QED BY <2>1
<1>12. ~(size <= Len(line))
  <2>1. \A i, j \in Nat : i < j => ~(j <= i)
    OBVIOUS
  <2> QED BY <1>1, <2>1
<1> HIDE DEF n, word
<1>10. CASE s.strtemp = <<>>
  <2>1. Listed(line, s.tokens, n - 1)
    BY <1>2, <1>10 DEF Sound
  <2>2. Len(word) = 1 /\ 0 + 1 < MaxToken
    <3>1. Len(s.strtemp) = 0
      BY <1>10
    <3>2. \E x \in Starts(line) : TRUE
      OBVIOUS
    <3> QED BY <1>5, <1>7, <3>1, <3>2
  <2>3. t.strtemp = word /\ t.tokens = s.tokens /\ t.fits = TRUE
    <3>1. t.strtemp = word /\ t.tokens = s.tokens
          /\ t.fits = (s.fits /\ Len(s.strtemp) + 1 < MaxToken)
      BY <1>6
    <3>2. Len(s.strtemp) = 0
      BY <1>10
    <3> QED BY <1>4, <2>2, <3>1, <3>2
  <2>4. flushed = s.tokens
    <3>1. Len(t.strtemp) = 1
      BY <2>2, <2>3
    <3>2. flushed = t.tokens
      BY <3>1
    <3> QED BY <2>3, <3>2
  <2>5. Len(s.tokens) = Cardinality(Starts(line)) /\ Listed(line, s.tokens, n)
    <3>1. \A x \in Starts(line) : s.tokens[Count(line, x)] = TokenAt(line, x)
      BY <1>8, <2>1 DEF Listed
    <3>2. Len(s.tokens) = Cardinality(Starts(line))
      BY <1>8, <2>1 DEF Listed
    <3> QED BY <1>8, <3>1, <3>2 DEF Listed
  <2>6. PICK x \in Starts(line) : Count(line, x) = Cardinality(Starts(line))
    BY <1>1, LastPlace
  <2>7. last = TokenAt(line, x)
    <3>1. x <= n /\ Len(s.tokens) = Count(line, x)
      BY <1>1, <2>5, <2>6, StartsFacts DEF n
    <3>2. s.tokens[Count(line, x)] = TokenAt(line, x)
      BY <2>5, <3>1 DEF Listed
    <3>3. last = s.tokens[Len(s.tokens)]
      BY <2>4
    <3> QED BY <3>1, <3>2, <3>3
  <2>8. \A j \in DOMAIN last : last[j] # NL
    BY <2>7, NoNewlineInToken
  <2>9. s.tokens # <<>>
    <3>1. Starts(line) # {} /\ IsFiniteSet(Starts(line))
      BY <1>1, StartsFacts
    <3>2. Cardinality(Starts(line)) # 0
      BY <3>1, FS_EmptySet
    <3> QED BY <2>5, <3>2
  <2> HIDE DEF last
  <2>10. ShellTokenize(line, size) = flushed
    <3>1. ~(Len(flushed) > MaxTokens)
      BY <1>7, <2>4, <2>5
    <3>2. ShellTokenize(line, size) =
            IF line = <<NL>> THEN <<>>
            ELSE IF ~t.fits \/ Len(flushed) > MaxTokens \/ flushed = <<>> THEN Undefined
            ELSE IF \E i \in DOMAIN last : last[i] = NL
              THEN [flushed EXCEPT ![Len(flushed)] = SubSeq(last, 1, Len(last) - 1)]
            ELSE flushed
      BY <1>3, <1>12 DEF ShellTokenize, last
    <3> HIDE DEF flushed
    <3> QED BY <1>9, <2>3, <2>4, <2>8, <2>9, <3>1, <3>2
  <2> QED BY <2>4, <2>5, <2>10 DEF n
<1>11. CASE s.strtemp # <<>>
  <2>1. PICK b \in Starts(line) :
         /\ b <= n - 1 /\ Run(line, b, n - 1)
         /\ s.strtemp = SubSeq(line, b, n - 1) /\ Listed(line, s.tokens, b - 1)
    BY <1>2, <1>11 DEF Sound
  <2>2. b \in 1..Len(line) /\ n - 1 \in b..Len(line) /\ (n - 1) + 1 = n /\ b \in Int
    BY <1>1, <2>1, StartsFacts DEF n
  <2>3. s.strtemp = TokenAt(line, b)
    BY <1>1, <2>1, <2>2, WordIs
  <2>4. Len(word) > 1 /\ Len(s.strtemp) + 1 < MaxToken /\ Len(s.strtemp) > 0 /\ word # <<>>
    BY <1>4, <1>5, <1>7, <2>3
  <2>5. t.strtemp = word /\ t.tokens = s.tokens /\ t.fits = TRUE
    <3>1. t.strtemp = word /\ t.tokens = s.tokens
          /\ t.fits = (s.fits /\ Len(s.strtemp) + 1 < MaxToken)
      BY <1>6
    <3> QED BY <1>4, <2>4, <3>1
  <2> DEFINE k == Len(s.tokens)
  <2>6. flushed = Append(s.tokens, word)
    BY <2>4, <2>5 DEF Flushed
  <2>7. /\ flushed \in Seq(Seq(Characters)) /\ Len(flushed) = k + 1 /\ k \in Nat
        /\ flushed # <<>> /\ flushed[k + 1] = word
        /\ \A j \in 1..k : flushed[j] = s.tokens[j]
    <3>1. k \in Nat
      BY <1>4, LenProperties
    <3>2. /\ Append(s.tokens, word) \in Seq(Seq(Characters)) /\ Len(Append(s.tokens, word)) = k + 1
          /\ Append(s.tokens, word) # <<>> /\ Append(s.tokens, word)[k + 1] = word
          /\ \A j \in 1..k : Append(s.tokens, word)[j] = s.tokens[j]
      BY <1>4, <1>5, AppendProperties
    <3> HIDE DEF flushed
    <3> QED BY <2>6, <3>1, <3>2
  <2>8. last = word
    BY <2>7
  <2>9. SubSeq(word, 1, Len(word) - 1) = s.strtemp
    <3>1. Len(word) - 1 = Len(s.strtemp)
      BY <1>4, <1>5
    <3>2. word = s.strtemp \o <<NL>>
      BY <1>4, <1>5, AppendIsConcat DEF word
    <3>3. <<NL>> \in Seq(Characters)
      BY <1>5
    <3>4. 1 \in 1..Len(s.strtemp) /\ Len(s.strtemp) \in 1..Len(s.strtemp)
      BY <1>4, <2>4
    <3>5. SubSeq(s.strtemp \o <<NL>>, 1, Len(s.strtemp)) = SubSeq(s.strtemp, 1, Len(s.strtemp))
      BY <1>4, <3>3, <3>4, SubSeqOfConcat1
    <3>6. SubSeq(s.strtemp, 1, Len(s.strtemp)) = s.strtemp
      BY <1>4, SubSeqFull
    <3> QED BY <3>1, <3>2, <3>5, <3>6
  <2>10. \E j \in DOMAIN word : word[j] = NL
    <3>1. Len(s.strtemp) + 1 \in DOMAIN word
      BY <1>4, <1>5
    <3> QED BY <1>5, <3>1
  <2> DEFINE tokens == [flushed EXCEPT ![k + 1] = s.strtemp]
  <2>11. Listed(line, Append(s.tokens, s.strtemp), b)
    BY <1>1, <1>4, <2>1, <2>3, OneMoreListed
  <2>12. tokens = Append(s.tokens, s.strtemp)
    <3>1. /\ Append(s.tokens, s.strtemp) \in Seq(Seq(Characters))
          /\ Len(Append(s.tokens, s.strtemp)) = k + 1
          /\ \A j \in 1..k : Append(s.tokens, s.strtemp)[j] = s.tokens[j]
          /\ Append(s.tokens, s.strtemp)[k + 1] = s.strtemp
      BY <1>4, AppendProperties
    <3>2. k + 1 \in 1..Len(flushed)
      BY <2>7
    <3> HIDE DEF flushed, k
    <3>3. /\ tokens \in Seq(Seq(Characters)) /\ Len(tokens) = k + 1
          /\ \A j \in 1..k + 1 : tokens[j] = IF j = k + 1 THEN s.strtemp ELSE flushed[j]
      BY <1>4, <2>7, <3>2, ExceptSeq
    <3>4. \A j \in 1..k + 1 : tokens[j] = Append(s.tokens, s.strtemp)[j]
      <4>1. \A j \in 1..k + 1 : j = k + 1 \/ j \in 1..k
        BY <2>7
      <4> HIDE DEF tokens
      <4> QED BY <2>7, <3>1, <3>3, <4>1
    <3> HIDE DEF tokens
    <3> QED BY <3>1, <3>3, <3>4, SeqEqual
  <2>13. Count(line, n) = Count(line, b) /\ \A x \in Starts(line) : x <= b
    <3>1. Count(line, n - 1) = Count(line, b) /\ \A x \in Starts(line) : x <= n - 1 => x <= b
      BY <1>1, <2>1, <2>2, NoStartInside
    <3> QED BY <1>8, <3>1
  <2>14. Listed(line, tokens, n)
    <3> HIDE DEF tokens
    <3> QED BY <2>11, <2>12, <2>13 DEF Listed
  <2>15. Len(flushed) <= MaxTokens
    <3>1. Len(tokens) = Cardinality(Starts(line))
      <4> HIDE DEF tokens
      <4> QED BY <1>8, <2>14 DEF Listed
    <3>2. Len(tokens) = Len(flushed)
      <4>1. k + 1 \in 1..Len(flushed)
        BY <2>7
      <4> HIDE DEF flushed, k
      <4> QED BY <1>4, <2>7, <4>1, ExceptSeq
    <3> HIDE DEF tokens, flushed
    <3> QED BY <1>7, <3>1, <3>2
  <2>16. ShellTokenize(line, size) = tokens
    <3>1. ShellTokenize(line, size) =
            IF line = <<NL>> THEN <<>>
            ELSE IF ~t.fits \/ Len(flushed) > MaxTokens \/ flushed = <<>> THEN Undefined
            ELSE IF \E i \in DOMAIN last : last[i] = NL
              THEN [flushed EXCEPT ![Len(flushed)] = SubSeq(last, 1, Len(last) - 1)]
            ELSE flushed
      BY <1>3, <1>12 DEF ShellTokenize
    <3> HIDE DEF last, flushed
    <3>2. ~(Len(flushed) > MaxTokens)
      BY <1>7, <2>7, <2>15
    <3>3. ShellTokenize(line, size) = [flushed EXCEPT ![Len(flushed)] = SubSeq(last, 1, Len(last) - 1)]
      BY <1>9, <2>5, <2>7, <2>8, <2>10, <3>1, <3>2
    <3> QED BY <2>7, <2>8, <2>9, <3>3
  <2> HIDE DEF tokens
  <2> QED BY <2>14, <2>16 DEF n
<1> QED BY <1>10, <1>11

\* Every line that is not blank, stays within the arrays and is shorter than the
\* block it is in becomes the tokens the user typed, in order, wherever its blanks
\* are.  Of a line that fills its block nothing is claimed.
THEOREM TokensAreAsTyped == LinesSpec => []TokensAsTyped
<1>1. LinesInv => TokensAsTyped
  <2> SUFFICES ASSUME LinesInv, Len(handed) < lineSize
               PROVE  LET tokens == ShellTokenize(handed, lineSize)
                          starts == Starts(handed)
                      IN  /\ handed = <<NL>> => tokens = <<>>
                          /\ starts # {} /\ WithinLimits(handed) =>
                               /\ Len(tokens) = Cardinality(starts)
                               /\ \A i \in starts :
                                    tokens[Cardinality({s \in starts : s <= i})]
                                      = TokenAt(handed, i)
    BY DEF TokensAsTyped
  <2>1. /\ handed \in Seq(Characters) /\ (handed # <<>> => Complete(handed, Len(handed)))
        /\ lineSize \in Nat /\ Len(handed) \in Nat
    BY LenProperties DEF LinesInv, TypesInv, OneLineAtATime
  <2>2. ASSUME handed = <<NL>> PROVE ShellTokenize(handed, lineSize) = <<>>
    <3>1. \A i, j \in Nat : i < j => ~(j <= i)
      OBVIOUS
    <3>2. ~(lineSize <= Len(handed))
      BY <2>1, <3>1
    <3> QED BY <2>2, <3>2 DEF ShellTokenize
  <2>3. ASSUME Starts(handed) # {}, WithinLimits(handed)
        PROVE  /\ Len(ShellTokenize(handed, lineSize)) = Cardinality(Starts(handed))
               /\ \A i \in Starts(handed) :
                    ShellTokenize(handed, lineSize)[Cardinality({s \in Starts(handed) : s <= i})]
                      = TokenAt(handed, i)
    <3>1. handed # <<>>
      <4>1. handed = <<>> => Starts(handed) = {}
        BY DEF Starts
      <4> QED BY <2>3, <4>1
    <3>2. Listed(handed, ShellTokenize(handed, lineSize), Len(handed))
      BY <2>1, <2>3, <3>1, TokensOfLine DEF Whole
    <3>3. Count(handed, Len(handed)) = Cardinality(Starts(handed))
      BY <2>1, CountFacts
    <3>4. \A i \in Starts(handed) : i <= Len(handed)
      BY <2>1, StartsFacts
    <3> QED BY <3>2, <3>3, <3>4 DEF Listed, Count
  <2> QED BY <2>2, <2>3
<1> QED BY <1>1, LinesInvariant, PTL

-----------------------------------------------------------------------------
(* The lines of the board.                                                 *)

Three(r, c, d, e) == {<<r + k * d, c + k * e>> : k \in 0..2}

Threes == {Three(r, c, d, e) : r \in Index, c \in Index, d \in -1..1, e \in -1..1}

LEMMA GridLinesAreThrees ==
  /\ GridLines = {L \in Threes : L \subseteq Cells /\ Cardinality(L) = 3}
  /\ \A L : L \in Threes <=> \E r \in Index, c \in Index, d \in -1..1, e \in -1..1 :
                                L = Three(r, c, d, e)
<1>1. GridLines = {L \in Threes : L \subseteq Cells /\ Cardinality(L) = 3}
  BY DEF GridLines, Threes, Three
<1>2. \A L : L \in Threes <=> \E r \in Index, c \in Index, d \in -1..1, e \in -1..1 :
                                L = Three(r, c, d, e)
  BY DEF Threes
<1> QED BY <1>1, <1>2

LEMMA ThreeCells ==
  ASSUME NEW r \in Int, NEW c \in Int, NEW d \in Int, NEW e \in Int
  PROVE  Three(r, c, d, e) = {<<r, c>>, <<r + d, c + e>>, <<r + 2 * d, c + 2 * e>>}
<1>1. \A k \in 0..2 : k = 0 \/ k = 1 \/ k = 2
  OBVIOUS
<1>2. 0 \in 0..2 /\ 1 \in 0..2 /\ 2 \in 0..2
  OBVIOUS
<1>3. 0 * d = 0 /\ 1 * d = d /\ 0 * e = 0 /\ 1 * e = e
  OBVIOUS
<1>4. r + 0 = r /\ c + 0 = c
  OBVIOUS
<1> DEFINE f(k) == <<r + k * d, c + k * e>>
<1>5. f(0) = <<r, c>> /\ f(1) = <<r + d, c + e>> /\ f(2) = <<r + 2 * d, c + 2 * e>>
  BY <1>3, <1>4
<1>6. Three(r, c, d, e) = {f(k) : k \in 0..2}
  BY DEF Three
<1> HIDE DEF f
<1>7. {f(k) : k \in 0..2} = {f(0), f(1), f(2)}
  BY <1>1, <1>2
<1> QED BY <1>5, <1>6, <1>7

\* Cells one step apart are three unless the step is none.
LEMMA ThreeAreThree ==
  ASSUME NEW r \in Int, NEW c \in Int, NEW d \in Int, NEW e \in Int
  PROVE  Cardinality(Three(r, c, d, e)) = IF d = 0 /\ e = 0 THEN 1 ELSE 3
<1> DEFINE p == <<r, c>>
           q == <<r + d, c + e>>
           s == <<r + 2 * d, c + 2 * e>>
<1>1. Three(r, c, d, e) = {p, q, s}
  BY ThreeCells
<1>2. CASE d = 0 /\ e = 0
  <2>1. p = q /\ q = s
    BY <1>2
  <2> HIDE DEF p, q, s
  <2>2. {p, q, s} = {p}
    BY <2>1
  <2> QED BY <1>1, <1>2, <2>2, FS_Singleton
<1>3. CASE ~(d = 0 /\ e = 0)
  <2>1. p # q /\ q # s /\ p # s
    BY <1>3
  <2> HIDE DEF p, q, s
  <2>2. IsFiniteSet({p}) /\ Cardinality({p}) = 1
    BY FS_Singleton
  <2>3. IsFiniteSet({p} \cup {q}) /\ Cardinality({p} \cup {q}) = 2
    <3>1. q \notin {p}
      BY <2>1
    <3>2. /\ IsFiniteSet({p} \cup {q})
          /\ Cardinality({p} \cup {q}) = IF q \in {p} THEN Cardinality({p}) ELSE Cardinality({p}) + 1
      BY <2>2, FS_AddElement, Zenon
    <3> QED BY <2>2, <3>1, <3>2
  <2>4. Cardinality(({p} \cup {q}) \cup {s}) = 3
    <3>1. s \notin {p} \cup {q}
      BY <2>1
    <3>2. Cardinality(({p} \cup {q}) \cup {s}) = IF s \in {p} \cup {q} THEN Cardinality({p} \cup {q})
                                                 ELSE Cardinality({p} \cup {q}) + 1
      BY <2>3, FS_AddElement, Zenon
    <3> QED BY <2>3, <3>1, <3>2
  <2>5. {p, q, s} = ({p} \cup {q}) \cup {s}
    OBVIOUS
  <2> QED BY <1>1, <1>3, <2>4, <2>5
<1> QED BY <1>2, <1>3

\* What makes three cells a line.
LEMMA GridLineMeans ==
  ASSUME NEW r \in Index, NEW c \in Index, NEW d \in -1..1, NEW e \in -1..1
  PROVE  Three(r, c, d, e) \in GridLines
           <=> ~(d = 0 /\ e = 0) /\ r + 2 * d \in Index /\ c + 2 * e \in Index
<1>1. r \in Int /\ c \in Int /\ d \in Int /\ e \in Int
  BY DEF Index
<1>2. Three(r, c, d, e) = {<<r, c>>, <<r + d, c + e>>, <<r + 2 * d, c + 2 * e>>}
  BY <1>1, ThreeCells
<1>3. Three(r, c, d, e) \subseteq Cells <=> r + 2 * d \in Index /\ c + 2 * e \in Index
  <2>1. ASSUME r + 2 * d \in Index, c + 2 * e \in Index PROVE r + d \in Index /\ c + e \in Index
    BY <2>1 DEF Index
  <2> QED BY <1>2, <2>1 DEF Cells
<1>4. Cardinality(Three(r, c, d, e)) = 3 <=> ~(d = 0 /\ e = 0)
  <2>1. Cardinality(Three(r, c, d, e)) = IF d = 0 /\ e = 0 THEN 1 ELSE 3
    BY <1>1, ThreeAreThree
  <2> QED BY <2>1
<1>5. Three(r, c, d, e) \in GridLines
        <=> Three(r, c, d, e) \subseteq Cells /\ Cardinality(Three(r, c, d, e)) = 3
  <2>1. Three(r, c, d, e) \in Threes
    BY GridLinesAreThrees
  <2> QED BY <2>1, GridLinesAreThrees
<1> QED BY <1>3, <1>4, <1>5

\* checkWin looks at every line of the grid and at nothing else: for any board.
LEMMA WinIsLine ==
  ASSUME NEW m
  PROVE  CheckWin(m, board) <=> HasLine(m)
<1> DEFINE Has(r, c, d, e) ==
       board[<<r, c>>] = m /\ board[<<r + d, c + e>>] = m /\ board[<<r + 2 * d, c + 2 * e>>] = m
<1>1. ASSUME NEW r \in Index, NEW c \in Index, NEW d \in -1..1, NEW e \in -1..1
      PROVE  (\A x \in Three(r, c, d, e) : board[x] = m) <=> Has(r, c, d, e)
  <2>1. r \in Int /\ c \in Int /\ d \in Int /\ e \in Int
    BY DEF Index
  <2>2. Three(r, c, d, e) = {<<r, c>>, <<r + d, c + e>>, <<r + 2 * d, c + 2 * e>>}
    BY <2>1, ThreeCells
  <2> QED BY <2>2, Zenon
<1>2. ASSUME NEW r \in Index, NEW c \in Index, NEW d \in -1..1, NEW e \in -1..1,
             ~(d = 0 /\ e = 0), r + 2 * d \in Index, c + 2 * e \in Index, Has(r, c, d, e)
      PROVE  HasLine(m)
  <2>1. Three(r, c, d, e) \in GridLines
    BY <1>2, GridLineMeans
  <2>2. \A x \in Three(r, c, d, e) : board[x] = m
    BY <1>1, <1>2
  <2> QED BY <2>1, <2>2 DEF HasLine
<1>3. 1 \in Index /\ 2 \in Index /\ 3 \in Index /\ \A i \in Index : i = 1 \/ i = 2 \/ i = 3
  BY DEF Index
<1>4. 0 \in -1..1 /\ 1 \in -1..1 /\ -1 \in -1..1
  OBVIOUS
<1>5. CheckWin(m, board) => HasLine(m)
  <2>1. ASSUME NEW i \in Index, \A j \in Index : board[<<i, j>>] = m PROVE HasLine(m)
    <3>1. i + 2 * 0 = i /\ i + 0 = i /\ 1 + 1 = 2 /\ 1 + 2 * 1 = 3
      BY DEF Index
    <3>2. Has(i, 1, 0, 1)
      BY <1>3, <2>1, <3>1
    <3> HIDE DEF Has
    <3> QED BY <1>2, <1>3, <1>4, <3>1, <3>2
  <2>2. ASSUME NEW i \in Index, \A j \in Index : board[<<j, i>>] = m PROVE HasLine(m)
    <3>1. i + 2 * 0 = i /\ i + 0 = i /\ 1 + 1 = 2 /\ 1 + 2 * 1 = 3
      BY DEF Index
    <3>2. Has(1, i, 1, 0)
      BY <1>3, <2>2, <3>1
    <3> HIDE DEF Has
    <3> QED BY <1>2, <1>3, <1>4, <3>1, <3>2
  <2>3. ASSUME \A i \in Index : board[<<i, i>>] = m PROVE HasLine(m)
    <3>1. 1 + 1 = 2 /\ 1 + 2 * 1 = 3
      OBVIOUS
    <3>2. Has(1, 1, 1, 1)
      BY <1>3, <2>3, <3>1
    <3> HIDE DEF Has
    <3> QED BY <1>2, <1>3, <1>4, <3>1, <3>2
  <2>4. ASSUME \A i \in Index : board[<<i, 4 - i>>] = m PROVE HasLine(m)
    <3>1. 4 - 1 = 3 /\ 4 - 2 = 2 /\ 4 - 3 = 1 /\ 1 + 1 = 2 /\ 1 + 2 * 1 = 3 /\ 3 + (-1) = 2 /\ 3 + 2 * (-1) = 1
      OBVIOUS
    <3>2. board[<<1, 4 - 1>>] = m /\ board[<<2, 4 - 2>>] = m /\ board[<<3, 4 - 3>>] = m
      BY <1>3, <2>4
    <3>3. Has(1, 3, 1, -1)
      BY <3>1, <3>2
    <3> HIDE DEF Has
    <3> QED BY <1>2, <1>3, <1>4, <3>1, <3>3
  <2> QED BY <2>1, <2>2, <2>3, <2>4 DEF CheckWin
<1>6. HasLine(m) => CheckWin(m, board)
  <2> SUFFICES ASSUME HasLine(m) PROVE CheckWin(m, board)
    OBVIOUS
  <2>1. PICK L \in GridLines : \A x \in L : board[x] = m
    BY DEF HasLine
  <2>2. PICK r \in Index, c \in Index, d \in -1..1, e \in -1..1 : L = Three(r, c, d, e)
    <3>1. L \in Threes
      BY GridLinesAreThrees
    <3> QED BY <3>1, GridLinesAreThrees
  <2>3. ~(d = 0 /\ e = 0) /\ r + 2 * d \in Index /\ c + 2 * e \in Index
    BY <2>1, <2>2, GridLineMeans
  <2>4. Has(r, c, d, e)
    BY <1>1, <2>1, <2>2
  <2>5. \/ d = 0 /\ r + d = r /\ r + 2 * d = r
        \/ d = 1 /\ r = 1 /\ r + d = 2 /\ r + 2 * d = 3
        \/ d = -1 /\ r = 3 /\ r + d = 2 /\ r + 2 * d = 1
    BY <2>3 DEF Index
  <2>6. \/ e = 0 /\ c + e = c /\ c + 2 * e = c
        \/ e = 1 /\ c = 1 /\ c + e = 2 /\ c + 2 * e = 3
        \/ e = -1 /\ c = 3 /\ c + e = 2 /\ c + 2 * e = 1
    BY <2>3 DEF Index
  <2>7. CASE d = 0
    <3>1. board[<<r, 1>>] = m /\ board[<<r, 2>>] = m /\ board[<<r, 3>>] = m
      BY <2>3, <2>4, <2>5, <2>6, <2>7
    <3>2. \A j \in Index : board[<<r, j>>] = m
      BY <1>3, <3>1
    <3> QED BY <3>2 DEF CheckWin
  <2>8. CASE e = 0
    <3>1. board[<<1, c>>] = m /\ board[<<2, c>>] = m /\ board[<<3, c>>] = m
      BY <2>3, <2>4, <2>5, <2>6, <2>8
    <3>2. \A j \in Index : board[<<j, c>>] = m
      BY <1>3, <3>1
    <3> QED BY <3>2 DEF CheckWin
  <2>9. CASE d = e /\ d # 0
    <3>1. board[<<1, 1>>] = m /\ board[<<2, 2>>] = m /\ board[<<3, 3>>] = m
      BY <2>4, <2>5, <2>6, <2>9
    <3>2. \A i \in Index : board[<<i, i>>] = m
      BY <1>3, <3>1
    <3> QED BY <3>2 DEF CheckWin
  <2>10. CASE d # e /\ d # 0 /\ e # 0
    <3>1. board[<<1, 3>>] = m /\ board[<<2, 2>>] = m /\ board[<<3, 1>>] = m
      BY <2>4, <2>5, <2>6, <2>10
    <3>2. 4 - 1 = 3 /\ 4 - 2 = 2 /\ 4 - 3 = 1
      OBVIOUS
    <3>3. \A i \in Index : board[<<i, 4 - i>>] = m
      BY <1>3, <3>1, <3>2
    <3> QED BY <3>3 DEF CheckWin
  <2> QED BY <2>7, <2>8, <2>9, <2>10
<1> QED BY <1>5, <1>6

\* checkWin reports exactly the completed lines, of all eight, on every board.
THEOREM WinsAreLines == Spec => []CheckWinFindsLines
<1>1. CheckWinFindsLines
  BY WinIsLine DEF CheckWinFindsLines
<1> QED BY <1>1, PTL

\* isGameOver never says draw, over or not over against what is on the board.
THEOREM VerdictIsRight == Spec => []VerdictMatchesBoard
<1>1. VerdictMatchesBoard
  <2>1. CheckWin("X", board) <=> HasLine("X")
    BY WinIsLine
  <2>2. CheckWin("O", board) <=> HasLine("O")
    BY WinIsLine
  <2>3. Full(board) <=> {c \in Cells : board[c] = Blank} = {}
    BY DEF Full
  <2> QED BY <2>1, <2>2, <2>3 DEF VerdictMatchesBoard, IsGameOver
<1> QED BY <1>1, PTL

-----------------------------------------------------------------------------
(* Messages: the offsets of their fields, and their tokens.                *)

\* The members of Fields.  A string that is written out is named here because the
\* provers have no rule that it is in STRING.
Names ==
  STRING \cup {"", "number", "newline", "part of a field", "joined fields", "name", "garbage",
              "RSGN", "DRAW", "MOVE", "MOVD", "BEGN", "PLAY", "JUNK",
              "S", "X", "O", "2,2", "board", "JACK", "A", "B", "a", "b"}

Pieces == [text : Names, len : Nat, num : Int]

\* A function may be defined by its first value and a step.
Steps(S, n) == [S \X (1..n) -> S]

Follows(S, first, n, step, g) ==
  g \in [0..n -> S] /\ g[0] = first /\ \A i \in 1..n : g[i] = step[<<g[i - 1], i>>]

LEMMA RecursionRuns ==
  ASSUME NEW S, NEW first \in S, NEW n \in Nat, NEW step \in Steps(S, n)
  PROVE  \E g : Follows(S, first, n, step, g)
<1> USE DEF Steps
<1> DEFINE Runs(m, g) ==
       g \in [0..m -> S] /\ g[0] = first /\ \A i \in 1..m : g[i] = step[<<g[i - 1], i>>]
           Bad == {m \in 0..n : ~ \E g : Runs(m, g)}
<1>1. ASSUME Bad # {} PROVE FALSE
  <2>1. Bad \in SUBSET Nat
    OBVIOUS
  <2>2. PICK m \in Bad : \A y \in Bad : m <= y
    BY <1>1, <2>1, LeastNat
  <2>3. m \in 0..n /\ ~ \E g : Runs(m, g)
    OBVIOUS
  <2>4. CASE m = 0
    <3> DEFINE h == [i \in 0..m |-> first]
    <3>1. Runs(m, h)
      BY <2>4
    <3> QED BY <2>3, <3>1
  <2>5. CASE m # 0
    <3>1. m - 1 \in 0..n /\ m - 1 \notin Bad
      <4>1. m - 1 \in 0..n /\ ~(m <= m - 1)
        BY <2>3, <2>5
      <4> HIDE DEF Bad
      <4> QED BY <2>2, <4>1
    <3>2. PICK g : Runs(m - 1, g)
      BY <3>1
    <3> DEFINE h == [i \in 0..m |-> IF i = m THEN step[<<g[m - 1], m>>] ELSE g[i]]
    <3>3. /\ g \in [0..m - 1 -> S] /\ g[0] = first
          /\ \A i \in 1..m - 1 : g[i] = step[<<g[i - 1], i>>]
      BY <3>2
    <3>4. (\A i \in 0..m - 1 : h[i] = g[i]) /\ h[m] = step[<<g[m - 1], m>>]
      BY <2>3
    <3>5. step[<<g[m - 1], m>>] \in S
      BY <2>3, <2>5, <3>3
    <3>6. h \in [0..m -> S]
      BY <2>3, <2>5, <3>3, <3>5
    <3>7. h[0] = first
      BY <2>3, <2>5, <3>3, <3>4
    <3>8. ASSUME NEW i \in 1..m PROVE h[i] = step[<<h[i - 1], i>>]
      <4>1. h[i - 1] = g[i - 1]
        <5>1. i - 1 \in 0..m - 1
          BY <2>3
        <5> HIDE DEF h
        <5> QED BY <3>4, <5>1
      <4>2. CASE i = m
        <5> HIDE DEF h
        <5> QED BY <3>4, <4>1, <4>2
      <4>3. CASE i # m
        <5>1. i \in 1..m - 1 /\ i \in 0..m - 1
          BY <2>3, <4>3
        <5> HIDE DEF h
        <5> QED BY <3>3, <3>4, <4>1, <5>1
      <4> QED BY <4>2, <4>3
    <3>9. Runs(m, h)
      <4> HIDE DEF h
      <4> QED BY <3>6, <3>7, <3>8
    <3> QED BY <2>3, <3>9
  <2> QED BY <2>4, <2>5
<1>2. n \in 0..n
  OBVIOUS
<1>3. \E g : Runs(n, g)
  <2> HIDE DEF Runs
  <2> QED BY <1>1, <1>2
<1> QED BY <1>3 DEF Follows

\* Every field starts behind the one before it and the bar between them.
LEMMA OffsetFacts ==
  ASSUME NEW w \in Seq(Pieces), w # <<>>
  PROVE  /\ Len(w) \in Nat \ {0} /\ DOMAIN w = 1..Len(w)
         /\ DOMAIN Offset(w) = 1..Len(w)
         /\ Offset(w)[1] = 0
         /\ \A i \in 1..Len(w) : Offset(w)[i] \in Nat /\ w[i] \in Pieces /\ w[i].len \in Nat
         /\ \A i \in 2..Len(w) : Offset(w)[i] = Offset(w)[i - 1] + w[i - 1].len + 1
<1>1. Len(w) \in Nat \ {0} /\ DOMAIN w = 1..Len(w)
  BY EmptySeq, LenProperties
<1>2. \A i \in 1..Len(w) : w[i] \in Pieces /\ w[i].len \in Nat
  <2>1. \A i \in 1..Len(w) : w[i] \in Pieces
    BY <1>1, ElementOfSeq
  <2> QED BY <2>1 DEF Pieces
<1> DEFINE n == Len(w) - 1
           step == [p \in Nat \X (1..n) |-> p[1] + w[p[2]].len + 1]
<1>3. n \in Nat /\ \A i \in 1..n : i \in 1..Len(w)
  BY <1>1
<1>4. step \in [Nat \X (1..n) -> Nat]
  <2>1. ASSUME NEW p \in Nat \X (1..n) PROVE p[1] + w[p[2]].len + 1 \in Nat
    BY <1>2, <1>3
  <2> QED BY <2>1
<1>5. PICK g \in [0..n -> Nat] : g[0] = 0 /\ \A i \in 1..n : g[i] = step[<<g[i - 1], i>>]
  <2> HIDE DEF n, step
  <2>1. step \in Steps(Nat, n) /\ 0 \in Nat
    BY <1>4 DEF Steps
  <2>2. \E g : Follows(Nat, 0, n, step, g)
    BY <1>3, <2>1, RecursionRuns, Zenon
  <2> QED BY <2>2 DEF Follows
<1>6. \A i \in 1..n : g[i] = g[i - 1] + w[i].len + 1
  <2> TAKE i \in 1..n
  <2>1. <<g[i - 1], i>> \in Nat \X (1..n)
    BY <1>3
  <2> HIDE DEF n
  <2>2. step[<<g[i - 1], i>>] = g[i - 1] + w[i].len + 1
    BY <2>1
  <2> HIDE DEF step
  <2> QED BY <1>5, <2>2
<1> DEFINE Is(offset) ==
       offset = [i \in DOMAIN w |-> IF i = 1 THEN 0 ELSE offset[i - 1] + w[i - 1].len + 1]
           h == [i \in 1..Len(w) |-> g[i - 1]]
<1>7. Is(h)
  <2>1. ASSUME NEW i \in 1..Len(w)
        PROVE  g[i - 1] = IF i = 1 THEN 0 ELSE h[i - 1] + w[i - 1].len + 1
    <3>1. CASE i = 1
      BY <1>5, <3>1
    <3>2. CASE i # 1
      <4>1. i - 1 \in 1..n /\ i - 1 \in 1..Len(w) /\ (i - 1) - 1 = i - 2
        BY <1>1, <3>2
      <4>2. h[i - 1] = g[(i - 1) - 1]
        BY <4>1
      <4>3. g[i - 1] = g[(i - 1) - 1] + w[i - 1].len + 1
        BY <1>6, <4>1
      <4> QED BY <3>2, <4>2, <4>3
    <3> QED BY <3>1, <3>2
  <2>2. h = [i \in 1..Len(w) |-> IF i = 1 THEN 0 ELSE h[i - 1] + w[i - 1].len + 1]
    <3>1. h = [i \in 1..Len(w) |-> g[i - 1]]
      OBVIOUS
    <3> HIDE DEF h
    <3> QED BY <2>1, <3>1
  <2> HIDE DEF h
  <2> QED BY <1>1, <2>2
<1>8. Is(Offset(w))
  <2>1. Offset(w) = CHOOSE offset : Is(offset)
    BY DEF Offset
  <2> HIDE DEF Is, h
  <2> QED BY <1>7, <2>1
<1> DEFINE o == Offset(w)
<1>9. o = [i \in 1..Len(w) |-> IF i = 1 THEN 0 ELSE o[i - 1] + w[i - 1].len + 1]
  BY <1>1, <1>8
<1> HIDE DEF o
<1>10. /\ DOMAIN o = 1..Len(w)
       /\ \A i \in 1..Len(w) : o[i] = IF i = 1 THEN 0 ELSE o[i - 1] + w[i - 1].len + 1
  BY <1>9
<1>11. o[1] = 0 /\ \A i \in 2..Len(w) : o[i] = o[i - 1] + w[i - 1].len + 1
  BY <1>1, <1>10
<1> DEFINE Bad == {i \in 1..Len(w) : o[i] \notin Nat}
<1>12. ASSUME Bad # {} PROVE FALSE
  <2>1. Bad \in SUBSET Nat
    OBVIOUS
  <2>2. PICK m \in Bad : \A y \in Bad : m <= y
    BY <1>12, <2>1, LeastNat
  <2>3. m \in 1..Len(w) /\ o[m] \notin Nat
    OBVIOUS
  <2>4. m # 1 /\ m - 1 \in 1..Len(w) /\ m \in 2..Len(w)
    BY <1>1, <1>11, <2>3
  <2>5. m - 1 \notin Bad
    <3>1. ~(m <= m - 1)
      BY <2>3
    <3> HIDE DEF Bad
    <3> QED BY <2>2, <3>1
  <2>6. o[m - 1] \in Nat /\ w[m - 1].len \in Nat
    BY <1>2, <2>4, <2>5
  <2>7. o[m] = o[m - 1] + w[m - 1].len + 1
    BY <1>11, <2>4
  <2>8. \A a, b \in Nat : a + b + 1 \in Nat
    OBVIOUS
  <2> HIDE DEF o, Bad
  <2> QED BY <2>3, <2>6, <2>7, <2>8, Zenon
<1> QED BY <1>1, <1>2, <1>10, <1>11, <1>12 DEF o

\* They grow.
LEMMA OffsetsGrow ==
  ASSUME NEW w \in Seq(Pieces), w # <<>>, NEW j \in 1..Len(w)
  PROVE  \A i \in 1..j - 1 : Offset(w)[i] + w[i].len + 1 <= Offset(w)[j]
<1> DEFINE o == Offset(w)
           Bad == {m \in 1..Len(w) : \E i \in 1..m - 1 : ~(o[i] + w[i].len + 1 <= o[m])}
<1>1. /\ Len(w) \in Nat \ {0}
      /\ \A i \in 1..Len(w) : o[i] \in Nat /\ w[i].len \in Nat
      /\ \A i \in 2..Len(w) : o[i] = o[i - 1] + w[i - 1].len + 1
  BY OffsetFacts
<1> HIDE DEF o
<1>2. ASSUME Bad # {} PROVE FALSE
  <2>1. Bad \in SUBSET Nat
    OBVIOUS
  <2>2. PICK m \in Bad : \A y \in Bad : m <= y
    BY <1>2, <2>1, LeastNat
  <2>3. m \in 1..Len(w)
    OBVIOUS
  <2>4. PICK i \in 1..m - 1 : ~(o[i] + w[i].len + 1 <= o[m])
    OBVIOUS
  <2>5. m - 1 \in 1..Len(w) /\ m \in 2..Len(w) /\ i \in 1..Len(w) /\ m - 1 \notin Bad
    <3>1. m \in Int /\ i \in Int /\ 1 <= i /\ i <= m - 1 /\ m <= Len(w)
      BY <2>3, <2>4
    <3>2. m - 1 \notin Bad
      <4>1. ~(m <= m - 1)
        BY <3>1
      <4> HIDE DEF Bad
      <4> QED BY <2>2, <4>1
    <3> HIDE DEF Bad
    <3> QED BY <1>1, <3>1, <3>2
  <2>6. o[m] = o[m - 1] + w[m - 1].len + 1
    BY <1>1, <2>5
  <2>7. i # m - 1
    BY <1>1, <2>4, <2>5, <2>6
  <2>8. i \in 1..(m - 1) - 1
    BY <2>3, <2>4, <2>7
  <2>9. o[i] + w[i].len + 1 <= o[m - 1]
    BY <2>5, <2>8
  <2>10. o[i] \in Nat /\ w[i].len \in Nat /\ o[m - 1] \in Nat /\ w[m - 1].len \in Nat
    BY <1>1, <2>5
  <2>11. \A a, b, c, d \in Nat : a + b + 1 <= c => a + b + 1 <= c + d + 1
    OBVIOUS
  <2> QED BY <2>4, <2>6, <2>9, <2>10, <2>11, Zenon
<1>3. j \notin Bad
  BY <1>2
<1> QED BY <1>3 DEF o

\* The tokens are the fields as long as none is empty.
LEMMA TokensFacts ==
  ASSUME NEW w \in Seq(Pieces), NEW j \in 0..Len(w),
         \A i \in 1..j : w[i].len # 0
  PROVE  /\ Tokens(w) \in Seq(Pieces)
         /\ Len(Tokens(w)) \in j..Len(w)
         /\ \A i \in 1..j : Tokens(w)[i] = w[i]
         /\ Len(Tokens(w)) = j <=> \A i \in j + 1..Len(w) : w[i].len = 0
<1> DEFINE n == Len(w)
           More(v, i) == IF w[i].len = 0 THEN v ELSE Append(v, w[i])
           step == [p \in Seq(Pieces) \X (1..n) |-> More(p[1], p[2])]
           Is(found) == found = [i \in 0..n |-> IF i = 0 THEN <<>> ELSE More(found[i - 1], i)]
<1>1. n \in Nat /\ \A i \in 1..n : w[i] \in Pieces
  BY LenProperties, ElementOfSeq
<1>2. \A v \in Seq(Pieces), i \in 1..n : More(v, i) \in Seq(Pieces)
  BY <1>1, AppendProperties
<1>3. <<>> \in Seq(Pieces) /\ Len(<<>>) = 0
  BY EmptySeq
<1>4. \E g : Is(g) /\ g \in [0..n -> Seq(Pieces)]
  <2> HIDE DEF More
  <2>1. step \in [Seq(Pieces) \X (1..n) -> Seq(Pieces)]
    <3>1. ASSUME NEW p \in Seq(Pieces) \X (1..n) PROVE More(p[1], p[2]) \in Seq(Pieces)
      BY <1>2
    <3> QED BY <3>1
  <2>2. PICK g \in [0..n -> Seq(Pieces)] : g[0] = <<>> /\ \A i \in 1..n : g[i] = step[<<g[i - 1], i>>]
    <3>1. step \in Steps(Seq(Pieces), n)
      BY <2>1 DEF Steps
    <3> HIDE DEF step, n
    <3>2. \E g : Follows(Seq(Pieces), <<>>, n, step, g)
      BY <1>1, <1>3, <3>1, RecursionRuns, Zenon
    <3> QED BY <3>2 DEF Follows
  <2>3. \A i \in 0..n : g[i] = IF i = 0 THEN <<>> ELSE More(g[i - 1], i)
    <3> TAKE i \in 0..n
    <3>1. CASE i = 0
      BY <2>2, <3>1
    <3>2. CASE i # 0
      <4>1. i \in 1..n /\ g[i - 1] \in Seq(Pieces)
        <5>1. i \in 1..n /\ i - 1 \in 0..n
          BY <1>1, <3>2
        <5> HIDE DEF step, n
        <5> QED BY <2>2, <5>1
      <4>2. step[<<g[i - 1], i>>] = More(g[i - 1], i)
        BY <4>1
      <4> HIDE DEF step
      <4> QED BY <2>2, <3>2, <4>1, <4>2
    <3> QED BY <3>1, <3>2
  <2>4. g = [i \in 0..n |-> g[i]]
    BY <2>2
  <2>5. Is(g)
    BY <2>3, <2>4
  <2> HIDE DEF Is
  <2> QED BY <2>2, <2>5
<1> DEFINE f == CHOOSE g : Is(g)
<1>5. Is(f)
  <2> HIDE DEF Is
  <2> QED BY <1>4
<1>6. Tokens(w) = f[n]
  BY DEF Tokens
<1> HIDE DEF f
<1>7. f[0] = <<>> /\ \A i \in 1..n : f[i] = More(f[i - 1], i)
  <2>1. f = [i \in 0..n |-> IF i = 0 THEN <<>> ELSE More(f[i - 1], i)]
    BY <1>5
  <2> HIDE DEF More, Is
  <2>2. \A i \in 0..n : f[i] = IF i = 0 THEN <<>> ELSE More(f[i - 1], i)
    BY <2>1
  <2> QED BY <1>1, <2>2
<1> HIDE DEF Is, step
<1> DEFINE Fine(m) ==
       /\ f[m] \in Seq(Pieces) /\ Len(f[m]) \in Nat
       /\ Len(f[m]) <= m /\ (m <= j => Len(f[m]) = m) /\ (m >= j => Len(f[m]) >= j)
       /\ \A i \in 1..j : i <= m => f[m][i] = w[i]
       /\ m >= j => (Len(f[m]) = j <=> \A i \in j + 1..m : w[i].len = 0)
           Bad == {m \in 0..n : ~Fine(m)}
<1>8. Fine(0)
  BY <1>3, <1>7
<1>9. ASSUME NEW m \in 1..n, Fine(m - 1) PROVE Fine(m)
  <2>1. /\ f[m - 1] \in Seq(Pieces) /\ Len(f[m - 1]) \in Nat
        /\ Len(f[m - 1]) <= m - 1 /\ (m - 1 <= j => Len(f[m - 1]) = m - 1)
        /\ (m - 1 >= j => Len(f[m - 1]) >= j)
        /\ \A i \in 1..j : i <= m - 1 => f[m - 1][i] = w[i]
        /\ m - 1 >= j => (Len(f[m - 1]) = j <=> \A i \in j + 1..m - 1 : w[i].len = 0)
    BY <1>9
  <2>2. w[m] \in Pieces /\ m \in Nat /\ j \in Nat
    BY <1>1
  <2>3. CASE w[m].len = 0
    <3>1. f[m] = f[m - 1]
      BY <1>7, <2>3
    <3>2. m - 1 >= j
      <4>1. m \notin 1..j
        BY <2>3
      <4> QED BY <2>2, <4>1
    <3>3. (\A i \in j + 1..m - 1 : w[i].len = 0) <=> (\A i \in j + 1..m : w[i].len = 0)
      BY <2>2, <2>3
    <3>4. \A i \in 1..j : i <= m - 1
      BY <2>2, <3>2
    <3> QED BY <2>1, <2>2, <3>1, <3>2, <3>3, <3>4
  <2>4. CASE w[m].len # 0
    <3>1. f[m] = Append(f[m - 1], w[m])
      BY <1>7, <2>4
    <3>2. /\ f[m] \in Seq(Pieces) /\ Len(f[m]) = Len(f[m - 1]) + 1
          /\ f[m][Len(f[m - 1]) + 1] = w[m]
          /\ \A i \in 1..Len(f[m - 1]) : f[m][i] = f[m - 1][i]
      BY <2>1, <2>2, <3>1, AppendProperties
    <3>3. ASSUME NEW i \in 1..j, i <= m PROVE f[m][i] = w[i]
      <4>1. CASE i = m
        <5>1. Len(f[m - 1]) = m - 1
          BY <2>1, <2>2, <4>1
        <5> QED BY <2>2, <3>2, <4>1, <5>1
      <4>2. CASE i # m
        <5>1. i <= m - 1 /\ i \in 1..Len(f[m - 1])
          BY <2>1, <2>2, <3>3, <4>2
        <5> QED BY <2>1, <3>2, <5>1
      <4> QED BY <4>1, <4>2
    <3>4. ASSUME m >= j PROVE Len(f[m]) = j <=> \A i \in j + 1..m : w[i].len = 0
      <4>1. CASE m = j
        <5>1. Len(f[m]) = j
          BY <2>1, <2>2, <3>2, <4>1
        <5>2. \A i \in j + 1..m : FALSE
          BY <2>2, <4>1
        <5> QED BY <5>1, <5>2
      <4>2. CASE m # j
        <5>1. Len(f[m]) # j
          BY <2>1, <2>2, <3>2, <3>4, <4>2
        <5>2. m \in j + 1..m
          BY <2>2, <3>4, <4>2
        <5> QED BY <2>4, <5>1, <5>2
      <4> QED BY <4>1, <4>2
    <3>5. Len(f[m]) <= m /\ (m <= j => Len(f[m]) = m) /\ (m >= j => Len(f[m]) >= j)
      BY <2>1, <2>2, <3>2
    <3>6. Len(f[m]) \in Nat
      BY <2>1, <3>2
    <3> QED BY <3>2, <3>3, <3>4, <3>5, <3>6
  <2> QED BY <2>3, <2>4
<1> HIDE DEF Fine
<1>10. ASSUME Bad # {} PROVE FALSE
  <2>1. Bad \in SUBSET Nat
    OBVIOUS
  <2>2. PICK m \in Bad : \A y \in Bad : m <= y
    BY <1>10, <2>1, LeastNat
  <2>3. m \in 0..n /\ ~Fine(m)
    OBVIOUS
  <2>4. m # 0 /\ m \in 1..n /\ m - 1 \in 0..n
    BY <1>1, <1>8, <2>3
  <2>5. m - 1 \notin Bad
    <3> HIDE DEF Bad
    <3> QED BY <2>2, <2>4
  <2>6. Fine(m - 1)
    BY <2>4, <2>5
  <2> QED BY <1>9, <2>3, <2>4, <2>6
<1>11. Fine(n)
  BY <1>1, <1>10
<1> QED BY <1>1, <1>6, <1>11 DEF Fine

-----------------------------------------------------------------------------
(* What a cut leaves of a message.                                         *)

LEMMA FieldFacts ==
  ASSUME NEW t \in Names, NEW l \in Nat
  PROVE  Field(t, l) \in Pieces /\ Field(t, l).len = l /\ Field(t, l).text = t
BY DEF Field, Pieces

LEMMA PrefixFacts ==
  ASSUME NEW f \in Pieces, NEW k \in Nat
  PROVE  /\ Prefix(f, k) \in Pieces
         /\ k >= f.len => Prefix(f, k) = f
         /\ k < f.len => Prefix(f, k).len = k
         /\ Prefix(f, k) = f \/ Prefix(f, k).len < f.len
<1> DEFINE d == IF f.num <= 0 THEN 0 ELSE f.num \div (IF f.len - k = 1 THEN 10 ELSE 100)
           part == [text |-> "part of a field", len |-> k, num |-> d]
<1>1. f.len \in Nat /\ f.num \in Int
  BY DEF Pieces
<1>2. Prefix(f, k) = IF k >= f.len THEN f ELSE IF k <= 0 THEN Nothing ELSE part
  BY Zenon DEF Prefix
<1>3. Nothing \in Pieces /\ Nothing.len = 0
  <2>1. "" \in Names /\ 0 \in Nat
    BY DEF Names
  <2>2. Field("", 0) \in Pieces /\ Field("", 0).len = 0
    BY <2>1, FieldFacts, Zenon
  <2> QED BY <2>2, Zenon DEF Nothing
<1>4. d \in Int
  <2>1. CASE f.num <= 0
    BY <2>1
  <2>2. CASE ~(f.num <= 0) /\ f.len - k = 1
    <3>1. f.num \div 10 \in Int
      BY <1>1
    <3> QED BY <2>2, <3>1
  <2>3. CASE ~(f.num <= 0) /\ f.len - k # 1
    <3>1. f.num \div 100 \in Int
      BY <1>1
    <3> QED BY <2>3, <3>1
  <2> QED BY <2>1, <2>2, <2>3
<1> HIDE DEF d
<1>5. part.len = k /\ (k \in Nat => part \in Pieces)
  <2>1. "part of a field" \in Names
    BY DEF Names
  <2> QED BY <1>4, <2>1 DEF Pieces
<1> HIDE DEF part
<1>6. CASE k >= f.len
  <2>1. Prefix(f, k) = f
    BY <1>2, <1>6
  <2> QED BY <1>1, <1>6, <2>1
<1>7. CASE k < f.len /\ k <= 0
  <2>1. Prefix(f, k) = Nothing
    BY <1>1, <1>2, <1>7
  <2>2. Prefix(f, k) \in Pieces /\ Prefix(f, k).len = 0
    BY <1>3, <2>1
  <2> QED BY <1>1, <1>7, <2>2
<1>8. CASE k < f.len /\ ~(k <= 0)
  <2>1. Prefix(f, k) = part
    BY <1>1, <1>2, <1>8
  <2> QED BY <1>1, <1>5, <1>8, <2>1
<1> QED BY <1>1, <1>6, <1>7, <1>8

\* The first k bytes are some fields and the start of one more.
LEMMA CutFacts ==
  ASSUME NEW w \in Seq(Pieces), w # <<>>, NEW k \in Nat
  PROVE  \E m \in 1..Len(w) :
           /\ Offset(w)[m] <= k
           /\ m < Len(w) => k <= Offset(w)[m] + w[m].len
           /\ Terminated(w, k) \in Seq(Pieces) /\ Len(Terminated(w, k)) = m
           /\ \A i \in 1..m - 1 : Terminated(w, k)[i] = w[i]
           /\ Terminated(w, k)[m] = Prefix(w[m], k - Offset(w)[m])
<1> DEFINE o == Offset(w)
           L == Len(w)
           begun == {i \in 1..L : o[i] <= k}
           Behind2 == {i \in 1..L : ~(o[i] <= k)}
<1>1. /\ L \in Nat \ {0} /\ DOMAIN w = 1..L /\ o[1] = 0
      /\ \A i \in 1..L : o[i] \in Nat /\ w[i] \in Pieces /\ w[i].len \in Nat
      /\ \A i \in 2..L : o[i] = o[i - 1] + w[i - 1].len + 1
  BY OffsetFacts
<1>2. \A j \in 1..L : \A i \in 1..j - 1 : o[i] + w[i].len + 1 <= o[j]
  BY OffsetsGrow
<1> HIDE DEF o
<1>3. \E m \in 1..L : begun = 1..m /\ (m < L => k < o[m + 1])
  <2>1. CASE Behind2 = {}
    <3>1. L \in 1..L /\ ~(L < L)
      BY <1>1
    <3>2. begun = 1..L
      BY <2>1
    <3> QED BY <3>1, <3>2
  <2>2. CASE Behind2 # {}
    <3>1. Behind2 \in SUBSET Nat
      OBVIOUS
    <3>2. PICK i \in Behind2 : \A y \in Behind2 : i <= y
      BY <2>2, <3>1, LeastNat
    <3>3. i \in 1..L /\ ~(o[i] <= k)
      OBVIOUS
    <3>4. i - 1 \in 1..L /\ (i - 1) + 1 = i
      BY <1>1, <3>3
    <3>5. ASSUME NEW j \in 1..L PROVE o[j] <= k <=> j \in 1..i - 1
      <4>1. CASE j < i
        <5>1. j \notin Behind2
          BY <3>2, <3>3, <4>1
        <5> QED BY <3>3, <4>1, <5>1
      <4>2. CASE j = i
        BY <3>3, <4>2
      <4>3. CASE j > i
        <5>1. o[i] + w[i].len + 1 <= o[j]
          BY <1>2, <3>3, <4>3
        <5>2. o[i] \in Nat /\ w[i].len \in Nat /\ o[j] \in Nat
          BY <1>1, <3>3
        <5> QED BY <3>3, <4>3, <5>1, <5>2
      <4> QED BY <3>3, <4>1, <4>2, <4>3
    <3>6. begun = 1..i - 1
      BY <3>4, <3>5
    <3>7. k < o[i]
      BY <1>1, <3>3
    <3> QED BY <3>4, <3>6, <3>7
  <2> QED BY <2>1, <2>2
<1> HIDE DEF begun
<1>4. PICK m \in 1..L : begun = 1..m /\ (m < L => k < o[m + 1])
  BY <1>3, Zenon
<1> USE DEF begun
<1>5. Cardinality(begun) = m
  <2>1. m \in Int /\ 1 \in Int /\ m - 1 + 1 = m /\ 1 <= m
    OBVIOUS
  <2>2. Cardinality(1..m) = IF 1 > m THEN 0 ELSE m - 1 + 1
    BY <2>1, FS_Interval, Zenon
  <2> HIDE DEF begun
  <2> QED BY <1>4, <2>1, <2>2
<1>6. o[m] <= k
  <2>1. m \in begun
    BY <1>4
  <2> QED BY <2>1
<1>7. m < L => k <= o[m] + w[m].len
  <2> SUFFICES ASSUME m < L PROVE k <= o[m] + w[m].len
    OBVIOUS
  <2>1. m + 1 \in 2..L /\ (m + 1) - 1 = m
    BY <1>1
  <2>2. o[m + 1] = o[m] + w[m].len + 1
    BY <1>1, <2>1
  <2> QED BY <1>1, <1>4, <2>2
<1> DEFINE cut == Terminated(w, k)
<1>8. cut = [i \in 1..m |-> Prefix(w[i], k - o[i])]
  <2>1. begun = {i \in DOMAIN w : Offset(w)[i] <= k}
    BY <1>1 DEF o
  <2>2. cut = [i \in 1..Cardinality(begun) |-> Prefix(w[i], k - o[i])]
    <3> HIDE DEF begun
    <3> QED BY <2>1 DEF Terminated, o
  <2> HIDE DEF begun, cut
  <2> QED BY <1>5, <2>2
<1>9. ASSUME NEW i \in 1..m PROVE Prefix(w[i], k - o[i]) \in Pieces
  <2>1. w[i] \in Pieces /\ k - o[i] \in Nat
    <3>1. i \in begun
      BY <1>4
    <3> QED BY <1>1, <3>1
  <2> QED BY <2>1, PrefixFacts
<1>10. cut \in Seq(Pieces) /\ Len(cut) = m
  <2> HIDE DEF cut
  <2>1. m \in Nat /\ cut \in [1..m -> Pieces]
    BY <1>8, <1>9
  <2> QED BY <2>1, SeqDef, LenProperties
<1>11. ASSUME NEW i \in 1..m - 1 PROVE cut[i] = w[i]
  <2>1. i \in 1..L /\ i \in 1..m
    BY <1>1
  <2>2. o[i] + w[i].len + 1 <= o[m] /\ o[i] \in Nat /\ w[i].len \in Nat /\ o[m] \in Nat /\ w[i] \in Pieces
    BY <1>1, <1>2, <2>1
  <2>3. k - o[i] \in Nat /\ k - o[i] >= w[i].len
    <3>1. \A a, b, c, x \in Nat : a + b + 1 <= c /\ c <= x => x - a \in Nat /\ x - a >= b
      OBVIOUS
    <3> QED BY <1>6, <2>2, <3>1, Zenon
  <2>4. Prefix(w[i], k - o[i]) = w[i]
    BY <2>2, <2>3, PrefixFacts
  <2> HIDE DEF cut
  <2> QED BY <1>8, <2>1, <2>4
<1>12. cut[m] = Prefix(w[m], k - o[m])
  <2> HIDE DEF cut
  <2> QED BY <1>8
<1> HIDE DEF cut
<1>13. \E x \in 1..L :
         /\ o[x] <= k
         /\ x < L => k <= o[x] + w[x].len
         /\ cut \in Seq(Pieces) /\ Len(cut) = x
         /\ \A i \in 1..x - 1 : cut[i] = w[i]
         /\ cut[x] = Prefix(w[x], k - o[x])
  BY <1>6, <1>7, <1>10, <1>11, <1>12
<1> QED BY <1>13 DEF cut, o

\* r is w or what was left of w when it was cut.
Begins(r, w) ==
  /\ r \in Seq(Pieces) /\ Len(r) \in 1..Len(w)
  /\ \A i \in 1..Len(r) - 1 : r[i] = w[i]
  /\ r[Len(r)] = w[Len(r)] \/ r[Len(r)].len < w[Len(r)].len

LEMMA CutBegins ==
  ASSUME NEW w \in Seq(Pieces), w # <<>>, NEW k \in Nat
  PROVE  Begins(Terminated(w, k), w)
<1>1. PICK m \in 1..Len(w) :
        /\ Offset(w)[m] <= k
        /\ Terminated(w, k) \in Seq(Pieces) /\ Len(Terminated(w, k)) = m
        /\ \A i \in 1..m - 1 : Terminated(w, k)[i] = w[i]
        /\ Terminated(w, k)[m] = Prefix(w[m], k - Offset(w)[m])
  BY CutFacts
<1>2. w[m] \in Pieces /\ k - Offset(w)[m] \in Nat
  <2>1. w[m] \in Pieces /\ Offset(w)[m] \in Nat
    BY OffsetFacts
  <2> QED BY <1>1, <2>1
<1>3. Prefix(w[m], k - Offset(w)[m]) = w[m] \/ Prefix(w[m], k - Offset(w)[m]).len < w[m].len
  BY <1>2, PrefixFacts
<1> QED BY <1>1, <1>3 DEF Begins

LEMMA BeginningOfBeginning ==
  ASSUME NEW w \in Seq(Pieces), NEW r, NEW u, Begins(r, w), Begins(u, r)
  PROVE  Begins(u, w)
<1>1. /\ r \in Seq(Pieces) /\ Len(r) \in 1..Len(w) /\ Len(w) \in Nat
      /\ \A i \in 1..Len(r) - 1 : r[i] = w[i]
      /\ r[Len(r)] = w[Len(r)] \/ r[Len(r)].len < w[Len(r)].len
  BY LenProperties DEF Begins
<1>2. /\ u \in Seq(Pieces) /\ Len(u) \in 1..Len(r)
      /\ \A i \in 1..Len(u) - 1 : u[i] = r[i]
      /\ u[Len(u)] = r[Len(u)] \/ u[Len(u)].len < r[Len(u)].len
  BY DEF Begins
<1>3. Len(u) \in 1..Len(w) /\ \A i \in 1..Len(u) - 1 : i \in 1..Len(r) - 1
  BY <1>1, <1>2
<1>4. \A i \in 1..Len(u) - 1 : u[i] = w[i]
  BY <1>1, <1>2, <1>3
<1>5. u[Len(u)] = w[Len(u)] \/ u[Len(u)].len < w[Len(u)].len
  <2>1. CASE Len(u) = Len(r)
    <3>1. r[Len(r)].len \in Nat /\ w[Len(r)].len \in Nat /\ u[Len(u)].len \in Nat
      <4>1. r[Len(r)] \in Pieces /\ w[Len(r)] \in Pieces /\ u[Len(u)] \in Pieces
        <5>1. Len(r) \in 1..Len(r) /\ Len(u) \in 1..Len(u)
          BY <1>1, <1>2
        <5> QED BY <1>1, <1>2, <5>1, ElementOfSeq
      <4> QED BY <4>1 DEF Pieces
    <3> QED BY <1>1, <1>2, <2>1, <3>1
  <2>2. CASE Len(u) # Len(r)
    <3>1. Len(u) \in 1..Len(r) - 1
      BY <1>1, <1>2, <2>2
    <3> QED BY <1>1, <1>2, <3>1
  <2> QED BY <2>1, <2>2
<1> QED BY <1>2, <1>3, <1>4, <1>5 DEF Begins

-----------------------------------------------------------------------------
(* What the server makes of a message.                                     *)

\* A line with as many arguments as its type has, with any length in front of them
\* and any bytes behind them.
WellFormed(line, declared, tail) ==
  /\ line.type \in Names /\ line.args \in Seq(Pieces)
  /\ \A i \in 1..Len(line.args) : line.args[i].len # 0
  /\ line.type \in DOMAIN ExpectedLast => Len(line.args) + 2 = ExpectedLast[line.type]
  /\ line.type # "JUNK" => line.type \in DOMAIN ExpectedLast
  /\ declared \in Int
  /\ tail \in Seq(Pieces) /\ tail # <<>>

LEMMA ExpectedFacts ==
  \A x \in DOMAIN ExpectedLast : ExpectedLast[x] \in Nat /\ ExpectedLast[x] >= 2
BY DEF ExpectedLast

\* The fields of a message.
LEMMA RawFacts ==
  ASSUME NEW line, NEW declared, NEW tail, WellFormed(line, declared, tail)
  PROVE  LET w == Raw(line, declared, tail)
             n == Len(line.args)
         IN  /\ w \in Seq(Pieces) /\ w # <<>> /\ n \in Nat /\ Len(w) = n + 2 + Len(tail)
             /\ Len(w) \in Nat /\ Len(w) >= n + 3
             /\ w[1] = Field(line.type, 4) /\ w[2] = Number(declared)
             /\ \A i \in 1..n : w[i + 2] = line.args[i]
             /\ \A i \in 1..n + 2 : w[i].len # 0
             /\ w[1].len = 4 /\ w[1].text = line.type
             /\ w[2].len = Digits(declared) /\ w[2].num = declared /\ Digits(declared) \in 1..3
<1> DEFINE w == Raw(line, declared, tail)
           n == Len(line.args)
           head == <<Field(line.type, 4), Number(declared)>>
<1>1. /\ line.type \in Names /\ line.args \in Seq(Pieces) /\ tail \in Seq(Pieces) /\ tail # <<>>
      /\ \A i \in 1..n : line.args[i].len # 0
      /\ declared \in Int
  BY DEF WellFormed
<1>2. Field(line.type, 4) \in Pieces /\ Field(line.type, 4).len = 4 /\ Field(line.type, 4).text = line.type
  <2>1. 4 \in Nat
    OBVIOUS
  <2> QED BY <1>1, <2>1, FieldFacts, Zenon
<1>3. Digits(declared) \in 1..3
  BY <1>1 DEF Digits
<1>4. /\ Number(declared) \in Pieces /\ Number(declared).len = Digits(declared)
      /\ Number(declared).num = declared
  <2>1. "number" \in Names /\ Digits(declared) \in Nat
    BY <1>3 DEF Names
  <2> QED BY <1>1, <2>1 DEF Number, Pieces
<1> DEFINE f == Field(line.type, 4)
           g == Number(declared)
<1> HIDE DEF f, g
<1>5. /\ <<f, g>> \in Seq(Pieces) /\ Len(<<f, g>>) = 2
      /\ <<f, g>>[1] = f /\ <<f, g>>[2] = g
  <2>1. f \in Pieces /\ g \in Pieces
    BY <1>2, <1>4 DEF f, g
  <2> QED BY <2>1
<1>6. n \in Nat /\ Len(tail) \in Nat /\ Len(tail) # 0
  BY <1>1, LenProperties, EmptySeq
<1> DEFINE both == <<f, g>> \o line.args
<1>7. /\ both \in Seq(Pieces) /\ Len(both) = 2 + n
      /\ \A i \in 1..2 + n : both[i] = IF i <= 2 THEN <<f, g>>[i] ELSE line.args[i - 2]
  BY <1>1, <1>5, <1>6, ConcatProperties
<1>8. w = both \o tail
  BY Zenon DEF Raw, f, g
<1> HIDE DEF both, w
<1>9. /\ w \in Seq(Pieces) /\ Len(w) = (2 + n) + Len(tail)
      /\ \A i \in 1..2 + n : w[i] = both[i]
  <2>1. /\ both \o tail \in Seq(Pieces) /\ Len(both \o tail) = Len(both) + Len(tail)
        /\ \A i \in 1..Len(both) + Len(tail) :
             (both \o tail)[i] = IF i <= Len(both) THEN both[i] ELSE tail[i - Len(both)]
    BY <1>1, <1>7, ConcatProperties
  <2> HIDE DEF n
  <2>2. \A i \in 1..2 + n : i \in 1..(2 + n) + Len(tail) /\ i <= 2 + n
    BY <1>6
  <2> QED BY <1>7, <1>8, <2>1, <2>2
<1>10. w[1] = f /\ w[2] = g /\ \A i \in 1..n : w[i + 2] = line.args[i]
  <2>1. 1 \in 1..2 + n /\ 2 \in 1..2 + n
    BY <1>6
  <2>2. both[1] = f /\ both[2] = g
    BY <1>5, <1>7, <2>1
  <2>3. ASSUME NEW i \in 1..n PROVE w[i + 2] = line.args[i]
    <3>1. i + 2 \in 1..2 + n /\ ~(i + 2 <= 2) /\ (i + 2) - 2 = i
      BY <1>6
    <3>2. both[i + 2] = line.args[(i + 2) - 2]
      BY <1>7, <3>1
    <3> QED BY <1>9, <3>1, <3>2
  <2> QED BY <1>9, <2>1, <2>2, <2>3
<1>11. w[1].len = 4 /\ w[1].text = line.type /\ w[2].len = Digits(declared) /\ w[2].num = declared
  BY <1>2, <1>4, <1>10 DEF f, g
<1>12. ASSUME NEW i \in 1..n + 2 PROVE w[i].len # 0
  <2>1. CASE i = 1
    BY <1>11, <2>1
  <2>2. CASE i = 2
    BY <1>3, <1>11, <2>2
  <2>3. CASE i # 1 /\ i # 2
    <3>1. i - 2 \in 1..n /\ (i - 2) + 2 = i
      BY <1>6, <2>3
    <3> QED BY <1>1, <1>10, <3>1
  <2> QED BY <2>1, <2>2, <2>3
<1>13. w # <<>> /\ Len(w) \in Nat /\ Len(w) >= n + 3 /\ Len(w) = n + 2 + Len(tail)
  BY <1>6, <1>9, EmptySeq
<1> QED BY <1>3, <1>6, <1>9, <1>10, <1>11, <1>12, <1>13 DEF w, f, g

\* What an accepted message has gone through.
LEMMA AcceptedMeans ==
  ASSUME NEW r \in Seq(Pieces), r # <<>>, NEW result \in Decode(r), Accepted(result)
  PROVE  \E u :
           /\ Len(Tokens(r)) >= 2 /\ FindMsgLen(r) \in Int
           /\ Begins(u, r)
           /\ result = Tokens(u) /\ result # <<>>
           /\ result[1].text \in DOMAIN ExpectedLast
           /\ Len(result) = ExpectedLast[result[1].text]
                              + (IF Deformed(r, FindMsgLen(r)) THEN 0 ELSE 1)
           /\ ~Deformed(r, FindMsgLen(r)) => u = r
<1> DEFINE msglen == FindMsgLen(r)
           N == HeaderLen(msglen) + msglen
           u == IF Deformed(r, msglen) THEN Terminated(r, N) ELSE r
<1>1. Tokens(r) \in Seq(Pieces) /\ Len(Tokens(r)) \in Nat /\ Len(r) \in Nat \ {0}
  <2>1. 0 \in 0..Len(r) /\ Len(r) \in Nat \ {0}
    BY LenProperties, EmptySeq
  <2>2. Tokens(r) \in Seq(Pieces)
    BY <2>1, TokensFacts
  <2> QED BY <2>1, <2>2, LenProperties
<1>2. result # Wild /\ result # Rejected
  BY DEF Accepted
<1>3. ~TooManyTokens(r) /\ ~LengthUnread(r)
  BY <1>2 DEF Decode
<1>4. Len(Tokens(r)) >= 2 /\ msglen \in Int
  <2>1. Len(Tokens(r)) >= 2
    BY <1>1, <1>3 DEF LengthUnread
  <2>2. 2 \in 1..Len(Tokens(r))
    BY <1>1, <2>1
  <2>3. Tokens(r)[2] \in Pieces
    BY <1>1, <2>2, ElementOfSeq
  <2>4. Tokens(r)[2].num \in Int
    BY <2>3 DEF Pieces
  <2> QED BY <2>1, <2>4 DEF FindMsgLen
<1>5. ~(Deformed(r, msglen) /\ HeaderLen(msglen) + msglen < 0) /\ result = Tokenize(r, msglen)
  BY <1>2, <1>3 DEF Decode
<1>6. N \in Int
  BY <1>4 DEF HeaderLen
<1>7. Begins(u, r)
  <2>1. CASE Deformed(r, msglen)
    <3>1. N \in Nat
      BY <1>5, <1>6, <2>1
    <3>2. Begins(Terminated(r, N), r)
      <4> HIDE DEF N
      <4> QED BY <3>1, CutBegins
    <3> QED BY <2>1, <3>2
  <2>2. CASE ~Deformed(r, msglen)
    <3>1. Begins(r, r)
      BY <1>1 DEF Begins
    <3> QED BY <2>2, <3>1
  <2> QED BY <2>1, <2>2
<1>8. /\ result = Tokens(u) /\ Tokens(u) # <<>> /\ Tokens(u)[1].text \in DOMAIN ExpectedLast
      /\ Len(Tokens(u)) = ExpectedLast[Tokens(u)[1].text] + (IF Deformed(r, msglen) THEN 0 ELSE 1)
  <2>1. Tokenize(r, msglen) =
          IF Tokens(u) # <<>> /\ Tokens(u)[1].text \in DOMAIN ExpectedLast
             /\ Len(Tokens(u)) = ExpectedLast[Tokens(u)[1].text]
                                   + (IF Deformed(r, msglen) THEN 0 ELSE 1)
            THEN Tokens(u) ELSE Rejected
    <3>1. Tokens(IF Deformed(r, msglen) THEN Terminated(r, HeaderLen(msglen) + msglen) ELSE r)
            = Tokens(u)
      OBVIOUS
    <3> HIDE DEF u, msglen, N
    <3> QED BY <3>1, Zenon DEF Tokenize
  <2> HIDE DEF u, msglen, N
  <2> QED BY <1>2, <1>5, <2>1
<1>9. ~Deformed(r, msglen) => u = r
  OBVIOUS
<1> HIDE DEF u
<1> QED BY <1>4, <1>7, <1>8, <1>9

\* Whatever has enough tokens for its type has those of the line.
LEMMA AsSent ==
  ASSUME NEW line, NEW declared, NEW tail, WellFormed(line, declared, tail),
         NEW u, Begins(u, Raw(line, declared, tail)),
         Tokens(u) # <<>>, Tokens(u)[1].text \in DOMAIN ExpectedLast,
         Len(Tokens(u)) >= ExpectedLast[Tokens(u)[1].text]
  PROVE  LET n == Len(line.args)
         IN  /\ Tokens(u)[1].text = line.type
             /\ ExpectedLast[line.type] = n + 2
             /\ Len(Tokens(u)) >= n + 2 /\ Len(u) >= n + 2
             /\ \A k \in 1..n :
                  \/ Tokens(u)[k + 2] = line.args[k]
                  \/ k = n /\ Tokens(u)[k + 2].len < line.args[k].len
<1> DEFINE w == Raw(line, declared, tail)
           n == Len(line.args)
           m == Len(u)
           tokens == Tokens(u)
<1>1. /\ w \in Seq(Pieces) /\ n \in Nat /\ Len(w) \in Nat /\ Len(w) >= n + 3
      /\ \A i \in 1..n : w[i + 2] = line.args[i]
      /\ \A i \in 1..n + 2 : w[i].len # 0
      /\ w[1].text = line.type
  BY RawFacts
<1> HIDE DEF w
<1>2. /\ u \in Seq(Pieces) /\ m \in 1..Len(w)
      /\ \A i \in 1..m - 1 : u[i] = w[i]
      /\ u[m] = w[m] \/ u[m].len < w[m].len
  BY DEF Begins, w
<1>3. tokens \in Seq(Pieces) /\ Len(tokens) \in 0..m
  <2>1. 0 \in 0..m
    BY <1>1, <1>2
  <2> HIDE DEF tokens
  <2>2. Tokens(u) \in Seq(Pieces) /\ Len(Tokens(u)) \in 0..m
    BY <1>2, <2>1, TokensFacts
  <2> QED BY <2>2 DEF tokens
<1>4. m >= 2 /\ ExpectedLast[tokens[1].text] \in Nat /\ ExpectedLast[tokens[1].text] >= 2
  <2>1. ExpectedLast[tokens[1].text] \in Nat /\ ExpectedLast[tokens[1].text] >= 2
    BY ExpectedFacts
  <2> QED BY <1>1, <1>2, <1>3, <2>1
<1>5. ASSUME NEW j \in 0..m, j <= n + 2, j <= m - 1 \/ (j = m /\ u[m].len # 0)
      PROVE  /\ Len(tokens) >= j
             /\ \A i \in 1..j : tokens[i] = u[i]
             /\ Len(tokens) = j <=> \A i \in j + 1..m : u[i].len = 0
  <2>1. \A i \in 1..j : u[i].len # 0
    <3> TAKE i \in 1..j
    <3>1. CASE i <= m - 1
      <4>1. i \in 1..m - 1 /\ i \in 1..n + 2
        BY <1>1, <1>2, <1>5, <3>1
      <4> QED BY <1>1, <1>2, <4>1
    <3>2. CASE ~(i <= m - 1)
      BY <1>1, <1>2, <1>5, <3>2
    <3> QED BY <3>1, <3>2
  <2>2. /\ Len(Tokens(u)) \in j..m
        /\ \A i \in 1..j : Tokens(u)[i] = u[i]
        /\ Len(Tokens(u)) = j <=> \A i \in j + 1..m : u[i].len = 0
    BY <1>2, <2>1, TokensFacts
  <2> QED BY <1>1, <1>2, <2>2
<1>6. tokens[1].text = line.type
  <2>1. 1 \in 0..m /\ 1 <= n + 2 /\ 1 <= m - 1 /\ 1 \in 1..1 /\ 1 \in 1..m - 1
    BY <1>1, <1>2, <1>4
  <2>2. tokens[1] = u[1] /\ u[1] = w[1]
    <3> HIDE DEF tokens, m
    <3> QED BY <1>2, <1>5, <2>1
  <2> QED BY <1>1, <2>2
<1>7. ExpectedLast[line.type] = n + 2 /\ Len(tokens) >= n + 2 /\ m >= n + 2
  <2>1. ExpectedLast[line.type] = n + 2
    BY <1>6 DEF WellFormed
  <2> QED BY <1>1, <1>2, <1>3, <1>6, <2>1
<1> HIDE DEF tokens, m, n
<1>8. ASSUME NEW k \in 1..n
      PROVE  \/ tokens[k + 2] = line.args[k]
             \/ k = n /\ tokens[k + 2].len < line.args[k].len
  <2>1. k + 2 \in 1..n + 2 /\ k + 2 \in 1..m /\ w[k + 2] = line.args[k] /\ k \in Int
    BY <1>1, <1>2, <1>7 DEF n
  <2>2. CASE k + 2 <= m - 1
    <3>1. k + 2 \in 0..m /\ k + 2 <= n + 2 /\ k + 2 \in 1..k + 2 /\ k + 2 \in 1..m - 1
      BY <1>1, <1>2, <2>1, <2>2
    <3>2. tokens[k + 2] = u[k + 2]
      BY <1>5, <2>2, <3>1
    <3> QED BY <1>2, <2>1, <3>1, <3>2
  <2>3. CASE ~(k + 2 <= m - 1)
    <3>1. k + 2 = m /\ k = n /\ m = n + 2
      BY <1>1, <1>2, <1>7, <2>1, <2>3
    <3>2. u[m].len # 0
      <4>1. m - 1 \in 0..m /\ m - 1 <= n + 2 /\ m - 1 <= m - 1
        BY <1>1, <1>2, <3>1
      <4>2. Len(tokens) = m - 1 <=> \A i \in (m - 1) + 1..m : u[i].len = 0
        BY <1>5, <4>1
      <4>3. Len(tokens) # m - 1
        BY <1>1, <1>2, <1>3, <1>7, <3>1
      <4>4. \A i \in (m - 1) + 1..m : i = m
        BY <1>1, <1>2
      <4> QED BY <4>2, <4>3, <4>4
    <3>3. m \in 0..m /\ m <= n + 2 /\ m \in 1..m
      BY <1>1, <1>2, <3>1
    <3>4. tokens[m] = u[m]
      BY <1>5, <3>2, <3>3
    <3>5. tokens[k + 2] = w[k + 2] \/ tokens[k + 2].len < w[k + 2].len
      BY <1>2, <3>1, <3>4
    <3> QED BY <2>1, <3>1, <3>5
  <2> QED BY <2>2, <2>3
<1> QED BY <1>6, <1>7, <1>8 DEF tokens, m, n

-----------------------------------------------------------------------------
(* Lengths.                                                                *)

\* A beginning has the offsets of the whole.
LEMMA SameOffsets ==
  ASSUME NEW w \in Seq(Pieces), NEW u \in Seq(Pieces), u # <<>>, Len(u) <= Len(w),
         \A i \in 1..Len(u) - 1 : u[i] = w[i]
  PROVE  \A i \in 1..Len(u) : Offset(u)[i] = Offset(w)[i]
<1> DEFINE Bad == {i \in 1..Len(u) : Offset(u)[i] # Offset(w)[i]}
<1>1. Len(u) \in Nat \ {0} /\ Len(w) \in Nat /\ w # <<>>
  BY LenProperties, EmptySeq
<1>2. /\ Offset(u)[1] = 0 /\ Offset(w)[1] = 0
      /\ \A i \in 2..Len(u) : Offset(u)[i] = Offset(u)[i - 1] + u[i - 1].len + 1
      /\ \A i \in 2..Len(w) : Offset(w)[i] = Offset(w)[i - 1] + w[i - 1].len + 1
  BY <1>1, OffsetFacts
<1>3. ASSUME Bad # {} PROVE FALSE
  <2>1. Bad \in SUBSET Nat
    OBVIOUS
  <2>2. PICK i \in Bad : \A y \in Bad : i <= y
    BY <1>3, <2>1, LeastNat
  <2>3. i \in 1..Len(u) /\ Offset(u)[i] # Offset(w)[i]
    OBVIOUS
  <2>4. i # 1 /\ i \in 2..Len(u) /\ i \in 2..Len(w) /\ i - 1 \in 1..Len(u) /\ i - 1 \in 1..Len(u) - 1
    BY <1>1, <1>2, <2>3
  <2>5. i - 1 \notin Bad
    <3>1. ~(i <= i - 1)
      BY <2>3
    <3> HIDE DEF Bad
    <3> QED BY <2>2, <3>1
  <2>6. Offset(u)[i - 1] = Offset(w)[i - 1] /\ u[i - 1] = w[i - 1]
    BY <2>4, <2>5
  <2> QED BY <1>2, <2>3, <2>4, <2>6
<1> QED BY <1>3

\* The first k bytes are k bytes.
LEMMA CutLength ==
  ASSUME NEW w \in Seq(Pieces), w # <<>>, NEW k \in Nat, k <= Strlen(w)
  PROVE  Strlen(Terminated(w, k)) = k
<1> DEFINE o == Offset(w)
           r == Terminated(w, k)
<1>1. PICK m \in 1..Len(w) :
        /\ o[m] <= k
        /\ m < Len(w) => k <= o[m] + w[m].len
        /\ r \in Seq(Pieces) /\ Len(r) = m
        /\ \A i \in 1..m - 1 : r[i] = w[i]
        /\ r[m] = Prefix(w[m], k - o[m])
  BY CutFacts
<1>2. /\ Len(w) \in Nat \ {0}
      /\ \A i \in 1..Len(w) : o[i] \in Nat /\ w[i] \in Pieces /\ w[i].len \in Nat
  BY OffsetFacts
<1>3. Strlen(w) = o[Len(w)] + w[Len(w)].len
  BY DEF Strlen
<1>4. k <= o[m] + w[m].len
  BY <1>1, <1>2, <1>3
<1>5. r # <<>>
  BY <1>1, EmptySeq
<1> HIDE DEF r
<1>6. Offset(r)[m] = o[m]
  <2>1. Len(r) <= Len(w) /\ m \in 1..Len(r)
    BY <1>1, <1>2
  <2> QED BY <1>1, <1>5, <2>1, SameOffsets
<1>7. Strlen(r) = o[m] + r[m].len
  BY <1>1, <1>5, <1>6 DEF Strlen
<1> HIDE DEF o
<1>8. r[m].len = k - o[m]
  <2>1. w[m] \in Pieces /\ k - o[m] \in Nat /\ w[m].len \in Nat
    BY <1>1, <1>2
  <2>2. CASE k - o[m] >= w[m].len
    <3>1. r[m] = w[m]
      BY <1>1, <2>1, <2>2, PrefixFacts
    <3> QED BY <1>2, <1>4, <2>1, <2>2, <3>1
  <2>3. CASE k - o[m] < w[m].len
    BY <1>1, <2>1, <2>3, PrefixFacts
  <2> QED BY <2>1, <2>2, <2>3
<1> QED BY <1>1, <1>2, <1>7, <1>8 DEF r

\* Behind the last bar there are as many bytes as the framing counts.
LEMMA ArgsEnd ==
  ASSUME NEW line, NEW declared, NEW tail, WellFormed(line, declared, tail)
  PROVE  LET w == Raw(line, declared, tail)
             n == Len(line.args)
         IN  /\ Offset(w)[n + 3] = 6 + Digits(declared) + ArgsLen(line)
             /\ ArgsLen(line) \in Nat /\ (n = 0 => ArgsLen(line) = 0)
<1> DEFINE w == Raw(line, declared, tail)
           n == Len(line.args)
           o == Offset(w)
           g == [i \in 0..n |-> o[i + 3] - o[3]]
           Is(total) == total = [i \in 0..n |->
                          IF i = 0 THEN 0 ELSE total[i - 1] + line.args[i].len + 1]
<1>1. /\ w \in Seq(Pieces) /\ w # <<>> /\ n \in Nat /\ Len(w) \in Nat /\ Len(w) >= n + 3
      /\ \A i \in 1..n : w[i + 2] = line.args[i]
      /\ w[1].len = 4 /\ w[2].len = Digits(declared) /\ Digits(declared) \in 1..3
  BY RawFacts
<1> HIDE DEF w
<1>2. /\ o[1] = 0
      /\ \A i \in 1..Len(w) : o[i] \in Nat /\ w[i].len \in Nat
      /\ \A i \in 2..Len(w) : o[i] = o[i - 1] + w[i - 1].len + 1
  BY <1>1, OffsetFacts
<1>3. \A j \in 1..Len(w) : \A i \in 1..j - 1 : o[i] + w[i].len + 1 <= o[j]
  BY <1>1, OffsetsGrow
<1> HIDE DEF o, n
<1>4. o[3] = 6 + Digits(declared)
  <2>1. 2 \in 2..Len(w) /\ 3 \in 2..Len(w) /\ 2 - 1 = 1 /\ 3 - 1 = 2
    BY <1>1
  <2>2. o[2] = o[1] + w[1].len + 1 /\ o[3] = o[2] + w[2].len + 1
    BY <1>2, <2>1
  <2> QED BY <1>1, <1>2, <2>2
<1>5. ASSUME NEW i \in 0..n
      PROVE  o[i + 3] - o[3] = IF i = 0 THEN 0 ELSE g[i - 1] + line.args[i].len + 1
  <2>1. o[3] \in Nat
    BY <1>1, <1>4
  <2>2. CASE i = 0
    BY <2>1, <2>2
  <2>3. CASE i # 0
    <3>1. i \in 1..n /\ i - 1 \in 0..n /\ (i - 1) + 3 = i + 2 /\ i + 3 \in 2..Len(w) /\ (i + 3) - 1 = i + 2
          /\ i + 2 \in 1..Len(w)
      BY <1>1, <2>3
    <3>2. g[i - 1] = o[i + 2] - o[3]
      BY <3>1
    <3>3. o[i + 3] = o[i + 2] + line.args[i].len + 1
      BY <1>1, <1>2, <3>1
    <3>4. o[i + 2] \in Nat /\ line.args[i].len \in Nat
      BY <1>1, <1>2, <3>1
    <3> HIDE DEF g
    <3> QED BY <2>1, <2>3, <3>2, <3>3, <3>4
  <2> QED BY <2>2, <2>3
<1>6. Is(g)
  <2>1. g = [i \in 0..n |-> o[i + 3] - o[3]]
    OBVIOUS
  <2> HIDE DEF g
  <2> QED BY <1>5, <2>1
<1> DEFINE f == CHOOSE total : Is(total)
<1>7. Is(f)
  <2> HIDE DEF Is, g
  <2> QED BY <1>6
<1>8. ArgsLen(line) = f[n]
  BY DEF ArgsLen, n
<1> HIDE DEF f
<1>9. \A i \in 0..n : f[i] = IF i = 0 THEN 0 ELSE f[i - 1] + line.args[i].len + 1
  BY <1>7
<1> HIDE DEF Is
<1>10. \A i \in 0..n : g[i] = IF i = 0 THEN 0 ELSE g[i - 1] + line.args[i].len + 1
  BY <1>5
<1> HIDE DEF g
<1> DEFINE Bad == {i \in 0..n : f[i] # g[i]}
<1>11. ASSUME Bad # {} PROVE FALSE
  <2>1. Bad \in SUBSET Nat
    OBVIOUS
  <2>2. PICK i \in Bad : \A y \in Bad : i <= y
    BY <1>11, <2>1, LeastNat
  <2>3. i \in 0..n /\ f[i] # g[i]
    OBVIOUS
  <2>4. i # 0 /\ i - 1 \in 0..n
    BY <1>1, <1>9, <1>10, <2>3
  <2>5. i - 1 \notin Bad
    <3>1. ~(i <= i - 1)
      BY <2>3
    <3> HIDE DEF Bad
    <3> QED BY <2>2, <3>1
  <2> QED BY <1>9, <1>10, <2>3, <2>4, <2>5
<1>12. n \in 0..n /\ n + 3 \in 1..Len(w) /\ 3 \in 1..Len(w)
  BY <1>1
<1>13. ArgsLen(line) = o[n + 3] - o[3]
  BY <1>8, <1>11, <1>12 DEF g
<1>14. o[3] <= o[n + 3] /\ o[3] \in Nat /\ o[n + 3] \in Nat
  <2>1. o[3] \in Nat /\ o[n + 3] \in Nat /\ w[3].len \in Nat
    BY <1>2, <1>12
  <2>2. CASE n = 0
    BY <2>1, <2>2
  <2>3. CASE n # 0
    <3>1. 3 \in 1..(n + 3) - 1
      BY <1>1, <2>3
    <3>2. o[3] + w[3].len + 1 <= o[n + 3]
      BY <1>3, <1>12, <3>1
    <3> QED BY <2>1, <3>2
  <2> QED BY <2>1, <2>2, <2>3
<1>15. ArgsLen(line) \in Nat /\ (n = 0 => ArgsLen(line) = 0)
  BY <1>13, <1>14
<1>16. o[n + 3] = 6 + Digits(declared) + ArgsLen(line)
  BY <1>1, <1>4, <1>13, <1>14
<1> QED BY <1>15, <1>16 DEF o, w, n

\* Where the fields before and behind the last bar are.
LEMMA Regions ==
  ASSUME NEW line, NEW declared, NEW tail, WellFormed(line, declared, tail)
  PROVE  LET w == Raw(line, declared, tail)
             n == Len(line.args)
             o == Offset(w)
         IN  /\ \A i \in 1..Len(w) : o[i] \in Nat /\ w[i] \in Pieces /\ w[i].len \in Nat
             /\ \A i \in 1..n + 2 : o[i] + w[i].len + 1 <= o[n + 3]
             /\ \A i \in 1..n + 1 : o[i] + w[i].len + 1 <= o[n + 2]
             /\ \A i \in n + 4..Len(w) : o[n + 3] + w[n + 3].len + 1 <= o[i]
             /\ o[n + 3] = o[n + 2] + w[n + 2].len + 1
<1> DEFINE w == Raw(line, declared, tail)
           n == Len(line.args)
           o == Offset(w)
<1>1. w \in Seq(Pieces) /\ w # <<>> /\ n \in Nat /\ Len(w) \in Nat /\ Len(w) >= n + 3
  BY RawFacts
<1> HIDE DEF w
<1>2. /\ \A i \in 1..Len(w) : o[i] \in Nat /\ w[i] \in Pieces /\ w[i].len \in Nat
      /\ \A i \in 2..Len(w) : o[i] = o[i - 1] + w[i - 1].len + 1
  BY <1>1, OffsetFacts
<1>3. \A j \in 1..Len(w) : \A i \in 1..j - 1 : o[i] + w[i].len + 1 <= o[j]
  BY <1>1, OffsetsGrow
<1> HIDE DEF o, n
<1>4. /\ n + 3 \in 1..Len(w) /\ n + 2 \in 1..Len(w) /\ n + 3 \in 2..Len(w)
      /\ (n + 3) - 1 = n + 2 /\ (n + 2) - 1 = n + 1
  BY <1>1
<1>5. \A i \in 1..n + 2 : o[i] + w[i].len + 1 <= o[n + 3]
  BY <1>3, <1>4
<1>6. \A i \in 1..n + 1 : o[i] + w[i].len + 1 <= o[n + 2]
  BY <1>3, <1>4
<1>7. ASSUME NEW i \in n + 4..Len(w) PROVE o[n + 3] + w[n + 3].len + 1 <= o[i]
  <2>1. i \in 1..Len(w) /\ n + 3 \in 1..i - 1
    BY <1>1, <1>7
  <2> QED BY <1>3, <2>1
<1>8. o[n + 3] = o[n + 2] + w[n + 2].len + 1
  BY <1>2, <1>4
<1> QED BY <1>2, <1>5, <1>6, <1>7, <1>8 DEF w, n, o

\* The length of the header and what Deformed compares.
LEMMA HeaderFacts ==
  ASSUME NEW d \in Nat
  PROVE  /\ HeaderLen(d) + d \in Nat
         /\ 6 + Digits(d) + d <= HeaderLen(d) + 1 + d
         /\ \/ HeaderLen(d) + d = 6 + Digits(d) + d
            \/ HeaderLen(d) + d = 6 + Digits(d) + d - 1
BY DEF HeaderLen, Digits

LEMMA TokenizeGives ==
  ASSUME NEW r, NEW d, NEW u,
         u = IF Deformed(r, d) THEN Terminated(r, HeaderLen(d) + d) ELSE r,
         Tokens(u) # <<>>, Tokens(u)[1].text \in DOMAIN ExpectedLast,
         Len(Tokens(u)) = ExpectedLast[Tokens(u)[1].text] + (IF Deformed(r, d) THEN 0 ELSE 1)
  PROVE  Tokenize(r, d) = Tokens(u)
<1>1. Tokens(IF Deformed(r, d) THEN Terminated(r, HeaderLen(d) + d) ELSE r) = Tokens(u)
  OBVIOUS
<1> QED BY <1>1, Zenon DEF Tokenize

\* Before anything follows its last bar a line is not acted on.
THEOREM HalfMessageRefused ==
  ASSUME NEW line, NEW declared, NEW tail, WellFormed(line, declared, tail),
         declared = ArgsLen(line),
         NEW k \in Nat, k <= Strlen(Raw(line, declared, tail)),
         k <= 6 + Digits(declared) + ArgsLen(line),
         NEW result \in Decode(Terminated(Raw(line, declared, tail), k)), Accepted(result)
  PROVE  FALSE
<1> DEFINE w == Raw(line, declared, tail)
           n == Len(line.args)
           o == Offset(w)
           r == Terminated(w, k)
           B == o[n + 3]
<1>1. /\ w \in Seq(Pieces) /\ w # <<>> /\ n \in Nat /\ Len(w) \in Nat /\ Len(w) >= n + 3
      /\ \A i \in 1..n + 2 : w[i].len # 0
      /\ w[2].len = Digits(declared) /\ w[2].num = declared
  BY RawFacts
<1>2. B = 6 + Digits(declared) + ArgsLen(line) /\ declared \in Nat /\ (n = 0 => declared = 0)
  BY ArgsEnd
<1>3. /\ \A i \in 1..Len(w) : o[i] \in Nat /\ w[i] \in Pieces /\ w[i].len \in Nat
      /\ \A i \in n + 4..Len(w) : B + w[n + 3].len + 1 <= o[i]
  BY Regions
<1>4. Strlen(r) = k
  <2> HIDE DEF w
  <2>1. k <= Strlen(w)
    BY DEF w
  <2> QED BY <1>1, <2>1, CutLength
<1> HIDE DEF w
<1>5. PICK m \in 1..Len(w) :
        /\ o[m] <= k
        /\ r \in Seq(Pieces) /\ Len(r) = m
        /\ \A i \in 1..m - 1 : r[i] = w[i]
        /\ r[m] = Prefix(w[m], k - o[m])
  BY <1>1, CutFacts
<1>6. Begins(r, w) /\ r # <<>>
  BY <1>1, <1>5, CutBegins, EmptySeq
<1>7. result \in Decode(r) /\ Accepted(result)
  BY DEF w
<1> HIDE DEF r
<1>8. PICK u :
        /\ Len(Tokens(r)) >= 2
        /\ Begins(u, r)
        /\ result = Tokens(u) /\ result # <<>>
        /\ result[1].text \in DOMAIN ExpectedLast
        /\ Len(result) = ExpectedLast[result[1].text]
                           + (IF Deformed(r, FindMsgLen(r)) THEN 0 ELSE 1)
        /\ ~Deformed(r, FindMsgLen(r)) => u = r
  BY <1>5, <1>6, <1>7, AcceptedMeans
<1>9. Begins(u, w)
  BY <1>1, <1>6, <1>8, BeginningOfBeginning
<1>10. /\ Len(result) = n + 2 + (IF Deformed(r, FindMsgLen(r)) THEN 0 ELSE 1)
       /\ Len(u) >= n + 2 /\ Len(u) \in 1..m
  <2>1. Len(Tokens(u)) >= ExpectedLast[Tokens(u)[1].text]
    <3>1. ExpectedLast[result[1].text] \in Nat
      BY <1>8, ExpectedFacts
    <3>2. Len(result) >= ExpectedLast[result[1].text]
      BY <1>8, <3>1
    <3> QED BY <1>8, <3>2
  <2>2. Begins(u, Raw(line, declared, tail))
    BY <1>9 DEF w
  <2>3. Tokens(u) # <<>> /\ Tokens(u)[1].text \in DOMAIN ExpectedLast
    BY <1>8
  <2>4. /\ Tokens(u)[1].text = line.type /\ ExpectedLast[line.type] = n + 2
        /\ Len(u) >= n + 2
    BY <2>1, <2>2, <2>3, AsSent
  <2>5. Len(u) \in 1..m
    BY <1>5, <1>8 DEF Begins
  <2> HIDE DEF n
  <2> QED BY <1>8, <2>4, <2>5
<1> HIDE DEF o, n
<1>11. m >= n + 2 /\ m \in Nat /\ r[1] = w[1] /\ r[1].len # 0
  <2>1. m >= n + 2 /\ m \in Nat
    BY <1>1, <1>5, <1>10
  <2>2. 1 \in 1..m - 1 /\ 1 \in 1..n + 2
    BY <1>1, <2>1
  <2> QED BY <1>1, <1>5, <2>1, <2>2
<1>12. r[2] = w[2]
  <2>1. CASE m >= 3
    <3>1. 2 \in 1..m - 1
      BY <1>11, <2>1
    <3> QED BY <1>5, <3>1
  <2>2. CASE ~(m >= 3)
    <3>1. n = 0 /\ m = 2 /\ declared = 0
      BY <1>1, <1>2, <1>11, <2>2
    <3>2. w[2].len = 1
      BY <1>1, <3>1 DEF Digits
    <3>3. r[2].len # 0
      <4>1. 1 \in 0..Len(r) /\ \A i \in 1..1 : r[i].len # 0
        BY <1>5, <1>11
      <4>2. Len(Tokens(r)) = 1 <=> \A i \in 1 + 1..Len(r) : r[i].len = 0
        BY <1>5, <4>1, TokensFacts
      <4>3. Len(Tokens(r)) # 1
        <5>1. Len(Tokens(r)) >= 2
          BY <1>8
        <5>2. \A x : x >= 2 => x # 1
          OBVIOUS
        <5> QED BY <5>1, <5>2, Zenon
      <4>4. \A i \in 1 + 1..Len(r) : i = 2
        BY <1>5, <3>1
      <4> QED BY <4>2, <4>3, <4>4
    <3>4. r[2] \in Pieces
      <4>1. 2 \in 1..Len(r)
        BY <1>5, <3>1
      <4> QED BY <1>5, <4>1, ElementOfSeq
    <3>5. r[2].len \in Nat
      BY <3>4 DEF Pieces
    <3>6. r[2] = w[2] \/ r[2].len < w[2].len
      BY <1>5, <1>6, <3>1 DEF Begins
    <3> QED BY <3>2, <3>3, <3>5, <3>6
  <2> QED BY <2>1, <2>2
<1>13. FindMsgLen(r) = declared
  <2>1. 2 \in 0..Len(r) /\ \A i \in 1..2 : i = 1 \/ i = 2
    BY <1>1, <1>5, <1>11
  <2>2. 2 \in 1..n + 2 /\ 2 \in 1..2
    BY <1>1
  <2>3. \A i \in 1..2 : r[i].len # 0
    BY <1>1, <1>11, <1>12, <2>1, <2>2
  <2>4. Tokens(r)[2] = r[2]
    BY <1>5, <2>1, <2>2, <2>3, TokensFacts
  <2> QED BY <1>1, <1>12, <2>4 DEF FindMsgLen
<1>14. ~Deformed(r, declared)
  <2>1. 6 + Digits(declared) + declared <= HeaderLen(declared) + 1 + declared
    BY <1>2, HeaderFacts
  <2>2. k <= 6 + Digits(declared) + declared
    OBVIOUS
  <2>3. Digits(declared) \in Int /\ HeaderLen(declared) \in Int
    BY <1>2 DEF Digits, HeaderLen
  <2>4. ~(k > HeaderLen(declared) + 1 + declared)
    BY <1>2, <2>1, <2>2, <2>3
  <2> QED BY <1>4, <2>4 DEF Deformed
<1>15. Len(Tokens(r)) = n + 3
  <2>1. u = r /\ Len(result) = n + 2 + 1
    BY <1>8, <1>10, <1>13, <1>14
  <2> QED BY <1>1, <1>8, <2>1
<1>16. m <= n + 3
  <2> SUFFICES ASSUME ~(m <= n + 3) PROVE FALSE
    OBVIOUS
  <2>1. m \in n + 4..Len(w) /\ n + 3 \in 1..Len(w)
    BY <1>1, <1>5
  <2>2. B + w[n + 3].len + 1 <= o[m]
    BY <1>3, <2>1
  <2>3. w[n + 3].len \in Nat /\ o[m] \in Nat /\ B \in Nat
    BY <1>3, <2>1
  <2>4. k <= B
    BY <1>2
  <2> QED BY <1>5, <2>2, <2>3, <2>4
<1>17. Len(Tokens(r)) <= n + 2
  <2>1. CASE m = n + 2
    <3>1. 0 \in 0..Len(r) /\ \A i \in 1..0 : r[i].len # 0
      BY <1>5
    <3>2. Len(Tokens(r)) \in 0..Len(r)
      BY <1>5, <3>1, TokensFacts
    <3> QED BY <1>5, <2>1, <3>2
  <2>2. CASE m = n + 3
    <3>1. n + 2 \in 0..Len(r) /\ n + 2 \in Nat
      BY <1>1, <1>5, <2>2
    <3>2. \A i \in 1..n + 2 : r[i] = w[i] /\ r[i].len # 0
      BY <1>1, <1>5, <2>2
    <3>3. r[n + 3].len = 0
      <4>1. k - o[m] = 0
        <5>1. k <= B /\ B \in Nat /\ o[m] = B
          BY <1>2, <1>3, <1>5, <2>2
        <5> QED BY <1>5, <5>1
      <4>2. w[m] \in Pieces /\ w[m].len \in Nat /\ 0 \in Nat
        BY <1>3, <1>5
      <4>3. r[m] = Prefix(w[m], 0)
        BY <1>5, <4>1
      <4>4. CASE 0 >= w[m].len
        <5>1. r[m] = w[m] /\ w[m].len = 0
          BY <4>2, <4>3, <4>4, PrefixFacts
        <5> QED BY <2>2, <5>1
      <4>5. CASE 0 < w[m].len
        BY <2>2, <4>2, <4>3, <4>5, PrefixFacts
      <4> QED BY <4>2, <4>4, <4>5
    <3>4. \A i \in (n + 2) + 1..Len(r) : r[i].len = 0
      <4>1. \A i \in (n + 2) + 1..Len(r) : i = n + 3
        BY <1>1, <1>5, <2>2
      <4> QED BY <3>3, <4>1
    <3>5. Len(Tokens(r)) = n + 2
      BY <1>5, <3>1, <3>2, <3>4, TokensFacts
    <3> QED BY <3>1, <3>5
  <2> QED BY <1>1, <1>11, <1>16, <2>1, <2>2
<1> QED BY <1>1, <1>15, <1>17

LEMMA NeitherTwoLong ==
  ASSUME NEW result, Len(result) >= 2
  PROVE  Accepted(result)
<1>1. Len(Wild) = 1 /\ Len(Rejected) = 0
  BY DEF Wild, Rejected
<1>2. result # Wild /\ result # Rejected
  <2> HIDE DEF Wild, Rejected
  <2> QED BY <1>1
<1> QED BY <1>2 DEF Accepted

\* As soon as something follows its last bar a line is acted on.
THEOREM WholeMessageAccepted ==
  ASSUME NEW line, NEW declared, NEW tail, WellFormed(line, declared, tail),
         declared = ArgsLen(line), line.type # "JUNK",
         NEW k \in Nat, k <= Strlen(Raw(line, declared, tail)),
         k > 6 + Digits(declared) + ArgsLen(line),
         Terminated(Raw(line, declared, tail), k)[Len(line.args) + 3].len > 0,
         ~TooManyTokens(Terminated(Raw(line, declared, tail), k)),
         NEW result \in Decode(Terminated(Raw(line, declared, tail), k))
  PROVE  Accepted(result)
<1> DEFINE w == Raw(line, declared, tail)
           n == Len(line.args)
           o == Offset(w)
           r == Terminated(w, k)
           B == o[n + 3]
<1>1. /\ w \in Seq(Pieces) /\ w # <<>> /\ n \in Nat /\ Len(w) \in Nat /\ Len(w) >= n + 3
      /\ \A i \in 1..n + 2 : w[i].len # 0
      /\ w[1].text = line.type
      /\ w[2].len = Digits(declared) /\ w[2].num = declared
  BY RawFacts, SMTT(60)
<1>2. B = 6 + Digits(declared) + declared /\ declared \in Nat /\ B \in Nat
  <2>1. B = 6 + Digits(declared) + ArgsLen(line) /\ ArgsLen(line) \in Nat
    BY ArgsEnd
  <2>2. Digits(declared) \in 1..3
    BY RawFacts
  <2> QED BY <2>1, <2>2
<1>3. /\ \A i \in 1..Len(w) : o[i] \in Nat /\ w[i] \in Pieces /\ w[i].len \in Nat
      /\ \A i \in 1..n + 2 : o[i] + w[i].len + 1 <= B
      /\ \A i \in 1..n + 1 : o[i] + w[i].len + 1 <= o[n + 2]
      /\ \A i \in n + 4..Len(w) : B + w[n + 3].len + 1 <= o[i]
      /\ B = o[n + 2] + w[n + 2].len + 1
  BY Regions
<1>4. Strlen(r) = k
  <2> HIDE DEF w
  <2>1. k <= Strlen(w)
    BY DEF w
  <2> QED BY <1>1, <2>1, CutLength
<1>0. B = o[n + 3]
  OBVIOUS
<1>5. k > B
  BY <1>2
<1>6. ExpectedLast[line.type] = n + 2 /\ line.type \in DOMAIN ExpectedLast
  BY DEF WellFormed
<1>7. r[n + 3].len > 0 /\ ~TooManyTokens(r) /\ result \in Decode(r)
  OBVIOUS
<1> HIDE DEF w
<1>8. PICK m \in 1..Len(w) :
        /\ o[m] <= k
        /\ m < Len(w) => k <= o[m] + w[m].len
        /\ r \in Seq(Pieces) /\ Len(r) = m
        /\ \A i \in 1..m - 1 : r[i] = w[i]
        /\ r[m] = Prefix(w[m], k - o[m])
  BY <1>1, CutFacts
<1> HIDE DEF r, o, n, B
<1>9. m \in Nat /\ m >= n + 3
  <2> SUFFICES ASSUME ~(m >= n + 3) PROVE FALSE
    BY <1>8
  <2>1. m \in 1..n + 2 /\ m < Len(w)
    BY <1>1, <1>8
  <2>2. k <= o[m] + w[m].len /\ o[m] + w[m].len + 1 <= B
    BY <1>3, <1>8, <2>1
  <2>3. o[m] \in Nat /\ w[m].len \in Nat
    BY <1>3, <1>8
  <2> QED BY <1>2, <1>5, <2>2, <2>3
<1>10. \A i \in 1..n + 2 : r[i] = w[i] /\ r[i].len # 0
  <2>1. \A i \in 1..n + 2 : i \in 1..m - 1
    BY <1>1, <1>9
  <2> QED BY <1>1, <1>8, <2>1
<1>11. n + 3 \in 0..Len(r) /\ \A i \in 1..n + 3 : r[i].len # 0
  <2>1. \A i \in 1..n + 3 : i \in 1..n + 2 \/ i = n + 3
    BY <1>1
  <2>2. r[n + 3].len # 0
    BY <1>7
  <2> QED BY <1>1, <1>8, <1>9, <1>10, <2>1, <2>2
<1>12. /\ Len(Tokens(r)) \in n + 3..Len(r) /\ \A i \in 1..n + 3 : Tokens(r)[i] = r[i]
       /\ Len(Tokens(r)) = n + 3 <=> \A i \in (n + 3) + 1..Len(r) : r[i].len = 0
  BY <1>8, <1>11, TokensFacts
<1>13. Tokens(r)[1] = w[1] /\ Tokens(r)[2] = w[2]
  <2>1. 1 \in 1..n + 3 /\ 2 \in 1..n + 3 /\ 1 \in 1..n + 2 /\ 2 \in 1..n + 2
    BY <1>1
  <2> QED BY <1>10, <1>12, <2>1
<1>14. FindMsgLen(r) = declared
  BY <1>1, <1>13 DEF FindMsgLen
<1> DEFINE N == HeaderLen(declared) + declared
<1>15. /\ N \in Nat /\ (N = B \/ N = B - 1)
       /\ HeaderLen(declared) + 1 + declared = N + 1
  <2>1. /\ HeaderLen(declared) + declared \in Nat
        /\ \/ HeaderLen(declared) + declared = 6 + Digits(declared) + declared
           \/ HeaderLen(declared) + declared = 6 + Digits(declared) + declared - 1
    BY <1>2, HeaderFacts
  <2>2. HeaderLen(declared) \in Int
    BY DEF HeaderLen
  <2>3. Digits(declared) \in Int
    BY <1>2 DEF Digits
  <2>4. N \in Nat /\ HeaderLen(declared) + 1 + declared = N + 1
    BY <1>2, <2>1, <2>2
  <2>5. N = B \/ N = B - 1
    BY <1>2, <2>1, <2>3, SMTT(60)
  <2> QED BY <2>4, <2>5
<1>16. result = Tokenize(r, declared)
  <2>1. ~LengthUnread(r)
    <3>1. Len(Tokens(r)) \in Int /\ Len(Tokens(r)) >= 2
      BY <1>1, <1>8, <1>9, <1>12
    <3> QED BY <3>1 DEF LengthUnread
  <2>2. ~(HeaderLen(declared) + declared < 0)
    BY <1>15
  <2> QED BY <1>7, <1>14, <2>1, <2>2 DEF Decode
<1> HIDE DEF N
<1>17. Deformed(r, declared) <=> k > N + 1
  BY <1>4, <1>15 DEF Deformed
<1>18. CASE Deformed(r, declared)
  <2> DEFINE u == Terminated(r, N)
             p == Offset(r)
  <2>1. r # <<>>
    BY <1>8, EmptySeq
  <2>2. PICK x \in 1..Len(r) :
          /\ p[x] <= N
          /\ x < Len(r) => N <= p[x] + r[x].len
          /\ u \in Seq(Pieces) /\ Len(u) = x
          /\ \A i \in 1..x - 1 : u[i] = r[i]
          /\ u[x] = Prefix(r[x], N - p[x])
    BY <1>8, <1>15, <2>1, CutFacts
  <2>3. \A i \in 1..m : p[i] = o[i]
    <3>1. Len(r) <= Len(w)
      BY <1>1, <1>8
    <3> QED BY <1>1, <1>8, <2>1, <3>1, SameOffsets DEF o
  <2>4. x \in Nat /\ x \in 1..m /\ p[x] = o[x] /\ o[x] \in Nat /\ w[x].len \in Nat /\ o[x] <= N /\ x \in 1..Len(w)
    BY <1>1, <1>3, <1>8, <1>9, <2>2, <2>3
  <2> HIDE DEF u, p
  <2>5. x <= n + 3
    <3> SUFFICES ASSUME ~(x <= n + 3) PROVE FALSE
      OBVIOUS
    <3>1. x \in n + 4..Len(w) /\ n + 3 \in 1..Len(w)
      BY <1>1, <1>8, <2>4
    <3>2. B + w[n + 3].len + 1 <= o[x] /\ w[n + 3].len \in Nat
      BY <1>3, <3>1
    <3>3. N <= B /\ N \in Nat
      BY <1>2, <1>15
    <3>4. B < o[x]
      <4>1. \A b, l, y \in Nat : b + l + 1 <= y => b < y
        OBVIOUS
      <4> QED BY <1>2, <2>4, <3>2, <4>1, Zenon
    <3> QED BY <1>2, <2>4, <3>3, <3>4
  <2>6. x < n + 3 => r[x] = w[x] /\ N <= o[x] + w[x].len
    <3> SUFFICES ASSUME x < n + 3 PROVE r[x] = w[x] /\ N <= o[x] + w[x].len
      OBVIOUS
    <3>1. x \in 1..n + 2 /\ x < Len(r)
      BY <1>1, <1>8, <1>9, <2>4
    <3> QED BY <1>10, <2>2, <2>4, <3>1
  <2>7. Len(Tokens(u)) = n + 2 /\ n + 2 \in 1..x /\ Tokens(u)[1] = w[1]
    <3>1. ASSUME n + 2 \in 0..x, \A i \in 1..n + 2 : u[i] = w[i], \A i \in n + 3..x : u[i].len = 0
          PROVE  Len(Tokens(u)) = n + 2 /\ n + 2 \in 1..x /\ Tokens(u)[1] = w[1]
      <4>1. n + 2 \in 0..Len(u) /\ \A i \in 1..n + 2 : u[i].len # 0
        BY <1>1, <2>2, <3>1
      <4>2. \A i \in (n + 2) + 1..Len(u) : u[i].len = 0
        BY <1>1, <2>2, <3>1
      <4>3. Len(Tokens(u)) = n + 2 /\ \A i \in 1..n + 2 : Tokens(u)[i] = u[i]
        BY <2>2, <4>1, <4>2, TokensFacts
      <4>4. 1 \in 1..n + 2 /\ n + 2 \in 1..x
        BY <1>1, <3>1
      <4> QED BY <3>1, <4>3, <4>4
    <3>2. CASE N = B
      <4>1. x = n + 3
        <5> SUFFICES ASSUME x # n + 3 PROVE FALSE
          OBVIOUS
        <5>1. x < n + 3 /\ x \in 1..n + 2
          BY <1>1, <2>4, <2>5
        <5>2. o[x] + w[x].len + 1 <= B
          BY <1>3, <5>1
        <5> QED BY <1>2, <2>4, <2>6, <3>2, <5>1, <5>2
      <4>2. \A i \in 1..n + 2 : u[i] = w[i]
        <5>1. \A i \in 1..n + 2 : i \in 1..x - 1
          BY <1>1, <4>1
        <5> QED BY <1>10, <2>2, <5>1
      <4>3. u[n + 3].len = 0
        <5>1. N - p[x] = 0
          <6>1. o[x] = B
            BY <1>0, <4>1
          <6>2. p[x] = N
            BY <2>4, <3>2, <6>1
          <6> QED BY <1>15, <6>2
        <5>2. r[x] \in Pieces
          BY <1>8, <2>2, ElementOfSeq
        <5>3. r[x].len \in Nat /\ 0 \in Nat
          BY <5>2 DEF Pieces
        <5>4. u[x] = Prefix(r[x], 0)
          BY <2>2, <5>1
        <5>5. r[x].len > 0
          BY <1>7, <4>1
        <5>6. u[x].len = 0
          BY <5>2, <5>3, <5>4, <5>5, PrefixFacts
        <5> QED BY <4>1, <5>6
      <4>4. n + 2 \in 0..x /\ \A i \in n + 3..x : i = n + 3
        BY <1>1, <4>1
      <4> QED BY <3>1, <4>2, <4>3, <4>4
    <3>3. CASE N = B - 1
      <4>1. n + 2 \in 1..Len(w) /\ w[n + 2].len # 0 /\ n + 2 \in 1..n + 2
        BY <1>1
      <4>2. o[n + 2] \in Nat /\ w[n + 2].len \in Nat \ {0}
        BY <1>3, <4>1
      <4>0. N = o[n + 2] + w[n + 2].len /\ o[n + 2] + 1 <= N
        <5> DEFINE b == o[n + 2]
                   c == w[n + 2].len
        <5>1. B = b + c + 1 /\ b \in Nat /\ c \in Nat \ {0}
          BY <1>3, <4>2
        <5> HIDE DEF b, c
        <5>2. N = b + c /\ b + 1 <= N
          BY <3>3, <5>1
        <5> QED BY <5>2 DEF b, c
      <4>3. x = n + 2
        <5>1. CASE x = n + 3
          <6>1. o[x] = B
            BY <1>0, <5>1
          <6> QED BY <1>2, <2>4, <3>3, <6>1
        <5>2. CASE x < n + 2
          <6>1. x \in 1..n + 1 /\ x < n + 3
            BY <1>1, <2>4, <5>2
          <6>2. o[x] + w[x].len + 1 <= o[n + 2]
            BY <1>3, <6>1
          <6>3. N <= o[x] + w[x].len
            BY <2>6, <6>1
          <6>4. o[n + 2] + 1 <= N
            BY <4>0
          <6>5. \A a, b, c, e \in Nat : ~(a + b + 1 <= c /\ c + 1 <= e /\ e <= a + b)
            OBVIOUS
          <6>6. o[x] \in Nat /\ w[x].len \in Nat /\ o[n + 2] \in Nat /\ N \in Nat
            BY <1>15, <2>4, <4>2
          <6> QED BY <6>2, <6>3, <6>4, <6>5, <6>6, Zenon
        <5> QED BY <1>1, <2>4, <2>5, <5>1, <5>2, SMTT(60)
      <4>4. u[x] = w[x]
        <5>1. r[x] = w[x]
          BY <1>10, <4>1, <4>3
        <5>2. N - p[x] = w[n + 2].len
          <6>1. N = o[n + 2] + w[n + 2].len /\ p[x] = o[n + 2]
            BY <2>4, <4>0, <4>3
          <6> QED BY <4>2, <6>1
        <5>3. u[x] = Prefix(w[n + 2], w[n + 2].len)
          BY <2>2, <4>3, <5>1, <5>2
        <5>4. w[n + 2] \in Pieces /\ w[n + 2].len \in Nat /\ w[n + 2].len >= w[n + 2].len
          BY <1>3, <4>1, <4>2
        <5>5. Prefix(w[n + 2], w[n + 2].len) = w[n + 2]
          BY <5>4, PrefixFacts
        <5> QED BY <4>3, <5>3, <5>5
      <4>5. \A i \in 1..n + 2 : u[i] = w[i]
        <5>1. \A i \in 1..n + 2 : i \in 1..x - 1 \/ i = x
          BY <1>1, <4>3
        <5> QED BY <1>10, <2>2, <4>4, <5>1
      <4>6. n + 2 \in 0..x /\ \A i \in n + 3..x : FALSE
        BY <1>1, <4>3
      <4> QED BY <3>1, <4>5, <4>6
    <3> QED BY <1>15, <3>2, <3>3
  <2>8. Tokens(u) # <<>> /\ Tokens(u)[1].text = line.type
    <3>1. Len(Tokens(u)) # 0
      BY <1>1, <2>7
    <3> QED BY <1>1, <2>7, <3>1
  <2>9. Tokenize(r, declared) = Tokens(u)
    <3>1. u = IF Deformed(r, declared) THEN Terminated(r, HeaderLen(declared) + declared) ELSE r
      BY <1>18 DEF u, N
    <3>2. Tokens(u)[1].text \in DOMAIN ExpectedLast
      BY <1>6, <2>8
    <3>3. Len(Tokens(u)) = ExpectedLast[Tokens(u)[1].text] + (IF Deformed(r, declared) THEN 0 ELSE 1)
      BY <1>1, <1>6, <1>18, <2>7, <2>8
    <3> QED BY <2>8, <3>1, <3>2, <3>3, TokenizeGives
  <2>10. Len(result) >= 2
    BY <1>1, <1>16, <2>7, <2>9
  <2> QED BY <2>10, NeitherTwoLong
<1>19. CASE ~Deformed(r, declared)
  <2>1. k = B + 1
    BY <1>2, <1>5, <1>15, <1>17, <1>19
  <2>2. m = n + 3
    <3> SUFFICES ASSUME m # n + 3 PROVE FALSE
      OBVIOUS
    <3>1. m \in n + 4..Len(w) /\ n + 3 \in 1..m - 1 /\ n + 3 \in 1..Len(w)
      BY <1>1, <1>8, <1>9
    <3>2. B + w[n + 3].len + 1 <= o[m] /\ o[m] <= k /\ o[m] \in Nat /\ w[n + 3].len \in Nat
      BY <1>3, <1>8, <3>1
    <3>3. r[n + 3] = w[n + 3]
      BY <1>8, <3>1
    <3>4. \A b, l, x \in Nat : l > 0 /\ b + l + 1 <= x => ~(x <= b + 1)
      OBVIOUS
    <3>5. w[n + 3].len > 0
      BY <1>7, <3>3
    <3> QED BY <1>2, <2>1, <3>2, <3>4, <3>5, Zenon
  <2>3. Len(Tokens(r)) = n + 3
    BY <1>1, <1>8, <1>12, <2>2
  <2>4. Tokenize(r, declared) = Tokens(r)
    <3>1. r = IF Deformed(r, declared) THEN Terminated(r, HeaderLen(declared) + declared) ELSE r
      BY <1>19
    <3>2. Tokens(r)[1].text = line.type /\ Tokens(r) # <<>>
      <4>1. Len(Tokens(r)) # 0
        BY <1>1, <2>3
      <4> QED BY <1>1, <1>13, <4>1
    <3>3. Len(Tokens(r)) = ExpectedLast[Tokens(r)[1].text] + (IF Deformed(r, declared) THEN 0 ELSE 1)
      BY <1>1, <1>6, <1>19, <2>3, <3>2
    <3> QED BY <1>6, <3>1, <3>2, <3>3, TokenizeGives
  <2>5. Len(result) >= 2
    BY <1>1, <1>16, <2>3, <2>4
  <2> QED BY <2>5, NeitherTwoLong
<1> QED BY <1>18, <1>19

-----------------------------------------------------------------------------
(* The messages of MCFunctions.                                            *)

\* What was sent is well-formed, and raw is what recv returned of it.
MessageInv ==
  \A i \in DOMAIN sent :
    /\ WellFormed(sent[i].line, sent[i].declared, sent[i].tail)
    /\ \E k \in 1..Strlen(Raw(sent[i].line, sent[i].declared, sent[i].tail)) :
         raw = Terminated(Raw(sent[i].line, sent[i].declared, sent[i].tail), k)

\* The framing is right for every well-formed message.
LEMMA ReadAsDeclared == MessageInv => WellDeclaredRead
<1> SUFFICES ASSUME MessageInv, NEW i \in DOMAIN sent,
                    sent[i].declared = ArgsLen(sent[i].line), sent[i].line.type # "JUNK",
                    ~TooManyTokens(raw), NEW result \in Decode(raw)
             PROVE  /\ Strlen(raw) <= Bytes(sent[i]) => ~Accepted(result)
                    /\ /\ Strlen(raw) > Bytes(sent[i])
                       /\ raw[Len(sent[i].line.args) + 3].len > 0
                       => Accepted(result)
  BY Zenon DEF WellDeclaredRead
<1> DEFINE line == sent[i].line
           declared == sent[i].declared
           tail == sent[i].tail
           w == Raw(line, declared, tail)
<1>1. WellFormed(line, declared, tail)
  BY DEF MessageInv
<1>2. PICK k \in 1..Strlen(w) : raw = Terminated(w, k)
  BY DEF MessageInv
<1> HIDE DEF line, declared, tail
<1>3. w \in Seq(Pieces) /\ w # <<>>
  BY <1>1, RawFacts
<1>4. Strlen(w) \in Nat
  <2>1. Len(w) \in 1..Len(w) /\ \A j \in 1..Len(w) : Offset(w)[j] \in Nat /\ w[j].len \in Nat
    <3> HIDE DEF w
    <3>1. Len(w) \in Nat \ {0} /\ \A j \in 1..Len(w) : Offset(w)[j] \in Nat /\ w[j].len \in Nat
      BY <1>3, OffsetFacts
    <3> QED BY <3>1
  <2> HIDE DEF w
  <2> QED BY <1>3, <2>1 DEF Strlen
<1>5. k \in Nat /\ k <= Strlen(w) /\ Strlen(raw) = k
  <2>1. k \in Nat /\ k <= Strlen(w)
    BY <1>2, <1>4
  <2> HIDE DEF w
  <2> QED BY <1>2, <1>3, <2>1, CutLength
<1>6. Bytes(sent[i]) = 6 + Digits(declared) + ArgsLen(line)
  BY DEF Bytes, line, declared
<1>7. declared = ArgsLen(line) /\ line.type # "JUNK" /\ Bytes(sent[i]) \in Nat
  <2>1. declared = ArgsLen(line) /\ line.type # "JUNK"
    BY DEF declared, line
  <2>2. ArgsLen(line) \in Nat /\ Digits(declared) \in 1..3
    BY <1>1, ArgsEnd, RawFacts
  <2> QED BY <1>6, <2>1, <2>2
<1>8. ASSUME Strlen(raw) <= Bytes(sent[i]), Accepted(result) PROVE FALSE
  <2>1. k <= 6 + Digits(declared) + ArgsLen(line)
    BY <1>5, <1>6, <1>8
  <2>2. result \in Decode(Terminated(Raw(line, declared, tail), k))
    BY <1>2
  <2> QED BY <1>1, <1>5, <1>7, <1>8, <2>1, <2>2, HalfMessageRefused
<1>9. ASSUME Strlen(raw) > Bytes(sent[i]), raw[Len(line.args) + 3].len > 0
      PROVE  Accepted(result)
  <2>1. k > 6 + Digits(declared) + ArgsLen(line)
    BY <1>5, <1>6, <1>9
  <2>2. result \in Decode(Terminated(Raw(line, declared, tail), k))
    BY <1>2
  <2>3. /\ Terminated(Raw(line, declared, tail), k)[Len(line.args) + 3].len > 0
        /\ ~TooManyTokens(Terminated(Raw(line, declared, tail), k))
    BY <1>2, <1>9
  <2> QED BY <1>1, <1>5, <1>7, <2>1, <2>2, <2>3, WholeMessageAccepted
<1> QED BY <1>8, <1>9 DEF line

\* Whatever a client sends for a message, whatever length it declares, whatever follows
\* and wherever recv breaks off: what findmsglen and tokenize accept is the type and the
\* arguments at its front, of which the last one at most is cut.
THEOREM AnyMessageActedOn ==
  ASSUME NEW line, NEW declared, NEW tail, WellFormed(line, declared, tail),
         NEW k \in 1..Strlen(Raw(line, declared, tail)),
         NEW result \in Decode(Terminated(Raw(line, declared, tail), k)), Accepted(result)
  PROVE  /\ result[1].text = line.type
         /\ Len(result) >= Len(line.args) + 2
         /\ \A x \in 1..Len(line.args) :
              \/ result[x + 2] = line.args[x]
              \/ x = Len(line.args) /\ result[x + 2].len < line.args[x].len
<1> DEFINE w == Raw(line, declared, tail)
           cut == Terminated(w, k)
<1>1. w \in Seq(Pieces) /\ w # <<>>
  BY RawFacts
<1>2. k \in Nat
  <2>1. Len(w) \in 1..Len(w) /\ \A j \in 1..Len(w) : Offset(w)[j] \in Nat /\ w[j].len \in Nat
    <3> HIDE DEF w
    <3>1. Len(w) \in Nat \ {0} /\ \A j \in 1..Len(w) : Offset(w)[j] \in Nat /\ w[j].len \in Nat
      BY <1>1, OffsetFacts
    <3> QED BY <3>1
  <2>2. k \in 1..Strlen(w)
    OBVIOUS
  <2> HIDE DEF w
  <2> QED BY <2>2, <1>1, <2>1 DEF Strlen
<1>3. Begins(cut, w) /\ cut \in Seq(Pieces) /\ cut # <<>>
  <2>0. k \in 1..Strlen(w)
    OBVIOUS
  <2> HIDE DEF w
  <2>1. Begins(cut, w)
    BY <2>0, <1>1, <1>2, CutBegins
  <2>2. cut \in Seq(Pieces) /\ Len(cut) # 0
    BY <2>1 DEF Begins
  <2> QED BY <2>1, <2>2
<1>4. result \in Decode(cut) /\ Accepted(result)
  OBVIOUS
<1> HIDE DEF cut
<1>5. PICK u :
        /\ Begins(u, cut)
        /\ result = Tokens(u) /\ result # <<>>
        /\ result[1].text \in DOMAIN ExpectedLast
        /\ Len(result) = ExpectedLast[result[1].text]
                           + (IF Deformed(cut, FindMsgLen(cut)) THEN 0 ELSE 1)
  BY <1>3, <1>4, AcceptedMeans
<1>6. Begins(u, w)
  <2> HIDE DEF w
  <2> QED BY <1>1, <1>3, <1>5, BeginningOfBeginning
<1>7. Len(Tokens(u)) >= ExpectedLast[Tokens(u)[1].text]
  <2>1. ExpectedLast[result[1].text] \in Nat
    BY <1>5, ExpectedFacts
  <2> QED BY <1>5, <2>1
<1>8. /\ Tokens(u)[1].text = line.type
      /\ Len(Tokens(u)) >= Len(line.args) + 2
      /\ \A x \in 1..Len(line.args) :
           \/ Tokens(u)[x + 2] = line.args[x]
           \/ x = Len(line.args) /\ Tokens(u)[x + 2].len < line.args[x].len
  BY <1>5, <1>6, <1>7, AsSent
<1> QED BY <1>5, <1>8

LEMMA ActedOnIsSent == MessageInv => ActedOnAsSent
<1> SUFFICES ASSUME MessageInv, NEW i \in DOMAIN sent, NEW result \in Decode(raw), Accepted(result)
             PROVE  /\ result[1].text = sent[i].line.type
                    /\ Len(result) >= Len(sent[i].line.args) + 2
                    /\ \A k \in 1..Len(sent[i].line.args) :
                         \/ result[k + 2] = sent[i].line.args[k]
                         \/ /\ k = Len(sent[i].line.args)
                            /\ result[k + 2].len < sent[i].line.args[k].len
  BY Zenon DEF ActedOnAsSent
<1> DEFINE line == sent[i].line
           declared == sent[i].declared
           tail == sent[i].tail
<1>1. WellFormed(line, declared, tail)
  BY DEF MessageInv
<1>2. PICK k \in 1..Strlen(Raw(line, declared, tail)) : raw = Terminated(Raw(line, declared, tail), k)
  BY DEF MessageInv
<1>3. result \in Decode(Terminated(Raw(line, declared, tail), k)) /\ Accepted(result)
  BY <1>2
<1> HIDE DEF line, declared, tail
<1>4. /\ result[1].text = line.type
      /\ Len(result) >= Len(line.args) + 2
      /\ \A x \in 1..Len(line.args) :
           \/ result[x + 2] = line.args[x]
           \/ x = Len(line.args) /\ result[x + 2].len < line.args[x].len
  BY <1>1, <1>2, <1>3, AnyMessageActedOn
<1> QED BY <1>4 DEF line

\* The lines and the tails are well-formed.
Formed(line) == WellFormed(line, 0, <<Nothing>>)

LEMMA NothingIsPiece ==
  /\ Nothing \in Pieces /\ Newline \in Pieces
  /\ <<Nothing>> \in Seq(Pieces) /\ <<Nothing>> # <<>>
  /\ <<Newline>> \in Seq(Pieces) /\ <<Newline>> # <<>>
<1>1. "" \in Names /\ "newline" \in Names /\ 0 \in Nat /\ 1 \in Nat
  BY DEF Names
<1>2. Nothing \in Pieces /\ Newline \in Pieces
  BY <1>1, FieldFacts, Zenon DEF Nothing, Newline
<1> QED BY <1>2

NoneEmpty(args) == args \in Seq(Pieces) /\ \A i \in 1..Len(args) : args[i].len # 0

\* t has n arguments.
Takes(t, n) ==
  /\ t \in Names
  /\ t \in DOMAIN ExpectedLast => n + 2 = ExpectedLast[t]
  /\ t # "JUNK" => t \in DOMAIN ExpectedLast

LEMMA ArgsFilled ==
  /\ NoneEmpty(<<>>) /\ Len(<<>>) = 0
  /\ \A x \in Pieces :
       x.len # 0 => NoneEmpty(<<x>>) /\ Len(<<x>>) = 1
  /\ \A x, y \in Pieces :
       x.len # 0 /\ y.len # 0 => NoneEmpty(<<x, y>>) /\ Len(<<x, y>>) = 2
  /\ \A x, y, z \in Pieces :
       x.len # 0 /\ y.len # 0 /\ z.len # 0 =>
         NoneEmpty(<<x, y, z>>) /\ Len(<<x, y, z>>) = 3
<1>1. NoneEmpty(<<>>) /\ Len(<<>>) = 0
  BY EmptySeq DEF NoneEmpty
<1>2. ASSUME NEW x \in Pieces, NEW y \in Pieces, NEW z \in Pieces, x.len # 0, y.len # 0, z.len # 0
      PROVE  /\ NoneEmpty(<<x>>) /\ Len(<<x>>) = 1
             /\ NoneEmpty(<<x, y>>) /\ Len(<<x, y>>) = 2
             /\ NoneEmpty(<<x, y, z>>) /\ Len(<<x, y, z>>) = 3
  <2>1. <<x>> \in Seq(Pieces) /\ <<x, y>> \in Seq(Pieces) /\ <<x, y, z>> \in Seq(Pieces)
    OBVIOUS
  <2>2. Len(<<x>>) = 1 /\ Len(<<x, y>>) = 2 /\ Len(<<x, y, z>>) = 3
    OBVIOUS
  <2>3. \A i \in 1..1 : <<x>>[i].len # 0
    BY <1>2
  <2>4. \A i \in 1..2 : <<x, y>>[i].len # 0
    BY <1>2
  <2>5. \A i \in 1..3 : <<x, y, z>>[i].len # 0
    BY <1>2
  <2> QED BY <2>1, <2>2, <2>3, <2>4, <2>5 DEF NoneEmpty
<1> QED BY <1>1, <1>2

LEMMA LineFormed ==
  ASSUME NEW t, NEW args, NoneEmpty(args), Takes(t, Len(args))
  PROVE  Formed(Line(t, args))
<1>1. Line(t, args).type = t /\ Line(t, args).args = args
  BY DEF Line
<1>2. args \in Seq(Pieces) /\ \A i \in 1..Len(args) : args[i].len # 0
  BY DEF NoneEmpty
<1>3. /\ t \in Names
      /\ t \in DOMAIN ExpectedLast => Len(args) + 2 = ExpectedLast[t]
      /\ t # "JUNK" => t \in DOMAIN ExpectedLast
  BY DEF Takes
<1>4. 0 \in Int
  OBVIOUS
<1> HIDE DEF Line
<1> QED BY <1>1, <1>2, <1>3, <1>4, NothingIsPiece, Zenon DEF Formed, WellFormed

LEMMA LineTakes ==
  /\ Takes("RSGN", 0) /\ Takes("DRAW", 1) /\ Takes("PLAY", 1)
  /\ Takes("MOVE", 2) /\ Takes("BEGN", 2) /\ Takes("JUNK", 2) /\ Takes("MOVD", 3)
<1>1. \A t \in {"RSGN", "DRAW", "PLAY", "MOVE", "BEGN", "JUNK", "MOVD"} : t \in Names
  BY DEF Names
<1>2. Takes("RSGN", 0)
  BY <1>1 DEF Takes, ExpectedLast
<1>3. Takes("DRAW", 1) /\ Takes("PLAY", 1)
  BY <1>1 DEF Takes, ExpectedLast
<1>4. Takes("MOVE", 2) /\ Takes("BEGN", 2)
  BY <1>1 DEF Takes, ExpectedLast
<1>5. Takes("JUNK", 2)
  BY <1>1 DEF Takes, ExpectedLast
<1>6. Takes("MOVD", 3)
  BY <1>1 DEF Takes, ExpectedLast
<1> QED BY <1>2, <1>3, <1>4, <1>5, <1>6

LEMMA LinesFormed == \A line \in Lines : Formed(line)
<1>1. /\ "S" \in Names /\ "X" \in Names /\ "O" \in Names /\ "A" \in Names /\ "B" \in Names
      /\ "2,2" \in Names /\ "board" \in Names /\ "JACK" \in Names /\ "name" \in Names
  BY DEF Names
<1>2. 1 \in Nat /\ 3 \in Nat /\ 4 \in Nat /\ 9 \in Nat /\ 1 # 0 /\ 3 # 0 /\ 4 # 0 /\ 9 # 0
  OBVIOUS
<1>3. ASSUME NEW t \in Names, NEW n \in Nat, n # 0
      PROVE  Field(t, n) \in Pieces /\ Field(t, n).len # 0
  BY <1>3, FieldFacts
<1>4. /\ Field("S", 1) \in Pieces /\ Field("S", 1).len # 0
      /\ Field("X", 1) \in Pieces /\ Field("X", 1).len # 0
      /\ Field("O", 1) \in Pieces /\ Field("O", 1).len # 0
      /\ Field("A", 1) \in Pieces /\ Field("A", 1).len # 0
      /\ Field("B", 1) \in Pieces /\ Field("B", 1).len # 0
      /\ Field("2,2", 3) \in Pieces /\ Field("2,2", 3).len # 0
      /\ Field("board", 9) \in Pieces /\ Field("board", 9).len # 0
      /\ Field("JACK", 4) \in Pieces /\ Field("JACK", 4).len # 0
  <2>1. Field("S", 1) \in Pieces /\ Field("S", 1).len # 0
    BY <1>1, <1>2, <1>3, Zenon
  <2>2. Field("X", 1) \in Pieces /\ Field("X", 1).len # 0
    BY <1>1, <1>2, <1>3, Zenon
  <2>3. Field("O", 1) \in Pieces /\ Field("O", 1).len # 0
    BY <1>1, <1>2, <1>3, Zenon
  <2>4. Field("A", 1) \in Pieces /\ Field("A", 1).len # 0
    BY <1>1, <1>2, <1>3, Zenon
  <2>5. Field("B", 1) \in Pieces /\ Field("B", 1).len # 0
    BY <1>1, <1>2, <1>3, Zenon
  <2>6. Field("2,2", 3) \in Pieces /\ Field("2,2", 3).len # 0
    BY <1>1, <1>2, <1>3, Zenon
  <2>7. Field("board", 9) \in Pieces /\ Field("board", 9).len # 0
    BY <1>1, <1>2, <1>3, Zenon
  <2>8. Field("JACK", 4) \in Pieces /\ Field("JACK", 4).len # 0
    BY <1>1, <1>2, <1>3, Zenon
  <2> QED BY <2>1, <2>2, <2>3, <2>4, <2>5, <2>6, <2>7, <2>8, Zenon
<1>5. Formed(Line("RSGN", <<>>))
  BY ArgsFilled, LineTakes, LineFormed, Zenon
<1>6. Formed(Line("DRAW", <<Field("S", 1)>>))
  <2>1. NoneEmpty(<<Field("S", 1)>>) /\ Len(<<Field("S", 1)>>) = 1
    BY <1>4, ArgsFilled, Zenon
  <2> QED BY <2>1, LineTakes, LineFormed, Zenon
<1>7. ASSUME NEW len \in {4, 8, 9, 10, 97, 98, 99}
      PROVE  Formed(Line("PLAY", <<Field("name", len)>>))
  <2>1. len \in Nat /\ len # 0
    OBVIOUS
  <2>0. Field("name", len) \in Pieces /\ Field("name", len).len # 0
    <3> DEFINE t == "name"
    <3>1. t \in Names
      BY <1>1
    <3> HIDE DEF t
    <3>2. Field(t, len) \in Pieces /\ Field(t, len).len # 0
      BY <2>1, <3>1, FieldFacts
    <3> QED BY <3>2 DEF t
  <2>2. NoneEmpty(<<Field("name", len)>>) /\ Len(<<Field("name", len)>>) = 1
    BY <2>0, ArgsFilled, Zenon
  <2> QED BY <2>2, LineTakes, LineFormed, Zenon
<1>8. Formed(Line("MOVE", <<Field("X", 1), Field("2,2", 3)>>))
  <2>1. /\ NoneEmpty(<<Field("X", 1), Field("2,2", 3)>>)
        /\ Len(<<Field("X", 1), Field("2,2", 3)>>) = 2
    BY <1>4, ArgsFilled, Zenon
  <2> QED BY <2>1, LineTakes, LineFormed, Zenon
<1>9. Formed(Line("BEGN", <<Field("O", 1), Field("JACK", 4)>>))
  <2>1. /\ NoneEmpty(<<Field("O", 1), Field("JACK", 4)>>)
        /\ Len(<<Field("O", 1), Field("JACK", 4)>>) = 2
    BY <1>4, ArgsFilled, Zenon
  <2> QED BY <2>1, LineTakes, LineFormed, Zenon
<1>10. Formed(Line("JUNK", <<Field("A", 1), Field("B", 1)>>))
  <2>1. /\ NoneEmpty(<<Field("A", 1), Field("B", 1)>>)
        /\ Len(<<Field("A", 1), Field("B", 1)>>) = 2
    BY <1>4, ArgsFilled, Zenon
  <2> QED BY <2>1, LineTakes, LineFormed, Zenon
<1>11. Formed(Line("MOVD", <<Field("X", 1), Field("2,2", 3), Field("board", 9)>>))
  <2>1. /\ NoneEmpty(<<Field("X", 1), Field("2,2", 3), Field("board", 9)>>)
        /\ Len(<<Field("X", 1), Field("2,2", 3), Field("board", 9)>>) = 3
    BY <1>4, ArgsFilled, Zenon
  <2> QED BY <2>1, LineTakes, LineFormed, Zenon
<1>12. \A line \in Lines :
         \/ line = Line("RSGN", <<>>) \/ line = Line("DRAW", <<Field("S", 1)>>)
         \/ line = Line("MOVE", <<Field("X", 1), Field("2,2", 3)>>)
         \/ line = Line("MOVD", <<Field("X", 1), Field("2,2", 3), Field("board", 9)>>)
         \/ line = Line("BEGN", <<Field("O", 1), Field("JACK", 4)>>)
         \/ line = Line("JUNK", <<Field("A", 1), Field("B", 1)>>)
         \/ \E len \in {4, 8, 9, 10, 97, 98, 99} : line = Line("PLAY", <<Field("name", len)>>)
  <2> TAKE line \in Lines
  <2> DEFINE six == {Line("RSGN", <<>>), Line("DRAW", <<Field("S", 1)>>),
                     Line("MOVE", <<Field("X", 1), Field("2,2", 3)>>),
                     Line("MOVD", <<Field("X", 1), Field("2,2", 3), Field("board", 9)>>),
                     Line("BEGN", <<Field("O", 1), Field("JACK", 4)>>),
                     Line("JUNK", <<Field("A", 1), Field("B", 1)>>)}
             plays == {Line("PLAY", <<Field("name", len)>>) : len \in {4, 8, 9, 10, 97, 98, 99}}
  <2>1. Lines = six \cup plays
    BY Zenon DEF Lines
  <2>2. ASSUME line \in plays
        PROVE  \E len \in {4, 8, 9, 10, 97, 98, 99} : line = Line("PLAY", <<Field("name", len)>>)
    BY <2>2, Zenon
  <2>3. ASSUME line \in six
        PROVE  \/ line = Line("RSGN", <<>>) \/ line = Line("DRAW", <<Field("S", 1)>>)
               \/ line = Line("MOVE", <<Field("X", 1), Field("2,2", 3)>>)
               \/ line = Line("MOVD", <<Field("X", 1), Field("2,2", 3), Field("board", 9)>>)
               \/ line = Line("BEGN", <<Field("O", 1), Field("JACK", 4)>>)
               \/ line = Line("JUNK", <<Field("A", 1), Field("B", 1)>>)
    BY <2>3, Zenon
  <2> HIDE DEF six, plays
  <2>4. line \in six \/ line \in plays
    BY <2>1
  <2> QED BY <2>2, <2>3, <2>4, Zenon
<1> TAKE line \in Lines
<1> HIDE DEF Formed, Line, Field
<1>14. CASE \E len \in {4, 8, 9, 10, 97, 98, 99} : line = Line("PLAY", <<Field("name", len)>>)
  <2>1. PICK len \in {4, 8, 9, 10, 97, 98, 99} : line = Line("PLAY", <<Field("name", len)>>)
    BY <1>14
  <2>2. Formed(Line("PLAY", <<Field("name", len)>>))
    BY <1>7, Zenon
  <2> QED BY <2>1, <2>2, Zenon
<1>15. CASE line = Line("RSGN", <<>>)
  BY <1>5, <1>15, Zenon
<1>16. CASE line = Line("DRAW", <<Field("S", 1)>>)
  BY <1>6, <1>16, Zenon
<1>17. CASE line = Line("MOVE", <<Field("X", 1), Field("2,2", 3)>>)
  BY <1>8, <1>17, Zenon
<1>18. CASE line = Line("MOVD", <<Field("X", 1), Field("2,2", 3), Field("board", 9)>>)
  BY <1>11, <1>18, Zenon
<1>19. CASE line = Line("BEGN", <<Field("O", 1), Field("JACK", 4)>>)
  BY <1>9, <1>19, Zenon
<1>20. CASE line = Line("JUNK", <<Field("A", 1), Field("B", 1)>>)
  BY <1>10, <1>20, Zenon
<1> QED BY <1>12, <1>14, <1>15, <1>16, <1>17, <1>18, <1>19, <1>20

LEMMA DeclaredIsInt ==
  ASSUME NEW line, Formed(line)
  PROVE  ArgsLen(line) \in Nat /\ \A d \in Declared(line) : d \in Int
<1>1. ArgsLen(line) \in Nat
  BY ArgsEnd DEF Formed
<1>2. ASSUME NEW d \in Declared(line) PROVE d \in Int
  BY <1>1 DEF Declared
<1> QED BY <1>1, <1>2

LEMMA JoinedIsMessage ==
  ASSUME NEW b \in Seq(Pieces), b # <<>>
  PROVE  Joined(<<Newline>>, b) \in Seq(Pieces) /\ Joined(<<Newline>>, b) # <<>>
<1> DEFINE g == b[1]
           glued == IF Newline.len = 0 THEN g ELSE IF g.len = 0 THEN Newline
                    ELSE [text |-> "joined fields", len |-> Newline.len + g.len, num |-> Newline.num]
<1>1. g \in Pieces
  <2>1. 1 \in 1..Len(b)
    BY LenProperties, EmptySeq
  <2> QED BY <2>1, ElementOfSeq
<1>2. Newline \in Pieces /\ "joined fields" \in Names
  BY NothingIsPiece DEF Names
<1>3. glued \in Pieces
  <2>1. g.len \in Nat /\ Newline.len \in Nat /\ Newline.num \in Int
    BY <1>1, <1>2 DEF Pieces
  <2>2. \A t \in Names, l \in Nat, x \in Int : [text |-> t, len |-> l, num |-> x] \in Pieces
    BY DEF Pieces
  <2>3. Newline.len + g.len \in Nat
    BY <2>1
  <2> HIDE DEF g
  <2>4. [text |-> "joined fields", len |-> Newline.len + g.len, num |-> Newline.num] \in Pieces
    BY <1>2, <2>1, <2>2, <2>3, Zenon
  <2> QED BY <1>1, <1>2, <2>4
<1>4. Joined(<<Newline>>, b) = SubSeq(<<Newline>>, 1, 0) \o <<glued>> \o Tail(b)
  <2>1. Len(<<Newline>>) = 1 /\ <<Newline>>[1] = Newline /\ 1 - 1 = 0
    OBVIOUS
  <2> QED BY <2>1 DEF Joined
<1> HIDE DEF glued
<1>5. Tail(b) \in Seq(Pieces)
  BY HeadTailProperties
<1>6. SubSeq(<<Newline>>, 1, 0) = <<>>
  BY SubSeqEmpty
<1>7. <<glued>> \in Seq(Pieces) /\ <<>> \in Seq(Pieces) /\ Len(<<glued>>) = 1 /\ Len(<<>>) = 0
  BY <1>3
<1> DEFINE one == <<>> \o <<glued>>
<1>8. one \in Seq(Pieces) /\ Len(one) = 1
  BY <1>7, ConcatProperties
<1> HIDE DEF one
<1>9. one \o Tail(b) \in Seq(Pieces) /\ Len(one \o Tail(b)) = 1 + Len(Tail(b)) /\ Len(Tail(b)) \in Nat
  <2> DEFINE rest == Tail(b)
  <2>1. rest \in Seq(Pieces) /\ Len(rest) \in Nat
    BY <1>5, LenProperties
  <2> HIDE DEF rest
  <2>2. one \o rest \in Seq(Pieces) /\ Len(one \o rest) = Len(one) + Len(rest)
    BY <1>8, <2>1, ConcatProperties
  <2> QED BY <1>8, <2>1, <2>2 DEF rest
<1>10. one \o Tail(b) # <<>>
  BY <1>9, EmptySeq
<1> QED BY <1>4, <1>6, <1>9, <1>10 DEF one

LEMMA TailsFormed == \A tail \in Tails : tail \in Seq(Pieces) /\ tail # <<>>
<1>1. /\ Nothing \in Pieces /\ Newline \in Pieces /\ Field("garbage", 7) \in Pieces
      /\ Field("a", 1) \in Pieces /\ Field("b", 1) \in Pieces
  <2>1. "garbage" \in Names /\ "a" \in Names /\ "b" \in Names /\ 7 \in Nat /\ 1 \in Nat
    BY DEF Names
  <2> QED BY <2>1, NothingIsPiece, FieldFacts
<1>2. ASSUME NEW line, NEW d \in Int, Formed(line)
      PROVE  /\ Joined(<<Newline>>, Raw(line, d, <<Newline>>)) \in Seq(Pieces)
             /\ Joined(<<Newline>>, Raw(line, d, <<Newline>>)) # <<>>
  <2>1. WellFormed(line, d, <<Newline>>)
    BY <1>2, NothingIsPiece DEF Formed, WellFormed
  <2>2. Raw(line, d, <<Newline>>) \in Seq(Pieces) /\ Raw(line, d, <<Newline>>) # <<>>
    BY <2>1, RawFacts
  <2> QED BY <2>2, JoinedIsMessage
<1>3. Formed(NextLine) /\ ArgsLen(NextLine) \in Int /\ Formed(Line("RSGN", <<>>)) /\ 0 \in Int
  <2>1. NextLine \in Lines /\ Line("RSGN", <<>>) \in Lines
    BY DEF Lines, NextLine
  <2>2. Formed(NextLine) /\ Formed(Line("RSGN", <<>>))
    BY <2>1, LinesFormed
  <2>3. ArgsLen(NextLine) \in Nat
    BY <2>2, DeclaredIsInt
  <2> QED BY <2>2, <2>3
<1> DEFINE j1 == Joined(<<Newline>>, Raw(NextLine, ArgsLen(NextLine), <<Newline>>))
           j2 == Joined(<<Newline>>, Raw(Line("RSGN", <<>>), 0, <<Newline>>))
<1>4. j1 \in Seq(Pieces) /\ j1 # <<>> /\ j2 \in Seq(Pieces) /\ j2 # <<>>
  BY <1>2, <1>3
<1>5. ASSUME NEW a \in Pieces, NEW b \in Pieces
      PROVE  <<a>> \in Seq(Pieces) /\ <<a>> # <<>> /\ <<a, b>> \in Seq(Pieces) /\ <<a, b>> # <<>>
  OBVIOUS
<1>6. \A tail \in Tails :
        \/ tail = <<Nothing>> \/ tail = <<Newline>> \/ tail = <<Nothing, Nothing>>
        \/ tail = <<Field("garbage", 7)>> \/ tail = <<Field("garbage", 7), Newline>>
        \/ tail = <<Field("a", 1), Field("b", 1)>>
        \/ tail = j1 \/ tail = j2
  BY Zenon DEF Tails
<1> HIDE DEF j1, j2
<1> QED BY <1>1, <1>4, <1>5, <1>6

LEMMA MessageKept == Spec => []MessageInv
<1>1. Init => MessageInv
  BY DEF Init, MessageInv
<1>2. MessageInv /\ [Next]_vars => MessageInv'
  <2> SUFFICES ASSUME MessageInv, [Next]_vars PROVE MessageInv'
    OBVIOUS
  <2>1. CASE Receive
    <3>1. PICK line \in Lines, tail \in Tails : \E declared \in Declared(line) :
            LET whole == Raw(line, declared, tail)
            IN  \E k \in 1..Strlen(whole) :
                  /\ sent' = <<[line |-> line, declared |-> declared, tail |-> tail]>>
                  /\ raw' = Terminated(whole, k)
      BY <2>1 DEF Receive
    <3>2. PICK declared \in Declared(line) :
            \E k \in 1..Strlen(Raw(line, declared, tail)) :
              /\ sent' = <<[line |-> line, declared |-> declared, tail |-> tail]>>
              /\ raw' = Terminated(Raw(line, declared, tail), k)
      BY <3>1
    <3>3. WellFormed(line, declared, tail)
      <4>1. Formed(line)
        BY LinesFormed
      <4>2. declared \in Int
        BY <4>1, DeclaredIsInt
      <4>3. tail \in Seq(Pieces) /\ tail # <<>>
        BY TailsFormed
      <4> QED BY <4>1, <4>2, <4>3 DEF Formed, WellFormed
    <3> DEFINE s == [line |-> line, declared |-> declared, tail |-> tail]
    <3>4. s.line = line /\ s.declared = declared /\ s.tail = tail
      OBVIOUS
    <3>5. sent' = <<s>>
      BY <3>2
    <3> HIDE DEF s
    <3>6. \A i \in DOMAIN sent' : sent'[i] = s
      BY <3>5
    <3> QED BY <3>2, <3>3, <3>4, <3>6 DEF MessageInv
  <2>2. CASE UNCHANGED <<sent, raw>>
    BY <2>2 DEF MessageInv
  <2>3. CASE Write
    BY <2>2, <2>3 DEF Write
  <2>4. CASE Type
    BY <2>2, <2>4 DEF Type
  <2>5. CASE UNCHANGED vars
    BY <2>2, <2>5 DEF vars
  <2> QED BY <2>1, <2>3, <2>4, <2>5 DEF Next
<1> QED BY <1>1, <1>2, PTL DEF Spec

\* A line with the right length is acted on when and only when all of it is there and
\* something follows it, wherever recv broke off.
THEOREM WholeLinesRead == Spec => []WellDeclaredRead
BY MessageKept, ReadAsDeclared, PTL

\* Nothing is acted on but the line the client wrote first, whatever its length says.
THEOREM NothingElseActedOn == Spec => []ActedOnAsSent
BY MessageKept, ActedOnIsSent, PTL
=============================================================================
