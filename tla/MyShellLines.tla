---------------------------- MODULE MyShellLines ----------------------------
(***************************************************************************)
(* From the bytes main of my-shell/my-shell.c reads to the tokens of a     *)
(* line: the loop over read, append, and tokenize.  MyShell goes on with   *)
(* the tokens.  read returns what there is, up to BUFSIZE bytes, so a line *)
(* may come in pieces and several lines at once; what is behind the last   *)
(* newline is kept in lineBuffer.                                          *)
(*                                                                         *)
(* A byte is a blank, an operator, a newline or any other (a member of     *)
(* Regular).  A definition named X__Y is X with the mistake Y in it; no    *)
(* other definition uses it.                                               *)
(***************************************************************************)
EXTENDS Integers, Sequences, FiniteSets

CONSTANTS
  BUFSIZE,    \* the length of buffer and the first length of lineBuffer (512)
  MaxToken,   \* the length of strtemp, with its terminating zero (500)
  MaxTokens,  \* the length of tokens (100)
  Regular,    \* the bytes that have no meaning to tokenize
  Texts       \* what users type, or files contain

Space == " "
NL == "newline"
Operators == {"<", ">", "|"}
Characters == Regular \cup Operators \cup {Space, NL}

ASSUME BufsizeAssumption == BUFSIZE \in Nat \ {0}
ASSUME LengthsAssumption == MaxToken \in Nat /\ MaxTokens \in Nat
ASSUME RegularAssumption == Regular \cap (Operators \cup {Space, NL}) = {}
ASSUME TextsAssumption == Texts \subseteq Seq(Characters)

VARIABLES
  text,       \* all of the input
  input,      \* what was not read yet
  buffer,     \* what was read and not looked at: buffer from lstart on
  lineBuffer, \* its first linePos bytes
  lineSize,   \* the length of its block
  consumed,   \* the lines handed to tokenize, one behind the other
  handed      \* the last of them

lineVars == <<text, input, buffer, lineBuffer, lineSize, consumed, handed>>

LinesInit ==
  /\ text \in Texts /\ input = text
  /\ buffer = <<>> /\ lineBuffer = <<>> /\ lineSize = BUFSIZE
  /\ consumed = <<>> /\ handed = <<>>

-----------------------------------------------------------------------------
Grown__Never(bytes) == lineSize

\* append: the block is made twice as long at most once.
Grown(bytes) ==
  IF Len(lineBuffer) + Len(bytes) > lineSize THEN 2 * lineSize ELSE lineSize

Complete(s, p) == s[p] = NL /\ \A q \in 1..p - 1 : s[q] # NL

Ended == input = <<>> /\ buffer = <<>>

\* parseLineAndExecute gets the line in lineBuffer with `bytes' appended.
Hand(bytes) ==
  /\ handed' = lineBuffer \o bytes
  /\ consumed' = consumed \o handed'
  /\ lineBuffer' = <<>>
  /\ lineSize' = Grown(bytes)

Read ==
  /\ buffer = <<>> /\ input # <<>>
  /\ \E n \in 1..BUFSIZE :
       /\ n <= Len(input)
       /\ buffer' = SubSeq(input, 1, n)
       /\ input' = SubSeq(input, n + 1, Len(input))
  /\ UNCHANGED <<text, lineBuffer, lineSize, consumed, handed>>

FinishLine__NotReset ==
  \E p \in DOMAIN buffer :
    /\ Complete(buffer, p)
    /\ handed' = lineBuffer \o SubSeq(buffer, 1, p)
    /\ consumed' = consumed \o handed'
    /\ lineBuffer' = handed'
    /\ lineSize' = Grown(SubSeq(buffer, 1, p))
    /\ buffer' = SubSeq(buffer, p + 1, Len(buffer))
    /\ UNCHANGED <<text, input>>

FinishLine ==
  \E p \in DOMAIN buffer :
    /\ Complete(buffer, p)
    /\ Hand(SubSeq(buffer, 1, p))
    /\ buffer' = SubSeq(buffer, p + 1, Len(buffer))
    /\ UNCHANGED <<text, input>>

KeepPartial ==
  /\ buffer # <<>> /\ \A p \in DOMAIN buffer : buffer[p] # NL
  /\ lineBuffer' = lineBuffer \o buffer
  /\ lineSize' = Grown(buffer)
  /\ buffer' = <<>>
  /\ UNCHANGED <<text, input, consumed, handed>>

\* The file ended with a partial line.
LastLine ==
  /\ Ended /\ lineBuffer # <<>>
  /\ Hand(<<NL>>)
  /\ UNCHANGED <<text, input, buffer>>

LinesNext == Read \/ FinishLine \/ KeepPartial \/ LastLine

LinesSpec == LinesInit /\ [][LinesNext]_lineVars

-----------------------------------------------------------------------------
(***************************************************************************)
(* tokenize.  The bytes since the last token are in strtemp; `count' is    *)
(* their number.  What is written behind strtemp or tokens, the read of    *)
(* tokens[-1] when there is no token, and the zero that is first written   *)
(* behind a line that fills its block of `size' bytes (503), is Undefined. *)
(***************************************************************************)
Undefined == <<"undefined">>

Flushed(s) ==
  IF s.strtemp = <<>> THEN s
  ELSE [tokens |-> Append(s.tokens, s.strtemp), strtemp |-> <<>>, fits |-> s.fits]

TokenizeByte(s, ch) ==
  IF ch = Space THEN Flushed(s)
  ELSE IF ch \in Operators
    THEN LET f == Flushed(s)
         IN  [f EXCEPT !.tokens = Append(@, <<ch>>)]
  ELSE [s EXCEPT !.strtemp = Append(@, ch),
                 !.fits = @ /\ Len(s.strtemp) + 1 < MaxToken]

TokenizeBytes(line) ==
  LET state[i \in 0..Len(line)] ==
        IF i = 0 THEN [tokens |-> <<>>, strtemp |-> <<>>, fits |-> TRUE]
        ELSE TokenizeByte(state[i - 1], line[i])
  IN  state[Len(line)]

ShellTokenize__KeepsNewline(line, size) ==
  LET s == TokenizeBytes(line)
      tokens == Flushed(s).tokens
  IN  IF size <= Len(line) THEN Undefined
      ELSE IF line = <<NL>> THEN <<>>
      ELSE IF ~s.fits \/ Len(tokens) > MaxTokens \/ tokens = <<>> THEN Undefined ELSE tokens

\* One byte left in strtemp is the newline, and dropped; of a longer rest the
\* newline is cut off.
ShellTokenize(line, size) ==
  LET s == TokenizeBytes(line)
      tokens == IF Len(s.strtemp) > 1 THEN Flushed(s).tokens ELSE s.tokens
      last == tokens[Len(tokens)]
  IN  IF size <= Len(line) THEN Undefined
      ELSE IF line = <<NL>> THEN <<>>
      ELSE IF ~s.fits \/ Len(tokens) > MaxTokens \/ tokens = <<>> THEN Undefined
      ELSE IF \E i \in DOMAIN last : last[i] = NL
        THEN [tokens EXCEPT ![Len(tokens)] = SubSeq(last, 1, Len(last) - 1)]
      ELSE tokens

-----------------------------------------------------------------------------
Lacking == IF Ended /\ lineBuffer = <<>> /\ consumed # text THEN <<NL>> ELSE <<>>

\* Nothing typed is lost, doubled or reordered, however read cuts it: the lines
\* handed out, the line in lineBuffer and what is still to be looked at are the
\* input, to which the end of a file without a newline adds one.
InputKept == consumed \o lineBuffer \o buffer \o input = text \o Lacking

\* tokenize is given one line at a time and a whole one: its only newline is the
\* last byte.
OneLineAtATime == handed # <<>> => Complete(handed, Len(handed))

\* Doubling the line buffer once is always enough: what append copies fits.
LineFits == Len(lineBuffer) <= lineSize /\ Len(handed) <= lineSize

(***************************************************************************)
(* Reference for the tokens of a line: an operator, or a longest run of    *)
(* bytes that are neither operators nor blanks.                            *)
(***************************************************************************)
Starts(line) ==
  {i \in DOMAIN line :
     \/ line[i] \in Operators
     \/ line[i] \in Regular /\ (i = 1 \/ line[i - 1] \notin Regular)}

TokenAt(line, i) ==
  IF line[i] \in Operators THEN <<line[i]>>
  ELSE SubSeq(line, i, CHOOSE j \in i..Len(line) :
                         /\ \A k \in i..j : line[k] \in Regular
                         /\ j = Len(line) \/ line[j + 1] \notin Regular)

WithinLimits(line) ==
  /\ Cardinality(Starts(line)) <= MaxTokens
  /\ \A i \in Starts(line) : Len(TokenAt(line, i)) < MaxToken - 1

\* tokenize makes of every line that is not blank and stays within its arrays the
\* tokens the user typed, in order, wherever the blanks are and whether or not
\* the newline follows one; nothing comes of an empty line.  A line as long as the
\* block it is in is excepted (503): nothing can be said of that one.
TokensAsTyped ==
  LET tokens == ShellTokenize(handed, lineSize)
      starts == Starts(handed)
  IN  Len(handed) < lineSize =>
        /\ handed = <<NL>> => tokens = <<>>
        /\ starts # {} /\ WithinLimits(handed) =>
             /\ Len(tokens) = Cardinality(starts)
             /\ \A i \in starts :
                  tokens[Cardinality({s \in starts : s <= i})] = TokenAt(handed, i)
=============================================================================
