----------------------------- MODULE TTTFraming -----------------------------
(***************************************************************************)
(* How ttts.c takes what one recv returned for a message: findmsglen and   *)
(* tokenize.  The bytes are a sequence of fields with a bar `|' between    *)
(* any two; a message TYPE|LENGTH|ARG|...| ends with a bar, so its last    *)
(* field holds what follows that bar.  A field is its text, the number of  *)
(* its bytes, and what atoi makes of it.                                   *)
(*                                                                         *)
(* A definition named X__Y is X with the mistake Y in it; no other         *)
(* definition uses it.                                                     *)
(***************************************************************************)
EXTENDS Integers, Sequences, FiniteSets

Fields == [text : STRING, len : Nat, num : Int]
RawMessages == Seq(Fields) \ {<<>>}

Field(text, len) == [text |-> text, len |-> len, num |-> 0]

Digits(n) ==
  IF n < 0 THEN 2 ELSE IF n < 10 THEN 1 ELSE IF n < 100 THEN 2 ELSE 3

\* A length field, of up to three digits or one digit and a sign.
Number(n) == [text |-> "number", len |-> Digits(n), num |-> n]

Nothing == Field("", 0)
Newline == Field("newline", 1)

\* The start of the field f, of k bytes; a number has three bytes at most.
Prefix(f, k) ==
  IF k >= f.len THEN f
  ELSE IF k <= 0 THEN Nothing
  ELSE [text |-> "part of a field", len |-> k,
        num |-> IF f.num <= 0 THEN 0 ELSE f.num \div (IF f.len - k = 1 THEN 10 ELSE 100)]

\* The index of the first byte of each field.
Offset(raw) ==
  LET offset[i \in DOMAIN raw] ==
        IF i = 1 THEN 0 ELSE offset[i - 1] + raw[i - 1].len + 1
  IN  offset

Strlen(raw) ==
  IF raw = <<>> THEN 0 ELSE Offset(raw)[Len(raw)] + raw[Len(raw)].len

\* The first n bytes, as str[n] = '\0' leaves them.
Terminated(raw, n) ==
  LET begun == {i \in DOMAIN raw : Offset(raw)[i] <= n}
  IN  [i \in 1..Cardinality(begun) |-> Prefix(raw[i], n - Offset(raw)[i])]

\* The bytes of a followed by those of b, as TCP joins what two sends sent.
Joined(a, b) ==
  LET f == a[Len(a)]
      g == b[1]
      glued == IF f.len = 0 THEN g ELSE IF g.len = 0 THEN f
               ELSE [text |-> "joined fields", len |-> f.len + g.len, num |-> f.num]
  IN  SubSeq(a, 1, Len(a) - 1) \o <<glued>> \o Tail(b)

\* What the loop of strtok_r returns: it passes over empty fields.
Tokens(raw) ==
  LET found[i \in 0..Len(raw)] ==
        IF i = 0 THEN <<>>
        ELSE IF raw[i].len = 0 THEN found[i - 1] ELSE Append(found[i - 1], raw[i])
  IN  found[Len(raw)]

(***************************************************************************)
(* findmsglen and tokenize keep the tokens in an array of five, which the  *)
(* sanitizer of the build guards, and findmsglen reads tokens[1].          *)
(***************************************************************************)
TooManyTokens(raw) == Len(Tokens(raw)) > 5
LengthUnread(raw) == Len(Tokens(raw)) < 2

FindMsgLen(raw) == Tokens(raw)[2].num

\* The index of tokenize's tokens after the last argument.
ExpectedLast ==
  [PLAY |-> 3, WAIT |-> 2, BEGN |-> 4, MOVE |-> 4, MOVD |-> 5, INVL |-> 3,
   RSGN |-> 2, DRAW |-> 3, OVER |-> 4]

HeaderLen__TwoDigits(msglen) == 8

\* The bytes of TYPE|LENGTH| for a length of one digit, or of two and more.
HeaderLen(msglen) == IF msglen < 10 THEN 7 ELSE 8

\* More than one byte follows the declared length.  strlen is unsigned: against
\* a negative number of bytes nothing is too long.
Deformed(raw, msglen) ==
  HeaderLen(msglen) + 1 + msglen >= 0 /\ Strlen(raw) > HeaderLen(msglen) + 1 + msglen

Rejected == <<>>

Tokenize__OnlyTooMany(raw, msglen) ==
  LET deformed == Deformed(raw, msglen)
      tokens == Tokens(IF deformed THEN Terminated(raw, HeaderLen(msglen) + msglen)
                                   ELSE raw)
      rest == IF deformed THEN 0 ELSE 1
  IN  IF tokens # <<>> /\ tokens[1].text \in DOMAIN ExpectedLast
         /\ Len(tokens) <= ExpectedLast[tokens[1].text] + rest
        THEN tokens ELSE Rejected

\* tokenize: the tokens of the message, or Rejected for -1.  A deformed message
\* has lost what followed its last bar.
Tokenize(raw, msglen) ==
  LET deformed == Deformed(raw, msglen)
      tokens == Tokens(IF deformed THEN Terminated(raw, HeaderLen(msglen) + msglen)
                                   ELSE raw)
      rest == IF deformed THEN 0 ELSE 1
  IN  IF tokens # <<>> /\ tokens[1].text \in DOMAIN ExpectedLast
         /\ Len(tokens) = ExpectedLast[tokens[1].text] + rest
        THEN tokens ELSE Rejected

(***************************************************************************)
(* The possible results for the bytes in raw: Wild when memory outside an  *)
(* array is written.  An unread length is any number; with no or one token *)
(* nothing is accepted, but the pointer tokens[1] may point anywhere.      *)
(***************************************************************************)
Wild == <<Field("wild", 0)>>

Decode(raw) ==
  IF TooManyTokens(raw) THEN {Wild}
  ELSE IF LengthUnread(raw) THEN {Wild, Rejected}
  ELSE LET msglen == FindMsgLen(raw)
       IN  IF Deformed(raw, msglen) /\ HeaderLen(msglen) + msglen < 0 THEN {Wild}
           ELSE {Tokenize(raw, msglen)}

Accepted(result) == result \notin {Wild, Rejected}
=============================================================================
