SPECIFICATION Spec
CONSTANTS
  BUFSIZE = 2
  MaxToken = 5
  MaxTokens = 4
  Regular = {"a", "b"}
  Texts <- MCTexts
INVARIANT CheckWinFindsLines
INVARIANT VerdictMatchesBoard
INVARIANT WellDeclaredRead
INVARIANT ActedOnAsSent
INVARIANT InputKept
INVARIANT OneLineAtATime
INVARIANT LineFits
INVARIANT TokensAsTyped
CHECK_DEADLOCK FALSE
