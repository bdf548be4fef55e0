SPECIFICATION FairSpec
CONSTANTS
  Lines <- MCLines
  Parts <- MCParts
  MaxLines = 2
  MaxTears = 1
  MaxTexts = 2
INVARIANTS
  TypeOK
  CommandsOnceInOrder
  WholeLinesAnswered
  NewestTextKept
  PongsAnswerPings
PROPERTIES
  PingsAnswered
  TextsShown
CHECK_DEADLOCK FALSE
