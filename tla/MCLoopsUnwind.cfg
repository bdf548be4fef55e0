SPECIFICATION FairSpec
CONSTANTS
  Null = Null
  Calls = {c1, c2}
  OneSetupAtATime = TRUE
  MayRefuse = TRUE
PROPERTIES
  LoopsUnwind
\* the program ends, by the command end or by a crash
CHECK_DEADLOCK FALSE
