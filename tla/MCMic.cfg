SPECIFICATION Spec
CONSTANTS
  Null = Null
  Calls = {c1, c2}
  OneSetupAtATime = TRUE
  MayRefuse = FALSE
PROPERTIES
  EstablishedWithMic
\* the program ends, by the command end or by a crash
CHECK_DEADLOCK FALSE
