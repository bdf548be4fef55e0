SPECIFICATION Spec
CONSTANTS
  Null = Null
  Calls = {c1, c2}
  OneSetupAtATime = TRUE
  MayRefuse = FALSE
SYMMETRY CallSymmetry
INVARIANTS
  RingingListed
\* the program ends, by the command end or by a crash
CHECK_DEADLOCK FALSE
