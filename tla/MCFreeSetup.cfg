SPECIFICATION Spec
CONSTANTS
  Null = Null
  Calls = {c1, c2, c3}
  OneSetupAtATime = FALSE
  MayRefuse = FALSE
SYMMETRY CallSymmetry
INVARIANTS
  LoopDrivesOwnCall
  RingingListed
\* the program ends, by the command end or by a crash
CHECK_DEADLOCK FALSE
