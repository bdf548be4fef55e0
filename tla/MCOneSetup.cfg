SPECIFICATION Spec
CONSTANTS
  Null = Null
  Calls = {c1, c2, c3}
  OneSetupAtATime = TRUE
  MayRefuse = TRUE
SYMMETRY CallSymmetry
INVARIANTS
  TypeOK
  NumberInRange
  RingingEntriesRing
  HangupEndsOwnCall
  NoOrphanCall
  FailurePopsItself
PROPERTIES
  NestedLoopsShrink
  TurnsOnlyWhileLive
  RefinesCallStack
\* the program ends, by the command end or by a crash
CHECK_DEADLOCK FALSE
