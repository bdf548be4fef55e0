SPECIFICATION Spec
CONSTANTS
  MaxRows = 26
  MaxSkip = 7
  IntMax = 1000
INVARIANTS
  TypeOK
  ShowsOnePage
  LabelOffByAtMostOne
PROPERTIES
  RefinesPager
\* the user leaves the browsing mode
CHECK_DEADLOCK FALSE
