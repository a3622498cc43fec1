CONSTANTS
  Codes = 2
  PageSize = 1
  MaxWrites = 3
  Calls = {k1, k2}
  Lossy = TRUE
SPECIFICATION Spec
CONSTRAINT Scenario
SYMMETRY Symmetry
INVARIANTS TypeOK ListIsTrue ListIsComplete
PROPERTIES ListedOnce
