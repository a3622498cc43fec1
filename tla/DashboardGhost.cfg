CONSTANTS
  Codes = 2
  PageSize = 2
  MaxWrites = 3
  Calls = {k1, k2}
  Lossy = FALSE
SPECIFICATION Spec
SYMMETRY Symmetry
INVARIANTS NoDeadRow
