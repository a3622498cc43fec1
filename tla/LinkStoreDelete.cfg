CONSTANTS
  Codes = 1
  NoRecord = NoRecord
  Unusable = Unusable
  Older = Older
  MaxPageSize = 2
  Limits <- NoLimits
  MaxRequests = 1
  MaxFailures = 1
SPECIFICATION Spec
INVARIANTS DeleteMissingIs404
CHECK_DEADLOCK FALSE
