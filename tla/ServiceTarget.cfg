CONSTANTS
  MaxCodeLen = 1
  MaxTargetLen = 2
  Absent = Absent
  Malformed = Malformed
  Panic = Panic
  Settings <- MCSettings
  Elsewhere <- BadRecords
  Submitted <- GrowingLinks
  RelayLag = 1
  Budget = 5
  HandleHops = 3
  Sender = {s1, s2}
  Anonymous = {s2}
  Burst = 1
SPECIFICATION Spec
CONSTRAINT Serving
INVARIANTS StoredTargetFits
CHECK_DEADLOCK FALSE
