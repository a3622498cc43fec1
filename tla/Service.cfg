CONSTANTS
  MaxCodeLen = 1
  MaxTargetLen = 2
  Absent = Absent
  Malformed = Malformed
  Panic = Panic
  Settings <- MCSettings
  Elsewhere <- BadRecords
  Submitted <- Links
  RelayLag = 1
  Budget = 5
  HandleHops = 3
  Sender = {s1, s2}
  Anonymous = {s2}
  Burst = 1
SPECIFICATION Spec
CONSTRAINT Serving
INVARIANTS TypeOK NoCachedError NotFoundIsTrue StaleRedirectBounded RelayOutageIsSurvived FailuresFitTheClient NoisyNeighbour
PROPERTIES BootsOnlyAsConfigured
CHECK_DEADLOCK FALSE
