CONSTANTS
  Sock = {w1, w2, w3}
  NoSocket = NoSocket
  BackoffMin = 1
  BackoffMax = 3
  MaxFailures = 3
  MaxToggles = 3
SPECIFICATION FairSpec
INVARIANTS TypeOK NoLeakedSocket NeverStranded RetryUsesNextHost HiddenTabIsQuiet
PROPERTIES Resubscribes
CHECK_DEADLOCK FALSE
