CONSTANTS
  Codes = 3
  NoRecord = NoRecord
  Unusable = Unusable
  Older = Older
  MaxPageSize = 2
  Limits <- EdgeLimits
  MaxRequests = 3
  MaxFailures = 1
SPECIFICATION FairSpec
CONSTRAINT Scenario
INVARIANTS TypeOK TruthfulAnswers OneCreator SettledValue WalkIsComplete
PROPERTIES WalkEnds WritesAreAtomic
CHECK_DEADLOCK FALSE
