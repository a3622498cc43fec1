CONSTANTS
  Session = {k1}
  Value = {v1, v2}
  State = {}
  None = None
  TTL = 1
  Task = {t1, t2}
  Write = {n1, n2}
  Opener = Opener
  NoOne = NoOne
  Detached = Detached
  NoCall = NoCall
  Unknown = Unknown
  MaxNow = 0
  MaxCancel = 2
SPECIFICATION FairSpec
INVARIANTS WriterExclusion FileIsWhole
PROPERTIES OkMeansOnDisk EveryCallReturns
