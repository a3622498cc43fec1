CONSTANTS
  Session = {k1}
  Value = {v1}
  State = {s1}
  None = None
  TTL = 1
  Task = {t1, t2}
  Write = {n1, n2}
  Opener = Opener
  NoOne = NoOne
  Detached = Detached
  NoCall = NoCall
  Unknown = Unknown
  MaxNow = 2
  MaxCancel = 0
SPECIFICATION Spec
INVARIANTS TypeOK ReadsHonourAnswers AcknowledgedIsDurable
PROPERTIES KeepsPromise
