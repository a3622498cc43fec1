CONSTANTS
  Login = {l1}
  SessionTTL = 2
  AuthTTL = 1
  MaxNow = 2
  Task = {t1, t2}
  Old = Old
  NoId = NoId
  CookieAge = 1
  Loopback = FALSE
SPECIFICATION Spec
INVARIANTS NothingLeftToRevoke
CHECK_DEADLOCK FALSE
