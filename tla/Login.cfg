CONSTANTS
  Login = {l1}
  SessionTTL = 2
  AuthTTL = 1
  MaxNow = 2
  Task = {t1, t2}
  Old = Old
  NoId = NoId
  CookieAge = 1
  Loopback = FALSE
SPECIFICATION FairSpec
INVARIANTS TypeOK LatestLoginWins SignedOutStaysOut StoreOutlivesCookie ExpiryIsReal RevokedIsDead
PROPERTIES VisitsSettle
CHECK_DEADLOCK FALSE
