SPECIFICATION Spec
CONSTANTS
  Tabs = {t1, t2}
  Urls = {u1, u2}
  Cvs = {c1, c2}
  None = None
  TTL = 2
  MaxTime = 3
  MaxArms = 2
  MaxQueue = 1
  MaxFailures = 1
  MaxCrashes = 1
SYMMETRY Symmetry
INVARIANTS
  TypeOK
  NoSecondGrant
  LiveArmHasItsPayload
  MatchedCvIsThere
  QuietStoreHasNoOrphan
  QuietAlarmIsNextExpiry
PROPERTY ImplementsArmStore
CHECK_DEADLOCK FALSE
