SPECIFICATION MCSpec
CONSTANTS
  Forms = {f1, f2}
  MaxGestures = 2
  MaxScripts = 3
  MaxCalls = 2
  Tabs = {t1, t2}
  Urls = {u1}
  Cvs = {c1}
  None = None
  TTL = 1
  MaxTime = 2
  MaxArms = 2
  MaxQueue = 1
  MaxFailures = 0
  MaxCrashes = 1
INVARIANTS
  TypeOK
  SubmissionsAreActivated
  UserIsNotRefused
  ActivationIsLatest
  PermissionsAreScoped
PROPERTY PayloadsAreErased
CHECK_DEADLOCK FALSE
