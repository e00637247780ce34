SPECIFICATION FairSpec
CONSTANTS
  Tabs = {t1}
  Url = url
  Other = other
  None = None
  TTL = 1
  MaxTime = 1
  MaxDocs = 3
  MaxClears = 1
  MaxKills = 1
INVARIANTS
  TypeOK
  OneFillPerClick
  LogoutForgetsClicks
  UnreloadedFormIsGuarded
PROPERTY AcknowledgedArmIsUsed
CHECK_DEADLOCK FALSE
