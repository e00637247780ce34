SPECIFICATION TrackerSpec
CONSTANTS
  None = None
  Requests = {r1, r2, r3}
  Jobs = {j1}
  Listed = {j1}
  MaxFailures = 0
PROPERTY StatusNeverReturns
CHECK_DEADLOCK FALSE
