SPECIFICATION Spec
CONSTANTS
  Uploads = {k1}
  Parses = {}
  Erasures = {e1}
  MaxFailures = 0
  MaxCrashes = 0
INVARIANT NoBlobOutlivesAccount
CHECK_DEADLOCK FALSE
