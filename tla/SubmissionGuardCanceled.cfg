SPECIFICATION Spec
CONSTANTS
  Forms = {f1}
  MaxGestures = 1
  MaxScripts = 1
  MaxCalls = 0
PROPERTY CanceledSubmitIsRestored
CHECK_DEADLOCK FALSE
