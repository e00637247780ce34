SPECIFICATION Spec
CONSTANTS
  Tabs = {t1}
  Panels = {p1}
  Parses = {c1}
  Blank = Blank
  None = None
  MaxClicks = 1
INVARIANT ArmedParseWasReviewed
CHECK_DEADLOCK FALSE
