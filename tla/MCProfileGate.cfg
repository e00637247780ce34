SPECIFICATION Spec
CONSTANTS
  Tabs = {t1, t2}
  Panels = {p1, p2}
  Parses = {c1}
  Blank = Blank
  None = None
  MaxClicks = 3
SYMMETRY Symmetry
INVARIANTS
  ConfirmedAsShown
  ParseIsShown
PROPERTIES
  FilledIsConfirmed
CHECK_DEADLOCK FALSE
