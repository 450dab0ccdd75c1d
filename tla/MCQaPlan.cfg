SPECIFICATION Spec
CONSTANTS
  a = a
  b = b
  x = x
  y = y
  none = none
  unset = unset
  noname = noname
  Routes = {a, b}
  NoRoute = none
  Unset = unset
  Names = {x, y}
  NoName = noname
  Bound = {y}
  Menu <- MCMenu
  MaxSteps = 4
INVARIANTS AbsenceIsAnchored BoundBeforeUse SubmitsWhatTheReportTypes
