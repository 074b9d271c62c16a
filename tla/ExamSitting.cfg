CONSTANTS
  r1 = r1
  r2 = r2
  r3 = r3
  Requests = {r1, r2, r3}
  i1 = i1
  Items = {i1}
  a = a
  Answers = {a}
  None = None
  Duration = 1
  Extras = {0}
  LateWindow = 0
  ClockSlack = 0
  MaxViolations = 2
  MaxTime = 1
  MaxResets = 1
SPECIFICATION Spec
SYMMETRY RequestSymmetry
INVARIANTS LimitHolds ResetShowsNothing
PROPERTIES ViolationsOnlyWhileOpen
CHECK_DEADLOCK FALSE
