CONSTANTS
  r1 = r1
  r2 = r2
  Requests = {r1, r2}
  i1 = i1
  Items = {i1}
  a = a
  b = b
  Answers = {a, b}
  None = None
  Duration = 1
  Extras = {0}
  LateWindow = 1
  ClockSlack = 0
  MaxViolations = 2
  MaxTime = 3
  MaxResets = 1
SPECIFICATION Spec
SYMMETRY RequestSymmetry
PROPERTY AnswersFrozen
CHECK_DEADLOCK FALSE
