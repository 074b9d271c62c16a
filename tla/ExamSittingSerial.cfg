CONSTANTS
  r1 = r1
  Requests = {r1}
  i1 = i1
  i2 = i2
  Items = {i1, i2}
  a = a
  b = b
  Answers = {a, b}
  None = None
  Duration = 1
  Extras = {0, 1}
  LateWindow = 1
  ClockSlack = 0
  MaxViolations = 2
  MaxTime = 4
  MaxResets = 1
SPECIFICATION FairSpec
INVARIANT SittingSound
PROPERTIES AnswersFrozen ClockKept TimeUpCloses
CHECK_DEADLOCK FALSE
