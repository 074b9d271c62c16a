CONSTANTS
  Parts = {"marks", "topics", "levels", "periods", "banks", "questions"}
  r1 = r1
  r2 = r2
  Requests = {r1, r2}
  ann = ann
  Reviewers = {ann}
  None = None
  o1 = o1
  w1 = w1
  Objective = {o1}
  Written = {w1}
  Worth = 1
  Penalty = 1
  PassMark = 50
  LateItems = {o1}
  MaxResets = 1
  TopicReqs = {r1, r2}
  k1 = k1  k2 = k2
  TopicIds = {k1, k2}
  n1 = n1  n2 = n2
  TopicNames = {n1, n2}
  LevelReqs = {r1, r2}
  m = m
  LevelKeys = {k1, k2, m}
  BuiltIn = {m}
  DefaultLevel = m
  q1 = q1
  LevelItems = {q1}
  PeriodReqs = {r1, r2}
  PeriodIds = {k1, k2}
  Datables = {q1}
  StaffReqs = {r1, r2}
  Staff = {ann}
  Banks = {k1, k2}
  MaxStaffRows = 2
  QuestionReqs = {r1, r2}
  e1 = e1
  Papers = {e1}
  MarkValues = {1, 2}
  Others = 0
  MaxCopies = 2
  MaxTotal = 2
SPECIFICATION WorkSpec
SYMMETRY Interchangeable
INVARIANTS WorkTypeOK NothingSurvivesReset
PROPERTIES SoloRescores TreeKept LevelsKept PeriodsKept StaffKept QuestionsKept
CHECK_DEADLOCK FALSE
