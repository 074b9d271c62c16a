CONSTANTS
  Parts = {"exams", "roles", "accounts", "mine", "lists", "queue"}
  r1 = r1  r2 = r2
  Requests = {r1, r2}
  q1 = q1  q2 = q2
  Questions = {q1, q2}
  Marks <- MarksOf
  s1 = s1
  Students = {s1}
  None = None
  MaxAdds = 3
  RoleReqs = {r1, r2}
  a = a  b = b
  Assistants = {a, b}
  c1 = c1
  CustomRoles = {c1}
  RolesInPlay = {"admin", "staff"}
  Payload <- MCPayload
  IdReqs = {r1, r2}
  Persons = {a, b}
  x = x
  Addresses = {x}
  k1 = k1  k2 = k2
  Numbers = {k1, k2}
  MaxRowsUp = 2
  DayLength = 2
  Horizon = 5
  TimeAllowed = 1
  Windows <- MCWindows
  Limits = {0, 1, 2}
  MaxTaken = 2
  LastTick = 2
  ExamWindows <- MCExamWindows
  Scripts = {a, b}
  Asked = {q1, q2}
SPECIFICATION OrgSpec
SYMMETRY Interchangeable
INVARIANTS OrgTypeOK DeletionSound PaperAddsUp
PROPERTIES HistoryKept RolesKept AccountsKept MyExamsKept ViewsKept QueueKept
CHECK_DEADLOCK FALSE
