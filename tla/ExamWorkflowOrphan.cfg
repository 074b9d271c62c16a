CONSTANTS
  r1 = r1
  r2 = r2
  Requests = {r1, r2}
  q1 = q1
  q2 = q2
  Questions = {q1, q2}
  Marks <- MarksOf
  s1 = s1
  Students = {s1}
  None = None
  MaxAdds = 3
SPECIFICATION Spec
SYMMETRY RequestSymmetry
INVARIANT NoOrphanAttempts
CHECK_DEADLOCK FALSE
