CONSTANTS
  r1 = r1
  r2 = r2
  Requests = {r1, r2}
  ann = ann
  Reviewers = {ann}
  None = None
  o1 = o1
  w1 = w1
  Objective = {o1}
  Written = {w1}
  Worth = 1
  Penalty = 1
  PassMark = 50
  LateItems = {o1}
  MaxResets = 1
SPECIFICATION Spec
SYMMETRY RequestSymmetry
INVARIANT RescoredAlways
CHECK_DEADLOCK FALSE
