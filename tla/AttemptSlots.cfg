CONSTANTS
  r1 = r1
  r2 = r2
  r3 = r3
  Requests = {r1, r2, r3}
  NoRequest = NoRequest
  Limits = {1, 2}
  MaxStarts = 3
SPECIFICATION Spec
SYMMETRY RequestSymmetry
INVARIANTS SlotsKept NumberIsFree ClosedInStep
PROPERTY OneSittingAtATime
