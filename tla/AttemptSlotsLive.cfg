CONSTANTS
  r1 = r1
  r2 = r2
  Requests = {r1, r2}
  NoRequest = NoRequest
  Limits = {2}
  MaxStarts = 2
SPECIFICATION FairSpec
PROPERTY EveryRequestEnds
