SPECIFICATION AuthSpec
CONSTANTS
  Parts = {"codes", "cohorts", "opening", "people", "sessions", "credentials"}
  c1 = c1  c2 = c2
  Clients = {c1, c2}
  Nil = Nil
  MaxAttempts = 2
  MaxRequests = 2
  MaxCodes = 3
  MaxCount = 3
  r1 = r1  r2 = r2
  RollReqs = {r1, r2}
  k1 = k1  k2 = k2
  CohortIds = {k1, k2}
  s1 = s1
  Pupils = {s1}
  MaxRows = 2
  v1 = v1  v2 = v2
  Verifiers = {v1, v2}
  p1 = p1  p2 = p2
  Plans = {p1, p2}
  DefaultPlan = p1
  a = a  b = b
  People = {a, b}
  MaxMemberships = 2
  SessionReqs = {r1, r2}
  MaxTokens = 2
  Orgs = {k1, k2}
  WayReqs = {r1, r2}
  x = x  y = y
  Boxes = {x, y}
  MaxLinks = 2
  Second = 2
  AccessLife = 1
  RefreshLife = 2
SYMMETRY Interchangeable
INVARIANTS AuthTypeOK CodeLimitKept SpentStaysSpent RollSound  OnlyOwnerRules
PROPERTIES HistoryStays SoloLands SessionsKept CredentialsKept
CHECK_DEADLOCK FALSE
