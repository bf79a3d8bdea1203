SPECIFICATION Spec
CONSTANTS
  q1 = q1
  q2 = q2
  d1 = d1
  d2 = d2
  None = None
  Queries = {q1}
  Databases = {d1, d2}
  DatabaseOf <- TwoDatabases
  Costs = {1, 3}
  MaxCalls = 2
  MaxResets = 1
  MaxSnaps = 1
  Slots = {s1}
INVARIANTS TypeOK  DiskWindowForward
