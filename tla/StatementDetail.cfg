SPECIFICATION FairSpec
CONSTANTS
  a = a
  b = b
  c1 = c1
  None = None
  Statements = {a, b}
  Text <- OwnText
  Explainable = {a, b}
  ReadOnly = {a, b}
  Single = {}
  Captured = {b}
  Calls = {c1}
  MaxKeys = 5
INVARIANTS OneLookup LookupServed PlanServed
PROPERTIES WaitsEnd
CHECK_DEADLOCK FALSE
