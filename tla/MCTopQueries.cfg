SPECIFICATION Spec
CONSTANTS
  q1 = q1
  q2 = q2
  d1 = d1
  d2 = d2
  None = None
  Queries = {q1}
  Databases = {d1}
  DatabaseOf <- OneDatabase
  Costs = {1}
  MaxCalls = 1
  MaxResets = 1
  MaxSnaps = 1
  Slots = {s1, s2}
SYMMETRY Symmetry
INVARIANTS NeverStranded RowsMatchBaseline
PROPERTY SessionKept
