SPECIFICATION MCSpec
CONSTANTS
  None = None
  Empty = Empty
  Unknown = Unknown
  Slots = {s1, s2}
  Queries = {q1, q2}
  r1 = r1
  r2 = r2
  Relations = {r1, r2}
  Units = 1
  Cap = 2
  Sessions <- MCSessions
  Pids = {p1, p2}
  Samplers = {w1, w2}
  MaxClock = 2
  Listed = {1, 2}
  Owner <- OddAndEven
  Ages = {0, 2}
  Texts = {2}
  Absent = Absent
  Backends = {1, 2, 3}
  Chains <- MCChains
INVARIANT TargetIsHighlighted
