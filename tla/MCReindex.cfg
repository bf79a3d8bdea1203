SPECIFICATION MCSpec
CONSTANTS
  i1 = i1
  i2 = i2
  j1 = j1
  t1 = t1
  t2 = t2
  None = None
  Tables = {t1, t2}
  Indexes = {i1, i2, j1}
  TableOf <- Owner
  Phases <- LastPhases
  Units = 2
  MaxTicks = 1
  Slots = {s1, s2}
SYMMETRY Symmetry
INVARIANTS BannerFed Polled KeysHonest
PROPERTY BarForward
