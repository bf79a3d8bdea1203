SPECIFICATION FairSpec
CONSTANTS
  None = None
  Runs = {r1, r2}
  Tables = {t1}
  MaxLines = 3
  Capacity = 1
INVARIANTS FixOutput PaneFollows
PROPERTIES StreamsEnd ImplementsPane
CHECK_DEADLOCK FALSE
