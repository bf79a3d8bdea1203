SPECIFICATION Spec
CONSTANTS
  Explored <- Queries
  MaxDepth = 4
  MaxLoads = 1
INVARIANT OneTick
PROPERTY NeverStranded
