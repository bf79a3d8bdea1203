SPECIFICATION FairSpec
CONSTANTS
  Explored <- Server
  MaxDepth = 3
  MaxLoads = 1
PROPERTIES LoopsLive
