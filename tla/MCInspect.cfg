SPECIFICATION InspectSpec
CONSTANTS
  NoKey = NoKey
  IndexAt <- MCIndexAt
  HeapAt <- MCHeapAt
  SeekKeys = {5, 30, 45}
  DescentSessions <- MCDescentSessions
  WindowCount = 2
  RelationAt <- MCRelationAt
  MaxCensuses = 2
  WindowSessions <- MCWindowSessions
  Rmgrs = {"heap"}
  WalRels = {"t"}
  MaxWal = 2
  MaxWalLoads = 2
  MaxWalDepth = 3
  Null = Null
  TableColumns <- MCTableColumns
  ColumnValues <- MCColumnValues
  MaxTableChanges = 2
  NoReceiver = NoReceiver
  NoSweep = NoSweep
  NoInfo = NoInfo
  OverviewSessions <- MCSessions
  Widths = {70, 120, 160, 190, 240}
  Amounts <- MCAmounts
  Listings = {"tables", "pageTables", "parts", "databases", "columns", "schemas", "buffers", "shmem", "walRmgrs", "walRels", "walRecords", "walBlocks", "recTypes", "progress", "logs", "relations", "heapPages", "btreePages", "gistPages", "brinPages", "ginPages", "heapTuples", "btreeTuples", "gistTuples", "brinTuples", "ginTuples"}
  Picked <- MCPicked
  Tables <- MCTables
  TableWidths = {50, 100}
  BarFigures <- MCFigures
  BarWidths = {20, 21, 37, 80}
  Views <- MCViews
  Heights = {8, 12, 30}
  FarDown = 24
INVARIANTS BytesAsFormed  WindowsWhole  LinesFit TableCurrent 
PROPERTIES LandsOnTarget CursorKeepsRow
CHECK_DEADLOCK FALSE
