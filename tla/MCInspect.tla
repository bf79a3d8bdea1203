-------------------------------- MODULE MCInspect ------------------------------
(* The page inspector over a small B-tree that a split reshapes, and the   *)
(* table and TOAST relation under it, of which rows are vacuumed; the list *)
(* of pages of a relation that shrinks; the WAL inspector; the bytes of    *)
(* one tuple; the overview of the server; the layout of the lists and of   *)
(* the result tables; the bars; the frames of a view of every kind of      *)
(* content.  A behaviour shows one of them.                                *)
EXTENDS PageDescent, PageWindow, WalInspect, PageBytes, MCOverview, PageColumns, DiagTable, Bars, Frame

VARIABLE inspector
inspectVars == <<inspector, descentVars, windowVars, walVars, bytesVars, overviewVars, columnVars, diagVars, barVars, frameVars>>

Entry(off, key, tid)   == [off |-> off, key |-> key, child |-> 0, tid |-> tid, posting |-> <<>>]
Link(off, key, child)  == [off |-> off, key |-> key, child |-> child, tid |-> <<child, 1>>, posting |-> <<>>]
Packed(off, key, tids) == [off |-> off, key |-> key, child |-> 0, tid |-> NoTid, posting |-> tids]
HighKey(key) == Entry(1, key, NoTid)
Page(type, level, rightmost, items) == [type |-> type, level |-> level, rightmost |-> rightmost, items |-> items]

TreeBefore == <<
  Page("r", 2, TRUE, <<Link(1, NoKey, 2), Link(2, 30, 3)>>),
  Page("i", 1, FALSE, <<Link(1, 30, 6), Link(2, NoKey, 4), Link(3, 20, 5)>>),
  Page("i", 1, TRUE, <<Link(1, NoKey, 6), Link(2, 40, 7)>>),
  Page("l", 0, FALSE, <<HighKey(20), Entry(2, 10, <<1, 1>>)>>),
  Page("l", 0, FALSE, <<HighKey(30), Entry(2, 20, <<1, 2>>), Entry(3, 25, <<1, 4>>)>>),
  Page("l", 0, FALSE, <<HighKey(40), Packed(2, 30, <<<<1, 3>>, <<2, 1>>>>)>>),
  Page("l", 0, TRUE, <<Entry(1, 40, <<2, 2>>), Entry(2, 50, <<2, 4>>)>>)>>

TreeAfter == [Append(TreeBefore, Page("l", 0, TRUE, <<Entry(1, 50, <<2, 4>>), Entry(2, 60, <<1, 1>>)>>))
  EXCEPT ![3].items = Append(@, Link(3, 50, 8)),
         ![4].items = <<HighKey(20)>>,
         ![7] = Page("l", 0, FALSE, <<HighKey(50), Entry(2, 40, <<2, 2>>)>>)]

MCIndexAt == <<TreeBefore, TreeAfter>>

Tuple(lp, key) == [lp |-> lp, flag |-> "normal", to |-> 0, key |-> key, chunk |-> 0, pointer |-> 0]
Redirect(lp, to) == [lp |-> lp, flag |-> "redirect", to |-> to, key |-> NoKey, chunk |-> 0, pointer |-> 0]
Chunk(lp, chunk) == [lp |-> lp, flag |-> "normal", to |-> 0, key |-> NoKey, chunk |-> chunk, pointer |-> 0]
Dead(lp) == [lp |-> lp, flag |-> "dead", to |-> 0, key |-> NoKey, chunk |-> 0, pointer |-> 0]

TableBefore == <<
  <<Tuple(1, 10), [Tuple(2, 20) EXCEPT !.pointer = 77], Tuple(3, 30), Dead(4)>>,
  <<Tuple(1, 30), Redirect(2, 3), Tuple(3, 40), Tuple(4, 50)>>>>
TableAfter == [TableBefore EXCEPT ![1] = <<Tuple(1, 60), Dead(2), Tuple(3, 30)>>]
ToastBefore == << <<Chunk(1, 77), Chunk(2, 77)>>, <<Chunk(1, 78)>> >>
ToastAfter  == << <<Chunk(1, 79)>>, <<Chunk(1, 78)>> >>

MCHeapAt == <<[table |-> TableBefore, toast |-> ToastBefore], [table |-> TableAfter, toast |-> ToastAfter]>>

From(level, rel, keys, depth, flights) ==
  [level |-> level, rel |-> rel, keys |-> keys, depth |-> depth, flights |-> flights]
MCDescentSessions == {
  From("indexPages", "index", {"seek"}, 5, 1), From("indexPages", "index", {"seek", "reverse"}, 4, 1),
  From("indexPages", "index", {"move", "reload"}, 5, 1), From("indexPages", "index", {}, 4, 2),
  From("heapPages", "table", {"move", "reload"}, 3, 2), From("heapPages", "table", {"move"}, 4, 2),
  From("heapPages", "table", {"move", "fails", "reload"}, 5, 1), From("heapPages", "table", {"describe"}, 5, 2), From("heapPages", "table", {"columns"}, 4, 2)}
MCToastSessions == {From("heapPages", "table", {"reload", "move"}, 4, 3)}

MCRelationAt == <<[pages |-> 5, leaves |-> {3, 4}], [pages |-> 3, leaves |-> {2}], [pages |-> 5, leaves |-> {3}]>>
Lists(am, start, ext, keys, loads) == [am |-> am, start |-> start, ext |-> ext, keys |-> keys, loads |-> loads]
MCWindowSessions == {
  Lists("gin", 0, TRUE, {"fails"}, 2), Lists("gin", 0, FALSE, {}, 2), Lists("gin", 0, TRUE, {"sort"}, 1), Lists("gin", 0, TRUE, {"changes"}, 1),
  Lists("gin", 0, TRUE, {"leave"}, 1), Lists("btree", 0, FALSE, {"leave"}, 1), Lists("heap", 2, TRUE, {"changes", "sort"}, 2)}

NoDescent == stack = <<>> /\ asked = {} /\ showTupleLayout = FALSE /\ epoch = 1 /\ descent = {}
NoListing ==
  /\ list = NoList /\ windowLoads = {} /\ leafSearch = NoSearch /\ censuses = {} /\ installs = FALSE
  /\ server = {} /\ sought = NoBlock /\ windowOf = {}
MCTableColumns == {<<Column(1), Column(Varlena)>>, <<Column(8), Column(1)>>, <<Column(Varlena), Column(4)>>, <<Column(Varlena), Column(Varlena)>>}
Fixed(n) == {Null, Repeat(0, n), Repeat(7, n)}
MCColumnValues == 1 :> Fixed(1) @@ 4 :> Fixed(4) @@ 8 :> Fixed(8)
  @@ Varlena :> {Null, Short(3), Long(6), Long(64), Compressed(8), Pointer}

NoWal == walEnd = 1 /\ walStack = <<>> /\ walLoads = {}
NoBytes == columns = <<>> /\ tuple = Stored(<<>>, <<>>) /\ row = tuple /\ changed = 0

AnyOverview == CHOOSE s \in OverviewSessions : TRUE
NoOverview == Opened /\ overviewOf = AnyOverview

---------------------------------------------------------------------------
(* What the screens draw: rows short and long, on terminals from narrow to  *)
(* wide, and three result tables: one a diagnostic drills from, with        *)
(* columns the server may leave out; one all numbers; and the grouped       *)
(* statements, of which one column is only there for some loads; every bar, *)
(* with figures that fit their whole and figures that do not; and views on  *)
(* terminals from eight lines on.                                           *)
Shows(bytes, count, percent, name, table, tag, items, block) ==
  [bytes |-> bytes, count |-> count, percent |-> percent, name |-> name, table |-> table, tag |-> tag, items |-> items,
   block |-> block, measured |-> FALSE]
MCAmounts == {
  Shows(<<0, 0>>, -1, -1, 3, 2, 2, 1, 0), Shows(<<1023, 2>>, 999949, 100, 70, 50, 6, 3, 9999),
  Shows(<<8, 1>>, 1000, 0, 12, 12, 4, 2, 42)}
MCPicked == <<2, 30, 9>>

AnyAmount == CHOOSE a \in Amounts : TRUE
NoColumns ==
  /\ listing = "databases"
  /\ width = CHOOSE w \in Widths : TRUE
  /\ sort = "name" /\ rows = {} /\ total = AnyAmount /\ bufs = FALSE /\ byRel = FALSE
ColumnOf(title, kind, on, mandatory, identifier) ==
  [title |-> title, kind |-> kind, on |-> on, mandatory |-> mandatory, identifier |-> identifier]
ByDefault(title, kind) == ColumnOf(title, kind, TRUE, FALSE, FALSE)
Txt(len)    == [display |-> len, num |-> 0, hasNum |-> FALSE]
Num(n)      == [display |-> Digits(n), num |-> n, hasNum |-> TRUE]
Pct(len, n) == [display |-> len, num |-> n, hasNum |-> TRUE]
Dash        == Txt(1)
Brings(present, shown, sum) == [present |-> present, rows |-> shown, sum |-> sum]

BloatTable == [picker |-> "names", drills |-> TRUE, barFollows |-> FALSE, bar |-> 3, sort |-> 3,
  columns |-> <<ByDefault(8, "text"), ByDefault(5, "text"), ByDefault(10, "bytes"), ColumnOf(3, "percent", FALSE, FALSE, FALSE)>>,
  loads |-> {Brings(<<2, 3, 4>>, {<<Dash, Txt(50), Num(900000000), Pct(3, 10000)>>, <<Dash, Txt(3), Dash, Pct(5, 995)>>}, <<>>),
             Brings(<<1, 2, 3, 4>>, {<<Txt(40), Txt(12), Num(10475), Dash>>}, <<>>)}]
SpreadTable == [picker |-> "names", drills |-> FALSE, barFollows |-> FALSE, bar |-> 2, sort |-> 0,
  columns |-> <<ByDefault(4, "text"), ByDefault(3, "percent"), ColumnOf(3, "int", TRUE, FALSE, TRUE), ColumnOf(5, "count", FALSE, FALSE, FALSE)>>,
  loads |-> {Brings(<<1, 2, 3, 4>>, {<<Txt(44), Pct(3, 10000), Num(77), Num(999960)>>, <<Txt(3), Dash, Dash, Num(12)>>}, <<>>)}]
GroupedTable == [picker |-> "ids", drills |-> TRUE, barFollows |-> TRUE, bar |-> 0, sort |-> 1,
  columns |-> <<ByDefault(5, "percent"), ByDefault(5, "int"), ColumnOf(7, "float", FALSE, FALSE, FALSE), ColumnOf(5, "text", TRUE, TRUE, FALSE)>>,
  loads |-> {Brings(<<1, 2, 4>>, {<<Pct(5, 10000), Txt(5), Dash, Txt(60)>>}, <<Pct(5, 10000), Txt(6), Dash, Txt(5)>>),
             Brings(<<1, 2, 3, 4>>, {<<Pct(4, 5050), Pct(5, 123400), Pct(5, 1210), Txt(6)>>, <<Pct(4, 4950), Pct(1, 400), Dash, Txt(38)>>},
                    <<Pct(5, 10000), Pct(5, 123800), Pct(5, 1210), Txt(5)>>)}]
MCTables == {BloatTable, SpreadTable, GroupedTable}

NoDiag == OpensWith(CHOOSE t \in Tables : TRUE) /\ tableWidth = CHOOSE w \in TableWidths : TRUE

Figure(bar, parts, whole) == [bar |-> bar, parts |-> parts, whole |-> whole, tables |-> <<>>]
Buffers(tables, this, other, whole) ==
  [bar |-> "shared", parts |-> <<this * PageSize, other * PageSize>>, whole |-> whole * PageSize,
   tables |-> [i \in DOMAIN tables |-> tables[i] * PageSize]]
Counts == {0, 1, 7, 40}
MCFigures ==
  {Figure(bar, <<a, b>>, whole) : bar \in {"size", "wal", "band"}, a, b \in Counts, whole \in {47, 80}}
  \cup {Figure("disk", <<a, b, c>>, 81) : a, b, c \in Counts}
  \cup {Figure("heapPage", <<a, b>>, PageSize) : a, b \in {0, 30, 4100, 8168}}
  \cup {Figure("indexPage", <<a, b, c>>, PageSize) : a, b \in {0, 3, 200}, c \in {0, 5, 8100}}
  \cup {Figure("host", <<u, 12, a, f>>, 64) : u \in {0, 5, 12}, a \in {20, 60}, f \in {3, 20}}
  \cup {Figure("usage", <<a, b, 3, c>>, a + b + 3 + c) : a, b, c \in Counts}
  \cup {Figure("shmem", <<a, 5, b>>, a + 6 + b) : a, b \in Counts}
  \cup {Figure("anatomy", <<a, 96 - a>>, 96) : a \in {23, 24, 32, 40}}
  \cup {Figure("share", <<a, b, 900, 900 + c>>, whole) : a, b, c \in Counts, whole \in {0, 950, 1000, 941}}
  \cup {Figure("tuple", <<23, a, 1, b, 2000>>, 2024 + a + b) : a, b \in Counts}
  \cup {Buffers(<<5, 3, 0, 40, 2, 2, 9, 9, 1, 1, 1, 1, 1>>, this, other, 128) : this \in {75, 90, 20}, other \in {0, 38, 50}}

NoBars ==
  /\ figures = Figure("share", <<0, 0, 900, 0>>, 0)
  /\ barWidth = CHOOSE w \in BarWidths : TRUE

OfRows(n) == [i \in 1..n |-> "row"]
Keeps(level, has, loads, lines, keys) ==
  [level |-> level, has |-> has, status |-> "shown", over |-> "none", loads |-> loads, matches |-> {2, 5}, lines |-> lines,
   keys |-> keys]
Plain(level, has, n)       == Keeps(level, has, {OfRows(n)}, 0, {"move"})
Overlaid(over, level, lines)  == [Keeps(level, {"summary", "keys", "note"}, {OfRows(3)}, lines, {}) EXCEPT !.over = over]
Awaits(status, level, has) == [Keeps(level, has, {OfRows(2)}, 0, {}) EXCEPT !.status = status]
Every   == {"move", "page", "ends"}
TwoTables  == <<"row", "row", "section", "section", "section", "row", "row", "section">>
OneTable   == <<"row", "row", "section", "section", "section">>
FoundRows   == {<<"plain", "fixable", "plain">>, <<>>}
MCViews ==
  {Keeps("tables", {"hint"}, {OfRows(7), OfRows(3), <<>>}, 0, Every \cup {"filter"}),
   Keeps("wal", {"summary", "checkpoint", "maxWalSize", "hint"}, {TwoTables, OneTable}, 0, Every),
   Keeps("wal", {"summaryErr"}, {TwoTables}, 0, {"move", "filter"}),
   Keeps("walRecords", {}, {OfRows(3)}, 15, {"move"}),
   Keeps("statements", {"full", "noPlanning", "totalRow"}, {OfRows(6), OfRows(2)}, 0, {"move", "arm"}),
   Keeps("activity", {"queryText", "totalRow"}, {OfRows(5)}, 0, {"move", "arm", "filter"}),
   Keeps("logs", {"report", "timeAxis", "errors", "entries"}, {OfRows(6)}, 0, {"page", "filter"}),
   Keeps("logEntry", {"report", "timeAxis", "warnings"}, {OfRows(1)}, 12, Every),
   Keeps("describe", {"hint"}, {<<>>}, 9, Every),
   Keeps("heapTuples", {"primaryKey"}, {<<"tuple", "bare", "tuple", "tuple", "bare", "tuple">>}, 0, Every),
   Keeps("parts", {"stats", "freeze", "reindex"}, {OfRows(6)}, 0, {"move", "arm"}),
   Keeps("parts", {"vacuumPane", "stats"}, {OfRows(12)}, 0, {"arm"}),
   Keeps("snapshots", {"entry"}, {OfRows(6), OfRows(5)}, 0, {"move", "arm", "filter"}),
   Keeps("samples", {"explain"}, {OfRows(9)}, 3, {"ends", "filter"}),
   Keeps("maintenance", {}, FoundRows, 3, Every \cup {"arm"}),
   Keeps("lockTree", {"queryText"}, {OfRows(5), <<>>}, 0, {"move", "arm"})}
  \cup {Plain("bufferTables", {"summary", "hostMemory", "usageCounts"}, 5), Plain("shmem", {"bufferPool"}, 4),
        Plain("samples", {"explainHint"}, 5), Plain("parts", {"statsErr"}, 3), Plain("logs", {"readErr", "sourceErr"}, 3),
        Plain("pgbouncers", {}, 3), Plain("pgbouncer", {"overview", "lists"}, 6), Plain("logFiles", {}, 0),
        Plain("pgbouncerShow", {"parentTotals"}, 4), Plain("pgbouncerShow", {"consoleErr", "authHint"}, 0),
        Plain("logGroup", {"report", "group", "params"}, 4), Plain("logGroup", {"report", "group"}, 0),
        Plain("indexPages", {"keys", "meta", "levels"}, 4), Plain("indexTuples", {"keys", "seek"}, 4),
        Plain("diagnostics", {}, 5), Plain("progress", {}, 5), Plain("progress", {}, 0), Plain("settings", {}, 5),
        Plain("diagnosticResult", {"note"}, 0), Plain("tools", {}, 6), Plain("databases", {}, 4)}
  \cup {Overlaid("picker", "statements", 5), Overlaid("query", "diagnostics", 6), Overlaid("tupleLayout", "heapTuples", 7),
        Overlaid("fix", "diagnosticResult", 4), Overlaid("info", "wal", 20), Overlaid("prompt", "indexPages", 7)}
  \cup {Awaits("loading", "activity", {}), Awaits("error", "tables", {}), Awaits("error", "pgbouncer", {"consoleErr", "authHint"})}

NoFrame ==
  /\ view = Plain("databases", {}, 0) /\ height = 8 /\ listed = <<>>
  /\ cursor = 0 /\ offset = 0 /\ narrowed = "off" /\ armed = FALSE /\ follow = FALSE /\ cursorLine = -1

---------------------------------------------------------------------------
NoLayout == NoColumns /\ NoDiag /\ NoBars /\ NoFrame
NoPages  == NoDescent /\ NoListing /\ NoBytes

InspectInit ==
  \/ inspector = "descent" /\ DescentInit /\ NoListing /\ NoWal /\ NoBytes /\ NoOverview /\ NoLayout
  \/ inspector = "window" /\ WindowInit /\ NoDescent /\ NoWal /\ NoBytes /\ NoOverview /\ NoLayout
  \/ inspector = "bytes" /\ BytesInit /\ NoDescent /\ NoListing /\ NoWal /\ NoOverview /\ NoLayout
  \/ inspector = "wal" /\ WalInit /\ NoPages /\ NoOverview /\ NoLayout
  \/ inspector = "overview" /\ OverviewInit /\ NoPages /\ NoWal /\ NoLayout
  \/ inspector = "columns" /\ ColumnInit /\ NoPages /\ NoWal /\ NoOverview /\ NoDiag /\ NoBars /\ NoFrame
  \/ inspector = "table" /\ DiagInit /\ NoPages /\ NoWal /\ NoOverview /\ NoColumns /\ NoBars /\ NoFrame
  \/ inspector = "bars" /\ BarsInit /\ NoPages /\ NoWal /\ NoOverview /\ NoColumns /\ NoDiag /\ NoFrame
  \/ inspector = "frame" /\ FrameInit /\ NoPages /\ NoWal /\ NoOverview /\ NoColumns /\ NoDiag /\ NoBars

layoutVars == <<columnVars, diagVars, barVars, frameVars>>
pageVars   == <<descentVars, windowVars, bytesVars>>

InspectNext ==
  /\ UNCHANGED inspector
  /\ \/ inspector = "descent"  /\ DescentNext  /\ UNCHANGED <<windowVars, walVars, bytesVars, overviewVars, layoutVars>>
     \/ inspector = "window"   /\ WindowNext   /\ UNCHANGED <<descentVars, walVars, bytesVars, overviewVars, layoutVars>>
     \/ inspector = "bytes"    /\ BytesNext    /\ UNCHANGED <<descentVars, windowVars, walVars, overviewVars, layoutVars>>
     \/ inspector = "wal"      /\ WalNext      /\ UNCHANGED <<pageVars, overviewVars, layoutVars>>
     \/ inspector = "overview" /\ OverviewNext /\ UNCHANGED <<pageVars, walVars, layoutVars>>
     \/ inspector = "columns"  /\ ColumnNext   /\ UNCHANGED <<pageVars, walVars, overviewVars, diagVars, barVars, frameVars>>
     \/ inspector = "table"    /\ DiagNext     /\ UNCHANGED <<pageVars, walVars, overviewVars, columnVars, barVars, frameVars>>
     \/ inspector = "bars"     /\ BarsNext     /\ UNCHANGED <<pageVars, walVars, overviewVars, columnVars, diagVars, frameVars>>
     \/ inspector = "frame"    /\ FrameNext    /\ UNCHANGED <<pageVars, walVars, overviewVars, columnVars, diagVars, barVars>>

InspectSpec == InspectInit /\ [][InspectNext]_inspectVars

(* The list of pages and the WAL overview show the window last asked for,  *)
(* whole, whatever order the answers came in.                              *)
WindowsWhole == WindowSound /\ OverviewWhole

(* Every cell of a screen falls where its title says and inside its line.  *)
LinesFit == (inspector = "columns" => ColumnsAligned) /\ (inspector = "bars" => BarsExact) /\ TableFits

(* A frame is as tall as the terminal, shows the row the cursor is on, and  *)
(* lets a text be read to its end.                                          *)
WholeIn(content) == FrameFits(content) /\ TextReached(content) /\ CursorInSight(content)
ScreenWhole == inspector = "frame" => WholeIn(Content)
=============================================================================
