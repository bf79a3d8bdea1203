------------------------------- MODULE ColumnLayout ------------------------------
(* The column tables of the terminal interface: a header, the rows and the  *)
(* sum beneath them are put together by different functions, each from     *)
(* cells padded to a width of its own, and have to come out under one      *)
(* another on a terminal of any width, whatever is sorted, measured or     *)
(* loaded.  A line is a sequence of cells; what is in a cell is its length *)
(* on the screen.  The lists of pages and tuples are in PageColumns.       *)
EXTENDS NumberFormat, Sequences, FiniteSetsExt

CONSTANTS
  Widths,   \* bound: the widths the terminal is given
  Amounts   \* bound: what a row may have to show

VARIABLES
  listing,  \* the table on the screen
  width,    \* Model.width
  sort,     \* screen.sort
  rows,     \* what the loaded rows show; a row that was measured has its bloat
  total,    \* what the line beneath them shows
  bufs,     \* pageBufs was loaded
  byRel     \* the split view of the buffers

columnVars == <<listing, width, sort, rows, total, bufs, byRel>>

-----------------------------------------------------------------------------
(* Cells.  padRight and padLeft never cut: a cell grows with its text.     *)
Cell(col, w, len)  == [col |-> col, w |-> w, len |-> len, gap |-> 2, right |-> FALSE]
Right(col, w, len) == [Cell(col, w, len) EXCEPT !.right = TRUE]
Tight(cell, gap)   == [cell EXCEPT !.gap = gap]
Blank(w)           == Tight(Cell("", w, 0), 0)
Title(col, w, text) == Cell(col, w, Len(text) + IF sort = col THEN 1 ELSE 0)
Label(col, w, text) == Cell(col, w, Len(text))
CellsIf(shown, cells)  == IF shown THEN cells ELSE <<>>

Cursor    == Blank(2)
DrillMark == Blank(2)

ColumnAt(line, i) ==
  LET start[n \in 1..i] ==
        IF n = 1 THEN 0 ELSE start[n - 1] + Wider(line[n - 1].w, line[n - 1].len) + line[n - 1].gap
  IN start[i]
ColumnsOf(line) == {line[i].col : i \in DOMAIN line} \ {""}
CellOf(line, col) == CHOOSE i \in DOMAIN line : line[i].col = col
(* Where the text of a column begins, or for a number padded on the left,  *)
(* where it ends.                                                          *)
AtCell(line, i) == ColumnAt(line, i) + IF line[i].right THEN Wider(line[i].w, line[i].len) ELSE 0
At(line, col) == AtCell(line, CellOf(line, col))

-----------------------------------------------------------------------------
(* The bar takes what the columns leave of the width.                      *)
BufSplit(cap, title, of(_)) == Narrower(cap, Max({Len(title)} \cup {of(r) : r \in rows}))
TableW == BufSplit(40, "table", LAMBDA r : r.table)
RelW   == BufSplit(48, "relation", LAMBDA r : r.name)

PageList == {"heapPages", "btreePages", "gistPages", "brinPages", "ginPages"}
TempReserve == IF bufs THEN 5 + 2 ELSE 0
BarReserve ==
  CASE listing = "buffers" -> 2 + 2 + 13 + 13 + 10 + 10 + 12 + 9 + 7 + 2
         + IF byRel THEN 7 + 2 + TableW + 2 + RelW ELSE 28
    [] listing = "shmem"      -> 2 + 2 + 13 + 9 + 13 + 28
    [] listing = "pageTables" -> 2 + 2 + 12 + 9 + 9 + 2 + 28
    [] listing = "tables"     -> 2 + 2 + 12 + 12 + 12 + 12 + 9 + 14 + 2 + 28
    [] listing = "parts"      -> 2 + 2 + 12 + 12 + 9 + 9 + 2 + 28 + 50
    [] listing \in {"databases", "schemas", "columns"} -> 2 + 2 + 12 + 2 + 28 + 30
    [] listing = "relations"  -> 2 + 2 + 12 + 9 + 9 + 8 + 2 + 28 + 24
    [] listing = "heapPages"  -> 2 + 2 + 3 + 12 + 7 + 6 + 7 + 9 + TempReserve + 2 + 16
    [] listing = "btreePages" -> 2 + 2 + TempReserve + 2 + 3 + 6 + 7 + 12 + 7 + 14 + 9 + 15 + 16
    [] listing = "gistPages"  -> 2 + 2 + TempReserve + 2 + 6 + 12 + 14 + 9 + 16
    [] listing = "brinPages"  -> 2 + 2 + TempReserve + 2 + 9 + 12 + 9 + 16
    [] listing = "ginPages"   -> 2 + 2 + TempReserve + 2 + 11 + 14 + 12 + 9 + 16
    [] listing = "heapTuples" -> 2 + 2 + 2 + 6 + 10 + 8 + 12 + 12 + 14 + 6
    [] listing = "logs"       -> 2 + 2 + 8 + 9 + 15 + 2 + 28
    [] listing \in {"walRmgrs", "walRels"} -> 2 + 2 + 13 + 19 + 11 + 11 + 2 + 28
    [] listing = "walRecords" -> 2 + 2 + 12 + 12 + 20 + 2 + 28 + 30
    [] listing = "walBlocks"  -> 2 + 2 + 12 + 12 + 2 + 28 + 30
    [] listing = "progress"   -> 2 + 2 + 15 + 28 + 26 + 12 + 12 + 9 + 8 + 8 + 12
    [] OTHER -> 0
BarMin == 20
BarMax == 80
BarW == Narrower(BarMax, Wider(BarMin, width - BarReserve))

HeaderIndent == <<Blank(2 + (BarW + 2) + 2)>>
RowStart     == <<Cursor, Blank(BarW + 2), Blank(2)>>
NoBar        == <<Blank(2), Blank(BarW + 2), Blank(2)>>

ValidSorts ==
  CASE listing \in {"tables", "pageTables"} -> {"size", "heap", "idx", "toast", "rows", "name"}
    [] listing = "parts"      -> {"size", "bloat%", "type", "name"}
    [] listing = "columns"    -> {"size", "avgWidth", "colType", "name"}
    [] listing = "schemas"    -> {"size", "tables", "name"}
    [] listing = "buffers"    -> {"size", "total", "cached", "hit", "dirty", "dirty%", "temp", "name"}
    [] listing = "shmem"      -> {"size", "group", "name"}
    [] listing = "heapPages"  -> {"blkno", "size", "live", "red", "dead", "deadRatio", "free", "temp"}
    [] listing \in PageList \ {"heapPages"} -> {"level", "type", "size", "deadRatio", "free", "temp", "blkno"}
    [] listing \in {"heapTuples", "btreeTuples", "gistTuples", "brinTuples", "ginTuples"} -> {"lp", "size"}
    [] listing = "relations"  -> {"size", "rows", "type", "name"}
    [] listing \in {"walRmgrs", "walRels"} -> {"size", "record", "fpi", "count", "pages", "name"}
    [] listing = "walRecords" -> {"size", "fpi", "name"}
    [] listing = "walBlocks"  -> {"size", "data", "name"}
    [] listing = "logs"       -> {"count", "last", "name"}
    [] OTHER -> {"size", "name"}

-----------------------------------------------------------------------------
(* The disk-usage lists share renderRow; each brings the cells it has.     *)
RowSize(a)   == Cell("size", 10, BytesLen(a.bytes))
RowPages(a)  == Cell("pages", 7, RowsLen(a.count) + 1)
(* The defect of a row that has no cells for what was not measured.        *)
OnlyMeasured(a) == CellsIf(a.measured, <<Cell("bloat", 10, BytesLen(a.bytes)), Cell("bloat%", 7, Digits(a.percent) + 1)>>)
BloatCells(a) ==
  IF ~a.measured THEN <<Blank(10 + 2 + 7 + 2)>>
  ELSE IF a.percent <= 0 THEN <<Cell("bloat", 10, 1), Cell("bloat%", 7, 1)>>
  ELSE <<Cell("bloat", 10, BytesLen(a.bytes)), Cell("bloat%", 7, Digits(a.percent) + 1)>>
AnyBloat == listing = "parts" /\ \E r \in rows : r.measured

DiskRow(a) ==
  RowStart \o <<RowSize(a)>>
  \o CellsIf(listing = "schemas", <<Cell("tables", 7, RowsLen(a.count))>>)
  \o CellsIf(listing = "tables", <<Cell("heap", 10, BytesLen(a.bytes)), Cell("idx", 10, BytesLen(a.bytes)), Cell("toast", 10, ToastLen(a.bytes))>>)
  \o CellsIf(listing \in {"tables", "pageTables"}, <<Cell("rows", 7, RowsLen(a.count))>>)
  \o CellsIf(listing = "pageTables", <<RowPages(a)>>)
  \o CellsIf(AnyBloat, BloatCells(a))
  \o CellsIf(listing = "parts", <<Cell("type", 7, a.tag)>>)
  \o <<DrillMark, Cell("name", 0, a.name)>>

TablesHeader ==
  HeaderIndent \o <<Title("size", 10, "size")>>
  \o (IF listing = "pageTables"
      THEN <<Title("rows", 7, "rows"), Label("pages", 7, "pages")>>
      ELSE <<Title("heap", 10, "heap"), Title("idx", 10, "idx"), Title("toast", 10, "toast"), Title("rows", 7, "rows")>>)
  \o <<Blank(2), Title("name", 0, "table")>>
TablesTotals(a) ==
  NoBar \o <<RowSize(a)>>
  \o (IF listing = "pageTables"
      THEN <<Cell("rows", 7, RowsLen(Wider(a.count, 0))), RowPages(a)>>
      ELSE <<Cell("heap", 10, BytesLen(a.bytes)), Cell("idx", 10, BytesLen(a.bytes)), Cell("toast", 10, ToastLen(a.bytes)),
             Cell("rows", 7, RowsLen(Wider(a.count, 0)))>>)
  \o <<Blank(2), Cell("name", 0, Len("_ 2 tables"))>>

PartsHeader ==
  HeaderIndent \o <<Title("size", 10, "size")>>
  \o CellsIf(AnyBloat, <<Label("bloat", 10, "bloat"), Title("bloat%", 7, "bloat%")>>)
  \o <<Title("type", 7, "type"), Blank(2), Title("name", 0, "name")>>
PartsTotals(a) ==
  NoBar \o <<RowSize(a)>>
  \o CellsIf(AnyBloat, <<Cell("bloat", 10, BytesLen(a.bytes)), Cell("bloat%", 7, Digits(a.percent) + 1)>>)
  \o <<Blank(7), Blank(2), Blank(2), Cell("name", 0, Len("_ 2 parts"))>>

GenericHeader(title) == HeaderIndent \o <<Title("size", 10, "size"), Blank(2), Title("name", 0, title)>>
SchemasHeader ==
  HeaderIndent \o <<Title("size", 10, "size"), Title("tables", 7, "tables"), Blank(2), Title("name", 0, "schema")>>
SchemasTotals(a) ==
  NoBar \o <<RowSize(a), Cell("tables", 7, RowsLen(a.count)), Blank(2), Cell("name", 0, Len("_ 2 schemas"))>>

-----------------------------------------------------------------------------
(* The shared buffers, by table or split by relation.                      *)
BufferHeader ==
  HeaderIndent
  \o <<Title("size", 11, "buffered"), Title("total", 11, "total"), Title("cached", 8, "cached"), Title("hit", 8, "hit"),
       Title("dirty", 10, "dirty"), Title("dirty%", 7, "dirty%"), Title("temp", 5, "temp")>>
  \o (IF byRel THEN <<Label("type", 7, "type"), Title("name", TableW, "table"), Blank(2), Label("relation", 0, "relation")>>
      ELSE <<Blank(2), Title("name", 0, "table")>>)
BufferFigures(a) ==
  <<Cell("size", 11, BytesLen(a.bytes)), Cell("total", 11, BytesLen(a.bytes)), Cell("cached", 8, PercentLen(a.percent)),
    Cell("hit", 8, PercentLen(a.percent)), Cell("dirty", 10, FpiLen(a.bytes)), Cell("dirty%", 7, PercentLen(a.percent)),
    Cell("temp", 5, Len("3.2"))>>
BufferRow(a) ==
  RowStart \o BufferFigures(a)
  \o (IF byRel THEN <<Cell("type", 7, a.tag), Cell("name", TableW, Narrower(a.table, TableW)), DrillMark, Cell("relation", 0, a.name)>>
      ELSE <<DrillMark, Cell("name", 0, a.name)>>)
BufferTotals(a) ==
  NoBar \o BufferFigures(a) \o CellsIf(byRel, <<Blank(7 + 2 + TableW + 2)>>)
  \o <<Blank(2), Cell(IF byRel THEN "relation" ELSE "name", 0, Len("_ 2 relations"))>>

ShmemHeader ==
  HeaderIndent \o <<Title("size", 11, "size"), Label("share", 7, "share"), Title("group", 11, "group"), Title("name", 0, "allocation")>>
ShmemRow(a) ==
  RowStart \o <<Cell("size", 11, BytesLen(a.bytes)), Cell("share", 7, PercentLen(a.percent)), Cell("group", 11, Len("buffer pool")),
                Cell("name", 0, a.name)>>

-----------------------------------------------------------------------------
(* Write-ahead log, progress and log groups.                               *)
RmgrCells(a) ==
  <<Cell("size", 11, BytesLen(a.bytes)), Cell("record", 11, BytesLen(a.bytes)), Cell("fpi", 11, FpiLen(a.bytes)), Cell("count", 9, RowsLen(a.count)),
    DrillMark, Cell("name", 0, a.name)>>
WALHeader ==
  HeaderIndent \o <<Title("size", 11, "combined"), Title("record", 11, "record"), Title("fpi", 11, "fpi"), Title("count", 9, "count"),
                    Blank(2), Title("name", 0, "resource manager")>>
WALRmgrRow(a)    == RowStart \o RmgrCells(a)
WALRmgrTotals(a) == HeaderIndent \o RmgrCells(a)

GradedLen(a) == IF a.bytes[1] = 0 THEN 1 ELSE BytesLen(a.bytes) + Len(" (%)") + Digits(a.percent)
RelCells(a) ==
  <<Cell("size", 11, BytesLen(a.bytes)), Cell("fpi", 17, GradedLen(a)), Cell("count", 9, RowsLen(a.count)), Cell("pages", 9, RowsLen(a.count)),
    DrillMark, Cell("name", 0, a.name)>>
WALRelationsHeader ==
  HeaderIndent \o <<Title("size", 11, "combined"), Title("fpi", 17, "fpi"), Title("count", 9, "records"), Title("pages", 9, "pages"),
                    Blank(2), Title("name", 0, "relation")>>
WALRelRow(a)    == RowStart \o RelCells(a)
WALRelTotals(a) == HeaderIndent \o RelCells(a)

WALRecordsHeader ==
  HeaderIndent \o <<Title("size", 10, "size"), Title("fpi", 10, "fpi"), Label("lsn", 18, "lsn"), Blank(2), Title("name", 0, "record_type")>>
WALRecordRow(a) ==
  RowStart \o <<Cell("size", 10, BytesLen(a.bytes)), Cell("fpi", 10, FpiLen(a.bytes)), Cell("lsn", 18, Len("FFFFFFFF/FFFFFFFF")),
                DrillMark, Cell("name", 0, a.name)>>
WALBlocksHeader ==
  HeaderIndent \o <<Title("size", 10, "fpi"), Title("data", 10, "data"), Blank(2), Title("name", 0, "block reference")>>
WALBlockRow(a) ==
  RowStart \o <<Cell("size", 10, FpiLen(a.bytes)), Cell("data", 10, BytesLen(a.bytes)), DrillMark, Cell("name", 0, a.name)>>

(* The share of each record type, pinned above the records.                *)
RecTypeHeader ==
  <<Blank(8), Label("record_type", 22, "record_type"), Label("combined", 11, "combined"), Label("%", 6, "%"), Label("record", 11, "record"),
    Label("fpi", 11, "fpi"), Label("count", 9, "count")>>
RecTypeRow(a) ==
  <<Blank(8), Cell("record_type", 22, Narrower(a.name, 22)), Cell("combined", 11, BytesLen(a.bytes)), Cell("%", 6, PercentLen(a.percent)),
    Cell("record", 11, BytesLen(a.bytes)), Cell("fpi", 11, FpiLen(a.bytes)), Cell("count", 9, RowsLen(a.count))>>

ProgressHeader ==
  <<Blank(2), Label("command", 13, "command"), Tight(Label("relation", 28, "relation"), 0), Tight(Label("phase", 26, "phase"), 0),
    Right("done", 10, Len("done")), Right("total", 10, Len("total")), Blank(BarW + 2), Blank(1), Right("pct", 7, Len("pct")),
    Tight(Label("elapsed", 8, "elapsed"), 0), Tight(Label("eta", 8, "~eta"), 0), Label("user", 0, "user")>>
ProgressRow(a) ==
  <<Cursor, Cell("command", 13, Len("CREATE INDEX")), Tight(Cell("relation", 28, Narrower(a.name, 27)), 0),
    Tight(Cell("phase", 26, Narrower(a.name, 25)), 0), Right("done", 10, BytesLen(a.bytes)), Right("total", 10, BytesLen(a.bytes)),
    Blank(BarW + 2), Blank(1), Right("pct", 7, IF a.percent < 0 THEN 1 ELSE Len("~") + PercentLen(a.percent)),
    Tight(Cell("elapsed", 8, IF a.percent < 0 THEN 0 ELSE Len("999.9d")), 0),
    Tight(Cell("eta", 8, IF a.percent \in {-1, 100} THEN 1 ELSE Len("999.9d")), 0), Cell("user", 0, Narrower(a.name, 12))>>

LogGroupsHeader ==
  <<Blank(2 + BarW + 2 + 1), Right("count", 6, Len("count") + IF sort = "count" THEN 1 ELSE 0), Label("level", 7, "level"),
    Title("last", 13, "seen"), Blank(2), Title("name", 0, "message")>>
LogGroupRow(a) ==
  <<Cursor, Blank(BarW + 2), Blank(1), Right("count", 6, CountLen(a.count)), Cell("level", 7, Len("WARNING")), Cell("last", 13, Len("09-01_09-02")),
    DrillMark, Cell("name", 0, a.name)>>
=============================================================================
