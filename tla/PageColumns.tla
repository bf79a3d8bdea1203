-------------------------------- MODULE PageColumns ------------------------------
(* The tables of the page inspector, and what may happen to a table on the *)
(* screen: the terminal is resized, the sort changes, the rows are loaded  *)
(* again, one of them is measured, the buffers of the pages arrive.        *)
EXTENDS ColumnLayout

CONSTANTS Listings, Picked  \* bounds: the tables shown, the columns picked for the tuples

PageTempHeader == CellsIf(bufs, <<Title("temp", 5, "temp")>>)
PageTempRow    == CellsIf(bufs, <<Cell("temp", 5, Len("5_"))>>)
PageName(a)    == <<DrillMark, Cell("blkno", 0, Len("page ") + Digits(a.block))>>
PageTitle      == <<Blank(2), Title("blkno", 0, "page")>>
UsedLen        == BytesLen(<<8, 1>>)
FreeLen(a)     == IF a.percent < 0 THEN 1 ELSE Digits(a.percent) + 1

RelationsHeader ==
  HeaderIndent \o <<Title("size", 10, "size"), Title("rows", 7, "rows"), Label("pages", 7, "pages"), Title("type", 6, "type"),
                    Blank(2), Title("name", 0, "name")>>
RelationRow(a) ==
  RowStart \o <<RowSize(a), Cell("rows", 7, RowsLen(a.count)), RowPages(a), Cell("type", 6, Narrower(a.tag, 5)), DrillMark, Cell("name", 0, a.name)>>

HeapPagesHeader ==
  HeaderIndent \o <<Label("flag", 1, "!"), Title("size", 10, "used"), Title("live", 5, "live"), Title("red", 4, "Red"),
                    Title("dead", 5, "dead"), Title("deadRatio", 7, "dead%")>> \o PageTempHeader \o PageTitle
HeapPageRow(a) ==
  RowStart \o <<Cell("flag", 1, 1), Cell("size", 10, UsedLen), Cell("live", 5, a.items), Cell("red", 4, a.items), Cell("dead", 5, a.items),
                Cell("deadRatio", 7, FreeLen(a))>> \o PageTempRow \o PageName(a)

SiblingLinks(a) == IF a.block < 0 THEN Len("_ - _") ELSE 2 * Digits(a.block) + 3
BtreePagesHeader ==
  HeaderIndent \o <<Label("flag", 1, "!"), Title("type", 4, "type"), Title("level", 5, "level"), Title("size", 10, "used"), Label("avg", 5, "avg"),
                    Title("deadRatio", 12, "live/dead"), Title("free", 7, "free"), Label("links", 13, "links")>>
  \o PageTempHeader \o PageTitle
BtreePageRow(a) ==
  RowStart \o <<Cell("flag", 1, 1), Cell("type", 4, 4), Cell("level", 5, Len("L2")), Cell("size", 10, UsedLen), Cell("avg", 5, Len("2700")),
                Cell("deadRatio", 12, 2 * Wider(a.items, 3) + Len("L D")), Cell("free", 7, FreeLen(a)), Cell("links", 13, SiblingLinks(a))>>
  \o PageTempRow \o PageName(a)

GistPagesHeader ==
  HeaderIndent \o <<Title("type", 4, "type"), Title("size", 10, "used"), Label("items", 12, "items"), Title("free", 7, "free")>>
  \o PageTempHeader \o PageTitle
GistPageRow(a) ==
  RowStart \o <<Cell("type", 4, 4), Cell("size", 10, UsedLen), Cell("items", 12, a.items), Cell("free", 7, FreeLen(a))>>
  \o PageTempRow \o PageName(a)

BrinPagesHeader ==
  HeaderIndent \o <<Title("type", 7, "type"), Title("size", 10, "used"), Title("free", 7, "free")>> \o PageTempHeader \o PageTitle
BrinPageRow(a) ==
  RowStart \o <<Cell("type", 7, Len("regular")), Cell("size", 10, UsedLen), Cell("free", 7, FreeLen(a))>> \o PageTempRow \o PageName(a)

GinPagesHeader ==
  HeaderIndent \o <<Title("type", 9, "type"), Label("items", 12, "items"), Title("size", 10, "used"), Title("free", 7, "free")>>
  \o PageTempHeader \o PageTitle
GinPageRow(a) ==
  RowStart \o <<Cell("type", 9, Len("data-leaf")), Cell("items", 12, a.items), Cell("size", 10, UsedLen), Cell("free", 7, FreeLen(a))>>
  \o PageTempRow \o PageName(a)

-----------------------------------------------------------------------------
(* Tuples.  No bar: the last column gets what is left, at least 16 cells.  *)
Rest(reserve) == Wider(width - reserve, 16)
Hop(a)        == IF a.measured THEN Len("_290") ELSE 0
BtreeKeyW == Rest(2 + 2 + 5 + 2 + 6 + 2 + 8 + 2 + 18 + 2 + 4)
GistKeyW  == Rest(2 + 2 + 5 + 2 + 6 + 2 + 4 + 2 + 18 + 2 + 4)
BrinValW  == Rest(2 + 2 + 6 + 2 + 18 + 2 + 6 + 2 + 10 + 2 + 2)
GinSampleW == Rest(2 + 14 + 2 + 8 + 2 + 8 + 2 + 2)

TuplesHead(off, len) == <<Blank(2 + 2), Title("lp", off, "off"), Title("size", len, "len")>>
BtreeTuplesHeader == TuplesHead(5, 6) \o <<Label("flags", 8, "flags"), Label("ctid", 18, "ctid"), Label("key", 0, "key")>>
BtreeTupleRow(a) ==
  <<Cursor, DrillMark, Cell("lp", 5, Len("#0001")), Cell("size", 6, a.items), Cell("flags", 8, IF a.measured THEN Len("NVH") ELSE 1),
    Cell("ctid", 18, IF a.percent < 0 THEN Len("_ posting _1358") ELSE CtidLen(a.block) + Hop(a)), Cell("key", 0, Narrower(a.name, BtreeKeyW))>>
PostingMemberRow(a) ==
  <<Cursor, DrillMark, Cell("lp", 5, Len(" _001")), Cell("size", 6, 0), Cell("flags", 8, 0), Cell("ctid", 18, CtidLen(a.block) + Hop(a)),
    Cell("key", 0, IF a.measured THEN Len("dead ") + Narrower(a.name, BtreeKeyW - 5) ELSE Narrower(a.name, BtreeKeyW))>>

GistTuplesHeader == TuplesHead(5, 6) \o <<Label("dead", 4, "dead"), Label("ctid", 18, "ctid"), Label("key", 0, "keys")>>
GistTupleRow(a) ==
  <<Cursor, DrillMark, Cell("lp", 5, Len("#0001")), Cell("size", 6, a.items), Cell("dead", 4, IF a.measured THEN 4 ELSE 1),
    Cell("ctid", 18, IF a.percent < 0 THEN Len("_ blk ") + Digits(a.block) ELSE CtidLen(a.block)), Cell("key", 0, Narrower(a.name, GistKeyW))>>

BrinTuplesHeader ==
  <<Blank(2 + 2), Title("lp", 6, "off"), Title("size", 18, "block range"), Label("att", 6, "att"), Label("flags", 10, "flags"),
    Label("key", 0, "summary value")>>
BrinTupleRow(a) ==
  <<Cursor, DrillMark, Cell("lp", 6, Len("#0001")), Cell("size", 18, 2 * Digits(a.block) + 1), Cell("att", 6, Len("att32")),
    Cell("flags", 10, IF a.measured THEN Len("N P E") ELSE 1), Cell("key", 0, Narrower(a.name, BrinValW))>>

GinTuplesHeader ==
  <<Blank(2), Label("tid", 14, "first tid"), Title("size", 8, "bytes"), Label("tids", 8, "tids"), Label("key", 0, "heap tids (sample)")>>
GinTupleRow(a) ==
  <<Cursor, Cell("tid", 14, CtidLen(a.block)), Cell("size", 8, UsedLen), Cell("tids", 8, a.items + 1), Cell("key", 0, Narrower(a.name, GinSampleW))>>

(* The heap's tuples, with the picked columns of the table as long as they *)
(* leave room for the state.                                               *)
TupleValueTail == 30
ValueW(title) == Narrower(Wider(Max({title} \cup {r.table : r \in rows}), 4), 24)
TupleValues ==
  LET room[n \in 0..Len(Picked)] ==
        IF n = 0 THEN width - BarReserve - TupleValueTail ELSE room[n - 1] - (ValueW(Picked[n]) + 2)
      fits == {n \in 1..Len(Picked) : \A k \in 1..n : room[k] >= 0}
  IN [n \in fits |-> ValueW(Picked[n])]
ValueName(n) == <<"one", "two", "three", "four">>[n]
ValueCells(len(_)) == [n \in 1..Len(TupleValues) |-> Cell(ValueName(n), TupleValues[n], Narrower(len(n), TupleValues[n]))]

HeapTuplesHeader ==
  <<Blank(2 + 2), Title("lp", 5, "lp"), Label("flags", 2 + 9, "lp_flags"), Title("size", 6, "len"), Label("xmin", 10, "xmin"),
    Label("xmax", 10, "xmax"), Label("ctid", 10, "ctid")>>
  \o ValueCells(LAMBDA n : Picked[n]) \o <<Label("state", 0, "state")>>
HeapTupleRow(a) ==
  <<Cursor, DrillMark, Cell("lp", 0, Len("#0001")), Tight(Cell("flags", 1, 1), 1), Cell("flag", 9, Len("redirect")), Cell("size", 6, a.items),
    Cell("xmin", 10, Len("4294967295")), Cell("xmax", 10, 1), Cell("ctid", 10, CtidLen(a.block))>>
  \o ValueCells(LAMBDA n : Wider(a.table, 1)) \o <<Cell("state", 0, Len("deleting"))>>

-----------------------------------------------------------------------------
Header ==
  CASE listing \in {"tables", "pageTables"} -> TablesHeader [] listing = "parts" -> PartsHeader [] listing = "databases" -> GenericHeader("database")
    [] listing = "columns" -> GenericHeader("column")       [] listing = "schemas" -> SchemasHeader [] listing = "buffers" -> BufferHeader
    [] listing = "shmem" -> ShmemHeader           [] listing = "walRmgrs" -> WALHeader       [] listing = "walRels" -> WALRelationsHeader
    [] listing = "walRecords" -> WALRecordsHeader [] listing = "walBlocks" -> WALBlocksHeader [] listing = "recTypes" -> RecTypeHeader
    [] listing = "progress" -> ProgressHeader     [] listing = "logs" -> LogGroupsHeader     [] listing = "relations" -> RelationsHeader
    [] listing = "heapPages" -> HeapPagesHeader   [] listing = "btreePages" -> BtreePagesHeader [] listing = "gistPages" -> GistPagesHeader
    [] listing = "brinPages" -> BrinPagesHeader   [] listing = "ginPages" -> GinPagesHeader  [] listing = "heapTuples" -> HeapTuplesHeader
    [] listing = "btreeTuples" -> BtreeTuplesHeader [] listing = "gistTuples" -> GistTuplesHeader [] listing = "brinTuples" -> BrinTuplesHeader
    [] listing = "ginTuples" -> GinTuplesHeader
LinesOf(a) ==
  CASE listing \in {"tables", "pageTables", "parts", "databases", "columns", "schemas"} -> {DiskRow(a)}
    [] listing = "buffers" -> {BufferRow(a)}       [] listing = "shmem" -> {ShmemRow(a)}         [] listing = "walRmgrs" -> {WALRmgrRow(a)}
    [] listing = "walRels" -> {WALRelRow(a)}       [] listing = "walRecords" -> {WALRecordRow(a)} [] listing = "walBlocks" -> {WALBlockRow(a)}
    [] listing = "recTypes" -> {RecTypeRow(a)}     [] listing = "progress" -> {ProgressRow(a)}   [] listing = "logs" -> {LogGroupRow(a)}
    [] listing = "relations" -> {RelationRow(a)}   [] listing = "heapPages" -> {HeapPageRow(a)}  [] listing = "btreePages" -> {BtreePageRow(a)}
    [] listing = "gistPages" -> {GistPageRow(a)}   [] listing = "brinPages" -> {BrinPageRow(a)}  [] listing = "ginPages" -> {GinPageRow(a)}
    [] listing = "heapTuples" -> {HeapTupleRow(a)} [] listing = "btreeTuples" -> {BtreeTupleRow(a), PostingMemberRow(a)}
    [] listing = "gistTuples" -> {GistTupleRow(a)} [] listing = "brinTuples" -> {BrinTupleRow(a)} [] listing = "ginTuples" -> {GinTupleRow(a)}
SumLines ==
  CASE listing \in {"tables", "pageTables"} -> {TablesTotals(total)} [] listing = "parts" -> {PartsTotals(total)}
    [] listing = "schemas" -> {SchemasTotals(total)}   [] listing = "buffers" -> {BufferTotals(total)}
    [] listing = "walRmgrs" -> {WALRmgrTotals(total)} [] listing = "walRels" -> {WALRelTotals(total)} [] OTHER -> {}

ColumnInit ==
  /\ listing \in Listings /\ width \in Widths /\ sort \in ValidSorts
  /\ rows \in {{a} : a \in Amounts} /\ total \in Amounts /\ bufs = FALSE /\ byRel = FALSE

Resize(w) == width' = w /\ UNCHANGED <<listing, sort, rows, total, bufs, byRel>>
SortBy(s) == sort' = s /\ UNCHANGED <<listing, width, rows, total, bufs, byRel>>
Load(shown, sum) == rows' = shown /\ total' = sum /\ UNCHANGED <<listing, width, sort, bufs, byRel>>
Measure(row) ==
  /\ listing = "parts" /\ ~row.measured
  /\ rows' = (rows \ {row}) \cup {[row EXCEPT !.measured = TRUE]}
  /\ UNCHANGED <<listing, width, sort, total, bufs, byRel>>
BuffersLoaded == listing \in PageList /\ bufs' = TRUE /\ UNCHANGED <<listing, width, sort, rows, total, byRel>>
ToggleSplit == listing = "buffers" /\ byRel' = ~byRel /\ UNCHANGED <<listing, width, sort, rows, total, bufs>>

ColumnNext ==
  \/ \E w \in Widths : Resize(w)
  \/ \E s \in ValidSorts : SortBy(s)
  \/ \E a, b, sum \in Amounts : Load({a, b}, sum)
  \/ \E r \in rows : Measure(r)
  \/ BuffersLoaded \/ ToggleSplit

-----------------------------------------------------------------------------
(* The titles that have no room for the arrow of the sort.                 *)
FullTitle(col) ==
  \/ listing = "btreePages" /\ col \in {"level", "type"}
  \/ listing = "gistPages" /\ col = "type"
  \/ listing = "buffers" /\ byRel /\ col = "name" /\ TableW = Len("table")

(* Every figure of a row and of the sum beneath the list stands under its  *)
(* title, however wide the terminal is and whatever the row, its           *)
(* neighbours and the sort are: only the arrow of a sort in a title that   *)
(* is as wide as its column pushes the titles to its right, by one cell.   *)
(* And while the bar is neither at its least nor at its most, what the     *)
(* columns leave of the width is the names': none loses more than the gap  *)
(* behind the bar, and the last column of the tuples ends on the screen.   *)
NameRoom ==
  CASE listing \in PageList -> 16 [] listing = "buffers" /\ byRel -> RelW [] listing = "progress" -> 12 [] OTHER -> 28
LastColumn == IF listing = "progress" THEN "user" ELSE IF listing \in PageList THEN "blkno" ELSE IF listing = "buffers" /\ byRel THEN "relation" ELSE "name"
KeyRoom == [btreeTuples |-> BtreeKeyW, gistTuples |-> GistKeyW, brinTuples |-> BrinValW, ginTuples |-> GinSampleW]

Pushed(head, col) == IF FullTitle(sort) /\ sort \in ColumnsOf(head) /\ CellOf(head, col) > CellOf(head, sort) THEN 1 ELSE 0
LineAligned(head, line) ==
  /\ \A col \in ColumnsOf(line) \cap ColumnsOf(head) : At(line, col) + Pushed(head, col) = At(head, col)
  /\ BarReserve > 0 /\ BarW \in (BarMin + 1)..(BarMax - 1) /\ LastColumn \in ColumnsOf(line)
       => At(line, LastColumn) + NameRoom <= width + 2
  /\ listing \in DOMAIN KeyRoom /\ width >= 80 => At(line, "key") + KeyRoom[listing] <= width
  /\ listing = "heapTuples" /\ Len(TupleValues) > 0 => At(line, "state") + TupleValueTail <= width
AlignedUnder(head) == \A line \in UNION {LinesOf(r) : r \in rows} \cup SumLines : LineAligned(head, line)
ColumnsAligned == AlignedUnder(Header)
=============================================================================
