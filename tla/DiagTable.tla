--------------------------------- MODULE DiagTable -------------------------------
(* The generic result table: what diagnostics, PgBouncer's SHOWs, the top  *)
(* queries, the activity and the table overview print.  The loaded columns *)
(* are projected to those the C picker leaves on; bar, sort and sum follow *)
(* the projection; the widths of the columns are remembered between two    *)
(* frames, and width that nothing uses is handed to the columns cut short. *)
(*                                                                         *)
(* Two pickers share the table.  One goes by the names of the result's     *)
(* columns (diagnostics, SHOWs), the other by the ids of a registry, whose *)
(* columns may be mandatory or unavailable for now.                        *)
EXTENDS NumberFormat, Sequences, FiniteSetsExt

CONSTANTS
  Tables,      \* bound: the tables, with what a load of each may bring
  TableWidths  \* bound: the widths the terminal is given

(* A table has columns, and a load brings some of them.                    *)
ASSUME TablesAssumption ==
  \A t \in Tables :
    /\ t.columns \in Seq({t.columns[c] : c \in DOMAIN t.columns}) \ {<<>>}
    /\ \A loaded \in t.loads : loaded.present \in Seq(DOMAIN t.columns) \ {<<>>}

VARIABLES
  diag,         \* the table on the screen
  tableWidth,   \* Model.width
  result,       \* screen.diagResult, or the rows of the registry's table
  colsVisible,  \* Model.diagColsVisible[key], or colTable.visible; <<>> is nil
  colPrefs,     \* the prefs file
  cfgCursor,    \* the picker's cursor; 0 while it is closed
  diagCols,     \* the columns shown, by their place in the table
  diagBarCol, diagSortCol,  \* places in diagCols; 0 is none
  diagSortName, \* the column the sort is remembered by; which way, is in ListView
  diagTotalRow, \* the sum beneath the rows, by column; <<>> is none
  memo,         \* the widths diagMetrics remembers
  metricsDirty  \* screen.diagMetricsDirty

shownVars == <<diagCols, diagBarCol, diagSortCol, diagSortName, diagTotalRow, metricsDirty>>
diagVars  == <<diag, tableWidth, result, colsVisible, colPrefs, cfgCursor, shownVars, memo>>

ColumnCap == 36  \* diagColWidth
BarAtLeast == 12
BarAtMost == 48

Places(seq) == DOMAIN seq
Of(c) == diag.columns[c]
NumericKind(kind) == kind # "text"

-----------------------------------------------------------------------------
(* What a cell measures, and what is drawn of it.  Only bytes and counters *)
(* are measured as they are drawn.                                         *)
Humanized(n) ==
  IF n < 1024 THEN Digits(n) + 2
  ELSE IF n < 1048576 - 5 THEN Digits((n + 5) \div 1024) + 6
  ELSE Digits((n + 5242) \div 1048576) + 6
OneDecimal(hundredths) == Digits((hundredths + 5) \div 100) + 2

Measured(cell, kind) ==
  CASE cell.hasNum /\ kind = "bytes" -> Humanized(cell.num)
    [] cell.hasNum /\ kind = "count" -> RowsLen(cell.num)
    [] OTHER -> cell.display
DrawnLen(cell, kind) == IF cell.hasNum /\ kind = "percent" THEN OneDecimal(cell.num) ELSE Measured(cell, kind)
BarNumberLen(cell, kind) ==
  CASE cell.hasNum /\ kind = "bytes" -> Humanized(cell.num)
    [] cell.hasNum /\ kind = "percent" -> OneDecimal(cell.num)
    [] OTHER -> cell.display
NoCell == [display |-> 0, num |-> 0, hasNum |-> FALSE]

(* diagMetrics: the natural widths and the capped ones, of the cells shown *)
(* and of the sum, and the column the bars were scaled by.                 *)
Metrics ==
  LET cells(c) == {row[c] : row \in result.rows} \cup (IF diagTotalRow = <<>> THEN {} ELSE {diagTotalRow[c]})
      natural(c) == Max({Of(c).title} \cup {Measured(cell, Of(c).kind) : cell \in cells(c)})
  IN [natural |-> [i \in Places(diagCols) |-> natural(diagCols[i])],
      base |-> [i \in Places(diagCols) |-> Wider(Of(diagCols[i]).title, Narrower(natural(diagCols[i]), ColumnCap))],
      bar |-> diagBarCol]

NoMemo == [natural |-> <<>>, base |-> <<>>, bar |-> 0]
(* The defect of going by the number of columns alone.                     *)
MemoOfLength == Len(memo.base) = Len(diagCols)
MemoUsed == ~metricsDirty /\ Len(memo.base) = Len(diagCols)
InUse == IF MemoUsed THEN memo ELSE Metrics

-----------------------------------------------------------------------------
(* The layout of one frame.                                                *)
Marks == IF diag.drills THEN 2 ELSE 0
SumOf(widths) == LET s[n \in 0..Len(widths)] == IF n = 0 THEN 0 ELSE s[n - 1] + widths[n] + 2 IN s[Len(widths)]

FixedW(widths) == 2 + Marks + SumOf(widths) + IF diagBarCol > 0 THEN 2 ELSE 0

(* Left to right, a column cut short takes what it wants of the slack.     *)
Grown(widths, natural, slack) ==
  LET want(i) == IF i = diagBarCol THEN 0 ELSE Wider(natural[i] - widths[i], 0)
      before[i \in 1..(Len(widths) + 1)] == IF i = 1 THEN 0 ELSE before[i - 1] + want(i - 1)
  IN [i \in Places(widths) |-> widths[i] + Narrower(want(i), Wider(slack - before[i], 0))]

(* renderDiagResult: without a bar the columns take the slack first; what  *)
(* the bar at its most leaves is theirs as well.                           *)
WithBar(m, noBar, avail, barW) ==
  [natural |-> m.natural, base |-> m.base, barW |-> barW, widths |-> Grown(noBar, m.natural, avail - barW)]
Avail(widths) == tableWidth - FixedW(widths) - 2
Fitted(m, noBar, avail) == WithBar(m, noBar, avail, Narrower(Wider(avail, BarAtLeast), BarAtMost))
NoBarGrown(m) == IF diagBarCol = 0 THEN Grown(m.base, m.natural, tableWidth - FixedW(m.base)) ELSE m.base
Beneath(m, noBar) == Fitted(m, noBar, Avail(noBar))
LaidOut(m) == Beneath(m, NoBarGrown(m))
Frame == LaidOut(InUse)

(* A line, as how long its cells come out, and where each begins.          *)
HeaderLens == [i \in Places(diagCols) |-> Of(diagCols[i]).title + IF i = diagSortCol THEN 1 ELSE 0]
RowLens(row, f) ==
  [i \in Places(diagCols) |->
     LET cell == row[diagCols[i]]  kind == Of(diagCols[i]).kind
     IN IF i = diagBarCol THEN BarNumberLen(cell, kind) ELSE Narrower(DrawnLen(cell, kind), f.widths[i])]
TotalLens(f) ==
  [i \in Places(diagCols) |->
     LET cell == diagTotalRow[diagCols[i]]  kind == Of(diagCols[i]).kind
     IN IF i = diagBarCol THEN cell.display ELSE Narrower(Measured(cell, kind), f.widths[i])]
Begins(lens, f) ==
  LET bar(k) == IF k = diagBarCol THEN f.barW + 2 + 2 ELSE 0
      start[k \in Places(lens)] ==
        IF k = 1 THEN 2 + Marks + bar(1) ELSE start[k - 1] + Wider(f.widths[k - 1], lens[k - 1]) + 2 + bar(k)
  IN start

-----------------------------------------------------------------------------
(* The projection.                                                         *)
Listing == IF diag.picker = "names" THEN result.present ELSE [c \in Places(diag.columns) |-> c]
Present == {result.present[i] : i \in Places(result.present)}
ColOn(vis, c) == IF c \in DOMAIN vis THEN vis[c] ELSE diag.picker = "names" \/ Of(c).on
DefaultVis == [c \in {c \in Places(diag.columns) : ~Of(c).on} |-> FALSE]
FullVis(of(_), cols) == [c \in cols |-> of(c)]

(* diagVis seeds from the prefs, or from what the diagnostic hides; the    *)
(* registry's set stays nil until something opens the picker.              *)
SeededVis(prefs) == IF prefs # <<>> THEN prefs ELSE IF diag.picker = "names" THEN DefaultVis ELSE <<>>

InOrder(set) == [k \in 1..Cardinality(set) |-> CHOOSE n \in set : Cardinality({m \in set : m < n}) = k - 1]
ColumnsOn(vis, present) ==
  {i \in Places(present) : ColOn(vis, present[i]) \/ (diag.picker = "ids" /\ Of(present[i]).mandatory)}
Projected(vis, present) ==
  LET at == InOrder(ColumnsOn(vis, present))
  IN IF at = <<>> THEN <<Head(present)>> ELSE [k \in Places(at) |-> present[at[k]]]

PlaceOf(c, cols) == IF \E i \in Places(cols) : cols[i] = c THEN CHOOSE i \in Places(cols) : cols[i] = c ELSE 0

Additive(c) == Of(c).kind \in {"int", "count", "bytes"} /\ ~Of(c).identifier
FooterCells(cols, rows) ==
  LET numbers(c) == {row \in rows : row[c].hasNum}
      sum(c) == FoldSet(LAMBDA row, s : s + row[c].num, 0, numbers(c))
      summed == {i \in Places(cols) : Additive(cols[i]) /\ numbers(cols[i]) # {}}
      texts == {i \in Places(cols) : Of(cols[i]).kind = "text"}
      label == [display |-> Len("_ 2 rows"), num |-> 0, hasNum |-> FALSE]
      cell(c) == LET i == PlaceOf(c, cols)
                 IN CASE i \in summed -> [display |-> Digits(sum(c)), num |-> sum(c), hasNum |-> TRUE]
                      [] i \in texts /\ i = Min(texts) -> label
                      [] OTHER -> NoCell
  IN IF summed = {} THEN <<>> ELSE [c \in Places(diag.columns) |-> cell(c)]

(* The sort goes by the remembered column; when it is hidden, by the       *)
(* table's own, and when that is hidden too, by the first.                 *)
SortFalls(cols) ==
  IF PlaceOf(diagSortName, cols) > 0 THEN diagSortName ELSE IF PlaceOf(diag.sort, cols) > 0 THEN diag.sort ELSE cols[1]
BarFor(cols, sorted) ==
  IF ~diag.barFollows THEN PlaceOf(diag.bar, cols) ELSE IF NumericKind(Of(sorted).kind) THEN PlaceOf(sorted, cols) ELSE 0

(* rebuildDiagItems, and the rebuild of a registry's table.                *)
Rebuild(vis, loaded) ==
  LET cols == Projected(vis, loaded.present)
      sorted == SortFalls(cols)
  IN /\ diagCols' = cols
     /\ diagSortName' = sorted /\ diagSortCol' = PlaceOf(sorted, cols) /\ diagBarCol' = BarFor(cols, sorted)
     /\ diagTotalRow' = IF diag.picker = "names" THEN FooterCells(cols, loaded.rows) ELSE loaded.sum
     /\ metricsDirty' = TRUE

-----------------------------------------------------------------------------
OpensWith(t) ==
  /\ diag = t /\ colPrefs = <<>> /\ cfgCursor = 0 /\ result = [present |-> <<>>, rows |-> {}, sum |-> <<>>]
  /\ colsVisible = IF t.picker = "names" THEN [c \in {c \in DOMAIN t.columns : ~t.columns[c].on} |-> FALSE] ELSE <<>>
  /\ diagCols = <<>> /\ diagBarCol = 0 /\ diagSortCol = 0 /\ diagSortName = 0
  /\ diagTotalRow = <<>> /\ memo = NoMemo /\ metricsDirty = FALSE
DiagInit == \E t \in Tables : OpensWith(t) /\ tableWidth \in TableWidths

OnDiagnosticLoaded(loaded) ==
  /\ result' = loaded /\ Rebuild(colsVisible, loaded)
  /\ UNCHANGED <<diag, tableWidth, colsVisible, colPrefs, cfgCursor, memo>>

(* A frame: the widths are computed again where they have to be.  One is   *)
(* drawn after every message; the picker is drawn in its place.            *)
Render ==
  /\ diagCols # <<>> /\ cfgCursor = 0 /\ memo' = InUse /\ metricsDirty' = FALSE
  /\ UNCHANGED <<diag, tableWidth, result, colsVisible, colPrefs, cfgCursor, diagCols, diagBarCol, diagSortCol, diagSortName, diagTotalRow>>
FrameIsDrawn == ~metricsDirty \/ cfgCursor > 0

ResizeTable(w) == tableWidth' = w /\ UNCHANGED <<diag, result, colsVisible, colPrefs, cfgCursor, shownVars, memo>>

(* cycleSort: left and right, wrapping; a bar that rides the sort moves    *)
(* along, and with it what the widths were computed for.                   *)
CycleSort(dir) ==
  LET n == Len(diagCols)
      next == ((diagSortCol - 1 + dir + n) % n) + 1
      bar == BarFor(diagCols, diagCols[next])
  IN /\ cfgCursor = 0 /\ n >= 2
     /\ diagSortCol' = next /\ diagSortName' = diagCols[next]
     /\ diagBarCol' = bar /\ metricsDirty' = (metricsDirty \/ bar # diagBarCol)
     /\ UNCHANGED <<diag, tableWidth, result, colsVisible, colPrefs, cfgCursor, diagCols, diagTotalRow, memo>>
-----------------------------------------------------------------------------
(* The picker.                                                             *)
MaterialVis ==
  IF diag.picker = "ids" /\ colsVisible = <<>>
  THEN FullVis(LAMBDA c : Of(c).on \/ Of(c).mandatory, Places(diag.columns)) ELSE colsVisible
OpenPicker ==
  /\ cfgCursor = 0 /\ diagCols # <<>> /\ cfgCursor' = 1 /\ colsVisible' = MaterialVis
  /\ UNCHANGED <<diag, tableWidth, result, colPrefs, shownVars, memo>>
ClosePicker == cfgCursor > 0 /\ cfgCursor' = 0 /\ UNCHANGED <<diag, tableWidth, result, colsVisible, colPrefs, shownVars, memo>>
MovePicker(by) ==
  /\ cfgCursor > 0 /\ cfgCursor + by \in 1..Wider(Len(Listing), cfgCursor) /\ cfgCursor' = cfgCursor + by
  /\ UNCHANGED <<diag, tableWidth, result, colsVisible, colPrefs, shownVars, memo>>

ShownCount(vis) == Cardinality({c \in Present : ColOn(vis, c)})
MayToggle(vis, c) ==
  IF diag.picker = "names" THEN ColOn(vis, c) => ShownCount(vis) > 1 ELSE ~Of(c).mandatory /\ c \in Present
ToggleColumnAt ==
  /\ cfgCursor \in Places(Listing)
  /\ LET c == Listing[cfgCursor]
         vis == IF diag.picker = "names" /\ colsVisible = <<>> THEN FullVis(LAMBDA k : TRUE, Present) ELSE MaterialVis
         toggled == [k \in {c} \cup DOMAIN vis |-> IF k = c THEN ~ColOn(vis, c) ELSE vis[k]]
     IN /\ MayToggle(vis, c)
        /\ colsVisible' = toggled /\ colPrefs' = toggled /\ Rebuild(toggled, result)
  /\ UNCHANGED <<diag, tableWidth, result, cfgCursor, memo>>

(* r: a diagnostic forgets its selection, so that its own defaults seed it *)
(* again; a registry's defaults are written down as the selection.         *)
ResetColumns ==
  /\ cfgCursor > 0
  /\ LET vis == IF diag.picker = "names" THEN DefaultVis ELSE FullVis(LAMBDA c : Of(c).on \/ Of(c).mandatory, Places(diag.columns))
     IN /\ colsVisible' = vis /\ Rebuild(vis, result)
        /\ colPrefs' = IF diag.picker = "names" THEN <<>> ELSE vis
  /\ UNCHANGED <<diag, tableWidth, result, cfgCursor, memo>>

(* The program is started again: of all this, the prefs are left.          *)
RestartTable ==
  /\ diagCols # <<>>
  /\ colsVisible' = SeededVis(colPrefs) /\ cfgCursor' = 0 /\ result' = [present |-> <<>>, rows |-> {}, sum |-> <<>>]
  /\ diagCols' = <<>> /\ diagBarCol' = 0 /\ diagSortCol' = 0 /\ diagSortName' = 0
  /\ diagTotalRow' = <<>> /\ memo' = NoMemo /\ metricsDirty' = FALSE
  /\ UNCHANGED <<diag, tableWidth, colPrefs>>

DiagNext ==
  \/ Render
  \/ /\ FrameIsDrawn
     /\ \/ \E loaded \in diag.loads : OnDiagnosticLoaded(loaded)
        \/ OpenPicker \/ ClosePicker \/ ToggleColumnAt \/ ResetColumns \/ RestartTable
        \/ \E w \in TableWidths : ResizeTable(w)
        \/ \E dir \in {-1, 1} : CycleSort(dir) \/ MovePicker(dir)

-----------------------------------------------------------------------------
(* What stands where.  Rows and sum stand under the titles, but behind the *)
(* arrow of a sort in a title as wide as its column, and behind a number   *)
(* drawn longer than it was measured: a bar's percentage, and the sum of a *)
(* bar's bytes, which alone is not humanized.  No column is cut short      *)
(* while the line has cells to spare, and the line ends on the screen as   *)
(* long as its columns, at the cap, fit there with the least bar.          *)
TooLong(lens, f) == {k \in Places(lens) : lens[k] > f.widths[k]}
Under(lens, f) ==
  \A i \in Places(lens) :
    (\A k \in TooLong(lens, f) \cup TooLong(HeaderLens, f) : k >= i) => Begins(lens, f)[i] = Begins(HeaderLens, f)[i]
Aligned(f) ==
  /\ TooLong(HeaderLens, f) \subseteq {diagSortCol}
  /\ \A row \in result.rows :
       /\ Under(RowLens(row, f), f)
       /\ TooLong(RowLens(row, f), f) \subseteq {k \in {diagBarCol} \ {0} : Of(diagCols[k]).kind = "percent"}
  /\ diagTotalRow # <<>> => Under(TotalLens(f), f) /\ TooLong(TotalLens(f), f) \subseteq {diagBarCol}
RowWhole(cells, f) ==
  \A i \in Places(diagCols) \ {diagBarCol} :
    f.widths[i] = f.natural[i] => Measured(cells[diagCols[i]], Of(diagCols[i]).kind) <= f.widths[i]
LineEnd(f) == Begins(f.widths, f)[Len(diagCols)] + f.widths[Len(diagCols)] + 2
RoomIsUsed(f) ==
  /\ diagTotalRow # <<>> => RowWhole(diagTotalRow, f)
  /\ \A row \in result.rows : RowWhole(row, f)
  /\ (\E i \in Places(diagCols) : i # diagBarCol /\ f.widths[i] < f.natural[i]) => LineEnd(f) >= tableWidth
  /\ LineEnd([f EXCEPT !.widths = f.base, !.barW = BarAtLeast]) <= tableWidth => LineEnd(f) <= tableWidth
TableFits == diagCols # <<>> => Aligned(Frame) /\ RoomIsUsed(Frame)

(* The selection: at least one column is shown, and those that are, the    *)
(* bar and the sort are what the program started anew would show of the    *)
(* same result.                                                            *)
SelectionKept ==
  diagCols # <<>> =>
    /\ diagCols = Projected(colsVisible, result.present) /\ diagCols = Projected(SeededVis(colPrefs), result.present)
    /\ diagSortCol \in Places(diagCols) /\ diagCols[diagSortCol] = diagSortName
    /\ diagBarCol = BarFor(diagCols, diagSortName)

(* A table is always of what was last loaded and chosen: its selection is  *)
(* kept, and a frame drawn from the remembered widths is the one drawn     *)
(* from the cells.                                                         *)
WidthsFresh == diagCols # <<>> => InUse = Metrics
TableCurrent == SelectionKept /\ WidthsFresh
=============================================================================
