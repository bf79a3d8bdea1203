--------------------------------- MODULE Frame ---------------------------------
(* One frame of the terminal: the header, the banners a screen has          *)
(* something to say in, its content, the legend, the help row; and the keys *)
(* that move the cursor or scroll.  A view is what one screen holds:        *)
(*   has       the parts that have loaded or apply                          *)
(*   status    "shown", "loading", "error"                                  *)
(*   over      the overlay in the place of the content, "none"              *)
(*   loads     the lists its loads answer with: what each row is, "section" *)
(*             for a line that answers to no key; of the overview its       *)
(*             recommendations, "fixable" for one with a fix line           *)
(*   matches   the rows the query of its filter keeps                       *)
(*   lines     how long its text is, or the overlay's                       *)
(*   keys      bound: which keys a behaviour presses                        *)
(* Text of one line is one line: a longer error is not modelled.            *)
EXTENDS Integers, Sequences, SequencesExt, FiniteSetsExt

CONSTANTS
  Views, Heights,
  FarDown  \* bound: where the bottom key puts the offset, past every text

(* A list that is not empty begins with a row that answers to keys.         *)
ASSUME FrameAssumption ==
  /\ Heights \subseteq Nat /\ FarDown \in Nat
  /\ \A v \in Views :
       /\ v.lines \in Nat /\ v.over \in {"none", "picker", "query", "tupleLayout", "prompt", "fix", "info"}
       /\ \A rows \in v.loads : rows \in Seq(STRING) /\ (rows # <<>> => rows[1] # "section")

VARIABLES
  view, height,
  listed,     \* screen.items
  cursor, offset,
  narrowed,   \* the filter: "off", "open" (no query yet), "typed", "kept"
  armed,      \* a confirmation is pending
  follow, cursorLine   \* maintState
frameVars == <<view, height, listed, cursor, offset, narrowed, armed, follow, cursorLine>>

Lesser(a, b)  == IF a < b THEN a ELSE b
Greater(a, b) == IF a > b THEN a ELSE b
Has(part) == part \in view.has
Opt(holds, n) == IF holds THEN n ELSE 0
Lines(part, n) == Opt(Has(part), n)

---------------------------------------------------------------------------
(* The rows a filter leaves, the cursor, the rows a window shows.           *)

Ascending(set) == [k \in 1..Cardinality(set) |-> CHOOSE i \in set : Cardinality({j \in set : j < i}) = k - 1]
InertRow(rows, i) == rows[i] = "section"
VisibleIndexes ==
  LET stays == {i \in DOMAIN listed : i \in view.matches \/ InertRow(listed, i)}
  IN  IF narrowed \in {"typed", "kept"} THEN Ascending(stays) ELSE [i \in DOMAIN listed |-> i]
Clamped(c, n) == Greater(Lesser(c, n - 1), 0)

SkipInertRow(rows, visible, c, forward) ==
  LET free   == {i \in DOMAIN visible : ~InertRow(rows, visible[i])}
      before == {i \in free : i < c + 1}
      after  == {i \in free : i > c + 1}
  IN  IF c + 1 \notin DOMAIN visible \/ c + 1 \in free THEN c
      ELSE IF after # {} /\ (forward \/ before = {}) THEN Min(after) - 1
      ELSE IF before # {} THEN Max(before) - 1 ELSE c

(* The defect of scrolling when the cursor is a row past the window.        *)
LateViewport(c, off, rowsH) ==
  LET up == Lesser(off, c) IN Greater(IF c > up + rowsH THEN c - rowsH + 1 ELSE up, 0)
ViewportRange(c, off, rowsH) ==
  LET up == Lesser(off, c) IN Greater(IF c >= up + rowsH THEN c - rowsH + 1 ELSE up, 0)

(* What a list draws of its rows: from the first on, and the padding.       *)
Slice(first, end, rowsH) ==
  [lines |-> Greater(end - first, 0) + Greater(rowsH - (end - first), 0), first |-> first, end |-> end]
RowsFrom(first, rowsH) == Slice(first, Lesser(first + rowsH, Len(VisibleIndexes)), rowsH)
Window(rowsH) == RowsFrom(IF rowsH > 0 THEN ViewportRange(cursor, offset, rowsH) ELSE offset, rowsH)
Drawn(lines)      == [lines |-> lines, first |-> offset, end |-> offset]
Around(window, n) == [window EXCEPT !.lines = @ + n]
Padded(n, h)      == Drawn(Greater(n, h))

RowList(h, footer) ==
  LET rowsH == Greater(Greater(h - footer, 0) - 1, 0) IN Around(Window(rowsH), 1 + footer)

LinesFrom(first, lines, h) == Slice(first, Lesser(first + h, lines), h)
ScrollWindow(lines, h) == LinesFrom(Greater(0, Lesser(offset, lines - h)), lines, h)

---------------------------------------------------------------------------
(* The banners above the content.                                           *)

Blocked == view.over = "prompt"
Shown   == view.status = "shown"

BufferSummary ==
  IF Has("summaryErr") \/ Has("unavailable") THEN 1 ELSE Lines("summary", 2 + Lines("hostMemory", 2) + Lines("usageCounts", 2))
ShmemSummary == Opt(Shown /\ listed # <<>>, IF Has("unavailable") THEN 1 ELSE 2 + Lines("bufferPool", 1))
WalSummary ==
  IF Has("summaryErr") THEN 1 ELSE Lines("summary", 3 + Lines("checkpoint", 1 + Lines("maxWalSize", 1)))
WalRecTypeMaxRows == 12
RecTypeStats ==
  Opt(view.lines > 0, 2 + Lesser(view.lines, WalRecTypeMaxRows) + Opt(view.lines > WalRecTypeMaxRows, 1))
StatementsHeader == 1 + Opt(~Has("opening"), Lines("noPlanning", 1)) + Lines("full", 1) + Opt(armed, 1)
PgbListHint == Opt(Shown /\ VisibleIndexes # <<>>, 1)
PgBouncerHeader ==
  1 + 1 + (IF Has("consoleErr") THEN 1 + Lines("authHint", 1) ELSE Lines("overview", 3 + Lines("lists", 1)))
PgbShowHeader == 1 + Opt(~Has("consoleErr"), Lines("parentTotals", 1))
LogHeader ==
  LET series  == IF Has("poolerStats") THEN Lines("requests", 1) + Lines("latency", 1)
                 ELSE Lines("errors", 1) + Lines("warnings", 1) + Lines("entries", 1)
      charts  == Lines("timeAxis", 1 + series)
      summary == Lines("group", 1 + Lines("params", 1))
  IN  IF Has("report") THEN 2 + charts + summary ELSE Lines("sourceErr", 1)
IndexKeyBanner == Lines("keys", 1) + Opt(view.level = "indexPages", Lines("meta", 1) + Lines("levels", 1))

OwnBanner ==
  CASE view.level = "bufferTables" -> BufferSummary
    [] view.level = "shmem" -> ShmemSummary
    [] view.level = "wal" -> Opt(~Blocked, WalSummary)
    [] view.level = "walRecords" -> Opt(~Blocked, RecTypeStats)
    [] view.level = "statements" -> Opt(~Blocked, StatementsHeader)
    [] view.level = "activity" -> Opt(Shown, 1)
    [] view.level = "pgbouncers" -> PgbListHint
    [] view.level = "pgbouncer" -> Opt(view.status # "loading", PgBouncerHeader)
    [] view.level = "pgbouncerShow" -> Opt(view.status # "loading", PgbShowHeader)
    [] view.level \in {"logs", "logGroup", "logEntry"} -> Opt(view.status # "loading", LogHeader)
    [] view.level \in {"indexPages", "indexTuples"} -> Opt(~Blocked, IndexKeyBanner)
    [] OTHER -> 0

ExtHint           == Opt(view.level # "describe", Lines("hint", 1))
ActionBanner      ==
  CASE view.level = "parts" -> Lines("reindex", 1) + Opt(armed, 1)
    [] view.level = "activity" -> Opt(armed, 1 + Lines("queryText", 1))
    [] OTHER -> 0
FilterLine == Opt(narrowed # "off", 1)
SeekLine   == Opt(view.level = "indexTuples", Lines("seek", 1))
LinesAbove      == OwnBanner + ExtHint + ActionBanner + FilterLine + SeekLine

Legend ==
  CASE view.level = "tables" -> Opt(~Has("pageInspect"), 1)
    [] view.level = "diagnosticResult" -> Lines("note", 1)
    [] view.level \in {"heapPages", "heapTuples", "relations", "indexPages", "indexTuples", "wal", "walRecords",
                       "walBlocks", "walBlockDetail"} -> 1
    [] OTHER -> 0

HeaderLines   == 3
ContentHeight == Greater(height - 5, 3) - LinesAbove - Legend

---------------------------------------------------------------------------
(* The content, in the lines it has.                                        *)

TotalsFooter == Opt(listed # <<>>, 1)

DiagResult(h) ==
  IF listed = <<>> THEN Padded(1, h)
  ELSE LET reserve == 1 + Lines("totalRow", 1) IN Around(Window(Greater(h - reserve, 0)), reserve)

(* Beneath a line or more of its own, with nothing that pads but the rows.  *)
TitledList(h, title) ==
  IF listed = <<>> THEN Padded(title + 1, h) ELSE Around(Window(Greater(h - title, 0)), title)

LogGroups(h) ==
  IF Has("readErr") THEN Padded(2, h)
  ELSE IF VisibleIndexes = <<>> THEN Padded(1, h) ELSE Around(Window(Greater(h - 1, 0)), 1)

(* The selected line pointer unfolds when the lines under it have room.     *)
ExpandLines(kind) == IF kind = "tuple" THEN 3 + Lines("primaryKey", 1) ELSE 1
Unfolded(window) ==
  IF cursor \in window.first..(window.end - 1) THEN ExpandLines(listed[VisibleIndexes[cursor + 1]]) ELSE 0
Fitting(expanded, window, rowsH) == Opt(cursor - window.first + 1 + expanded <= rowsH, expanded)
WithDetail(window, rowLines, unfolds, rowsH) ==
  [window EXCEPT !.lines = 1 + rowLines + unfolds + Greater(rowsH - rowLines - unfolds, 0), !.end = window.first + rowLines]
Beside(window, unfolds, rowsH) == WithDetail(window, Lesser(window.end - window.first, rowsH - unfolds), unfolds, rowsH)
Unfolding(window, rowsH) == Beside(window, Fitting(Unfolded(window), window, rowsH), rowsH)
HeapTuplesOf(rowsH) == Unfolding(Window(rowsH), rowsH)
HeapTuples(h) == HeapTuplesOf(Greater(h - 1, 0))

(* The parts of a table: the list with its totals and legend, over the log  *)
(* of a vacuum or over the maintenance panel; each gives way when short.    *)
PartsVacuumListRows == 8
VacuumPaneMin == 4
MaintPanel == IF Has("statsErr") THEN 3 ELSE Lines("stats", 6 + Lines("freeze", 1) + Lines("options", 1))
PartsLevel(h) ==
  LET footer == TotalsFooter + 1
      listH  == PartsVacuumListRows + 1
      paneH  == h - listH - footer
      shortH == Greater(h - VacuumPaneMin, 1)
  IN  IF Has("vacuumPane")
      THEN CASE paneH >= VacuumPaneMin -> Around(RowList(listH + footer, footer), paneH)
             [] paneH < VacuumPaneMin /\ h - listH >= VacuumPaneMin -> Around(RowList(listH, 0), h - listH)
             [] OTHER -> Around(RowList(shortH, 0), Greater(h - shortH, 1))
      ELSE IF h - footer < 1 THEN RowList(h, 0)
      ELSE IF MaintPanel = 0 THEN RowList(h, footer)
      ELSE IF h - footer - MaintPanel >= 3 THEN Around(RowList(h - MaintPanel, footer), MaintPanel)
      ELSE RowList(h, Opt(h - footer >= 3, footer))

Snapshots(h) ==
  LET used == 5 + Lines("entry", 1) + Opt(armed, 1)
  IN  IF listed = <<>> THEN Padded(used + 1, h) ELSE Around(Window(Greater(h - used, 1)), used)

(* The hint beneath the captured values is not among the lines used.        *)
Samples(h) ==
  LET used   == 4
      listH  == Greater(IF Has("explain") THEN (h - used) \div 2 ELSE h - used, 1)
      tail   == IF Has("explain") THEN 2 + view.lines ELSE Lines("explainHint", 1)
      window == Around(Window(listH), used + tail)
  IN  [window EXCEPT !.lines = Greater(@, h)]

(* The overview: recommendations, the sections, the reset rows.             *)
ResetRows == 4
OverviewRows == listed \o [i \in 1..ResetRows |-> "reset"]
OnFixable  == cursor < Len(listed) /\ listed[cursor + 1] = "fixable"
Prefix     == 1 + Opt(armed, 1)
RecLines   == 2 + (IF listed = <<>> THEN 1 ELSE Len(listed) + Opt(OnFixable, 1))
CursorAt   ==
  Prefix + IF cursor < Len(listed) THEN 1 + cursor ELSE RecLines + view.lines + 1 + cursor - Len(listed)
CursorSpan == 1 + Opt(OnFixable, 1)
OverviewLines  == Prefix + RecLines + view.lines + 1 + ResetRows
OverviewOffset(h) ==
  IF ~follow \/ h <= 0 THEN offset
  ELSE IF CursorAt < offset THEN CursorAt
  ELSE IF CursorAt + CursorSpan > offset + h THEN Greater(CursorAt + CursorSpan - h, 0) ELSE offset
OverviewBody(h) ==
  LET first == Greater(0, Lesser(OverviewOffset(h), OverviewLines - h))
      end   == Lesser(first + h, OverviewLines)
  IN  [lines |-> Greater(h, end - first), first |-> first, end |-> end]

FixLines == 3 + view.lines + 1 + 1

ScreenContent(h) ==
  CASE view.level \in {"schemas", "tables", "bufferTables"} -> RowList(h, TotalsFooter)
    [] view.level \in {"statements", "diagnosticResult", "statementResult", "activity", "tableStats", "pgbouncerShow"} ->
         DiagResult(h)
    [] view.level \in {"logFiles", "pgbouncers"} -> IF listed = <<>> THEN Padded(5, h) ELSE DiagResult(h)
    [] view.level = "logs" -> IF Has("table") /\ ~Has("readErr") THEN DiagResult(h) ELSE LogGroups(h)
    [] view.level = "logGroup" -> IF Has("params") THEN DiagResult(h) ELSE TitledList(h, 0)
    [] view.level \in {"diagnostics", "settings"} -> TitledList(h, 1)
    [] view.level = "progress" -> TitledList(h, 1 + Opt(listed # <<>>, 1))
    [] view.level = "lockTree" -> TitledList(h, 1 + Opt(armed, 1 + Lines("queryText", 1)))
    [] view.level = "heapTuples" -> HeapTuples(h)
    [] view.level = "parts" -> PartsLevel(h)
    [] view.level = "snapshots" -> Snapshots(h)
    [] view.level = "samples" -> Samples(h)
    [] view.level = "maintenance" -> OverviewBody(h)
    [] view.level \in {"describe", "statementDetail", "logEntry"} -> ScrollWindow(view.lines, h)
    [] view.level \in {"tools", "pgbouncer", "bufferDetail", "waitProfile"} -> Padded(Len(listed) + view.lines, h)
    [] OTHER -> RowList(h, 0)

HandlesNoItems == {
  "describe", "diagnosticResult", "statements", "statementDetail", "statementResult", "snapshots", "bufferDetail",
  "maintenance", "settings", "activity", "lockTree", "tableStats", "progress", "waitProfile", "logs", "logFiles",
  "logGroup", "logEntry", "pgbouncers", "pgbouncer", "pgbouncerShow"}

ContentOf(h) ==
  CASE view.over = "picker" -> Padded(4 + view.lines, h)
    [] view.over \in {"query", "tupleLayout", "prompt"} -> Padded(view.lines, h)
    [] view.over = "fix" -> Drawn(IF h <= FixLines THEN FixLines ELSE h)
    [] view.over = "info" -> ScrollWindow(view.lines, h)
    [] view.over = "none" /\ (~Shown \/ (listed = <<>> /\ view.level \notin HandlesNoItems)) -> Padded(1, h)
    [] OTHER -> ScreenContent(h)
Content == ContentOf(ContentHeight)

FrameLines(content) == HeaderLines + LinesAbove + content.lines + Legend + 1 + 1

---------------------------------------------------------------------------
(* The keys, the answers, the frames.                                       *)

TextLevel == view.level \in {"describe", "statementDetail", "logEntry"}
Overview  == view.level = "maintenance"
OnRows    == ~TextLevel /\ ~Overview /\ ~Has("vacuumPane")
Presses(key) == key \in view.keys /\ narrowed \in {"off", "kept"} /\ ~armed /\ view.over = "none"
PageStep  == Greater(height - 6, 1)

UnmovedList == UNCHANGED <<view, height, listed, narrowed, armed>>

MoveTo(c, forward) ==
  /\ OnRows
  /\ LET visible == VisibleIndexes IN cursor' = SkipInertRow(listed, visible, Clamped(c, Len(visible)), forward)
  /\ UNCHANGED <<offset, follow, cursorLine>>
Scroll(off) ==
  /\ TextLevel /\ offset' = Lesser(off, FarDown)
  /\ UNCHANGED <<cursor, follow, cursorLine>>
SetCursor(c) == cursor' = Clamped(c, Len(OverviewRows)) /\ follow' = TRUE
ScrollOverview(off) == offset' = Lesser(off, FarDown) /\ UNCHANGED <<cursor, follow>>

OverviewDown ==
  IF cursor < Len(OverviewRows) - 1 THEN SetCursor(cursor + 1) /\ UNCHANGED offset ELSE ScrollOverview(offset + 1)
OverviewUp ==
  CASE cursorLine >= 0 /\ cursorLine < offset -> ScrollOverview(offset - 1)
    [] ~(cursorLine >= 0 /\ cursorLine < offset) /\ cursor > 0 -> SetCursor(cursor - 1) /\ UNCHANGED offset
    [] OTHER -> ScrollOverview(Greater(offset - 1, 0))
OverviewTop    == SetCursor(0) /\ offset' = 0
OverviewBottom == cursor' = Len(OverviewRows) - 1 /\ offset' = FarDown /\ follow' = FALSE

OnOverview(step) == Overview /\ step /\ UNCHANGED cursorLine

Down     == Presses("move") /\ UnmovedList /\ (MoveTo(cursor + 1, TRUE) \/ Scroll(offset + 1) \/ OnOverview(OverviewDown))
Up       == Presses("move") /\ UnmovedList
            /\ (MoveTo(cursor - 1, FALSE) \/ Scroll(Greater(offset - 1, 0)) \/ OnOverview(OverviewUp))
NextPage == Presses("page") /\ UnmovedList
            /\ (MoveTo(cursor + PageStep, TRUE) \/ Scroll(offset + PageStep) \/ OnOverview(ScrollOverview(offset + PageStep)))
LastPage   == Presses("page") /\ UnmovedList
            /\ (MoveTo(cursor - PageStep, FALSE) \/ Scroll(Greater(offset - PageStep, 0))
                \/ OnOverview(ScrollOverview(Greater(offset - PageStep, 0))))
Top      == Presses("ends") /\ UnmovedList /\ (MoveTo(0, TRUE) \/ Scroll(0) \/ OnOverview(OverviewTop))
Bottom   == Presses("ends") /\ UnmovedList
            /\ (MoveTo(Len(VisibleIndexes) - 1, FALSE) \/ Scroll(FarDown) \/ OnOverview(OverviewBottom))

(* The keys of the filter while it has the focus; the arrows step over no   *)
(* section line.                                                            *)
Filters(to) ==
  /\ "filter" \in view.keys /\ ~armed
  /\ narrowed' = to
  /\ UNCHANGED <<view, height, listed, armed, follow, cursorLine>>
Typing        == narrowed \in {"open", "typed"}
ResetCursor   == cursor' = 0 /\ offset' = 0
OpenFilter    == Presses("filter") /\ UNCHANGED <<cursor, offset>> /\ Filters(IF narrowed = "kept" THEN "typed" ELSE "open")
TypeQuery     == narrowed = "open" /\ Filters("typed") /\ ResetCursor
DropQuery     == narrowed = "typed" /\ Filters("open") /\ ResetCursor
CloseFilter   == narrowed = "open" /\ Filters("off") /\ UNCHANGED <<cursor, offset>>
KeepFilter    ==
  /\ narrowed = "typed" /\ Filters("kept")
  /\ cursor' = Clamped(cursor, Len(VisibleIndexes)) /\ UNCHANGED offset
EscapeFilter  == Typing /\ Filters("off") /\ ResetCursor
ArrowInFilter ==
  /\ Typing /\ Filters(narrowed) /\ UNCHANGED offset
  /\ \/ cursor > 0 /\ cursor' = cursor - 1
     \/ cursor < Len(VisibleIndexes) - 1 /\ cursor' = cursor + 1

(* A load answers with the rows it found; the cursor stays in the list and  *)
(* on a row that answers to keys.                                           *)
SettledCursor == LET visible == VisibleIndexes' IN SkipInertRow(listed', visible, Clamped(cursor, Len(visible)), FALSE)
LoadRows ==
  /\ \E rows \in view.loads : listed' = rows
  /\ UNCHANGED <<view, height, narrowed, armed, offset, follow, cursorLine>>
  /\ cursor' = IF Overview THEN Clamped(cursor, Len(OverviewRows')) ELSE SettledCursor

(* A key that asks for a confirmation, and the next key, whatever it is.    *)
Arm    == Presses("arm") /\ armed' = TRUE /\ UNCHANGED <<view, height, listed, cursor, offset, narrowed, follow, cursorLine>>
AnswerPrompt == armed /\ armed' = FALSE /\ UNCHANGED <<view, height, listed, cursor, offset, narrowed, follow, cursorLine>>
ResizeTerminal ==
  /\ \E h \in Heights : height' = h
  /\ UNCHANGED <<view, listed, cursor, offset, narrowed, armed, follow, cursorLine>>

(* A frame: the offset is what the content settled on.                      *)
DrawFrame ==
  /\ offset' = Content.first
  /\ IF Overview /\ Shown /\ view.over = "none" THEN follow' = FALSE /\ cursorLine' = CursorAt ELSE UNCHANGED <<follow, cursorLine>>
  /\ UNCHANGED <<view, height, listed, cursor, narrowed, armed>>

FrameInit ==
  /\ view \in Views /\ height \in Heights
  /\ listed \in view.loads
  /\ cursor = 0 /\ offset = 0 /\ narrowed = "off" /\ armed = FALSE /\ follow = FALSE /\ cursorLine = -1

FrameNext ==
  \/ Down \/ Up \/ NextPage \/ LastPage \/ Top \/ Bottom
  \/ OpenFilter \/ TypeQuery \/ DropQuery \/ CloseFilter \/ KeepFilter \/ EscapeFilter \/ ArrowInFilter
  \/ LoadRows \/ Arm \/ AnswerPrompt \/ ResizeTerminal \/ DrawFrame

---------------------------------------------------------------------------
(* How many lines of content a screen needs to keep to its height.          *)
Room ==
  CASE view.over = "picker" -> 4 + view.lines
    [] view.over \in {"query", "tupleLayout", "prompt"} -> view.lines
    [] view.over = "fix" -> FixLines
    [] view.over = "none" /\ view.level = "snapshots" -> 7 + Opt(armed, 1)
    [] view.over = "none" /\ view.level = "parts" /\ Has("vacuumPane") -> 2 + VacuumPaneMin
    [] view.over = "none" /\ view.level \in {"logFiles", "pgbouncers"} /\ listed = <<>> -> 5
    [] view.over = "none" /\ view.level = "samples" -> IF Has("explain") THEN 2 * view.lines + 8 ELSE 5
    [] view.over = "none" /\ view.level \in {"tools", "pgbouncer", "bufferDetail", "waitProfile"} ->
         Greater(Len(listed) + view.lines, 1)
    [] OTHER -> 4
TallEnough == height >= 8 /\ ContentHeight >= Room

(* The content fills exactly the lines the banners, the legend and the help *)
(* row leave of the terminal, or the help row and the footer are clipped;   *)
(* one screen is a line too tall, the captured values with their hint.      *)
Hinted ==
  view.over = "none" /\ view.level = "samples" /\ Shown /\ listed # <<>> /\ Has("explainHint") /\ ~Has("explain")
FrameFits(content) == TallEnough => FrameLines(content) = height + Opt(Hinted, 1)

(* However far it was scrolled, a text fills its window: none of it is out   *)
(* of reach, and the window never runs past its end.                        *)
TextReached(content) ==
  TallEnough /\ (view.over = "info" \/ (TextLevel /\ Shown /\ view.over = "none"))
    => content.end - content.first = Lesser(ContentHeight, view.lines)

(* Whatever moved the cursor, the list or the window, the row it is on is   *)
(* drawn, with its second line; and it rests on no line that answers to no  *)
(* key while there is another, unless the filter's own arrows put it there. *)
CursorInSight(content) ==
  /\ TallEnough /\ OnRows /\ Shown /\ ~Has("readErr") /\ view.over = "none" /\ VisibleIndexes # <<>>
       /\ view.level \notin {"tools", "pgbouncer", "bufferDetail", "waitProfile"}
     => cursor \in content.first..(content.end - 1)
  /\ TallEnough /\ Overview /\ Shown /\ follow => content.first <= CursorAt /\ CursorAt + CursorSpan <= content.end
  /\ OnRows /\ "filter" \notin view.keys /\ listed # <<>> => ~InertRow(listed, VisibleIndexes[cursor + 1])
=============================================================================
