-------------------------------- MODULE LogPanes --------------------------------
(***************************************************************************)
(* The log analyzer's screens: the panes over a report, a stack of screens *)
(* opened from them, and the refreshes that replace the report under both. *)
(*                                                                         *)
(* A row is a pair: the header of a section, a group by its key, an entry  *)
(* by its place in the log, or a set of parameters.  Sorting by a column   *)
(* the user chose is the generic table's; here a pane has its own order,   *)
(* either way.                                                             *)
(***************************************************************************)
EXTENDS LogGroups

CONSTANTS
  LogLines,    \* bound: the entries of the log
  Windows,     \* bound: <<first, last>> of the windows read of it
  Depth,       \* bound: screens opened from the panes
  PaneSessions, \* bound: the keys that are used together
  NoLog        \* nothing loaded, no filter, no category

VARIABLES
  logReport,   \* logState.report: of the screens above the panes, and of the panes but for
               \* a load that failed
  pane,        \* the panes' screen
  children,    \* the screens above it, the last one shown
  paneKeys

paneVars == <<logReport, pane, children, paneKeys>>

Views == <<"groups", "timeline", "slow", "stats">>

-----------------------------------------------------------------------------
(* What the rows are built from.  An entry is read at its place; an        *)
(* attachment that found no line to go to says that it is at the start.    *)
Window(w) == Aggregate([i \in 1..(w[2] - w[1] + 1) |-> LogLines[w[1] + i - 1] @@ [at |-> w[1] + i - 1]])
Reports == {Window(w) : w \in Windows}
Off(e) == IF e.orphan THEN 0 ELSE e.at

EntryRow(e)  == <<"entry", e.at>>
GroupRow(g)  == <<"group", g.key>>
Header(cat)  == <<"section", cat>>
ParamRow(row) == <<"params", row.sample>>

Wanted(p, cat) == p.cat = NoLog \/ p.cat = cat

GroupLess(a, b, p) ==
  LET less == CASE p.sort = "last"  -> a.last < b.last
                [] p.sort = "name"  -> a.key[2] < b.key[2]
                [] p.sort = "count" -> a.count < b.count \/ (a.count = b.count /\ a.last < b.last)
  IN  IF p.desc THEN ~less ELSE less

buildLogGroupItems(report, p) ==
  LET of(cat) == SelectSeq(report.groups, LAMBDA g : Wanted(p, g.cat) /\ (p.flat \/ g.cat = cat))
      rows(cat) == LET own == SortedBy(of(cat), LAMBDA a, b : GroupLess(a, b, p))
                   IN  [i \in DOMAIN own |-> GroupRow(own[i])]
      section(cat) == CASE of(cat) = <<>>     -> <<>>
                        [] cat \in p.folded   -> <<Header(cat)>>
                        [] OTHER              -> <<Header(cat)>> \o rows(cat)
  IN  IF p.flat THEN rows(NoLog)
      ELSE FoldLeft(LAMBDA done, cat : done \o section(cat), <<>>, Categories)

(* A line without a time shows a dash, which sorts after every digit.      *)
Shown(time) == IF time = NoTime THEN HistMax * Last(HistBuckets) ELSE time

rebuildLogTimeline(report, p) ==
  LET key(e) == IF p.view = "slow" THEN e.ms ELSE Shown(e.time)
      mine == SelectSeq(report.entries,
                        LAMBDA e : /\ p.view = "slow" => classify(e) = "slow"
                                   /\ Wanted(p, classify(e))
                                   /\ p.view = "stats" => e.head = "stats")
      own == SortedBy(mine, LAMBDA a, b : IF p.desc THEN ~(key(a) < key(b)) ELSE key(a) < key(b))
  IN  [i \in DOMAIN own |-> EntryRow(own[i])]

Matches(report, row, f) ==
  \/ f = NoLog
  \/ row[1] = "group" /\ row[2][2] = f
  \/ row[1] = "entry" /\ LogLines[row[2]].text = f

visible(report, p) == SelectSeq(p.rows, LAMBDA row : Matches(report, row, p.filter))

Clamp(at, rows) == IF rows = <<>> THEN 1 ELSE IF at > Len(rows) THEN Len(rows) ELSE at
PlaceOf(rows, Test(_), otherwise) ==
  LET at == SelectInSeq(rows, Test) IN IF at = 0 THEN otherwise ELSE at

(* A table pane opened for the first time takes its own order, from the    *)
(* top; after that it takes the direction it finds.                        *)
rebuildLogItems(report, p) ==
  LET fresh == p.view # "groups" /\ p.view \notin p.sorted
      q == IF fresh THEN [p EXCEPT !.desc = TRUE, !.sorted = @ \cup {p.view}] ELSE p
      r == [q EXCEPT !.rows = IF p.view = "groups" THEN buildLogGroupItems(report, q)
                              ELSE rebuildLogTimeline(report, q)]
  IN  IF report = NoLog THEN [p EXCEPT !.rows = <<>>]
      ELSE [r EXCEPT !.cursor = Clamp(@, visible(report, r))]

resetCursor(p) == [p EXCEPT !.cursor = 1]
skipLogHeader(report, p) ==
  LET at == SelectInSubSeq(visible(report, p), p.cursor, Len(visible(report, p)),
                           LAMBDA row : row[1] # "section")
  IN  IF at = 0 THEN p ELSE [p EXCEPT !.cursor = at]
FromTop(report, p) == skipLogHeader(report, resetCursor(p))
Highlighted(report, p) ==
  IF p.cursor \in DOMAIN visible(report, p) THEN visible(report, p)[p.cursor] ELSE NoLog

-----------------------------------------------------------------------------
(* The screen of a group: its samples, or its entries by their parameters, *)
(* or all the entries of one set of parameters.                            *)
ByTime(entries, desc) ==
  SortedBy(entries, LAMBDA a, b : IF a.time = b.time THEN a.text < b.text
                                  ELSE IF desc THEN a.time > b.time ELSE a.time < b.time)

CurrentGroup(report, g) == IF groupIndex(report, g.key) = 0 THEN g ELSE report.groups[groupIndex(report, g.key)]

(* A screen of no key has the empty one.                                   *)
(* A group that is not in the report is -1, and has no parameters.         *)
Members(report, g, c) ==
  SelectSeq(report.entries, LAMBDA e : /\ groupIndex(report, g.key) # 0
                                       /\ Fingerprint(e) = g.key /\ ParamKey(e, c.paramFirst) = c.paramKey)
Samples(report, g) ==
  LET in == SelectSeq(g.samples, LAMBDA i : i <= Len(report.entries))
  IN  [i \in DOMAIN in |-> report.entries[in[i]]]

ParamRows(report, g, c) ==
  LET all == IF groupIndex(report, g.key) = 0 THEN <<>> ELSE GroupParams(report, g.key, c.mode = "first")
      own == SortedBy(all, LAMBDA a, b : IF c.desc THEN ~(a.count < b.count) ELSE a.count < b.count)
  IN  [i \in DOMAIN own |-> ParamRow(own[i])]

rebuildLogChild(report, c) ==
  LET g == CurrentGroup(report, c.group)
      d == [c EXCEPT !.group = g,
                     !.desc  = IF c.mode # "entries" /\ ~c.tabled THEN TRUE ELSE @,
                     !.tabled = c.mode # "entries"]
      entries == ByTime(IF c.paramKey \in {NoLog, EmptyKey} THEN Samples(report, g) ELSE Members(report, g, c), d.desc)
      r == [d EXCEPT !.rows = IF c.mode # "entries" THEN ParamRows(report, g, d)
                              ELSE [i \in DOMAIN entries |-> EntryRow(entries[i])]]
  IN  IF c.level # "group" \/ report = NoLog THEN c
      ELSE [r EXCEPT !.cursor = Clamp(@, r.rows)]

-----------------------------------------------------------------------------
PaneReport == IF pane.lost THEN NoLog ELSE logReport

PaneInit ==
  /\ logReport = NoLog /\ children = <<>> /\ paneKeys \in PaneSessions
  /\ pane = [view |-> "groups", flat |-> FALSE, cat |-> NoLog, folded |-> {}, sort |-> "count", desc |-> TRUE,
             sorted |-> {}, filter |-> NoLog, rows |-> <<>>, cursor |-> 1, lost |-> TRUE]

TopChild == Last(children)
SetTop(c) == children' = [children EXCEPT ![Len(children)] = c]

(* Mutant: the cursor stays where it is, whatever the counts have become.  *)
SameRow(report, p, row) == p

Follow(report, p, row) ==
  [p EXCEPT !.cursor = PlaceOf(visible(report, p), LAMBDA r : r = row, @)]

(* A report lands: of a window asked for, or of a refresh, which keeps the *)
(* highlighted row of the groups.  Only the screen on top is rebuilt.      *)
ShowReport(report, refresh) ==
  LET p   == rebuildLogItems(report, [pane EXCEPT !.lost = FALSE])
      row == Highlighted(PaneReport, pane)
  IN  /\ refresh => logReport # NoLog
      /\ logReport' = report
      /\ pane' = CASE refresh /\ p.view = "groups" /\ row # NoLog -> Follow(report, p, row)
                   [] refresh /\ ~(p.view = "groups" /\ row # NoLog) -> p
                   [] ~refresh -> FromTop(report, p)
      /\ IF children = <<>> THEN UNCHANGED children ELSE SetTop(rebuildLogChild(report, TopChild))
      /\ UNCHANGED paneKeys

LoadFails ==
  /\ pane' = [pane EXCEPT !.lost = TRUE, !.rows = <<>>]
  /\ UNCHANGED <<logReport, children, paneKeys>>

-----------------------------------------------------------------------------
(* The keys of the panes.                                                  *)
OnPane(key) == children = <<>> /\ key \in paneKeys /\ UNCHANGED <<logReport, children, paneKeys>>

LogGroupMode ==
  LET p == [pane EXCEPT !.flat = ~@]
  IN  /\ OnPane("mode")
      /\ pane' = IF p.view # "groups" THEN p ELSE skipLogHeader(PaneReport, rebuildLogItems(PaneReport, p))

NextView == CASE pane.view = "groups"   -> "timeline"
              [] pane.view = "timeline" -> "slow"
              [] pane.view = "slow"     -> IF PaneReport # NoLog /\ PaneReport.stats > 0 THEN "stats" ELSE "groups"
              [] pane.view = "stats"    -> "groups"

LogPane ==
  LET p == [pane EXCEPT !.view = NextView]
      q == IF NextView = "groups" THEN [p EXCEPT !.sort = "count", !.desc = TRUE] ELSE p
  IN  OnPane("pane") /\ pane' = FromTop(PaneReport, rebuildLogItems(PaneReport, q))

NarrowCategory ==
  LET at == IF pane.cat = NoLog THEN "all" ELSE pane.cat
      to == IF PaneReport = NoLog THEN at ELSE nextLogCategory(PaneReport, at)
      p  == [pane EXCEPT !.cat = IF to = "all" THEN NoLog ELSE to]
  IN  OnPane("category") /\ pane' = FromTop(PaneReport, rebuildLogItems(PaneReport, p))

cycleSort(sort) ==
  /\ OnPane("sort") /\ pane.view = "groups" /\ sort # pane.sort
  /\ pane' = rebuildLogItems(PaneReport, [pane EXCEPT !.sort = sort, !.desc = sort # "name"])

ReversePane == OnPane("sort") /\ pane' = rebuildLogItems(PaneReport, [pane EXCEPT !.desc = ~@])

FilterPane(f) == OnPane("filter") /\ pane' = resetCursor([pane EXCEPT !.filter = f])

MovePane(by) ==
  /\ OnPane("move") /\ pane.cursor + by \in DOMAIN visible(PaneReport, pane)
  /\ pane' = [pane EXCEPT !.cursor = @ + by]

toggleLogSection ==
  LET header == Highlighted(PaneReport, pane)
      p == [pane EXCEPT !.folded = IF header[2] \in @ THEN @ \ {header[2]} ELSE @ \cup {header[2]}]
  IN  /\ header # NoLog /\ header[1] = "section"
      /\ OnPane("fold") /\ pane' = Follow(PaneReport, rebuildLogItems(PaneReport, p), header)

-----------------------------------------------------------------------------
(* The screens above: pushed with the report of the one below, popped as   *)
(* they are.                                                               *)
Screen(level) ==
  [level |-> level, group |-> NoLog, entry |-> NoLog, mode |-> "entries", paramKey |-> NoLog,
   paramFirst |-> FALSE, desc |-> TRUE, tabled |-> FALSE, rows |-> <<>>, cursor |-> 1]

Push(c) ==
  /\ Len(children) < Depth /\ "drill" \in paneKeys
  /\ children' = Append(children, rebuildLogChild(logReport, c))
  /\ UNCHANGED <<logReport, pane, paneKeys>>

logGroupScreen(g) == [Screen("group") EXCEPT !.group = g]
logEntryScreen(e) == [Screen("entry") EXCEPT !.entry = e]
EntryAt(at) == LogLines[at] @@ [at |-> at]

DrillPane ==
  LET row == Highlighted(PaneReport, pane)
  IN  /\ children = <<>> /\ row # NoLog /\ row[1] # "section"
      /\ Push(IF row[1] = "entry" THEN logEntryScreen(EntryAt(row[2]))
              ELSE logGroupScreen(PaneReport.groups[groupIndex(PaneReport, row[2])]))

OnGroup == children # <<>> /\ TopChild.level = "group" /\ TopChild.cursor \in DOMAIN TopChild.rows

(* logEntryOf: an entry itself, or the place in the report of a row of     *)
(* parameters.                                                             *)
EntryOf(row) ==
  CASE row[1] = "entry"  -> EntryAt(row[2])
    [] row[1] = "params" -> IF row[2] <= Len(logReport.entries) THEN logReport.entries[row[2]] ELSE NoLog

DrillGroup ==
  LET row == TopChild.rows[TopChild.cursor]
      e == EntryOf(row)
      first == TopChild.mode = "first"
  IN  /\ OnGroup /\ e # NoLog
      /\ Push(IF row[1] = "entry" THEN logEntryScreen(e)
              ELSE [logGroupScreen(TopChild.group) EXCEPT !.paramKey = ParamKey(e, first), !.paramFirst = first])

NextMode == [entries |-> "all", all |-> "first", first |-> "entries"]
LogParams ==
  LET mode == NextMode[TopChild.mode]
      c == [TopChild EXCEPT !.mode = mode, !.desc = IF mode = "entries" THEN TRUE ELSE @]
  IN  /\ children # <<>> /\ TopChild.level = "group" /\ "params" \in paneKeys
      /\ SetTop([rebuildLogChild(logReport, c) EXCEPT !.cursor = 1])
      /\ UNCHANGED <<logReport, pane, paneKeys>>

MoveChild(by) ==
  /\ OnGroup /\ "move" \in paneKeys /\ TopChild.cursor + by \in DOMAIN TopChild.rows
  /\ SetTop([TopChild EXCEPT !.cursor = @ + by])
  /\ UNCHANGED <<logReport, pane, paneKeys>>

BackToBelow ==
  /\ children # <<>> /\ children' = Front(children)
  /\ UNCHANGED <<logReport, pane, paneKeys>>

(* j: the panes again, on the line in the timeline.                        *)
(* Mutant: a category that hides the line stays.                           *)
StillNarrowed(p, e) == p.cat
Widened(p, e) == IF p.cat # NoLog /\ classify(e) # p.cat THEN NoLog ELSE p.cat

JumpsTo == IF TopChild.level = "entry" THEN TopChild.entry
           ELSE IF OnGroup THEN EntryOf(TopChild.rows[TopChild.cursor]) ELSE NoLog

jumpToLogEntry ==
  LET e == JumpsTo
      p == rebuildLogItems(PaneReport, [pane EXCEPT !.filter = NoLog, !.cat = Widened(pane, e), !.view = "timeline"])
      at(row) == Off(EntryAt(row[2])) = Off(e)
  IN  /\ children # <<>> /\ "jump" \in paneKeys /\ e # NoLog
      /\ children' = <<>>
      /\ pane' = [p EXCEPT !.cursor = PlaceOf(p.rows, at, @)]
      /\ UNCHANGED <<logReport, paneKeys>>

PaneNext ==
  \/ \E report \in Reports, refresh \in BOOLEAN : ShowReport(report, refresh)
  \/ LoadFails
  \/ LogGroupMode \/ LogPane \/ NarrowCategory \/ ReversePane \/ toggleLogSection
  \/ \E sort \in {"count", "last", "name"} : cycleSort(sort)
  \/ \E f \in {NoLog} \cup {LogLines[i].text : i \in DOMAIN LogLines} : FilterPane(f)
  \/ \E by \in {-1, 1} : MovePane(by) \/ MoveChild(by)
  \/ DrillPane \/ DrillGroup \/ LogParams \/ BackToBelow \/ jumpToLogEntry

PaneSpec == PaneInit /\ [][PaneNext]_paneVars

-----------------------------------------------------------------------------
SoundReports == {report \in Reports : GroupsSound(report)}

OfItsGroup ==
  \A i \in DOMAIN TopChild.rows :
    TopChild.rows[i][1] = "entry" => Fingerprint(EntryAt(TopChild.rows[i][2])) = TopChild.group.key
OfItsKey ==
  \A i \in DOMAIN TopChild.rows :
    TopChild.rows[i][1] = "entry" /\ TopChild.paramKey # NoLog =>
      ParamKey(EntryAt(TopChild.rows[i][2]), TopChild.paramFirst) = TopChild.paramKey

(* What the panes list is what the report holds under the view, whatever   *)
(* the order of keys and refreshes: every group or entry that is wanted    *)
(* exactly once, none that is not; the cursor is on one.  The screen of  *)
(* a group that no window is without lists lines of that group only.       *)
PaneSound ==
  /\ logReport \in {NoLog} \cup SoundReports
  /\ PaneReport = NoLog => pane.rows = <<>>
  /\ PaneReport # NoLog /\ pane.view = "groups" =>
       \A k \in DOMAIN PaneReport.groups :
         LET g == PaneReport.groups[k]
             hidden == ~pane.flat /\ g.cat \in pane.folded
         IN  Cardinality({i \in DOMAIN pane.rows : pane.rows[i] = GroupRow(g)})
               = IF Wanted(pane, g.cat) /\ ~hidden THEN 1 ELSE 0
  /\ PaneReport # NoLog /\ pane.view # "groups" =>
       /\ IsInjective(pane.rows)
       /\ {pane.rows[i][2] : i \in DOMAIN pane.rows}
            = {e.at : e \in {x \in ToSet(PaneReport.entries) :
                              /\ Wanted(pane, classify(x)) /\ (pane.view = "slow" => classify(x) = "slow")
                              /\ (pane.view = "stats" => x.head = "stats")}}
  /\ PaneReport # NoLog => pane.cursor \in 1..Max({1, Len(pane.rows)})
  /\ OnGroup /\ (\A report \in Reports : groupIndex(report, TopChild.group.key) # 0) =>
       OfItsGroup /\ (TopChild.paramKey # EmptyKey => OfItsKey)

(* A refresh keeps the highlighted group or section under the cursor,      *)
(* however the counts reorder them, while it is still listed; and a jump   *)
(* ends on the line it was asked for, when the window still has it and it  *)
(* says where it is.                                                       *)
CursorFollows ==
  [][/\ (children' = children /\ logReport' # logReport /\ pane.view = "groups" /\ Highlighted(PaneReport, pane) # NoLog
          /\ \E report \in Reports : ShowReport(report, TRUE)) =>
         \/ Highlighted(PaneReport, pane)' = Highlighted(PaneReport, pane)
         \/ ~Contains(pane'.rows, Highlighted(PaneReport, pane))
     /\ jumpToLogEntry =>
         \/ PaneReport = NoLog \/ JumpsTo.orphan \/ JumpsTo.at \notin {e.at : e \in ToSet(PaneReport.entries)}
         \/ pane'.rows[pane'.cursor] = EntryRow(JumpsTo)]_paneVars

-----------------------------------------------------------------------------
(* What the repository says and the code does not keep.                    *)

(* rebuildLogChild "fills a levelLogGroup screen's rows from its group's   *)
(* sample entries": samples are places in a report, and the group may be   *)
(* of another.                                                             *)
SamplesOfGroup == OnGroup => OfItsGroup

(* "A parameter drill-down lists every member with that key": the key of   *)
(* an empty parameter is that of no drill-down.                            *)
MembersWithKey == OnGroup => OfItsKey
=============================================================================
