--------------------------------- MODULE Keys ---------------------------------
(***************************************************************************)
(* The keys: which bindings applyContext enables on a screen, what the     *)
(* footer says of them, and what handleKey does when one is pressed.       *)
(*                                                                         *)
(* The two sides are written apart (keys.go and keys_enter.go against the  *)
(* key and drill handlers) and are kept in step by hand.  A place is a     *)
(* loaded screen with the cursor on one of its rows; what stands for the   *)
(* row's data is its kind.  An effect is the screen that opens, or a name  *)
(* for what happens in place.                                              *)
(***************************************************************************)
EXTENDS Naturals, FiniteSets

VARIABLES
  place,  \* the screen on top and the row under its cursor
  did     \* the last key: its binding and what it did

keysVars == <<place, did>>

(* ----- Places ---------------------------------------------------------- *)

At(level, modes, rows) == [level : {level}, mode : modes, row : rows]

Plain(levels) == [level : levels, mode : {"plain"}, row : {"row"}]

Tree == {"disk", "buffers", "pages", "tables"}  \* the tools behind a database

DiskPlaces ==
  Plain({"tableStats", "columns", "bufferDetail", "shmem", "heapPages"})
    \cup At("tools", {"plain"}, Tree \cup {"queries", "diagnostics", "wal", "overview", "logs", "log file", "pgbouncer", "activity"})
    \cup At("databases", Tree \cup {"queries", "diagnostics"}, {"database"})
    \cup At("databases", {"diagnostics"}, {"all databases"})
    \cup At("schemas", Tree, {"row"})
    \cup At("tables", {"disk"}, {"row"})
    \cup At("parts", {"idle", "rebuilding"}, {"heap", "toast", "index", "bloated index", "hash index"})
    \cup At("bufferTables", {"tables", "relations"}, {"row"}) \cup At("bufferTables", {"blocked"}, {"none"})
    \cup At("describe", {"plain"}, {"table", "index"})

PagePlaces ==
  At("heapTuples", {"table", "toast"}, {"tuple", "bodiless", "redirect", "stray redirect", "dead"})
    \cup At("relations", {"plain"}, {"table", "toast", "btree", "gist", "brin", "gin"})
    \cup At("indexPages", {"btree"}, {"page"}) \cup At("indexPages", {"gist"}, {"page", "deleted", "empty"})
    \cup At("indexPages", {"brin"}, {"regular", "meta"}) \cup At("indexPages", {"gin"}, {"data leaf", "entry"})
    \cup At("indexTuples", {"gin", "brin"}, {"row"})
    \cup At("indexTuples", {"gist internal"}, {"downlink", "malformed downlink"})
    \cup At("indexTuples", {"gist leaf"}, {"live", "vacuumed"})
    \cup At("indexTuples", {"btree internal"}, {"high key", "downlink", "malformed downlink"})
    \cup At("indexTuples", {"btree leaf"}, {"live", "vacuumed", "posting", "member", "vacuumed member"})

ToolPlaces ==
  Plain({"walRecords", "walBlock", "snapshots", "statementResult", "settings", "lockTree", "waitProfile",
         "logFiles", "pgbouncers", "pgbouncerShow"})
    \cup At("wal", {"plain"}, {"resource manager", "relation", "section"})
    \cup At("walBlocks", {"record", "relation"}, {"resolved", "unresolved"})
    \cup At("statements", {"queries", "grouped"}, {"row"})
    \cup At("statementDetail", {"callable", "explaining", "no call", "writes"}, {"values", "no values"})
    \cup At("statementSamples", {"one parameter", "more parameters", "with call", "writes"}, {"value", "cut value"})
    \cup At("maintenance", {"plain"}, {"reset", "missing", "to diagnostic", "to lock tree", "to activity", "to settings", "aimless"})
    \cup At("activity", {"plain"}, {"query", "unidentified"}) \cup At("progress", {"plain"}, {"relation", "no relation"})
    \cup At("diagnostics", {"plain"}, {"per database", "cluster"}) \cup At("diagnosticResult", {"fixes", "no fixes"}, {"fixable", "fine"})
    \cup At("logs", {"groups"}, {"section", "statement", "no statement", "rule"})
    \cup At("logs", {"table"}, {"statement", "no statement"})
    \cup At("logGroup", {"entries", "parameters"}, {"statement", "no statement"})
    \cup At("logEntry", {"plain"}, {"statement", "no statement"})
    \cup At("pgbouncer", {"plain"}, {"show", "log"})

Places == DiskPlaces \cup PagePlaces \cup ToolPlaces

(* ----- What is enabled ------------------------------------------------- *)

(* defaultKeys: the key of each binding that handleKey dispatches.         *)
KeyOf ==
  [Enter |-> "enter", Back |-> "esc", SortNext |-> "right", SortPrev |-> "left", ReverseSort |-> "r", Refresh |-> "space",
   Filter |-> "/", Help |-> "?", Quit |-> "ctrl+c", Export |-> "e", Install |-> "i", Describe |-> "d", DiskUsage |-> "u",
   ShowQuery |-> "s", Seek |-> "s", Settings |-> "s", ToggleRefresh |-> "t", TopQueries |-> "t", Verbose |-> "v",
   Params |-> "p", PageInspect |-> "p", Progress |-> "p", Execute |-> "E", Columns |-> "C", GinNextLeaf |-> "n",
   Rebaseline |-> "R", ResetStatements |-> "X", SaveSnapshot |-> "S", Snapshots |-> "L", DeleteSnapshot |-> "D",
   StmtView |-> "tab", BufSplit |-> "tab", LogPane |-> "tab", LogParams |-> "tab", LogGroupMode |-> "m", ShmemMap |-> "m",
   LogWindow |-> "w", JumpWAL |-> "w", LogJump |-> "j", JumpActivity |-> "a", JumpReplication |-> "r", JumpIO |-> "o",
   ActivityFilter |-> "f", CancelBackend |-> "k", TerminateBackend |-> "x", LockTree |-> "b", WaitProfile |-> "W",
   OpenLog |-> "l"]

Bindings == DOMAIN KeyOf

PgbLevels == {"pgbouncers", "pgbouncer", "pgbouncerShow"}
LogLevels == {"logFiles", "logs", "logGroup", "logEntry"}

describeHasHeap(s) == s.level = "describe" /\ s.row = "table"
logLinkFor(s)      == s.level \in {"wal", "statements", "statementDetail", "maintenance"}
PicksColumns(s) ==
  \/ s.level \in {"statements", "activity", "tableStats", "diagnosticResult", "pgbouncerShow"}
  \/ s.level = "logs" /\ s.mode = "table"
  \/ s.level = "heapTuples" /\ s.mode # "toast"

reindexableRow(s) == s.level = "parts" /\ s.mode = "idle" /\ s.row = "bloated index"

(* enterLabel: the effects the label of Enter stands for, {} where the key *)
(* is disabled.                                                            *)
indexTupleEnterLabel(s) ==
  CASE s.mode = "gin" -> {}
    [] s.mode = "brin" -> {"heapPages"}
    [] s.mode = "gist internal" \/ (s.mode = "btree internal" /\ s.row # "posting") -> {"indexTuples"}
    [] s.row = "posting" -> {"fold"}
    [] OTHER -> {"heapTuples"}

(* The defect of a reset row that forgets its extension may be missing.    *)
LabelsMissing(s) == IF s.row \in {"reset", "missing"} THEN {"arm reset"} ELSE {}

maintEnterLabel(s) ==
  CASE s.row \in {"missing", "aimless"} -> {}
    [] s.row = "reset" -> {"arm reset"}
    [] s.row = "to diagnostic" -> {"diagnosticResult"}
    [] s.row = "to lock tree" -> {"lockTree"}
    [] s.row = "to activity" -> {"activity"}
    [] s.row = "to settings" -> {"settings"}

enterLabel(s) ==
  CASE s.level = "tools" -> {"databases", "diagnostics", "wal", "maintenance", "logFiles", "logs", "pgbouncers", "activity"}
    [] s.level = "databases" -> {CASE s.mode = "diagnostics" -> "diagnosticResult" [] s.mode = "queries" -> "statements" [] OTHER -> "schemas"}
    [] s.level = "schemas" -> {CASE s.mode = "buffers" -> "bufferTables" [] s.mode = "pages" -> "relations" [] s.mode = "tables" -> "tableStats" [] OTHER -> "tables"}
    [] s.level = "tables" \/ s.level = "tableStats" -> {"parts"}
    [] s.level = "parts" -> IF reindexableRow(s) THEN {"arm reindex"} ELSE IF s.row = "heap" THEN {"columns"} ELSE {}
    [] s.level = "bufferTables" -> {"bufferDetail"}
    [] s.level = "heapPages" -> {"heapTuples"}
    [] s.level = "heapTuples" -> IF s.row = "dead" THEN {} ELSE IF s.row \in {"redirect", "stray redirect"} THEN {"hop"} ELSE {"byte layout"}
    [] s.level = "relations" -> IF s.row \in {"table", "toast"} THEN {"heapPages"} ELSE {"indexPages"}
    [] s.level = "indexPages" -> {"indexTuples"}
    [] s.level = "indexTuples" -> indexTupleEnterLabel(s)
    [] s.level = "wal" -> CASE s.row = "relation" -> {"walBlocks"} [] s.row = "resource manager" -> {"walRecords"} [] OTHER -> {}
    [] s.level = "walRecords" -> {"walBlocks"}
    [] s.level = "walBlocks" -> {"walBlock"}
    [] s.level = "statements" -> IF s.mode = "grouped" THEN {"narrow"} ELSE {"statementDetail"}
    [] s.level = "statementDetail" -> IF s.mode \in {"callable", "explaining"} THEN {"analyze"} ELSE {}
    [] s.level = "statementSamples" -> IF s.mode \in {"one parameter", "with call"} THEN {"analyze"} ELSE {}
    [] s.level = "snapshots" -> {"window"}
    [] s.level = "maintenance" -> maintEnterLabel(s)
    [] s.level = "activity" -> {"statementDetail"}
    [] s.level = "diagnostics" -> {"diagnosticResult", "databases"}
    [] s.level = "diagnosticResult" -> IF s.mode = "fixes" THEN {"fix"} ELSE {}
    [] s.level = "logFiles" -> {"logs"}
    [] s.level = "logs" -> CASE s.mode = "table" -> {"logEntry"} [] s.row = "section" -> {"fold"} [] s.row = "rule" -> {} [] OTHER -> {"logGroup"}
    [] s.level = "logGroup" -> IF s.mode = "parameters" THEN {"logGroup"} ELSE {"logEntry"}
    [] s.level = "pgbouncers" -> {"pgbouncer"}
    [] s.level = "pgbouncer" -> IF s.row = "log" THEN {"logs"} ELSE {"pgbouncerShow"}
    [] OTHER -> {}

(* applyContext.                                                           *)
IsEnabled(b, s) ==
  CASE b = "Enter" -> enterLabel(s) # {}
    [] b \in {"SortNext", "SortPrev", "ReverseSort"} -> s.level # "progress"
    [] b = "ShowQuery" -> s.level \in {"diagnosticResult", "diagnostics"}
    [] b \in {"Rebaseline", "ResetStatements", "Snapshots", "StmtView"} -> s.level = "statements"
    [] b = "BufSplit" -> s.level = "bufferTables" /\ s.mode # "blocked"
    [] b = "Columns" -> PicksColumns(s)
    [] b = "ToggleRefresh" -> s.level \in {"statements", "statementDetail", "activity", "progress", "maintenance"} \cup LogLevels \cup PgbLevels
    [] b = "OpenLog" -> s.level \in PgbLevels \ {"pgbouncerShow"} \/ logLinkFor(s)
    [] b \in {"SaveSnapshot", "DiskUsage"} -> s.level \in {"statements", "statementDetail"}
    [] b = "Params" -> s.level = "statementDetail" /\ s.row = "values"
    [] b = "Execute" -> s.level = "statementDetail"
    [] b = "Verbose" -> s.level \in {"statementDetail", "parts", "activity", "maintenance"}
    [] b = "DeleteSnapshot" -> s.level = "snapshots"
    [] b = "Install" -> s.mode = "blocked"
    [] b = "ActivityFilter" -> s.level \in {"activity", "diagnostics", "logs"}
    [] b \in {"CancelBackend", "TerminateBackend"} -> s.level \in {"activity", "lockTree"}
    [] b \in {"LockTree", "WaitProfile"} -> s.level = "activity"
    [] b \in {"LogGroupMode", "LogPane", "LogWindow"} -> s.level = "logs"
    [] b = "LogJump" -> s.level \in {"logGroup", "logEntry"}
    [] b = "LogParams" -> s.level = "logGroup"
    [] b = "ShmemMap" -> s.level = "bufferTables"
    [] b = "PageInspect" -> s.level \in {"parts", "bufferTables", "bufferDetail"} \/ describeHasHeap(s)
    [] b = "TopQueries" -> describeHasHeap(s)
    [] b \in {"JumpActivity", "JumpWAL", "JumpReplication", "JumpIO", "Settings"} -> s.level = "maintenance"
    [] b = "Progress" -> s.level \in {"maintenance", "activity"}
    [] b = "Seek" -> s.level = "indexTuples" /\ s.mode \in {"brin", "btree internal", "btree leaf"}
    [] b = "GinNextLeaf" -> s.level = "indexPages" /\ s.mode = "gin"
    [] OTHER -> TRUE

Enabled(s) == {b \in Bindings : IsEnabled(b, s)}

(* walDescribeTarget and logDescribeTarget, and the levels where d always  *)
(* has a relation.                                                         *)
WalRel(s) == (s.level = "wal" /\ s.row = "relation") \/ (s.level = "walBlocks" /\ s.row = "resolved")

DescribeTarget(s) ==
  \/ WalRel(s)
  \/ s.level \in LogLevels /\ s.row = "statement"
  \/ s.level = "progress" /\ s.row = "relation"
  \/ s.level \in {"tables", "columns", "parts", "tableStats", "heapPages", "heapTuples", "relations",
                  "indexPages", "indexTuples", "bufferDetail"}
  \/ s.level = "bufferTables" /\ s.mode # "blocked"

(* ShortHelp.                                                              *)
Footer(s) ==
  LET always == {"Enter", "Back", "Filter", "SortPrev", "SortNext", "ReverseSort", "Refresh", "LogPane", "LogGroupMode",
                 "LogWindow", "StmtView", "BufSplit", "LogJump", "LogParams", "ShmemMap", "PageInspect", "TopQueries",
                 "LockTree", "WaitProfile", "ShowQuery", "GinNextLeaf"}
      flagged == (IF s.level \in {"activity", "progress", "logs"} \cup PgbLevels THEN {"ToggleRefresh"} ELSE {})
                   \cup (IF s.level # "maintenance" THEN {"OpenLog"} ELSE {})
                   \cup (IF s.level # "statements" THEN {"Columns"} ELSE {})
                   \cup (IF s.level = "activity" THEN {"Progress"} ELSE {})
                   \cup (IF s.level \in {"progress", "logGroup", "logEntry"} \/ WalRel(s) THEN {"Describe"} ELSE {})
  IN Enabled(s) \cap (always \cup flagged)

(* ----- What a key does ------------------------------------------------- *)

toolEntryScreen(t) ==
  CASE t = "diagnostics" -> "diagnostics" [] t = "wal" -> "wal" [] t = "overview" -> "maintenance" [] t = "logs" -> "logFiles"
    [] t = "log file" -> "logs" [] t = "pgbouncer" -> "pgbouncers" [] t = "activity" -> "activity" [] OTHER -> "databases"

(* What opens on top: the snapshot browser covers the table it was opened  *)
(* with.                                                                   *)
databaseChildScreens(t) == IF t = "queries" THEN "statements" ELSE "schemas"
schemaChildScreen(t)    == CASE t = "buffers" -> "bufferTables" [] t = "pages" -> "relations" [] t = "tables" -> "tableStats" [] OTHER -> "tables"

drillHeapTuple(s) ==
  CASE s.row = "redirect" -> "hop"
    [] s.row \in {"stray redirect", "dead"} -> "none"
    [] s.row = "bodiless" -> "notice"
    [] OTHER -> "byte layout"

drillIndexPage(s) == IF s.row \in {"deleted", "empty", "meta", "entry"} THEN "notice" ELSE "indexTuples"

drillIndexTuple(s) ==
  CASE s.mode = "gin" -> "none"
    [] s.mode = "brin" -> "heapPages"
    [] s.row = "posting" -> "fold"
    [] s.row = "high key" -> "notice"
    [] s.row = "downlink" -> "indexTuples"
    [] s.row \in {"live", "member"} -> "heapTuples"
    [] OTHER -> "none"

handleMaintenanceEnter(s) ==
  CASE s.row = "reset" -> "arm reset"
    [] s.row = "missing" -> "none"
    [] s.row = "to diagnostic" -> "diagnosticResult"
    [] s.row = "to lock tree" -> "lockTree"
    [] s.row = "to activity" -> "activity"
    [] s.row = "to settings" -> "settings"
    [] OTHER -> "none"

(* handleStatementEnter: the detail runs its sample call; the values run   *)
(* the highlighted one in the place of a single parameter, or the call.    *)
handleStatementAnalyze(s) == IF s.mode = "callable" THEN "analyze" ELSE "none"
handleSampleAnalyze(s) ==
  IF s.mode = "with call" \/ (s.mode = "one parameter" /\ s.row = "value") THEN "analyze" ELSE "none"

handleDiagEnter(s) ==
  IF s.mode = "no fixes" THEN "none" ELSE IF s.row = "fixable" THEN "fix" ELSE "notice"

drillLogs(s) ==
  CASE s.mode = "table" -> "logEntry" [] s.row = "section" -> "fold" [] s.row = "rule" -> "none" [] OTHER -> "logGroup"

(* Enter, in the order of its handlers: reindex, overview, statement,      *)
(* diagnostic, and drillIn for the rest.                                   *)
drillIn(s) ==
  CASE s.level = "tools" -> toolEntryScreen(s.row)
    [] s.level = "diagnostics" -> IF s.row = "per database" THEN "databases" ELSE "diagnosticResult"
    [] s.level = "databases" -> IF s.mode = "diagnostics" THEN "diagnosticResult" ELSE databaseChildScreens(s.mode)
    [] s.level = "schemas" -> schemaChildScreen(s.mode)
    [] s.level \in {"tables", "tableStats"} -> "parts"
    [] s.level = "bufferTables" -> "bufferDetail"
    [] s.level = "heapPages" -> "heapTuples"
    [] s.level = "heapTuples" -> drillHeapTuple(s)
    [] s.level = "relations" -> IF s.row \in {"table", "toast"} THEN "heapPages" ELSE "indexPages"
    [] s.level = "indexPages" -> drillIndexPage(s)
    [] s.level = "indexTuples" -> drillIndexTuple(s)
    [] s.level = "wal" -> CASE s.row = "relation" -> "walBlocks" [] s.row = "resource manager" -> "walRecords" [] OTHER -> "none"
    [] s.level = "walRecords" -> "walBlocks"
    [] s.level = "walBlocks" -> "walBlock"
    [] s.level = "statements" -> IF s.mode = "grouped" THEN "narrow" ELSE "statementDetail"
    [] s.level = "snapshots" -> "window"
    [] s.level = "activity" -> IF s.row = "unidentified" THEN "notice" ELSE "statementDetail"
    [] s.level = "logFiles" -> "logs"
    [] s.level = "logs" -> drillLogs(s)
    [] s.level = "logGroup" -> IF s.mode = "parameters" THEN "logGroup" ELSE "logEntry"
    [] s.level = "pgbouncers" -> "pgbouncer"
    [] s.level = "pgbouncer" -> IF s.row = "log" THEN "logs" ELSE "pgbouncerShow"
    [] s.level = "parts" /\ s.row = "heap" -> "columns"
    [] OTHER -> "none"

Enter(s) ==
  CASE s.row = "none" -> "none"
    [] reindexableRow(s) -> "arm reindex"
    [] s.level = "maintenance" -> handleMaintenanceEnter(s)
    [] s.level = "statementDetail" -> handleStatementAnalyze(s)
    [] s.level = "statementSamples" -> handleSampleAnalyze(s)
    [] s.level = "diagnosticResult" -> handleDiagEnter(s)
    [] OTHER -> drillIn(s)

(* partPagesScreen: the heap, the TOAST heap or an index of a part; an     *)
(* index pageinspect cannot decode leaves a notice.                        *)
jumpToPageInspector(s) ==
  CASE s.row = "none" -> {"none"}
    [] s.level \in {"bufferTables", "bufferDetail"} -> {"heapPages", "indexPages", "notice"}
    [] s.level = "describe" \/ s.row \in {"heap", "toast"} -> {"heapPages"}
    [] s.row = "hash index" -> {"notice"}
    [] OTHER -> {"indexPages"}

(* d on the panel itself switches its detail; a statement or a diagnostic  *)
(* may name no relation.                                                   *)
Describe(s) ==
  CASE s.level = "describe" -> {"detail"}
    [] DescribeTarget(s) -> {"describe"}
    [] s.level \in {"statements", "statementDetail", "statementSamples", "activity", "diagnosticResult"} -> {"describe", "none"}
    [] OTHER -> {"none"}

(* The link to the server log goes through the picker, unless one file was *)
(* named; that of an instance, straight to its file, if it has one.        *)
OpenLog(s) == IF s.level \in PgbLevels THEN {"logs", "notice"} ELSE {"logFiles", "logs"}

Jump ==
  [Settings |-> "settings", JumpActivity |-> "activity", JumpWAL |-> "wal", JumpReplication |-> "diagnosticResult",
   JumpIO |-> "diagnosticResult", Progress |-> "progress", LockTree |-> "lockTree", WaitProfile |-> "waitProfile",
   TopQueries |-> "statements", Snapshots |-> "snapshots", Params |-> "statementSamples", ShmemMap |-> "shmem"]

(* The effects a binding may have; a binding of its own name acts in place.*)
Effects(b, s) ==
  CASE b = "Enter" -> {Enter(s)}
    [] b = "PageInspect" -> jumpToPageInspector(s)
    [] b = "Describe" -> Describe(s)
    [] b = "DiskUsage" -> {"parts", "none"}
    [] b = "OpenLog" -> OpenLog(s)
    [] b = "Execute" -> IF s.mode \in {"callable", "explaining"} THEN {"statementResult"} ELSE {"none"}
    [] b = "ShmemMap" /\ s.mode = "blocked" -> {"none"}
    [] b = "LogJump" -> {"logs"}
    [] b \in DOMAIN Jump -> {Jump[b]}
    [] OTHER -> {b}

(* The bindings a key reaches: the jump of the overview is tried before    *)
(* the reversal of a sort.                                                 *)
Dispatched(k, s) ==
  LET hit == {b \in Enabled(s) : KeyOf[b] = k}
  IN IF "JumpReplication" \in hit THEN {"JumpReplication"} ELSE hit

(* ----- The keys pressed on a place ------------------------------------- *)

NoKey == [by |-> "none", effect |-> "none"]

KeysInit == place \in Places /\ did = NoKey

(* A key without an enabled binding is ignored.                            *)
PressKey ==
  \E b \in Enabled(place) :
    /\ b \in Dispatched(KeyOf[b], place)
    /\ \E e \in Effects(b, place) : did' = [by |-> b, effect |-> e]
    /\ UNCHANGED place

(* The cursor moves, or the rows are replaced under it.                    *)
OtherRow ==
  /\ \E p \in Places : p.level = place.level /\ p.mode = place.mode /\ p # place /\ place' = p
  /\ did' = NoKey

KeysNext == PressKey \/ OtherRow

(* ----- What the footer promises ---------------------------------------- *)

(* The destinations of the help texts that begin with an arrow.            *)
Arrow(b, s) ==
  CASE b = "Enter" -> enterLabel(s)
    [] b = "PageInspect" -> {"heapPages", "indexPages"}
    [] b = "Describe" -> {"describe"}
    [] b = "OpenLog" -> {"logFiles", "logs"}
    [] b = "LogJump" -> {"logs"}
    [] b \in DOMAIN Jump -> {Jump[b]}
    [] OTHER -> {b}

(* Rows whose advertised key does nothing: an entry without a live heap    *)
(* row, a malformed downlink, a redirect whose target the filter hides, a  *)
(* value that was cut where no call stands in for it, a run that is under  *)
(* way; an operation or a log line without a relation; and the memory map  *)
(* and the pages under a prompt that blocks the list.                      *)
Silent(b, s) ==
  \/ b = "Enter" /\ s.row \in {"vacuumed", "vacuumed member", "malformed downlink", "stray redirect"}
  \/ b = "Enter" /\ (s.mode = "explaining" \/ (s.mode = "one parameter" /\ s.row = "cut value"))
  \/ b = "Describe" /\ s.row \in {"no relation", "no statement"}
  \/ b \in {"Enter", "PageInspect", "ShmemMap"} /\ s.row = "none"

(* Keys are scoped so that no screen gives one key two meanings, but for r *)
(* on the overview, and the footer keeps its word: what it offers on a row *)
(* leads where it says or explains itself, Enter does nothing that it does *)
(* not offer, and the dead keys are the ones listed above (keys.go and     *)
(* keys_enter.go against update_drill.go and update_keys.go).              *)
KeysHonest ==
  LET b == did.by
  IN b # "none" =>
       /\ \A c \in Bindings \ {b} :
            KeyOf[b] = KeyOf[c] /\ IsEnabled(c, place) => {b, c} = {"JumpReplication", "ReverseSort"} /\ place.level = "maintenance"
       /\ b \in Footer(place) /\ did.effect # "notice" =>
            IF Silent(b, place) THEN did.effect = "none" ELSE did.effect \in Arrow(b, place)
       /\ enterLabel(place) = {} => Enter(place) = "none"
===============================================================================
