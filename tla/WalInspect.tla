------------------------------- MODULE WalInspect -------------------------------
(***************************************************************************)
(* The WAL inspector: an overview of the last stretch of WAL by resource   *)
(* manager and, in a slower scan chained to it, by relation; the records   *)
(* of a manager, the blocks of a record or of a relation, and the payload  *)
(* of a block, each read over the window the overview resolved.            *)
(*                                                                         *)
(* WAL is written all the while.  A window is known by its end.            *)
(***************************************************************************)
EXTENDS Integers, Sequences, SequencesExt, FiniteSets

CONSTANTS
  Rmgrs, WalRels, \* resource managers and relations WAL has been written for
  MaxWal,         \* bound: the windows there are
  MaxWalLoads,    \* bound: loads on their way
  MaxWalDepth     \* bound: screens above each other

VARIABLES
  walEnd,    \* where the server writes
  walStack,  \* the screens from the overview up
  walLoads   \* the loads in flight

walVars == <<walEnd, walStack, walLoads>>

NoWindow == 0
Unread   == -1     \* rows never read, or dropped
Named(name) == <<NoWindow, name>>
NoName == Named("")

-----------------------------------------------------------------------------
WalScreen(level, window, key) ==
  [level |-> level, window |-> window, key |-> key, rows |-> Unread, failed |-> FALSE, loading |-> TRUE,
   rels |-> Unread, relsErr |-> FALSE, relsLoading |-> FALSE, summary |-> FALSE, checkpoint |-> FALSE]

WalTop == walStack[Len(walStack)]
FindWal(level) == SelectLastInSeq(walStack, LAMBDA s : s.level = level)
ReplaceWal(i, s) == walStack' = [walStack EXCEPT ![i] = s]

WalLoad(kind, window, key) == [kind |-> kind, window |-> window, key |-> key, nth |-> 1]
Another(loads, load) ==
  [load EXCEPT !.nth = CHOOSE n \in 1..(Cardinality(loads) + 1) : [load EXCEPT !.nth = n] \notin loads]
AddLoad(loads, load) == loads \cup {Another(loads, load)}

(* What a screen asks for: the overview resolves its window itself.        *)
LoadsOf(s) ==
  IF s.level = "wal" THEN {WalLoad("overview", NoWindow, NoName), WalLoad("summary", NoWindow, NoName), WalLoad("checkpoint", NoWindow, NoName)}
  ELSE {WalLoad(s.level, s.window, s.key)}
AskFor(s) ==
  /\ Cardinality(walLoads) < MaxWalLoads
  /\ walLoads' = walLoads \cup {Another(walLoads, load) : load \in LoadsOf(s)}

WalInit ==
  /\ walEnd = 1
  /\ walStack = <<WalScreen("wal", NoWindow, NoName)>>
  /\ walLoads = LoadsOf(WalScreen("wal", NoWindow, NoName))

WalIsWritten == walEnd < MaxWal /\ walEnd' = walEnd + 1 /\ UNCHANGED <<walStack, walLoads>>

-----------------------------------------------------------------------------
(* Keys.  Space drops what stands above the rows and keeps the rows.       *)
RefreshWal ==
  LET s == [WalTop EXCEPT !.loading = TRUE, !.rels = Unread, !.relsErr = FALSE, !.relsLoading = FALSE,
                          !.summary = FALSE, !.checkpoint = FALSE]
  IN  AskFor(WalTop) /\ ReplaceWal(Len(walStack), s) /\ UNCHANGED walEnd

WalBack == Len(walStack) > 1 /\ walStack' = Front(walStack) /\ UNCHANGED <<walEnd, walLoads>>

DrillsTo(s) ==
  /\ Len(walStack) < MaxWalDepth /\ AskFor(s) /\ walStack' = Append(walStack, s) /\ UNCHANGED walEnd

ReadRows == WalTop.rows # Unread /\ ~WalTop.failed
DrillWALRmgr ==
  WalTop.level = "wal" /\ ReadRows /\ \E rmgr \in Rmgrs : DrillsTo(WalScreen("records", WalTop.window, Named(rmgr)))
DrillWALRelation ==
  /\ WalTop.level = "wal" /\ WalTop.rels # Unread
  /\ \E rel \in WalRels : DrillsTo(WalScreen("relBlocks", WalTop.window, Named(rel)))

(* A record is known by its LSNs, a block by those and its number; the     *)
(* window it was listed over is of no more use to it.                      *)
RowKey(s) == IF s.level = "blocks" THEN s.key ELSE <<s.rows, s.key[2]>>
DrillWALRecord == WalTop.level = "records" /\ ReadRows /\ DrillsTo(WalScreen("blocks", NoWindow, RowKey(WalTop)))
DrillWALBlock ==
  WalTop.level \in {"blocks", "relBlocks"} /\ ReadRows /\ DrillsTo(WalScreen("detail", NoWindow, RowKey(WalTop)))

-----------------------------------------------------------------------------
(* Answers.                                                                *)
Answered(load) == walLoads' = walLoads \ {load} /\ UNCHANGED walEnd

(* WALWindow: the overview reads over what it has resolved.                *)
WindowIsResolved(load) ==
  /\ load.kind = "overview" /\ load.window = NoWindow
  /\ walLoads' = AddLoad(walLoads \ {load}, WalLoad("overview", walEnd, load.key))
  /\ UNCHANGED <<walEnd, walStack>>

(* The previous relation table is dropped, and its scan chained for the    *)
(* window the answer names.                                                *)
OnWALOverviewLoaded(load, failed) ==
  LET i == FindWal("wal")
      s == [walStack[i] EXCEPT !.loading = FALSE, !.failed = failed, !.window = load.window,
                               !.rows = IF failed THEN Unread ELSE load.window,
                               !.rels = Unread, !.relsErr = FALSE, !.relsLoading = ~failed]
  IN  /\ load.kind = "overview" /\ load.window # NoWindow /\ i # 0
      /\ ReplaceWal(i, s) /\ UNCHANGED walEnd
      /\ walLoads' = IF failed THEN walLoads \ {load}
                     ELSE AddLoad(walLoads \ {load}, WalLoad("relations", load.window, NoName))

OnWALSummaryLoaded(load, failed) ==
  LET i == FindWal("wal")
  IN  /\ load.kind \in {"summary", "checkpoint"} /\ i # 0 /\ Answered(load)
      /\ ReplaceWal(i, IF load.kind = "summary" THEN [walStack[i] EXCEPT !.summary = ~failed]
                       ELSE [walStack[i] EXCEPT !.checkpoint = @ \/ ~failed])

(* Mutant: a scan of an earlier window fills the table too.                *)
AnyScan(s, load) == TRUE
ScanOfWindow(s, load) == s.window = load.window

OnWALRelationsLoaded(load, failed) ==
  LET i == FindWal("wal")
      s == [walStack[i] EXCEPT !.relsLoading = FALSE, !.relsErr = failed, !.rels = IF failed THEN Unread ELSE load.window]
  IN  /\ load.kind = "relations" /\ i # 0 /\ ScanOfWindow(walStack[i], load)
      /\ Answered(load) /\ ReplaceWal(i, s)

(* The rows of the screens above are those of any answer for their key.    *)
OnWALRowsLoaded(load, failed) ==
  LET i == FindWal(load.kind)
      s == [walStack[i] EXCEPT !.loading = FALSE, !.failed = failed, !.rows = IF failed THEN Unread ELSE load.window]
  IN  /\ load.kind \in {"records", "blocks", "relBlocks", "detail"} /\ i # 0 /\ walStack[i].key = load.key
      /\ Answered(load) /\ ReplaceWal(i, s)

WalAnswerDropped(load) ==
  LET i == FindWal(load.kind)
  IN  /\ \/ load.kind = "relations" /\ ~ScanOfWindow(walStack[1], load)
         \/ load.kind \in {"records", "blocks", "relBlocks", "detail"} /\ (i # 0 => walStack[i].key # load.key)
      /\ Answered(load) /\ UNCHANGED walStack

WalNext ==
  \/ WalIsWritten \/ RefreshWal \/ WalBack
  \/ DrillWALRmgr \/ DrillWALRelation \/ DrillWALRecord \/ DrillWALBlock
  \/ \E load \in walLoads :
       \/ WindowIsResolved(load) \/ WalAnswerDropped(load)
       \/ \E failed \in BOOLEAN :
            \/ OnWALOverviewLoaded(load, failed) \/ OnWALSummaryLoaded(load, failed)
            \/ OnWALRelationsLoaded(load, failed) \/ OnWALRowsLoaded(load, failed)

WalSpec == WalInit /\ [][WalNext]_walVars

-----------------------------------------------------------------------------
(* The two tables of the overview are of the window in its header, and a   *)
(* relation table that is neither shown nor failed is being scanned, over  *)
(* that window: however refreshes and answers interleave, no table is left *)
(* from an earlier window and none is waited for that nobody scans.        *)
OverviewWhole ==
  walStack # <<>> =>
    LET s == walStack[1]
    IN  /\ s.rows \in {Unread, s.window} /\ s.rels \in {Unread, s.window}
        /\ s.relsLoading => \E load \in walLoads : load.kind = "relations" /\ load.window = s.window
        /\ ~s.loading /\ ~s.failed /\ s.rels = Unread /\ ~s.relsErr => s.relsLoading

(* "carried down to levelWALRecords so every level analyses the same       *)
(* window": the records on the screen are those of its window.             *)
RecordsOfWindow ==
  \A i \in DOMAIN walStack :
    walStack[i].level \in {"records", "relBlocks"} => walStack[i].rows \in {Unread, walStack[i].window}
=============================================================================
