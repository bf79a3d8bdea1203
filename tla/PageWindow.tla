------------------------------- MODULE PageWindow -------------------------------
(***************************************************************************)
(* The list of pages of a relation, which is read a window of              *)
(* WindowCount pages at a time: paging through it, the search for the next *)
(* data leaf of a GIN index, the census of a B-tree's levels, and the      *)
(* extension they need.                                                    *)
(*                                                                         *)
(* A window is clamped to the relation's length when it is read, and the   *)
(* length it is shown with is read once more after that.                   *)
(***************************************************************************)
EXTENDS Integers, Sequences, SequencesExt, FiniteSetsExt

CONSTANTS
  WindowCount,     \* heapWindowDefault, 2000 in the code
  RelationAt,      \* the relation, change by change: pages, data leaves
  MaxCensuses,     \* bound: censuses on their way
  WindowSessions   \* bound: what is listed, from where, with which keys, and
                   \* the windows on their way

ASSUME WindowAssumption ==
  /\ WindowCount \in Nat \ {0}
  /\ RelationAt \in Seq([pages : Nat, leaves : SUBSET Nat]) /\ RelationAt # <<>>
  /\ \A session \in WindowSessions : session.start \in Nat /\ session.ext \in BOOLEAN

VARIABLES
  list,        \* the screen, or NoList
  windowLoads, \* the windows in flight
  leafSearch,  \* the search in flight, or NoSearch
  censuses,    \* the censuses in flight, each missing its extension or not
  installs,    \* an install of the extension is under way
  server,      \* how far the relation has changed, and whether it can be read
  sought,      \* ghost: the page the last search moved to, until a key, a change or
               \* an answer without rows
  windowOf     \* the session

windowVars == <<list, windowLoads, leafSearch, censuses, installs, server, sought, windowOf>>

NoBlock  == 0
NoSearch == [seen |-> -1]
NoList   == [open |-> FALSE]
MinPages(am) == IF am \in {"btree", "gin"} THEN 2 ELSE 1

-----------------------------------------------------------------------------
Relation == RelationAt[server.epoch]

(* What a read of the window lists; the page at 0 of a B-tree or a GIN is  *)
(* the meta page, which is not listed.                                     *)
ClampPageWindow(am, start, relpages) ==
  IF relpages < MinPages(am) \/ start >= relpages THEN 0
  ELSE IF start + WindowCount > relpages THEN relpages - start ELSE WindowCount
ListPageWindow(am, start, relpages) ==
  LET first == IF am \in {"btree", "gin"} /\ start = 0 THEN 1 ELSE start
  IN  [i \in 1..(start + ClampPageWindow(am, start, relpages) - first) |-> first + i - 1]

(* The first data leaf from a page on, and then from the start.            *)
NextGinDataLeaf(from, relpages, leaves) ==
  LET at == IF from > 1 THEN from ELSE 1
      after == {b \in leaves : b >= at /\ b < relpages}
      before == {b \in leaves : b >= 1 /\ b < at /\ b < relpages}
  IN  IF after # {} THEN Min(after) ELSE IF before # {} THEN Min(before) ELSE NoBlock

-----------------------------------------------------------------------------
ListScreen(am, start) ==
  [open |-> TRUE, am |-> am, start |-> start, total |-> 0, rows |-> <<>>, desc |-> FALSE, cursor |-> 1,
   loading |-> TRUE, focusBlkno |-> NoBlock, ginSeeking |-> FALSE, ginLeaves |-> TRUE,
   levels |-> "none", prompt |-> FALSE, installing |-> FALSE, read |-> 0]

VisiblePages(s) == IF s.desc THEN Reverse(s.rows) ELSE s.rows
OnPage(s) == s.cursor \in DOMAIN VisiblePages(s)
PageAt(s) == VisiblePages(s)[s.cursor]

WindowLoad(s) ==
  [am |-> s.am, start |-> s.start, seen |-> 0, missing |-> FALSE, failed |-> FALSE, rows |-> <<>>, nth |-> 1]
WithWindow(load) ==
  windowLoads \cup
    {[load EXCEPT !.nth = CHOOSE n \in 1..(Cardinality(windowLoads) + 1) : [load EXCEPT !.nth = n] \notin windowLoads]}

WithCensus(missing) ==
  censuses \cup {[missing |-> missing, nth |-> CHOOSE n \in 1..MaxCensuses : [missing |-> missing, nth |-> n] \notin censuses]}

(* loadCurrent of a list: its window, and the census unless there is one.  *)
LoadsCensus(s) == s.am = "btree" /\ s.levels = "none"
Loads(s) ==
  /\ Cardinality(windowLoads) < windowOf.loads
  /\ list' = [s EXCEPT !.loading = TRUE, !.prompt = FALSE, !.installing = FALSE,
                       !.levels = IF LoadsCensus(s) THEN "loading" ELSE @]
  /\ windowLoads' = WithWindow(WindowLoad(s))
  /\ IF LoadsCensus(s) THEN Cardinality(censuses) < MaxCensuses /\ censuses' = WithCensus(~server.ext)
     ELSE UNCHANGED censuses

WindowInit ==
  \E session \in WindowSessions :
    /\ windowOf = session /\ server = [epoch |-> 1, ext |-> session.ext] /\ sought = NoBlock
    /\ list = [ListScreen(session.am, session.start) EXCEPT !.levels = IF session.am = "btree" THEN "loading" ELSE "none"]
    /\ windowLoads = {WindowLoad(list)} /\ leafSearch = NoSearch /\ installs = FALSE
    /\ censuses = IF session.am = "btree" THEN {[missing |-> ~session.ext, nth |-> 1]} ELSE {}

-----------------------------------------------------------------------------
(* Keys.                                                                   *)
OnList == list.open /\ sought' = NoBlock /\ UNCHANGED <<server, windowOf>>
ToWindow(s, start) == [s EXCEPT !.start = start, !.cursor = 1]

PageDown ==
  /\ OnList /\ list.total > list.start + WindowCount
  /\ Loads(ToWindow(list, list.start + WindowCount))
  /\ UNCHANGED <<leafSearch, installs>>

PageUp ==
  /\ OnList /\ list.start > 0
  /\ Loads(ToWindow(list, IF list.start > WindowCount THEN list.start - WindowCount ELSE 0))
  /\ UNCHANGED <<leafSearch, installs>>

ReloadPages == OnList /\ Loads(list) /\ UNCHANGED <<leafSearch, installs>>

StepPages(by) ==
  /\ OnList /\ list.cursor + by \in DOMAIN list.rows
  /\ list' = [list EXCEPT !.cursor = @ + by]
  /\ UNCHANGED <<windowLoads, leafSearch, censuses, installs>>

SortPages ==
  /\ OnList /\ "sort" \in windowOf.keys
  /\ list' = [list EXCEPT !.desc = ~@]
  /\ UNCHANGED <<windowLoads, leafSearch, censuses, installs>>

(* n on a GIN: not while one is under way, and not when the meta page has  *)
(* said there is no data leaf.                                             *)
JumpGinDataLeaf ==
  /\ OnList /\ list.am = "gin" /\ ~list.ginSeeking /\ list.ginLeaves /\ leafSearch = NoSearch
  /\ leafSearch' = [from |-> IF OnPage(list) THEN PageAt(list) + 1 ELSE list.start, seen |-> 0, found |-> NoBlock]
  /\ list' = [list EXCEPT !.ginSeeking = TRUE]
  /\ UNCHANGED <<windowLoads, censuses, installs>>

LeaveList ==
  /\ OnList /\ "leave" \in windowOf.keys
  /\ list' = NoList
  /\ UNCHANGED <<windowLoads, leafSearch, censuses, installs>>

OpenList ==
  /\ ~list.open /\ Loads(ListScreen(windowOf.am, windowOf.start))
  /\ UNCHANGED <<leafSearch, installs, server, sought, windowOf>>

TriggerInstall ==
  /\ OnList /\ list.prompt /\ ~list.installing
  /\ list' = [list EXCEPT !.installing = TRUE] /\ installs' = TRUE
  /\ UNCHANGED <<windowLoads, leafSearch, censuses>>

-----------------------------------------------------------------------------
(* The server, and what comes back from it.                                *)
RelationChanges ==
  /\ "changes" \in windowOf.keys /\ server.epoch < Len(RelationAt) /\ server' = [server EXCEPT !.epoch = @ + 1]
  /\ sought' = NoBlock
  /\ UNCHANGED <<list, windowLoads, leafSearch, censuses, installs, windowOf>>

OnExtInstalled ==
  /\ installs /\ installs' = FALSE /\ server' = [server EXCEPT !.ext = TRUE]
  /\ IF list.open /\ list.prompt THEN Loads(list) ELSE UNCHANGED <<list, windowLoads, censuses>>
  /\ UNCHANGED <<leafSearch, sought, windowOf>>

Fails == IF "fails" \in windowOf.keys THEN BOOLEAN ELSE {FALSE}

WindowIsListed(load) ==
  /\ load.seen = 0
  /\ \E fails \in Fails :
       windowLoads' = (windowLoads \ {load}) \cup
         {[load EXCEPT !.seen = server.epoch, !.missing = ~server.ext, !.failed = server.ext /\ fails,
                       !.rows = IF server.ext /\ ~fails THEN ListPageWindow(load.am, load.start, Relation.pages) ELSE <<>>]}
  /\ UNCHANGED <<list, leafSearch, censuses, installs, server, sought, windowOf>>

(* A search that fails finds nothing.                                      *)
LeafIsSought ==
  /\ leafSearch.seen = 0
  /\ \E fails \in Fails :
       leafSearch' = [leafSearch EXCEPT !.seen = server.epoch,
         !.found = IF server.ext /\ ~fails THEN NextGinDataLeaf(leafSearch.from, Relation.pages, Relation.leaves) ELSE NoBlock]
  /\ UNCHANGED <<list, windowLoads, censuses, installs, server, sought, windowOf>>

(* The cursor goes to the page a search asked for with the first window    *)
(* that lands.  Mutant: with whatever rows there are.                      *)
FocusAnyRows(s) ==
  LET at == SelectInSeq(VisiblePages(s), LAMBDA b : b = s.focusBlkno)
  IN  IF s.focusBlkno = NoBlock THEN s
      ELSE [s EXCEPT !.focusBlkno = NoBlock, !.cursor = IF at = 0 THEN @ ELSE at]
FocusGinBlkno(s) == IF s.loading THEN s ELSE FocusAnyRows(s)

InRows(s) == [s EXCEPT !.cursor = IF @ > Len(s.rows) THEN IF s.rows = <<>> THEN 1 ELSE Len(s.rows) ELSE @]

(* What has been read of the relation as it is.                            *)
Current(epoch) == epoch = server.epoch

(* Mutant: any window of the relation.                                     *)
AnyWindow(load) == list.open
OfWindow(load) == list.open /\ list.start = load.start

OnPagesLoadedOf(load) ==
  LET settled == [list EXCEPT !.loading = FALSE]
  IN  /\ load.seen # 0 /\ OfWindow(load)
      /\ \E total \in {0, Relation.pages}, may \in {TRUE, Relation.leaves # {}} :
           list' = IF load.missing THEN FocusGinBlkno([settled EXCEPT !.prompt = TRUE, !.rows = <<>>, !.read = 0])
                   ELSE FocusGinBlkno(InRows(
                     [settled EXCEPT !.total = IF load.failed THEN 0 ELSE total, !.ginLeaves = load.failed \/ may,
                                     !.rows = load.rows, !.read = IF load.failed THEN 0 ELSE load.seen]))
      /\ windowLoads' = windowLoads \ {load}
      /\ sought' = IF Current(load.seen) /\ ~load.missing /\ ~load.failed THEN sought ELSE NoBlock
      /\ UNCHANGED <<leafSearch, censuses, installs, server, windowOf>>

DropsWindow(load) ==
  /\ load.seen # 0 /\ ~OfWindow(load) /\ windowLoads' = windowLoads \ {load}
  /\ UNCHANGED <<list, leafSearch, censuses, installs, server, sought, windowOf>>

OnBtreeLevelsLoaded(census) ==
  /\ censuses' = censuses \ {census}
  /\ list' = IF list.open THEN [list EXCEPT !.levels = IF census.missing THEN "none" ELSE "done"] ELSE list
  /\ UNCHANGED <<windowLoads, leafSearch, installs, server, sought, windowOf>>

(* The search's answer: the window moves to the page when it is outside,   *)
(* unless the page is the one under the cursor.  Inside it, a page the     *)
(* index has grown by since the rows were read is not found among them,    *)
(* and nothing moves.                                                      *)
Outside(s, blk) == blk < s.start \/ blk >= s.start + WindowCount

OnGinDataLeafFound ==
  LET blk == leafSearch.found
      s == [list EXCEPT !.ginSeeking = FALSE, !.focusBlkno = blk]
      here == OnPage(list) /\ PageAt(list) = blk
      Sought == IF Current(leafSearch.seen) THEN blk ELSE NoBlock
  IN  /\ leafSearch.seen > 0 /\ leafSearch' = NoSearch
      /\ \/ ~list.open /\ UNCHANGED <<list, windowLoads, censuses, sought>>
         \/ /\ list.open /\ (blk = NoBlock \/ here)
            /\ list' = [list EXCEPT !.ginSeeking = FALSE] /\ UNCHANGED <<windowLoads, censuses, sought>>
         \/ /\ list.open /\ blk # NoBlock /\ ~here /\ Outside(list, blk)
            /\ Loads(ToWindow(s, blk)) /\ sought' = Sought
         \/ /\ list.open /\ blk # NoBlock /\ ~here /\ ~Outside(list, blk)
            /\ list' = FocusGinBlkno(s) /\ UNCHANGED <<windowLoads, censuses>>
            /\ sought' = IF list.loading \/ Current(list.read) THEN Sought ELSE NoBlock
      /\ UNCHANGED <<installs, server, windowOf>>

WindowNext ==
  \/ PageDown \/ PageUp \/ ReloadPages \/ SortPages
  \/ \E by \in {-1, 1} : StepPages(by)
  \/ JumpGinDataLeaf \/ LeaveList \/ OpenList \/ TriggerInstall
  \/ RelationChanges \/ OnExtInstalled
  \/ \E load \in windowLoads : WindowIsListed(load) \/ OnPagesLoadedOf(load) \/ DropsWindow(load)
  \/ \E census \in censuses : OnBtreeLevelsLoaded(census)
  \/ LeafIsSought \/ OnGinDataLeafFound

WindowSpec == WindowInit /\ [][WindowNext]_windowVars

-----------------------------------------------------------------------------
(* The rows of a settled list are pages of the window its header names,    *)
(* whatever windows were asked for on the way.                             *)
RowsOfWindow ==
  list.open /\ ~list.loading =>
    \A i \in DOMAIN list.rows : list.rows[i] \in list.start..(list.start + WindowCount - 1)

(* A search that moved the list leaves the cursor on the data leaf it      *)
(* found once the list has settled, in whatever order the windows asked    *)
(* for before and after it come in.  Rows and searches read before the     *)
(* relation changed promise nothing, nor do rows that could not be read.   *)
LandsOnLeaf ==
  sought # NoBlock /\ list.open /\ ~list.loading =>
    OnPage(list) /\ PageAt(list) = sought /\ sought \in Relation.leaves

(* The list of pages: of the window it names, with the cursor on what was  *)
(* sought.                                                                 *)
WindowSound == RowsOfWindow /\ LandsOnLeaf

(* "page is the only data-leaf page": said of the page under the cursor by *)
(* the time the answer comes.                                              *)
OnlyLeafIsOnly ==
  [][leafSearch.seen > 0 /\ leafSearch' = NoSearch /\ list.open /\ OnPage(list) /\ PageAt(list) = leafSearch.found
       => Relation.leaves = {leafSearch.found}]_windowVars
=============================================================================
