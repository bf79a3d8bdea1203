------------------------------- MODULE ListView -------------------------------
(***************************************************************************)
(* The activity table as a list under a cursor: columns shown and hidden,  *)
(* rows sorted by one of them, filtered by what their cells say, and       *)
(* replaced by every sample while the user moves about.                    *)
(*                                                                         *)
(* A cell is a number that stands for its text, and whether it counts as   *)
(* a number for the sort.                                                  *)
(***************************************************************************)
EXTENDS Integers, Sequences, FiniteSets, SequencesExt

CONSTANTS
  Listed,  \* pids, naturals above 0
  Owner,   \* [Listed -> the name of its user]
  Ages,    \* ages of a query, 0 for none
  Texts,   \* what the user filters by
  Absent   \* no filter, no cache, no prompt

ASSUME ListAssumption ==
  /\ Listed \subseteq Nat \ {0} /\ IsFiniteSet(Listed)
  /\ Owner \in [Listed -> Int] /\ Ages \subseteq Nat
  /\ Absent \notin Seq([pid : Listed, age : Ages])

VARIABLES
  sample,       \* screen.act.rows
  shown,        \* colTable.visible: the columns that are not hidden
  sortColID,    \* colTable.sortColID
  diagSortCol,  \* the column sorted by, by its place, and the direction
  sortDesc,
  items,        \* the rows: the cells of a backend
  pattern,      \* screen.filter
  cursor,
  visCache,     \* the rows that pass the filter, as they were last worked out
  armed         \* the prompt: the pid that will be signalled, and the row it was armed on

listVars == <<sample, shown, sortColID, diagSortCol, sortDesc, items, pattern, cursor, visCache, armed>>

(* Four of the columns, in the order of the registry.                      *)
actColumnRegistry == <<"pid", "user", "query_age", "query">>
Mandatory == {"query"}
Numeric   == {"pid", "query_age"}
defaultSort == "query_age"

Cell(id, row) ==
  CASE id = "pid"       -> [num |-> TRUE, text |-> row.pid]
    [] id = "user"      -> [num |-> FALSE, text |-> Owner[row.pid]]
    [] id = "query_age" -> [num |-> row.age > 0, text |-> row.age]
    [] id = "query"     -> [num |-> FALSE, text |-> 0]

(* The members of a set of numbers, the smallest first.                    *)
InOrder(set) == [k \in 1..Cardinality(set) |-> CHOOSE n \in set : Cardinality({m \in set : m < n}) = k - 1]

visibleCols(visible) ==
  LET at == InOrder({n \in DOMAIN actColumnRegistry : actColumnRegistry[n] \in Mandatory \cup visible})
  IN  [k \in DOMAIN at |-> actColumnRegistry[at[k]]]
indexOfCol(cols, id) == SelectInSeq(cols, LAMBDA c : c = id)

ListInit ==
  /\ sample = Absent /\ items = <<>>
  /\ shown = ToSet(actColumnRegistry)
  /\ sortColID = defaultSort /\ diagSortCol = 1 /\ sortDesc = TRUE
  /\ pattern = Absent /\ cursor = 1 /\ visCache = Absent /\ armed = Absent

-----------------------------------------------------------------------------
(* The filter.  The cache knows what it was worked out for: the pattern,   *)
(* the number of rows, and their revision, which is here whether they have *)
(* changed since.                                                          *)

Matches(it, f) == f = Absent \/ \E i \in DOMAIN it.cells : it.cells[i].text = f
computeVisibleIndexes(its, f) == InOrder({i \in DOMAIN its : Matches(its[i], f)})

Cached(cache, its, f) == cache # Absent /\ cache.fresh /\ cache.pattern = f /\ cache.n = Len(its)
visibleIndexes(cache, its, f) ==
  IF Cached(cache, its, f) THEN cache.indexes ELSE computeVisibleIndexes(its, f)
Filled(cache, its, f) ==
  [fresh |-> TRUE, pattern |-> f, n |-> Len(its), indexes |-> visibleIndexes(cache, its, f)]
visibleLen(cache, its, f) == IF f = Absent THEN Len(its) ELSE Len(visibleIndexes(cache, its, f))

(* Mutant: a sort leaves the revision alone.                               *)
SameRevision(cache) == cache

NextRevision(cache) == IF cache = Absent THEN Absent ELSE [cache EXCEPT !.fresh = FALSE]

(* Mutant: the cursor stays where it was.                                  *)
CursorKept(at, n) == at

clampCursor(at, n) == IF n = 0 THEN 1 ELSE IF at > n THEN n ELSE at

-----------------------------------------------------------------------------
(* The sort.  sort.SliceStable inserts the rows from the left; with equal  *)
(* rows the order of a descending sort holds both ways, so they change     *)
(* places.                                                                 *)

Before(a, b, desc) ==
  IF a.num # b.num THEN a.num ELSE IF desc THEN ~(a.text < b.text) ELSE a.text < b.text

Insert(its, it, col, desc) ==
  LET goes(p) == \A j \in p..Len(its) : Before(it.cells[col], its[j].cells[col], desc)
  IN  InsertAt(its, CHOOSE p \in 1..(Len(its) + 1) : goes(p) /\ (p = 1 \/ ~goes(p - 1)), it)

Sorted(its, col, desc) ==
  LET done[n \in 0..Len(its)] == IF n = 0 THEN <<>> ELSE Insert(done[n - 1], its[n], col, desc)
  IN  done[Len(its)]

applySort(its, col, desc) ==
  LET new   == Sorted(its, col, desc)
      cache == NextRevision(visCache)
  IN  /\ items' = new /\ diagSortCol' = col /\ sortDesc' = desc
      /\ cursor' = clampCursor(cursor, visibleLen(cache, new, pattern))
      /\ visCache' = IF pattern = Absent THEN cache ELSE Filled(cache, new, pattern)

(* Mutant: the place of the column is not looked up again.                 *)
SamePlace(cols) == [col |-> diagSortCol, desc |-> sortDesc, id |-> sortColID]

syncSort(cols) ==
  LET at == indexOfCol(cols, sortColID)
      fallback == indexOfCol(cols, defaultSort)
  IN  CASE at > 0 -> [col |-> at, desc |-> sortDesc, id |-> sortColID]
        [] at = 0 /\ fallback > 0 -> [col |-> fallback, desc |-> TRUE, id |-> defaultSort]
        [] OTHER -> [col |-> 1, desc |-> sortDesc, id |-> cols[1]]

rebuildActivityItems(rows, visible) ==
  LET cols == visibleCols(visible)
      sort == syncSort(cols)
      its  == [i \in DOMAIN rows |->
                 [pid |-> rows[i].pid, cells |-> [c \in DOMAIN cols |-> Cell(cols[c], rows[i])]]]
  IN  sortColID' = sort.id /\ applySort(its, sort.col, sort.desc)

-----------------------------------------------------------------------------
(* A sample lists backends by pid.                                         *)
Reload ==
  \E pids \in SUBSET Listed : \E age \in [pids -> Ages] :
    LET order == InOrder(pids)
    IN  /\ sample' = [i \in DOMAIN order |-> [pid |-> order[i], age |-> age[order[i]]]]
        /\ rebuildActivityItems(sample', shown)
        /\ UNCHANGED <<shown, pattern, armed>>

(* The picker; the prompt captures its keys.  Before the first sample      *)
(* there is nothing to project.                                            *)
Pick(visible) ==
  /\ armed = Absent /\ shown' = visible
  /\ IF sample = Absent THEN UNCHANGED <<sortColID, diagSortCol, sortDesc, items, cursor, visCache>>
     ELSE rebuildActivityItems(sample, visible)
  /\ UNCHANGED <<sample, pattern, armed>>

Toggle == \E id \in ToSet(actColumnRegistry) \ Mandatory :
            Pick(IF id \in shown THEN shown \ {id} ELSE shown \cup {id})
ResetCols == Pick(ToSet(actColumnRegistry))

(* Numbers start with the largest, text with the first.                    *)
cycleSort(step) ==
  LET cols == visibleCols(shown)
      col  == ((diagSortCol - 1 + step) % Len(cols)) + 1
  IN  /\ armed = Absent /\ sample # Absent /\ Len(cols) >= 2
      /\ sortColID' = cols[col] /\ applySort(items, col, cols[col] \in Numeric)
      /\ UNCHANGED <<sample, shown, pattern, armed>>

ReverseSort ==
  /\ armed = Absent /\ sample # Absent /\ applySort(items, diagSortCol, ~sortDesc)
  /\ UNCHANGED <<sample, shown, sortColID, pattern, armed>>

editFilter(f) ==
  /\ armed = Absent /\ pattern' = f /\ cursor' = 1
  /\ UNCHANGED <<sample, shown, sortColID, diagSortCol, sortDesc, items, visCache, armed>>

Move ==
  /\ armed = Absent
  /\ \/ cursor > 1 /\ cursor' = cursor - 1
     \/ cursor < visibleLen(visCache, items, pattern) /\ cursor' = cursor + 1
  /\ UNCHANGED <<sample, shown, sortColID, diagSortCol, sortDesc, items, pattern, visCache, armed>>

(* Drawing the list asks for the rows it shows.                            *)
Render ==
  /\ visCache' = Filled(visCache, items, pattern)
  /\ UNCHANGED <<sample, shown, sortColID, diagSortCol, sortDesc, items, pattern, cursor, armed>>

(* activitySelectedPID reads the first cell of the row, 0 when that is not *)
(* a number; a prompt is armed for a pid that is not 0.                    *)
Highlighted == items[visibleIndexes(visCache, items, pattern)[cursor]]
activitySelectedPID == IF Highlighted.cells[1].num THEN Highlighted.cells[1].text ELSE 0

Signal ==
  /\ armed = Absent /\ cursor <= Len(visibleIndexes(visCache, items, pattern))
  /\ activitySelectedPID # 0
  /\ armed' = [pid |-> activitySelectedPID, row |-> Highlighted.pid]
  /\ visCache' = Filled(visCache, items, pattern)
  /\ UNCHANGED <<sample, shown, sortColID, diagSortCol, sortDesc, items, pattern, cursor>>

Answered ==
  /\ armed # Absent /\ armed' = Absent
  /\ UNCHANGED <<sample, shown, sortColID, diagSortCol, sortDesc, items, pattern, cursor, visCache>>

ListNext ==
  \/ Reload \/ Toggle \/ ResetCols \/ ReverseSort \/ Move \/ Render \/ Signal \/ Answered
  \/ (\E step \in {1, -1} : cycleSort(step)) \/ \E f \in Texts \cup {Absent} : editFilter(f)

ListSpec == ListInit /\ [][ListNext]_listVars

-----------------------------------------------------------------------------
(* The rows that are drawn, counted and acted upon are those the filter    *)
(* selects among the rows there are now, never of an earlier sample, order *)
(* or choice of columns.                                                   *)
FilterFresh == visibleIndexes(visCache, items, pattern) = computeVisibleIndexes(items, pattern)

(* The rows are in the order of the column the user chose, wherever it     *)
(* has come to stand, those without a number last.                         *)
RowsOrdered ==
  LET cols == visibleCols(shown)
      key(i) == items[i].cells[indexOfCol(cols, sortColID)]
  IN  \A i, j \in DOMAIN items : i < j =>
        /\ key(j).num => key(i).num
        /\ key(i).num = key(j).num =>
             IF sortDesc THEN key(i).text >= key(j).text ELSE key(i).text <= key(j).text

(* The cursor is on a row while there is one.                              *)
CursorOnRow == cursor \in 1..Max({1, visibleLen(visCache, items, pattern)})

(* The table: the rows the filter selects, in the order that was chosen,   *)
(* with the cursor on one of them.                                         *)
TableSound == FilterFresh /\ RowsOrdered /\ CursorOnRow

-----------------------------------------------------------------------------
(* What the repository says and the code does not keep.                    *)

(* activitySelectedPID "returns the PID of the currently highlighted       *)
(* backend".                                                               *)
TargetIsHighlighted == armed # Absent => armed.pid = armed.row
=============================================================================
