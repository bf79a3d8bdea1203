------------------------------ MODULE InspectProofs ------------------------------
(***************************************************************************)
(* What the page inspector and the WAL overview show, for any relation and *)
(* any changes of it, windows of any size, any sessions and any number of  *)
(* loads in flight.                                                        *)
(*                                                                         *)
(* The list of pages and the WAL overview are read in pieces that cross.   *)
(* The list keeps, with every answer on its way and with its own rows, the *)
(* state of the relation they were read from; the overview keeps the scan  *)
(* of the window in its header in flight for as long as it says it is      *)
(* scanning.                                                               *)
(*                                                                         *)
(* The walk goes down from screen to screen.  Each keeps the page it names *)
(* and the type that page has at every time, a page under another is the   *)
(* child of the entry the cursor above it is on, and a screen opened for a *)
(* row names one that was there when it was named.                         *)
(***************************************************************************)
EXTENDS MCInspect, SequenceTheorems, FiniteSetTheorems, WellFoundedInduction, TLAPS

-----------------------------------------------------------------------------
(* Numbers.  A non-empty set of naturals has a least element, one up to a  *)
(* bound a greatest.                                                       *)
LEMMA LeastNatural ==
  ASSUME NEW T \in SUBSET Nat, T # {}
  PROVE  \E x \in T : \A y \in T : x <= y
  <1>1. \E R : IsWellFoundedOn(R, Nat) /\ \A x, y \in Nat : y < x => <<y, x>> \in R
    <2>1. \A x, y \in Nat : y < x => <<y, x>> \in OpToRel(<, Nat)
      BY DEF OpToRel
    <2>2. QED
      BY <2>1, NatLessThanWellFounded
  <1>2. PICK R : IsWellFoundedOn(R, Nat) /\ \A x, y \in Nat : y < x => <<y, x>> \in R
    BY <1>1
  <1>3. PICK x \in T : \A y \in T : ~(<<y, x>> \in R)
    BY <1>2, WFMin
  <1>4. \A y \in T : ~(y < x)
    BY <1>2, <1>3
  <1>5. QED
    BY <1>3, <1>4

LEMMA MinOf ==
  ASSUME NEW T \in SUBSET Nat, T # {}
  PROVE  Min(T) \in T /\ \A y \in T : Min(T) <= y
  <1>1. \E x \in T : \A y \in T : x <= y
    BY LeastNatural
  <1>2. QED
    BY <1>1 DEF Min

LEMMA MaxOf ==
  ASSUME NEW n \in Nat, NEW T \in SUBSET (1..n), T # {}
  PROVE  Max(T) \in T /\ \A y \in T : Max(T) >= y
  <1> DEFINE U == {n - x : x \in T}
  <1>1. U \in SUBSET Nat /\ U # {}
    <2>1. \A x \in T : n - x \in Nat
      OBVIOUS
    <2>2. \A u \in U : u \in Nat
      BY <2>1
    <2>3. QED
      BY <2>2
  <1>2. PICK u \in U : \A v \in U : u <= v
    BY <1>1, LeastNatural
  <1>3. PICK m \in T : u = n - m
    BY <1>2
  <1>4. \A y \in T : m >= y
    <2> TAKE y \in T
    <2>1. n - y \in U
      OBVIOUS
    <2>2. n - m <= n - y
      BY <1>2, <1>3, <2>1
    <2>3. QED
      BY <2>2
  <1>5. QED
    BY <1>3, <1>4 DEF Max

-----------------------------------------------------------------------------
(* The window over the pages.                                              *)
Epochs == 1..Len(RelationAt)
ListedAt(x, e) == ListPageWindow(x.am, x.start, RelationAt[e].pages)
InWindow(s, b) == b \in s.start..(s.start + WindowCount - 1)
Leaf(e, b)     == b \in RelationAt[e].leaves /\ b \in 1..(RelationAt[e].pages - 1)
StandsOn(s, b)       == s.cursor \in DOMAIN VisiblePages(s) /\ VisiblePages(s)[s.cursor] = b

ListRow ==
  [open : {TRUE}, am : {windowOf.am}, start : Nat, total : Nat, rows : Seq(Nat), desc : BOOLEAN, cursor : Nat,
   loading : BOOLEAN, focusBlkno : Nat, ginSeeking : BOOLEAN, ginLeaves : BOOLEAN,
   levels : {"none", "loading", "done"}, prompt : BOOLEAN, installing : BOOLEAN, read : Nat]
LoadRow ==
  [am : {windowOf.am}, start : Nat, seen : Nat, missing : BOOLEAN, failed : BOOLEAN, rows : Seq(Nat), nth : Nat]
SearchRow == [from : Int, seen : Nat, found : Nat]

WindowTypes ==
  /\ windowOf \in WindowSessions
  /\ list \in ListRow \cup {NoList} /\ windowLoads \in SUBSET LoadRow /\ IsFiniteSet(windowLoads)
  /\ leafSearch \in SearchRow \cup {NoSearch} /\ server \in [epoch : Epochs, ext : BOOLEAN] /\ sought \in Nat

(* Answers on their way list their own window of the relation at the time  *)
(* it was read, and so does a list that has settled.                       *)
LoadSound(l) ==
  /\ l.seen \in 0..server.epoch
  /\ l.rows = IF l.seen = 0 \/ l.missing \/ l.failed THEN <<>> ELSE ListedAt(l, l.seen)
ListSound ==
  /\ list.read \in 0..server.epoch
  /\ ~list.loading => list.rows = IF list.read = 0 THEN <<>> ELSE ListedAt(list, list.read)
SearchSound ==
  leafSearch.seen > 0 =>
    leafSearch.seen <= server.epoch /\ (leafSearch.found # NoBlock => Leaf(leafSearch.seen, leafSearch.found))

(* The page a search moved to is in the window, and the cursor either is   *)
(* on it or goes there with the rows that are awaited.                     *)
SoughtSound ==
  sought # NoBlock =>
    /\ list.open /\ Leaf(server.epoch, sought) /\ InWindow(list, sought)
    /\ \/ list.loading /\ list.focusBlkno = sought
       \/ /\ list.read = server.epoch /\ list.rows = ListedAt(list, list.read)
          /\ list.focusBlkno = NoBlock /\ StandsOn(list, sought)

WindowInv ==
  /\ WindowTypes /\ \A l \in windowLoads : LoadSound(l)
  /\ list.open => ListSound
  /\ SearchSound /\ SoughtSound

-----------------------------------------------------------------------------
(* Lemmas on what is listed.                                               *)
LEMMA EpochTypes ==
  ASSUME NEW e \in Epochs
  PROVE  RelationAt[e].pages \in Nat /\ RelationAt[e].leaves \in SUBSET Nat
  <1>1. RelationAt[e] \in [pages : Nat, leaves : SUBSET Nat]
    BY WindowAssumption, ElementOfSeq DEF Epochs
  <1>2. QED
    BY <1>1

(* A window lists pages of itself only, and every page of itself the       *)
(* relation has, the one at 0 perhaps excepted.                            *)
LEMMA ListingSpans ==
  ASSUME NEW am, NEW start \in Nat, NEW pages \in Nat
  PROVE  LET pageRows == ListPageWindow(am, start, pages)
         IN  /\ pageRows \in Seq(Nat)
             /\ \A i \in DOMAIN pageRows : pageRows[i] \in start..(start + WindowCount - 1)
             /\ \A b \in 1..(pages - 1) :
                  b \in start..(start + WindowCount - 1) => \E i \in DOMAIN pageRows : pageRows[i] = b
  <1> DEFINE first == IF am \in {"btree", "gin"} /\ start = 0 THEN 1 ELSE start
             len == start + ClampPageWindow(am, start, pages) - first
             pageRows == ListPageWindow(am, start, pages)
  <1>1. WindowCount \in Nat /\ WindowCount > 0
    BY WindowAssumption
  <1>2. MinPages(am) \in {1, 2}
    BY DEF MinPages
  <1>3. ClampPageWindow(am, start, pages) \in Nat /\ ClampPageWindow(am, start, pages) <= WindowCount
    BY <1>1, <1>2 DEF ClampPageWindow
  <1>4. first \in Nat /\ first >= start /\ len \in Int /\ first + len <= start + WindowCount
    <2>1. first \in Nat /\ first >= start
      OBVIOUS
    <2> HIDE DEF first
    <2>2. QED
      BY <1>1, <1>3, <2>1
  <1>5. pageRows = [i \in 1..len |-> first + i - 1]
    BY DEF ListPageWindow
  <1>6. \A b \in 1..(pages - 1) :
          b \in start..(start + WindowCount - 1) => b >= first /\ b < first + len
    <2> TAKE b \in 1..(pages - 1)
    <2> HAVE b \in start..(start + WindowCount - 1)
    <2>1. b \in Nat /\ b >= 1 /\ pages > b /\ b >= start /\ b < start + WindowCount
      BY <1>1
    <2>2. pages >= MinPages(am) /\ start < pages
      BY <1>2, <2>1
    <2>3. b < start + ClampPageWindow(am, start, pages)
      BY <1>1, <1>2, <2>1, <2>2 DEF ClampPageWindow
    <2>4. QED
      BY <1>3, <1>4, <2>1, <2>3
  <1> HIDE DEF first, len
  <1>7. \A i \in 1..len : first + i - 1 \in Nat /\ first + i - 1 \in start..(start + WindowCount - 1)
    BY <1>1, <1>4
  <1>8. DOMAIN pageRows = 1..len /\ \A i \in 1..len : pageRows[i] = first + i - 1
    BY <1>5
  <1>9. pageRows \in Seq(Nat)
    <2>1. CASE len >= 0
      BY <1>4, <1>5, <1>7, <2>1
    <2>2. CASE len < 0
      <3>1. 1..len = {} /\ 1..0 = {}
        BY <1>4, <2>2
      <3>2. pageRows = [i \in 1..0 |-> first + i - 1]
        BY <1>5, <3>1
      <3>3. QED
        BY <3>1, <3>2
    <2>3. QED
      BY <1>4, <2>1, <2>2
  <1>10. \A b \in 1..(pages - 1) :
           b \in start..(start + WindowCount - 1) => \E i \in DOMAIN pageRows : pageRows[i] = b
    <2> TAKE b \in 1..(pages - 1)
    <2> HAVE b \in start..(start + WindowCount - 1)
    <2>1. b \in Int /\ b - first + 1 \in 1..len
      <3>1. b \in Int /\ b >= first /\ b < first + len
        BY <1>6
      <3>2. QED
        BY <1>4, <3>1
    <2>2. pageRows[b - first + 1] = b
      BY <1>4, <1>8, <2>1
    <2>3. QED
      BY <1>8, <2>1, <2>2
  <1> HIDE DEF pageRows
  <1>11. QED
    BY <1>7, <1>8, <1>9, <1>10 DEF pageRows

(* What is shown is the rows, in either direction.                         *)
LEMMA Visible ==
  ASSUME NEW s, s.rows \in Seq(Nat), s.desc \in BOOLEAN
  PROVE  /\ VisiblePages(s) \in Seq(Nat) /\ Len(VisiblePages(s)) = Len(s.rows)
         /\ \A i \in DOMAIN s.rows : \E j \in DOMAIN VisiblePages(s) : VisiblePages(s)[j] = s.rows[i]
  <1>1. CASE s.desc
    <2>1. Len(s.rows) \in Nat /\ VisiblePages(s) = [i \in 1..Len(s.rows) |-> s.rows[(Len(s.rows) - i) + 1]]
      BY <1>1 DEF VisiblePages, Reverse
    <2>2. \A i \in 1..Len(s.rows) : (Len(s.rows) - i) + 1 \in 1..Len(s.rows) /\ s.rows[(Len(s.rows) - i) + 1] \in Nat
      BY <2>1, ElementOfSeq
    <2>3. VisiblePages(s) \in Seq(Nat) /\ Len(VisiblePages(s)) = Len(s.rows)
      BY <2>1, <2>2
    <2>4. ASSUME NEW i \in DOMAIN s.rows
          PROVE  \E j \in DOMAIN VisiblePages(s) : VisiblePages(s)[j] = s.rows[i]
      <3>1. (Len(s.rows) - i) + 1 \in 1..Len(s.rows) /\ (Len(s.rows) - ((Len(s.rows) - i) + 1)) + 1 = i
        BY <2>1
      <3>2. QED
        BY <2>1, <3>1
    <2>5. QED
      BY <2>3, <2>4
  <1>2. CASE ~s.desc
    BY <1>2 DEF VisiblePages
  <1>3. QED
    BY <1>1, <1>2

(* The cursor goes to the page in focus, if it is listed.                  *)
LEMMA Focus ==
  ASSUME NEW s \in ListRow
  PROVE  LET t == FocusAnyRows(s)
         IN  /\ t \in ListRow /\ t.focusBlkno = NoBlock
             /\ t.start = s.start /\ t.rows = s.rows /\ t.loading = s.loading /\ t.read = s.read
             /\ s.focusBlkno = NoBlock => t = s
             /\ s.focusBlkno # NoBlock /\ (\E i \in DOMAIN s.rows : s.rows[i] = s.focusBlkno) => StandsOn(t, s.focusBlkno)
  <1> DEFINE want == s.focusBlkno
             I == {i \in 1..Len(VisiblePages(s)) : VisiblePages(s)[i] = want}
             at == SelectInSeq(VisiblePages(s), LAMBDA b : b = want)
             t == FocusAnyRows(s)
  <1>1. s.rows \in Seq(Nat) /\ s.desc \in BOOLEAN /\ s.cursor \in Nat
    BY DEF ListRow
  <1>2. VisiblePages(s) \in Seq(Nat) /\ DOMAIN VisiblePages(s) = 1..Len(VisiblePages(s)) /\ Len(VisiblePages(s)) \in Nat
    BY <1>1, Visible
  <1>3. at = IF I # {} THEN Min(I) ELSE 0
    BY DEF SelectInSeq
  <1>4. at \in Nat /\ (at = 0 => I = {}) /\ (at # 0 => at \in I)
    <2>1. I \in SUBSET Nat /\ 0 \notin I
      BY <1>2
    <2> HIDE DEF I, at
    <2>2. I # {} => Min(I) \in I
      BY <2>1, MinOf
    <2>3. QED
      BY <1>3, <2>1, <2>2
  <1>5. t = IF want = NoBlock THEN s ELSE [s EXCEPT !.focusBlkno = NoBlock, !.cursor = IF at = 0 THEN @ ELSE at]
    BY DEF FocusAnyRows
  <1> HIDE DEF at, t, I
  <1>6. NoBlock \in Nat /\ (IF at = 0 THEN s.cursor ELSE at) \in Nat
    BY <1>1, <1>4 DEF NoBlock
  <1>7. /\ t \in ListRow /\ t.focusBlkno = NoBlock
        /\ t.start = s.start /\ t.rows = s.rows /\ t.loading = s.loading /\ t.read = s.read /\ t.desc = s.desc
        /\ want = NoBlock => t = s
        /\ want # NoBlock /\ at # 0 => t.cursor = at
    BY <1>5, <1>6 DEF ListRow
  <1>8. ASSUME want # NoBlock, NEW i \in DOMAIN s.rows, s.rows[i] = want
        PROVE  StandsOn(t, want)
    <2>1. PICK j \in DOMAIN VisiblePages(s) : VisiblePages(s)[j] = want
      BY <1>1, <1>8, Visible
    <2>2. at # 0 /\ at \in DOMAIN VisiblePages(s) /\ VisiblePages(s)[at] = want
      BY <1>2, <1>4, <2>1 DEF I
    <2>3. VisiblePages(t) = VisiblePages(s)
      BY <1>7 DEF VisiblePages
    <2>4. QED
      BY <1>7, <1>8, <2>2, <2>3 DEF StandsOn
  <1>9. QED
    BY <1>7, <1>8 DEF t

LEMMA InRowsTypes ==
  ASSUME NEW s \in ListRow
  PROVE  LET t == InRows(s)
         IN  /\ t \in ListRow /\ t.focusBlkno = s.focusBlkno
             /\ t.start = s.start /\ t.rows = s.rows /\ t.loading = s.loading /\ t.read = s.read
             /\ s.cursor <= Len(s.rows) => t = s
  <1>1. s.rows \in Seq(Nat) /\ s.cursor \in Nat
    BY DEF ListRow
  <1> DEFINE c == IF s.cursor > Len(s.rows) THEN IF s.rows = <<>> THEN 1 ELSE Len(s.rows) ELSE s.cursor
  <1>2. c \in Nat /\ (s.cursor <= Len(s.rows) => c = s.cursor)
    BY <1>1
  <1>3. InRows(s) = [s EXCEPT !.cursor = c]
    BY DEF InRows
  <1> HIDE DEF c
  <1>4. [s EXCEPT !.cursor = s.cursor] = s
    BY DEF ListRow
  <1>5. QED
    BY <1>2, <1>3, <1>4 DEF ListRow

LEMMA NextLeaf ==
  ASSUME NEW from \in Int, NEW e \in Epochs
  PROVE  LET b == NextGinDataLeaf(from, RelationAt[e].pages, RelationAt[e].leaves)
         IN  b \in Nat /\ (b # NoBlock => Leaf(e, b))
  <1> DEFINE pages == RelationAt[e].pages
             leaves == RelationAt[e].leaves
             at == IF from > 1 THEN from ELSE 1
             after == {b \in leaves : b >= at /\ b < pages}
             before == {b \in leaves : b >= 1 /\ b < at /\ b < pages}
             found == NextGinDataLeaf(from, pages, leaves)
  <1>1. pages \in Nat /\ leaves \in SUBSET Nat
    BY EpochTypes
  <1>2. at \in Nat /\ at >= 1
    OBVIOUS
  <1>3. found = IF after # {} THEN Min(after) ELSE IF before # {} THEN Min(before) ELSE NoBlock
    BY DEF NextGinDataLeaf
  <1> HIDE DEF pages, leaves, at, found
  <1>4. \A b \in leaves : b \in Nat
    BY <1>1
  <1>5. \A b \in after \cup before : b \in leaves /\ b \in Nat /\ b \in 1..(pages - 1)
    BY <1>1, <1>2, <1>4
  <1> HIDE DEF after, before
  <1>6. after \in SUBSET Nat /\ before \in SUBSET Nat
    BY <1>5
  <1>7. found \in (after \cup before) \cup {NoBlock}
    BY <1>3, <1>6, MinOf
  <1>8. found \in Nat /\ (found # NoBlock => found \in leaves /\ found \in 1..(pages - 1))
    BY <1>5, <1>7 DEF NoBlock
  <1>9. QED
    BY <1>8 DEF found, pages, leaves, Leaf

(* A load is numbered apart from the others.                               *)
LEMMA Numbered ==
  ASSUME NEW S, IsFiniteSet(S), NEW load \in LoadRow
  PROVE  [load EXCEPT !.nth = CHOOSE n \in 1..(Cardinality(S) + 1) : [load EXCEPT !.nth = n] \notin S] \in LoadRow
  <1> DEFINE N == 1..(Cardinality(S) + 1)
             f == [n \in N |-> [load EXCEPT !.nth = n]]
  <1>1. Cardinality(S) \in Nat
    BY FS_CardinalityType
  <1>2. IsFiniteSet(N) /\ Cardinality(N) = Cardinality(S) + 1
    BY <1>1, FS_Interval
  <1>3. \A n \in N : [load EXCEPT !.nth = n].nth = n
    BY DEF LoadRow
  <1>4. \E n \in N : [load EXCEPT !.nth = n] \notin S
    <2> SUFFICES ASSUME \A n \in N : [load EXCEPT !.nth = n] \in S
                 PROVE  FALSE
      OBVIOUS
    <2>1. f \in [N -> S] /\ \A n \in N : f[n].nth = n
      BY <1>3
    <2> HIDE DEF f, N
    <2>2. \E x, y \in N : x # y /\ f[x] = f[y]
      BY <1>1, <1>2, <2>1, FS_PigeonHole
    <2>3. QED
      BY <2>1, <2>2
  <1> DEFINE m == CHOOSE n \in N : [load EXCEPT !.nth = n] \notin S
  <1>5. m \in N
    BY <1>4
  <1>6. N \subseteq Nat
    BY <1>1
  <1> HIDE DEF m, N
  <1>7. [load EXCEPT !.nth = m] \in LoadRow
    BY <1>5, <1>6 DEF LoadRow
  <1>8. QED
    BY <1>7 DEF m, N

LEMMA NewLoad ==
  ASSUME WindowTypes, NEW s \in ListRow
  PROVE  LET loads == WithWindow(WindowLoad(s))
         IN  /\ loads \in SUBSET LoadRow /\ IsFiniteSet(loads)
             /\ \A l \in loads : l \in windowLoads \/ (l.seen = 0 /\ l.rows = <<>>)
  <1> DEFINE load == WindowLoad(s)
             new == [load EXCEPT !.nth = CHOOSE n \in 1..(Cardinality(windowLoads) + 1) : [load EXCEPT !.nth = n] \notin windowLoads]
  <1>1. s.am = windowOf.am /\ s.start \in Nat
    BY DEF ListRow
  <1>2. load = [am |-> s.am, start |-> s.start, seen |-> 0, missing |-> FALSE, failed |-> FALSE, rows |-> <<>>, nth |-> 1]
    BY DEF WindowLoad
  <1>3. load \in LoadRow /\ load.seen = 0 /\ load.rows = <<>>
    <2>1. 0 \in Nat /\ 1 \in Nat /\ <<>> \in Seq(Nat)
      OBVIOUS
    <2>2. QED
      BY <1>1, <1>2, <2>1 DEF LoadRow
  <1>4. new \in LoadRow
    BY <1>3, Numbered DEF WindowTypes
  <1>5. new.seen = 0 /\ new.rows = <<>>
    BY <1>3 DEF LoadRow
  <1>6. WithWindow(load) = windowLoads \cup {new}
    BY DEF WithWindow
  <1> HIDE DEF new, load
  <1>7. IsFiniteSet(windowLoads \cup {new})
    BY FS_AddElement DEF WindowTypes
  <1>8. QED
    BY <1>4, <1>5, <1>6, <1>7 DEF WindowTypes, load

(* loadCurrent: the window of the screen is asked for.                     *)
LEMMA LoadsEffect ==
  ASSUME WindowInv, NEW s \in ListRow, s.read \in 0..server.epoch, Loads(s),
         server'.epoch = server.epoch, UNCHANGED windowOf
  PROVE  /\ list' \in ListRow /\ list'.open /\ list'.loading /\ ListSound'
         /\ list'.start = s.start /\ list'.rows = s.rows /\ list'.desc = s.desc /\ list'.cursor = s.cursor
         /\ list'.focusBlkno = s.focusBlkno /\ list'.read = s.read /\ list'.am = s.am
         /\ windowLoads' \in SUBSET LoadRow /\ IsFiniteSet(windowLoads') /\ \A l \in windowLoads' : LoadSound(l)'
  <1>1. /\ list' \in ListRow /\ list'.open /\ list'.loading
        /\ list'.start = s.start /\ list'.rows = s.rows /\ list'.desc = s.desc /\ list'.cursor = s.cursor
        /\ list'.focusBlkno = s.focusBlkno /\ list'.read = s.read /\ list'.am = s.am
    BY DEF Loads, ListRow
  <1>2. ListSound'
    BY <1>1 DEF ListSound
  <1>3. windowLoads' = WithWindow(WindowLoad(s))
    BY DEF Loads
  <1>4. server.epoch \in Nat
    BY DEF WindowInv, WindowTypes, Epochs
  <1>5. \A l \in windowLoads' : LoadSound(l)'
    <2> TAKE l \in windowLoads'
    <2>1. CASE l \in windowLoads
      BY <2>1 DEF WindowInv, LoadSound, ListedAt
    <2>2. CASE l.seen = 0 /\ l.rows = <<>>
      BY <1>4, <2>2 DEF LoadSound
    <2>3. QED
      BY <1>3, <2>1, <2>2, NewLoad DEF WindowInv
  <1>6. QED
    BY <1>1, <1>2, <1>3, <1>5, NewLoad DEF WindowInv

(* Whatever ends what a search promised only has the list and the loads to *)
(* keep.                                                                   *)
LEMMA Unsought ==
  ASSUME WindowInv, sought' = NoBlock, UNCHANGED <<server, windowOf>>,
         list' \in ListRow \cup {NoList}, list'.open => ListSound',
         windowLoads' \in SUBSET LoadRow, IsFiniteSet(windowLoads'), \A l \in windowLoads' : LoadSound(l)',
         leafSearch' \in SearchRow \cup {NoSearch}, SearchSound'
  PROVE  WindowInv'
  <1>1. ListRow' = ListRow /\ LoadRow' = LoadRow
    BY DEF ListRow, LoadRow
  <1>2. sought' \in Nat
    BY DEF NoBlock
  <1>3. WindowTypes'
    BY <1>1, <1>2 DEF WindowInv, WindowTypes, SearchRow
  <1>4. SoughtSound'
    BY DEF SoughtSound
  <1>5. QED
    BY <1>3, <1>4 DEF WindowInv

(* What stays as it is.                                                    *)
LEMMA LoadsStay ==
  ASSUME WindowInv, UNCHANGED <<windowLoads, windowOf>>, server'.epoch = server.epoch
  PROVE  windowLoads' \in SUBSET LoadRow /\ IsFiniteSet(windowLoads') /\ \A l \in windowLoads' : LoadSound(l)'
  BY DEF WindowInv, WindowTypes, LoadSound, ListedAt

LEMMA SearchStays ==
  ASSUME WindowInv, UNCHANGED leafSearch, server'.epoch = server.epoch
  PROVE  leafSearch' \in SearchRow \cup {NoSearch} /\ SearchSound'
  BY DEF WindowInv, WindowTypes, SearchSound, Leaf, SearchRow

LEMMA OpenRow ==
  ASSUME WindowInv
  PROVE  /\ list.open => list \in ListRow /\ ListSound
         /\ ~list.open => list = NoList /\ sought = NoBlock
         /\ server.epoch \in Epochs /\ server.epoch \in Nat /\ server.epoch > 0 /\ server.ext \in BOOLEAN
  <1>1. NoList.open = FALSE /\ \A s \in ListRow : s.open = TRUE
    BY DEF NoList, ListRow
  <1>2. server.epoch \in Epochs /\ server.ext \in BOOLEAN
    BY DEF WindowInv, WindowTypes
  <1>3. server.epoch \in Nat /\ server.epoch > 0
    BY <1>2 DEF Epochs
  <1>4. QED
    BY <1>1, <1>2, <1>3 DEF WindowInv, WindowTypes, SoughtSound

-----------------------------------------------------------------------------
(* Keys.                                                                   *)
LEMMA ToWindowTypes ==
  ASSUME NEW s \in ListRow, NEW start \in Nat
  PROVE  /\ ToWindow(s, start) \in ListRow /\ ToWindow(s, start).read = s.read
         /\ ToWindow(s, start).start = start /\ ToWindow(s, start).focusBlkno = s.focusBlkno
  <1>1. 1 \in Nat
    OBVIOUS
  <1>2. QED
    BY <1>1 DEF ToWindow, ListRow

LEMMA PagingKeeps ==
  ASSUME WindowInv, PageDown \/ PageUp \/ ReloadPages
  PROVE  WindowInv'
  <1>1. OnList /\ UNCHANGED leafSearch
    BY DEF PageDown, PageUp, ReloadPages
  <1>2. list \in ListRow /\ list.read \in 0..server.epoch /\ list.start \in Nat
    BY <1>1, OpenRow DEF OnList, ListSound, ListRow
  <1>3. WindowCount \in Nat
    BY WindowAssumption
  <1>4. PICK s \in ListRow : s.read = list.read /\ Loads(s)
    <2>1. CASE PageDown
      <3>1. list.start + WindowCount \in Nat
        BY <1>2, <1>3
      <3>2. Loads(ToWindow(list, list.start + WindowCount))
        BY <2>1 DEF PageDown
      <3>3. QED
        BY <1>2, <3>1, <3>2, ToWindowTypes
    <2>2. CASE PageUp
      <3>1. (IF list.start > WindowCount THEN list.start - WindowCount ELSE 0) \in Nat
        BY <1>2, <1>3
      <3>2. QED
        BY <1>2, <2>2, <3>1, ToWindowTypes DEF PageUp
    <2>3. CASE ReloadPages
      BY <1>2, <2>3 DEF ReloadPages
    <2>4. QED
      BY <2>1, <2>2, <2>3
  <1>5. sought' = NoBlock /\ UNCHANGED <<server, windowOf>>
    BY <1>1 DEF OnList
  <1>6. QED
    BY <1>1, <1>2, <1>4, <1>5, LoadsEffect, SearchStays, Unsought

LEMMA StayKeysKeep ==
  ASSUME WindowInv,
         (\E by \in {-1, 1} : StepPages(by)) \/ SortPages \/ LeaveList \/ TriggerInstall \/ JumpGinDataLeaf
  PROVE  WindowInv'
  <1>1. OnList /\ UNCHANGED windowLoads
    BY DEF StepPages, SortPages, LeaveList, TriggerInstall, JumpGinDataLeaf
  <1>2. list \in ListRow /\ ListSound
    BY <1>1, OpenRow DEF OnList
  <1>3. sought' = NoBlock /\ UNCHANGED <<server, windowOf>>
    BY <1>1 DEF OnList
  <1>4. list' \in ListRow \cup {NoList} /\ (list'.open => ListSound')
    <2>1. ASSUME NEW by \in {-1, 1}, StepPages(by)
          PROVE  list' \in ListRow /\ ListSound'
      <3>1. list.rows \in Seq(Nat)
        BY <1>2 DEF ListRow
      <3>2. list.cursor + by \in Nat
        BY <2>1, <3>1 DEF StepPages
      <3>3. list' = [list EXCEPT !.cursor = list.cursor + by]
        BY <2>1 DEF StepPages
      <3>4. list' \in ListRow /\ list'.rows = list.rows /\ list'.read = list.read /\ list'.loading = list.loading
              /\ list'.start = list.start /\ list'.am = list.am
        BY <1>2, <3>2, <3>3 DEF ListRow
      <3>5. QED
        BY <1>2, <1>3, <3>4 DEF ListSound, ListedAt
    <2>2. ASSUME SortPages
          PROVE  list' \in ListRow /\ ListSound'
      <3>1. list' = [list EXCEPT !.desc = ~list.desc] /\ list.desc \in BOOLEAN
        BY <1>2, <2>2 DEF SortPages, ListRow
      <3>2. list' \in ListRow /\ list'.rows = list.rows /\ list'.read = list.read /\ list'.loading = list.loading
              /\ list'.start = list.start /\ list'.am = list.am
        BY <1>2, <3>1 DEF ListRow
      <3>3. QED
        BY <1>2, <1>3, <3>2 DEF ListSound, ListedAt
    <2>3. ASSUME TriggerInstall \/ JumpGinDataLeaf
          PROVE  list' \in ListRow /\ ListSound'
      <3>1. list' \in ListRow /\ list'.rows = list.rows /\ list'.read = list.read /\ list'.loading = list.loading
              /\ list'.start = list.start /\ list'.am = list.am
        BY <1>2, <2>3 DEF ListRow, TriggerInstall, JumpGinDataLeaf
      <3>2. QED
        BY <1>2, <1>3, <3>1 DEF ListSound, ListedAt
    <2>4. ASSUME LeaveList
          PROVE  list' = NoList /\ ~list'.open
      BY <2>4 DEF LeaveList, NoList
    <2>5. QED
      BY <2>1, <2>2, <2>3, <2>4
  <1>5. leafSearch' \in SearchRow \cup {NoSearch} /\ SearchSound'
    <2>1. CASE UNCHANGED leafSearch
      BY <1>3, <2>1, SearchStays
    <2>2. CASE JumpGinDataLeaf
      <3>1. list.rows \in Seq(Nat) /\ list.start \in Nat /\ list.desc \in BOOLEAN
        BY <1>2 DEF ListRow
      <3>2. OnPage(list) => PageAt(list) \in Nat
        <4>1. VisiblePages(list) \in Seq(Nat)
          BY <3>1, Visible
        <4>2. QED
          BY <4>1 DEF OnPage, PageAt
      <3>3. (IF OnPage(list) THEN PageAt(list) + 1 ELSE list.start) \in Int
        BY <3>1, <3>2
      <3>4. leafSearch' \in SearchRow /\ leafSearch'.seen = 0
        BY <2>2, <3>3 DEF JumpGinDataLeaf, SearchRow, NoBlock
      <3>5. QED
        BY <3>4 DEF SearchSound
    <2>3. QED
      BY <2>1, <2>2 DEF StepPages, SortPages, LeaveList, TriggerInstall
  <1>6. QED
    BY <1>1, <1>3, <1>4, <1>5, LoadsStay, Unsought

(* Opening the list asks for its first window.                             *)
LEMMA OpenListKeeps ==
  ASSUME WindowInv, OpenList
  PROVE  WindowInv'
  <1> DEFINE s == ListScreen(windowOf.am, windowOf.start)
  <1>1. Loads(s) /\ ~list.open /\ UNCHANGED <<leafSearch, server, sought, windowOf>>
    BY DEF OpenList
  <1>2. sought' = NoBlock
    BY <1>1, OpenRow
  <1>3. windowOf.start \in Nat
    BY WindowAssumption DEF WindowInv, WindowTypes
  <1>4. s \in ListRow /\ s.read = 0
    <2>1. 0 \in Nat /\ 1 \in Nat /\ <<>> \in Seq(Nat) /\ NoBlock \in Nat
      BY DEF NoBlock
    <2>2. s = [open |-> TRUE, am |-> windowOf.am, start |-> windowOf.start, total |-> 0, rows |-> <<>>, desc |-> FALSE,
               cursor |-> 1, loading |-> TRUE, focusBlkno |-> NoBlock, ginSeeking |-> FALSE, ginLeaves |-> TRUE,
               levels |-> "none", prompt |-> FALSE, installing |-> FALSE, read |-> 0]
      BY DEF ListScreen
    <2>3. QED
      BY <1>3, <2>1, <2>2 DEF ListRow
  <1> HIDE DEF s
  <1>5. s.read \in 0..server.epoch
    BY <1>4, OpenRow
  <1>6. QED
    BY <1>1, <1>2, <1>4, <1>5, LoadsEffect, SearchStays, Unsought

-----------------------------------------------------------------------------
(* The server, and what comes back from it.                                *)
LEMMA RelationChangesKeeps ==
  ASSUME WindowInv, RelationChanges
  PROVE  WindowInv'
  <1>1. /\ server' = [server EXCEPT !.epoch = server.epoch + 1] /\ server.epoch < Len(RelationAt) /\ sought' = NoBlock
        /\ UNCHANGED <<list, windowLoads, leafSearch, windowOf>>
    BY DEF RelationChanges
  <1>2. Len(RelationAt) \in Nat
    BY WindowAssumption
  <1>3. server.epoch \in Nat /\ server.epoch + 1 \in Epochs
    BY <1>1, <1>2, OpenRow DEF Epochs
  <1>4. server' \in [epoch : Epochs, ext : BOOLEAN] /\ server'.epoch = server.epoch + 1
    BY <1>1, <1>3 DEF WindowInv, WindowTypes
  <1>5. \A n \in Int : n <= server.epoch => n <= server'.epoch
    BY <1>3, <1>4
  <1>6. WindowTypes'
    <2>1. ListRow' = ListRow /\ LoadRow' = LoadRow
      BY <1>1 DEF ListRow, LoadRow
    <2>2. sought' \in Nat
      BY <1>1 DEF NoBlock
    <2>3. QED
      BY <1>1, <1>4, <2>1, <2>2 DEF WindowInv, WindowTypes, SearchRow
  <1>7. \A l \in windowLoads' : LoadSound(l)'
    <2> TAKE l \in windowLoads'
    <2>1. LoadSound(l)
      BY <1>1 DEF WindowInv
    <2>2. l.seen \in 0..server'.epoch
      BY <1>3, <1>4, <2>1 DEF LoadSound
    <2>3. QED
      BY <2>1, <2>2 DEF LoadSound, ListedAt
  <1>8. list'.open => ListSound'
    <2> SUFFICES ASSUME list.open
                 PROVE  ListSound'
      BY <1>1
    <2>1. list \in ListRow /\ ListSound
      BY OpenRow
    <2>2. list.read \in 0..server'.epoch
      BY <1>3, <1>4, <2>1 DEF ListSound
    <2>3. QED
      BY <1>1, <2>1, <2>2 DEF ListSound, ListedAt
  <1>9. SearchSound'
    <2> SUFFICES ASSUME leafSearch.seen > 0
                 PROVE  leafSearch.seen <= server'.epoch /\ (leafSearch.found # NoBlock => Leaf(leafSearch.seen, leafSearch.found))
      BY <1>1 DEF SearchSound, Leaf
    <2>1. leafSearch.seen <= server.epoch /\ (leafSearch.found # NoBlock => Leaf(leafSearch.seen, leafSearch.found))
      BY DEF WindowInv, SearchSound
    <2>2. leafSearch.seen \in Int
      <3>1. NoSearch.seen \in Int /\ \A f \in SearchRow : f.seen \in Int
        BY DEF NoSearch, SearchRow
      <3>2. QED
        BY <3>1 DEF WindowInv, WindowTypes
    <2>3. QED
      BY <1>5, <2>1, <2>2
  <1>10. SoughtSound'
    BY <1>1 DEF SoughtSound
  <1>11. QED
    BY <1>6, <1>7, <1>8, <1>9, <1>10 DEF WindowInv

(* What a search promised is kept by a list that only awaits more.         *)
LEMMA SoughtStays ==
  ASSUME WindowInv, list' \in ListRow, list.open, UNCHANGED <<sought, windowOf>>, server'.epoch = server.epoch,
         list'.loading \/ ~list.loading, list'.am = list.am, list'.start = list.start, list'.rows = list.rows, list'.desc = list.desc,
         list'.cursor = list.cursor, list'.focusBlkno = list.focusBlkno, list'.read = list.read
  PROVE  SoughtSound'
  <1>1. list'.open
    BY DEF ListRow
  <1>2. VisiblePages(list)' = VisiblePages(list)
    BY DEF VisiblePages
  <1>3. StandsOn(list, sought)' = StandsOn(list, sought)
    BY <1>2 DEF StandsOn
  <1>4. ListedAt(list, list.read)' = ListedAt(list, list.read)
    BY DEF ListedAt
  <1>5. InWindow(list, sought)' = InWindow(list, sought) /\ Leaf(server.epoch, sought)' = Leaf(server.epoch, sought)
    BY DEF InWindow, Leaf
  <1>6. SoughtSound
    BY DEF WindowInv
  <1>7. QED
    BY <1>1, <1>3, <1>4, <1>5, <1>6 DEF SoughtSound

(* Everything, from its parts.                                             *)
LEMMA Together ==
  ASSUME WindowInv, UNCHANGED windowOf, server' \in [epoch : Epochs, ext : BOOLEAN],
         list' \in ListRow \cup {NoList}, list'.open => ListSound',
         windowLoads' \in SUBSET LoadRow, IsFiniteSet(windowLoads'), \A l \in windowLoads' : LoadSound(l)',
         leafSearch' \in SearchRow \cup {NoSearch}, SearchSound', sought' \in Nat, SoughtSound'
  PROVE  WindowInv'
  <1>1. ListRow' = ListRow /\ LoadRow' = LoadRow
    BY DEF ListRow, LoadRow
  <1>2. WindowTypes'
    BY <1>1 DEF WindowInv, WindowTypes, SearchRow
  <1>3. QED
    BY <1>2 DEF WindowInv

(* A list that is left alone.                                              *)
LEMMA ListStays ==
  ASSUME WindowInv, UNCHANGED <<list, sought, windowOf>>, server'.epoch = server.epoch
  PROVE  list' \in ListRow \cup {NoList} /\ (list'.open => ListSound') /\ sought' \in Nat /\ SoughtSound'
  <1>1. list \in ListRow \cup {NoList} /\ (list.open => ListSound) /\ sought \in Nat /\ SoughtSound
    BY DEF WindowInv, WindowTypes
  <1>2. ListSound' = ListSound
    BY DEF ListSound, ListedAt
  <1>3. SoughtSound'
    <2>1. CASE list.open
      <3>1. list' \in ListRow /\ list.loading \in BOOLEAN
        BY <2>1, OpenRow DEF ListRow
      <3>2. list'.loading \/ ~list.loading
        BY <3>1
      <3>3. QED
        BY <2>1, <3>1, <3>2, SoughtStays
    <2>2. CASE ~list.open
      BY <2>2, OpenRow DEF SoughtSound
    <2>3. QED
      BY <2>1, <2>2
  <1>4. QED
    BY <1>1, <1>2, <1>3

LEMMA InstalledKeeps ==
  ASSUME WindowInv, OnExtInstalled
  PROVE  WindowInv'
  <1>1. server' = [server EXCEPT !.ext = TRUE] /\ UNCHANGED <<leafSearch, sought, windowOf>>
    BY DEF OnExtInstalled
  <1>2. server' \in [epoch : Epochs, ext : BOOLEAN] /\ server'.epoch = server.epoch
    BY <1>1 DEF WindowInv, WindowTypes
  <1>3. leafSearch' \in SearchRow \cup {NoSearch} /\ SearchSound'
    BY <1>1, <1>2, SearchStays
  <1>4. sought' \in Nat
    BY <1>1 DEF WindowInv, WindowTypes
  <1>5. CASE list.open /\ list.prompt
    <2>1. Loads(list)
      BY <1>5 DEF OnExtInstalled
    <2>2. list \in ListRow /\ list.read \in 0..server.epoch
      BY <1>5, OpenRow DEF ListSound
    <2>3. /\ list' \in ListRow /\ list'.open /\ list'.loading /\ ListSound'
          /\ list'.start = list.start /\ list'.rows = list.rows /\ list'.desc = list.desc /\ list'.cursor = list.cursor
          /\ list'.focusBlkno = list.focusBlkno /\ list'.read = list.read /\ list'.am = list.am
          /\ windowLoads' \in SUBSET LoadRow /\ IsFiniteSet(windowLoads') /\ \A l \in windowLoads' : LoadSound(l)'
      BY <1>1, <1>2, <2>1, <2>2, LoadsEffect
    <2>4. SoughtSound'
      BY <1>1, <1>2, <1>5, <2>3, SoughtStays
    <2>5. QED
      BY <1>1, <1>2, <1>3, <1>4, <2>3, <2>4, Together
  <1>6. CASE ~(list.open /\ list.prompt)
    <2>1. UNCHANGED <<list, windowLoads>>
      BY <1>6 DEF OnExtInstalled
    <2>2. QED
      BY <1>1, <1>2, <1>3, <2>1, ListStays, LoadsStay, Together
  <1>7. QED
    BY <1>5, <1>6

LEMMA ListedKeeps ==
  ASSUME WindowInv, NEW load \in windowLoads, WindowIsListed(load)
  PROVE  WindowInv'
  <1>1. UNCHANGED <<list, leafSearch, server, sought, windowOf>>
    BY DEF WindowIsListed
  <1>2. load \in LoadRow /\ server.epoch \in Epochs /\ server.epoch \in Nat /\ server.ext \in BOOLEAN
    BY OpenRow DEF WindowInv, WindowTypes
  <1>3. PICK fails \in BOOLEAN :
          windowLoads' = (windowLoads \ {load}) \cup
            {[load EXCEPT !.seen = server.epoch, !.missing = ~server.ext, !.failed = server.ext /\ fails,
                          !.rows = IF server.ext /\ ~fails THEN ListPageWindow(load.am, load.start, Relation.pages) ELSE <<>>]}
    <2>1. Fails \subseteq BOOLEAN
      BY DEF Fails
    <2>2. QED
      BY <2>1 DEF WindowIsListed
  <1> DEFINE pageRows == IF server.ext /\ ~fails THEN ListPageWindow(load.am, load.start, Relation.pages) ELSE <<>>
             missing == ~server.ext
             failed == server.ext /\ fails
             new == [load EXCEPT !.seen = server.epoch, !.missing = missing, !.failed = failed, !.rows = pageRows]
  <1>4. pageRows \in Seq(Nat)
    <2>1. load.start \in Nat
      BY <1>2 DEF LoadRow
    <2>2. Relation.pages \in Nat
      BY <1>2, EpochTypes DEF Relation
    <2>3. ListPageWindow(load.am, load.start, Relation.pages) \in Seq(Nat)
      BY <2>1, <2>2, ListingSpans
    <2>4. QED
      BY <2>3
  <1>5. pageRows = IF missing \/ failed THEN <<>> ELSE ListedAt(load, server.epoch)
    BY <1>2 DEF ListedAt, Relation
  <1>6. missing \in BOOLEAN /\ failed \in BOOLEAN
    OBVIOUS
  <1>7. windowLoads' = (windowLoads \ {load}) \cup {new}
    BY <1>3
  <1> HIDE DEF pageRows, missing, failed
  <1>8. /\ new \in LoadRow /\ new.seen = server.epoch /\ new.missing = missing /\ new.failed = failed /\ new.rows = pageRows
        /\ new.am = load.am /\ new.start = load.start
    BY <1>2, <1>4, <1>6 DEF LoadRow
  <1> HIDE DEF new
  <1>9. LoadSound(new)
    <2>1. server.epoch \in 0..server.epoch /\ server.epoch # 0
      BY <1>2, OpenRow
    <2>2. ListedAt(new, server.epoch) = ListedAt(load, server.epoch)
      BY <1>8 DEF ListedAt
    <2>3. QED
      BY <1>5, <1>8, <2>1, <2>2 DEF LoadSound
  <1>10. windowLoads' \in SUBSET LoadRow /\ IsFiniteSet(windowLoads')
    <2>1. IsFiniteSet(windowLoads \ {load})
      BY FS_RemoveElement DEF WindowInv, WindowTypes
    <2>2. QED
      BY <1>7, <1>8, <2>1, FS_AddElement DEF WindowInv, WindowTypes
  <1>11. \A l \in windowLoads' : LoadSound(l)'
    <2>1. \A l \in windowLoads' : LoadSound(l)
      BY <1>7, <1>9 DEF WindowInv
    <2>2. QED
      BY <1>1, <2>1 DEF LoadSound, ListedAt
  <1>12. server' \in [epoch : Epochs, ext : BOOLEAN]
    BY <1>1 DEF WindowInv, WindowTypes
  <1>13. QED
    BY <1>1, <1>10, <1>11, <1>12, ListStays, SearchStays, Together

LEMMA LeafIsSoughtKeeps ==
  ASSUME WindowInv, LeafIsSought
  PROVE  WindowInv'
  <1>1. UNCHANGED <<list, windowLoads, server, sought, windowOf>>
    BY DEF LeafIsSought
  <1>2. server.epoch \in Epochs /\ server.epoch \in Nat /\ server \in [epoch : Epochs, ext : BOOLEAN]
    BY OpenRow DEF WindowInv, WindowTypes
  <1>3. leafSearch \in SearchRow
    <2>1. NoSearch.seen = -1 /\ leafSearch.seen = 0
      BY DEF NoSearch, LeafIsSought
    <2>2. leafSearch # NoSearch
      BY <2>1
    <2>3. QED
      BY <2>2 DEF WindowInv, WindowTypes
  <1>4. PICK fails :
          leafSearch' = [leafSearch EXCEPT !.seen = server.epoch,
            !.found = IF server.ext /\ ~fails THEN NextGinDataLeaf(leafSearch.from, Relation.pages, Relation.leaves) ELSE NoBlock]
    BY DEF LeafIsSought
  <1> DEFINE found == IF server.ext /\ ~fails THEN NextGinDataLeaf(leafSearch.from, Relation.pages, Relation.leaves) ELSE NoBlock
  <1>5. found \in Nat /\ (found # NoBlock => Leaf(server.epoch, found))
    <2>1. leafSearch.from \in Int
      BY <1>3 DEF SearchRow
    <2> DEFINE next == NextGinDataLeaf(leafSearch.from, Relation.pages, Relation.leaves)
    <2>2. next \in Nat /\ (next # NoBlock => Leaf(server.epoch, next))
      BY <1>2, <2>1, NextLeaf DEF Relation
    <2>3. NoBlock \in Nat
      BY DEF NoBlock
    <2> HIDE DEF next
    <2>4. QED
      BY <2>2, <2>3 DEF next
  <1>6. leafSearch' = [leafSearch EXCEPT !.seen = server.epoch, !.found = found]
    BY <1>4
  <1> HIDE DEF found
  <1>7. leafSearch' \in SearchRow /\ leafSearch'.seen = server.epoch /\ leafSearch'.found = found
    BY <1>2, <1>3, <1>5, <1>6 DEF SearchRow
  <1>8. SearchSound'
    BY <1>1, <1>2, <1>5, <1>7 DEF SearchSound, Leaf
  <1>9. QED
    BY <1>1, <1>2, <1>7, <1>8, ListStays, LoadsStay, Together

LEMMA DropsKeeps ==
  ASSUME WindowInv, NEW load \in windowLoads, DropsWindow(load)
  PROVE  WindowInv'
  <1>1. UNCHANGED <<list, leafSearch, server, sought, windowOf>> /\ windowLoads' = windowLoads \ {load}
    BY DEF DropsWindow
  <1>2. server' \in [epoch : Epochs, ext : BOOLEAN]
    BY <1>1 DEF WindowInv, WindowTypes
  <1>3. windowLoads' \in SUBSET LoadRow /\ IsFiniteSet(windowLoads')
    BY <1>1, FS_RemoveElement DEF WindowInv, WindowTypes
  <1>4. \A l \in windowLoads' : LoadSound(l)'
    BY <1>1 DEF WindowInv, LoadSound, ListedAt
  <1>5. QED
    BY <1>1, <1>2, <1>3, <1>4, ListStays, SearchStays, Together

LEMMA LevelsKeep ==
  ASSUME WindowInv, NEW census \in censuses, OnBtreeLevelsLoaded(census)
  PROVE  WindowInv'
  <1>1. UNCHANGED <<windowLoads, leafSearch, server, sought, windowOf>>
    BY DEF OnBtreeLevelsLoaded
  <1>2. server' \in [epoch : Epochs, ext : BOOLEAN] /\ sought' \in Nat
    BY <1>1 DEF WindowInv, WindowTypes
  <1>3. CASE ~list.open
    <2>1. UNCHANGED list
      BY <1>3 DEF OnBtreeLevelsLoaded
    <2>2. QED
      BY <1>1, <1>2, <2>1, ListStays, LoadsStay, SearchStays, Together
  <1>4. CASE list.open
    <2>1. list \in ListRow /\ ListSound
      BY <1>4, OpenRow
    <2>2. /\ list' \in ListRow /\ list'.loading = list.loading
          /\ list'.start = list.start /\ list'.rows = list.rows /\ list'.desc = list.desc /\ list'.cursor = list.cursor
          /\ list'.focusBlkno = list.focusBlkno /\ list'.read = list.read /\ list'.am = list.am
      BY <1>4, <2>1 DEF OnBtreeLevelsLoaded, ListRow
    <2>3. ListSound'
      BY <1>1, <2>1, <2>2 DEF ListSound, ListedAt
    <2>4. SoughtSound'
      <3>1. list.loading \in BOOLEAN
        BY <2>1 DEF ListRow
      <3>2. list'.loading \/ ~list.loading
        BY <2>2, <3>1
      <3>3. QED
        BY <1>1, <1>4, <2>2, <3>2, SoughtStays
    <2>5. QED
      BY <1>1, <1>2, <2>2, <2>3, <2>4, LoadsStay, SearchStays, Together
  <1>5. QED
    BY <1>3, <1>4

-----------------------------------------------------------------------------
(* The rows of a window come in.                                           *)
LEMMA WithoutLoad ==
  ASSUME WindowInv, NEW load, windowLoads' = windowLoads \ {load}, UNCHANGED <<server, windowOf>>
  PROVE  windowLoads' \in SUBSET LoadRow /\ IsFiniteSet(windowLoads') /\ \A l \in windowLoads' : LoadSound(l)'
  <1>1. windowLoads' \in SUBSET LoadRow /\ IsFiniteSet(windowLoads')
    BY FS_RemoveElement DEF WindowInv, WindowTypes
  <1>2. \A l \in windowLoads' : LoadSound(l)'
    BY DEF WindowInv, LoadSound, ListedAt
  <1>3. QED
    BY <1>1, <1>2

LEMMA FocusKeeps ==
  ASSUME NEW s \in ListRow, s.loading = FALSE
  PROVE  FocusGinBlkno(s) = FocusAnyRows(s)
  BY DEF FocusGinBlkno

LEMMA PagesLoadedKeep ==
  ASSUME WindowInv, NEW load \in windowLoads, OnPagesLoadedOf(load)
  PROVE  WindowInv'
  <1>1. /\ load.seen # 0 /\ list.open /\ list.start = load.start /\ windowLoads' = windowLoads \ {load}
        /\ UNCHANGED <<leafSearch, server, windowOf>>
        /\ sought' = IF Current(load.seen) /\ ~load.missing /\ ~load.failed THEN sought ELSE NoBlock
    BY DEF OnPagesLoadedOf, OfWindow
  <1>2. list \in ListRow /\ load \in LoadRow /\ load \in windowLoads /\ LoadSound(load)
    BY <1>1, OpenRow DEF WindowInv, WindowTypes
  <1>3. server.epoch \in Nat /\ server.epoch \in Epochs
    BY OpenRow
  <1>4. server' \in [epoch : Epochs, ext : BOOLEAN] /\ sought' \in Nat
    BY <1>1 DEF WindowInv, WindowTypes, NoBlock
  <1> DEFINE emptied == [list EXCEPT !.loading = FALSE, !.prompt = TRUE, !.rows = <<>>, !.read = 0]
  <1>5. ASSUME load.missing
        PROVE  list' \in ListRow /\ ListSound' /\ SoughtSound'
    <2>1. list' = FocusGinBlkno(emptied)
      <3>1. PICK pageTotal \in {0, Relation.pages}, may \in {TRUE, Relation.leaves # {}} :
              list' = FocusGinBlkno([[list EXCEPT !.loading = FALSE] EXCEPT !.prompt = TRUE, !.rows = <<>>, !.read = 0])
        BY <1>5 DEF OnPagesLoadedOf
      <3>2. [[list EXCEPT !.loading = FALSE] EXCEPT !.prompt = TRUE, !.rows = <<>>, !.read = 0] = emptied
        BY <1>2 DEF ListRow
      <3>3. QED
        BY <3>1, <3>2
    <2>2. emptied \in ListRow /\ emptied.loading = FALSE /\ emptied.rows = <<>> /\ emptied.read = 0
      <3>1. <<>> \in Seq(Nat) /\ 0 \in Nat
        OBVIOUS
      <3>2. QED
        BY <1>2, <3>1 DEF ListRow
    <2> HIDE DEF emptied
    <2>3. list' = FocusAnyRows(emptied)
      BY <2>1, <2>2, FocusKeeps
    <2>4. list' \in ListRow /\ list'.rows = <<>> /\ list'.read = 0
      BY <2>2, <2>3, Focus
    <2>5. ListSound'
      <3>1. 0 \in 0..server'.epoch
        BY <1>1, <1>3
      <3>2. QED
        BY <2>4, <3>1 DEF ListSound
    <2>6. SoughtSound'
      BY <1>1, <1>5 DEF SoughtSound
    <2>7. QED
      BY <2>4, <2>5, <2>6
  <1>6. ASSUME ~load.missing
        PROVE  list' \in ListRow /\ ListSound' /\ SoughtSound'
    <2> DEFINE read == IF load.failed THEN 0 ELSE load.seen
    <2>1. PICK pageTotal \in {0, Relation.pages}, may \in {TRUE, Relation.leaves # {}} :
            list' = FocusGinBlkno(InRows(
              [[list EXCEPT !.loading = FALSE] EXCEPT !.total = IF load.failed THEN 0 ELSE pageTotal,
                 !.ginLeaves = load.failed \/ may, !.rows = load.rows, !.read = IF load.failed THEN 0 ELSE load.seen]))
      BY <1>6 DEF OnPagesLoadedOf
    <2> DEFINE newTotal == IF load.failed THEN 0 ELSE pageTotal
               leaves == load.failed \/ may
               s == [list EXCEPT !.loading = FALSE, !.total = newTotal, !.ginLeaves = leaves, !.rows = load.rows, !.read = read]
               t == InRows(s)
    <2>2. [[list EXCEPT !.loading = FALSE] EXCEPT !.total = newTotal, !.ginLeaves = leaves, !.rows = load.rows, !.read = read] = s
      BY <1>2 DEF ListRow
    <2>3. list' = FocusGinBlkno(t)
      BY <2>1, <2>2
    <2>4. newTotal \in Nat
      <3>1. Relation.pages \in Nat /\ 0 \in Nat
        BY <1>3, EpochTypes DEF Relation
      <3>2. QED
        BY <3>1
    <2>5. leaves \in BOOLEAN
      OBVIOUS
    <2>6. read \in Nat /\ load.rows \in Seq(Nat)
      <3>1. load.seen \in Nat /\ 0 \in Nat /\ load.rows \in Seq(Nat)
        BY <1>2 DEF LoadRow
      <3>2. QED
        BY <3>1
    <2>7. load.rows = IF read = 0 THEN <<>> ELSE ListedAt(load, read)
      BY <1>1, <1>2, <1>6 DEF LoadSound
    <2>8. read \in 0..server.epoch
      BY <1>2, <1>3 DEF LoadSound
    <2> HIDE DEF newTotal, leaves, read
    <2>9. /\ s \in ListRow /\ s.loading = FALSE /\ s.rows = load.rows /\ s.read = read
          /\ s.start = list.start /\ s.am = list.am /\ s.focusBlkno = list.focusBlkno /\ s.cursor = list.cursor /\ s.desc = list.desc
      BY <1>2, <2>4, <2>5, <2>6 DEF ListRow
    <2> HIDE DEF s
    <2>10. /\ t \in ListRow /\ t.loading = FALSE /\ t.rows = load.rows /\ t.read = read
           /\ t.start = list.start /\ t.focusBlkno = list.focusBlkno
      BY <2>9, InRowsTypes
    <2>11. s.cursor <= Len(s.rows) => t = s
      BY <2>9, InRowsTypes
    <2> HIDE DEF t
    <2>12. list' = FocusAnyRows(t)
      BY <2>3, <2>10, FocusKeeps
    <2>13. /\ list' \in ListRow /\ list'.rows = load.rows /\ list'.read = read /\ list'.start = list.start
           /\ list'.focusBlkno = NoBlock
      BY <2>10, <2>12, Focus
    <2>14. list'.am = load.am
      BY <1>1, <1>2, <2>13 DEF ListRow, LoadRow
    <2>15. ListedAt(load, read) = ListedAt(list, read)'
      BY <1>1, <2>13, <2>14 DEF ListedAt
    <2>16. ListSound'
      BY <1>1, <2>7, <2>8, <2>13, <2>15 DEF ListSound
    <2>17. ASSUME sought' # NoBlock
           PROVE  SoughtSound'
      <3>1. sought' = sought /\ load.seen = server.epoch /\ ~load.failed
        BY <1>1, <2>17 DEF Current
      <3>2. read = server.epoch /\ server.epoch # 0
        BY <3>1, OpenRow DEF read
      <3>3. list'.rows = ListedAt(list, list.read)'
        BY <2>7, <2>13, <2>15, <3>2
      <3>4. Leaf(server.epoch, sought) /\ InWindow(list, sought)
        BY <2>17, <3>1 DEF WindowInv, SoughtSound
      <3>5. Leaf(server.epoch, sought)' /\ InWindow(list, sought)'
        BY <1>1, <2>13, <3>1, <3>4 DEF Leaf, InWindow
      <3>6. StandsOn(list, sought)'
        <4>1. CASE list.focusBlkno = sought
          <5>1. \E i \in DOMAIN load.rows : load.rows[i] = sought
            <6>1. list.start \in Nat /\ RelationAt[server.epoch].pages \in Nat
              BY <1>2, <1>3, EpochTypes DEF ListRow
            <6>2. load.rows = ListPageWindow(load.am, list.start, RelationAt[server.epoch].pages)
              BY <1>1, <2>7, <3>2 DEF ListedAt
            <6>3. sought \in 1..(RelationAt[server.epoch].pages - 1) /\ sought \in list.start..(list.start + WindowCount - 1)
              BY <3>4 DEF Leaf, InWindow
            <6>4. QED
              BY <6>1, <6>2, <6>3, ListingSpans
          <5>2. StandsOn(FocusAnyRows(t), sought)
            BY <2>10, <2>17, <3>1, <4>1, <5>1, Focus
          <5>3. QED
            BY <2>12, <3>1, <5>2 DEF StandsOn, VisiblePages
        <4>2. CASE list.focusBlkno # sought
          <5>1. list.read = server.epoch /\ list.rows = ListedAt(list, list.read) /\ list.focusBlkno = NoBlock /\ StandsOn(list, sought)
            BY <2>17, <3>1, <4>2 DEF WindowInv, SoughtSound
          <5>2. list.rows = load.rows
            BY <1>1, <1>2, <2>7, <3>2, <5>1 DEF ListedAt, ListRow, LoadRow
          <5>3. VisiblePages(s) = VisiblePages(list)
            BY <2>9, <5>2 DEF VisiblePages
          <5>4. StandsOn(s, sought)
            BY <2>9, <5>1, <5>3 DEF StandsOn
          <5>5. s.cursor <= Len(s.rows)
            <6>1. s.rows \in Seq(Nat) /\ s.desc \in BOOLEAN
              BY <2>9 DEF ListRow
            <6>2. VisiblePages(s) \in Seq(Nat) /\ Len(VisiblePages(s)) = Len(s.rows)
              BY <6>1, Visible
            <6>3. s.cursor \in 1..Len(VisiblePages(s))
              BY <5>4, <6>2 DEF StandsOn
            <6>4. QED
              BY <6>1, <6>2, <6>3
          <5>6. list' = s
            BY <2>9, <2>11, <2>12, <5>1, <5>5, Focus
          <5>7. QED
            BY <3>1, <5>4, <5>6 DEF StandsOn, VisiblePages
        <4>3. QED
          BY <4>1, <4>2
      <3>7. list'.open /\ list'.read = server'.epoch
        BY <1>1, <2>13, <3>2 DEF ListRow
      <3>8. QED
        BY <2>13, <3>3, <3>5, <3>6, <3>7 DEF SoughtSound
    <2>18. QED
      BY <2>13, <2>16, <2>17 DEF SoughtSound
  <1>7. QED
    BY <1>1, <1>4, <1>5, <1>6, WithoutLoad, SearchStays, Together

(* The answer of a search comes in.                                        *)
LEMMA LeafFoundKeeps ==
  ASSUME WindowInv, OnGinDataLeafFound
  PROVE  WindowInv'
  <1> DEFINE blk == leafSearch.found
             s == [list EXCEPT !.ginSeeking = FALSE, !.focusBlkno = blk]
             here == OnPage(list) /\ PageAt(list) = blk
             Sought == IF Current(leafSearch.seen) THEN blk ELSE NoBlock
  <1>1. leafSearch.seen > 0 /\ leafSearch' = NoSearch /\ UNCHANGED <<server, windowOf>>
    BY DEF OnGinDataLeafFound
  <1>2. server' \in [epoch : Epochs, ext : BOOLEAN] /\ server'.epoch = server.epoch /\ server.epoch \in Nat /\ server.epoch \in Epochs
    BY <1>1, OpenRow DEF WindowInv, WindowTypes
  <1>3. leafSearch' \in SearchRow \cup {NoSearch} /\ SearchSound'
    <2>1. NoSearch.seen = -1
      BY DEF NoSearch
    <2>2. ~(NoSearch.seen > 0)
      BY <2>1
    <2>3. QED
      BY <1>1, <2>2 DEF SearchSound
  <1>4. leafSearch \in SearchRow
    <2>1. NoSearch.seen = -1
      BY DEF NoSearch
    <2>2. leafSearch # NoSearch
      BY <1>1, <2>1
    <2>3. QED
      BY <2>2 DEF WindowInv, WindowTypes
  <1>5. blk \in Nat /\ (Sought # NoBlock => Sought = blk /\ Leaf(server.epoch, blk)) /\ Sought \in Nat
    <2>1. blk \in Nat
      BY <1>4 DEF SearchRow
    <2>2. blk # NoBlock => Leaf(leafSearch.seen, blk)
      BY <1>1 DEF WindowInv, SearchSound
    <2>3. NoBlock \in Nat
      BY DEF NoBlock
    <2>4. QED
      BY <2>1, <2>2, <2>3 DEF Current
  <1>6. CASE ~list.open /\ UNCHANGED <<list, windowLoads, sought>>
    BY <1>1, <1>2, <1>3, <1>6, ListStays, LoadsStay, Together
  <1>7. CASE list.open /\ list' = [list EXCEPT !.ginSeeking = FALSE] /\ UNCHANGED <<windowLoads, sought>>
    <2>1. list \in ListRow /\ ListSound
      BY <1>7, OpenRow
    <2>2. /\ list' \in ListRow /\ list'.loading = list.loading
          /\ list'.start = list.start /\ list'.rows = list.rows /\ list'.desc = list.desc /\ list'.cursor = list.cursor
          /\ list'.focusBlkno = list.focusBlkno /\ list'.read = list.read /\ list'.am = list.am
      BY <1>7, <2>1 DEF ListRow
    <2>3. ListSound'
      BY <1>1, <2>1, <2>2 DEF ListSound, ListedAt
    <2>4. list.loading \in BOOLEAN /\ sought' \in Nat
      BY <1>7, <2>1 DEF ListRow, WindowInv, WindowTypes
    <2>5. list'.loading \/ ~list.loading
      BY <2>2, <2>4
    <2>6. SoughtSound'
      BY <1>1, <1>2, <1>7, <2>2, <2>5, SoughtStays
    <2>7. QED
      BY <1>1, <1>2, <1>3, <1>7, <2>2, <2>3, <2>4, <2>6, LoadsStay, Together
  <1>8. ASSUME list.open
        PROVE  /\ s \in ListRow /\ s.focusBlkno = blk /\ s.start = list.start /\ s.rows = list.rows
               /\ s.loading = list.loading /\ s.read = list.read /\ s.am = list.am /\ s.desc = list.desc
    <2>1. list \in ListRow
      BY <1>8, OpenRow
    <2>2. QED
      BY <1>5, <2>1 DEF ListRow
  <1> HIDE DEF blk, s, Sought
  <1>9. CASE list.open /\ blk # NoBlock /\ Loads(ToWindow(s, blk)) /\ sought' = Sought
    <2>1. list.read \in 0..server.epoch
      BY <1>9, OpenRow DEF ListSound
    <2>2. /\ ToWindow(s, blk) \in ListRow /\ ToWindow(s, blk).read = list.read
          /\ ToWindow(s, blk).start = blk /\ ToWindow(s, blk).focusBlkno = blk
      BY <1>5, <1>8, <1>9, ToWindowTypes
    <2>3. /\ list' \in ListRow /\ list'.open /\ list'.loading /\ ListSound' /\ list'.start = blk /\ list'.focusBlkno = blk
          /\ windowLoads' \in SUBSET LoadRow /\ IsFiniteSet(windowLoads') /\ \A l \in windowLoads' : LoadSound(l)'
      BY <1>1, <1>2, <1>9, <2>1, <2>2, LoadsEffect
    <2>4. blk \in blk..(blk + WindowCount - 1)
      BY <1>5, WindowAssumption
    <2>5. SoughtSound'
      BY <1>1, <1>5, <1>9, <2>3, <2>4 DEF SoughtSound, Leaf, InWindow
    <2>6. QED
      BY <1>1, <1>2, <1>3, <1>5, <1>9, <2>3, <2>5, Together
  <1>10. CASE /\ list.open /\ blk # NoBlock /\ ~Outside(list, blk) /\ list' = FocusGinBlkno(s) /\ UNCHANGED windowLoads
              /\ sought' = IF list.loading \/ Current(list.read) THEN Sought ELSE NoBlock
    <2>1. list \in ListRow /\ ListSound /\ list.start \in Nat
      BY <1>10, OpenRow DEF ListRow
    <2>2. blk \in list.start..(list.start + WindowCount - 1)
      BY <1>5, <1>10, <2>1, WindowAssumption DEF Outside
    <2>3. sought' \in Nat
      BY <1>5, <1>10 DEF NoBlock
    <2>4. list' = IF list.loading THEN s ELSE FocusAnyRows(s)
      BY <1>8, <1>10 DEF FocusGinBlkno
    <2>5. /\ list' \in ListRow /\ list'.start = list.start /\ list'.rows = list.rows /\ list'.loading = list.loading
          /\ list'.read = list.read
      BY <1>8, <1>10, <2>4, Focus
    <2>6. list'.am = list.am /\ list'.open
      BY <1>1, <2>1, <2>5 DEF ListRow
    <2>7. ListSound'
      BY <1>1, <2>1, <2>5, <2>6 DEF ListSound, ListedAt
    <2>8. ASSUME sought' # NoBlock
          PROVE  SoughtSound'
      <3>1. sought' = blk /\ Leaf(server.epoch, blk)
        BY <1>5, <1>10, <2>8
      <3>2. Leaf(server.epoch, sought)' /\ InWindow(list, sought)'
        BY <1>1, <2>2, <2>5, <3>1 DEF Leaf, InWindow
      <3>3. CASE list.loading
        BY <1>8, <1>10, <2>4, <2>6, <3>1, <3>2, <3>3 DEF SoughtSound
      <3>4. CASE ~list.loading
        <4>1. list.read = server.epoch /\ server.epoch # 0
          BY <1>10, <2>8, <3>4, OpenRow DEF Current
        <4>2. list.rows = ListedAt(list, list.read)
          BY <2>1, <3>4, <4>1 DEF ListSound
        <4>3. list'.rows = ListedAt(list, list.read)' /\ list'.read = server'.epoch
          BY <1>1, <2>5, <2>6, <4>1, <4>2 DEF ListedAt
        <4>4. \E i \in DOMAIN s.rows : s.rows[i] = blk
          <5>1. RelationAt[server.epoch].pages \in Nat
            BY <1>2, EpochTypes
          <5>2. s.rows = ListPageWindow(list.am, list.start, RelationAt[server.epoch].pages)
            BY <1>8, <1>10, <4>1, <4>2 DEF ListedAt
          <5>3. blk \in 1..(RelationAt[server.epoch].pages - 1)
            BY <3>1 DEF Leaf
          <5>4. QED
            BY <2>1, <2>2, <5>1, <5>2, <5>3, ListingSpans
        <4>5. list'.focusBlkno = NoBlock /\ StandsOn(list', blk)
          BY <1>8, <1>10, <2>4, <3>4, <4>4, Focus
        <4>6. StandsOn(list, sought)'
          BY <3>1, <4>5 DEF StandsOn, VisiblePages
        <4>7. QED
          BY <2>6, <3>2, <4>3, <4>5, <4>6 DEF SoughtSound
      <3>5. QED
        BY <3>3, <3>4
    <2>9. SoughtSound'
      BY <2>8 DEF SoughtSound
    <2>10. QED
      BY <1>1, <1>2, <1>3, <1>10, <2>3, <2>5, <2>7, <2>9, LoadsStay, Together
  <1>11. \/ ~list.open /\ UNCHANGED <<list, windowLoads, sought>>
         \/ list.open /\ list' = [list EXCEPT !.ginSeeking = FALSE] /\ UNCHANGED <<windowLoads, sought>>
         \/ list.open /\ blk # NoBlock /\ Loads(ToWindow(s, blk)) /\ sought' = Sought
         \/ /\ list.open /\ blk # NoBlock /\ ~Outside(list, blk) /\ list' = FocusGinBlkno(s) /\ UNCHANGED windowLoads
            /\ sought' = IF list.loading \/ Current(list.read) THEN Sought ELSE NoBlock
    BY DEF OnGinDataLeafFound, blk, s, Sought
  <1>12. QED
    BY <1>6, <1>7, <1>9, <1>10, <1>11

-----------------------------------------------------------------------------
(* The window of a list in every behaviour of it.                          *)
LEMMA WindowInitHolds ==
  ASSUME WindowInit
  PROVE  WindowInv
  <1>1. PICK session \in WindowSessions :
          /\ windowOf = session /\ server = [epoch |-> 1, ext |-> session.ext] /\ sought = NoBlock
          /\ list = [ListScreen(session.am, session.start) EXCEPT !.levels = IF session.am = "btree" THEN "loading" ELSE "none"]
          /\ windowLoads = {WindowLoad(list)} /\ leafSearch = NoSearch
    BY DEF WindowInit
  <1>2. session.start \in Nat
    BY WindowAssumption
  <1>3. Len(RelationAt) \in Nat /\ Len(RelationAt) > 0
    BY WindowAssumption, EmptySeq
  <1>4. 1 \in Epochs
    BY <1>3 DEF Epochs
  <1>5. 0 \in Nat /\ 1 \in Nat /\ <<>> \in Seq(Nat) /\ NoBlock \in Nat
    BY DEF NoBlock
  <1> DEFINE s == ListScreen(windowOf.am, windowOf.start)
             levels == IF windowOf.am = "btree" THEN "loading" ELSE "none"
  <1>6. s \in ListRow /\ s.read = 0 /\ s.loading = TRUE
    <2>1. s = [open |-> TRUE, am |-> windowOf.am, start |-> windowOf.start, total |-> 0, rows |-> <<>>, desc |-> FALSE,
               cursor |-> 1, loading |-> TRUE, focusBlkno |-> NoBlock, ginSeeking |-> FALSE, ginLeaves |-> TRUE,
               levels |-> "none", prompt |-> FALSE, installing |-> FALSE, read |-> 0]
      BY DEF ListScreen
    <2>2. QED
      BY <1>1, <1>2, <1>5, <2>1 DEF ListRow
  <1>7. list = [s EXCEPT !.levels = levels]
    BY <1>1
  <1> HIDE DEF s
  <1>8. list \in ListRow /\ list.read = 0 /\ list.loading = TRUE
    BY <1>6, <1>7 DEF ListRow
  <1> DEFINE load == WindowLoad(list)
  <1>9. load \in LoadRow /\ load.seen = 0 /\ load.rows = <<>>
    <2>1. load = [am |-> list.am, start |-> list.start, seen |-> 0, missing |-> FALSE, failed |-> FALSE, rows |-> <<>>, nth |-> 1]
      BY DEF WindowLoad
    <2>2. list.am = windowOf.am /\ list.start \in Nat
      BY <1>8 DEF ListRow
    <2>3. QED
      BY <1>5, <2>1, <2>2 DEF LoadRow
  <1> HIDE DEF load
  <1>10. windowLoads = {load}
    BY <1>1 DEF load
  <1>11. WindowTypes
    <2>1. windowLoads \in SUBSET LoadRow /\ IsFiniteSet(windowLoads)
      BY <1>9, <1>10, FS_Singleton
    <2>2. session.ext \in BOOLEAN
      BY WindowAssumption
    <2>3. server \in [epoch : Epochs, ext : BOOLEAN]
      BY <1>1, <1>4, <2>2
    <2>4. QED
      BY <1>1, <1>5, <1>8, <2>1, <2>3 DEF WindowTypes
  <1>12. 0 \in 0..server.epoch
    BY <1>1
  <1>13. \A l \in windowLoads : LoadSound(l)
    BY <1>9, <1>10, <1>12 DEF LoadSound
  <1>14. ListSound
    BY <1>8, <1>12 DEF ListSound
  <1>15. SearchSound /\ SoughtSound
    <2>1. NoSearch.seen = -1
      BY DEF NoSearch
    <2>2. ~(NoSearch.seen > 0)
      BY <2>1
    <2>3. QED
      BY <1>1, <2>2 DEF SearchSound, SoughtSound
  <1>16. QED
    BY <1>11, <1>13, <1>14, <1>15 DEF WindowInv

LEMMA WindowNextKeeps ==
  ASSUME WindowInv, WindowNext
  PROVE  WindowInv'
  <1>1. CASE PageDown \/ PageUp \/ ReloadPages
    BY <1>1, PagingKeeps
  <1>2. CASE (\E by \in {-1, 1} : StepPages(by)) \/ SortPages \/ LeaveList \/ TriggerInstall \/ JumpGinDataLeaf
    BY <1>2, StayKeysKeep
  <1>3. CASE OpenList
    BY <1>3, OpenListKeeps
  <1>4. CASE RelationChanges
    BY <1>4, RelationChangesKeeps
  <1>5. CASE OnExtInstalled
    BY <1>5, InstalledKeeps
  <1>6. CASE \E load \in windowLoads : WindowIsListed(load) \/ OnPagesLoadedOf(load) \/ DropsWindow(load)
    BY <1>6, ListedKeeps, PagesLoadedKeep, DropsKeeps
  <1>7. CASE \E census \in censuses : OnBtreeLevelsLoaded(census)
    BY <1>7, LevelsKeep
  <1>8. CASE LeafIsSought
    BY <1>8, LeafIsSoughtKeeps
  <1>9. CASE OnGinDataLeafFound
    BY <1>9, LeafFoundKeeps
  <1>10. QED
    BY <1>1, <1>2, <1>3, <1>4, <1>5, <1>6, <1>7, <1>8, <1>9 DEF WindowNext

LEMMA WindowStays ==
  ASSUME WindowInv, UNCHANGED windowVars
  PROVE  WindowInv'
  <1>1. UNCHANGED <<list, windowLoads, leafSearch, server, sought, windowOf>>
    BY DEF windowVars
  <1>2. server' \in [epoch : Epochs, ext : BOOLEAN]
    BY <1>1 DEF WindowInv, WindowTypes
  <1>3. QED
    BY <1>1, <1>2, ListStays, LoadsStay, SearchStays, Together

LEMMA WindowIsSound ==
  ASSUME WindowInv
  PROVE  WindowSound
  <1>1. RowsOfWindow
    <2> SUFFICES ASSUME list.open, ~list.loading, NEW i \in DOMAIN list.rows
                 PROVE  list.rows[i] \in list.start..(list.start + WindowCount - 1)
      BY DEF RowsOfWindow
    <2>1. list \in ListRow /\ ListSound
      BY OpenRow
    <2>2. list.read # 0 /\ list.rows = ListedAt(list, list.read)
      <3>1. list.rows = IF list.read = 0 THEN <<>> ELSE ListedAt(list, list.read)
        BY <2>1 DEF ListSound
      <3>2. list.rows # <<>>
        <4>1. \A j : j \notin DOMAIN <<>>
          OBVIOUS
        <4>2. QED
          BY <4>1
      <3>3. QED
        BY <3>1, <3>2
    <2>3. list.read \in Epochs /\ list.start \in Nat
      <3>1. server.epoch \in 1..Len(RelationAt) /\ server.epoch \in Nat /\ Len(RelationAt) \in Nat
        BY OpenRow, WindowAssumption DEF Epochs
      <3>2. list.read \in 0..server.epoch
        BY <2>1 DEF ListSound
      <3>3. list.read \in 1..Len(RelationAt)
        BY <2>2, <3>1, <3>2
      <3>4. QED
        BY <2>1, <3>3 DEF Epochs, ListRow
    <2>4. RelationAt[list.read].pages \in Nat
      BY <2>3, EpochTypes
    <2> DEFINE pageRows == ListPageWindow(list.am, list.start, RelationAt[list.read].pages)
    <2>5. list.rows = pageRows
      BY <2>2 DEF ListedAt
    <2>6. \A j \in DOMAIN pageRows : pageRows[j] \in list.start..(list.start + WindowCount - 1)
      BY <2>3, <2>4, ListingSpans
    <2> HIDE DEF pageRows
    <2>7. QED
      BY <2>5, <2>6
  <1>2. LandsOnLeaf
    <2> SUFFICES ASSUME sought # NoBlock, list.open, ~list.loading
                 PROVE  OnPage(list) /\ PageAt(list) = sought /\ sought \in Relation.leaves
      BY DEF LandsOnLeaf
    <2>1. Leaf(server.epoch, sought) /\ StandsOn(list, sought)
      BY DEF WindowInv, SoughtSound
    <2>2. QED
      BY <2>1 DEF Leaf, StandsOn, OnPage, PageAt, Relation
  <1>3. QED
    BY <1>1, <1>2 DEF WindowSound

-----------------------------------------------------------------------------
(* The WAL overview.                                                       *)
WalLevels == {"wal", "records", "relBlocks", "blocks", "detail"}
WalKeys   == Int \X (Rmgrs \cup WalRels \cup {""})
WalRow ==
  [level : WalLevels, window : Nat, key : WalKeys, rows : Int, failed : BOOLEAN, loading : BOOLEAN,
   rels : Int, relsErr : BOOLEAN, relsLoading : BOOLEAN, summary : BOOLEAN, checkpoint : BOOLEAN]
IsLoad(l) == l = [kind |-> l.kind, window |-> l.window, key |-> l.key, nth |-> l.nth] /\ l.window \in Nat

(* The overview is the lowest screen, and there is no other.               *)
WalTypes ==
  /\ walEnd \in Nat /\ \A l \in walLoads : IsLoad(l)
  /\ walStack \in Seq(WalRow) /\ walStack # <<>>
  /\ walStack[1].level = "wal" /\ \A i \in 2..Len(walStack) : walStack[i].level # "wal"
WalInv == WalTypes /\ OverviewWhole

LEMMA WalScreenTypes ==
  ASSUME WalTypes, NEW i \in 1..Len(walStack)
  PROVE  walStack[i] \in WalRow
  BY ElementOfSeq DEF WalTypes

LEMMA UnreadIsInt == Unread \in Int /\ Unread \notin Nat
  BY DEF Unread
LEMMA WindowIsInt == \A window \in Nat : window \in Int
  OBVIOUS

LEMMA NewWalScreen ==
  ASSUME NEW level \in WalLevels, NEW window \in Nat, NEW key \in WalKeys
  PROVE  WalScreen(level, window, key) \in WalRow /\ WalScreen(level, window, key).level = level
  BY UnreadIsInt DEF WalScreen, WalRow

(* A load under another number is the same load.                           *)
LEMMA LoadIs ==
  ASSUME NEW kind, NEW window \in Nat, NEW key, NEW nth
  PROVE  LET l == [kind |-> kind, window |-> window, key |-> key, nth |-> nth]
         IN  IsLoad(l) /\ l.kind = kind /\ l.window = window
  BY DEF IsLoad

LEMMA AnotherIs ==
  ASSUME NEW load, IsLoad(load), NEW loads
  PROVE  /\ IsLoad(Another(loads, load)) /\ Another(loads, load).kind = load.kind
         /\ Another(loads, load).window = load.window
  <1> DEFINE nth == CHOOSE n \in 1..(Cardinality(loads) + 1) : [load EXCEPT !.nth = n] \notin loads
  <1>1. Another(loads, load) = [load EXCEPT !.nth = nth]
    BY DEF Another
  <1> HIDE DEF nth
  <1>2. Another(loads, load) = [kind |-> load.kind, window |-> load.window, key |-> load.key, nth |-> nth]
    BY <1>1 DEF IsLoad
  <1>3. load.window \in Nat
    BY DEF IsLoad
  <1>4. QED
    BY <1>2, <1>3, LoadIs

(* What is asked for is added to the loads.                                *)
LEMMA Asked ==
  ASSUME WalTypes, NEW s \in WalRow, AskFor(s)
  PROVE  walLoads \subseteq walLoads' /\ \A l \in walLoads' : IsLoad(l)
  <1>1. s.window \in Nat /\ NoWindow \in Nat
    BY DEF WalRow, NoWindow
  <1>2. \A l \in LoadsOf(s) : IsLoad(l)
    BY <1>1, LoadIs DEF LoadsOf, WalLoad
  <1>3. \A l \in LoadsOf(s) : IsLoad(Another(walLoads, l))
    BY <1>2, AnotherIs
  <1>4. QED
    BY <1>3 DEF AskFor, WalTypes

LEMMA Added ==
  ASSUME NEW loads, \A l \in loads : IsLoad(l), NEW load, IsLoad(load)
  PROVE  /\ loads \subseteq AddLoad(loads, load) /\ \A l \in AddLoad(loads, load) : IsLoad(l)
         /\ \E l \in AddLoad(loads, load) : l.kind = load.kind /\ l.window = load.window
  BY AnotherIs DEF AddLoad

(* findLevel: a screen of the level, and for "wal" the overview.           *)
LEMMA FindWalFinds ==
  ASSUME WalTypes, NEW level, FindWal(level) # 0
  PROVE  /\ FindWal(level) \in 1..Len(walStack) /\ walStack[FindWal(level)].level = level
         /\ level = "wal" <=> FindWal(level) = 1
  <1> DEFINE I == {i \in 1..Len(walStack) : walStack[i].level = level}
  <1>1. FindWal(level) = IF I # {} THEN Max(I) ELSE 0
    BY DEF FindWal, SelectLastInSeq
  <1>2. Len(walStack) \in Nat
    BY DEF WalTypes
  <1>3. FindWal(level) \in I
    BY <1>1, <1>2, MaxOf
  <1>4. \A i \in 1..Len(walStack) : walStack[i].level = "wal" <=> i = 1
    BY <1>2 DEF WalTypes
  <1>5. QED
    BY <1>3, <1>4

(* While the overview and the scans of its window stay, so does what is    *)
(* said of them.                                                           *)
LEMMA OverviewKept ==
  ASSUME WalInv, walStack' # <<>>, walStack'[1] = walStack[1],
         \A l \in walLoads : l.kind = "relations" /\ l.window = walStack[1].window => l \in walLoads'
  PROVE  OverviewWhole'
  BY DEF WalInv, WalTypes, OverviewWhole

(* A screen is replaced by one of its level.                               *)
LEMMA Replaced ==
  ASSUME WalTypes, NEW i \in 1..Len(walStack), NEW s \in WalRow, s.level = walStack[i].level,
         ReplaceWal(i, s), walEnd' \in Nat, \A l \in walLoads' : IsLoad(l)
  PROVE  /\ WalTypes' /\ walStack'[i] = s
         /\ \A j \in 1..Len(walStack) : j # i => walStack'[j] = walStack[j]
  <1>1. /\ walStack' \in Seq(WalRow) /\ Len(walStack') = Len(walStack) /\ walStack'[i] = s
        /\ \A j \in 1..Len(walStack) : j # i => walStack'[j] = walStack[j]
    BY DEF WalTypes, ReplaceWal
  <1>2. Len(walStack) \in Nat /\ Len(walStack) > 0 /\ walStack' # <<>>
    BY <1>1 DEF WalTypes
  <1>3. \A j \in 1..Len(walStack) : walStack'[j].level = walStack[j].level
    BY <1>1
  <1>4. 1 \in 1..Len(walStack) /\ 2..Len(walStack') \subseteq 1..Len(walStack)
    BY <1>1, <1>2
  <1>5. QED
    BY <1>1, <1>2, <1>3, <1>4 DEF WalTypes

LEMMA RefreshKeepsWal ==
  ASSUME WalInv, RefreshWal
  PROVE  WalInv'
  <1> DEFINE s == [WalTop EXCEPT !.loading = TRUE, !.rels = Unread, !.relsErr = FALSE, !.relsLoading = FALSE,
                                 !.summary = FALSE, !.checkpoint = FALSE]
  <1>1. Len(walStack) \in Nat /\ Len(walStack) > 0 /\ Len(walStack) \in 1..Len(walStack) /\ walEnd \in Nat
    BY DEF WalInv, WalTypes
  <1>2. WalTop \in WalRow
    BY <1>1, WalScreenTypes DEF WalTop, WalInv
  <1>3. s \in WalRow /\ s.level = WalTop.level
    BY <1>2, UnreadIsInt, WindowIsInt DEF WalRow
  <1>4. walLoads \subseteq walLoads' /\ \A l \in walLoads' : IsLoad(l)
    BY <1>2, Asked DEF RefreshWal, WalInv
  <1>5. /\ WalTypes' /\ walStack'[Len(walStack)] = s
        /\ \A j \in 1..Len(walStack) : j # Len(walStack) => walStack'[j] = walStack[j]
    BY <1>1, <1>3, <1>4, Replaced DEF RefreshWal, WalInv, WalTop
  <1>6. CASE Len(walStack) = 1
    <2>1. walStack[1] = WalTop /\ walStack'[1] = s
      BY <1>5, <1>6 DEF WalTop
    <2>2. s.rows = WalTop.rows /\ s.window = WalTop.window /\ s.rels = Unread /\ s.loading /\ ~s.relsLoading
      BY <1>2, UnreadIsInt, WindowIsInt DEF WalRow
    <2>3. OverviewWhole'
      BY <2>1, <2>2 DEF OverviewWhole, WalInv, WalTypes
    <2>4. QED
      BY <1>5, <2>3 DEF WalInv
  <1>7. CASE Len(walStack) # 1
    <2>1. 1 \in 1..Len(walStack) /\ 1 # Len(walStack)
      BY <1>1, <1>7
    <2>2. walStack'[1] = walStack[1] /\ walStack' # <<>>
      BY <1>5, <2>1 DEF WalTypes
    <2>3. QED
      BY <1>4, <1>5, <2>2, OverviewKept DEF WalInv
  <1>8. QED
    BY <1>6, <1>7

LEMMA BackKeepsWal ==
  ASSUME WalInv, WalBack
  PROVE  WalInv'
  <1>1. /\ walStack' \in Seq(WalRow) /\ Len(walStack') = Len(walStack) - 1
        /\ \A j \in 1..(Len(walStack) - 1) : walStack'[j] = walStack[j]
    BY DEF WalBack, WalInv, WalTypes, Front
  <1>2. Len(walStack) \in Nat /\ Len(walStack) > 1
    BY DEF WalBack, WalInv, WalTypes
  <1>3. walStack' # <<>> /\ walStack'[1] = walStack[1]
    BY <1>1, <1>2
  <1>4. WalTypes'
    BY <1>1, <1>2, <1>3 DEF WalBack, WalInv, WalTypes
  <1>5. QED
    BY <1>3, <1>4, OverviewKept DEF WalBack, WalInv

LEMMA DrillKeepsWal ==
  ASSUME WalInv, NEW s \in WalRow, s.level # "wal", DrillsTo(s)
  PROVE  WalInv'
  <1>1. /\ walStack' \in Seq(WalRow) /\ Len(walStack') = Len(walStack) + 1
        /\ walStack'[Len(walStack) + 1] = s
        /\ \A j \in 1..Len(walStack) : walStack'[j] = walStack[j]
    BY DEF DrillsTo, WalInv, WalTypes
  <1>2. Len(walStack) \in Nat /\ Len(walStack) > 0
    BY DEF WalInv, WalTypes
  <1>3. walStack' # <<>> /\ walStack'[1] = walStack[1]
    BY <1>1, <1>2
  <1>4. walLoads \subseteq walLoads' /\ \A l \in walLoads' : IsLoad(l)
    BY Asked DEF DrillsTo, WalInv
  <1>5. \A i \in 2..Len(walStack') : walStack'[i].level # "wal"
    <2> TAKE i \in 2..Len(walStack')
    <2>1. i \in 2..Len(walStack) \/ i = Len(walStack) + 1
      BY <1>1, <1>2
    <2>2. QED
      BY <1>1, <1>2, <2>1 DEF WalInv, WalTypes
  <1>6. WalTypes'
    BY <1>1, <1>2, <1>3, <1>4, <1>5 DEF DrillsTo, WalInv, WalTypes
  <1>7. QED
    BY <1>3, <1>4, <1>6, OverviewKept DEF WalInv

LEMMA KeysKeepWal ==
  ASSUME WalInv, DrillWALRmgr \/ DrillWALRelation \/ DrillWALRecord \/ DrillWALBlock
  PROVE  WalInv'
  <1>1. WalTop \in WalRow
    <2>1. Len(walStack) \in 1..Len(walStack)
      BY DEF WalInv, WalTypes
    <2>2. QED
      BY <2>1, WalScreenTypes DEF WalTop, WalInv
  <1>2. \A name \in Rmgrs \cup WalRels : Named(name) \in WalKeys
    <2>1. NoWindow \in Int
      BY DEF NoWindow
    <2>2. QED
      BY <2>1 DEF Named, WalKeys
  <1>3. RowKey(WalTop) \in WalKeys
    <2>1. WalTop.key \in WalKeys /\ WalTop.rows \in Int
      BY <1>1 DEF WalRow
    <2>2. QED
      BY <2>1 DEF RowKey, WalKeys
  <1>4. PICK s : s \in WalRow /\ s.level # "wal" /\ DrillsTo(s)
    <2>1. CASE DrillWALRmgr
      <3>1. PICK rmgr \in Rmgrs : DrillsTo(WalScreen("records", WalTop.window, Named(rmgr)))
        BY <2>1 DEF DrillWALRmgr
      <3>2. QED
        BY <1>1, <1>2, <3>1, NewWalScreen DEF WalLevels, WalRow
    <2>2. CASE DrillWALRelation
      <3>1. PICK rel \in WalRels : DrillsTo(WalScreen("relBlocks", WalTop.window, Named(rel)))
        BY <2>2 DEF DrillWALRelation
      <3>2. QED
        BY <1>1, <1>2, <3>1, NewWalScreen DEF WalLevels, WalRow
    <2>3. CASE DrillWALRecord
      BY <1>3, <2>3, NewWalScreen DEF DrillWALRecord, WalLevels, NoWindow
    <2>4. CASE DrillWALBlock
      BY <1>3, <2>4, NewWalScreen DEF DrillWALBlock, WalLevels, NoWindow
    <2>5. QED
      BY <2>1, <2>2, <2>3, <2>4
  <1>5. QED
    BY <1>4, DrillKeepsWal

(* Answers.                                                                *)
LEMMA OverviewAnswerKeepsWal ==
  ASSUME WalInv, NEW load \in walLoads, NEW failed \in BOOLEAN, OnWALOverviewLoaded(load, failed)
  PROVE  WalInv'
  <1> DEFINE i == FindWal("wal")
             s == [walStack[i] EXCEPT !.loading = FALSE, !.failed = failed, !.window = load.window,
                                      !.rows = IF failed THEN Unread ELSE load.window,
                                      !.rels = Unread, !.relsErr = FALSE, !.relsLoading = ~failed]
  <1>1. i = 1 /\ i \in 1..Len(walStack)
    BY FindWalFinds DEF OnWALOverviewLoaded, WalInv
  <1>2. IsLoad(load) /\ load.window \in Nat /\ walStack[1] \in WalRow /\ walEnd' \in Nat
    BY <1>1, WalScreenTypes DEF WalInv, WalTypes, IsLoad, OnWALOverviewLoaded
  <1>3. /\ s \in WalRow /\ s.level = walStack[i].level /\ s.window = load.window /\ s.rels = Unread
        /\ s.rows \in {Unread, load.window} /\ s.relsLoading = ~failed /\ s.failed = failed
    BY <1>1, <1>2, UnreadIsInt, WindowIsInt DEF WalRow
  <1>4. /\ \A l \in walLoads' : IsLoad(l)
        /\ ~failed => \E l \in walLoads' : l.kind = "relations" /\ l.window = load.window
    <2>1. \A l \in walLoads \ {load} : IsLoad(l)
      BY DEF WalInv, WalTypes
    <2>2. LET new == WalLoad("relations", load.window, NoName)
          IN  IsLoad(new) /\ new.kind = "relations" /\ new.window = load.window
      BY <1>2 DEF WalLoad, IsLoad
    <2>3. QED
      BY <2>1, <2>2, Added DEF OnWALOverviewLoaded
  <1>5. WalTypes' /\ walStack'[1] = s
    <2>1. ReplaceWal(i, s)
      BY DEF OnWALOverviewLoaded
    <2> HIDE DEF s, i
    <2>2. QED
      BY <1>1, <1>2, <1>3, <1>4, <2>1, Replaced DEF WalInv
  <1> HIDE DEF s, i
  <1>6. OverviewWhole'
    BY <1>3, <1>4, <1>5 DEF OverviewWhole
  <1>7. QED
    BY <1>5, <1>6 DEF WalInv

LEMMA RelationsAnswerKeepsWal ==
  ASSUME WalInv, NEW load \in walLoads, NEW failed \in BOOLEAN, OnWALRelationsLoaded(load, failed)
  PROVE  WalInv'
  <1> DEFINE i == FindWal("wal")
             s == [walStack[i] EXCEPT !.relsLoading = FALSE, !.relsErr = failed, !.rels = IF failed THEN Unread ELSE load.window]
  <1>1. i = 1 /\ i \in 1..Len(walStack)
    BY FindWalFinds DEF OnWALRelationsLoaded, WalInv
  <1>2. walStack[1] \in WalRow /\ walEnd' \in Nat /\ load.window = walStack[1].window
    BY <1>1, WalScreenTypes DEF WalInv, WalTypes, OnWALRelationsLoaded, ScanOfWindow, Answered
  <1>3. /\ s \in WalRow /\ s.level = walStack[i].level /\ s.window = walStack[1].window
        /\ s.rels = IF failed THEN Unread ELSE s.window
        /\ s.rows = walStack[1].rows /\ ~s.relsLoading /\ s.relsErr = failed
    BY <1>1, <1>2, UnreadIsInt, WindowIsInt DEF WalRow
  <1>4. \A l \in walLoads' : IsLoad(l)
    BY DEF OnWALRelationsLoaded, Answered, WalInv, WalTypes
  <1>5. WalTypes' /\ walStack'[1] = s
    <2>1. ReplaceWal(i, s)
      BY DEF OnWALRelationsLoaded
    <2> HIDE DEF s, i
    <2>2. QED
      BY <1>1, <1>2, <1>3, <1>4, <2>1, Replaced DEF WalInv
  <1> HIDE DEF s, i
  <1>6. walStack[1].rows \in {Unread, s.window} /\ s.rels \in {Unread, s.window}
    BY <1>3 DEF OverviewWhole, WalInv, WalTypes
  <1>7. s.rels = Unread => s.relsErr
    <2>1. s.window \in Nat
      BY <1>3 DEF WalRow
    <2>2. QED
      BY <1>3, <2>1, UnreadIsInt
  <1>8. OverviewWhole'
    BY <1>3, <1>5, <1>6, <1>7 DEF OverviewWhole
  <1>9. QED
    BY <1>5, <1>8 DEF WalInv

LEMMA SummaryAnswerKeepsWal ==
  ASSUME WalInv, NEW load \in walLoads, NEW failed \in BOOLEAN, OnWALSummaryLoaded(load, failed)
  PROVE  WalInv'
  <1> DEFINE i == FindWal("wal")
             s == IF load.kind = "summary" THEN [walStack[i] EXCEPT !.summary = ~failed]
                  ELSE [walStack[i] EXCEPT !.checkpoint = @ \/ ~failed]
  <1>1. i = 1 /\ i \in 1..Len(walStack)
    BY FindWalFinds DEF OnWALSummaryLoaded, WalInv
  <1>2. walStack[1] \in WalRow /\ walEnd' \in Nat
    BY <1>1, WalScreenTypes DEF WalInv, WalTypes, OnWALSummaryLoaded, Answered
  <1>3. /\ s \in WalRow /\ s.level = walStack[i].level /\ s.window = walStack[1].window
        /\ s.rels = walStack[1].rels /\ s.relsErr = walStack[1].relsErr /\ s.relsLoading = walStack[1].relsLoading
        /\ s.rows = walStack[1].rows /\ s.loading = walStack[1].loading /\ s.failed = walStack[1].failed
    BY <1>1, <1>2, UnreadIsInt, WindowIsInt DEF WalRow
  <1>4. /\ \A l \in walLoads' : IsLoad(l)
        /\ \A l \in walLoads : l.kind = "relations" => l \in walLoads'
    BY DEF OnWALSummaryLoaded, Answered, WalInv, WalTypes
  <1>5. WalTypes' /\ walStack'[1] = s
    <2>1. ReplaceWal(i, s)
      BY DEF OnWALSummaryLoaded
    <2> HIDE DEF s, i
    <2>2. QED
      BY <1>1, <1>2, <1>3, <1>4, <2>1, Replaced DEF WalInv
  <1> HIDE DEF s, i
  <1>6. OverviewWhole'
    BY <1>3, <1>4, <1>5 DEF OverviewWhole, WalInv, WalTypes
  <1>7. QED
    BY <1>5, <1>6 DEF WalInv

LEMMA RowsAnswerKeepsWal ==
  ASSUME WalInv, NEW load \in walLoads, NEW failed \in BOOLEAN, OnWALRowsLoaded(load, failed)
  PROVE  WalInv'
  <1> DEFINE i == FindWal(load.kind)
             s == [walStack[i] EXCEPT !.loading = FALSE, !.failed = failed, !.rows = IF failed THEN Unread ELSE load.window]
  <1>1. i # 1 /\ i \in 1..Len(walStack)
    <2>1. load.kind # "wal" /\ load.kind # "relations" /\ i # 0
      BY DEF OnWALRowsLoaded
    <2>2. QED
      BY <2>1, FindWalFinds DEF WalInv
  <1>2. walStack[i] \in WalRow /\ walEnd' \in Nat /\ load.window \in Nat
    BY <1>1, WalScreenTypes DEF WalInv, WalTypes, OnWALRowsLoaded, Answered, IsLoad
  <1>3. s \in WalRow /\ s.level = walStack[i].level
    BY <1>2, UnreadIsInt, WindowIsInt DEF WalRow
  <1>4. /\ \A l \in walLoads' : IsLoad(l)
        /\ \A l \in walLoads : l.kind = "relations" => l \in walLoads'
    BY DEF OnWALRowsLoaded, Answered, WalInv, WalTypes
  <1>5. WalTypes' /\ walStack'[1] = walStack[1]
    <2>1. ReplaceWal(i, s)
      BY DEF OnWALRowsLoaded
    <2>2. 1 \in 1..Len(walStack)
      BY <1>1
    <2> HIDE DEF s, i
    <2>3. QED
      BY <1>1, <1>2, <1>3, <1>4, <2>1, <2>2, Replaced DEF WalInv
  <1>6. QED
    BY <1>4, <1>5, OverviewKept DEF WalInv, WalTypes

LEMMA WalNextKeeps ==
  ASSUME WalInv, WalNext
  PROVE  WalInv'
  <1>1. CASE WalIsWritten
    BY <1>1 DEF WalIsWritten, WalInv, WalTypes, OverviewWhole
  <1>2. CASE RefreshWal \/ WalBack
    BY <1>2, RefreshKeepsWal, BackKeepsWal
  <1>3. CASE DrillWALRmgr \/ DrillWALRelation \/ DrillWALRecord \/ DrillWALBlock
    BY <1>3, KeysKeepWal
  <1>4. ASSUME NEW load \in walLoads, WindowIsResolved(load)
        PROVE  WalInv'
    <2>1. IsLoad(WalLoad("overview", walEnd, load.key))
      BY LoadIs DEF WalLoad, WalInv, WalTypes
    <2>2. \A l \in walLoads \ {load} : IsLoad(l)
      BY DEF WalInv, WalTypes
    <2>3. walLoads \ {load} \subseteq walLoads' /\ \A l \in walLoads' : IsLoad(l)
      BY <1>4, <2>1, <2>2, Added DEF WindowIsResolved
    <2>4. \A l \in walLoads : l.kind = "relations" => l \in walLoads'
      BY <1>4, <2>3 DEF WindowIsResolved
    <2>5. QED
      BY <1>4, <2>3, <2>4, OverviewKept DEF WindowIsResolved, WalInv, WalTypes
  <1>5. ASSUME NEW load \in walLoads, WalAnswerDropped(load)
        PROVE  WalInv'
    <2>1. \A l \in walLoads : l.kind = "relations" /\ l.window = walStack[1].window => l \in walLoads'
      BY <1>5 DEF WalAnswerDropped, Answered, ScanOfWindow
    <2>2. QED
      BY <1>5, <2>1, OverviewKept DEF WalAnswerDropped, Answered, WalInv, WalTypes
  <1>6. ASSUME NEW load \in walLoads, NEW failed \in BOOLEAN,
               \/ OnWALOverviewLoaded(load, failed) \/ OnWALSummaryLoaded(load, failed)
               \/ OnWALRelationsLoaded(load, failed) \/ OnWALRowsLoaded(load, failed)
        PROVE  WalInv'
    BY <1>6, OverviewAnswerKeepsWal, SummaryAnswerKeepsWal, RelationsAnswerKeepsWal, RowsAnswerKeepsWal
  <1>7. QED
    BY <1>1, <1>2, <1>3, <1>4, <1>5, <1>6 DEF WalNext

LEMMA WalInitHolds == WalInit => WalInv
  <1> SUFFICES ASSUME WalInit
               PROVE  WalInv
    OBVIOUS
  <1>1. NoName \in WalKeys
    <2>1. NoWindow \in Int
      BY DEF NoWindow
    <2>2. QED
      BY <2>1 DEF NoName, Named, WalKeys
  <1>2. WalScreen("wal", NoWindow, NoName) \in WalRow
    BY <1>1, NewWalScreen DEF WalLevels, NoWindow
  <1>3. \A l \in walLoads : IsLoad(l)
    BY DEF WalInit, LoadsOf, WalLoad, IsLoad, NoWindow, WalScreen
  <1>4. WalTypes
    <2>1. walStack = <<WalScreen("wal", NoWindow, NoName)>>
      BY DEF WalInit
    <2>2. walStack \in Seq(WalRow) /\ Len(walStack) = 1 /\ walStack[1] = WalScreen("wal", NoWindow, NoName)
      BY <1>2, <2>1
    <2>3. walStack[1].level = "wal"
      BY <2>2 DEF WalScreen
    <2>4. QED
      BY <1>3, <2>1, <2>2, <2>3 DEF WalInit, WalTypes
  <1>5. OverviewWhole
    BY DEF WalInit, OverviewWhole, WalScreen, Unread
  <1>6. QED
    BY <1>4, <1>5 DEF WalInv

LEMMA WalStays ==
  ASSUME WalInv, UNCHANGED walVars
  PROVE  WalInv'
  BY DEF WalInv, walVars, WalTypes, OverviewWhole

-----------------------------------------------------------------------------
(* A behaviour shows one of them.                                          *)
InspectInv ==
  \/ inspector = "window" /\ WindowInv /\ walStack = <<>>
  \/ inspector = "wal" /\ WalInv /\ list = NoList
  \/ inspector \notin {"window", "wal"} /\ list = NoList /\ walStack = <<>>

LEMMA InspectInitHolds == InspectInit => InspectInv
  <1>1. NoListing => list = NoList
    BY DEF NoListing
  <1>2. NoWal => walStack = <<>>
    BY DEF NoWal
  <1>3. QED
    BY <1>1, <1>2, WindowInitHolds, WalInitHolds DEF InspectInit, InspectInv, NoPages

LEMMA InspectNextKeeps ==
  ASSUME InspectInv, [InspectNext]_inspectVars
  PROVE  InspectInv'
  <1>1. UNCHANGED inspector
    BY DEF InspectNext, inspectVars
  <1>2. CASE inspector = "window"
    <2>1. WindowInv /\ walStack = <<>>
      BY <1>2 DEF InspectInv
    <2>2. (WindowNext \/ UNCHANGED windowVars) /\ UNCHANGED walStack
      BY <1>2 DEF InspectNext, inspectVars, walVars
    <2>3. WindowInv'
      BY <2>1, <2>2, WindowNextKeeps, WindowStays
    <2>4. QED
      BY <1>1, <1>2, <2>1, <2>2, <2>3 DEF InspectInv
  <1>3. CASE inspector = "wal"
    <2>1. WalInv /\ list = NoList
      BY <1>3 DEF InspectInv
    <2>2. (WalNext \/ UNCHANGED walVars) /\ UNCHANGED list
      BY <1>3 DEF InspectNext, inspectVars, pageVars, windowVars
    <2>3. WalInv'
      BY <2>1, <2>2, WalNextKeeps, WalStays
    <2>4. QED
      BY <1>1, <1>3, <2>1, <2>2, <2>3 DEF InspectInv
  <1>4. CASE inspector \notin {"window", "wal"}
    <2>1. UNCHANGED <<list, walStack>>
      BY <1>4 DEF InspectNext, inspectVars, pageVars, windowVars, walVars
    <2>2. QED
      BY <1>1, <1>4, <2>1 DEF InspectInv
  <1>5. QED
    BY <1>2, <1>3, <1>4

(* onPagesLoadedOf, onGinDataLeafFound, onWALOverviewLoaded,               *)
(* onWALRelationsLoaded: a settled list holds rows of the window in its    *)
(* header and stands on the leaf it was sent to, and the tables of the WAL *)
(* overview are of one window, whatever is asked for while they are read.  *)
THEOREM WindowsAreWhole == InspectSpec => []WindowsWhole
  <1>1. InspectInit => InspectInv
    BY InspectInitHolds
  <1>2. InspectInv /\ [InspectNext]_inspectVars => InspectInv'
    BY InspectNextKeeps
  <1>3. InspectInv => WindowsWhole
    <2>1. list = NoList => WindowSound
      BY DEF NoList, WindowSound, RowsOfWindow, LandsOnLeaf
    <2>2. walStack = <<>> => OverviewWhole
      BY DEF OverviewWhole
    <2>3. WalInv => OverviewWhole
      BY DEF WalInv
    <2>4. QED
      BY <2>1, <2>2, <2>3, WindowIsSound DEF InspectInv, WindowsWhole
  <1>4. QED
    BY <1>1, <1>2, <1>3, PTL DEF InspectSpec

-----------------------------------------------------------------------------
(* The walk through the pages.  Where the first entry of a kind is found,  *)
(* and the last screen of a level.                                         *)
LEMMA FirstOf ==
  ASSUME NEW n \in Nat, NEW I \in SUBSET (1..n)
  PROVE  /\ (IF I # {} THEN Min(I) ELSE 0) # 0 => (IF I # {} THEN Min(I) ELSE 0) \in I
         /\ (IF I # {} THEN Min(I) ELSE 0) = 0 => I = {}
         /\ \A i \in I : (IF I # {} THEN Min(I) ELSE 0) <= i
  <1>1. I \in SUBSET Nat
    OBVIOUS
  <1>2. CASE I # {}
    BY <1>1, <1>2, MinOf
  <1>3. CASE I = {}
    BY <1>3
  <1>4. QED
    BY <1>2, <1>3

LEMMA FoundRow ==
  ASSUME NEW s, Len(s) \in Nat, NEW slot
  PROVE  LET at == SelectInSeq(s, LAMBDA r : r = slot)
         IN  /\ at # 0 => at \in 1..Len(s) /\ s[at] = slot
             /\ at = 0 => \A i \in 1..Len(s) : s[i] # slot
  <1> DEFINE I == {i \in 1..Len(s) : s[i] = slot}
             at == SelectInSeq(s, LAMBDA r : r = slot)
  <1>1. at = IF I # {} THEN Min(I) ELSE 0
    BY DEF SelectInSeq
  <1>2. I \in SUBSET (1..Len(s))
    OBVIOUS
  <1> HIDE DEF at
  <1>3. (at # 0 => at \in I) /\ (at = 0 => I = {})
    BY <1>1, <1>2, FirstOf
  <1>4. QED
    BY <1>3 DEF at

(* A sequence of sequences laid end to end has their elements.             *)
Joins(f, ss, n) == f = [i \in 1..n |-> IF i = 1 THEN ss[i] ELSE f[i-1] \o ss[i]]

LEMMA JoinExists ==
  ASSUME NEW S, NEW ss \in Seq(Seq(S)), NEW n \in 1..Len(ss)
  PROVE  \E f : Joins(f, ss, n)
  <1> DEFINE Bad == {k \in 1..Len(ss) : ~\E f : Joins(f, ss, k)}
  <1> SUFFICES ASSUME Bad # {}
               PROVE  FALSE
    OBVIOUS
  <1>1. Bad \in SUBSET Nat
    OBVIOUS
  <1>2. PICK k \in Bad : \A j \in Bad : k <= j
    BY <1>1, LeastNatural
  <1>3. CASE k = 1
    <2> DEFINE f == [i \in 1..1 |-> ss[i]]
    <2>1. f = [i \in 1..1 |-> IF i = 1 THEN ss[i] ELSE f[i-1] \o ss[i]]
      OBVIOUS
    <2>2. Joins(f, ss, 1)
      BY <2>1 DEF Joins
    <2>3. QED
      BY <1>2, <1>3, <2>2
  <1>4. CASE k # 1
    <2>1. k \in 1..Len(ss) /\ k - 1 \in 1..Len(ss) /\ k - 1 < k
      BY <1>2, <1>4
    <2>9. \A j \in 1..Len(ss) : j \notin Bad => \E f : Joins(f, ss, j)
      OBVIOUS
    <2> HIDE DEF Bad
    <2>2. k - 1 \notin Bad
      BY <1>2, <2>1
    <2>3. PICK g : Joins(g, ss, k - 1)
      BY <2>1, <2>2, <2>9
    <2> DEFINE f == [i \in 1..k |-> IF i = k THEN g[k-1] \o ss[k] ELSE g[i]]
    <2>4. f = [i \in 1..k |-> IF i = 1 THEN ss[i] ELSE f[i-1] \o ss[i]]
      <3>1. \A i \in 1..k : f[i] = IF i = 1 THEN ss[i] ELSE f[i-1] \o ss[i]
        <4> TAKE i \in 1..k
        <4>1. CASE i = k
          <5>1. k - 1 \in 1..k /\ k - 1 # k /\ k \in 1..k
            BY <1>4, <2>1
          <5>2. f[k] = g[k-1] \o ss[k] /\ f[k-1] = g[k-1]
            BY <5>1
          <5> HIDE DEF f
          <5>3. QED
            BY <1>4, <4>1, <5>2
        <4>2. CASE i # k
          <5>1. i \in 1..(k-1) /\ f[i] = g[i] /\ (i # 1 => i - 1 \in 1..(k-1) /\ f[i-1] = g[i-1])
            BY <2>1, <4>2
          <5>2. g[i] = IF i = 1 THEN ss[i] ELSE g[i-1] \o ss[i]
            BY <2>3, <5>1 DEF Joins
          <5>3. QED
            BY <5>1, <5>2
        <4>3. QED
          BY <4>1, <4>2
      <3>2. f = [i \in 1..k |-> f[i]]
        OBVIOUS
      <3>3. QED
        BY <3>1, <3>2
    <2>5. Joins(f, ss, k)
      BY <2>4 DEF Joins
    <2>6. QED
      BY <1>2, <2>5 DEF Bad
  <1>5. QED
    BY <1>3, <1>4

LEMMA Flattened ==
  ASSUME NEW S, NEW ss \in Seq(Seq(S)), Len(ss) # 0
  PROVE  /\ FlattenSeq(ss) \in Seq(S)
         /\ \A i \in 1..Len(ss) : \A k \in 1..Len(ss[i]) : \E m \in 1..Len(FlattenSeq(ss)) : FlattenSeq(ss)[m] = ss[i][k]
         /\ \A m \in 1..Len(FlattenSeq(ss)) : \E i \in 1..Len(ss) : \E k \in 1..Len(ss[i]) : FlattenSeq(ss)[m] = ss[i][k]
  <1> DEFINE n == Len(ss)
             flat == CHOOSE f : Joins(f, ss, n)
  <1>1. n \in 1..Len(ss)
    OBVIOUS
  <1>2. Joins(flat, ss, n)
    BY <1>1, JoinExists
  <1>3. FlattenSeq(ss) = flat[n]
    BY DEF FlattenSeq, Joins
  <1> DEFINE Among(x, j) == \E i \in 1..j : \E k \in 1..Len(ss[i]) : x = ss[i][k]
             Good(j) == /\ flat[j] \in Seq(S)
                        /\ \A i \in 1..j : \A k \in 1..Len(ss[i]) : \E m \in 1..Len(flat[j]) : flat[j][m] = ss[i][k]
                        /\ \A m \in 1..Len(flat[j]) : Among(flat[j][m], j)
             Bad == {j \in 1..n : ~Good(j)}
  <1> HIDE DEF flat
  <1>4. \A j \in 1..n : flat[j] = IF j = 1 THEN ss[j] ELSE flat[j-1] \o ss[j]
    BY <1>2 DEF Joins
  <1>5. \A j \in 1..n : ss[j] \in Seq(S)
    OBVIOUS
  <1>6. Bad = {}
    <2> SUFFICES ASSUME Bad # {}
                 PROVE  FALSE
      OBVIOUS
    <2>1. Bad \in SUBSET Nat
      OBVIOUS
    <2>2. PICK j \in Bad : \A k \in Bad : j <= k
      BY <2>1, LeastNatural
    <2>3. j \in 1..n /\ ~Good(j)
      BY <2>2
    <2>4. CASE j = 1
      <3>1. flat[j] = ss[1] /\ ss[1] \in Seq(S)
        BY <1>4, <1>5, <2>3, <2>4
      <3>2. QED
        BY <2>3, <2>4, <3>1
    <2>5. CASE j # 1
      <3>1. j - 1 \in 1..n /\ j - 1 < j /\ 1..j = 1..(j-1) \cup {j}
        BY <2>3, <2>5
      <3>2. Good(j - 1)
        <4> HIDE DEF Good
        <4>1. \A k \in 1..n : k \notin Bad => Good(k)
          OBVIOUS
        <4> HIDE DEF Bad
        <4>2. j - 1 \notin Bad
          BY <2>2, <3>1
        <4>3. QED
          BY <3>1, <4>1, <4>2
      <3> DEFINE a == flat[j-1]
                 b == ss[j]
      <3>3. flat[j] = a \o b /\ b \in Seq(S) /\ a \in Seq(S)
        BY <1>4, <1>5, <2>3, <2>5, <3>2
      <3>4. /\ a \o b \in Seq(S) /\ Len(a \o b) = Len(a) + Len(b) /\ Len(a) \in Nat /\ Len(b) \in Nat
            /\ \A m \in 1..Len(a) : (a \o b)[m] = a[m]
            /\ \A m \in 1..Len(b) : (a \o b)[Len(a) + m] = b[m]
        <4> HIDE DEF a, b
        <4>1. QED
          BY <3>3
      <3>5. \A i \in 1..j : \A k \in 1..Len(ss[i]) : \E m \in 1..Len(flat[j]) : flat[j][m] = ss[i][k]
        <4> TAKE i \in 1..j
        <4> TAKE k \in 1..Len(ss[i])
        <4>1. CASE i \in 1..(j-1)
          <5>1. PICK m \in 1..Len(a) : a[m] = ss[i][k]
            BY <3>2, <4>1
          <5>2. m \in 1..Len(flat[j]) /\ flat[j][m] = ss[i][k]
            <6> HIDE DEF a, b, flat
            <6>1. QED
              BY <3>3, <3>4, <5>1
          <5>3. QED
            BY <5>2
        <4>2. CASE i = j
          <5>1. Len(a) + k \in 1..Len(flat[j]) /\ flat[j][Len(a) + k] = b[k]
            <6>1. k \in 1..Len(b)
              BY <4>2
            <6> HIDE DEF a, b, flat
            <6>2. (a \o b)[Len(a) + k] = b[k]
              BY <3>4, <6>1
            <6>3. Len(a) + k \in 1..(Len(a) + Len(b))
              BY <3>4, <6>1
            <6>4. flat[j] = a \o b /\ Len(a \o b) = Len(a) + Len(b)
              BY <3>3, <3>4
            <6>5. QED
              BY <6>2, <6>3, <6>4
          <5>2. QED
            BY <4>2, <5>1
        <4>3. QED
          BY <3>1, <4>1, <4>2
      <3>6. \A m \in 1..Len(flat[j]) : Among(flat[j][m], j)
        <4> TAKE m \in 1..Len(flat[j])
        <4>1. CASE m \in 1..Len(a)
          <5>1. flat[j][m] = a[m]
            <6> HIDE DEF a, b
            <6>1. QED
              BY <3>3, <3>4, <4>1
          <5>2. Among(a[m], j - 1)
            BY <3>2, <4>1
          <5>3. QED
            BY <3>1, <5>1, <5>2
        <4>2. CASE m \notin 1..Len(a)
          <5>1. m - Len(a) \in 1..Len(b) /\ flat[j][m] = b[m - Len(a)]
            <6> HIDE DEF a, b
            <6>1. m - Len(a) \in 1..Len(b) /\ m = Len(a) + (m - Len(a))
              BY <3>3, <3>4, <4>2
            <6>2. QED
              BY <3>3, <3>4, <6>1
          <5>2. j \in 1..j
            BY <2>3
          <5>3. QED
            BY <5>1, <5>2
        <4>3. QED
          BY <4>1, <4>2
      <3>7. flat[j] \in Seq(S)
        BY <3>3, <3>4
      <3>8. QED
        BY <2>3, <3>5, <3>6, <3>7
    <2>6. QED
      BY <2>4, <2>5
  <1>7. Good(n)
    <2> HIDE DEF Good
    <2>1. QED
      BY <1>1, <1>6
  <1>8. QED
    BY <1>3, <1>7

-----------------------------------------------------------------------------
(* The B-tree.  A page covers a key when its bound is the next above it.   *)
NextAbove(e, level, b, q) ==
  \/ /\ UpperBound(e, b) = NoKey
     /\ \A c \in OnLevelOf(e, level) : UpperBound(e, c) # NoKey => UpperBound(e, c) <= q
  \/ /\ UpperBound(e, b) # NoKey /\ UpperBound(e, b) > q
     /\ \A c \in OnLevelOf(e, level) : UpperBound(e, c) # NoKey /\ UpperBound(e, c) > q => UpperBound(e, b) <= UpperBound(e, c)

LEMMA TreeTypes ==
  ASSUME NEW e \in Times
  PROVE  /\ IndexAt[e] \in Trees /\ HeapAt[e] \in Heaps /\ BTree(e)
         /\ \A b \in DOMAIN IndexAt[e] : IndexAt[e][b].level \in Nat /\ IndexAt[e][b].items \in Seq(Entries) /\ b \in Nat \ {0}
         /\ \A b \in DOMAIN IndexAt[e] : UpperBound(e, b) \in IndexKeys
         /\ \A b, c \in DOMAIN IndexAt[e] :
              IndexAt[e][b].level = IndexAt[e][c].level /\ UpperBound(e, b) = UpperBound(e, c) => b = c
         /\ \A b \in DOMAIN IndexAt[e] : NoKey \in Bounds(e, IndexAt[e][b].level)
  <1>1. IndexAt[e] \in Trees /\ HeapAt[e] \in Heaps /\ BTree(e)
    BY DescentAssumption DEF PagesStay
  <1>2. \A b \in DOMAIN IndexAt[e] : IndexAt[e][b].level \in Nat /\ IndexAt[e][b].items \in Seq(Entries) /\ b \in Nat \ {0}
    <2> DEFINE Pages == [type : {"r", "i", "l"}, level : Nat, rightmost : BOOLEAN, items : Seq(Entries)]
    <2>1. IndexAt[e] \in Seq(Pages)
      BY <1>1 DEF Trees
    <2>2. \A b \in DOMAIN IndexAt[e] : IndexAt[e][b] \in Pages /\ b \in Nat \ {0}
      <3> HIDE DEF Pages
      <3>1. QED
        BY <2>1
    <2>3. QED
      BY <2>2
  <1>3. \A b \in DOMAIN IndexAt[e] : UpperBound(e, b) \in IndexKeys
    <2> TAKE b \in DOMAIN IndexAt[e]
    <2>1. PageFits(e, b)
      BY <1>1 DEF BTree
    <2>2. UpperBound(e, b) \in (IF IndexAt[e][b].rightmost THEN {NoKey} ELSE Int)
      BY <2>1 DEF PageFits
    <2>3. QED
      BY <2>2 DEF IndexKeys
  <1>4. \A b \in DOMAIN IndexAt[e] : NoKey \in Bounds(e, IndexAt[e][b].level)
    BY <1>1 DEF BTree, PageFits
  <1>5. QED
    BY <1>1, <1>2, <1>3, <1>4 DEF BTree

LEMMA CoveringIs ==
  ASSUME NEW e \in Times, NEW level, NEW q \in Int, NEW b \in OnLevelOf(e, level)
  PROVE  b = Covering(e, level, q) <=> NextAbove(e, level, b, q)
  <1> DEFINE pages == OnLevelOf(e, level)
             U(c) == UpperBound(e, c)
             above == {c \in pages : U(c) # NoKey /\ U(c) > q}
  <1>1. \A c \in pages : c \in DOMAIN IndexAt[e] /\ IndexAt[e][c].level = level
    BY DEF OnLevelOf
  <1>2. \A c \in pages : U(c) \in IndexKeys
    BY <1>1, TreeTypes
  <1>3. \A c, d \in pages : U(c) = U(d) => c = d
    BY <1>1, TreeTypes
  <1>4. \E c \in pages : U(c) = NoKey
    <2>1. NoKey \in Bounds(e, level)
      BY <1>1, TreeTypes
    <2>2. QED
      BY <2>1 DEF Bounds
  <1>5. Covering(e, level, q) = IF above = {} THEN CHOOSE c \in pages : U(c) = NoKey
                                ELSE CHOOSE c \in above : \A d \in above : U(c) <= U(d)
    BY DEF Covering, OnLevelOf
  <1>6. NoKey \notin Int
    BY DescentAssumption
  <1>7. above # {} => \E c \in above : \A d \in above : U(c) <= U(d)
    <2> SUFFICES ASSUME above # {}
                 PROVE  \E c \in above : \A d \in above : U(c) <= U(d)
      OBVIOUS
    <2> DEFINE T == {U(c) - q : c \in above}
    <2> HIDE DEF U, pages
    <2>1. \A c \in above : U(c) \in Int /\ U(c) - q \in Nat
      BY <1>2 DEF IndexKeys
    <2> HIDE DEF above
    <2>2. T \in SUBSET Nat /\ T # {}
      BY <2>1
    <2>3. PICK t \in T : \A u \in T : t <= u
      BY <2>2, LeastNatural
    <2>4. PICK c \in above : t = U(c) - q
      BY <2>3
    <2>5. \A d \in above : U(c) <= U(d)
      <3> TAKE d \in above
      <3>1. U(d) - q \in T
        OBVIOUS
      <3>2. U(c) - q <= U(d) - q
        BY <2>3, <2>4, <3>1
      <3>3. QED
        BY <2>1, <3>2
    <2>6. QED
      BY <2>5
  <1>8. NextAbove(e, level, b, q) <=> \/ U(b) = NoKey /\ above = {}
                                      \/ b \in above /\ \A d \in above : U(b) <= U(d)
    <2>1. \A c \in pages : U(c) # NoKey => U(c) \in Int
      BY <1>2 DEF IndexKeys
    <2> HIDE DEF pages, U
    <2>2. above = {} <=> \A c \in pages : U(c) # NoKey => U(c) <= q
      BY <2>1
    <2>3. b \in above <=> U(b) # NoKey /\ U(b) > q
      BY DEF pages
    <2>4. NextAbove(e, level, b, q) <=>
            \/ U(b) = NoKey /\ \A c \in pages : U(c) # NoKey => U(c) <= q
            \/ U(b) # NoKey /\ U(b) > q /\ \A c \in pages : U(c) # NoKey /\ U(c) > q => U(b) <= U(c)
      BY DEF NextAbove, U, pages
    <2>5. QED
      BY <2>2, <2>3, <2>4
  <1> HIDE DEF above, pages, U
  <1>9. above \subseteq pages /\ \A c \in above : U(c) # NoKey /\ U(c) \in Int
    BY <1>2 DEF above, IndexKeys
  <1>10. CASE above = {}
    BY <1>3, <1>4, <1>5, <1>8, <1>10 DEF pages
  <1>11. CASE above # {}
    <2> DEFINE Least(c) == \A d \in above : U(c) <= U(d)
    <2>1. \A c, d \in above : Least(c) /\ Least(d) => c = d
      BY <1>3, <1>9
    <2>2. \E c \in above : Least(c)
      BY <1>7, <1>11
    <2>3. Covering(e, level, q) = CHOOSE c \in above : Least(c)
      BY <1>5, <1>11
    <2> HIDE DEF Least
    <2>4. b = Covering(e, level, q) <=> b \in above /\ Least(b)
      BY <2>1, <2>2, <2>3
    <2>5. QED
      BY <1>8, <1>11, <2>4 DEF Least
  <1>12. QED
    BY <1>10, <1>11

(* What is known of a page above the leaves, and of the bounds below it.   *)
LEMMA LinkFacts ==
  ASSUME NEW e \in Times, NEW b \in DOMAIN IndexAt[e], IndexAt[e][b].level > 0
  PROVE  LET node == IndexAt[e][b]
             first == FirstLink(node)
             last == Len(node.items)
             U(c) == UpperBound(e, c)
         IN  /\ first \in {1, 2} /\ last \in Nat /\ last >= first /\ node.items[first].key = NoKey
             /\ \A n \in (first + 1)..last : node.items[n].key \in Int
             /\ \A m, n \in (first + 1)..last : m < n => node.items[m].key < node.items[n].key
             /\ \A n \in first..last :
                  /\ node.items[n].child \in OnLevelOf(e, node.level - 1)
                  /\ U(node.items[n].child) = IF n = last THEN U(b) ELSE node.items[n + 1].key
             /\ \A key \in LinkKeys(node) :
                  /\ U(b) # NoKey => key < U(b)
                  /\ \A c \in OnLevelOf(e, node.level) \ {b} :
                       U(c) # NoKey /\ (U(b) # NoKey => U(c) < U(b)) => key >= U(c)
  <1>1. PageFits(e, b)
    BY TreeTypes DEF BTree
  <1>2. LinksOf(e, b)
    BY <1>1 DEF PageFits
  <1>3. Len(IndexAt[e][b].items) \in Nat
    BY TreeTypes
  <1>4. FirstLink(IndexAt[e][b]) \in {1, 2}
    BY DEF FirstLink
  <1> DEFINE node == IndexAt[e][b]
             first == FirstLink(node)
             last == Len(node.items)
  <1>5. /\ last >= first /\ node.items[first].key = NoKey
        /\ \A n \in (first + 1)..last : node.items[n].key \in Int
    BY <1>2 DEF LinksOf
  <1>9. \A m, n \in (first + 1)..last : m < n => node.items[m].key < node.items[n].key
    BY <1>2 DEF LinksOf
  <1>6. \A n \in first..last :
          /\ node.items[n].child \in OnLevelOf(e, node.level - 1)
          /\ UpperBound(e, node.items[n].child) = IF n = last THEN UpperBound(e, b) ELSE node.items[n + 1].key
    BY <1>2 DEF LinksOf
  <1>7. \A key \in LinkKeys(node) :
          /\ UpperBound(e, b) # NoKey => key < UpperBound(e, b)
          /\ \A c \in OnLevelOf(e, node.level) \ {b} :
               UpperBound(e, c) # NoKey /\ (UpperBound(e, b) # NoKey => UpperBound(e, c) < UpperBound(e, b))
                 => key >= UpperBound(e, c)
    BY <1>2, Zenon DEF LinksOf
  <1>8. QED
    BY <1>3, <1>4, <1>5, <1>6, <1>7, <1>9, Zenon

LEMMA ChildCovers ==
  ASSUME NEW e \in Times, NEW b \in DOMAIN IndexAt[e], IndexAt[e][b].level > 0, NEW q \in Int,
         b = Covering(e, IndexAt[e][b].level, q),
         NEW j \in FirstLink(IndexAt[e][b])..Len(IndexAt[e][b].items),
         j > FirstLink(IndexAt[e][b]) => IndexAt[e][b].items[j].key <= q,
         j < Len(IndexAt[e][b].items) => IndexAt[e][b].items[j + 1].key > q
  PROVE  /\ IndexAt[e][b].items[j].child \in DOMAIN IndexAt[e]
         /\ IndexAt[e][b].items[j].child = Covering(e, IndexAt[e][IndexAt[e][b].items[j].child].level, q)
  <1> DEFINE node == IndexAt[e][b]
             first == FirstLink(node)
             last == Len(node.items)
             level == node.level
             U(x) == UpperBound(e, x)
             child == node.items[j].child
             K(n) == node.items[n].key
  <1>1. /\ first \in {1, 2} /\ last \in Nat /\ last >= first /\ K(first) = NoKey
        /\ \A n \in (first + 1)..last : K(n) \in Int
        /\ \A m, n \in (first + 1)..last : m < n => K(m) < K(n)
        /\ child \in OnLevelOf(e, level - 1) /\ U(child) = IF j = last THEN U(b) ELSE K(j + 1)
    BY LinkFacts
  <1>2. /\ NoKey \notin Int
        /\ \A x \in DOMAIN IndexAt[e] : U(x) = NoKey \/ U(x) \in Int
        /\ \A x, y \in OnLevelOf(e, level) : U(x) = U(y) => x = y
    BY TreeTypes, DescentAssumption DEF IndexKeys, OnLevelOf
  <1>3. b \in OnLevelOf(e, level) /\ child \in DOMAIN IndexAt[e] /\ IndexAt[e][child].level = level - 1
    BY <1>1 DEF OnLevelOf
  <1>4. NextAbove(e, level, b, q)
    BY <1>3, CoveringIs
  <1>5. /\ U(b) = NoKey \/ (U(b) \in Int /\ U(b) > q)
        /\ \A x \in OnLevelOf(e, level) :
             U(x) # NoKey => U(x) \in Int /\ (U(x) <= q \/ (U(b) # NoKey /\ U(b) <= U(x)))
    <2>1. \A x \in OnLevelOf(e, level) : x \in DOMAIN IndexAt[e]
      BY DEF OnLevelOf
    <2> HIDE DEF U, level
    <2>2. \A x \in OnLevelOf(e, level) : U(x) # NoKey => U(x) \in Int
      BY <1>2, <2>1
    <2>3. \/ /\ U(b) = NoKey
             /\ \A c \in OnLevelOf(e, level) : U(c) # NoKey => U(c) <= q
          \/ /\ U(b) # NoKey /\ U(b) > q
             /\ \A c \in OnLevelOf(e, level) : U(c) # NoKey /\ U(c) > q => U(b) <= U(c)
      BY <1>4 DEF NextAbove, U
    <2>4. QED
      BY <1>3, <2>2, <2>3
  (* Nothing between the key and the bound of the page.                    *)
  <1>6. \A n \in (first + 1)..last : K(n) > q => j < last /\ K(j + 1) <= K(n)
    <2> HIDE DEF K, first, last
    <2>1. j \in first..last /\ (j > first => K(j) <= q)
      BY DEF K, first, last
    <2>2. QED
      BY <1>1, <2>1
  <1>7. \A c \in OnLevelOf(e, level) \ {b} : \A k \in LinkKeys(IndexAt[e][c]) :
          k \in Int /\ (k > q => U(b) # NoKey /\ U(b) <= k)
    <2> TAKE c \in OnLevelOf(e, level) \ {b}
    <2> TAKE k \in LinkKeys(IndexAt[e][c])
    <2>1. c \in DOMAIN IndexAt[e] /\ IndexAt[e][c].level = level /\ level > 0
      BY DEF OnLevelOf
    <2>2. /\ k \in Int
          /\ U(c) # NoKey => k < U(c)
          /\ U(b) # NoKey /\ (U(c) # NoKey => U(b) < U(c)) => k >= U(b)
      <3>1. \A n \in (FirstLink(IndexAt[e][c]) + 1)..Len(IndexAt[e][c].items) : IndexAt[e][c].items[n].key \in Int
        BY <2>1, LinkFacts
      <3>2. k \in Int
        BY <3>1 DEF LinkKeys
      <3>3. /\ U(c) # NoKey => k < U(c)
            /\ \A x \in OnLevelOf(e, IndexAt[e][c].level) \ {c} :
                 U(x) # NoKey /\ (U(c) # NoKey => U(x) < U(c)) => k >= U(x)
        BY <2>1, LinkFacts
      <3>4. b \in OnLevelOf(e, IndexAt[e][c].level) \ {c}
        BY <1>3, <2>1
      <3>5. QED
        BY <3>2, <3>3, <3>4
    <2>3. U(c) # U(b)
      BY <1>2, <1>3
    <2> HIDE DEF U, level
    <2>4. QED
      BY <1>2, <1>3, <1>5, <2>1, <2>2, <2>3
  <1>8. \A x \in OnLevelOf(e, level - 1) : U(x) # NoKey =>
          U(x) \in Int /\ (U(x) > q => U(child) # NoKey /\ U(child) <= U(x))
    <2> TAKE x \in OnLevelOf(e, level - 1)
    <2> SUFFICES ASSUME U(x) # NoKey
                 PROVE  U(x) \in Int /\ (U(x) > q => U(child) # NoKey /\ U(child) <= U(x))
      OBVIOUS
    <2>1. LevelBelow(e, level)
      BY TreeTypes DEF BTree, PageFits
    <2>2. U(x) \in Bounds(e, level - 1)
      BY DEF Bounds
    <2>3. \/ \E y \in OnLevelOf(e, level) : U(x) = U(y)
          \/ \E c \in OnLevelOf(e, level) : U(x) \in LinkKeys(IndexAt[e][c])
      <3>1. U(x) \in Bounds(e, level) \cup UNION {LinkKeys(IndexAt[e][c]) : c \in OnLevelOf(e, level)}
        BY <2>1, <2>2 DEF LevelBelow
      <3>2. QED
        BY <3>1 DEF Bounds
    <2>4. \/ U(child) = U(b)
          \/ j < last /\ U(child) = K(j + 1) /\ K(j + 1) \in Int /\ (U(b) # NoKey => K(j + 1) < U(b))
      <3>1. CASE j = last
        BY <1>1, <3>1
      <3>2. CASE j # last
        <4>1. j < last /\ j + 1 \in (first + 1)..last
          BY <1>1, <3>2
        <4>2. K(j + 1) \in LinkKeys(node)
          BY <4>1 DEF LinkKeys
        <4>3. U(b) # NoKey => K(j + 1) < U(b)
          BY <4>2, LinkFacts
        <4>4. QED
          BY <1>1, <3>2, <4>1, <4>3
      <3>3. QED
        BY <3>1, <3>2
    <2>5. CASE \E y \in OnLevelOf(e, level) : U(x) = U(y)
      <3> HIDE DEF U, level, K
      <3>1. QED
        BY <1>2, <1>5, <2>4, <2>5
    <2>6. CASE \E n \in (first + 1)..last : U(x) = K(n)
      <3> HIDE DEF U, level, K
      <3>1. PICK n \in (first + 1)..last : U(x) = K(n)
        BY <2>6
      <3>2. K(n) \in Int /\ (K(n) > q => j < last /\ K(j + 1) <= K(n))
        BY <1>1, <1>6
      <3>3. j < last => U(child) = K(j + 1) /\ K(j + 1) \in Int
        BY <1>1
      <3>4. QED
        BY <1>2, <3>1, <3>2, <3>3
    <2>7. CASE \E c \in OnLevelOf(e, level) \ {b} : U(x) \in LinkKeys(IndexAt[e][c])
      <3> HIDE DEF U, level, K
      <3>1. U(x) \in Int /\ (U(x) > q => U(b) # NoKey /\ U(b) <= U(x))
        BY <1>7, <2>7
      <3>2. QED
        BY <1>2, <1>5, <2>4, <3>1
    <2>8. LinkKeys(node) = {K(n) : n \in (first + 1)..last}
      BY DEF LinkKeys
    <2>9. QED
      BY <2>3, <2>5, <2>6, <2>7, <2>8
  <1>9. U(child) # NoKey => U(child) > q
    <2>1. j # last => U(child) > q
      BY <1>1
    <2>2. QED
      BY <1>1, <1>5, <2>1
  <1>10. NextAbove(e, level - 1, child, q)
    <2>1. \/ /\ U(child) = NoKey
             /\ \A c \in OnLevelOf(e, level - 1) : U(c) # NoKey => U(c) <= q
          \/ /\ U(child) # NoKey /\ U(child) > q
             /\ \A c \in OnLevelOf(e, level - 1) : U(c) # NoKey /\ U(c) > q => U(child) <= U(c)
      <3> HIDE DEF U, level, child
      <3>1. QED
        BY <1>8, <1>9
    <2>2. QED
      BY <2>1 DEF NextAbove
  <1>11. QED
    BY <1>1, <1>3, <1>10, CoveringIs

-----------------------------------------------------------------------------
(* The screens of the walk.  A screen names the pages it is of, its bytes  *)
(* are of the tuple its overlay is keyed to, it is of the type its page    *)
(* has at every time, and a row it was opened for is there at the time it  *)
(* was named.                                                              *)
ScreenFields ==
  {"level", "rel", "blk", "type", "seek", "focusLP", "want", "pick", "read", "desc", "cursor", "postingOpen", "loading",
   "loaded", "tupleAttrsLP", "tupleAttrs", "toastVal"}
IsScreen(s) == DOMAIN s = ScreenFields

TypedPage(type, blk) ==
  \A e \in Times : blk \in DOMAIN IndexAt[e] =>
    /\ type \in {"l", "r"} => IndexAt[e][blk].level = 0
    /\ type = "i" => IndexAt[e][blk].level > 0
    /\ type = "" => IndexAt[e][blk].type # "r"
Placed(blk, now) == \A e \in now..2 : blk \in DOMAIN IndexAt[e]

AttrsSound(s) == s.tupleAttrs # <<>> => s.level = "heapTuples" /\ s.tupleAttrs[1] = s.tupleAttrsLP
Promised(e, rel, blk, lp, kind, what) ==
  /\ e \in Times /\ rel \in {"table", "toast"} /\ blk \in DOMAIN HeapAt[e][rel]
  /\ \E at \in DOMAIN HeapAt[e][rel][blk] : HeapAt[e][rel][blk][at].lp = lp
  /\ IF kind = "key" THEN TupleAt(e, rel, <<blk, lp>>).key = what ELSE TupleAt(e, rel, <<blk, lp>>).chunk = what
WantSound(s) ==
  s.focusLP # 0 /\ s.want # <<>> =>
    s.level = "heapTuples" /\ Promised(s.want[3], s.rel, s.blk, s.focusLP, s.want[1], s.want[2])
PageSound(s, now) ==
  /\ s.read \in 0..now
  /\ s.level = "indexTuples" => TypedPage(s.type, s.blk) /\ Placed(s.blk, now) /\ (s.read # 0 => Placed(s.blk, s.read))

ScreenSound(s, now) == IsScreen(s) /\ AttrsSound(s) /\ WantSound(s) /\ PageSound(s, now) /\ s.seek \in SeekKeys \cup {NoKey}

(* A page was reached by the downlink under the cursor above it.           *)
Linked(s, t) ==
  s.level = "indexTuples" /\ t.level = "indexTuples" =>
    /\ s.read # 0 /\ s.type = "i" /\ HasRow(s) /\ RowAt(s)[2] = 0
    /\ IsDownlink(s, ItemAt(s)) /\ t.blk = DownlinkChildBlock(s, ItemAt(s)) /\ t.blk # 0

RequestSound(load, now) ==
  /\ DOMAIN load = {"kind", "rel", "blk", "type", "lp", "pick", "since", "nth"} /\ load.since \in 1..now
  /\ load.kind = "indexTuples" => TypedPage(load.type, load.blk) /\ Placed(load.blk, load.since)

StackSound(st, now) ==
  /\ \A i \in 1..Len(st) : ScreenSound(st[i], now)
  /\ \A i \in 1..(Len(st) - 1) : Linked(st[i], st[i + 1])
IsStack(st) == (\E S : st \in Seq(S)) /\ st # <<>>
DescentInv ==
  /\ epoch \in Times /\ IsStack(stack)
  /\ StackSound(stack, epoch) /\ \A load \in asked : RequestSound(load, epoch)

(* What a screen keeps while its cursor moves.                             *)
Still(s, t) == IsScreen(t) /\ \A f \in ScreenFields \ {"cursor"} : t[f] = s[f]

LEMMA CursorSet ==
  ASSUME NEW s, IsScreen(s), NEW at
  PROVE  Still(s, [s EXCEPT !.cursor = at]) /\ [s EXCEPT !.cursor = at].cursor = at
  BY DEF IsScreen, ScreenFields, Still

LEMMA Stays == ASSUME NEW s, IsScreen(s) PROVE Still(s, s)
  BY DEF Still

LEMMA PutOnStill == ASSUME NEW s, IsScreen(s), NEW slot PROVE Still(s, PutOn(s, slot))
  BY CursorSet, Stays DEF PutOn

LEMMA ClampStill == ASSUME NEW s, IsScreen(s) PROVE Still(s, ClampCursor(s))
  <1> DEFINE at == IF s.cursor > Len(Rows(s)) THEN Len(Rows(s)) ELSE s.cursor
  <1>1. ClampCursor(s) = IF Rows(s) = <<>> THEN [s EXCEPT !.cursor = 1] ELSE [s EXCEPT !.cursor = at]
    BY DEF ClampCursor
  <1> HIDE DEF at
  <1>2. QED
    BY <1>1, CursorSet

LEMMA SeekStill == ASSUME NEW s, IsScreen(s), NEW q PROVE Still(s, SeekTo(s, q))
  BY PutOnStill, Stays DEF SeekTo

LEMMA StillSound ==
  ASSUME NEW s, NEW t, NEW now, ScreenSound(s, now), Still(s, t)
  PROVE  ScreenSound(t, now)
  <1>1. /\ t.level = s.level /\ t.rel = s.rel /\ t.blk = s.blk /\ t.type = s.type /\ t.seek = s.seek /\ t.focusLP = s.focusLP
        /\ t.want = s.want /\ t.read = s.read /\ t.tupleAttrsLP = s.tupleAttrsLP /\ t.tupleAttrs = s.tupleAttrs
    BY DEF Still, ScreenFields
  <1>2. QED
    BY <1>1 DEF Still, ScreenSound, AttrsSound, WantSound, PageSound

-----------------------------------------------------------------------------
(* The rows of a screen.  Every entry of an index page has one, however    *)
(* the list is sorted, and every other row is of a posting of an entry.    *)
LEMMA PageItems ==
  ASSUME NEW s, s.read \in Times, s.blk \in DOMAIN IndexAt[s.read]
  PROVE  /\ IndexItems(s) \in Seq(Entries) /\ IndexItems(s) = IndexAt[s.read][s.blk].items
         /\ \A n \in 1..Len(IndexItems(s)) : IndexItems(s)[n].off = n /\ IndexItems(s)[n] \in Entries
  <1>1. IndexItems(s) = IndexAt[s.read][s.blk].items
    BY DEF IndexItems, Times
  <1>2. IndexItems(s) \in Seq(Entries)
    BY <1>1, TreeTypes
  <1>3. \A n \in DOMAIN IndexItems(s) : IndexItems(s)[n].off = n
    BY <1>1, DescentAssumption DEF PagesStay
  <1>4. \A n \in 1..Len(IndexItems(s)) : IndexItems(s)[n] \in Entries
    BY <1>2
  <1>5. QED
    BY <1>1, <1>2, <1>3, <1>4

LEMMA ItemOf ==
  ASSUME NEW s, s.read \in Times, s.blk \in DOMAIN IndexAt[s.read], NEW n \in 1..Len(IndexItems(s)), RowAt(s)[1] = n
  PROVE  ItemAt(s) = IndexItems(s)[n]
  <1> DEFINE items == IndexItems(s)
             I == {i \in 1..Len(items) : items[i].off = n}
             at == SelectInSeq(items, LAMBDA item : item.off = RowAt(s)[1])
  <1>1. at = IF I # {} THEN Min(I) ELSE 0
    BY DEF SelectInSeq
  <1>2. I = {n} /\ Len(items) \in Nat
    BY PageItems
  <1> HIDE DEF at, I
  <1>3. at = n
    BY <1>1, <1>2, FirstOf
  <1>4. QED
    BY <1>3 DEF ItemAt, at

RowOfItem(s, slot) ==
  \E n \in 1..Len(IndexItems(s)) : slot = <<n, 0>> \/ \E k \in DOMAIN IndexItems(s)[n].posting : slot = <<n, k>>

LEMMA IndexRows ==
  ASSUME NEW s, s.level = "indexTuples", s.read \in Times, s.blk \in DOMAIN IndexAt[s.read]
  PROVE  /\ Len(Rows(s)) \in Nat /\ DOMAIN Rows(s) = 1..Len(Rows(s))
         /\ \A n \in 1..Len(IndexItems(s)) : \E m \in 1..Len(Rows(s)) : Rows(s)[m] = <<n, 0>>
         /\ \A m \in 1..Len(Rows(s)) : RowOfItem(s, Rows(s)[m])
  <1> DEFINE items == IndexItems(s)
             shown == IF s.desc THEN Reverse(items) ELSE items
             Block(item) == <<<<item.off, 0>>>> \o Members(s, item)
             ss == [i \in DOMAIN items |-> Block(shown[i])]
             S == Nat \X Nat
  <1>1. items \in Seq(Entries) /\ (\A n \in 1..Len(items) : items[n].off = n /\ items[n] \in Entries)
    BY PageItems
  <1>2. Rows(s) = FlattenSeq(ss)
    BY DEF Rows
  <1>3. /\ \A i \in 1..Len(items) : \E n \in 1..Len(items) : shown[i] = items[n]
        /\ \A n \in 1..Len(items) : \E i \in 1..Len(items) : shown[i] = items[n]
    <2> HIDE DEF items
    <2>1. CASE ~s.desc
      BY <2>1
    <2>2. CASE s.desc
      <3>1. Len(items) \in Nat /\ \A i \in 1..Len(items) : shown[i] = items[Len(items) - i + 1] /\ Len(items) - i + 1 \in 1..Len(items)
        BY <1>1, <2>2 DEF Reverse
      <3>2. \A n \in 1..Len(items) : Len(items) - (Len(items) - n + 1) + 1 = n
        BY <3>1
      <3> HIDE DEF shown
      <3>3. QED
        BY <3>1, <3>2
    <2>3. QED
      BY <2>1, <2>2
  <1>4. \A n \in 1..Len(items) :
          /\ Block(items[n]) \in Seq(S) /\ Len(Block(items[n])) \in Nat \ {0} /\ Block(items[n])[1] = <<n, 0>>
          /\ \A k \in 1..Len(Block(items[n])) :
               \/ Block(items[n])[k] = <<n, 0>>
               \/ \E p \in DOMAIN items[n].posting : Block(items[n])[k] = <<n, p>>
    <2> TAKE n \in 1..Len(items)
    <2> DEFINE item == items[n]
               more == Members(s, item)
    <2>1. item.off = n /\ item.posting \in Seq(Seq(Nat)) /\ n \in Nat
      BY <1>1 DEF Entries
    <2>2. more \in Seq(S) /\ \A k \in 1..Len(more) : k \in DOMAIN item.posting /\ more[k] = <<n, k>>
      <3>1. CASE item.off \in s.postingOpen
        <4>1. more = [i \in DOMAIN item.posting |-> <<n, i>>]
          BY <2>1, <3>1 DEF Members
        <4>2. DOMAIN item.posting = 1..Len(item.posting) /\ Len(item.posting) \in Nat
          BY <2>1
        <4>3. \A i \in 1..Len(item.posting) : <<n, i>> \in S
          BY <2>1, <4>2
        <4> HIDE DEF more, item, S
        <4>4. QED
          BY <4>1, <4>2, <4>3
      <3>2. CASE item.off \notin s.postingOpen
        <4>1. more = <<>>
          BY <3>2 DEF Members
        <4> HIDE DEF more
        <4>2. QED
          BY <4>1
      <3>3. QED
        BY <3>1, <3>2
    <2>3. Block(item) = <<<<n, 0>>>> \o more
      BY <2>1
    <2>4. <<n, 0>> \in S
      BY <2>1
    <2> HIDE DEF more, Block, item, S
    <2>5. /\ Block(item) \in Seq(S) /\ Len(Block(item)) = 1 + Len(more) /\ Block(item)[1] = <<n, 0>> /\ Len(more) \in Nat
          /\ \A k \in 1..Len(Block(item)) : k # 1 => k - 1 \in 1..Len(more) /\ Block(item)[k] = more[k - 1]
      BY <2>2, <2>3, <2>4
    <2>6. \A k \in 1..Len(Block(item)) : Block(item)[k] = <<n, 0>> \/ \E p \in DOMAIN item.posting : Block(item)[k] = <<n, p>>
      BY <2>2, <2>5
    <2>7. QED
      BY <2>5, <2>6 DEF item
  <1> HIDE DEF Block, shown, items
  <1>5. /\ Len(items) \in Nat /\ DOMAIN items = 1..Len(items) /\ ss \in Seq(Seq(S)) /\ Len(ss) = Len(items)
        /\ \A i \in 1..Len(items) : ss[i] = Block(shown[i])
    <2>1. Len(items) \in Nat /\ DOMAIN items = 1..Len(items)
      BY <1>1
    <2>2. \A i \in 1..Len(items) : Block(shown[i]) \in Seq(S)
      BY <1>3, <1>4
    <2> HIDE DEF S
    <2>3. QED
      BY <2>1, <2>2
  <1>6. CASE Len(items) = 0
    <2>1. FlattenSeq(ss) = ss
      BY <1>5, <1>6 DEF FlattenSeq
    <2>2. QED
      BY <1>2, <1>5, <1>6, <2>1 DEF items, RowOfItem
  <1>7. CASE Len(items) # 0
    <2> DEFINE flat == FlattenSeq(ss)
    <2>1. /\ flat \in Seq(S)
          /\ \A i \in 1..Len(ss) : \A k \in 1..Len(ss[i]) : \E m \in 1..Len(flat) : flat[m] = ss[i][k]
          /\ \A m \in 1..Len(flat) : \E i \in 1..Len(ss) : \E k \in 1..Len(ss[i]) : flat[m] = ss[i][k]
      <3> HIDE DEF S, ss
      <3>1. QED
        BY <1>5, <1>7, Flattened
    <2> HIDE DEF flat, ss, S
    <2>2. \A n \in 1..Len(items) : \E m \in 1..Len(flat) : flat[m] = <<n, 0>>
      <3> TAKE n \in 1..Len(items)
      <3>1. PICK i \in 1..Len(items) : shown[i] = items[n]
        BY <1>3
      <3>2. ss[i] = Block(items[n]) /\ 1 \in 1..Len(ss[i]) /\ ss[i][1] = <<n, 0>>
        BY <1>4, <1>5, <3>1
      <3>3. i \in 1..Len(ss)
        BY <1>5
      <3>4. \E m \in 1..Len(flat) : flat[m] = ss[i][1]
        BY <2>1, <3>2, <3>3
      <3>5. QED
        BY <3>2, <3>4
    <2>3. \A m \in 1..Len(flat) : \E n \in 1..Len(items) :
            flat[m] = <<n, 0>> \/ \E k \in DOMAIN items[n].posting : flat[m] = <<n, k>>
      <3> TAKE m \in 1..Len(flat)
      <3>1. PICK i \in 1..Len(items) : \E k \in 1..Len(ss[i]) : flat[m] = ss[i][k]
        BY <1>5, <2>1
      <3>2. PICK n \in 1..Len(items) : shown[i] = items[n]
        BY <1>3
      <3>3. ss[i] = Block(items[n])
        BY <1>5, <3>2
      <3>4. PICK k \in 1..Len(Block(items[n])) : flat[m] = Block(items[n])[k]
        BY <3>1, <3>3
      <3>5. \/ Block(items[n])[k] = <<n, 0>>
            \/ \E p \in DOMAIN items[n].posting : Block(items[n])[k] = <<n, p>>
        BY <1>4
      <3>6. QED
        BY <3>4, <3>5
    <2>4. Rows(s) = flat /\ Len(flat) \in Nat /\ DOMAIN flat = 1..Len(flat)
      BY <1>2, <2>1 DEF flat
    <2>5. QED
      BY <2>2, <2>3, <2>4 DEF items, RowOfItem
  <1>8. QED
    BY <1>6, <1>7

-----------------------------------------------------------------------------
(* Where a seek lands on a page above the leaves: on the last downlink     *)
(* whose key is not past it.                                               *)
LEMMA SeekTargetsAre ==
  ASSUME NEW s, s.type = "i", s.read \in Times, s.blk \in DOMAIN IndexAt[s.read], IndexAt[s.read][s.blk].level > 0
  PROVE  LET first == FirstLink(IndexAt[s.read][s.blk])
         IN  /\ Len(SeekTargets(s)) = Len(IndexItems(s)) - first + 1
             /\ \A k \in 1..(Len(IndexItems(s)) - first + 1) : SeekTargets(s)[k] = IndexItems(s)[k + first - 1]
             /\ first = 2 <=> InternalHighKey(s)
  <1> DEFINE top == IndexAt[s.read][s.blk]
             items == IndexItems(s)
             first == FirstLink(top)
  <1>1. items = top.items /\ items \in Seq(Entries) /\ Len(items) \in Nat
    BY PageItems
  <1>2. /\ first \in {1, 2} /\ Len(items) >= first /\ items[first].key = NoKey
        /\ \A n \in (first + 1)..Len(items) : items[n].key \in Int
    BY <1>1, LinkFacts
  <1>3. PageFits(s.read, s.blk)
    BY TreeTypes DEF BTree
  <1>4. ~top.rightmost => items[1].posting = <<>>
    BY <1>1, <1>3 DEF PageFits, LinksOf
  <1>5. ~top.rightmost => items[1].key \in Int
    BY <1>1, <1>3 DEF PageFits, UpperBound
  <1>6. NoKey \notin Int
    BY DescentAssumption
  <1>7. CASE top.rightmost
    <2>1. first = 1 /\ items[1].key = NoKey
      BY <1>2, <1>7 DEF FirstLink
    <2>2. SeekTargets(s) = items
      BY <2>1 DEF SeekTargets
    <2>3. ~InternalHighKey(s)
      BY <2>1 DEF InternalHighKey
    <2> HIDE DEF items, first
    <2>4. QED
      BY <1>1, <2>1, <2>2, <2>3 DEF items, first
  <1>8. CASE ~top.rightmost
    <2>1. first = 2 /\ items[1].key \in Int /\ items # <<>> /\ items[2].key = NoKey /\ 2 \in 2..Len(items)
      BY <1>1, <1>2, <1>5, <1>8 DEF FirstLink
    <2>2. IsPivot(s, items[1])
      BY <1>4, <1>8 DEF IsPivot, Decoded, Decodes
    <2>3. SeekTargets(s) = Tail(items)
      BY <1>6, <2>1, <2>2 DEF SeekTargets
    <2>4. InternalHighKey(s)
      BY <1>6, <2>1 DEF InternalHighKey
    <2> HIDE DEF items, first
    <2>5. QED
      BY <1>1, <2>1, <2>3, <2>4 DEF items, first
  <1>9. QED
    BY <1>7, <1>8

LEMMA DownlinkRow ==
  ASSUME NEW s, s.level = "indexTuples", s.type = "i", s.read \in Times, s.blk \in DOMAIN IndexAt[s.read],
         IndexAt[s.read][s.blk].level > 0, HasRow(s), RowAt(s)[2] = 0, IsDownlink(s, ItemAt(s))
  PROVE  \E j \in FirstLink(IndexAt[s.read][s.blk])..Len(IndexItems(s)) :
           j \in 1..Len(IndexItems(s)) /\ RowAt(s) = <<j, 0>> /\ ItemAt(s) = IndexItems(s)[j]
  <1> DEFINE top == IndexAt[s.read][s.blk]
             items == IndexItems(s)
             first == FirstLink(top)
             last == Len(items)
  <1>1. last \in Nat /\ \A n \in 1..last : items[n].off = n /\ items[n].posting \in Seq(Seq(Nat))
    BY PageItems DEF Entries
  <1>2. first \in {1, 2} /\ (first = 2 <=> InternalHighKey(s))
    BY SeekTargetsAre DEF FirstLink
  <1>4. PICK j \in 1..last : RowAt(s) = <<j, 0>>
    <2>1. s.cursor \in 1..Len(Rows(s)) /\ RowAt(s) = Rows(s)[s.cursor]
      BY IndexRows DEF HasRow, RowAt
    <2>5. RowOfItem(s, RowAt(s))
      BY <2>1, IndexRows
    <2>2. PICK n \in 1..last : RowAt(s) = <<n, 0>> \/ \E k \in DOMAIN items[n].posting : RowAt(s) = <<n, k>>
      BY <2>5 DEF RowOfItem
    <2>3. \A k \in DOMAIN items[n].posting : k # 0
      BY <1>1
    <2>4. QED
      BY <2>2, <2>3
  <1>5. ItemAt(s) = items[j] /\ items[j].off = j
    BY <1>1, <1>4, ItemOf
  <1>6. j \in first..last
    <2>1. first = 2 => j # 1
      BY <1>2, <1>5 DEF IsDownlink
    <2> HIDE DEF first, last
    <2>2. QED
      BY <1>1, <1>2, <2>1
  <1>7. QED
    BY <1>4, <1>5, <1>6

LEMMA Shifted ==
  ASSUME NEW first \in {1, 2}, NEW last \in Nat, last >= first, NEW x \in 1..(last - first + 1)
  PROVE  /\ x + first - 1 \in first..last /\ x + first - 1 \in 1..last
         /\ x + first - 1 < last =>
              x < last - first + 1 /\ x + 1 \in 1..(last - first + 1) /\ x + 1 + first - 1 = x + first - 1 + 1
  OBVIOUS

LEMMA SeekChooses ==
  ASSUME NEW s, IsScreen(s), s.level = "indexTuples", s.type = "i", s.read \in Times, s.blk \in DOMAIN IndexAt[s.read],
         IndexAt[s.read][s.blk].level > 0, s.seek \in Int, OnItsSeek(s), RowAt(s)[2] = 0, IsDownlink(s, ItemAt(s))
  PROVE  \E j \in FirstLink(IndexAt[s.read][s.blk])..Len(IndexItems(s)) :
           /\ ItemAt(s) = IndexItems(s)[j]
           /\ j > FirstLink(IndexAt[s.read][s.blk]) => IndexItems(s)[j].key <= s.seek
           /\ j < Len(IndexItems(s)) => IndexItems(s)[j + 1].key > s.seek
  <1> DEFINE top == IndexAt[s.read][s.blk]
             items == IndexItems(s)
             first == FirstLink(top)
             last == Len(items)
             targets == SeekTargets(s)
             q == s.seek
  <1>1. /\ items = top.items /\ last \in Nat /\ DOMAIN items = 1..last
        /\ \A n \in 1..last : items[n].off = n /\ items[n].posting \in Seq(Seq(Nat))
    BY PageItems DEF Entries
  <1>2. /\ first \in {1, 2} /\ last >= first /\ items[first].key = NoKey
        /\ \A n \in (first + 1)..last : items[n].key \in Int
    BY <1>1, LinkFacts
  <1>3. /\ Len(targets) = last - first + 1 /\ (\A k \in 1..(last - first + 1) : targets[k] = items[k + first - 1])
        /\ first = 2 <=> InternalHighKey(s)
    BY SeekTargetsAre
  <1>4. HasRow(s)
    BY DEF OnItsSeek
  <1>5. PICK j \in first..last : j \in 1..last /\ RowAt(s) = <<j, 0>> /\ ItemAt(s) = items[j]
    BY <1>4, DownlinkRow
  <1>6. j \in 1..last
    BY <1>5
  <1>7. NoKey \notin Int
    BY DescentAssumption
  <1> HIDE DEF items, first, last, targets, top
  <1>8. CASE \A i \in DOMAIN targets : targets[i].key = NoKey
    <2>1. last = first
      <3> SUFFICES ASSUME last # first
                   PROVE  FALSE
        OBVIOUS
      <3>1. 2 \in 1..Len(targets) /\ 2 + first - 1 = first + 1 /\ first + 1 \in (first + 1)..last
        BY <1>1, <1>2, <1>3
      <3>2. targets[2] = items[first + 1]
        BY <1>3, <3>1
      <3>3. 2 \in DOMAIN targets
        BY <1>1, <1>2, <1>3, <3>1 DEF targets, SeekTargets, items
      <3>4. QED
        BY <1>2, <1>7, <1>8, <3>1, <3>2, <3>3
    <2>2. j \in first..last /\ ItemAt(s) = items[j] /\ ~(j > first) /\ ~(j < last)
      BY <1>1, <1>2, <1>5, <1>6, <2>1
    <2>3. QED
      BY <2>2 DEF items, first, last, top
  <1>9. CASE ~\A i \in DOMAIN targets : targets[i].key = NoKey
    <2> DEFINE I == {i \in 1..Len(targets) : PastKey(targets[i], q)}
               past == SelectInSeq(targets, LAMBDA t : PastKey(t, q))
               chosen == IF past = 0 THEN Len(targets) ELSE IF past = 1 THEN 1 ELSE past - 1
               c == chosen + first - 1
    <2>1. past = IF I # {} THEN Min(I) ELSE 0
      BY DEF SelectInSeq
    <2>2. Len(targets) \in Nat \ {0}
      BY <1>1, <1>2, <1>3
    <2>3. I \subseteq 1..Len(targets) /\ \A i \in 1..Len(targets) : i \in I <=> targets[i].key # NoKey /\ targets[i].key > q
      BY DEF PastKey
    <2>4. SeekTo(s, q) = PutOn(s, <<targets[chosen].off, 0>>)
      BY <1>9 DEF SeekTo, targets
    <2> HIDE DEF past, I
    <2>5. (past # 0 => past \in I) /\ (past = 0 => I = {}) /\ \A i \in I : past <= i
      BY <2>1, <2>2, <2>3, FirstOf
    <2>6. 1 \notin I
      <3>1. 1 + first - 1 = first /\ targets[1] = items[1 + first - 1]
        BY <1>2, <1>3, <2>2
      <3>2. QED
        BY <1>2, <2>2, <2>3, <3>1
    <2>7. past \in Nat /\ past # 1 /\ (past # 0 => past \in 2..Len(targets))
      <3>1. CASE past = 0
        BY <3>1
      <3>2. CASE past # 0
        <4>1. past \in I /\ past \in 1..Len(targets)
          BY <2>3, <2>5, <3>2
        <4>2. past # 1
          BY <2>6, <4>1
        <4> HIDE DEF targets
        <4>3. QED
          BY <2>2, <4>1, <4>2
      <3>3. QED
        BY <3>1, <3>2
    <2>8. /\ chosen \in 1..Len(targets) /\ chosen \notin I
          /\ chosen < Len(targets) => chosen + 1 \in I
      BY <2>2, <2>3, <2>5, <2>7
    <2> HIDE DEF chosen
    <2>9. /\ c \in first..last /\ targets[chosen] = items[c] /\ items[c].off = c /\ c \in 1..last
          /\ c < last => chosen < Len(targets) /\ targets[chosen + 1] = items[c + 1]
      <3>1. chosen \in 1..(last - first + 1)
        BY <1>3, <2>8
      <3>2. /\ c \in first..last /\ c \in 1..last
            /\ c < last => chosen < last - first + 1 /\ chosen + 1 \in 1..(last - first + 1) /\ chosen + 1 + first - 1 = c + 1
        BY <1>1, <1>2, <3>1, Shifted
      <3>3. targets[chosen] = items[c] /\ items[c].off = c
        BY <1>1, <1>3, <3>1, <3>2
      <3>4. c < last => chosen < Len(targets) /\ targets[chosen + 1] = items[c + 1]
        BY <1>3, <3>2
      <3>5. QED
        BY <3>2, <3>3, <3>4
    <2>10. c = j
      <3>1. \E m \in 1..Len(Rows(s)) : Rows(s)[m] = <<c, 0>>
        BY <2>9, IndexRows DEF last, items
      <3> DEFINE at == SelectInSeq(Rows(s), LAMBDA r : r = <<c, 0>>)
      <3>2. Len(Rows(s)) \in Nat
        BY IndexRows
      <3>3. at # 0 /\ Rows(s)[at] = <<c, 0>>
        BY <3>1, <3>2, FoundRow
      <3>4. SeekTo(s, q) = PutOn(s, <<c, 0>>)
        BY <2>4, <2>9
      <3>5. SeekTo(s, q) = [s EXCEPT !.cursor = at]
        BY <3>3, <3>4 DEF PutOn
      <3> HIDE DEF at
      <3>6. s.cursor = at
        BY <3>5, CursorSet DEF OnItsSeek
      <3>7. <<c, 0>> = <<j, 0>>
        BY <1>5, <3>3, <3>6 DEF RowAt
      <3>8. QED
        BY <3>7
    <2>11. j > first => items[j].key <= q
      <3> HAVE j > first
      <3>1. items[j].key \in Int /\ targets[chosen] = items[j]
        BY <1>1, <1>2, <2>9, <2>10
      <3>2. QED
        BY <1>7, <2>3, <2>8, <3>1
    <2>12. j < last => items[j + 1].key > q
      BY <2>3, <2>8, <2>9, <2>10
    <2>13. QED
      BY <1>5, <1>6, <2>11, <2>12 DEF items, first, last, top
  <1>10. QED
    BY <1>8, <1>9

LEMMA WalkCovers == DescentInv => DescentCovers
  <1> SUFFICES ASSUME DescentInv, NEW i \in 1..(Len(stack) - 1),
                      stack[i].level = "indexTuples" /\ stack[i + 1].level = "indexTuples",
                      stack[i].read # 0 /\ stack[i].read = stack[i + 1].read /\ stack[i].type = "i",
                      stack[i + 1].seek = stack[i].seek /\ OnItsSeek(stack[i]), CoversSeek(stack[i])
               PROVE  CoversSeek(stack[i + 1])
    BY DEF DescentCovers
  <1> DEFINE s == stack[i]
             t == stack[i + 1]
  <1>1. Len(stack) \in Nat /\ i \in 1..Len(stack)
    BY DEF DescentInv, IsStack
  <1>2. ScreenSound(s, epoch) /\ Linked(s, t) /\ epoch \in Times
    BY <1>1 DEF DescentInv, StackSound
  <1> HIDE DEF s, t
  <1>3. s.level = "indexTuples" /\ t.level = "indexTuples" /\ s.read # 0 /\ s.type = "i" /\ s.read = t.read
        /\ t.seek = s.seek /\ OnItsSeek(s) /\ CoversSeek(s)
    BY DEF s, t
  <1>4. s.read \in Times /\ s.blk \in DOMAIN IndexAt[s.read] /\ IndexAt[s.read][s.blk].level > 0 /\ IsScreen(s)
    <2>1. IsScreen(s) /\ s.read \in 0..epoch /\ TypedPage(s.type, s.blk) /\ Placed(s.blk, s.read)
      BY <1>2, <1>3 DEF ScreenSound, PageSound
    <2>2. s.read \in Times /\ s.read \in s.read..2
      BY <1>2, <1>3, <2>1 DEF Times
    <2>3. QED
      BY <1>3, <2>1, <2>2 DEF Placed, TypedPage
  <1>5. s.seek \in Int
    BY <1>2, <1>3, DescentAssumption DEF ScreenSound, OnItsSeek
  <1>6. RowAt(s)[2] = 0 /\ IsDownlink(s, ItemAt(s)) /\ t.blk = DownlinkChildBlock(s, ItemAt(s)) /\ t.blk # 0
    BY <1>2, <1>3 DEF Linked
  <1>7. PICK j \in FirstLink(IndexAt[s.read][s.blk])..Len(IndexItems(s)) :
           /\ ItemAt(s) = IndexItems(s)[j]
           /\ j > FirstLink(IndexAt[s.read][s.blk]) => IndexItems(s)[j].key <= s.seek
           /\ j < Len(IndexItems(s)) => IndexItems(s)[j + 1].key > s.seek
    BY <1>3, <1>4, <1>5, <1>6, SeekChooses
  <1>8. IndexItems(s) = IndexAt[s.read][s.blk].items
    BY <1>4, PageItems
  <1>9. t.blk = IndexAt[s.read][s.blk].items[j].child
    BY <1>6, <1>7, <1>8 DEF DownlinkChildBlock
  <1>10. s.blk = Covering(s.read, IndexAt[s.read][s.blk].level, s.seek)
    BY <1>3 DEF CoversSeek
  <1>11. t.blk = Covering(s.read, IndexAt[s.read][t.blk].level, s.seek)
    <2> DEFINE e == s.read
               b == s.blk
               q == s.seek
               items == IndexAt[e][b].items
    <2>1. /\ j \in FirstLink(IndexAt[e][b])..Len(items)
          /\ j > FirstLink(IndexAt[e][b]) => items[j].key <= q
          /\ j < Len(items) => items[j + 1].key > q
      BY <1>7, <1>8
    <2>2. e \in Times /\ b \in DOMAIN IndexAt[e] /\ IndexAt[e][b].level > 0 /\ q \in Int /\ b = Covering(e, IndexAt[e][b].level, q)
      BY <1>4, <1>5, <1>10
    <2> HIDE DEF e, b, q
    <2>3. items[j].child = Covering(e, IndexAt[e][items[j].child].level, q)
      BY <2>1, <2>2, ChildCovers
    <2>4. QED
      BY <1>9, <2>3 DEF e, b, q
  <1>12. QED
    BY <1>3, <1>11 DEF CoversSeek, t

-----------------------------------------------------------------------------
(* What a screen's invariant reads; setting any other field keeps it.      *)
Told == {"level", "rel", "blk", "type", "seek", "focusLP", "want", "read", "tupleAttrsLP", "tupleAttrs"}
Alike(s, t) == IsScreen(t) /\ \A f \in Told : t[f] = s[f]

LEMMA AlikeSound ==
  ASSUME NEW s, NEW t, NEW now, ScreenSound(s, now), Alike(s, t)
  PROVE  ScreenSound(t, now) /\ t.level = s.level /\ t.blk = s.blk /\ t.focusLP = s.focusLP
  <1>1. /\ t.level = s.level /\ t.rel = s.rel /\ t.blk = s.blk /\ t.type = s.type /\ t.seek = s.seek /\ t.focusLP = s.focusLP
        /\ t.want = s.want /\ t.read = s.read /\ t.tupleAttrsLP = s.tupleAttrsLP /\ t.tupleAttrs = s.tupleAttrs
    BY DEF Alike, Told
  <1>2. QED
    BY <1>1 DEF Alike, ScreenSound, AttrsSound, WantSound, PageSound

LEMMA StillAlike == ASSUME NEW s, NEW t, Still(s, t) PROVE Alike(s, t)
  BY DEF Still, Alike, Told, ScreenFields

LEMMA SetAlike ==
  ASSUME NEW s, IsScreen(s), NEW v
  PROVE  /\ Alike(s, [s EXCEPT !.loading = v]) /\ Alike(s, [s EXCEPT !.desc = v]) /\ Alike(s, [s EXCEPT !.pick = v])
         /\ Alike(s, [s EXCEPT !.cursor = v]) /\ Alike(s, [s EXCEPT !.toastVal = v])
         /\ Alike(s, [s EXCEPT !.postingOpen = v]) /\ Alike(s, [s EXCEPT !.loaded = v])
  BY DEF Alike, Told, IsScreen, ScreenFields

LEMMA AlikeTwice ==
  ASSUME NEW s, NEW t, NEW u, Alike(s, t), Alike(t, u)
  PROVE  Alike(s, u)
  BY DEF Alike

(* A screen that has just been opened.                                     *)
JustOpened(s, level, rel, blk) ==
  /\ IsScreen(s) /\ s.level = level /\ s.rel = rel /\ s.blk = blk /\ s.read = 0 /\ s.seek = NoKey
  /\ s.tupleAttrs = <<>> /\ s.focusLP = 0 /\ s.type = ""
LEMMA NewScreen ==
  ASSUME NEW level, NEW rel, NEW blk
  PROVE  JustOpened(Screen(level, rel, blk), level, rel, blk)
  BY DEF JustOpened, Screen, IsScreen, ScreenFields

LEMMA OpenedSound ==
  ASSUME NEW s, NEW now \in Times, NEW level, NEW rel, NEW blk, JustOpened(s, level, rel, blk), level # "indexTuples"
  PROVE  ScreenSound(s, now) /\ s.level = level
  <1>1. IsScreen(s) /\ s.level = level /\ s.read = 0 /\ s.seek = NoKey /\ s.tupleAttrs = <<>> /\ s.focusLP = 0
    BY DEF JustOpened
  <1>2. 0 \in 0..now
    BY DEF Times
  <1>3. QED
    BY <1>1, <1>2 DEF ScreenSound, AttrsSound, WantSound, PageSound

-----------------------------------------------------------------------------
(* The stack: a screen on it changes, one is opened over it, one is left.  *)

LEMMA SwapStack ==
  ASSUME NEW st, IsStack(st), NEW now, StackSound(st, now), NEW i \in 1..Len(st), NEW t,
         ScreenSound(t, now), t.level = st[i].level, t.blk = st[i].blk,
         t.level = "indexTuples" => i = Len(st) \/ st[i + 1].level # "indexTuples"
  PROVE  /\ IsStack([st EXCEPT ![i] = t]) /\ StackSound([st EXCEPT ![i] = t], now)
         /\ Len([st EXCEPT ![i] = t]) = Len(st) /\ [st EXCEPT ![i] = t][i] = t
         /\ \A j \in 1..Len(st) : j # i => [st EXCEPT ![i] = t][j] = st[j]
  <1>1. PICK S : st \in Seq(S)
    BY DEF IsStack
  <1> DEFINE to == [st EXCEPT ![i] = t]
             T == S \cup {t}
  <1>2. /\ to \in Seq(T) /\ Len(to) = Len(st) /\ Len(st) \in Nat /\ to[i] = t /\ to # <<>>
        /\ \A j \in 1..Len(st) : j # i => to[j] = st[j]
    <2>1. st \in Seq(T)
      BY <1>1
    <2> HIDE DEF T
    <2>2. t \in T
      BY DEF T
    <2>3. to \in Seq(T) /\ Len(to) = Len(st) /\ Len(st) \in Nat /\ to[i] = t /\ \A j \in 1..Len(st) : j # i => to[j] = st[j]
      BY <2>1, <2>2
    <2>4. QED
      BY <2>3
  <1> HIDE DEF to, T
  <1>3. \A j \in 1..Len(to) : ScreenSound(to[j], now)
    BY <1>2 DEF StackSound
  <1>4. \A j \in 1..(Len(to) - 1) : Linked(to[j], to[j + 1])
    <2> TAKE j \in 1..(Len(to) - 1)
    <2>6. j \in 1..Len(st) /\ j + 1 \in 1..Len(st) /\ j \in 1..(Len(st) - 1)
      BY <1>2
    <2>1. j \in 1..Len(st) /\ j + 1 \in 1..Len(st) /\ Linked(st[j], st[j + 1])
      BY <2>6 DEF StackSound
    <2>2. CASE j = i
      <3>1. to[j] = t /\ to[j + 1] = st[i + 1] /\ i # Len(st)
        BY <1>2, <2>1, <2>2
      <3>2. QED
        BY <3>1 DEF Linked
    <2>3. CASE j + 1 = i
      <3>1. to[j + 1] = t /\ to[j] = st[j]
        BY <1>2, <2>1, <2>3
      <3>2. QED
        BY <2>1, <2>3, <3>1 DEF Linked
    <2>4. CASE j # i /\ j + 1 # i
      <3>1. to[j] = st[j] /\ to[j + 1] = st[j + 1]
        BY <1>2, <2>1, <2>4
      <3>2. QED
        BY <2>1, <3>1
    <2>5. QED
      BY <2>2, <2>3, <2>4
  <1>5. QED
    BY <1>2, <1>3, <1>4 DEF IsStack, StackSound, to

LEMMA GrowStack ==
  ASSUME NEW st, IsStack(st), NEW now, StackSound(st, now), NEW t, ScreenSound(t, now), Linked(st[Len(st)], t)
  PROVE  /\ IsStack(Append(st, t)) /\ StackSound(Append(st, t), now) /\ Len(Append(st, t)) = Len(st) + 1
         /\ \A j \in 1..Len(st) : Append(st, t)[j] = st[j]
  <1>1. PICK S : st \in Seq(S)
    BY DEF IsStack
  <1> DEFINE to == Append(st, t)
             T == S \cup {t}
  <1>2. /\ to \in Seq(T) /\ Len(to) = Len(st) + 1 /\ Len(st) \in Nat /\ to[Len(st) + 1] = t /\ to # <<>>
        /\ \A j \in 1..Len(st) : to[j] = st[j]
    <2>1. st \in Seq(T)
      BY <1>1
    <2> HIDE DEF T
    <2>2. t \in T
      BY DEF T
    <2>3. to \in Seq(T) /\ Len(to) = Len(st) + 1 /\ Len(st) \in Nat /\ to[Len(st) + 1] = t /\ \A j \in 1..Len(st) : to[j] = st[j]
      BY <2>1, <2>2
    <2>4. QED
      BY <2>3
  <1> HIDE DEF to, T
  <1>3. \A j \in 1..Len(to) : ScreenSound(to[j], now)
    <2> TAKE j \in 1..Len(to)
    <2>1. j \in 1..Len(st) \/ j = Len(st) + 1
      BY <1>2
    <2>2. QED
      BY <1>2, <2>1 DEF StackSound
  <1>4. \A j \in 1..(Len(to) - 1) : Linked(to[j], to[j + 1])
    <2> TAKE j \in 1..(Len(to) - 1)
    <2>1. j \in 1..Len(st) /\ to[j] = st[j]
      BY <1>2
    <2>2. CASE j = Len(st)
      BY <1>2, <2>1, <2>2
    <2>3. CASE j # Len(st)
      <3>1. j + 1 \in 1..Len(st) /\ j \in 1..(Len(st) - 1) /\ to[j + 1] = st[j + 1]
        BY <1>2, <2>1, <2>3
      <3>2. QED
        BY <2>1, <3>1 DEF StackSound
    <2>4. QED
      BY <2>2, <2>3
  <1>5. QED
    BY <1>2, <1>3, <1>4 DEF IsStack, StackSound, to

LEMMA LeaveStack ==
  ASSUME NEW st, IsStack(st), NEW now, StackSound(st, now), Len(st) > 1
  PROVE  /\ IsStack(Front(st)) /\ StackSound(Front(st), now) /\ Len(Front(st)) = Len(st) - 1
         /\ \A j \in 1..(Len(st) - 1) : Front(st)[j] = st[j]
  <1>1. PICK S : st \in Seq(S)
    BY DEF IsStack
  <1> DEFINE to == Front(st)
  <1>2. Len(st) \in Nat
    BY <1>1
  <1>3. to = SubSeq(st, 1, Len(st) - 1)
    BY DEF Front
  <1>4. /\ to \in Seq(S) /\ Len(to) = Len(st) - 1 /\ \A j \in 1..(Len(st) - 1) : to[j] = st[j]
    <2> HIDE DEF to
    <2>1. QED
      BY <1>1, <1>2, <1>3
  <1> HIDE DEF to
  <1>5. to # <<>>
    BY <1>2, <1>4
  <1>6. StackSound(to, now)
    <2>1. \A j \in 1..Len(to) : j \in 1..Len(st) /\ to[j] = st[j]
      BY <1>2, <1>4
    <2>2. \A j \in 1..(Len(to) - 1) : j \in 1..(Len(st) - 1) /\ j \in 1..Len(to) /\ j + 1 \in 1..Len(to)
      BY <1>2, <1>4
    <2>3. QED
      BY <2>1, <2>2 DEF StackSound
  <1>7. QED
    BY <1>4, <1>5, <1>6 DEF to, IsStack

(* The screen an answer goes to is the last of its level.                  *)
LEMMA FindLevelFinds ==
  ASSUME IsStack(stack), NEW level, FindLevel(level) # 0
  PROVE  /\ FindLevel(level) \in 1..Len(stack) /\ stack[FindLevel(level)].level = level
         /\ FindLevel(level) = Len(stack) \/ stack[FindLevel(level) + 1].level # level
  <1> DEFINE I == {i \in 1..Len(stack) : stack[i].level = level}
             at == FindLevel(level)
  <1>1. at = IF I # {} THEN Max(I) ELSE 0
    BY DEF FindLevel, SelectLastInSeq
  <1>2. Len(stack) \in Nat
    BY DEF IsStack
  <1> HIDE DEF at
  <1>3. at \in I /\ \A y \in I : at >= y
    BY <1>1, <1>2, MaxOf DEF at
  <1>4. at = Len(stack) \/ at + 1 \notin I
    BY <1>2, <1>3
  <1>5. at = Len(stack) \/ at + 1 \in 1..Len(stack)
    BY <1>2, <1>3
  <1>6. QED
    BY <1>3, <1>4, <1>5 DEF at

-----------------------------------------------------------------------------
(* A step: what is on the stack afterwards, and what is asked for.  A step *)
(* in which every screen goes on waiting for its row lands none.           *)
OnTarget ==
  \A i \in DOMAIN stack :
    i \in DOMAIN stack' /\ Landed(stack[i], stack'[i]) =>
      LET t == stack'[i]
          slot == TupleRow(t)
      IN  HasRow(t) /\ t.want[2] = (IF t.want[1] = "key" THEN slot.key ELSE slot.chunk)
FocusKept == \A i \in DOMAIN stack : i \in DOMAIN stack' => stack'[i].focusLP = stack[i].focusLP
StackGoes == IsStack(stack') /\ StackSound(stack', epoch) /\ FocusKept
AsksSound == \A load \in asked' : RequestSound(load, epoch)

LEMMA FocusKeptLandsNone == FocusKept => OnTarget
  BY DEF FocusKept, OnTarget, Landed

LEMMA StepKeeps ==
  ASSUME DescentInv, StackGoes, AsksSound, epoch' = epoch
  PROVE  DescentInv' /\ OnTarget
  BY FocusKeptLandsNone DEF DescentInv, StackGoes, AsksSound

LEMMA StackTop ==
  ASSUME DescentInv
  PROVE  /\ Len(stack) \in 1..Len(stack) /\ DOMAIN stack = 1..Len(stack) /\ TopScreen = stack[Len(stack)]
         /\ ScreenSound(TopScreen, epoch) /\ IsScreen(TopScreen)
  <1>1. Len(stack) \in Nat /\ Len(stack) # 0 /\ DOMAIN stack = 1..Len(stack)
    BY DEF DescentInv, IsStack
  <1>2. Len(stack) \in 1..Len(stack)
    BY <1>1
  <1>3. ScreenSound(stack[Len(stack)], epoch)
    BY <1>2 DEF DescentInv, StackSound
  <1>4. QED
    BY <1>1, <1>2, <1>3 DEF TopScreen, ScreenSound

LEMMA SwapGoes ==
  ASSUME DescentInv, NEW i \in 1..Len(stack), NEW t, stack' = [stack EXCEPT ![i] = t],
         ScreenSound(t, epoch), t.level = stack[i].level, t.blk = stack[i].blk, t.focusLP = stack[i].focusLP,
         t.level = "indexTuples" => i = Len(stack) \/ stack[i + 1].level # "indexTuples"
  PROVE  StackGoes
  <1>1. IsStack(stack) /\ StackSound(stack, epoch) /\ DOMAIN stack = 1..Len(stack)
    BY DEF DescentInv, IsStack
  <1>2. /\ IsStack(stack') /\ StackSound(stack', epoch) /\ stack'[i] = t
        /\ \A j \in 1..Len(stack) : j # i => stack'[j] = stack[j]
    BY <1>1, SwapStack
  <1>3. QED
    BY <1>1, <1>2 DEF StackGoes, FocusKept

LEMMA TopGoes ==
  ASSUME DescentInv, NEW t, ChangesTop(t), Alike(TopScreen, t)
  PROVE  StackGoes
  <1>1. Len(stack) \in 1..Len(stack) /\ ScreenSound(TopScreen, epoch) /\ TopScreen = stack[Len(stack)]
    BY StackTop
  <1>2. ScreenSound(t, epoch) /\ t.level = TopScreen.level /\ t.blk = TopScreen.blk /\ t.focusLP = TopScreen.focusLP
    BY <1>1, AlikeSound
  <1>3. QED
    BY <1>1, <1>2, SwapGoes DEF ChangesTop

LEMMA PushGoes ==
  ASSUME DescentInv, NEW t, stack' = Append(stack, t), ScreenSound(t, epoch), Linked(TopScreen, t)
  PROVE  StackGoes
  <1>1. IsStack(stack) /\ StackSound(stack, epoch) /\ DOMAIN stack = 1..Len(stack)
    BY DEF DescentInv, IsStack
  <1>2. /\ IsStack(stack') /\ StackSound(stack', epoch)
        /\ \A j \in 1..Len(stack) : stack'[j] = stack[j]
    BY <1>1, GrowStack DEF TopScreen
  <1>3. QED
    BY <1>1, <1>2 DEF StackGoes, FocusKept

LEMMA StackRests ==
  ASSUME DescentInv, stack' = stack
  PROVE  StackGoes
  BY DEF DescentInv, StackGoes, FocusKept

-----------------------------------------------------------------------------
(* What is asked for.                                                      *)
LEMMA LoadTypes ==
  ASSUME NEW s, ScreenSound(s, epoch), epoch \in Times, NEW lp
  PROVE  /\ RequestSound(LoadOf(s), epoch) /\ RequestSound(AttrsOf(s, lp), epoch)
         /\ RequestSound(ValueOf(s, lp), epoch) /\ RequestSound(ToastOf(s, lp), epoch)
  <1>1. epoch \in 1..epoch
    BY DEF Times
  <1>2. s.level = "indexTuples" => TypedPage(s.type, s.blk) /\ Placed(s.blk, epoch)
    BY DEF ScreenSound, PageSound
  <1>3. RequestSound(LoadOf(s), epoch)
    BY <1>1, <1>2 DEF RequestSound, LoadOf
  <1>4. RequestSound(AttrsOf(s, lp), epoch) /\ RequestSound(ValueOf(s, lp), epoch) /\ RequestSound(ToastOf(s, lp), epoch)
    BY <1>1 DEF RequestSound, LoadOf, AttrsOf, ValueOf, ToastOf
  <1>5. QED
    BY <1>3, <1>4

LEMMA WithSound ==
  ASSUME NEW loads, NEW now, \A load \in loads : RequestSound(load, now), NEW load, RequestSound(load, now)
  PROVE  \A l \in With(loads, load) : RequestSound(l, now)
  <1> DEFINE nth == CHOOSE n \in 1..(Cardinality(loads) + 1) : [load EXCEPT !.nth = n] \notin loads
  <1>1. With(loads, load) = loads \cup {[load EXCEPT !.nth = nth]}
    BY DEF With
  <1> HIDE DEF nth
  <1>2. RequestSound([load EXCEPT !.nth = nth], now)
    BY DEF RequestSound
  <1>3. QED
    BY <1>1, <1>2

LEMMA AskingSound ==
  ASSUME DescentInv, NEW load, RequestSound(load, epoch), Asks(load)
  PROVE  AsksSound
  BY WithSound DEF DescentInv, Asks, AsksSound

LEMMA AsksRest ==
  ASSUME DescentInv, asked' \subseteq asked
  PROVE  AsksSound
  BY DEF DescentInv, AsksSound

-----------------------------------------------------------------------------
(* Screens that change more than that.                                     *)
LEMMA ArmSound ==
  ASSUME NEW s, NEW now, ScreenSound(s, now), NEW lp
  PROVE  LET t == ArmAttrs(s, lp)
         IN  /\ ScreenSound(t, now) /\ t.level = s.level /\ t.blk = s.blk /\ t.focusLP = s.focusLP
             /\ t.want = s.want /\ t.read = s.read /\ t.rel = s.rel /\ t.desc = s.desc /\ t.cursor = s.cursor
  <1> DEFINE t == ArmAttrs(s, lp)
  <1>1. DOMAIN s = ScreenFields
    BY DEF ScreenSound, IsScreen
  <1>2. /\ DOMAIN t = ScreenFields /\ t.tupleAttrs = <<>>
        /\ t.level = s.level /\ t.rel = s.rel /\ t.blk = s.blk /\ t.type = s.type /\ t.seek = s.seek /\ t.focusLP = s.focusLP
        /\ t.want = s.want /\ t.read = s.read /\ t.desc = s.desc /\ t.cursor = s.cursor
    BY <1>1 DEF ArmAttrs, ScreenFields
  <1> HIDE DEF t
  <1>3. ScreenSound(t, now)
    BY <1>2 DEF ScreenSound, IsScreen, AttrsSound, WantSound, PageSound
  <1>4. QED
    BY <1>2, <1>3 DEF t

LEMMA CloseSound ==
  ASSUME NEW s, NEW now, ScreenSound(s, now)
  PROVE  LET t == Closed(s)
         IN  ScreenSound(t, now) /\ t.level = s.level /\ t.blk = s.blk /\ t.focusLP = s.focusLP
  BY ArmSound DEF ArmAttrs, Closed

LEMMA SettleSound ==
  ASSUME NEW s, NEW now, ScreenSound(s, now), NEW e \in 0..now,
         s.level = "indexTuples" /\ e # 0 => Placed(s.blk, e)
  PROVE  LET t == Settle(s, e)
         IN  /\ ScreenSound(t, now) /\ t.level = s.level /\ t.blk = s.blk /\ t.focusLP = s.focusLP
             /\ t.want = s.want /\ t.read = e /\ t.rel = s.rel /\ t.type = s.type /\ t.seek = s.seek
  <1> DEFINE t == Settle(s, e)
  <1>1. DOMAIN s = ScreenFields
    BY DEF ScreenSound, IsScreen
  <1>2. /\ DOMAIN t = ScreenFields /\ t.tupleAttrs = s.tupleAttrs /\ t.tupleAttrsLP = s.tupleAttrsLP
        /\ t.level = s.level /\ t.rel = s.rel /\ t.blk = s.blk /\ t.type = s.type /\ t.seek = s.seek /\ t.focusLP = s.focusLP
        /\ t.want = s.want /\ t.read = e
    BY <1>1 DEF Settle, ScreenFields
  <1> HIDE DEF t
  <1>3. ScreenSound(t, now)
    BY <1>2 DEF ScreenSound, IsScreen, AttrsSound, WantSound, PageSound
  <1>4. QED
    BY <1>2, <1>3 DEF t

(* A list with rows has been read.                                         *)
LEMMA RowRead ==
  ASSUME NEW s, HasRow(s), s.level \in {"indexTuples", "indexPages"}
  PROVE  s.read # 0
  <1> SUFFICES ASSUME s.read = 0 PROVE Rows(s) = <<>>
    BY DEF HasRow
  <1>1. CASE s.level = "indexPages"
    BY <1>1 DEF Rows
  <1>2. CASE s.level = "indexTuples"
    <2> DEFINE Block(i) == LET item == (IF s.desc THEN Reverse(IndexItems(s)) ELSE IndexItems(s))[i]
                           IN  <<<<item.off, 0>>>> \o Members(s, item)
               ss == [i \in DOMAIN IndexItems(s) |-> Block(i)]
    <2>1. Rows(s) = FlattenSeq(ss)
      BY <1>2 DEF Rows
    <2>2. IndexItems(s) = <<>>
      BY DEF IndexItems
    <2> HIDE DEF Block
    <2>3. ss = <<>>
      BY <2>2
    <2>4. QED
      BY <2>1, <2>3 DEF FlattenSeq
  <1>3. QED
    BY <1>1, <1>2

(* A page that is there now was there, and is of the type it has.          *)
LEMMA PageNow ==
  ASSUME NEW s, NEW now \in Times, ScreenSound(s, now), s.level = "indexTuples", s.read # 0
  PROVE  s.read \in Times /\ s.blk \in DOMAIN IndexAt[s.read] /\ TypedPage(s.type, s.blk)
  <1>1. s.read \in 0..now /\ TypedPage(s.type, s.blk) /\ Placed(s.blk, s.read)
    BY DEF ScreenSound, PageSound
  <1>2. s.read \in Times /\ s.read \in s.read..2
    BY <1>1 DEF Times
  <1>3. QED
    BY <1>1, <1>2 DEF Placed

LEMMA PlacedLater ==
  ASSUME NEW d \in Times, NEW blk \in DOMAIN IndexAt[d]
  PROVE  Placed(blk, d)
  <1>1. DOMAIN IndexAt[1] = 1..Len(IndexAt[1]) /\ DOMAIN IndexAt[2] = 1..Len(IndexAt[2])
        /\ Len(IndexAt[1]) \in Nat /\ Len(IndexAt[2]) \in Nat /\ Len(IndexAt[1]) <= Len(IndexAt[2])
    <2>1. \A e \in Times : DOMAIN IndexAt[e] = 1..Len(IndexAt[e]) /\ Len(IndexAt[e]) \in Nat
      BY TreeTypes DEF Trees
    <2>2. QED
      BY <2>1, DescentAssumption DEF PagesStay, Times
  <1>2. \A e \in d..2 : e = d \/ (d = 1 /\ e = 2)
    BY DEF Times
  <1>3. DOMAIN IndexAt[1] \subseteq DOMAIN IndexAt[2]
    BY <1>1
  <1>4. QED
    BY <1>2, <1>3 DEF Placed

LEMMA PlacedFrom ==
  ASSUME NEW d \in Times, NEW e \in Times, d <= e, NEW blk, Placed(blk, d)
  PROVE  Placed(blk, e)
  BY DEF Placed, Times

LEMMA SameHeight ==
  ASSUME NEW d \in Times, NEW blk \in DOMAIN IndexAt[d], NEW type,
         type \in {"l", "r"} => IndexAt[d][blk].level = 0, type = "i" => IndexAt[d][blk].level > 0, type # ""
  PROVE  TypedPage(type, blk)
  <1>1. \A e \in Times : blk \in DOMAIN IndexAt[e] => IndexAt[e][blk].level = IndexAt[d][blk].level
    BY DescentAssumption DEF PagesStay
  <1>2. QED
    BY <1>1 DEF TypedPage

LEMMA PageTypes ==
  ASSUME NEW e \in Times, NEW b \in DOMAIN IndexAt[e]
  PROVE  /\ IndexAt[e][b].type \in {"r", "i", "l"} /\ IndexAt[e][b].level \in Nat
         /\ IndexAt[e][b].type = "l" => IndexAt[e][b].level = 0
         /\ IndexAt[e][b].type = "i" => IndexAt[e][b].level > 0
  <1> DEFINE Pages == [type : {"r", "i", "l"}, level : Nat, rightmost : BOOLEAN, items : Seq(Entries)]
  <1>1. IndexAt[e] \in Trees /\ BTree(e)
    BY TreeTypes
  <1>2. IndexAt[e] \in Seq(Pages)
    BY <1>1 DEF Trees
  <1> HIDE DEF Pages
  <1>3. IndexAt[e][b] \in Pages
    BY <1>2
  <1>4. PageFits(e, b)
    BY <1>1 DEF BTree
  <1>5. QED
    BY <1>3, <1>4 DEF Pages, PageFits

-----------------------------------------------------------------------------
(* Enter.                                                                  *)
LEMMA PushKeeps ==
  ASSUME DescentInv, NEW t, Push(t), ScreenSound(t, epoch), Linked(TopScreen, t), epoch' = epoch
  PROVE  DescentInv' /\ OnTarget
  <1>1. StackGoes
    BY PushGoes DEF Push
  <1>2. RequestSound(LoadOf(t), epoch)
    BY LoadTypes DEF DescentInv
  <1>3. AsksSound
    BY <1>2, AskingSound DEF Push
  <1>4. QED
    BY <1>1, <1>3, StepKeeps

LEMMA TopKeeps ==
  ASSUME DescentInv, NEW t, ChangesTop(t), Alike(TopScreen, t), asked' = asked, epoch' = epoch
  PROVE  DescentInv' /\ OnTarget
  <1>1. StackGoes
    BY TopGoes
  <1>2. AsksSound
    BY AsksRest
  <1>3. QED
    BY <1>1, <1>2, StepKeeps

LEMMA DrillIndexPageKeeps ==
  ASSUME DescentInv, DrillIndexPage
  PROVE  DescentInv' /\ OnTarget
  <1> DEFINE s == TopScreen
             blk == RowAt(s)[1]
             type == IndexTuplePageType(IndexAt[s.read][blk])
             t == IndexTuples(s, blk, type)
  <1>1. /\ s.level = "indexPages" /\ HasRow(s) /\ blk \in DOMAIN IndexAt[s.read] /\ Push(t) /\ epoch' = epoch
    BY DEF DrillIndexPage, EnterOn, OnLevel, KeepDescent
  <1>2. ScreenSound(s, epoch) /\ epoch \in Times
    BY StackTop DEF DescentInv
  <1>3. s.read # 0
    BY <1>1, RowRead
  <1>4. s.read \in Times /\ s.read <= epoch
    BY <1>2, <1>3 DEF ScreenSound, PageSound, Times
  <1>5. Placed(blk, epoch)
    BY <1>1, <1>2, <1>4, PlacedLater, PlacedFrom
  <1>6. TypedPage(type, blk)
    <2> DEFINE node == IndexAt[s.read][blk]
    <2>1. /\ node.type \in {"r", "i", "l"} /\ node.level \in Nat
          /\ (node.type = "l" => node.level = 0) /\ (node.type = "i" => node.level > 0)
      BY <1>1, <1>4, PageTypes
    <2>3. type = IF node.type = "r" /\ node.level > 0 THEN "i" ELSE node.type
      BY DEF IndexTuplePageType
    <2> HIDE DEF type, node
    <2>4. (type \in {"l", "r"} => node.level = 0) /\ (type = "i" => node.level > 0) /\ type # ""
      <3>1. node.level = 0 <=> ~(node.level > 0)
        BY <2>1
      <3>2. CASE node.type = "r"
        BY <2>3, <3>1, <3>2
      <3>3. CASE node.type \in {"i", "l"}
        BY <2>1, <2>3, <3>3
      <3>4. QED
        BY <2>1, <3>2, <3>3
    <2>5. QED
      BY <1>1, <1>4, <2>4, SameHeight DEF node
  <1> HIDE DEF blk, type
  <1>7. ScreenSound(t, epoch) /\ t.level = "indexTuples"
    <2> DEFINE new == Screen("indexTuples", "index", blk)
    <2>1. JustOpened(new, "indexTuples", "index", blk)
      BY NewScreen
    <2>2. t = [new EXCEPT !.type = type]
      BY DEF IndexTuples
    <2> HIDE DEF new, t
    <2>3. /\ IsScreen(t) /\ t.level = "indexTuples" /\ t.blk = blk /\ t.read = 0 /\ t.seek = NoKey
          /\ t.tupleAttrs = <<>> /\ t.focusLP = 0 /\ t.type = type
      BY <2>1, <2>2 DEF JustOpened, IsScreen, ScreenFields
    <2>4. QED
      BY <1>2, <1>5, <1>6, <2>3 DEF ScreenSound, AttrsSound, WantSound, PageSound, Times
  <1>8. Linked(s, t)
    BY <1>1 DEF Linked
  <1> HIDE DEF t
  <1>9. QED
    BY <1>1, <1>7, <1>8, PushKeeps

LEMMA DrillHeapPageKeeps ==
  ASSUME DescentInv, DrillHeapPage
  PROVE  DescentInv' /\ OnTarget
  <1> DEFINE rel == TopScreen.rel
             blk == RowAt(TopScreen)[1]
             t == Screen("heapTuples", rel, blk)
  <1>1. Push(t) /\ epoch' = epoch /\ epoch \in Times
    BY DEF DrillHeapPage, EnterOn, KeepDescent, DescentInv
  <1> HIDE DEF rel, blk
  <1>2. ScreenSound(t, epoch) /\ t.level = "heapTuples"
    <2>1. JustOpened(t, "heapTuples", rel, blk)
      BY NewScreen
    <2> HIDE DEF t
    <2>2. QED
      BY <1>1, <2>1, OpenedSound
  <1>3. Linked(TopScreen, t)
    BY <1>2 DEF Linked
  <1> HIDE DEF t
  <1>4. QED
    BY <1>1, <1>2, <1>3, PushKeeps

LEMMA TogglePostingKeeps ==
  ASSUME DescentInv, TogglePosting
  PROVE  DescentInv' /\ OnTarget
  <1> DEFINE s == TopScreen
             open == IF ItemAt(s).off \in s.postingOpen THEN s.postingOpen \ {ItemAt(s).off}
                     ELSE s.postingOpen \cup {ItemAt(s).off}
             t == [s EXCEPT !.postingOpen = open]
             u == PutOn(t, RowAt(s))
  <1>1. ChangesTop(u) /\ asked' = asked /\ epoch' = epoch
    BY DEF TogglePosting, EnterOn, KeepDescent
  <1>2. IsScreen(s)
    BY StackTop
  <1> HIDE DEF open, s
  <1>3. Alike(s, t)
    BY <1>2, SetAlike
  <1> HIDE DEF t
  <1>4. IsScreen(t)
    BY <1>3 DEF Alike
  <1>5. Alike(t, u)
    BY <1>4, PutOnStill, StillAlike
  <1> HIDE DEF u
  <1>6. Alike(TopScreen, u)
    BY <1>3, <1>5, AlikeTwice DEF s
  <1>7. QED
    BY <1>1, <1>6, TopKeeps

LEMMA FollowRedirectKeeps ==
  ASSUME DescentInv, FollowRedirect
  PROVE  DescentInv' /\ OnTarget
  <1> DEFINE slot == <<TupleRow(TopScreen).to, 0>>
             u == PutOn(TopScreen, slot)
  <1>1. ChangesTop(u) /\ asked' = asked /\ epoch' = epoch
    BY DEF FollowRedirect, EnterOn, KeepDescent
  <1> HIDE DEF slot
  <1>2. Alike(TopScreen, u)
    BY StackTop, PutOnStill, StillAlike
  <1> HIDE DEF u
  <1>3. QED
    BY <1>1, <1>2, TopKeeps

LEMMA OpenTupleLayoutKeeps ==
  ASSUME DescentInv, NEW lp, ChangesTop(ArmAttrs(TopScreen, lp)), Asks(AttrsOf(TopScreen, lp)), epoch' = epoch
  PROVE  DescentInv' /\ OnTarget
  <1> DEFINE t == ArmAttrs(TopScreen, lp)
  <1>1. Len(stack) \in 1..Len(stack) /\ TopScreen = stack[Len(stack)] /\ ScreenSound(TopScreen, epoch) /\ epoch \in Times
    BY StackTop DEF DescentInv
  <1>2. ScreenSound(t, epoch) /\ t.level = TopScreen.level /\ t.blk = TopScreen.blk /\ t.focusLP = TopScreen.focusLP
    BY <1>1, ArmSound
  <1> HIDE DEF t
  <1>3. StackGoes
    BY <1>1, <1>2, SwapGoes DEF ChangesTop, t
  <1>4. RequestSound(AttrsOf(TopScreen, lp), epoch)
    BY <1>1, LoadTypes
  <1>5. AsksSound
    BY <1>4, AskingSound
  <1>6. QED
    BY <1>3, <1>5, StepKeeps

LEMMA LinkTypes ==
  ASSUME NEW e \in Times, NEW b \in DOMAIN IndexAt[e], IndexAt[e][b].level > 0,
         NEW n \in FirstLink(IndexAt[e][b])..Len(IndexAt[e][b].items)
  PROVE  TypedPage("", IndexAt[e][b].items[n].child)
  <1>1. LinksOf(e, b)
    BY TreeTypes DEF BTree, PageFits
  <1>2. \A d \in Times : IndexAt[e][b].items[n].child \in DOMAIN IndexAt[d] =>
          IndexAt[d][IndexAt[e][b].items[n].child].type # "r"
    BY <1>1, Zenon DEF LinksOf
  <1>3. QED
    BY <1>2 DEF TypedPage

LEMMA DescendDownlinkKeeps ==
  ASSUME DescentInv, DescendDownlink
  PROVE  DescentInv' /\ OnTarget
  <1> DEFINE s == TopScreen
             child == DownlinkChildBlock(s, ItemAt(s))
             t == [IndexTuples(s, child, "") EXCEPT !.seek = s.seek]
  <1>1. /\ s.level = "indexTuples" /\ HasRow(s) /\ RowAt(s)[2] = 0 /\ s.type = "i" /\ IsDownlink(s, ItemAt(s)) /\ child # 0
        /\ Push(t) /\ epoch' = epoch
    BY DEF DescendDownlink, EnterOn, OnLevel, KeepDescent
  <1>2. ScreenSound(s, epoch) /\ epoch \in Times
    BY StackTop DEF DescentInv
  <1>3. s.read # 0
    BY <1>1, RowRead
  <1>4. s.read \in Times /\ s.blk \in DOMAIN IndexAt[s.read] /\ IndexAt[s.read][s.blk].level > 0 /\ s.read <= epoch
    <2>1. s.read \in Times /\ s.blk \in DOMAIN IndexAt[s.read] /\ TypedPage(s.type, s.blk)
      BY <1>1, <1>2, <1>3, PageNow
    <2>2. s.read <= epoch
      BY <1>2 DEF ScreenSound, PageSound, Times
    <2>3. QED
      BY <1>1, <2>1, <2>2 DEF TypedPage
  <1>5. child = ItemAt(s).child /\ child \in DOMAIN IndexAt[s.read]
    BY <1>1 DEF DownlinkChildBlock
  <1>6. TypedPage("", child)
    <2>1. PICK j \in FirstLink(IndexAt[s.read][s.blk])..Len(IndexItems(s)) : ItemAt(s) = IndexItems(s)[j]
      BY <1>1, <1>4, DownlinkRow
    <2>2. IndexItems(s) = IndexAt[s.read][s.blk].items
      BY <1>4, PageItems
    <2>3. QED
      BY <1>4, <1>5, <2>1, <2>2, LinkTypes
  <1>7. Placed(child, epoch)
    BY <1>2, <1>4, <1>5, PlacedLater, PlacedFrom
  <1>8. s.seek \in SeekKeys \cup {NoKey}
    BY <1>2 DEF ScreenSound
  <1>9. ScreenSound(t, epoch) /\ t.level = "indexTuples" /\ t.blk = child
    <2> DEFINE new == Screen("indexTuples", "index", child)
               seek == s.seek
    <2>1. t = [[new EXCEPT !.type = ""] EXCEPT !.seek = seek]
      BY DEF IndexTuples
    <2>2. seek \in SeekKeys \cup {NoKey}
      BY <1>8
    <2> HIDE DEF child, t
    <2>3. JustOpened(new, "indexTuples", "index", child)
      BY NewScreen
    <2> HIDE DEF new, seek
    <2>4. /\ IsScreen(t) /\ t.level = "indexTuples" /\ t.blk = child /\ t.read = 0 /\ t.seek = seek
          /\ t.tupleAttrs = <<>> /\ t.focusLP = 0 /\ t.type = ""
      BY <2>1, <2>3 DEF JustOpened, IsScreen, ScreenFields
    <2>5. 0 \in 0..epoch
      BY <1>2 DEF Times
    <2>6. QED
      BY <1>6, <1>7, <2>2, <2>4, <2>5 DEF ScreenSound, AttrsSound, WantSound, PageSound
  <1>10. Linked(s, t)
    BY <1>1, <1>3, <1>9 DEF Linked
  <1> HIDE DEF t
  <1>11. QED
    BY <1>1, <1>9, <1>10, PushKeeps

(* The row a leaf entry opens is there, and has its key.                   *)
LEMMA TupleThere ==
  ASSUME NEW e \in Times, NEW rel \in {"table", "toast"}, NEW blk \in DOMAIN HeapAt[e][rel], NEW lp,
         LpNormal(TupleAt(e, rel, <<blk, lp>>))
  PROVE  \E at \in DOMAIN HeapAt[e][rel][blk] : HeapAt[e][rel][blk][at].lp = lp
  <1> DEFINE node == HeapAt[e][rel][blk]
             I == {i \in 1..Len(node) : node[i].lp = lp}
             at == SelectInSeq(node, LAMBDA t : t.lp = lp)
  <1>1. DOMAIN node = 1..Len(node) /\ Len(node) \in Nat
    <2>1. HeapAt[e] \in Heaps
      BY TreeTypes
    <2>2. HeapAt[e][rel] \in Seq(Seq(Tuples))
      BY <2>1 DEF Heaps
    <2>3. node \in Seq(Tuples)
      BY <2>2
    <2>4. QED
      BY <2>3
  <1>2. at = IF I # {} THEN Min(I) ELSE 0
    BY DEF SelectInSeq
  <1>3. at # 0
    <2>1. at = 0 => TupleAt(e, rel, <<blk, lp>>).flag = "unused"
      BY DEF TupleAt
    <2>2. QED
      BY <2>1 DEF LpNormal
  <1> HIDE DEF at, node
  <1>4. at \in I
    BY <1>1, <1>2, <1>3, FirstOf
  <1>5. QED
    BY <1>1, <1>4 DEF node

LEMMA TidParts ==
  ASSUME NEW e, NEW rel, NEW tid
  PROVE  TupleAt(e, rel, <<tid[1], tid[2]>>) = TupleAt(e, rel, tid)
  BY DEF TupleAt, SelectInSeq

LEMMA EntryOpens ==
  ASSUME NEW s, s.level = "indexTuples", s.type \in {"l", "r"}, s.read \in Times, s.blk \in DOMAIN IndexAt[s.read],
         IndexAt[s.read][s.blk].level = 0, HasRow(s), OpensAt(s, TidAt(s)) # NoTid
  PROVE  LET tid == OpensAt(s, TidAt(s))
         IN  Promised(s.read, "table", tid[1], tid[2], "key", ItemAt(s).key)
  <1> DEFINE e == s.read
             items == IndexItems(s)
             of == TidAt(s)
             tid == OpensAt(s, of)
  <1>1. \A n \in 1..Len(items) : items[n].off = n /\ items[n].posting \in Seq(Seq(Nat))
    BY PageItems DEF Entries
  <1>2. RowOfItem(s, RowAt(s))
    BY IndexRows DEF HasRow, RowAt
  <1>3. PICK n \in 1..Len(items) : RowAt(s) = <<n, 0>> \/ \E k \in DOMAIN items[n].posting : RowAt(s) = <<n, k>>
    BY <1>2 DEF RowOfItem
  <1>4. ItemAt(s) = items[n]
    BY <1>3, ItemOf
  <1>5. of \in TidsOf(items[n])
    BY <1>3, <1>4 DEF TidAt, TidsOf
  <1>6. tid = LiveTid(e, of) /\ of # NoTid
    BY DEF OpensAt
  <1>7. EntryOfRow(e, items[n])
    <2>1. PageFits(e, s.blk)
      BY TreeTypes DEF BTree
    <2>2. items = IndexAt[e][s.blk].items
      BY PageItems
    <2>3. DOMAIN items = 1..Len(items)
      BY PageItems
    <2>4. QED
      BY <2>1, <2>2, <2>3 DEF PageFits
  <1>8. of[1] \in DOMAIN HeapAt[e]["table"] /\ TupleAt(e, "table", tid).key = items[n].key
    BY <1>5, <1>6, <1>7 DEF EntryOfRow
  <1>9. tid[1] = of[1] /\ LpNormal(TupleAt(e, "table", tid))
    BY <1>6 DEF LiveTid
  <1> HIDE DEF tid, of, e, items
  <1>11. TupleAt(e, "table", <<tid[1], tid[2]>>) = TupleAt(e, "table", tid)
    BY TidParts
  <1>10. \E at \in DOMAIN HeapAt[e]["table"][of[1]] : HeapAt[e]["table"][of[1]][at].lp = tid[2]
    BY <1>8, <1>9, <1>11, TupleThere DEF e
  <1>12. Promised(e, "table", tid[1], tid[2], "key", ItemAt(s).key)
    BY <1>4, <1>8, <1>9, <1>10, <1>11 DEF Promised, e
  <1>13. QED
    BY <1>12 DEF e, tid, of

(* A screen opened for a row that is promised.                             *)
Awaiting(rel, blk, lp, kind, what, e) ==
  [Screen("heapTuples", rel, blk) EXCEPT !.focusLP = lp, !.want = <<kind, what, e>>]
LEMMA AwaitingSound ==
  ASSUME NEW rel, NEW blk, NEW lp, NEW kind, NEW what, NEW e, Promised(e, rel, blk, lp, kind, what), NEW now \in Times
  PROVE  ScreenSound(Awaiting(rel, blk, lp, kind, what, e), now) /\ Awaiting(rel, blk, lp, kind, what, e).level = "heapTuples"
  <1> DEFINE new == Screen("heapTuples", rel, blk)
             want == <<kind, what, e>>
             t == [new EXCEPT !.focusLP = lp, !.want = want]
  <1>1. JustOpened(new, "heapTuples", rel, blk)
    BY NewScreen
  <1>2. want[1] = kind /\ want[2] = what /\ want[3] = e
    OBVIOUS
  <1> HIDE DEF new, want
  <1>3. /\ IsScreen(t) /\ t.level = "heapTuples" /\ t.rel = rel /\ t.blk = blk /\ t.read = 0 /\ t.seek = NoKey
        /\ t.tupleAttrs = <<>> /\ t.focusLP = lp /\ t.want = want
    BY <1>1 DEF JustOpened, IsScreen, ScreenFields
  <1>4. 0 \in 0..now
    BY DEF Times
  <1> HIDE DEF t
  <1>5. WantSound(t)
    BY <1>2, <1>3 DEF WantSound
  <1>6. ScreenSound(t, now)
    BY <1>3, <1>4, <1>5 DEF ScreenSound, AttrsSound, PageSound
  <1>7. QED
    BY <1>3, <1>6 DEF t, new, want, Awaiting

LEMMA DrillIndexLeafEntryKeeps ==
  ASSUME DescentInv, DrillIndexLeafEntry
  PROVE  DescentInv' /\ OnTarget
  <1> DEFINE s == TopScreen
             tid == OpensAt(s, TidAt(s))
             key == ItemAt(s).key
             e == s.read
             t == Awaiting("table", tid[1], tid[2], "key", key, e)
  <1>1. s.level = "indexTuples" /\ HasRow(s) /\ tid # NoTid /\ Push(t) /\ epoch' = epoch
    BY DEF DrillIndexLeafEntry, EnterOn, OnLevel, KeepDescent, HeapTuplesAt, Awaiting
  <1>2. ScreenSound(s, epoch) /\ epoch \in Times
    BY StackTop DEF DescentInv
  <1>3. s.read # 0
    BY <1>1, RowRead
  <1>4. s.read \in Times /\ s.blk \in DOMAIN IndexAt[s.read] /\ TypedPage(s.type, s.blk)
    BY <1>1, <1>2, <1>3, PageNow
  <1>5. s.type \in {"l", "r"}
    BY <1>1 DEF OpensAt, Decodes
  <1>6. IndexAt[s.read][s.blk].level = 0
    BY <1>4, <1>5 DEF TypedPage
  <1>7. Promised(e, "table", tid[1], tid[2], "key", key)
    BY <1>1, <1>4, <1>5, <1>6, EntryOpens
  <1> HIDE DEF tid, key, e
  <1>8. ScreenSound(t, epoch) /\ t.level = "heapTuples"
    BY <1>2, <1>7, AwaitingSound
  <1>9. Linked(s, t)
    BY <1>8 DEF Linked
  <1> HIDE DEF t
  <1>10. QED
    BY <1>1, <1>8, <1>9, PushKeeps

-----------------------------------------------------------------------------
(* The other keys.                                                         *)
LEMMA SeekKeyKeeps ==
  ASSUME DescentInv, NEW q \in SeekKeys, SeekKey(q)
  PROVE  DescentInv' /\ OnTarget
  <1> DEFINE s == TopScreen
             t == [s EXCEPT !.seek = q]
             u == SeekTo(t, q)
  <1>1. Len(stack) \in 1..Len(stack) /\ s = stack[Len(stack)] /\ ScreenSound(s, epoch) /\ IsScreen(s)
    BY StackTop
  <1>2. stack' = [stack EXCEPT ![Len(stack)] = u] /\ asked' = asked /\ epoch' = epoch
    BY DEF SeekKey, OnKey, KeepDescent, ChangesTop
  <1> HIDE DEF s
  <1>3. ScreenSound(t, epoch) /\ IsScreen(t) /\ t.level = s.level /\ t.blk = s.blk /\ t.focusLP = s.focusLP
    <2>1. /\ IsScreen(t) /\ t.seek = q /\ t.tupleAttrs = s.tupleAttrs /\ t.tupleAttrsLP = s.tupleAttrsLP
          /\ t.level = s.level /\ t.rel = s.rel /\ t.blk = s.blk /\ t.type = s.type /\ t.focusLP = s.focusLP
          /\ t.want = s.want /\ t.read = s.read
      BY <1>1 DEF IsScreen, ScreenFields
    <2> HIDE DEF t
    <2>2. QED
      BY <1>1, <2>1 DEF ScreenSound, AttrsSound, WantSound, PageSound
  <1> HIDE DEF t
  <1>4. Alike(t, u)
    BY <1>3, SeekStill, StillAlike
  <1> HIDE DEF u
  <1>5. ScreenSound(u, epoch) /\ u.level = s.level /\ u.blk = s.blk /\ u.focusLP = s.focusLP
    BY <1>3, <1>4, AlikeSound
  <1>6. StackGoes
    BY <1>1, <1>2, <1>5, SwapGoes
  <1>7. AsksSound
    BY <1>2, AsksRest
  <1>8. QED
    BY <1>2, <1>6, <1>7, StepKeeps

LEMMA MoveCursorKeeps ==
  ASSUME DescentInv, NEW by, MoveCursor(by)
  PROVE  DescentInv' /\ OnTarget
  <1> DEFINE at == TopScreen.cursor + by
             t == [TopScreen EXCEPT !.cursor = at]
  <1>1. ChangesTop(t) /\ asked' = asked /\ epoch' = epoch
    BY DEF MoveCursor, OnKey, KeepDescent
  <1> HIDE DEF at
  <1>2. Alike(TopScreen, t)
    BY StackTop, SetAlike
  <1> HIDE DEF t
  <1>3. QED
    BY <1>1, <1>2, TopKeeps

LEMMA ReverseRowsKeeps ==
  ASSUME DescentInv, ReverseRows
  PROVE  DescentInv' /\ OnTarget
  <1> DEFINE way == ~TopScreen.desc
             t == [TopScreen EXCEPT !.desc = way]
  <1>1. ChangesTop(t) /\ asked' = asked /\ epoch' = epoch
    BY DEF ReverseRows, OnKey, KeepDescent
  <1> HIDE DEF way
  <1>2. Alike(TopScreen, t)
    BY StackTop, SetAlike
  <1> HIDE DEF t
  <1>3. QED
    BY <1>1, <1>2, TopKeeps

LEMMA LoadsKeep ==
  ASSUME DescentInv, NEW s, Alike(TopScreen, s), LoadsTop(s), Asks(LoadOf(s)), epoch' = epoch
  PROVE  DescentInv' /\ OnTarget
  <1> DEFINE t == [s EXCEPT !.loading = TRUE]
  <1>1. ChangesTop(t)
    BY DEF LoadsTop, ChangesTop
  <1>2. ScreenSound(TopScreen, epoch) /\ IsScreen(s) /\ epoch \in Times
    BY StackTop DEF Alike, DescentInv
  <1>3. Alike(TopScreen, t)
    <2>1. Alike(s, t)
      BY <1>2, SetAlike
    <2>2. QED
      BY <2>1, AlikeTwice
  <1> HIDE DEF t
  <1>4. StackGoes
    BY <1>1, <1>3, TopGoes
  <1>5. ScreenSound(s, epoch)
    BY <1>2, AlikeSound
  <1>6. AsksSound
    BY <1>2, <1>5, LoadTypes, AskingSound
  <1>7. QED
    BY <1>4, <1>6, StepKeeps

LEMMA ReloadKeeps ==
  ASSUME DescentInv, Reload
  PROVE  DescentInv' /\ OnTarget
  <1>1. LoadsTop(TopScreen) /\ Asks(LoadOf(TopScreen)) /\ epoch' = epoch
    BY DEF Reload, OnKey, KeepDescent
  <1>2. Alike(TopScreen, TopScreen)
    BY StackTop, Stays, StillAlike
  <1>3. QED
    BY <1>1, <1>2, LoadsKeep

LEMMA ToggleColumnKeeps ==
  ASSUME DescentInv, ToggleColumn
  PROVE  DescentInv' /\ OnTarget
  <1> DEFINE to == 3 - TopScreen.pick
             s == [TopScreen EXCEPT !.pick = to]
  <1>1. LoadsTop(s) /\ Asks(LoadOf(s)) /\ epoch' = epoch
    BY DEF ToggleColumn, OnKey, KeepDescent
  <1> HIDE DEF to
  <1>2. Alike(TopScreen, s)
    BY StackTop, SetAlike
  <1> HIDE DEF s
  <1>3. QED
    BY <1>1, <1>2, LoadsKeep

LEMMA DescribeKeeps ==
  ASSUME DescentInv, Describe
  PROVE  DescentInv' /\ OnTarget
  <1> DEFINE rel == TopScreen.rel
             new == Screen("describe", rel, 0)
             t == [new EXCEPT !.loading = FALSE, !.loaded = TRUE]
  <1>1. stack' = Append(stack, t) /\ asked' = asked /\ epoch' = epoch /\ epoch \in Times
    BY DEF Describe, OnKey, KeepDescent, DescentInv
  <1> HIDE DEF rel
  <1>2. JustOpened(new, "describe", rel, 0)
    BY NewScreen
  <1> HIDE DEF new
  <1>3. JustOpened(t, "describe", rel, 0)
    BY <1>2 DEF JustOpened, IsScreen, ScreenFields
  <1> HIDE DEF t
  <1>4. ScreenSound(t, epoch) /\ t.level = "describe"
    BY <1>1, <1>3, OpenedSound
  <1>5. Linked(TopScreen, t)
    BY <1>4 DEF Linked
  <1>6. StackGoes
    BY <1>1, <1>4, <1>5, PushGoes
  <1>7. AsksSound
    BY <1>1, AsksRest
  <1>8. QED
    BY <1>1, <1>6, <1>7, StepKeeps

LEMMA JumpKeeps ==
  ASSUME DescentInv, JumpToPageInspector
  PROVE  DescentInv' /\ OnTarget
  <1> DEFINE rel == TopScreen.rel
             t == Screen("heapPages", rel, 0)
  <1>1. Push(t) /\ epoch' = epoch /\ epoch \in Times
    BY DEF JumpToPageInspector, OnKey, KeepDescent, DescentInv
  <1> HIDE DEF rel
  <1>2. JustOpened(t, "heapPages", rel, 0)
    BY NewScreen
  <1> HIDE DEF t
  <1>3. ScreenSound(t, epoch) /\ t.level = "heapPages"
    BY <1>1, <1>2, OpenedSound
  <1>4. Linked(TopScreen, t)
    BY <1>3 DEF Linked
  <1>5. QED
    BY <1>1, <1>3, <1>4, PushKeeps

LEMMA GoBackKeeps ==
  ASSUME DescentInv, GoBack
  PROVE  DescentInv' /\ OnTarget
  <1>1. Len(stack) > 1 /\ stack' = Front(stack) /\ asked' = asked /\ epoch' = epoch
    BY DEF GoBack, KeepDescent
  <1>2. IsStack(stack) /\ StackSound(stack, epoch) /\ Len(stack) \in Nat
    BY DEF DescentInv, IsStack
  <1>3. /\ IsStack(stack') /\ StackSound(stack', epoch) /\ Len(stack') = Len(stack) - 1
        /\ \A j \in 1..(Len(stack) - 1) : stack'[j] = stack[j]
    BY <1>1, <1>2, LeaveStack
  <1>4. DOMAIN stack' = 1..Len(stack')
    BY <1>3 DEF IsStack
  <1>5. FocusKept
    BY <1>3, <1>4 DEF FocusKept
  <1>6. AsksSound
    BY <1>1, AsksRest
  <1>7. QED
    BY <1>1, <1>3, <1>5, <1>6, StepKeeps DEF StackGoes

-----------------------------------------------------------------------------
(* The overlay.                                                            *)
LEMMA CloseTupleLayoutKeeps ==
  ASSUME DescentInv, CloseTupleLayout
  PROVE  DescentInv' /\ OnTarget
  <1> DEFINE t == Closed(TopScreen)
  <1>1. stack' = [stack EXCEPT ![Len(stack)] = t] /\ asked' = asked /\ epoch' = epoch
    BY DEF CloseTupleLayout, OnOverlay, KeepDescent, ChangesTop
  <1>2. Len(stack) \in 1..Len(stack) /\ TopScreen = stack[Len(stack)] /\ ScreenSound(TopScreen, epoch)
    BY StackTop
  <1>3. ScreenSound(t, epoch) /\ t.level = TopScreen.level /\ t.blk = TopScreen.blk /\ t.focusLP = TopScreen.focusLP
    BY <1>2, CloseSound
  <1> HIDE DEF t
  <1>4. StackGoes
    BY <1>1, <1>2, <1>3, SwapGoes
  <1>5. AsksSound
    BY <1>1, AsksRest
  <1>6. QED
    BY <1>1, <1>4, <1>5, StepKeeps

LEMMA OpenToastValueKeeps ==
  ASSUME DescentInv, OpenToastValue
  PROVE  DescentInv' /\ OnTarget
  <1> DEFINE chunk == OverlayTuple.chunk
             asks == <<chunk, FALSE>>
             t == [TopScreen EXCEPT !.toastVal = asks]
  <1>1. ChangesTop(t) /\ Asks(ValueOf(TopScreen, chunk)) /\ epoch' = epoch
    BY DEF OpenToastValue, OnOverlay, KeepDescent
  <1>2. ScreenSound(TopScreen, epoch) /\ IsScreen(TopScreen) /\ epoch \in Times
    BY StackTop DEF DescentInv
  <1> HIDE DEF asks, chunk
  <1>3. Alike(TopScreen, t)
    BY <1>2, SetAlike
  <1> HIDE DEF t
  <1>4. StackGoes
    BY <1>1, <1>3, TopGoes
  <1>5. AsksSound
    BY <1>1, <1>2, LoadTypes, AskingSound
  <1>6. QED
    BY <1>1, <1>4, <1>5, StepKeeps

LEMMA OpenToastChunkNavKeeps ==
  ASSUME DescentInv, OpenToastChunkNav
  PROVE  DescentInv' /\ OnTarget
  <1> DEFINE t == Closed(TopScreen)
             below == [stack EXCEPT ![Len(stack)] = t]
             new == Screen("heapPages", "toast", 0)
             pointer == OverlayTuple.pointer
  <1>1. stack' = Append(below, new) /\ Asks(ToastOf(TopScreen, pointer)) /\ epoch' = epoch
    BY DEF OpenToastChunkNav, OnOverlay, KeepDescent
  <1>2. /\ Len(stack) \in 1..Len(stack) /\ DOMAIN stack = 1..Len(stack) /\ TopScreen = stack[Len(stack)]
        /\ ScreenSound(TopScreen, epoch) /\ epoch \in Times
    BY StackTop DEF DescentInv
  <1>3. ScreenSound(t, epoch) /\ t.level = TopScreen.level /\ t.blk = TopScreen.blk /\ t.focusLP = TopScreen.focusLP
    BY <1>2, CloseSound
  <1>4. IsStack(stack) /\ StackSound(stack, epoch)
    BY DEF DescentInv
  <1> HIDE DEF t
  <1>5. /\ IsStack(below) /\ StackSound(below, epoch) /\ Len(below) = Len(stack) /\ below[Len(stack)] = t
        /\ \A j \in 1..Len(stack) : j # Len(stack) => below[j] = stack[j]
    <2> DEFINE n == Len(stack)
    <2>1. n \in 1..Len(stack) /\ n = Len(stack) /\ t.level = stack[n].level /\ t.blk = stack[n].blk
      BY <1>2, <1>3
    <2> HIDE DEF n
    <2>2. IsStack([stack EXCEPT ![n] = t]) /\ StackSound([stack EXCEPT ![n] = t], epoch)
      BY <1>3, <1>4, <2>1, SwapStack
    <2>4. Len([stack EXCEPT ![n] = t]) = Len(stack)
      BY <1>3, <1>4, <2>1, SwapStack
    <2>5. [stack EXCEPT ![n] = t][n] = t
      BY <1>3, <1>4, <2>1, SwapStack
    <2>6. \A j \in 1..Len(stack) : j # n => [stack EXCEPT ![n] = t][j] = stack[j]
      BY <1>3, <1>4, <2>1, SwapStack
    <2>3. QED
      BY <2>1, <2>2, <2>4, <2>5, <2>6
  <1>6. ScreenSound(new, epoch) /\ new.level = "heapPages"
    BY <1>2, NewScreen, OpenedSound
  <1> HIDE DEF below, new
  <1>7. Linked(below[Len(below)], new)
    BY <1>6 DEF Linked
  <1>8. /\ IsStack(stack') /\ StackSound(stack', epoch)
        /\ \A j \in 1..Len(stack) : stack'[j] = below[j]
    BY <1>1, <1>5, <1>6, <1>7, GrowStack
  <1>9. FocusKept
    <2>1. \A j \in 1..Len(stack) : stack'[j].focusLP = stack[j].focusLP
      BY <1>2, <1>3, <1>5, <1>8
    <2>2. QED
      BY <1>2, <2>1 DEF FocusKept
  <1>10. AsksSound
    BY <1>1, <1>2, LoadTypes, AskingSound
  <1>11. QED
    BY <1>1, <1>8, <1>9, <1>10, StepKeeps DEF StackGoes

-----------------------------------------------------------------------------
(* Answers.  One that lands changes the last screen of its level.          *)
LEMMA ReadingIs ==
  ASSUME DescentInv, NEW load \in asked, NEW e \in Readings(load)
  PROVE  /\ RequestSound(load, epoch) /\ epoch \in Times /\ e \in 0..epoch
         /\ e # 0 => e \in Times /\ load.since \in Times /\ load.since <= e
  <1>1. epoch \in 1..2 /\ load.since \in 1..epoch /\ RequestSound(load, epoch)
    BY DEF DescentInv, RequestSound, Times
  <1>2. e \in load.since..epoch \/ e = 0
    BY DEF Readings, Failed
  <1>3. QED
    BY <1>1, <1>2 DEF Times

LEMMA AnswerGoes ==
  ASSUME DescentInv, NEW level, NEW i, i = FindLevel(level), i # 0, NEW t, stack' = [stack EXCEPT ![i] = t],
         ScreenSound(t, epoch), t.level = stack[i].level, t.blk = stack[i].blk, t.focusLP = stack[i].focusLP,
         asked' \subseteq asked, epoch' = epoch
  PROVE  DescentInv' /\ OnTarget
  <1>1. IsStack(stack)
    BY DEF DescentInv
  <1>2. i \in 1..Len(stack) /\ stack[i].level = level /\ (i = Len(stack) \/ stack[i + 1].level # level)
    BY <1>1, FindLevelFinds
  <1>3. StackGoes
    BY <1>2, SwapGoes
  <1>4. AsksSound
    BY AsksRest
  <1>5. QED
    BY <1>3, <1>4, StepKeeps

LEMMA LandsOn ==
  ASSUME DescentInv, NEW level, NEW i, i = FindLevel(level), i # 0
  PROVE  i \in 1..Len(stack) /\ stack[i].level = level /\ ScreenSound(stack[i], epoch) /\ IsScreen(stack[i])
  <1>1. IsStack(stack)
    BY DEF DescentInv
  <1>2. i \in 1..Len(stack) /\ stack[i].level = level
    BY <1>1, FindLevelFinds
  <1>3. ScreenSound(stack[i], epoch)
    BY <1>2 DEF DescentInv, StackSound
  <1>4. QED
    BY <1>2, <1>3 DEF ScreenSound

LEMMA OnPagesLoadedKeeps ==
  ASSUME DescentInv, NEW load \in asked, NEW e \in Readings(load), OnPagesLoaded(load, e)
  PROVE  DescentInv' /\ OnTarget
  <1> DEFINE i == FindLevel(load.kind)
             s == stack[i]
             t == Settle(s, e)
             u == ClampCursor(t)
  <1>1. /\ load.kind \in {"indexPages", "heapPages"} /\ i # 0 /\ stack' = [stack EXCEPT ![i] = u]
        /\ asked' \subseteq asked /\ epoch' = epoch
    BY DEF OnPagesLoaded, Lands, KeepDescent
  <1>2. e \in 0..epoch
    BY ReadingIs
  <1>3. s.level = load.kind /\ ScreenSound(s, epoch)
    BY <1>1, LandsOn
  <1> HIDE DEF s
  <1>4. ScreenSound(t, epoch) /\ t.level = s.level /\ t.blk = s.blk /\ t.focusLP = s.focusLP
    BY <1>1, <1>2, <1>3, SettleSound
  <1> HIDE DEF t
  <1>5. Alike(t, u)
    BY <1>4, ClampStill, StillAlike DEF ScreenSound
  <1> HIDE DEF u
  <1>6. ScreenSound(u, epoch) /\ u.level = s.level /\ u.blk = s.blk /\ u.focusLP = s.focusLP
    BY <1>4, <1>5, AlikeSound
  <1> HIDE DEF i
  <1>7. QED
    BY <1>1, <1>6, AnswerGoes DEF i, s

LEMMA OnTupleAttrsLoadedKeeps ==
  ASSUME DescentInv, NEW load \in asked, NEW e, OnTupleAttrsLoaded(load, e)
  PROVE  DescentInv' /\ OnTarget
  <1> DEFINE i == FindLevel("heapTuples")
             s == stack[i]
             attrs == <<load.lp, e>>
             t == [s EXCEPT !.tupleAttrs = attrs]
  <1>1. /\ i # 0 /\ s.tupleAttrsLP = load.lp /\ stack' = [stack EXCEPT ![i] = t]
        /\ asked' \subseteq asked /\ epoch' = epoch
    BY DEF OnTupleAttrsLoaded, Lands, SameTuple, KeepDescent
  <1>2. s.level = "heapTuples" /\ ScreenSound(s, epoch)
    BY <1>1, LandsOn
  <1>3. attrs[1] = load.lp
    OBVIOUS
  <1> HIDE DEF s, attrs
  <1>4. ScreenSound(t, epoch) /\ t.level = s.level /\ t.blk = s.blk /\ t.focusLP = s.focusLP
    <2>1. DOMAIN s = ScreenFields
      BY <1>2 DEF ScreenSound, IsScreen
    <2>2. /\ DOMAIN t = ScreenFields /\ t.tupleAttrs = attrs /\ t.tupleAttrsLP = s.tupleAttrsLP
          /\ t.level = s.level /\ t.rel = s.rel /\ t.blk = s.blk /\ t.type = s.type /\ t.seek = s.seek
          /\ t.focusLP = s.focusLP /\ t.want = s.want /\ t.read = s.read
      BY <2>1 DEF ScreenFields
    <2> HIDE DEF t
    <2>3. AttrsSound(t)
      BY <1>1, <1>2, <1>3, <2>2 DEF AttrsSound
    <2>4. WantSound(t) /\ PageSound(t, epoch)
      BY <1>2, <2>2 DEF ScreenSound, WantSound, PageSound
    <2>5. QED
      BY <1>2, <2>2, <2>3, <2>4 DEF ScreenSound, IsScreen
  <1> HIDE DEF t, i
  <1>5. QED
    BY <1>1, <1>4, AnswerGoes DEF i, s

LEMMA OnToastValueLoadedKeeps ==
  ASSUME DescentInv, NEW load \in asked, OnToastValueLoaded(load)
  PROVE  DescentInv' /\ OnTarget
  <1> DEFINE i == FindLevel("heapTuples")
             s == stack[i]
             value == <<load.lp, TRUE>>
             t == [s EXCEPT !.toastVal = value]
  <1>1. i # 0 /\ stack' = [stack EXCEPT ![i] = t] /\ asked' \subseteq asked /\ epoch' = epoch
    BY DEF OnToastValueLoaded, KeepDescent
  <1>2. ScreenSound(s, epoch) /\ IsScreen(s)
    BY <1>1, LandsOn
  <1> HIDE DEF s, value
  <1>3. Alike(s, t)
    BY <1>2, SetAlike
  <1> HIDE DEF t
  <1>4. ScreenSound(t, epoch) /\ t.level = s.level /\ t.blk = s.blk /\ t.focusLP = s.focusLP
    BY <1>2, <1>3, AlikeSound
  <1> HIDE DEF i
  <1>5. QED
    BY <1>1, <1>4, AnswerGoes DEF i, s

LEMMA ToastTargetFailsKeeps ==
  ASSUME DescentInv, NEW load \in asked, ToastTargetFails(load)
  PROVE  DescentInv' /\ OnTarget
  <1> DEFINE i == FindLevel("heapPages")
             s == stack[i]
             no == FALSE
             yes == TRUE
             t == [s EXCEPT !.loading = no]
             u == [t EXCEPT !.loaded = yes]
  <1>1. i # 0 /\ stack' = [stack EXCEPT ![i] = u] /\ asked' \subseteq asked /\ epoch' = epoch
    BY DEF ToastTargetFails, KeepDescent
  <1>2. ScreenSound(s, epoch) /\ IsScreen(s)
    BY <1>1, LandsOn
  <1> HIDE DEF s, no, yes
  <1>3. Alike(s, t)
    BY <1>2, SetAlike
  <1> HIDE DEF t
  <1>7. IsScreen(t)
    BY <1>3 DEF Alike
  <1>4. Alike(t, u)
    BY <1>7, SetAlike
  <1> HIDE DEF u
  <1>5. ScreenSound(u, epoch) /\ u.level = s.level /\ u.blk = s.blk /\ u.focusLP = s.focusLP
    BY <1>2, <1>3, <1>4, AlikeTwice, AlikeSound
  <1> HIDE DEF i
  <1>6. QED
    BY <1>1, <1>5, AnswerGoes DEF i, s

LEMMA DroppedKeeps ==
  ASSUME DescentInv, NEW load \in asked, Dropped(load)
  PROVE  DescentInv' /\ OnTarget
  <1>1. stack' = stack /\ asked' \subseteq asked /\ epoch' = epoch
    BY DEF Dropped, Drop, KeepDescent
  <1>2. QED
    BY <1>1, StackRests, AsksRest, StepKeeps

LEMMA ProbedTypeFits ==
  ASSUME NEW load, NEW e, RequestSound(load, epoch), load.kind = "indexTuples",
         e # 0 => e \in Times /\ load.since \in Times /\ load.since <= e, NEW type \in ProbedTypes(load, e)
  PROVE  TypedPage(type, load.blk) /\ (e # 0 => Placed(load.blk, e))
  <1>1. TypedPage(load.type, load.blk) /\ Placed(load.blk, load.since)
    BY DEF RequestSound
  <1>2. e # 0 => Placed(load.blk, e) /\ load.blk \in DOMAIN IndexAt[e]
    <2>1. e # 0 => Placed(load.blk, e)
      BY <1>1, PlacedFrom
    <2>2. e # 0 => e \in e..2
      BY DEF Times
    <2>3. QED
      BY <2>1, <2>2 DEF Placed
  <1>3. CASE type = load.type
    BY <1>1, <1>2, <1>3
  <1>4. CASE type # load.type
    <2>1. load.type = "" /\ e # 0 /\ type = IndexAt[e][load.blk].type
      BY <1>4 DEF ProbedTypes, Failed
    <2>2. type \in {"i", "l"}
      BY <1>1, <1>2, <2>1, PageTypes DEF TypedPage
    <2>3. (type = "l" => IndexAt[e][load.blk].level = 0) /\ (type = "i" => IndexAt[e][load.blk].level > 0)
      BY <1>2, <2>1, PageTypes
    <2>4. QED
      BY <1>2, <2>1, <2>2, <2>3, SameHeight
  <1>5. QED
    BY <1>3, <1>4

LEMMA TypeSound ==
  ASSUME NEW s, NEW now, ScreenSound(s, now), NEW type, TypedPage(type, s.blk)
  PROVE  LET t == [s EXCEPT !.type = type]
         IN  ScreenSound(t, now) /\ t.level = s.level /\ t.blk = s.blk /\ t.focusLP = s.focusLP
  <1> DEFINE t == [s EXCEPT !.type = type]
  <1>1. DOMAIN s = ScreenFields
    BY DEF ScreenSound, IsScreen
  <1>2. /\ DOMAIN t = ScreenFields /\ t.tupleAttrs = s.tupleAttrs /\ t.tupleAttrsLP = s.tupleAttrsLP
        /\ t.level = s.level /\ t.rel = s.rel /\ t.blk = s.blk /\ t.type = type /\ t.seek = s.seek
        /\ t.focusLP = s.focusLP /\ t.want = s.want /\ t.read = s.read
    BY <1>1 DEF ScreenFields
  <1> HIDE DEF t
  <1>3. ScreenSound(t, now)
    BY <1>2 DEF ScreenSound, IsScreen, AttrsSound, WantSound, PageSound
  <1>4. QED
    BY <1>2, <1>3 DEF t

LEMMA OnIndexTuplesLoadedKeeps ==
  ASSUME DescentInv, NEW load \in asked, NEW e \in Readings(load), NEW type, OnIndexTuplesLoaded(load, e, type)
  PROVE  DescentInv' /\ OnTarget
  <1> DEFINE i == FindLevel("indexTuples")
             s == stack[i]
             t == Settle(s, e)
             u == [t EXCEPT !.type = type]
             v == ClampCursor(u)
             w == OnSeek(v)
  <1>1. /\ load.kind = "indexTuples" /\ i # 0 /\ s.blk = load.blk /\ type \in ProbedTypes(load, e)
        /\ stack' = [stack EXCEPT ![i] = w] /\ asked' \subseteq asked /\ epoch' = epoch
    BY DEF OnIndexTuplesLoaded, Lands, KeepDescent
  <1>2. s.level = "indexTuples" /\ ScreenSound(s, epoch)
    BY <1>1, LandsOn
  <1>3. RequestSound(load, epoch) /\ e \in 0..epoch /\ (e # 0 => e \in Times /\ load.since \in Times /\ load.since <= e)
    BY ReadingIs
  <1>4. TypedPage(type, s.blk) /\ (e # 0 => Placed(s.blk, e))
    BY <1>1, <1>3, ProbedTypeFits
  <1> HIDE DEF s
  <1>5. ScreenSound(t, epoch) /\ t.level = s.level /\ t.blk = s.blk /\ t.focusLP = s.focusLP
    BY <1>2, <1>3, <1>4, SettleSound
  <1> HIDE DEF t
  <1>6. ScreenSound(u, epoch) /\ u.level = s.level /\ u.blk = s.blk /\ u.focusLP = s.focusLP
    BY <1>4, <1>5, TypeSound
  <1> HIDE DEF u
  <1>7. Alike(u, v) /\ IsScreen(v)
    BY <1>6, ClampStill, StillAlike DEF ScreenSound, Alike
  <1> HIDE DEF v
  <1>8. Alike(v, w)
    BY <1>7, SeekStill, Stays, StillAlike DEF OnSeek
  <1> HIDE DEF w
  <1>9. Alike(u, w)
    BY <1>7, <1>8, AlikeTwice
  <1>10. ScreenSound(w, epoch) /\ w.level = s.level /\ w.blk = s.blk /\ w.focusLP = s.focusLP
    BY <1>6, <1>9, AlikeSound
  <1> HIDE DEF i
  <1>11. QED
    BY <1>1, <1>10, AnswerGoes DEF i, s

(* A chunk that is found is there, and of its value.                       *)
LEMMA ChunkFound ==
  ASSUME NEW e \in Times, NEW chunk, ChunkTid(e, chunk) # NoTid
  PROVE  LET tid == ChunkTid(e, chunk) IN Promised(e, "toast", tid[1], tid[2], "chunk", chunk)
  <1> DEFINE toast == HeapAt[e]["toast"]
             places == UNION {{<<b, toast[b][i].lp>> : i \in DOMAIN toast[b]} : b \in DOMAIN toast}
             at == {tid \in places : TupleAt(e, "toast", tid).chunk = chunk}
             tid == ChunkTid(e, chunk)
  <1>1. tid = IF at = {} THEN NoTid ELSE CHOOSE x \in at : TRUE
    BY DEF ChunkTid
  <1>2. tid \in at
    BY <1>1
  <1> HIDE DEF tid
  <1>3. PICK b \in DOMAIN toast : \E i \in DOMAIN toast[b] : tid = <<b, toast[b][i].lp>>
    BY <1>2
  <1>4. PICK i \in DOMAIN toast[b] : tid = <<b, toast[b][i].lp>>
    BY <1>3
  <1>5. TupleAt(e, "toast", tid).chunk = chunk
    BY <1>2
  <1>6. tid[1] = b /\ tid[2] = toast[b][i].lp /\ <<tid[1], tid[2]>> = tid
    BY <1>4
  <1>7. Promised(e, "toast", tid[1], tid[2], "chunk", chunk)
    <2>1. tid[1] \in DOMAIN HeapAt[e]["toast"]
      BY <1>6
    <2>2. \E k \in DOMAIN HeapAt[e]["toast"][tid[1]] : HeapAt[e]["toast"][tid[1]][k].lp = tid[2]
      BY <1>6
    <2>3. TupleAt(e, "toast", <<tid[1], tid[2]>>).chunk = chunk
      BY <1>5, <1>6
    <2>4. QED
      BY <2>1, <2>2, <2>3 DEF Promised
  <1>8. QED
    BY <1>7 DEF tid

LEMMA OnToastTargetResolvedKeeps ==
  ASSUME DescentInv, NEW load \in asked, NEW e \in Readings(load), OnToastTargetResolved(load, e)
  PROVE  DescentInv' /\ OnTarget
  <1> DEFINE i == FindLevel("heapPages")
             chunk == load.lp
             tid == ChunkTid(e, chunk)
             t == Awaiting("toast", tid[1], tid[2], "chunk", chunk, e)
             less == asked \ {load}
             afterwards == With(less, LoadOf(stack[i]))
  <1>1. /\ i # 0 /\ e # 0 /\ epoch' = epoch
        /\ IF tid = NoTid THEN stack' = stack ELSE stack' = Append(stack, t)
        /\ asked' = IF tid = NoTid THEN afterwards ELSE With(afterwards, LoadOf(t))
    BY DEF OnToastTargetResolved, KeepDescent, Failed, Awaiting
  <1>2. e \in Times /\ epoch \in Times
    BY <1>1, ReadingIs
  <1>3. ScreenSound(stack[i], epoch)
    BY <1>1, LandsOn
  <1>4. \A l \in afterwards : RequestSound(l, epoch)
    <2>1. \A l \in less : RequestSound(l, epoch)
      BY DEF DescentInv
    <2>2. RequestSound(LoadOf(stack[i]), epoch)
      BY <1>2, <1>3, LoadTypes
    <2> HIDE DEF less
    <2>3. QED
      BY <2>1, <2>2, WithSound
  <1> HIDE DEF afterwards, chunk
  <1>5. CASE tid = NoTid
    <2>1. StackGoes
      BY <1>1, <1>5, StackRests
    <2>2. AsksSound
      BY <1>1, <1>4, <1>5 DEF AsksSound
    <2>3. QED
      BY <1>1, <2>1, <2>2, StepKeeps
  <1>6. CASE tid # NoTid
    <2>1. Promised(e, "toast", tid[1], tid[2], "chunk", chunk)
      BY <1>2, <1>6, ChunkFound
    <2> HIDE DEF tid
    <2>2. ScreenSound(t, epoch) /\ t.level = "heapTuples"
      BY <1>2, <2>1, AwaitingSound
    <2> HIDE DEF t
    <2>3. Linked(TopScreen, t)
      BY <2>2 DEF Linked
    <2>4. StackGoes
      BY <1>1, <1>6, <2>2, <2>3, PushGoes
    <2>5. RequestSound(LoadOf(t), epoch)
      BY <1>2, <2>2, LoadTypes
    <2>6. AsksSound
      BY <1>1, <1>4, <1>6, <2>5, WithSound DEF AsksSound
    <2>7. QED
      BY <1>1, <2>4, <2>6, StepKeeps
  <1>7. QED
    BY <1>5, <1>6

-----------------------------------------------------------------------------
(* The tuples of a page, each a row, and the one a screen was opened for.  *)
LEMMA HeapRowsAre ==
  ASSUME NEW s, s.level = "heapTuples", s.read \in Times, s.rel \in {"table", "toast"}, s.blk \in DOMAIN HeapAt[s.read][s.rel]
  PROVE  /\ HeapRows(s) = HeapAt[s.read][s.rel][s.blk] /\ HeapRows(s) \in Seq(Tuples)
         /\ Len(Rows(s)) \in Nat /\ DOMAIN Rows(s) = 1..Len(Rows(s))
         /\ \A at \in 1..Len(HeapRows(s)) : \E m \in 1..Len(Rows(s)) : Rows(s)[m] = <<HeapRows(s)[at].lp, 0>>
  <1> DEFINE tuples == HeapRows(s)
             lps == [i \in DOMAIN tuples |-> <<tuples[i].lp, 0>>]
  <1>1. tuples = HeapAt[s.read][s.rel][s.blk]
    BY DEF HeapRows, Times
  <1>2. tuples \in Seq(Tuples)
    <2>1. HeapAt[s.read] \in Heaps
      BY TreeTypes
    <2>2. HeapAt[s.read][s.rel] \in Seq(Seq(Tuples))
      BY <2>1 DEF Heaps
    <2>3. QED
      BY <1>1, <2>2
  <1>3. Rows(s) = IF s.desc THEN Reverse(lps) ELSE lps
    BY DEF Rows
  <1> HIDE DEF tuples
  <1>4. DOMAIN tuples = 1..Len(tuples) /\ Len(tuples) \in Nat
    BY <1>2
  <1>5. Len(lps) = Len(tuples) /\ DOMAIN lps = 1..Len(tuples) /\ \A at \in 1..Len(tuples) : lps[at] = <<tuples[at].lp, 0>>
    BY <1>4
  <1> HIDE DEF lps
  <1>6. CASE ~s.desc
    BY <1>1, <1>2, <1>3, <1>4, <1>5, <1>6 DEF tuples
  <1>7. CASE s.desc
    <2> DEFINE n == Len(tuples)
               back == Reverse(lps)
    <2>1. Len(back) = n /\ DOMAIN back = 1..n /\ n \in Nat /\ \A m \in 1..n : back[m] = lps[n - m + 1]
      BY <1>4, <1>5 DEF Reverse
    <2> HIDE DEF back, n
    <2>2. \A at \in 1..n : \E m \in 1..n : back[m] = lps[at]
      <3> TAKE at \in 1..n
      <3>1. n - at + 1 \in 1..n /\ n - (n - at + 1) + 1 = at
        BY <2>1
      <3>2. QED
        BY <2>1, <3>1
    <2>3. Rows(s) = back
      BY <1>3, <1>7 DEF back
    <2>4. \A at \in 1..n : lps[at] = <<tuples[at].lp, 0>>
      BY <1>5 DEF n
    <2>5. \A at \in 1..n : \E m \in 1..Len(Rows(s)) : Rows(s)[m] = <<tuples[at].lp, 0>>
      <3> TAKE at \in 1..n
      <3>1. PICK m \in 1..n : back[m] = lps[at]
        BY <2>2
      <3>2. m \in 1..Len(Rows(s)) /\ Rows(s)[m] = <<tuples[at].lp, 0>>
        BY <2>1, <2>3, <2>4, <3>1
      <3>3. QED
        BY <3>2
    <2>7. Len(Rows(s)) \in Nat /\ DOMAIN Rows(s) = 1..Len(Rows(s))
      BY <2>1, <2>3
    <2>6. QED
      BY <1>1, <1>2, <2>5, <2>7 DEF n, tuples
  <1>8. QED
    BY <1>6, <1>7

LEMMA RowsOfHeap ==
  ASSUME NEW s, NEW t, s.level = "heapTuples", t.level = "heapTuples", t.read = s.read, t.rel = s.rel, t.blk = s.blk, t.desc = s.desc
  PROVE  Rows(t) = Rows(s) /\ HeapRows(t) = HeapRows(s)
  <1>1. HeapRows(t) = HeapRows(s)
    BY DEF HeapRows
  <1>2. QED
    BY <1>1 DEF Rows

LEMMA PutOnFinds ==
  ASSUME NEW s, IsScreen(s), s.level = "heapTuples", s.read \in Times, s.rel \in {"table", "toast"},
         s.blk \in DOMAIN HeapAt[s.read][s.rel], NEW at \in 1..Len(HeapRows(s)), NEW lp, HeapRows(s)[at].lp = lp
  PROVE  HasRow(PutOn(s, <<lp, 0>>)) /\ RowAt(PutOn(s, <<lp, 0>>)) = <<lp, 0>>
  <1> DEFINE slot == <<lp, 0>>
             to == SelectInSeq(Rows(s), LAMBDA r : r = slot)
             t == PutOn(s, slot)
  <1>1. /\ Len(Rows(s)) \in Nat /\ DOMAIN Rows(s) = 1..Len(Rows(s))
        /\ \E m \in 1..Len(Rows(s)) : Rows(s)[m] = slot
    BY HeapRowsAre
  <1>2. to # 0 /\ to \in 1..Len(Rows(s)) /\ Rows(s)[to] = slot
    BY <1>1, FoundRow
  <1>3. t = [s EXCEPT !.cursor = to]
    BY <1>2 DEF PutOn
  <1> HIDE DEF to, t, slot
  <1>4. Still(s, t) /\ t.cursor = to
    BY <1>3, CursorSet
  <1>5. t.level = s.level /\ t.read = s.read /\ t.rel = s.rel /\ t.blk = s.blk /\ t.desc = s.desc
    BY <1>4 DEF Still, ScreenFields
  <1>6. Rows(t) = Rows(s)
    BY <1>5, RowsOfHeap
  <1>7. HasRow(t) /\ RowAt(t) = slot
    BY <1>1, <1>2, <1>4, <1>6 DEF HasRow, RowAt
  <1>8. QED
    BY <1>7 DEF t, slot

LEMMA TupleRowIs ==
  ASSUME NEW t, t.level = "heapTuples", t.read \in Times, t.rel \in {"table", "toast"},
         t.blk \in DOMAIN HeapAt[t.read][t.rel], NEW at \in 1..Len(HeapRows(t)), NEW lp, HeapRows(t)[at].lp = lp,
         RowAt(t) = <<lp, 0>>
  PROVE  TupleRow(t) = TupleAt(t.read, t.rel, <<t.blk, lp>>)
  <1> DEFINE tuples == HeapRows(t)
             I == {i \in 1..Len(tuples) : tuples[i].lp = lp}
             of == IF I # {} THEN Min(I) ELSE 0
  <1>1. tuples = HeapAt[t.read][t.rel][t.blk] /\ Len(tuples) \in Nat
    BY HeapRowsAre
  <1>2. RowAt(t)[1] = lp
    OBVIOUS
  <1>3. TupleRow(t) = tuples[of]
    BY <1>2 DEF TupleRow, SelectInSeq
  <1>4. of # 0
    <2>1. at \in I
      OBVIOUS
    <2> HIDE DEF I
    <2>2. I \in SUBSET (1..Len(tuples))
      BY DEF I
    <2>3. QED
      BY <1>1, <2>1, <2>2, FirstOf
  <1>5. TupleAt(t.read, t.rel, <<t.blk, lp>>) = IF of = 0 THEN TupleAt(t.read, t.rel, <<t.blk, lp>>) ELSE tuples[of]
    BY <1>1 DEF TupleAt, SelectInSeq
  <1> HIDE DEF of
  <1>6. QED
    BY <1>3, <1>4, <1>5

(* The rows of a screen that was opened for one that is promised: at the   *)
(* time it is promised, the cursor goes to it.                             *)
LEMMA LandsThere ==
  ASSUME NEW s, IsScreen(s), s.level = "heapTuples", NEW lp, NEW kind, NEW what, Promised(s.read, s.rel, s.blk, lp, kind, what)
  PROVE  LET t == PutOn(s, <<lp, 0>>)
         IN  HasRow(t) /\ what = (IF kind = "key" THEN TupleRow(t).key ELSE TupleRow(t).chunk)
  <1> DEFINE t == PutOn(s, <<lp, 0>>)
  <1>1. /\ s.read \in Times /\ s.rel \in {"table", "toast"} /\ s.blk \in DOMAIN HeapAt[s.read][s.rel]
        /\ \E at \in DOMAIN HeapAt[s.read][s.rel][s.blk] : HeapAt[s.read][s.rel][s.blk][at].lp = lp
    BY DEF Promised
  <1>2. HeapRows(s) = HeapAt[s.read][s.rel][s.blk] /\ DOMAIN HeapRows(s) = 1..Len(HeapRows(s))
    BY <1>1, HeapRowsAre
  <1>3. PICK at \in 1..Len(HeapRows(s)) : HeapRows(s)[at].lp = lp
    BY <1>1, <1>2
  <1>4. HasRow(t) /\ RowAt(t) = <<lp, 0>>
    BY <1>1, <1>3, PutOnFinds
  <1>5. Still(s, t)
    BY PutOnStill
  <1> HIDE DEF t
  <1>6. t.level = s.level /\ t.read = s.read /\ t.rel = s.rel /\ t.blk = s.blk /\ t.desc = s.desc
    BY <1>5 DEF Still, ScreenFields
  <1>7. HeapRows(t) = HeapRows(s)
    BY <1>6, RowsOfHeap
  <1>8. TupleRow(t) = TupleAt(s.read, s.rel, <<s.blk, lp>>)
    BY <1>1, <1>3, <1>4, <1>6, <1>7, TupleRowIs
  <1>9. QED
    BY <1>4, <1>8 DEF Promised, t

LEMMA FocusedSound ==
  ASSUME NEW s, NEW now, ScreenSound(s, now), s.level = "heapTuples"
  PROVE  LET t == Focused(s)
         IN  /\ ScreenSound(t, now) /\ t.level = s.level /\ t.blk = s.blk /\ t.rel = s.rel
             /\ t.focusLP = 0 /\ t.want = s.want /\ t.read = s.read
             /\ s.focusLP # 0 /\ s.want # <<>> /\ s.want[3] = s.read =>
                  HasRow(t) /\ s.want[2] = (IF s.want[1] = "key" THEN TupleRow(t).key ELSE TupleRow(t).chunk)
  <1> DEFINE u == [s EXCEPT !.focusLP = 0]
             slot == <<s.focusLP, 0>>
             t == PutOn(u, slot)
  <1>1. Focused(s) = t
    BY DEF Focused
  <1>2. DOMAIN s = ScreenFields /\ ScreenSound(s, now)
    BY DEF ScreenSound, IsScreen
  <1>3. /\ DOMAIN u = ScreenFields /\ u.tupleAttrs = s.tupleAttrs /\ u.tupleAttrsLP = s.tupleAttrsLP
        /\ u.level = s.level /\ u.rel = s.rel /\ u.blk = s.blk /\ u.type = s.type /\ u.seek = s.seek
        /\ u.focusLP = 0 /\ u.want = s.want /\ u.read = s.read
    BY <1>2 DEF ScreenFields
  <1> HIDE DEF u
  <1>4. ScreenSound(u, now) /\ IsScreen(u)
    BY <1>2, <1>3 DEF ScreenSound, IsScreen, AttrsSound, WantSound, PageSound
  <1>5. s.focusLP # 0 /\ s.want # <<>> /\ s.want[3] = s.read =>
          HasRow(t) /\ s.want[2] = (IF s.want[1] = "key" THEN TupleRow(t).key ELSE TupleRow(t).chunk)
    <2> SUFFICES ASSUME s.focusLP # 0 /\ s.want # <<>> /\ s.want[3] = s.read
                 PROVE  HasRow(t) /\ s.want[2] = (IF s.want[1] = "key" THEN TupleRow(t).key ELSE TupleRow(t).chunk)
      OBVIOUS
    <2> DEFINE lp == s.focusLP
               kind == s.want[1]
               what == s.want[2]
    <2>1. Promised(u.read, u.rel, u.blk, lp, kind, what)
      BY <1>2, <1>3 DEF ScreenSound, WantSound
    <2>2. t = PutOn(u, <<lp, 0>>)
      OBVIOUS
    <2> HIDE DEF lp, kind, what, t
    <2>3. HasRow(t) /\ what = (IF kind = "key" THEN TupleRow(t).key ELSE TupleRow(t).chunk)
      BY <1>3, <1>4, <2>1, <2>2, LandsThere
    <2>4. QED
      BY <2>3 DEF what, kind
  <1> HIDE DEF slot
  <1>6. Still(u, t)
    BY <1>4, PutOnStill
  <1>7. Alike(u, t)
    BY <1>6, StillAlike
  <1>8. t.level = u.level /\ t.rel = u.rel /\ t.blk = u.blk /\ t.focusLP = u.focusLP /\ t.want = u.want /\ t.read = u.read
    BY <1>7 DEF Alike, Told
  <1>9. ScreenSound(t, now)
    BY <1>4, <1>7, AlikeSound
  <1> HIDE DEF t
  <1>10. QED
    BY <1>1, <1>3, <1>5, <1>8, <1>9

LEMMA OnHeapTuplesLoadedKeeps ==
  ASSUME DescentInv, NEW load \in asked, NEW e \in Readings(load), OnHeapTuplesLoaded(load, e)
  PROVE  DescentInv' /\ OnTarget
  <1> DEFINE i == FindLevel("heapTuples")
             s == stack[i]
             read == Settle(s, e)
             pick == IF read.pick = 0 /\ load.rel = "table" /\ e # Failed THEN 1 ELSE read.pick
             picked == [read EXCEPT !.pick = pick]
             clamped == ClampCursor(picked)
             t == Focused(clamped)
             lp == s.focusLP
             opens == OpensOn(lp, t)
             u == IF opens THEN ArmAttrs(t, lp) ELSE t
  <1>1. i # 0 /\ FillHeapTuples(i, load, t, lp, opens) /\ epoch' = epoch
    BY DEF OnHeapTuplesLoaded, Lands, FocusHeapTuples, Settled, KeepDescent
  <1>2. i \in 1..Len(stack) /\ s.level = "heapTuples" /\ ScreenSound(s, epoch)
    BY <1>1, LandsOn
  <1>3. e \in 0..epoch /\ epoch \in Times
    BY ReadingIs
  <1>4. IsStack(stack) /\ DOMAIN stack = 1..Len(stack)
    BY DEF DescentInv, IsStack
  <1> HIDE DEF i, s, opens
  <1>5. ScreenSound(read, epoch) /\ read.level = "heapTuples" /\ read.blk = s.blk /\ read.rel = s.rel /\ read.focusLP = s.focusLP
        /\ read.want = s.want /\ read.read = e
    BY <1>2, <1>3, SettleSound
  <1> HIDE DEF read, pick
  <1>6. Alike(read, picked)
    BY <1>5, SetAlike DEF ScreenSound
  <1> HIDE DEF picked
  <1>7. Alike(picked, clamped)
    BY <1>6, ClampStill, StillAlike DEF Alike
  <1> HIDE DEF clamped
  <1>8. Alike(read, clamped)
    BY <1>6, <1>7, AlikeTwice
  <1>9. ScreenSound(clamped, epoch) /\ clamped.level = "heapTuples" /\ clamped.blk = s.blk /\ clamped.focusLP = s.focusLP /\ clamped.want = s.want
        /\ clamped.read = e
    BY <1>5, <1>8, AlikeSound DEF Alike, Told
  <1>10. /\ ScreenSound(t, epoch) /\ t.level = "heapTuples" /\ t.blk = s.blk /\ t.focusLP = 0 /\ t.want = s.want /\ t.read = e
         /\ s.focusLP # 0 /\ s.want # <<>> /\ s.want[3] = e =>
              HasRow(t) /\ s.want[2] = (IF s.want[1] = "key" THEN TupleRow(t).key ELSE TupleRow(t).chunk)
    BY <1>9, FocusedSound
  <1> HIDE DEF t, lp
  <1>11. /\ ScreenSound(u, epoch) /\ u.level = "heapTuples" /\ u.blk = s.blk /\ u.focusLP = 0 /\ u.want = s.want /\ u.read = e
         /\ s.focusLP # 0 /\ s.want # <<>> /\ s.want[3] = e =>
              HasRow(u) /\ s.want[2] = (IF s.want[1] = "key" THEN TupleRow(u).key ELSE TupleRow(u).chunk)
    <2>1. CASE ~opens
      BY <1>10, <2>1
    <2>2. CASE opens
      <3> DEFINE v == ArmAttrs(t, lp)
      <3>1. /\ ScreenSound(v, epoch) /\ v.level = t.level /\ v.blk = t.blk /\ v.focusLP = t.focusLP
            /\ v.want = t.want /\ v.read = t.read /\ v.rel = t.rel /\ v.desc = t.desc /\ v.cursor = t.cursor
        BY <1>10, ArmSound
      <3>2. u = v
        BY <2>2
      <3> HIDE DEF u, v
      <3>3. Rows(v) = Rows(t) /\ HeapRows(v) = HeapRows(t)
        BY <1>10, <3>1, RowsOfHeap
      <3>4. RowAt(v) = RowAt(t) /\ (HasRow(v) <=> HasRow(t))
        BY <3>1, <3>3 DEF RowAt, HasRow
      <3>5. TupleRow(v) = TupleRow(t)
        BY <3>3, <3>4 DEF TupleRow
      <3>6. QED
        BY <1>10, <3>1, <3>2, <3>4, <3>5
    <2>3. QED
      BY <2>1, <2>2
  <1>12. stack' = [stack EXCEPT ![i] = u]
    BY <1>1 DEF FillHeapTuples
  <1> HIDE DEF u
  <1>13. /\ IsStack(stack') /\ StackSound(stack', epoch) /\ stack'[i] = u
         /\ \A j \in 1..Len(stack) : j # i => stack'[j] = stack[j]
    <2>1. StackSound(stack, epoch) /\ u.level = stack[i].level /\ u.blk = stack[i].blk /\ u.level # "indexTuples"
      BY <1>2, <1>11 DEF DescentInv, s
    <2>2. QED
      BY <1>2, <1>4, <1>11, <1>12, <2>1, SwapStack
  <1>14. OnTarget
    <2> SUFFICES ASSUME NEW j \in DOMAIN stack, j \in DOMAIN stack', Landed(stack[j], stack'[j])
                 PROVE  /\ HasRow(stack'[j])
                        /\ stack'[j].want[2] = (IF stack'[j].want[1] = "key" THEN TupleRow(stack'[j]).key ELSE TupleRow(stack'[j]).chunk)
      BY DEF OnTarget
    <2>1. j = i
      BY <1>4, <1>13 DEF Landed
    <2>2. Landed(s, u)
      BY <1>13, <2>1 DEF s
    <2>3. s.focusLP # 0 /\ s.want # <<>> /\ s.want[3] = e
      BY <1>11, <2>2 DEF Landed
    <2>4. HasRow(u) /\ u.want[2] = (IF u.want[1] = "key" THEN TupleRow(u).key ELSE TupleRow(u).chunk)
      BY <1>11, <2>3
    <2>5. QED
      BY <1>13, <2>1, <2>4
  <1>15. AsksSound
    <2>1. \A l \in asked \ {load} : RequestSound(l, epoch)
      BY DEF DescentInv
    <2>2. RequestSound(AttrsOf(t, lp), epoch)
      BY <1>3, <1>10, LoadTypes
    <2>3. asked' = IF opens THEN With(asked \ {load}, AttrsOf(t, lp)) ELSE asked \ {load}
      BY <1>1 DEF FillHeapTuples
    <2> DEFINE less == asked \ {load}
    <2> HIDE DEF less
    <2>4. \A l \in less : RequestSound(l, epoch)
      BY <2>1 DEF less
    <2>5. \A l \in With(less, AttrsOf(t, lp)) : RequestSound(l, epoch)
      BY <2>2, <2>4, WithSound
    <2>6. QED
      BY <2>3, <2>4, <2>5 DEF AsksSound, less
  <1>16. QED
    BY <1>1, <1>3, <1>13, <1>14, <1>15 DEF DescentInv, AsksSound

-----------------------------------------------------------------------------
(* The server changes under the walk: what was read stays read, and the    *)
(* pages that are there stay there.                                        *)
LEMMA ServerChangesKeeps ==
  ASSUME DescentInv, ServerChanges
  PROVE  DescentInv' /\ OnTarget
  <1>1. epoch = 1 /\ epoch' = 2 /\ stack' = stack /\ asked' = asked
    BY DEF ServerChanges
  <1>2. \A blk : Placed(blk, 1) => Placed(blk, 2)
    BY DEF Placed
  <1>3. \A s : ScreenSound(s, 1) => ScreenSound(s, 2)
    <2>1. \A s : PageSound(s, 1) => PageSound(s, 2)
      BY <1>2 DEF PageSound
    <2>2. QED
      BY <2>1 DEF ScreenSound
  <1>4. \A load : RequestSound(load, 1) => RequestSound(load, 2)
    BY DEF RequestSound
  <1>5. DescentInv'
    BY <1>1, <1>3, <1>4 DEF DescentInv, StackSound, Times
  <1>6. FocusKept
    BY <1>1 DEF FocusKept
  <1>7. QED
    BY <1>5, <1>6, FocusKeptLandsNone

LEMMA ArrivesKeeps ==
  ASSUME DescentInv, NEW load \in asked, Arrives(load)
  PROVE  DescentInv' /\ OnTarget
  <1>1. ASSUME NEW e \in Readings(load), OnPagesLoaded(load, e)
        PROVE  DescentInv' /\ OnTarget
    BY <1>1, OnPagesLoadedKeeps
  <1>2. ASSUME NEW e \in Readings(load), OnHeapTuplesLoaded(load, e)
        PROVE  DescentInv' /\ OnTarget
    BY <1>2, OnHeapTuplesLoadedKeeps
  <1>3. ASSUME NEW e \in Readings(load), OnTupleAttrsLoaded(load, e)
        PROVE  DescentInv' /\ OnTarget
    BY <1>3, OnTupleAttrsLoadedKeeps
  <1>4. ASSUME NEW e \in Readings(load), OnToastTargetResolved(load, e)
        PROVE  DescentInv' /\ OnTarget
    BY <1>4, OnToastTargetResolvedKeeps
  <1>5. ASSUME NEW e \in Readings(load), NEW type, OnIndexTuplesLoaded(load, e, type)
        PROVE  DescentInv' /\ OnTarget
    BY <1>5, OnIndexTuplesLoadedKeeps
  <1>6. OnToastValueLoaded(load) => DescentInv' /\ OnTarget
    BY OnToastValueLoadedKeeps
  <1>7. ToastTargetFails(load) => DescentInv' /\ OnTarget
    BY ToastTargetFailsKeeps
  <1>8. Dropped(load) => DescentInv' /\ OnTarget
    BY DroppedKeeps
  <1>9. QED
    BY <1>1, <1>2, <1>3, <1>4, <1>5, <1>6, <1>7, <1>8 DEF Arrives

LEMMA DescentNextKeeps ==
  ASSUME DescentInv, DescentNext
  PROVE  DescentInv' /\ OnTarget
  <1>1. CASE ServerChanges
    BY <1>1, ServerChangesKeeps
  <1>2. CASE DrillIndexPage
    BY <1>2, DrillIndexPageKeeps
  <1>3. CASE DrillHeapPage
    BY <1>3, DrillHeapPageKeeps
  <1>4. CASE TogglePosting
    BY <1>4, TogglePostingKeeps
  <1>5. CASE DescendDownlink
    BY <1>5, DescendDownlinkKeeps
  <1>6. CASE DrillIndexLeafEntry
    BY <1>6, DrillIndexLeafEntryKeeps
  <1>7. CASE FollowRedirect
    BY <1>7, FollowRedirectKeeps
  <1>8. CASE OpenTupleLayout
    <2> DEFINE lp == RowAt(TopScreen)[1]
    <2>1. ChangesTop(ArmAttrs(TopScreen, lp)) /\ Asks(AttrsOf(TopScreen, lp)) /\ epoch' = epoch
      BY <1>8 DEF OpenTupleLayout, EnterOn, KeepDescent
    <2> HIDE DEF lp
    <2>2. QED
      BY <2>1, OpenTupleLayoutKeeps
  <1>9. CASE \E q \in SeekKeys : SeekKey(q)
    BY <1>9, SeekKeyKeeps
  <1>10. CASE \E by \in {-1, 1} : MoveCursor(by)
    BY <1>10, MoveCursorKeeps
  <1>11. CASE ReverseRows
    BY <1>11, ReverseRowsKeeps
  <1>12. CASE Reload
    BY <1>12, ReloadKeeps
  <1>13. CASE ToggleColumn
    BY <1>13, ToggleColumnKeeps
  <1>14. CASE Describe
    BY <1>14, DescribeKeeps
  <1>15. CASE JumpToPageInspector
    BY <1>15, JumpKeeps
  <1>16. CASE GoBack
    BY <1>16, GoBackKeeps
  <1>17. CASE CloseTupleLayout
    BY <1>17, CloseTupleLayoutKeeps
  <1>18. CASE ReloadTupleAttrs
    <2> DEFINE lp == TopScreen.tupleAttrsLP
    <2>1. ChangesTop(ArmAttrs(TopScreen, lp)) /\ Asks(AttrsOf(TopScreen, lp)) /\ epoch' = epoch
      BY <1>18 DEF ReloadTupleAttrs, OnOverlay, KeepDescent
    <2> HIDE DEF lp
    <2>2. QED
      BY <2>1, OpenTupleLayoutKeeps
  <1>19. CASE OpenToastValue
    BY <1>19, OpenToastValueKeeps
  <1>20. CASE OpenToastChunkNav
    BY <1>20, OpenToastChunkNavKeeps
  <1>21. CASE \E load \in asked : Arrives(load)
    BY <1>21, ArrivesKeeps
  <1>22. QED
    BY <1>1, <1>2, <1>3, <1>4, <1>5, <1>6, <1>7, <1>8, <1>9, <1>10, <1>11, <1>12, <1>13, <1>14, <1>15, <1>16, <1>17, <1>18,
       <1>19, <1>20, <1>21 DEF DescentNext

LEMMA DescentInitHolds == DescentInit => DescentInv
  <1> SUFFICES ASSUME NEW session \in DescentSessions, epoch = 1, asked = {},
                      stack = <<[Screen(session.level, session.rel, 0) EXCEPT !.read = 1, !.loading = FALSE, !.loaded = TRUE]>>
               PROVE  DescentInv
    BY DEF DescentInit
  <1> DEFINE new == Screen(session.level, session.rel, 0)
             s == [new EXCEPT !.read = 1, !.loading = FALSE, !.loaded = TRUE]
  <1>1. session.level \in {"indexPages", "heapPages"}
    BY DescentAssumption
  <1>2. JustOpened(new, session.level, session.rel, 0)
    BY NewScreen
  <1>3. stack = <<s>>
    OBVIOUS
  <1> HIDE DEF new
  <1>4. /\ IsScreen(s) /\ s.level = session.level /\ s.read = 1 /\ s.seek = NoKey /\ s.tupleAttrs = <<>> /\ s.focusLP = 0
    BY <1>2 DEF JustOpened, IsScreen, ScreenFields
  <1> HIDE DEF s
  <1>5. ScreenSound(s, 1)
    BY <1>1, <1>4 DEF ScreenSound, AttrsSound, WantSound, PageSound
  <1>6. IsStack(stack) /\ Len(stack) = 1 /\ stack[1] = s
    <2>1. stack \in Seq({s}) /\ stack # <<>> /\ Len(stack) = 1 /\ stack[1] = s
      BY <1>3
    <2>2. QED
      BY <2>1 DEF IsStack
  <1>7. StackSound(stack, 1)
    BY <1>5, <1>6 DEF StackSound
  <1>8. QED
    BY <1>6, <1>7 DEF DescentInv, Times

(* The walk is one of the screens a behaviour may show; another has none.  *)
WalkInv == \/ inspector = "descent" /\ DescentInv
           \/ inspector # "descent" /\ stack = <<>>

LEMMA WalkInitHolds == InspectInit => WalkInv
  <1>1. NoDescent => stack = <<>>
    BY DEF NoDescent
  <1>2. QED
    BY <1>1, DescentInitHolds DEF InspectInit, WalkInv, NoPages

LEMMA WalkNextKeeps ==
  ASSUME WalkInv, [InspectNext]_inspectVars
  PROVE  WalkInv' /\ (OnTarget \/ UNCHANGED descentVars)
  <1>1. UNCHANGED inspector
    BY DEF InspectNext, inspectVars
  <1>2. CASE inspector = "descent" /\ DescentNext
    <2>1. DescentInv
      BY <1>2 DEF WalkInv
    <2>2. DescentInv' /\ OnTarget
      BY <1>2, <2>1, DescentNextKeeps
    <2>3. QED
      BY <1>1, <1>2, <2>2 DEF WalkInv
  <1>3. CASE UNCHANGED descentVars
    <2>1. DescentInv => DescentInv'
      BY <1>3 DEF descentVars, DescentInv
    <2>2. UNCHANGED stack
      BY <1>3 DEF descentVars
    <2>3. QED
      BY <1>1, <1>3, <2>1, <2>2 DEF WalkInv
  <1>4. QED
    BY <1>2, <1>3 DEF InspectNext, inspectVars, pageVars

LEMMA WalkIsSound == WalkInv => WalkSound
  <1>1. CASE stack = <<>>
    BY <1>1 DEF WalkSound, AttrsBelong, DescentCovers
  <1>2. CASE DescentInv
    <2>1. AttrsBelong
      BY <1>2 DEF DescentInv, IsStack, StackSound, ScreenSound, AttrsSound, AttrsBelong
    <2>2. QED
      BY <1>2, <2>1, WalkCovers DEF WalkSound
  <1>3. QED
    BY <1>1, <1>2 DEF WalkInv

(* descendDownlink, seekTargets, onTupleAttrsLoaded: "Walking root -> leaf *)
(* is Enter, Enter, Enter", for any B-tree whose pages split under it: the *)
(* entry a seek is on leads to the page that covers the key, and the bytes *)
(* of the overlay are those of the tuple it is keyed to.                   *)
THEOREM WalkAlwaysSound == InspectSpec => []WalkSound
  <1>1. InspectInit => WalkInv
    BY WalkInitHolds
  <1>2. WalkInv /\ [InspectNext]_inspectVars => WalkInv'
    BY WalkNextKeeps
  <1>3. WalkInv => WalkSound
    BY WalkIsSound
  <1>4. QED
    BY <1>1, <1>2, <1>3, PTL DEF InspectSpec

(* drillIndexLeafEntry, onToastTargetResolved, focusHeapTuple: the answer  *)
(* that lands a screen opened for a row puts the cursor on the row with    *)
(* the key of the entry, through a HOT chain where there is one, or on a   *)
(* chunk of the value, unless the page has changed since.                  *)
THEOREM AlwaysLandsOnTarget == InspectSpec => LandsOnTarget
  <1>1. InspectInit => WalkInv
    BY WalkInitHolds
  <1>2. WalkInv /\ [InspectNext]_inspectVars => WalkInv'
    BY WalkNextKeeps
  <1>3. WalkInv /\ [InspectNext]_inspectVars => [OnTarget]_descentVars
    BY WalkNextKeeps
  <1>4. QED
    BY <1>1, <1>2, <1>3, PTL DEF InspectSpec, LandsOnTarget, OnTarget
=============================================================================
