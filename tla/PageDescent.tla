------------------------------ MODULE PageDescent ------------------------------
(***************************************************************************)
(* The page inspector's walk: from an index page down its downlinks to a   *)
(* leaf, from a leaf entry to the heap tuple it names and the overlay over *)
(* its bytes, from a TOAST pointer to the chunks of its value.             *)
(*                                                                         *)
(* Every screen asks for what it shows and is drawn when the answer lands, *)
(* which it does on the topmost screen of its level or not at all.  The    *)
(* server is read somewhere between the asking and the answer, and changes *)
(* once.                                                                   *)
(***************************************************************************)
EXTENDS Integers, Sequences, SequencesExt, FiniteSetsExt

CONSTANTS
  IndexAt,       \* the pages of a B-tree before and after the change
  HeapAt,        \* the pages of its table and of the TOAST relation, likewise
  NoKey,         \* an entry without a key, a screen without a seek
  SeekKeys,      \* bound: what is typed into the seek
  DescentSessions  \* bound: where the walk starts, the keys used in it, the
                   \* screens above each other and the answers on their way

VARIABLES
  stack,         \* Model.stack from the list of pages up
  asked,         \* the loads in flight
  showTupleLayout,
  epoch,         \* which of the two the server holds
  descent        \* the session

descentVars == <<stack, asked, showTupleLayout, epoch, descent>>

-----------------------------------------------------------------------------
(* A screen keeps when its rows were read, and reads them there.           *)
Screen(level, rel, blk) ==
  [level |-> level, rel |-> rel, blk |-> blk, type |-> "", seek |-> NoKey, focusLP |-> 0, want |-> <<>>, pick |-> 0,
   read |-> 0, desc |-> FALSE, cursor |-> 1, postingOpen |-> {}, loading |-> TRUE, loaded |-> FALSE,
   tupleAttrsLP |-> 0, tupleAttrs |-> <<>>, toastVal |-> <<>>]

IndexItems(s) == IF s.read = 0 THEN <<>> ELSE IndexAt[s.read][s.blk].items
HeapRows(s)   == IF s.read = 0 THEN <<>> ELSE HeapAt[s.read][s.rel][s.blk]

LpNormal(t) == t.flag = "normal"
TupleAt(e, rel, tid) ==
  LET page == HeapAt[e][rel][tid[1]]
      at == SelectInSeq(page, LAMBDA t : t.lp = tid[2])
  IN  IF at = 0 THEN [lp |-> 0, flag |-> "unused", to |-> 0, key |-> NoKey, chunk |-> 0, pointer |-> 0] ELSE page[at]

(* What Enter on a leaf entry opens: the row its ctid names, or the one a  *)
(* HOT chain leads to from there.                                          *)
NoTid == <<>>
LiveTid(e, tid) ==
  LET t == TupleAt(e, "table", tid)
      hot == <<tid[1], t.to>>
  IN  CASE LpNormal(t) -> tid
        [] t.flag = "redirect" /\ LpNormal(TupleAt(e, "table", hot)) -> hot
        [] OTHER -> NoTid
Decodes(s) == s.type \in {"l", "r"}
Decoded(s, item) == Decodes(s) /\ item.tid # NoTid /\ LpNormal(TupleAt(s.read, "table", item.tid))
(* Mutant: the ctid the entry stores, whatever it is now.                  *)
CtidAsStored(s, tid) ==
  IF Decodes(s) /\ tid # NoTid /\ LiveTid(s.read, tid) # NoTid THEN tid ELSE NoTid
OpensAt(s, tid) == IF Decodes(s) /\ tid # NoTid THEN LiveTid(s.read, tid) ELSE NoTid

(* A posting list packs several heap rows under one key; unfolded, they    *)
(* follow it whatever way the list is sorted.                              *)
Members(s, item) ==
  IF item.off \in s.postingOpen THEN [i \in DOMAIN item.posting |-> <<item.off, i>>] ELSE <<>>
Rows(s) ==
  CASE s.level = "indexTuples" ->
         FlattenSeq([i \in DOMAIN IndexItems(s) |->
                       LET item == (IF s.desc THEN Reverse(IndexItems(s)) ELSE IndexItems(s))[i]
                       IN  <<<<item.off, 0>>>> \o Members(s, item)])
    [] s.level = "heapTuples" ->
         LET lps == [i \in DOMAIN HeapRows(s) |-> <<HeapRows(s)[i].lp, 0>>]
         IN  IF s.desc THEN Reverse(lps) ELSE lps
    [] s.level = "indexPages" ->
         IF s.read = 0 THEN <<>> ELSE [i \in 1..Cardinality(DOMAIN IndexAt[s.read]) |-> <<i, 0>>]
    [] s.level = "heapPages" ->
         IF s.read = 0 THEN <<>>
         ELSE [i \in 1..Cardinality(DOMAIN HeapAt[s.read][s.rel]) |-> <<i, 0>>]
    [] s.level = "describe" -> <<>>

HasRow(s) == s.cursor \in DOMAIN Rows(s)
RowAt(s) == Rows(s)[s.cursor]
PutOn(s, row) ==
  LET at == SelectInSeq(Rows(s), LAMBDA r : r = row) IN IF at = 0 THEN s ELSE [s EXCEPT !.cursor = at]
ClampCursor(s) == IF Rows(s) = <<>> THEN [s EXCEPT !.cursor = 1]
                  ELSE [s EXCEPT !.cursor = IF @ > Len(Rows(s)) THEN Len(Rows(s)) ELSE @]

-----------------------------------------------------------------------------
(* Seek: the entry whose range covers a key, found in the order of the     *)
(* page whatever the list is sorted by.                                    *)
IsPivot(s, item) ==
  /\ item.posting = <<>>
  /\ \/ s.type = "i" /\ ~Decoded(s, item)
     \/ s.type \in {"l", "r"} /\ item.off = 1 /\ ~Decoded(s, item)

(* All but the high key, which is the first if there is one.               *)
SeekTargets(s) ==
  LET items == IndexItems(s)
  IN  IF items # <<>> /\ items[1].key # NoKey /\ IsPivot(s, items[1]) THEN Tail(items) ELSE items

(* Mutant: an entry that equals the key is past it.                        *)
AtOrPast(item, q) == item.key # NoKey /\ item.key >= q
PastKey(item, q) == item.key # NoKey /\ item.key > q

SeekTo(s, q) ==
  LET targets == SeekTargets(s)
      past == SelectInSeq(targets, LAMBDA t : PastKey(t, q))
      chosen == IF past = 0 THEN Len(targets) ELSE IF past = 1 THEN 1 ELSE past - 1
  IN  IF \A i \in DOMAIN targets : targets[i].key = NoKey THEN s
      ELSE PutOn(s, <<targets[chosen].off, 0>>)

InternalHighKey(s) ==
  /\ s.type = "i" /\ IndexItems(s)[1].key # NoKey
  /\ \E i \in 2..Len(IndexItems(s)) : IndexItems(s)[i].key = NoKey

DownlinkChildBlock(s, item) ==
  IF item.child > 0 /\ item.child # s.blk /\ item.child \in DOMAIN IndexAt[s.read] THEN item.child ELSE 0

-----------------------------------------------------------------------------
(* The stack, and the loads of its screens.                                *)
TopScreen == stack[Len(stack)]
KeepDescent == UNCHANGED <<epoch, descent>>
CanPush == Len(stack) < descent.depth
OnKey(key) == key \in descent.keys /\ KeepDescent

LoadOf(s) ==
  [kind |-> s.level, rel |-> s.rel, blk |-> s.blk, type |-> s.type, lp |-> 0, pick |-> s.pick, since |-> epoch, nth |-> 1]
AttrsOf(s, lp) == [LoadOf(s) EXCEPT !.kind = "attrs", !.lp = lp]
ValueOf(s, chunk) == [LoadOf(s) EXCEPT !.kind = "value", !.lp = chunk]
ToastOf(s, chunk) == [LoadOf(s) EXCEPT !.kind = "resolve", !.rel = "toast", !.lp = chunk]

(* Two loads alike are two answers.                                        *)
With(loads, load) ==
  loads \cup {[load EXCEPT !.nth = CHOOSE n \in 1..(Cardinality(loads) + 1) : [load EXCEPT !.nth = n] \notin loads]}
Asks(load) == Cardinality(asked) < descent.flights /\ asked' = With(asked, load)
LoadsTop(s) == stack' = [stack EXCEPT ![Len(stack)] = [s EXCEPT !.loading = TRUE]]
ChangesTop(s) == stack' = [stack EXCEPT ![Len(stack)] = s]
Push(s) == CanPush /\ stack' = Append(stack, s) /\ Asks(LoadOf(s))

(* Where a level's answer goes: the topmost screen of that level.          *)
FindLevel(level) == SelectLastInSeq(stack, LAMBDA s : s.level = level)

DescentInit ==
  \E session \in DescentSessions :
    /\ descent = session /\ epoch = 1
    /\ stack = <<[Screen(session.level, session.rel, 0) EXCEPT !.read = 1, !.loading = FALSE, !.loaded = TRUE]>>
    /\ asked = {} /\ showTupleLayout = FALSE

ServerChanges == epoch = 1 /\ epoch' = 2 /\ UNCHANGED <<stack, asked, showTupleLayout, descent>>

-----------------------------------------------------------------------------
(* Enter.                                                                  *)
IndexTuples(s, blk, type) == [Screen("indexTuples", "index", blk) EXCEPT !.type = type]
HeapTuplesAt(tid, want) ==
  [Screen("heapTuples", "table", tid[1]) EXCEPT !.focusLP = tid[2], !.want = want]

OnLevel(level) == TopScreen.level = level /\ ~(showTupleLayout /\ level = "heapTuples")
EnterOn(level) == OnLevel(level) /\ HasRow(TopScreen) /\ KeepDescent

IndexTuplePageType(page) == IF page.type = "r" /\ page.level > 0 THEN "i" ELSE page.type

DrillIndexPage ==
  LET blk == RowAt(TopScreen)[1]
  IN  /\ EnterOn("indexPages") /\ blk \in DOMAIN IndexAt[TopScreen.read]
      /\ Push(IndexTuples(TopScreen, blk, IndexTuplePageType(IndexAt[TopScreen.read][blk])))
      /\ UNCHANGED showTupleLayout

DrillHeapPage ==
  /\ EnterOn("heapPages")
  /\ Push(Screen("heapTuples", TopScreen.rel, RowAt(TopScreen)[1]))
  /\ UNCHANGED showTupleLayout

ItemAt(s) == IndexItems(s)[SelectInSeq(IndexItems(s), LAMBDA item : item.off = RowAt(s)[1])]
TidAt(s) == IF RowAt(s)[2] = 0 THEN ItemAt(s).tid ELSE ItemAt(s).posting[RowAt(s)[2]]

TogglePosting ==
  LET s == TopScreen
      t == [s EXCEPT !.postingOpen = IF ItemAt(s).off \in @ THEN @ \ {ItemAt(s).off} ELSE @ \cup {ItemAt(s).off}]
  IN  /\ EnterOn("indexTuples") /\ RowAt(s)[2] = 0 /\ ItemAt(s).posting # <<>>
      /\ ChangesTop(PutOn(t, RowAt(s)))
      /\ UNCHANGED <<asked, showTupleLayout>>

IsDownlink(s, item) == ~(item.off = 1 /\ InternalHighKey(s))

DescendDownlink ==
  LET s == TopScreen
      child == DownlinkChildBlock(s, ItemAt(s))
  IN  /\ EnterOn("indexTuples") /\ RowAt(s)[2] = 0 /\ ItemAt(s).posting = <<>>
      /\ s.type = "i" /\ IsDownlink(s, ItemAt(s)) /\ child # 0
      /\ Push([IndexTuples(s, child, "") EXCEPT !.seek = s.seek])
      /\ UNCHANGED showTupleLayout

DrillIndexLeafEntry ==
  LET s == TopScreen
      tid == OpensAt(s, TidAt(s))
  IN  /\ EnterOn("indexTuples") /\ ~(RowAt(s)[2] = 0 /\ (ItemAt(s).posting # <<>> \/ s.type = "i"))
      /\ tid # NoTid
      /\ Push(HeapTuplesAt(tid, <<"key", ItemAt(s).key, s.read>>))
      /\ UNCHANGED showTupleLayout

TupleRow(s) == HeapRows(s)[SelectInSeq(HeapRows(s), LAMBDA t : t.lp = RowAt(s)[1])]

FollowRedirect ==
  /\ EnterOn("heapTuples") /\ TupleRow(TopScreen).flag = "redirect"
  /\ ChangesTop(PutOn(TopScreen, <<TupleRow(TopScreen).to, 0>>))
  /\ UNCHANGED <<asked, showTupleLayout>>

ArmAttrs(s, lp) == [s EXCEPT !.tupleAttrsLP = lp, !.tupleAttrs = <<>>, !.toastVal = <<>>]

OpenTupleLayout ==
  LET lp == RowAt(TopScreen)[1]
  IN  /\ EnterOn("heapTuples") /\ LpNormal(TupleRow(TopScreen))
      /\ ChangesTop(ArmAttrs(TopScreen, lp)) /\ Asks(AttrsOf(TopScreen, lp))
      /\ showTupleLayout' = TRUE

-----------------------------------------------------------------------------
(* The other keys of the lists.                                            *)
SeekKey(q) ==
  /\ OnKey("seek") /\ OnLevel("indexTuples") /\ q # TopScreen.seek
  /\ ChangesTop(SeekTo([TopScreen EXCEPT !.seek = q], q))
  /\ UNCHANGED <<asked, showTupleLayout>>

MoveCursor(by) ==
  /\ OnKey("move") /\ OnLevel(TopScreen.level) /\ TopScreen.cursor + by \in DOMAIN Rows(TopScreen)
  /\ ChangesTop([TopScreen EXCEPT !.cursor = @ + by])
  /\ UNCHANGED <<asked, showTupleLayout>>

ReverseRows ==
  /\ OnKey("reverse") /\ OnLevel(TopScreen.level) /\ TopScreen.level \in {"indexTuples", "heapTuples"}
  /\ ChangesTop([TopScreen EXCEPT !.desc = ~@])
  /\ UNCHANGED <<asked, showTupleLayout>>

Reload ==
  /\ OnKey("reload") /\ OnLevel(TopScreen.level) /\ TopScreen.level # "describe"
  /\ LoadsTop(TopScreen) /\ Asks(LoadOf(TopScreen))
  /\ UNCHANGED showTupleLayout

(* A column ticked in the picker of the tuple list; 1 is the primary key,  *)
(* as the answer to 0 names it.                                            *)
ToggleColumn ==
  LET s == [TopScreen EXCEPT !.pick = 3 - @]
  IN  /\ OnKey("columns") /\ OnLevel("heapTuples") /\ TopScreen.rel = "table" /\ TopScreen.pick # 0
      /\ LoadsTop(s) /\ Asks(LoadOf(s))
      /\ UNCHANGED showTupleLayout

Describe ==
  /\ OnKey("describe") /\ OnLevel(TopScreen.level) /\ TopScreen.level \in {"indexTuples", "heapTuples", "heapPages"}
  /\ CanPush
  /\ stack' = Append(stack, [Screen("describe", TopScreen.rel, 0) EXCEPT !.loading = FALSE, !.loaded = TRUE])
  /\ UNCHANGED <<asked, showTupleLayout>>

JumpToPageInspector ==
  /\ OnKey("describe") /\ TopScreen.level = "describe" /\ TopScreen.rel # "index"
  /\ Push(Screen("heapPages", TopScreen.rel, 0))
  /\ UNCHANGED showTupleLayout

GoBack ==
  /\ Len(stack) > 1 /\ OnLevel(TopScreen.level) /\ stack' = Front(stack)
  /\ UNCHANGED <<asked, showTupleLayout>> /\ KeepDescent

-----------------------------------------------------------------------------
(* The overlay over a tuple's bytes takes every key while it is up.        *)
OnOverlay == TopScreen.level = "heapTuples" /\ showTupleLayout /\ KeepDescent
Closed(s) == [s EXCEPT !.tupleAttrsLP = 0, !.tupleAttrs = <<>>, !.toastVal = <<>>]

CloseTupleLayout ==
  /\ OnOverlay /\ ChangesTop(Closed(TopScreen)) /\ showTupleLayout' = FALSE /\ UNCHANGED asked

ReloadTupleAttrs ==
  /\ OnOverlay /\ "reload" \in descent.keys
  /\ ChangesTop(ArmAttrs(TopScreen, TopScreen.tupleAttrsLP)) /\ Asks(AttrsOf(TopScreen, TopScreen.tupleAttrsLP))
  /\ UNCHANGED showTupleLayout

(* The tuple the overlay is keyed to, if the rows still have it, and the   *)
(* columns it was split into.                                              *)
OverlayTuple ==
  LET at == SelectInSeq(HeapRows(TopScreen), LAMBDA t : t.lp = TopScreen.tupleAttrsLP)
  IN  IF at = 0 \/ TopScreen.tupleAttrs = <<>> THEN TupleAt(1, "table", <<1, 0>>) ELSE HeapRows(TopScreen)[at]

OpenToastValue ==
  LET chunk == OverlayTuple.chunk
  IN  /\ OnOverlay /\ TopScreen.rel = "toast" /\ chunk # 0
      /\ TopScreen.toastVal # <<>> => TopScreen.toastVal[1] # chunk
      /\ ChangesTop([TopScreen EXCEPT !.toastVal = <<chunk, FALSE>>]) /\ Asks(ValueOf(TopScreen, chunk))
      /\ UNCHANGED showTupleLayout

OpenToastChunkNav ==
  /\ OnOverlay /\ CanPush /\ OverlayTuple.pointer # 0
  /\ stack' = Append([stack EXCEPT ![Len(stack)] = Closed(TopScreen)], Screen("heapPages", "toast", 0))
  /\ Asks(ToastOf(TopScreen, OverlayTuple.pointer)) /\ showTupleLayout' = FALSE

-----------------------------------------------------------------------------
(* Answers.  The server is read at some epoch since the load was asked, or *)
(* cannot be, which leaves no rows.                                        *)
Answer(kind) == {load \in asked : load.kind = kind}
Failed == 0
Readings(load) == load.since..epoch \cup (IF "fails" \in descent.keys THEN {Failed} ELSE {})

(* An answer that finds no screen of its own is dropped.                   *)
Lands(i, load) == i # 0 /\ stack[i].rel = load.rel /\ stack[i].blk = load.blk
Settle(s, e) == [s EXCEPT !.loading = FALSE, !.loaded = TRUE, !.read = e]
Drop(load) == asked' = asked \ {load} /\ UNCHANGED <<stack, showTupleLayout>> /\ KeepDescent

OnPagesLoaded(load, e) ==
  LET i == FindLevel(load.kind)
  IN  /\ load.kind \in {"indexPages", "heapPages"} /\ Lands(i, load)
      /\ stack' = [stack EXCEPT ![i] = ClampCursor(Settle(@, e))]
      /\ asked' = asked \ {load} /\ UNCHANGED showTupleLayout /\ KeepDescent

(* The type of a page reached by a downlink is probed, unless that fails.  *)
ProbedTypes(load, e) ==
  IF load.type # "" \/ e = Failed THEN {load.type} ELSE {"", IndexAt[e][load.blk].type}

OnSeek(s) == IF s.seek = NoKey THEN s ELSE SeekTo(s, s.seek)
OnIndexTuplesLoaded(load, e, type) ==
  LET i == FindLevel("indexTuples")
  IN  /\ load.kind = "indexTuples" /\ Lands(i, load) /\ type \in ProbedTypes(load, e)
      /\ stack' = [stack EXCEPT ![i] = OnSeek(ClampCursor([Settle(@, e) EXCEPT !.type = type]))]
      /\ asked' = asked \ {load} /\ UNCHANGED showTupleLayout /\ KeepDescent

(* The tuples of a page, and the line pointer they were opened for.        *)
Settled(s, load, e) == ClampCursor([Settle(s, e) EXCEPT !.pick = IF @ = 0 /\ load.rel = "table" /\ e # Failed THEN 1 ELSE @])
Focused(s) == PutOn([s EXCEPT !.focusLP = 0], <<s.focusLP, 0>>)
OpensOn(lp, t) == lp # 0 /\ HasRow(t) /\ RowAt(t)[1] = lp /\ LpNormal(TupleRow(t))
FillHeapTuples(i, load, t, lp, opens) ==
  /\ stack' = [stack EXCEPT ![i] = IF opens THEN ArmAttrs(t, lp) ELSE t]
  /\ asked' = IF opens THEN With(asked \ {load}, AttrsOf(t, lp)) ELSE asked \ {load}
  /\ showTupleLayout' = (showTupleLayout \/ opens)
FocusHeapTuples(i, load, t, lp) == FillHeapTuples(i, load, t, lp, OpensOn(lp, t))
OnHeapTuplesLoaded(load, e) ==
  LET i == FindLevel("heapTuples")
  IN  /\ load.kind = "heapTuples" /\ Lands(i, load) /\ stack[i].pick = load.pick
      /\ FocusHeapTuples(i, load, Focused(Settled(stack[i], load, e)), stack[i].focusLP)
      /\ KeepDescent

(* Mutant: the split of any tuple of the page.                             *)
SamePage(s, load) == TRUE
SameTuple(s, load) == s.tupleAttrsLP = load.lp

OnTupleAttrsLoaded(load, e) ==
  LET i == FindLevel("heapTuples")
  IN  /\ load.kind = "attrs" /\ Lands(i, load) /\ SameTuple(stack[i], load)
      /\ stack' = [stack EXCEPT ![i].tupleAttrs = <<load.lp, e>>]
      /\ asked' = asked \ {load} /\ UNCHANGED showTupleLayout /\ KeepDescent

OnToastValueLoaded(load) ==
  LET i == FindLevel("heapTuples")
  IN  /\ load.kind = "value" /\ i # 0 /\ stack[i].rel = load.rel
      /\ stack[i].toastVal # <<>> /\ stack[i].toastVal[1] = load.lp
      /\ stack' = [stack EXCEPT ![i].toastVal = <<load.lp, TRUE>>]
      /\ asked' = asked \ {load} /\ UNCHANGED showTupleLayout /\ KeepDescent

ChunkTid(e, chunk) ==
  LET at == {tid \in UNION {{<<b, HeapAt[e]["toast"][b][i].lp>> : i \in DOMAIN HeapAt[e]["toast"][b]} :
                              b \in DOMAIN HeapAt[e]["toast"]} : TupleAt(e, "toast", tid).chunk = chunk}
  IN  IF at = {} THEN NoTid ELSE CHOOSE tid \in at : TRUE

(* The chunk's page is pushed on what is on top by then.                   *)
OnToastTargetResolved(load, e) ==
  LET i == FindLevel("heapPages")
      tid == ChunkTid(e, load.lp)
      next == [Screen("heapTuples", "toast", tid[1]) EXCEPT !.focusLP = tid[2], !.want = <<"chunk", load.lp, e>>]
      pages == LoadOf(stack[i])
  IN  /\ load.kind = "resolve" /\ i # 0 /\ stack[i].rel = "toast" /\ e # Failed
      /\ IF tid = NoTid THEN UNCHANGED stack ELSE CanPush /\ stack' = Append(stack, next)
      /\ asked' = LET listed == With(asked \ {load}, pages) IN IF tid = NoTid THEN listed ELSE With(listed, LoadOf(next))
      /\ UNCHANGED showTupleLayout /\ KeepDescent

ToastTargetFails(load) ==
  LET i == FindLevel("heapPages")
  IN  /\ load.kind = "resolve" /\ "fails" \in descent.keys /\ i # 0 /\ stack[i].rel = "toast"
      /\ stack' = [stack EXCEPT ![i] = [@ EXCEPT !.loading = FALSE, !.loaded = TRUE]]
      /\ asked' = asked \ {load} /\ UNCHANGED showTupleLayout /\ KeepDescent

Dropped(load) ==
  LET i == FindLevel(IF load.kind \in {"attrs", "value"} THEN "heapTuples"
                     ELSE IF load.kind = "resolve" THEN "heapPages" ELSE load.kind)
  IN  /\ CASE load.kind = "heapTuples" -> Lands(i, load) => stack[i].pick # load.pick
           [] load.kind = "attrs"      -> Lands(i, load) => ~SameTuple(stack[i], load)
           [] load.kind = "value"      -> (i # 0 /\ stack[i].rel = load.rel /\ stack[i].toastVal # <<>>)
                                            => stack[i].toastVal[1] # load.lp
           [] load.kind = "resolve"    -> i # 0 => stack[i].rel # "toast"
           [] OTHER                    -> ~Lands(i, load)
      /\ Drop(load)

Arrives(load) ==
  \/ \E e \in Readings(load) :
       \/ OnPagesLoaded(load, e) \/ OnHeapTuplesLoaded(load, e) \/ OnTupleAttrsLoaded(load, e)
       \/ OnToastTargetResolved(load, e)
       \/ load.kind = "indexTuples" /\ \E type \in ProbedTypes(load, e) : OnIndexTuplesLoaded(load, e, type)
  \/ OnToastValueLoaded(load) \/ ToastTargetFails(load) \/ Dropped(load)

DescentNext ==
  \/ ServerChanges
  \/ DrillIndexPage \/ DrillHeapPage \/ TogglePosting \/ DescendDownlink \/ DrillIndexLeafEntry
  \/ FollowRedirect \/ OpenTupleLayout
  \/ \E q \in SeekKeys : SeekKey(q)
  \/ \E by \in {-1, 1} : MoveCursor(by)
  \/ ReverseRows \/ Reload \/ ToggleColumn \/ Describe \/ JumpToPageInspector \/ GoBack
  \/ CloseTupleLayout \/ ReloadTupleAttrs \/ OpenToastValue \/ OpenToastChunkNav
  \/ \E load \in asked : Arrives(load)

DescentSpec == DescentInit /\ [][DescentNext]_descentVars

-----------------------------------------------------------------------------
(* A screen's bytes are those of the tuple it names, and its value that of *)
(* a chunk, whatever was asked before: an answer for another tuple or page *)
(* never fills the overlay.                                                *)
AttrsBelong ==
  \A i \in DOMAIN stack :
    stack[i].tupleAttrs # <<>> => stack[i].level = "heapTuples" /\ stack[i].tupleAttrs[1] = stack[i].tupleAttrsLP

(* The page of a level that covers a key, by the pages' upper bounds.      *)
UpperBound(e, blk) ==
  LET page == IndexAt[e][blk] IN IF page.rightmost THEN NoKey ELSE page.items[1].key
Covering(e, level, q) ==
  LET pages == {b \in DOMAIN IndexAt[e] : IndexAt[e][b].level = level}
      above == {b \in pages : UpperBound(e, b) # NoKey /\ UpperBound(e, b) > q}
  IN  IF above = {} THEN CHOOSE b \in pages : UpperBound(e, b) = NoKey
      ELSE CHOOSE b \in above : \A c \in above : UpperBound(e, b) <= UpperBound(e, c)

(* What is assumed of the server's pages.  Blocks are numbered, and stay   *)
(* what they are: none is freed and used again at another height.          *)
Times   == 1..2
IndexKeys   == Int \cup {NoKey}
Entries == [off : Nat, key : IndexKeys, child : Nat, tid : Seq(Nat), posting : Seq(Seq(Nat))]
Tuples  == [lp : Nat, flag : STRING, to : Nat, key : IndexKeys, chunk : Nat, pointer : Nat]
Trees   == Seq([type : {"r", "i", "l"}, level : Nat, rightmost : BOOLEAN, items : Seq(Entries)])
Heaps   == [{"table", "toast"} -> Seq(Seq(Tuples))]
PagesStay ==
  /\ DOMAIN IndexAt = Times /\ DOMAIN HeapAt = Times /\ Len(IndexAt[1]) <= Len(IndexAt[2])
  /\ \A e \in Times : IndexAt[e] \in Trees /\ HeapAt[e] \in Heaps
  /\ \A e \in Times : \A b \in DOMAIN IndexAt[e] : \A n \in DOMAIN IndexAt[e][b].items : IndexAt[e][b].items[n].off = n
  /\ \A d, e \in Times : \A b \in DOMAIN IndexAt[d] \cap DOMAIN IndexAt[e] : IndexAt[d][b].level = IndexAt[e][b].level

(* A leaf entry is of a row with its key, wherever its HOT chain leads to. *)
TidsOf(item) == {item.tid} \cup {item.posting[n] : n \in DOMAIN item.posting}
EntryOfRow(e, item) ==
  \A tid \in TidsOf(item) \ {NoTid} :
    LiveTid(e, tid) # NoTid => tid[1] \in DOMAIN HeapAt[e]["table"] /\ TupleAt(e, "table", LiveTid(e, tid)).key = item.key

(* A B-tree without an unfinished split, and of which no key spans two     *)
(* pages.  Its leaves are of the lowest level, and the root is below no    *)
(* page.  The bounds of a level are apart from each other; those of the    *)
(* level below are the bounds of this one and the keys between them.       *)
FirstLink(page) == IF page.rightmost THEN 1 ELSE 2
LinkKeys(page)  == {page.items[n].key : n \in (FirstLink(page) + 1)..Len(page.items)}
OnLevelOf(e, level) == {b \in DOMAIN IndexAt[e] : IndexAt[e][b].level = level}
Bounds(e, level)    == {UpperBound(e, b) : b \in OnLevelOf(e, level)}
LevelBelow(e, level) ==
  Bounds(e, level - 1) \subseteq
    {NoKey} \cup Bounds(e, level) \cup UNION {LinkKeys(IndexAt[e][c]) : c \in OnLevelOf(e, level)}
LinksOf(e, b) ==
  LET page == IndexAt[e][b]
      first == FirstLink(page)
      last == Len(page.items)
      below(n) == page.items[n].child
  IN  /\ last >= first /\ page.items[first].key = NoKey
      /\ ~page.rightmost => page.items[1].posting = <<>>
      /\ \A n \in (first + 1)..last : page.items[n].key \in Int
      /\ \A m, n \in (first + 1)..last : m < n => page.items[m].key < page.items[n].key
      /\ \A n \in first..last :
           /\ below(n) \in OnLevelOf(e, page.level - 1)
           /\ \A d \in Times : below(n) \in DOMAIN IndexAt[d] => IndexAt[d][below(n)].type # "r"
           /\ UpperBound(e, below(n)) = IF n = last THEN UpperBound(e, b) ELSE page.items[n + 1].key
      /\ \A key \in LinkKeys(page) :
           /\ UpperBound(e, b) # NoKey => key < UpperBound(e, b)
           /\ \A c \in OnLevelOf(e, page.level) \ {b} :
                UpperBound(e, c) # NoKey /\ (UpperBound(e, b) # NoKey => UpperBound(e, c) < UpperBound(e, b)) => key >= UpperBound(e, c)
PageFits(e, b) ==
  LET page == IndexAt[e][b]
  IN  /\ page.type = "l" => page.level = 0
      /\ page.type = "i" => page.level > 0
      /\ UpperBound(e, b) \in (IF page.rightmost THEN {NoKey} ELSE Int)
      /\ page.level = 0 => \A n \in DOMAIN page.items : EntryOfRow(e, page.items[n])
      /\ page.level > 0 => LinksOf(e, b) /\ LevelBelow(e, page.level)
      /\ NoKey \in Bounds(e, page.level)
BTree(e) ==
  /\ \A b \in DOMAIN IndexAt[e] : PageFits(e, b)
  /\ \A b, c \in DOMAIN IndexAt[e] : IndexAt[e][b].level = IndexAt[e][c].level /\ UpperBound(e, b) = UpperBound(e, c) => b = c

ASSUME DescentAssumption ==
  /\ NoKey \notin Int /\ SeekKeys \subseteq Int
  /\ PagesStay /\ \A e \in Times : BTree(e)
  /\ \A s \in DescentSessions : s.level \in {"indexPages", "heapPages"}

OnItsSeek(s) == s.seek # NoKey /\ HasRow(s) /\ SeekTo(s, s.seek).cursor = s.cursor
CoversSeek(s) == s.blk = Covering(s.read, IndexAt[s.read][s.blk].level, s.seek)

(* "Walking root -> leaf is Enter, Enter, Enter": from a page that covers  *)
(* the key, the entry the seek is on leads to the page below that covers   *)
(* it, by the bounds of the pages and not by the downlinks it followed.    *)
DescentCovers ==
  \A i \in 1..(Len(stack) - 1) :
    LET s == stack[i]
        t == stack[i + 1]
    IN  /\ s.level = "indexTuples" /\ t.level = "indexTuples"
        /\ s.read # 0 /\ s.read = t.read /\ s.type = "i" /\ t.seek = s.seek /\ OnItsSeek(s)
        /\ CoversSeek(s)
        => CoversSeek(t)

(* The screens of a walk down a relation: each shows what it names, and a  *)
(* seek is taken to the page that covers it.                               *)
WalkSound == AttrsBelong /\ DescentCovers

(* The answer that lands a screen opened for a row puts the cursor on it:  *)
(* the row with the key of the entry, through a HOT chain where there is   *)
(* one, or a chunk of the value; unless the page has changed since.        *)
Landed(s, t) == s.focusLP # 0 /\ t.focusLP = 0 /\ t.want # <<>> /\ t.want[3] = t.read
LandsOnTarget ==
  [][\A i \in DOMAIN stack :
       i \in DOMAIN stack' /\ Landed(stack[i], stack'[i]) =>
         LET t == stack'[i]
             row == TupleRow(t)
         IN  HasRow(t) /\ t.want[2] = (IF t.want[1] = "key" THEN row.key ELSE row.chunk)]_descentVars

(* "Back then unwinds chunk -> toast pages -> the original tuple": the     *)
(* tuples of a page on top are shown, or asked for.  Asked for before the  *)
(* jump, their answer meets the chunk's screen above them and is dropped.  *)
Matches(s, load) == load.kind = s.level /\ load.rel = s.rel /\ load.blk = s.blk /\ load.pick = s.pick
TuplesServed ==
  stack # <<>> /\ TopScreen.level = "heapTuples" /\ TopScreen.loading => \E load \in asked : Matches(TopScreen, load)
=============================================================================
