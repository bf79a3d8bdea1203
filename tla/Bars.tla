--------------------------------- MODULE Bars --------------------------------
(* The bars: how the figures of a screen become cells between two brackets. *)
(* A bar is redrawn when its figures are read again, and when the terminal  *)
(* changes its width.  The figures of one bar may come from readings made   *)
(* at different times, and then need not fit their whole.                   *)
EXTENDS NumberFormat, SequencesExt

CONSTANTS BarFigures,   \* what the server may report: the bar it is for, its figures, and their whole
          BarWidths

ASSUME BarsAssumption == BarWidths \subseteq Nat \ {0}

VARIABLES figures, barWidth

barVars == <<figures, barWidth>>

Upto(cells, i) == FoldLeft(+, 0, SubSeq(cells, 1, i))
Sum(cells) == Upto(cells, Len(cells))
AtLeast0(n) == Wider(n, 0)

(* A segment that would run over the end of the bar is cut there.          *)
Painted(cells) ==
  LET end(i) == Narrower(Upto(cells, i), barWidth) IN [i \in DOMAIN cells |-> end(i) - end(i - 1)]

BytesToCells(n, most) == IF n <= 0 THEN 0 ELSE Narrower((barWidth * n) \div Wider(most, 1), barWidth)

(* The tail of a bar in another colour: bloat, full page images, dirty.    *)
SplitOff(filled, overlay) == <<filled - overlay, overlay>>
TwoTone(plain, tail, most) ==
  LET filled == BytesToCells(plain + tail, most) IN
  SplitOff(filled, IF tail > 0 THEN Narrower((filled * tail) \div (plain + tail), filled) ELSE 0)

Trimmed(cells, last) == [cells EXCEPT ![last] = AtLeast0(Narrower(@, barWidth - (Sum(cells) - @)))]
Each(parts, most)    == [i \in DOMAIN parts |-> BytesToCells(parts[i], most)]

PageSize == 8192
IndexPageParts(live, dead, free) ==
  LET used  == AtLeast0(PageSize - free)
      bloat == IF live + dead > 0 THEN (used * dead) \div (live + dead) ELSE 0 IN
  <<used - bloat, bloat>>

(* Cells dealt to the parts so that none that is there goes unseen: the     *)
(* widest give back what that takes, the largest gets what is left over.   *)
(* The defect of CellsOf: a small part is rounded away.                    *)
RoundedAway(part, all, w) == IF part <= 0 THEN 0 ELSE (w * part) \div all
CellsOf(part, all, w) == IF part <= 0 THEN 0 ELSE Wider(1, (w * part) \div all)
Largest(parts) == CHOOSE i \in DOMAIN parts : \A j \in DOMAIN parts : parts[j] < parts[i] \/ (parts[j] = parts[i] /\ i <= j)
More(cells, at, n) == [i \in DOMAIN cells |-> cells[i] + IF i = at THEN n ELSE 0]
ProportionalCells(parts, w) ==
  LET all    == Sum(parts)
      floors == [i \in DOMAIN parts |-> CellsOf(parts[i], all, w)]
      shave[cells \in Seq(Nat)] ==
        IF Sum(cells) <= w \/ \A i \in DOMAIN cells : cells[i] <= 1 THEN cells
        ELSE shave[More(cells, Largest(cells), -1)]
      dealt  == shave[floors] IN
  IF all <= 0 THEN [i \in DOMAIN parts |-> 0] ELSE More(dealt, Largest(parts), AtLeast0(w - Sum(dealt)))

Shares(parts, most) ==
  LET rest  == AtLeast0(most - Sum(parts))
      cells == ProportionalCells(Append(parts, rest), barWidth) IN
  IF most <= 0 THEN <<>> ELSE Front(cells)

(* The biggest tables of the list, as many as the palette has colours for, *)
(* less those too small to see.                                            *)
Palette == 10
TopBufferSlices(tables, most) ==
  LET sorted == SortSeq(SelectSeq(tables, LAMBDA n : n > 0), >) IN
  SelectSeq(SubSeq(sorted, 1, Narrower(Palette, Len(sorted))), LAMBDA n : n >= most \div barWidth)
ConnectionParts(active, inTxn, idle, conns) == <<active, inTxn, idle, AtLeast0(conns - active - idle - inTxn)>>
WithRest(slices, this, other) == slices \o <<AtLeast0(this - Sum(slices)), other>>
SharedBuffers(tables, this, other, most) == WithRest(TopBufferSlices(tables, most), this, other)

ServerMemParts(ram, available, free, sb) == <<AtLeast0(ram - available - sb), AtLeast0(available - free)>>
ServerMem(used, sb, available, free, ram) ==
  <<used, AtLeast0(sb - used)>> \o ServerMemParts(ram, available, free, sb)

(* What a bar shows: its parts, in order, out of a whole.                  *)
Whole == figures.whole
Parts ==
  LET f == figures.parts IN
  CASE figures.bar = "indexPage" -> IndexPageParts(f[1], f[2], f[3])
    [] figures.bar = "shared"    -> SharedBuffers(figures.tables, f[1], f[2], Whole)
    [] figures.bar = "host"      -> ServerMem(f[1], f[2], f[3], f[4], Whole)
    [] figures.bar = "share"     -> ConnectionParts(f[1], f[2], f[3], f[4])
    [] OTHER                     -> f

SizeBar(p)     == TwoTone(p[1], p[2], Whole)
UsageCountBar(p) == TwoTone(p[1], p[2], Whole)
WALBar(p)      == TwoTone(p[1], p[2], Whole)
SegmentedBar(p) == Trimmed(Each(p, Whole), 3)
HeapPageBar(p) == Trimmed(Each(p, PageSize), 2)
IndexPageBar(p) == Trimmed(Each(p, PageSize), 2)
AnatomyBar(p)  == LET h == BytesToCells(p[1], Whole) IN <<h, barWidth - h>>
TupleBar(p)    == ProportionalCells(p, barWidth)
UsageHeatBar(p) == Each(p, Whole)
BufferBar(p)   == Each(p, Whole)
ShmemBar(p)    == Each(p, Whole)
ServerMemBar(p) == Each(p, Whole)

Dealt == {"share", "tuple"}
Segments(p) ==
  CASE figures.bar = "size"      -> SizeBar(p)
    [] figures.bar = "wal"       -> WALBar(p)
    [] figures.bar = "band"      -> UsageCountBar(p)
    [] figures.bar = "disk"      -> SegmentedBar(p)
    [] figures.bar = "heapPage"  -> HeapPageBar(p)
    [] figures.bar = "indexPage" -> IndexPageBar(p)
    [] figures.bar = "anatomy"   -> AnatomyBar(p)
    [] figures.bar = "share"     -> Shares(p, Whole)
    [] figures.bar = "tuple"     -> TupleBar(p)
    [] figures.bar = "usage"     -> UsageHeatBar(p)
    [] figures.bar = "shared"    -> BufferBar(p)
    [] figures.bar = "shmem"     -> ShmemBar(p)
    [] figures.bar = "host"      -> ServerMemBar(p)

BarsInit == figures \in BarFigures /\ barWidth \in BarWidths
ReadFigures == \E f \in BarFigures : f # figures /\ f.bar = figures.bar /\ figures' = f /\ UNCHANGED barWidth
ResizeBars  == \E w \in BarWidths : w # barWidth /\ barWidth' = w /\ UNCHANGED figures
BarsNext == ReadFigures \/ ResizeBars

(* Whatever was read, the segments never run out of the brackets.  Where   *)
(* the figures fit their whole, a segment is within two cells of its share *)
(* and what is left empty is no less than what is free.  Where the cells    *)
(* are dealt, whatever is there is seen, what is free as well, and parts    *)
(* that are all of the whole fill the bar.  Every table singled out on the *)
(* bar of the shared buffers has a cell of its colour.                     *)
Near(off, slack) == -(slack * Whole) < off /\ off < slack * Whole
NearShare(cell, part, slack) == Near(cell * Whole - barWidth * part, slack)
ExactBar(cells, parts, rest) ==
  /\ Sum(cells) <= barWidth
  /\ (rest >= 0 /\ figures.bar \notin Dealt) =>
       /\ \A i \in DOMAIN cells : NearShare(cells[i], parts[i], 2)
       /\ (barWidth - Sum(cells)) * Whole >= barWidth * rest
  /\ (figures.bar \in Dealt /\ Len(parts) < barWidth) =>
       /\ \A i \in DOMAIN parts : IF parts[i] > 0 THEN cells[i] >= 1 ELSE cells[i] = 0
       /\ rest > 0 <=> Sum(cells) < barWidth
       /\ rest >= 0 => \A i \in DOMAIN parts : NearShare(cells[i], parts[i], Len(parts) + 1)
  /\ figures.bar = "shared" => \A i \in 1..(Len(parts) - 2) : cells[i] >= 1 \/ rest < 0
ExactParts(parts) == ExactBar(Painted(Segments(parts)), parts, Whole - Sum(parts))
BarsExact == Whole > 0 => ExactParts(Parts)
=============================================================================
