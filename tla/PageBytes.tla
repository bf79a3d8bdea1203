-------------------------------- MODULE PageBytes -------------------------------
(* The bytes of a heap tuple and of an index key, written by the server    *)
(* and read back column by column: the overlay over a tuple whose row was  *)
(* read earlier than its split into columns, and the keys of a B-tree.     *)
EXTENDS Integers, Sequences, SequencesExt, FiniteSetsExt

CONSTANTS
  Null,
  TableColumns,   \* bound: the columns a table may start with
  ColumnValues,   \* bound: what is stored in a column of a length
  MaxTableChanges \* bound: what happens to the table

VARIABLES
  columns,  \* pg_attribute
  tuple,    \* what is at the line pointer: its values, of the columns of then
  row,      \* the tuple when the page was listed
  changed
bytesVars == <<columns, tuple, row, changed>>

Varlena == -1
Column(len) == [len |-> len, dropped |-> FALSE]
AlignOf(column) == IF column.len = Varlena THEN 4 ELSE column.len
AlignOffset(off, align) == ((off + align - 1) \div align) * align

-----------------------------------------------------------------------------
(* The server's side.  A value is its bytes; a varlena starts with one odd *)
(* byte, unaligned, or with a header of four, aligned.                     *)
Repeat(byte, n) == [i \in 1..n |-> byte]
Short(n)      == <<2 * n + 1>> \o Repeat(7, n - 1)
Long(n)       == <<(4 * n) % 256, (4 * n) \div 256, 0, 0>> \o Repeat(7, n - 4)
Compressed(n) == <<4 * n + 2, 0, 0, 0>> \o Repeat(7, n - 4)
Pointer       == <<1>> \o Repeat(7, 17)
IsPacked(value) == value[1] % 2 = 1

PutAt(off, column, value) == IF column.len = Varlena /\ IsPacked(value) THEN off ELSE AlignOffset(off, AlignOf(column))
Formed(cols, values) ==
  LET data[n \in 0..Len(values)] ==
        IF n = 0 THEN <<>>
        ELSE LET before == data[n - 1]
             IN IF values[n] = Null THEN before
                ELSE before \o Repeat(0, PutAt(Len(before), cols[n], values[n]) - Len(before)) \o values[n]
  IN data[Len(values)]
StartOf(cols, values, n) == PutAt(Len(Formed(cols, SubSeq(values, 1, n - 1))), cols[n], values[n])

HasNull(values) == \E n \in DOMAIN values : values[n] = Null
Bitmap(values) == IF HasNull(values) THEN (Len(values) + 7) \div 8 ELSE 0
HoffOf(values) == AlignOffset(23 + Bitmap(values), 8)
Stored(cols, values) == [values |-> values, data |-> Formed(cols, values), hoff |-> HoffOf(values)]
Values(cols) ==
  LET values[n \in 0..Len(cols)] ==
        IF n = 0 THEN {<<>>}
        ELSE {Append(v, x) : v \in values[n - 1], x \in IF cols[n].dropped THEN {Null} ELSE ColumnValues[cols[n].len]}
  IN values[Len(cols)]

BytesInit ==
  /\ columns \in TableColumns /\ changed = 0
  /\ \E v \in Values(columns) : tuple = Stored(columns, v)
  /\ row = tuple

Changes == changed < MaxTableChanges /\ changed' = changed + 1
ReplaceTuple(values) == Changes /\ tuple' = Stored(columns, values) /\ UNCHANGED <<columns, row>>
AddColumn(len) == Changes /\ columns' = Append(columns, Column(len)) /\ UNCHANGED <<tuple, row>>
DropColumn(n) ==
  /\ ~columns[n].dropped /\ Changes
  /\ columns' = [columns EXCEPT ![n].dropped = TRUE]
  /\ UNCHANGED <<tuple, row>>
ListTuples == row # tuple /\ row' = tuple /\ UNCHANGED <<columns, tuple, changed>>

BytesNext ==
  \/ \E v \in Values(columns) : ReplaceTuple(v)
  \/ \E len \in DOMAIN ColumnValues : AddColumn(len)
  \/ \E n \in DOMAIN columns : DropColumn(n)
  \/ ListTuples

-----------------------------------------------------------------------------
(* The split of a tuple, by the catalog as it is now.                      *)
Attr(n) ==
  [value |-> IF n <= Len(tuple.values) THEN tuple.values[n] ELSE Null,
   len |-> columns[n].len, dropped |-> columns[n].dropped]

Seg(kind, n, start, length) == [kind |-> kind, attr |-> n, start |-> start, bytes |-> length]
SegIf(kind, start, length) == IF length > 0 THEN <<Seg(kind, 0, start, length)>> ELSE <<>>

HeaderFields == <<Seg("header", 0, 0, 23)>>
HeaderSegs(t) ==
  HeaderFields \o SegIf("null bitmap", 23, Bitmap(t.values))
    \o SegIf("header pad", 23 + Bitmap(t.values), t.hoff - 23 - Bitmap(t.values))

(* The defect of a varlena that is always aligned.                         *)
PadAlways(t, attr, off) == AlignOffset(off, AlignOf(attr)) - off

(* A varlena is not padded where the next byte is one of its header.       *)
PadBefore(t, attr, off) ==
  IF attr.len = Varlena /\ off < Len(t.data) /\ t.data[off + 1] # 0 THEN 0 ELSE AlignOffset(off, AlignOf(attr)) - off
WalkPast(t, walk, n) ==
  LET attr == Attr(n)
      pad  == PadBefore(t, attr, walk.off)
  IN IF attr.value = Null
     THEN IF attr.dropped THEN walk ELSE [walk EXCEPT !.segs = Append(@, Seg("column", n, t.hoff + walk.off, 0))]
     ELSE [off  |-> walk.off + pad + Len(attr.value),
           segs |-> walk.segs \o SegIf("pad", t.hoff + walk.off, pad)
                      \o <<Seg("column", n, t.hoff + walk.off + pad, Len(attr.value))>>]
Walked(t) ==
  LET walk[n \in 0..Len(columns)] == IF n = 0 THEN [off |-> 0, segs |-> <<>>] ELSE WalkPast(t, walk[n - 1], n)
  IN walk[Len(columns)]

LpLen(t) == t.hoff + Len(t.data)
Layout(t) ==
  LET walk == Walked(t)
      end  == t.hoff + walk.off
  IN IF end > LpLen(t)
     THEN [ok |-> FALSE, segs |-> HeaderSegs(t) \o SegIf("unaccounted", t.hoff, LpLen(t) - t.hoff)]
     ELSE [ok |-> TRUE, segs |-> HeaderSegs(t) \o walk.segs \o SegIf("unaccounted", end, LpLen(t) - end)]

-----------------------------------------------------------------------------
(* A column of a key at an offset: its value and the offset past it, or    *)
(* nothing when it cannot be sized or read.                                *)
Undecoded == [value |-> Null, next |-> -1]
Reads(b, from, length, skip) ==
  IF from + length > Len(b) \/ length < skip THEN Undecoded
  ELSE [value |-> SubSeq(b, from + 1, from + length), next |-> from + length]

DecodeVarlena(b, off) ==
  LET at == IF off < Len(b) /\ b[off + 1] = 0 THEN AlignOffset(off, 4) ELSE off
      h  == b[at + 1]
  IN IF at >= Len(b) \/ h = 1 THEN Undecoded
     ELSE IF h % 2 = 1 THEN Reads(b, at, h \div 2, 1)
     ELSE IF h % 4 = 0 /\ at + 4 <= Len(b) THEN Reads(b, at, (h + 256 * b[at + 2]) \div 4, 4)
     ELSE Undecoded

DecodeIndexColumn(b, off, column) ==
  IF column.len = Varlena THEN DecodeVarlena(b, off) ELSE Reads(b, AlignOffset(off, column.len), column.len, 0)

(* Columns are read until one is not.                                      *)
ReadPast(b, read, column) ==
  LET key == IF read.off < 0 \/ read.off >= Len(b) THEN Undecoded ELSE DecodeIndexColumn(b, read.off, column)
  IN IF key = Undecoded THEN [read EXCEPT !.off = -1]
     ELSE [off |-> key.next, parts |-> Append(read.parts, key.value)]
DecodeIndexKeyParts(b, cols) ==
  LET read[n \in 0..Len(cols)] == IF n = 0 THEN [off |-> 0, parts |-> <<>>] ELSE ReadPast(b, read[n - 1], cols[n])
  IN read[Len(cols)]

(* A pivot of fewer columns than the index has: those dropped are lower    *)
(* than anything.  What is left past the others is padding, or else the    *)
(* count was not one; AnyPast is the defect of trusting the count.         *)
Lowest == <<>>
AnyPast(b, off) == off >= 0
PastPadding(b, off) == off >= 0 /\ Len(b) - off < 8 /\ \A i \in (off + 1)..Len(b) : b[i] = 0
DecodeIndexKeyPivot(b, cols, natts) ==
  LET read == DecodeIndexKeyParts(b, SubSeq(cols, 1, natts))
  IN IF natts = 0 \/ natts >= Len(cols) \/ ~PastPadding(b, read.off) THEN <<>>
     ELSE read.parts \o Repeat(Lowest, Len(cols) - natts)

(* A pivot is shown as one if it reads as one.                             *)
PivotKeyText(b, cols, natts) ==
  LET pivot == DecodeIndexKeyPivot(b, cols, natts)
  IN IF pivot # <<>> THEN pivot ELSE DecodeIndexKeyParts(b, cols).parts

-----------------------------------------------------------------------------
(* The segments of the overlay cover the tuple from its first byte to its  *)
(* last, each once, also where the row and the split are of two tuples     *)
(* that held the line pointer one after the other.                         *)
Tiles(segs, length) ==
  /\ \A n \in 1..(Len(segs) - 1) : segs[n + 1].start = segs[n].start + segs[n].bytes
  /\ segs[1].start = 0 /\ segs[Len(segs)].start + segs[Len(segs)].bytes = length

(* And where they are of one tuple, every column is shown where the server *)
(* put it, whatever the widths around it, and no byte is unaccounted for:  *)
(* with columns added and dropped since.                                   *)
ColumnsAsFormed(layout) ==
  /\ layout.ok /\ \A n \in DOMAIN layout.segs : layout.segs[n].kind # "unaccounted"
  /\ \A n \in DOMAIN tuple.values :
       tuple.values[n] # Null =>
         Seg("column", n, tuple.hoff + StartOf(columns, tuple.values, n), Len(tuple.values[n]))
           \in {layout.segs[k] : k \in DOMAIN layout.segs}

LayoutAsFormed ==
  columns # <<>> =>
    LET layout == Layout(row)
    IN Tiles(layout.segs, LpLen(row)) /\ (row = tuple => ColumnsAsFormed(layout))

(* A key of the values of the tuple reads as them, up to one that is       *)
(* compressed or out of line: "better to show fewer columns than wrong     *)
(* ones".  A pivot cut to fewer columns reads as those, and the rest lower *)
(* than anything; a whole key is not taken for one by the count its heap   *)
(* pointer seems to be, unless the columns past that count are all zeros.  *)
(* Keys with a NULL are not claimed: the bytes say nothing of it.          *)
Keyed(cols, values) == ~HasNull(values) /\ \A n \in DOMAIN values : cols[n].len = Varlena => values[n] # Pointer
PivotBytes(b) == b \o Repeat(0, AlignOffset(Len(b), 8) - Len(b))
Legible(cols, values) == \A n \in DOMAIN values : cols[n].len # Varlena \/ values[n][1] % 4 # 2

KeyAsFormed ==
  LET cols == SubSeq(columns, 1, Len(tuple.values))
      values == tuple.values
      data == PivotBytes(tuple.data)
  IN columns # <<>> /\ Keyed(cols, values) =>
       /\ IsPrefix(DecodeIndexKeyParts(data, cols).parts, values)
       /\ Legible(cols, values) =>
            /\ DecodeIndexKeyParts(data, cols).parts = values
            /\ PivotKeyText(data, columns, Len(values)) = values \o Repeat(Lowest, Len(columns) - Len(values))
            /\ \A n \in 1..(Len(values) - 1) :
                 (\E k \in (n + 1)..Len(values) : \E i \in DOMAIN values[k] : values[k][i] # 0) =>
                   PivotKeyText(data, cols, n) = values

(* The decoders read the bytes of a heap tuple and of an index key as the  *)
(* server formed them.                                                     *)
BytesAsFormed == LayoutAsFormed /\ KeyAsFormed
=============================================================================
