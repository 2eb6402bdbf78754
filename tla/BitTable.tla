------------------------------- MODULE BitTable -------------------------------
(***************************************************************************)
(* bit_table.hpp: bit_tables and bit_cells, and the calls that move values *)
(* between them.  The rows of a table start at a word and have a buffer of *)
(* BufferSize values at either end; those of a cell follow each other bit  *)
(* by bit.                                                                 *)
(*                                                                         *)
(* Left out: setup() with the table itself, copies between objects whose   *)
(* words differ in type, and copies of a part of a buffer, which an        *)
(* index_t may name.                                                       *)
(* The definitions commented "A bug:" are used by no specification here.   *)
(***************************************************************************)
EXTENDS BitOps

CONSTANTS
  Objects,
  BufferSize,
  TableSizes, CellSizes,  \* what objects are made with: a width and a height
  Inputs,                 \* the values of calls
  Memory,                 \* the words that memory of a client may be full of
  MaxCalls                \* a bound on the calls

\* The width of a table is not truncated by its conversion to pack_type.
ASSUME BitTableAssumption ==
  /\ BufferSize \in Nat
  /\ TableSizes \cup CellSizes \subseteq [w : Nat \ {0}, h : Nat \ {0}]
  /\ \A n \in TableSizes : (n.w + 2 * BufferSize) % 2 ^ PackBits = n.w + 2 * BufferSize
  /\ Inputs \subseteq BitValues
  /\ Memory \subseteq SUBSET WordBits
  /\ MaxCalls \in Nat

VARIABLES
  obj,
  call,   \* the last call
  calls   \* how many there were

vars == <<obj, call, calls>>

None == [kind |-> "none"]
Tables == { o \in Objects : obj[o].kind = "table" }
Cells == { o \in Objects : obj[o].kind = "cell" }

\* A table that was moved from.  It keeps its size and the address of its words,
\* which are the other's now: it must not be used before it is set up, moved to
\* or cleared.
Shell == [kind |-> "shell"]
Shells == { o \in Objects : obj[o] = Shell }

\* A table whose setup() threw.  It has the new size over the words it had, or
\* over none: it must not be used before it is set up, moved to or cleared, as one
\* that was moved from.
Torn(n, x) ==
  [kind |-> "torn", size |-> n,
   data |-> IF x.kind \in {"table", "torn"} THEN x.data ELSE << >>]
Torns == { o \in Objects : obj[o].kind = "torn" }
Holders == Tables \cup Cells

Init ==
  /\ obj = [o \in Objects |-> None]
  /\ call = [op |-> "none"]
  /\ calls = 0

-----------------------------------------------------------------------------
(* Where values are *)

Size(w, h) == [w |-> w, h |-> h]
Box(x, y, n) == (x .. x + n.w - 1) \X (y .. y + n.h - 1)

\* getPadWidth and getPadHeight
Pad(n) == Size(n.w + 2 * BufferSize, n.h + 2 * BufferSize)

\* A bug: the word behind the last one of a row is saved.
RowWordsShort(n) == ((Pad(n).w % 2 ^ PackBits) + Items - 1) \div Items

\* mRowWords, from the width as a pack_type: a row is read a word at a time at
\* any byte of it.
RowWords(n) == ((Pad(n).w % 2 ^ PackBits) + Items - 1) \div Items + 1

TableWords(n) == Pad(n).h * RowWords(n)

\* word_count
CellWords(n) == (n.w * n.h * Stride + PackBits - 1) \div PackBits

\* The number of the first row and column, and how many there are.
Lo(x) == IF x.kind = "table" THEN -BufferSize ELSE 0
Extent(x) == IF x.kind = "table" THEN Pad(x.size) ELSE x.size
Coords(x) == Box(Lo(x), Lo(x), Extent(x))

TableIndex(x, c) ==
  LET col == c[1] + BufferSize
  IN  PackBits * ((c[2] + BufferSize) * RowWords(x.size) + col \div Items)
        + Stride * (col % Items)

CellIndex(x, c) == Stride * (c[2] * x.size.w + c[1])

BitIndex(x, c) ==
  IF x.kind = "table" THEN TableIndex(x, c) ELSE CellIndex(x, c)

RowBits(x) == IF x.kind = "table" THEN RowWords(x.size) * PackBits ELSE x.size.w * Stride

\* bit_adj_index
AdjIndex(x, c) == Cursor(BitIndex(x, c), RowBits(x))

Value(x, c) == BitGet(x.data, BitIndex(x, c))

\* The regions within n columns and rows from lo on.
Regions(lo, n) ==
  { r \in [at : Box(lo, lo, n), size : [w : 1 .. n.w, h : 1 .. n.h]] :
      /\ r.at[1] + r.size.w <= lo + n.w
      /\ r.at[2] + r.size.h <= lo + n.h }

\* The asserts of copy and the fills: regions named by their coordinates have
\* nothing of the buffer, those named by an index_t are no larger than what is
\* in it.
OwnRegions(x) == Regions(0, x.size)
IndexRegions(x) ==
  { r \in Regions(Lo(x), Extent(x)) : r.size.w <= x.size.w /\ r.size.h <= x.size.h }

\* The place of value k of word i.
PlaceOf(x, i, k) ==
  LET n == RowWords(x.size)
      at == i * Items + k
  IN  IF x.kind = "table"
      THEN <<(i % n) * Items + k - BufferSize, i \div n - BufferSize>>
      ELSE <<at % x.size.w, at \div x.size.w>>

-----------------------------------------------------------------------------
(* Making objects, copying them and giving them up *)

Become(o, x, c) ==
  /\ calls < MaxCalls
  /\ calls' = calls + 1
  /\ call' = c
  /\ obj' = [obj EXCEPT ![o] = x]

Table(n, d) == [kind |-> "table", size |-> n, data |-> d]
Cell(n, d) == [kind |-> "cell", size |-> n, data |-> d]
Words(n, w) == [i \in 0 .. n - 1 |-> w]

Make(o, lo, n, v) == [op |-> "make", at |-> o, lo |-> lo, size |-> n, value |-> v]

Setup(o, n) ==
  Become(o, Table(n, Words(TableWords(n), {})), Make(o, -BufferSize, Pad(n), {}))

\* The members have been written when there turns out to be no memory.
SetupThrows(o, n) == Become(o, Torn(n, obj[o]), [op |-> "lose", at |-> o])

\* On memory of the client, which may have anything in it.
SetupOn(o, n) ==
  \E w \in Memory :
    Become(o, Table(n, Words(TableWords(n), w)),
           [op |-> "found", at |-> o, lo |-> -BufferSize, size |-> Pad(n)])

Duplicate(o, p) == [op |-> "duplicate", at |-> o, of |-> p]

\* The copy constructor copies words, setup() values into new memory.
CopyTable(o, p) == Become(o, obj[p], Duplicate(o, p))

\* A bug: the new memory has no rows for the buffer, though it is copied.
SetupCopyNarrow(o, p) ==
  LET x == obj[p]
      new == Table(x.size, Words(x.size.h * RowWords(x.size), {}))
      start == AdjIndex(x, <<-BufferSize, -BufferSize>>)
      m == Copied([q \in {o, p} |-> IF q = o THEN new.data ELSE x.data],
                  Size(Pad(x.size).w, x.size.h), p, start, o, start)
  IN  Become(o, [new EXCEPT !.data = m[o]], Duplicate(o, p))

\* A bug: the buffer is not copied.
SetupCopyInner(o, p) ==
  LET x == obj[p]
      new == Table(x.size, Words(TableWords(x.size), {}))
      start == AdjIndex(x, <<0, 0>>)
      m == Copied([q \in {o, p} |-> IF q = o THEN new.data ELSE x.data],
                  x.size, p, start, o, start)
  IN  Become(o, [new EXCEPT !.data = m[o]], Duplicate(o, p))

SetupCopy(o, p) ==
  LET x == obj[p]
      new == Table(x.size, Words(TableWords(x.size), {}))
      start == AdjIndex(x, <<-BufferSize, -BufferSize>>)
      m == Copied([q \in {o, p} |-> IF q = o THEN new.data ELSE x.data],
                  Pad(x.size), p, start, o, start)
  IN  Become(o, [new EXCEPT !.data = m[o]], Duplicate(o, p))

SetupCopyThrows(o, p) == SetupThrows(o, obj[p].size)

Drop(o) == Become(o, None, [op |-> "drop", at |-> o])

\* The move constructor and the move assignment.
Move(o, p) ==
  /\ calls < MaxCalls
  /\ calls' = calls + 1
  /\ call' = [op |-> "move", at |-> o, of |-> p]
  /\ obj' = [obj EXCEPT ![o] = obj[p], ![p] = Shell]

\* The bits of the last word of a cell that belong to no value.
Unused(n) == CellWords(n) * PackBits - n.w * n.h * Stride

MadeCell(o, n, v, mask) ==
  Become(o,
         Cell(n, [i \in 0 .. CellWords(n) - 1 |->
                    LET w == IF v THEN WordBits ELSE {}
                    IN  IF i = CellWords(n) - 1 THEN w \cap mask ELSE w]),
         Make(o, 0, n, IF v THEN ValueBits ELSE {}))

\* A bug: the unused bits are left as they were filled.
ConstructUnmasked(o, n, v) == MadeCell(o, n, v, WordBits)

\* construct in memory that is handed over.
Construct(o, n, v) == MadeCell(o, n, v, RightShift(WordBits, Unused(n)))

\* construct in memory of a memory_resource: the mask is shifted the other way.
ConstructFrom(o, n, v) == MadeCell(o, n, v, LeftShift(WordBits, Unused(n)))

CopyCell(o, p) == Become(o, obj[p], Duplicate(o, p))

-----------------------------------------------------------------------------
(* Changing values *)

Write(o, d, c) == Become(o, [obj[o] EXCEPT !.data = d], c)

Change(o, c, n, how, v) ==
  [op |-> "change", at |-> o, to |-> c, size |-> n, how |-> how, value |-> v]

\* The functions of one value that take another: bit_set, bit_or
\* and the other operations.
Combine(o, c, v) ==
  LET i == BitIndex(obj[o], c)
      d == obj[o].data
      One(w, how) == Write(o, w, Change(o, c, Size(1, 1), how, v))
  IN  \/ One(BitSet(d, i, v), "set")
      \/ \E op \in RegionOps : One(BitOp(op, d, i, v), op)

\* Those that take none.
ClearOrNot(o, c) ==
  LET i == BitIndex(obj[o], c)
  IN  \/ Write(o, BitClear(obj[o].data, i), Change(o, c, Size(1, 1), "set", {}))
      \/ Write(o, BitNot(obj[o].data, i), Change(o, c, Size(1, 1), "not", {}))

\* word_set: the values of a word at once.  A cell whose unused bits the caller
\* does not leave as zeros has no part in operator== any more.
WordSet(o, i, v) ==
  LET x == obj[o]
      within == { k \in 0 .. Items - 1 : PlaceOf(x, i, k) \in Coords(x) }
      part == { <<PlaceOf(x, i, k), RightShift(v, k * Stride) \cap ValueBits>> : k \in within }
  IN  /\ x.kind = "cell" => v \subseteq UNION { LeftShift(ValueBits, k * Stride) : k \in within }
      /\ Write(o, [x.data EXCEPT ![i] = v], [op |-> "word", at |-> o, part |-> part])

\* set_buffer: whole rows above and below, then what is left and right of the
\* others.  The order does not matter, as it writes one value.
BufferRows(x) ==
  UNION { (-BufferSize .. x.size.w + BufferSize - 1) \X {i, x.size.h + BufferSize + i}
          : i \in -BufferSize .. -1 }
BufferColumns(x) ==
  UNION { {i, x.size.w + BufferSize + i} \X (0 .. x.size.h - 1)
          : i \in -BufferSize .. -1 }

SetBuffer(o, v) ==
  LET x == obj[o]
      Put(c, d) == BitSet(d, BitIndex(x, c), v)
  IN  Write(o, FoldSet(Put, x.data, BufferRows(x) \cup BufferColumns(x)),
            [op |-> "frame", at |-> o, size |-> x.size, value |-> v])

Flip(o, r) ==
  Write(o, Flipped(obj[o].data, r.size, AdjIndex(obj[o], r.at)),
        Change(o, r.at, r.size, "not", {}))

RegionOpFill(o, op, v, r) ==
  Write(o, Filled(op, obj[o].data, v, r.size, AdjIndex(obj[o], r.at)),
        Change(o, r.at, r.size, op, v))

Draw(op, o, c, p, r) ==
  [op |-> op, at |-> o, to |-> c, of |-> p, from |-> r.at, size |-> r.size]

\* It is the caller's part that the region fits, buffer included, where it goes.
Fits(o, c, n) == \A x \in {0, n.w - 1}, y \in {0, n.h - 1} :
  <<c[1] + x, c[2] + y>> \in Coords(obj[o])

CopyRegion(p, r, o, c) ==
  /\ Fits(o, c, r.size)
  /\ LET m == Copied([q \in {o, p} |-> obj[q].data], r.size,
                     p, AdjIndex(obj[p], r.at), o, AdjIndex(obj[o], c))
     IN  Write(o, m[o], Draw("set", o, c, p, r))

\* region_op with a part of p does not compile: it leaves OP out.
RegionOp(op, p, o, c) ==
  LET r == [at |-> <<0, 0>>, size |-> obj[p].size]
      m == Merged(op, [q \in {o, p} |-> obj[q].data], r.size,
                  p, AdjIndex(obj[p], r.at), o, AdjIndex(obj[o], c))
  IN  /\ Fits(o, c, r.size)
      /\ Write(o, m[o], Draw(op, o, c, p, r))

-----------------------------------------------------------------------------

Making ==
  \E o \in Objects :
    \/ /\ o \notin Cells
       /\ \/ \E n \in TableSizes : Setup(o, n) \/ SetupThrows(o, n) \/ SetupOn(o, n)
          \/ \E p \in Tables \ {o} : SetupCopy(o, p) \/ SetupCopyThrows(o, p)
          \/ \E p \in (Tables \cup Torns) \ {o} : Move(o, p)
    \/ /\ obj[o] = None
       /\ \/ \E p \in Tables : CopyTable(o, p)
          \/ \E n \in CellSizes, v \in BOOLEAN : Construct(o, n, v)
          \/ \E p \in Cells : CopyCell(o, p)
    \/ obj[o] # None /\ Drop(o)

Changing ==
  \/ \E o \in Holders :
       \/ \E c \in Coords(obj[o]) :
            \/ ClearOrNot(o, c)
            \/ \E v \in Inputs : Combine(o, c, v)
            \/ \E v \in Memory : WordSet(o, Word(BitIndex(obj[o], c)), v)
       \/ \E r \in Regions(Lo(obj[o]), Extent(obj[o])) : Flip(o, r)
       \/ \E r \in IndexRegions(obj[o]) :
            \E op \in RegionOps, v \in Inputs : RegionOpFill(o, op, v, r)
  \/ \E o \in Tables, v \in Inputs : SetBuffer(o, v)
  \/ \E o, p \in Holders :
       \E c \in Coords(obj[o]) :
         \/ \E r \in OwnRegions(obj[p]) : CopyRegion(p, r, o, c)
         \/ \E op \in RegionOps : RegionOp(op, p, o, c)

Next == Making \/ Changing

Spec == Init /\ [][Next]_vars

\* With the cells that a memory_resource has room for.
ResourceNext ==
  \/ Next
  \/ \E o \in Objects, n \in CellSizes, v \in BOOLEAN : obj[o] = None /\ ConstructFrom(o, n, v)

ResourceSpec == Init /\ [][ResourceNext]_vars

=============================================================================
