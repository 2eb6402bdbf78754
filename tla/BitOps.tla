-------------------------------- MODULE BitOps --------------------------------
(***************************************************************************)
(* bit_ops of bit_table.hpp: small values packed in words.  A word, and a  *)
(* value in it, is the set of its bits that are one; an array is a         *)
(* function from 0 .. n - 1 to words.  An index counts bits from the start *)
(* of the array.                                                           *)
(***************************************************************************)
EXTENDS Bits, Sequences

CONSTANTS
  BitCount,   \* of a value
  PackBits,   \* of a word
  CharBits    \* CHAR_BIT: the memory is addressed in units of these

\* The widths that values and words can have.
Powers == {1, 2, 4, 8, 16, 32, 64}

ASSUME BitOpsAssumption ==
  /\ BitCount \in 1 .. PackBits
  /\ PackBits \in Powers
  /\ CharBits \in 1 .. PackBits /\ PackBits % CharBits = 0

\* pack_type, and bit_mask.
PackType == [bits |-> PackBits, signed |-> FALSE]
ValueBits == make_mask(PackBits, BitCount, 0)
WordBits == BitsOf(PackBits)
BitValues == SUBSET ValueBits

\* 2 ^ bit_adj: values start at multiples of the next power of two.
Stride == Min({ n \in Powers : n >= BitCount })

\* item_count: the values of a word.
Items == PackBits \div Stride

\* Nothing is between the values of a word.
Tight == Stride = BitCount

-----------------------------------------------------------------------------

LeftShift(w, s) == bit_left_shift(PackType, w, s)
RightShift(w, s) == bit_right_shift(PackType, w, s)
Xor(v, w) == (v \ w) \cup (w \ v)

Word(id) == id \div PackBits
Bit(id) == id % PackBits

BitGet(d, id) == RightShift(d[Word(id)], Bit(id)) \cap ValueBits

\* The bits of the word that the value at id has, and v in their place.
There(id, v) == LeftShift(v \cap ValueBits, Bit(id))

BitSet(d, id, v) ==
  [d EXCEPT ![Word(id)] = (@ \ There(id, ValueBits)) \cup There(id, v)]
BitClear(d, id) == [d EXCEPT ![Word(id)] = @ \ There(id, ValueBits)]
BitOr(d, id, v) == [d EXCEPT ![Word(id)] = @ \cup There(id, v)]
BitAnd(d, id, v) == [d EXCEPT ![Word(id)] = @ \ There(id, WordBits \ v)]
BitXor(d, id, v) == [d EXCEPT ![Word(id)] = Xor(@, There(id, v))]
BitNand(d, id, v) ==
  [d EXCEPT ![Word(id)] = Xor(@ \ There(id, WordBits \ v), There(id, ValueBits))]
BitNot(d, id) == [d EXCEPT ![Word(id)] = Xor(@, There(id, ValueBits))]

RegionOps == { "or", "and", "xor", "nand" }

\* The function that region_op takes for OP.
BitOp(op, d, id, v) ==
  CASE op = "or" -> BitOr(d, id, v)
    [] op = "and" -> BitAnd(d, id, v)
    [] op = "xor" -> BitXor(d, id, v)
    [] op = "nand" -> BitNand(d, id, v)

-----------------------------------------------------------------------------
(* The loops over a region of n.w columns and n.h rows.  An adj_index, from *)
(* which they start, is an index and the number of bits to the next row.   *)

Cursor(id, row) == [id |-> id, row |-> row]

\* Columns and rows from the start, in the order in which they are visited.
RowMajor(n) ==
  [k \in 1 .. n.w * n.h |-> <<(k - 1) % n.w, (k - 1) \div n.w>>]

\* adj_col and adj_row
At(c, step) == c.id + step[1] * Stride + step[2] * c.row

\* In all of these m has the arrays by name: p may be q.
Copied(m, n, p, from, q, to) ==
  FoldLeft(LAMBDA r, s : [r EXCEPT ![q] = BitSet(@, At(to, s), BitGet(r[p], At(from, s)))],
           m, RowMajor(n))

\* flip: the assert of bit_set, that no bit above the value is set, does not
\* hold of a complement; this is what a build without asserts does.
Flipped(d, n, at) ==
  FoldLeft(LAMBDA r, s : BitSet(r, At(at, s), WordBits \ BitGet(r, At(at, s))),
           d, RowMajor(n))

Merged(op, m, n, p, from, q, to) ==
  FoldLeft(LAMBDA r, s :
             [r EXCEPT ![q] = BitOp(op, @, At(to, s), BitGet(r[p], At(from, s)))],
           m, RowMajor(n))

Filled(op, d, v, n, at) ==
  FoldLeft(LAMBDA r, s : BitOp(op, r, At(at, s), v), d, RowMajor(n))

-----------------------------------------------------------------------------
(* region: W columns and H rows in one word.  A row is read as a size_t at *)
(* the address of the byte its first value starts in, which need not be    *)
(* that of a word.  Words are of type size_t, and little endian.           *)

Chars == PackBits \div CharBits

\* What is read at an address, and the words it is read from.
SizeAt(d, a) ==
  { b \in WordBits :
      LET bit == a * CharBits + b IN Bit(bit) \in d[Word(bit)] }
SizeWords(a) == { Word(a * CharBits), Word(a * CharBits + PackBits - 1) }

RegionAddress(id) == Word(id) * Chars + Bit(id) \div CharBits

\* The address at which row j of the region is read.
RowAddress(rowWords, id, j) == RegionAddress(id) + j * rowWords * Chars

\* One read has all bits of a row: the static condition on W.
RegionReadable(n) ==
  n.w > 1 /\ n.w * n.h <= Items /\ n.w * BitCount <= (Chars - 1) * CharBits

\* Row j, at its place in the result.
RegionRow(d, rowWords, id, n, j) ==
  LET bits == n.w * BitCount
  IN  bit_shift_from_to(PackType, SizeAt(d, RowAddress(rowWords, id, j)),
                        Bit(id) % CharBits, j * bits)
        \cap make_mask(PackBits, bits, j * bits)

Region(d, rowWords, id, n) ==
  UNION { RegionRow(d, rowWords, id, n, j) : j \in 0 .. n.h - 1 }

RegionWords(rowWords, id, n) ==
  UNION { SizeWords(RowAddress(rowWords, id, j)) : j \in 0 .. n.h - 1 }

=============================================================================
