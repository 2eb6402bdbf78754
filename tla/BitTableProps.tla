----------------------------- MODULE BitTableProps -----------------------------
(***************************************************************************)
(* What should hold of bit_tables and bit_cells, and of the functions on   *)
(* bits that they are built from.                                          *)
(***************************************************************************)
EXTENDS BitTable, BitsProps

\* What a call can be, as a change of grids.
GridCalls ==
       [op : {"make"}, at : Objects, lo : Int, size : [w : Nat, h : Nat], value : BitValues]
  \cup [op : {"found"}, at : Objects, lo : Int, size : [w : Nat, h : Nat]]
  \cup [op : {"duplicate"}, at : Objects, of : Objects]
  \cup [op : {"drop", "lose"}, at : Objects]
  \cup [op : {"move"}, at : Objects, of : Objects]
  \cup [op : {"word"}, at : Objects, part : SUBSET ((Int \X Int) \X BitValues)]
  \cup [op : {"change"}, at : Objects, to : Int \X Int, size : [w : Nat, h : Nat],
        how : {"set", "not"} \cup RegionOps, value : BitValues]
  \cup [op : {"frame"}, at : Objects, size : [w : Nat, h : Nat], value : BitValues]
  \cup [op : {"set"} \cup RegionOps, at : Objects, to : Int \X Int, of : Objects,
        from : Int \X Int, size : [w : Nat, h : Nat]]

\* A table whose setup() threw (bit_table.hpp:391-394 and 403-406) has the words
\* of a table of any size, or none.
TornType(x) ==
  /\ x.kind = "torn"
  /\ x.size \in TableSizes
  /\ \/ x.data = << >>
     \/ \E n \in TableSizes : x.data \in [0 .. TableWords(n) - 1 -> SUBSET WordBits]

\* An object has the words that its kind and size call for, whatever was set up,
\* copied, moved or written, but for a table whose setup() threw.
TypeOK ==
  /\ DOMAIN obj = Objects
  /\ calls \in 0 .. MaxCalls
  /\ \A o \in Objects :
       \/ obj[o] \in {None, Shell} \/ TornType(obj[o])
       \/ /\ obj[o].kind = "table" /\ obj[o].size \in TableSizes
          /\ obj[o].data \in [0 .. TableWords(obj[o].size) - 1 -> SUBSET WordBits]
       \/ /\ obj[o].kind = "cell" /\ obj[o].size \in CellSizes
          /\ obj[o].data \in [0 .. CellWords(obj[o].size) - 1 -> SUBSET WordBits]

\* The values of an object that can be used, without the words they are packed in.
GridOf(x) ==
  IF x.kind \in {"table", "cell"} THEN [c \in Coords(x) |-> Value(x, c)] ELSE << >>

\* Every call changes the values it is asked to change, to what its name says,
\* and no other value, in its own word, the next row, the buffer or another
\* object: bit_index, the loops of bit_ops and set_buffer agree on where
\* values are.
Grids == INSTANCE BitGrids WITH
  Full <- ValueBits,
  Calls <- GridCalls,
  grid <- [o \in Objects |-> GridOf(obj[o])]
ImplementsGrids == Grids!Spec

\* What the checks of region() in a debug build assert: the word it returns has
\* the values of the region in row-major order.  The reads that gather it stay
\* within the table, although they are longer than the row that is left.
RegionsMatch ==
  \A o \in Tables :
    \A r \in Regions(-BufferSize, Pad(obj[o].size)) :
      RegionReadable(r.size) =>
        LET x == obj[o]
            id == BitIndex(x, r.at)
            n == RowWords(x.size)
        IN  /\ RegionWords(n, id, r.size) \subseteq 0 .. TableWords(x.size) - 1
            /\ Tight =>
                 Region(x.data, n, id, r.size)
                   = UNION { LeftShift(Value(x, <<r.at[1] + s[1], r.at[2] + s[2]>>),
                                       BitCount * (s[2] * r.size.w + s[1]))
                             : s \in Box(0, 0, r.size) }

\* operator== compares the words of bit_cells: they are the same when, and only
\* when, the sizes and the values are, so that the bits that belong to no value
\* say nothing ("ensure non-used bits at end are set to zero").
EqualMeansSame ==
  \A o, p \in Cells :
    (obj[o].size = obj[p].size /\ obj[o].data = obj[p].data)
      <=> GridOf(obj[o]) = GridOf(obj[p])

-----------------------------------------------------------------------------

\* What holds of the functions of util/ does not change with the state: it is
\* evaluated in the first.
AtFirst(P) == calls = 0 => P

\* make_mask has the bits it names, in types narrower and wider than int; so has
\* make_msb_mask in those as wide as int (DocumentedBits has the others).
Masks == AtFirst(MasksMatch)

\* What moves a field of a word moves nothing else, and no sign comes with it.
Fields == AtFirst(FieldsMatch)

\* Shifts are products and quotients by powers of two, neutral ones those of
\* unsigned numbers (DocumentedBits has those of constants); the highest bit of
\* a number, on which the levels of chunks and the powers are built, is the right
\* one; and the powers are.
Numbers == AtFirst(NumbersMatch /\ MathMatches)

\* What is packed comes out again, with its sign.
Packs == AtFirst(PacksRoundTrip)

\* Of two comments of bits.hpp one at least describes what the code does in
\* every type: "make_msb_mask: bit mask from msb" (line 87), or that the neutral
\* shift of a constant "always inserts 0, even for negative numbers" (line 203,
\* 276 for both directions).  It is false only when neither does.
DocumentedBits == AtFirst(MsbMasksAsSaid \/ NeutralShiftsAsSaid)

=============================================================================
