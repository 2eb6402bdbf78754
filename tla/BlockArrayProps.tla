---------------------------- MODULE BlockArrayProps ----------------------------
(***************************************************************************)
(* What makes BlockArray an array whose elements stay where they are and   *)
(* are destroyed once, and whose blocks are not lost.                      *)
(***************************************************************************)
EXTENDS BlockArray, Sequences

\* Types of the table, the sizes and the memory of the blocks.
TypeOK ==
  /\ access_size \in 0 .. Modulus - 1
  /\ access \in [0 .. access_size - 1 -> Blocks \cup {NULL}]
  /\ access_at \in Nat \cup {NULL}
  /\ data_size \in 0 .. MaxSize
  /\ store \in [Blocks -> [Slots -> Values \cup {Raw}]]
  /\ live \in SUBSET Blocks

Entries == 0 .. access_size - 1
Position(i) == <<access[Block(i)], Offset(i)>>
Indices == 0 .. data_size - 1

\* The table: its blocks are different, and there is none after a null entry,
\* on which reset() relies to find them all when elements are gone (after
\* clear()) and when they never filled the table.
TableConsistent ==
  /\ \A i, j \in Entries : access[i] # NULL /\ access[i] = access[j] => i = j
  /\ \A i, j \in Entries : access[i] # NULL /\ j < i => access[j] # NULL

\* No block is lost and none is used after it was given back: the allocated
\* blocks are those of the table, across growth, clear() and reset().
NoLeaks == live = { access[i] : i \in Entries } \ {NULL}

\* The entry being filled is the one of the next element, unless a new block
\* begins there.
FillsNext ==
  /\ access_at = NULL <=> Offset(data_size) = 0
  /\ access_at # NULL => access_at = Block(data_size)

\* Each object that is alive is one element of the array, and each element is
\* alive: none is destroyed twice or never.
ObjectsMatch ==
  \A b \in Blocks, j \in Slots :
    store[b][j] # Raw <=> \E i \in Indices : Position(i) = <<b, j>>

\* Element access: its assert (block_array.hpp:305 and 311) holds for every
\* index that at() lets through.
ElementsReachable ==
  \A i \in Indices : Block(i) \in Entries \cap DOMAIN access /\ access[Block(i)] # NULL

\* The assert of push_next_address (block_array.hpp:193): the elements fit in
\* the table, in uint32 arithmetic.
CapacitySuffices == data_size <= Wrap(access_size * BlockCount)

\* The asserts of update_access, which the next push would call.
UpdateAsserts ==
  access_at = NULL =>
    /\ access = NoTable => Block(data_size) = 0
    /\ access # NoTable => Block(data_size) <= access_size

\* All asserts of block_array.hpp hold for a client within half the range of
\* uint32.
AssertionsHold == ElementsReachable /\ CapacitySuffices /\ UpdateAsserts

\* The client stays within half the range of uint32.
NoOverflow == 2 * MaxSize <= Modulus

-----------------------------------------------------------------------------

\* No push moves an element or changes it: references to elements survive the
\* growth of the table.
ElementsStay ==
  [][data_size' > data_size =>
       \A i \in Indices :
         /\ Position(i)' = Position(i)
         /\ store'[Position(i)[1]][Position(i)[2]] = store[Position(i)[1]][Position(i)[2]]
    ]_vars

\* operator[], at() and the iterators.
Element(i) == store[access[Block(i)]][Offset(i)]

List == INSTANCE AppendList WITH list <- [k \in 1 .. data_size |-> Element(k - 1)]

\* The array is the sequence of what was pushed since it was last emptied.
ImplementsList == List!Spec

-----------------------------------------------------------------------------

\* The elements fit in the table, and half of the table in half of the range.
Capacity ==
  /\ access_size * BlockCount < Modulus
  /\ data_size <= access_size * BlockCount

\* The inductive invariant.
Inv ==
  /\ TypeOK
  /\ TableConsistent
  /\ NoLeaks
  /\ FillsNext
  /\ ObjectsMatch
  /\ ElementsReachable
  /\ Capacity

=============================================================================
