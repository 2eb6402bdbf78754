---------------------------- MODULE SliceArrayProps ----------------------------
(***************************************************************************)
(* What arrays and their factory must not do to each other.                *)
(***************************************************************************)
EXTENDS SliceArray

\* The arrays that have memory.
Holders == { a \in Arrays \ stale : array[a].level # Empty }

\* Each chunk of the factory is held by one array or in the list of its level:
\* no array loses one, gives one back twice or shares one with another.
ChunksOfArrays ==
  /\ \A a, b \in Holders : a # b => array[a].front # array[b].front
  /\ ChunksIn(factory, [l \in Levels |->
       { array[a].front : a \in { b \in Holders : Lift(array[b].level) = l } }])

\* The elements of each array.
Elements == [a \in Arrays |->
  IF a \in Holders THEN [i \in 1 .. array[a].count |-> Element(factory, array[a], i - 1)]
  ELSE << >>]

Lists == INSTANCE ArrayStore WITH lists <- Elements

\* Each array is the sequence that the calls made of it: assign leaves what it was
\* given, resize the elements there were and the new value behind them, also when
\* the chunk is another one; and neither a call on another array nor the
\* factory's links write in it (slice_array.hpp:66-148).
ImplementsArrays == Lists!Spec

-----------------------------------------------------------------------------
(* The inductive invariant *)

\* What a word of a block may hold.
ArrayWords == Pointers \cup {NULL, Data} \cup Values

ArrayInv ==
  /\ factory \in Factories(ArrayWords)
  /\ Sound(factory)
  /\ array \in [Arrays -> [front : Pointers \cup {NULL}, count : 0 .. MaxCount,
                           level : (0 .. MaxLevel) \cup {Empty}]]
  /\ stale \subseteq Arrays
  /\ \A a \in Arrays : array[a].level = Empty => array[a].count = 0
  /\ \A a \in Holders :
       array[a].front \in Pointers /\ array[a].count <= SlicesOf[array[a].level]
  /\ ChunksOfArrays

=============================================================================
