----------------------------- MODULE MCSliceArray -----------------------------
(***************************************************************************)
(* Two SliceArrays of up to three elements and their factory.               *)
(***************************************************************************)
EXTENDS SliceArrayProps, TLC

\* Blocks, arrays and values have no order and no names.
Symmetry == Permutations(Slabs) \cup Permutations(Arrays) \cup Permutations(Values)

\* States that differ only in memory that is no link of a list and no element
\* behave alike: it is written before it is read.
ElementWords ==
  UNION { { <<array[a].front[1], array[a].front[2] + i>> : i \in 0 .. array[a].count - 1 }
          : a \in Holders }
View ==
  <<[factory EXCEPT !.body =
       [s \in Slabs |-> [o \in Units |->
          IF <<s, o>> \in Linked(factory) \cup ElementWords THEN @[s][o] ELSE Data]]],
    array, stale>>

=============================================================================
