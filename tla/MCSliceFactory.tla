---------------------------- MODULE MCSliceFactory ----------------------------
(***************************************************************************)
(* SliceFactoryClient with blocks of three slices: chunks of one and two   *)
(* slices, and above them chunks with a block of their own.                *)
(***************************************************************************)
EXTENDS SliceFactoryClient, TLC

\* Blocks have no order and no names.
Symmetry == Permutations(Slabs)

\* States that differ only in links that no list leads to behave alike: the
\* memory is written before it is read as a link.
View ==
  <<[factory EXCEPT !.body =
       [s \in Slabs |-> [o \in Units |-> IF <<s, o>> \in Linked(factory) THEN @[s][o] ELSE Data]]],
    held, dangling>>

=============================================================================
