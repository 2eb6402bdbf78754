----------------------------- MODULE MCBlockArray -----------------------------
(***************************************************************************)
(* BlockArray with blocks of two elements and a first table of two blocks. *)
(***************************************************************************)
EXTENDS BlockArrayProps, TLC

\* Blocks have no order and no names.
Symmetry == Permutations(Blocks)

=============================================================================
