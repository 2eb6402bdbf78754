---------------------------- MODULE MCReuseFactory ----------------------------
(***************************************************************************)
(* ReuseFactory with nodes of two entries, and a list longer than there    *)
(* are slots.                                                              *)
(***************************************************************************)
EXTENDS ReuseFactoryProps, TLC

\* Slots have no order and no names.
Symmetry == Permutations(Slots)

=============================================================================
