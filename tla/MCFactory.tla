------------------------------- MODULE MCFactory -------------------------------
(***************************************************************************)
(* Factory with nodes of two entries.                                      *)
(***************************************************************************)
EXTENDS FactoryProps, TLC

\* Slots have no order and no names.
Symmetry == Permutations(Slots)

=============================================================================
