--------------------------- MODULE MCReclaimFactory ---------------------------
(***************************************************************************)
(* ReclaimFactory with three slabs of two places.                          *)
(***************************************************************************)
EXTENDS ReclaimFactoryProps

=============================================================================
