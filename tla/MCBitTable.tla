------------------------------ MODULE MCBitTable ------------------------------
(***************************************************************************)
(* Two objects: tables with a buffer of one and cells, of words that have  *)
(* four values; and words of four widths for the functions on bits.        *)
(***************************************************************************)
EXTENDS BitTableProps, TLC

CONSTANTS TableWidths, TableHeights, CellWidths, CellHeights

\* Types narrower than int, as wide and wider.
MCTypes == [bits : {1, 3, 4, 6}, signed : BOOLEAN]
MCPackTypes == [bits : {3, 4}, signed : BOOLEAN]

MCBases == -2 .. 2
MCDividends == -9 .. 9
MCDivisors == (-4 .. 4) \ {0}

MCTableSizes == [w : TableWidths, h : TableHeights]
MCCellSizes == [w : CellWidths, h : CellHeights]

\* Objects have no names.
Symmetry == Permutations(Objects)

\* What the last call was has no part in the next one.
View == <<obj, calls>>

=============================================================================
