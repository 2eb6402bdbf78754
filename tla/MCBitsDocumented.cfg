CONSTANTS
  IntBits = 4
  Types <- MCTypes
  Bases <- MCBases
  Dividends <- MCDividends
  Divisors <- MCDivisors
  PackTypes <- MCPackTypes
  MaxArgs = 3
  BitCount = 2
  PackBits = 8
  CharBits = 2
  Objects = {o1, o2}
  BufferSize = 1
  TableWidths = {2}
  TableHeights = {1}
  CellWidths = {5}
  CellHeights = {1}
  TableSizes <- MCTableSizes
  CellSizes <- MCCellSizes
  Inputs = {{0}, {0, 1}}
  Memory = {{}}
  MaxCalls = 1
SPECIFICATION Spec
SYMMETRY Symmetry
VIEW View
CHECK_DEADLOCK FALSE
INVARIANT
  DocumentedBits
