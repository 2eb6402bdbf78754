CONSTANTS
  SlabN = 2
  MaxSlabs = 3
SPECIFICATION Spec
INVARIANT
  PlacesAccounted
PROPERTY
  GrowsWhenFull
