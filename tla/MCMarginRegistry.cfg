\* Three slots and four assets in each of the three registries.
CONSTANTS
  Indexes = {i1, i2, i3, i4}
  Empty = Empty
  MaxAssets = 3
SPECIFICATION Spec
INVARIANTS
  CountsMatchSlots
  LiteAlwaysReadable
PROPERTIES
  ImplementsSets
SYMMETRY Symmetric
