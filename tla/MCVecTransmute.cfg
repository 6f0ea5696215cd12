CONSTANTS
  Types <- MCTypes
  SizeOf <- MCSizeOf
  AlignOf <- MCAlignOf
  Handles = {h1, h2, h3}
  Allocs = {a1, a2}
  NoAlloc = NoAlloc
  MaxCap = 2
SYMMETRY Symmetry
SPECIFICATION Spec
INVARIANTS
  OwnedLayout
  UniqueOwner
  NoLeak
PROPERTIES
  StorageRefinement
