CONSTANTS
  Types <- MCZstTypes
  SizeOf <- MCZstSizeOf
  AlignOf <- MCZstAlignOf
  Addrs <- MCAddrs
  MaxLen <- MCMaxLen
SPECIFICATION Spec
INVARIANT NoPanic
