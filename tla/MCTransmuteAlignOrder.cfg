CONSTANTS
  Types <- MCTypes
  SizeOf <- MCSizeOf
  AlignOf <- MCAlignOf
  Addrs <- MCAddrs
  MaxLen <- MCMaxLen
SPECIFICATION Spec
INVARIANT AlignmentCheckedFirst
