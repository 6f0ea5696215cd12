CONSTANTS
  Types <- MCTypes
  SizeOf <- MCSizeOf
  AlignOf <- MCAlignOf
  Addrs <- MCAddrs
  MaxLen <- MCMaxLen
SPECIFICATION Spec
INVARIANTS
  TypeOK
  ViewInBounds
  ViewAligned
  PolicyRespected
  NoSpuriousError
  NoPanic
PROPERTIES
  ContractRefinement
