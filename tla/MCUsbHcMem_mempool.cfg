SPECIFICATION Spec
CONSTANTS
  MemoryUnits = 14
  UnitsPerPage = 2
  DefaultPages = 2
  Sizes <- MCSizes
  DmaShifts <- MCDmaShifts
  Alignments <- MCAlignments
  MaxPieces = 3
INVARIANT MemInvariant
INVARIANT AddressesTranslate
PROPERTY ImplementsMemory
