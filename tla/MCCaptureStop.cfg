\* A session that is closed stops.
CHECK_DEADLOCK FALSE
SPECIFICATION FairSpec
CONSTANTS
  Kinds <- MCKinds
  Filters <- MCFilters
  ChanCap = 1
  MaxPackets = 2
  MaxWire = 2
  MaxKeylog = 0
  MaxFiles = 1
  MaxBytes = 2
  BlockBytes <- MCBlockBytes
  SectionBytes = 1
  InterfaceBytes = 1
PROPERTIES
  StopReturns
