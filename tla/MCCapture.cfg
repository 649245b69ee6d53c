\* A session that is closed, and one that waits for ever in join(), stop.
CHECK_DEADLOCK FALSE
SPECIFICATION FairSpec
CONSTANTS
  Kinds <- MCKinds
  Filters <- MCFilters
  ChanCap = 2
  MaxPackets = 3
  MaxWire = 4
  MaxKeylog = 1
  MaxFiles = 2
  MaxBytes = 2
  BlockBytes <- MCBlockBytes
  SectionBytes = 1
  InterfaceBytes = 1
INVARIANTS
  TypeOK
  StoreIsNewestWindow
  InWireOrder
  RunningThreadIsShown
  DiskRingKeepsNewest
PROPERTIES
  FilterEnforced
  SelectionSurvivesTraffic
  IsPacketLog
  StopReturnsWithRoom
