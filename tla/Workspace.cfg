SPECIFICATION FairSpec
CONSTANTS
  MaxTasks = 2
  MaxData = 1
INVARIANTS
  TypeOK
  OneConnectionPerTab
PROPERTIES
  LiveTabsCloseOnlyWhenAsked
  OrphansEnd
  StatusIsOfTheConnection
  EndIsShown
