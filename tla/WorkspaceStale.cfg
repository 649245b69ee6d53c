SPECIFICATION Spec
CONSTANTS
  MaxTasks = 2
  MaxData = 1
PROPERTIES
  StaleEventsAreIgnored
