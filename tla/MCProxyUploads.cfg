\* Once every client has left there is nothing to do.
CHECK_DEADLOCK FALSE
SPECIFICATION FairSpec
CONSTANTS
  Clients = {1, 2}
  Loads <- MCCrowd
PROPERTIES
  UploadsFlow
