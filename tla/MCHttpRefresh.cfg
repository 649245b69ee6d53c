\* Inputs are bounded, and a request may be the last thing.
CHECK_DEADLOCK FALSE
SPECIFICATION Spec
CONSTANTS
  UrlOf <- MCUrlOf
  PairsOf <- MCPairsOf
  Loads <- MCLoads
  TypedIn <- MCTypedIn
  MaxFrames = 3
  Keep = 2
  Shown = 2
INVARIANT RefreshedForThisClient
