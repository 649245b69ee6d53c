SPECIFICATION Spec
CONSTANTS
  Kinds = {"big"}
  Base = 4
  Lf = 1
  Cr = 2
  Bad = 3
  PrefixSize = 2
  MaxFrame = 2
  Payloads <- MCPayloads
  Composed <- MCComposed
  MaxSaid = 1
  MaxOut = 0
INVARIANTS
  LengthPrefixedRoundTrip
CHECK_DEADLOCK FALSE
