SPECIFICATION Spec
CONSTANTS
  Kinds = {"none", "newline", "big", "little"}
  Base = 4
  Lf = 1
  Cr = 2
  Bad = 3
  PrefixSize = 2
  MaxFrame = 2
  Payloads <- MCPayloads
  Composed <- MCComposed
  MaxSaid = 2
  MaxOut = 2
INVARIANTS
  TypeOK
  FramesAsSent
CHECK_DEADLOCK FALSE
