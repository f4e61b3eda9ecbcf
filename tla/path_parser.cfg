SPECIFICATION PathSpec
CONSTANTS
  Specs <- AllSpecs
  IntMax = 10
  MaxSpec = 5
INVARIANTS PathsUsable ParsesAsWritten
PROPERTY ParseEnds
CHECK_DEADLOCK FALSE
