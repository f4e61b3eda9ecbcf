SPECIFICATION Spec
CONSTANTS
  Inputs <- SmallInputs
  PathLists <- SmallPathLists
  UIntMod = 16
INVARIANTS BsonFinds NaiveFinds
PROPERTY BaselinesEnd
CHECK_DEADLOCK FALSE
