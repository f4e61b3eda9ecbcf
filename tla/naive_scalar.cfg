SPECIFICATION Spec
CONSTANTS
  Inputs <- ScalarInputs
  PathLists <- ThroughScalar
  UIntMod = 16
INVARIANT NaivePrintsNull
CHECK_DEADLOCK FALSE
