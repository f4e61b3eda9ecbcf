SPECIFICATION Spec
CONSTANTS
  Collections <- SpacedCollections
  PathLists <- SinglePaths
  Appended <- NewLines
  Modes = {"direct", "stream", "mapped", "compressed"}
INVARIANTS NothingUndefined ParsesBack
PROPERTY ExtractsValues
CHECK_DEADLOCK FALSE
