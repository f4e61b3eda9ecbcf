SPECIFICATION Spec
CONSTANTS
  Collections <- BlankObjectCollections
  PathLists <- KeyOfEmpty
  Appended = {}
  Modes = {"mapped"}
INVARIANT AbsentIsNull
CHECK_DEADLOCK FALSE
