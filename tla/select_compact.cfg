SPECIFICATION Spec
CONSTANTS
  Collections <- CompactCollections
  PathLists <- MemberPaths
  Appended = {}
  Modes = {"stream", "mapped"}
INVARIANT SameAttributes
CHECK_DEADLOCK FALSE
