SPECIFICATION Spec
CONSTANTS
  Collections <- AnyTextCollections
  PathLists <- AnyPathLists
  Appended = {}
  Modes = {"direct", "stream", "mapped"}
  MaxText = 5
INVARIANTS NodeParity RangesOrdered StaysInside AnswersInDocument ParensThere RootsInTurn LiteralsWhole
PROPERTIES CursorAdvances ChildCounted SelectEnds
CHECK_DEADLOCK FALSE
