SPECIFICATION Spec
CONSTANTS
  BlockSize = 2
  FileSizes = {0, 4, 5}
  Deflated = {3}
  Iterators = {it, jt}
  MaxEntries = 2
  TimeMod = 4
  UIntMod = 64
INVARIANTS ZTypeOK UnfinishedShows BlocksWhole RecencyKnown
PROPERTY ReadsOriginal
