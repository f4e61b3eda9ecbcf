SPECIFICATION Spec
CONSTANTS
  BlockSize = 2
  FileSizes = {5}
  Deflated = {1}
  Iterators = {it}
  MaxEntries = 2
  TimeMod = 64
  UIntMod = 64
PROPERTY EvictsOldest
