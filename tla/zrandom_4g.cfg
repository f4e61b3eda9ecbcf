SPECIFICATION Spec
CONSTANTS
  BlockSize = 2
  FileSizes = {5}
  Deflated = {3, 5}
  Iterators = {it}
  MaxEntries = 2
  TimeMod = 64
  UIntMod = 8
INVARIANT PosInBlock
