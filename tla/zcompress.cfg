SPECIFICATION CompressSpec
CONSTANTS
  BlockSize = 2
  FileSizes = {0, 1, 2, 3, 4, 5, 6, 7}
  Deflated = {1, 2, 3, 4, 5}
INVARIANTS CompressTypeOK BlocksLaidOut HeaderCommits
PROPERTY CompressEnds
CHECK_DEADLOCK FALSE
