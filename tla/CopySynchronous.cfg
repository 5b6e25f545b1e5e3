CONSTANTS
  NOPERS = 1
  BUFFER_SIZE = 2
  FileSizes = {0, 1, 2, 3, 4, 5}
  IOMayFail = TRUE
SPECIFICATION CopySpec
INVARIANTS CopySameLength
CHECK_DEADLOCK FALSE
