CONSTANTS
  NOPERS = 1
  BUFFER_SIZE = 2
  FileSizes = {0, 1, 2, 3, 4, 5}
  IOMayFail = FALSE
SPECIFICATION FairCopySpec
PROPERTIES CopyTerminates
CHECK_DEADLOCK FALSE
