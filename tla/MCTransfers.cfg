SPECIFICATION ScopeSpec
CONSTANTS
  Blocks = 3
  MaxRetries = 2
  TryMod = 5
  Chunks = 3
  MaxRanges = 2
  Room = 2
  MaxUpdates = 2
  MaxFaults = 1
  Byte = {"CR", "LF", "hyphen", "b", "x"}
  Boundary <- MCBoundary
  MaxParts = 3
  MaxData = 4
  BUFF_SIZE = 4
  AES_BLK_SIZE = 2
  Ratio = 3
  Lengths = {0, 1, 5, 7}
  Trailing = {0, 4}
  N = 2
  Tries = 3
  LockFirst = TRUE
  Spurious = FALSE
INVARIANTS
  DownloadRight
  DeltaRight
  MultipartRight
  CopyRight
  ProcessesRight

  
CHECK_DEADLOCK FALSE
