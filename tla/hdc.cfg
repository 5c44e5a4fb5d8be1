SPECIFICATION Spec
CONSTANTS
  Places = 3
  Buffers = 2
  Low = 1
  Hi = 1
  MaxCnt = 2
  Data = {"0", "x"}
  Zero = "0"
  Sectors <- MCSectors
  Files <- MCFiles
  ReadOnly = {}
  Relocates = {1}
PROPERTIES MediaKept EveryArmedAnswered
