SPECIFICATION FairSpec
CONSTANTS
  Bytes = {x, y}
  SockSize = 3
  BufSize = 2
  MaxSent = 5
PROPERTIES LineKept NothingStranded
CHECK_DEADLOCK FALSE
