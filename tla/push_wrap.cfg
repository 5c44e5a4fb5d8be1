SPECIFICATION JobSpec
CONSTANTS
  Bits <- MCBits
  W = 8
  Segs = 2
  SegSize = 3
  LastSeg = 4
  ArgDesc = 0
  PoolBase = 16
  PoolLimit = 40
  Chars = {"a", "b"}
  Ports = {"p", "q"}
  Console = "p"
  MaxOut = 5
  MaxStack = 4
  MaxTicks = 3
  Jobs <- MCJobs
INVARIANT PushStoresAtSp
CHECK_DEADLOCK FALSE
