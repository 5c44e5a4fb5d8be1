SPECIFICATION Spec
CONSTANTS
  MaxFd = 4
  HostMax = 6
  Word = 4
  InstMax = 1
  StructLen = 2
  DirLen = 1
  Ids = {0, 3}
  Gaps = {"dup", "fork", "200"}
  Accepted = {"fork"}
  Beyond = {"200"}
  Budget = 5
INVARIANTS DescriptorsRight ReportTruthful
PROPERTIES DoneOrRefused
CHECK_DEADLOCK FALSE
