CONSTANTS
  Ips = 3
  MaxInsns = 7
  MaxGap = 4
SPECIFICATION RtcSpec
INVARIANTS TimeConserved SelectedOnly
