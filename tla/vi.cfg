SPECIFICATION GuestSpec
CONSTANTS
  Chain <- MCChain
  Chip <- MCChip
  Console = "A"
  Script = 2
  WirePeriod = 6
  MinPeriod = 7
  MaxPeriod = 8
  Constants = {0, 20}
INVARIANTS DiskOwed VectorAsked
PROPERTY DiskDelivered
