CONSTANTS
  NPc = 2
  Psa <- MCPsa
  GuestFcws <- MCGuestFcws
  Vectors = {"disk"}
  MaxFrames = 3
  NonSegNsp = FALSE
SPECIFICATION FairSpec
INVARIANTS BankOwner ContextsResumable TagFaithful
PROPERTIES IretRestores TrapsTaken
