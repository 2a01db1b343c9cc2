SPECIFICATION FairSpec
CONSTANTS
  Hold = 2
  Late = 2
  MaxTokens = 2
  MaxOutages = 2
  MaxFaults = 2
  FormChars = {37, 38, 43, 52, 61, 115}
  MaxForm = 5
  MaxName = 1
  MaxField = 4
INVARIANTS
  NoLockOut
  FormsReadAsTyped
PROPERTIES
  TokenStands
  ClearsOnlyWhenHeld
  HeldLeavesStation
