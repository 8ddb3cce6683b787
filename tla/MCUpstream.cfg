SPECIFICATION FairSpec
CONSTANTS
  Relays = {"php", "proxy"}
  Heads <- MCHeads
  BodyUnits <- MCBody
  HeldMax = 6
  ReadMax = 7
  Misannounce = TRUE
INVARIANTS
  PayloadRelayed
  OneResponse
  FramedExactly
PROPERTIES
  RelayReturns
CHECK_DEADLOCK FALSE
