SPECIFICATION Spec
CONSTANTS
  Conns = {c1}
  Listeners = {"http", "https"}
  TlsListeners = {"https"}
  Kinds <- MCKinds
  HeaderLen <- MCHeaderLen
  BodyLen <- MCBodyLen
  KeepAlive = {"get", "post", "bad", "over", "exact", "huge", "ws"}
  Malformed = {"bad"}
  Proxied = {"ws"}
  Upgrades = {"ws"}
  OverSiteLimit = {"over"}
  BufSize = 4
  RecordMax = 3
  MaxEvents = 4
  KeepAliveEnabled = TRUE
  KeepAliveMax = 2
  KeepAliveTimeout = 1
  MaxReqs = 3
INVARIANTS
  TypeOK
  ParkedNeedsInput
  ReadNeverBlocks
  FittingRequestServed
  ConnectionsAccounted
PROPERTIES
  KeepsPromise
CHECK_DEADLOCK FALSE
