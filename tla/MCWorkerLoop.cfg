SPECIFICATION FairSpec
CONSTANTS
  Conns = {c1, c2}
  Listeners = {"http"}
  TlsListeners = {}
  Kinds <- MCKinds
  HeaderLen <- MCLen
  BodyLen <- MCBody
  KeepAlive = {"get"}
  Malformed = {}
  Proxied = {}
  Upgrades = {}
  OverSiteLimit = {}
  BufSize = 3
  RecordMax = 1
  MaxEvents = 4
  KeepAliveEnabled = TRUE
  KeepAliveMax = 2
  KeepAliveTimeout = 1
  MaxReqs = 2
INVARIANTS
  EventsAreLive
PROPERTIES
  RequestsAreAnswered
  IdleIsSwept
  StopEndsWorker
CHECK_DEADLOCK FALSE
