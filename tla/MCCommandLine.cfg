SPECIFICATION Spec
CONSTANTS
  MaxSites = 2
  Workers = {w1, w2}
  MaxFaults = 2
  Hosts <- MCHosts
  Lengths = {"0", "7"}
  MaxHeaders = 3
  HostParts <- MCHostParts
  Arrivals <- MCArrivals
  SiteLists <- MCSiteLists
  Names = {"a"}
  MaxWww = 3
  Ports <- MCPorts
  Addresses <- MCAddresses
  TableSize = 7
  Hash <- MCHash
  Threads = {t1, t2}
  AssetCount = 3
  HeaderLen <- MCHeaderLen
  BodyLen <- MCBodyLen
  HeaderBuf = 3
  ReadMax = 3
  MaxBreaks = 2
INVARIANTS
  SettingsReachFields
  ServedPairMatches
  ParsedAsDeclared
  RoutedAsDeclared
  RedirectsEnd
  ReportIsExact
CHECK_DEADLOCK FALSE
