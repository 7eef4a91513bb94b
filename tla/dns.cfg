SPECIFICATION FairSpec
CHECK_DEADLOCK FALSE
CONSTANTS
  p1 = p1
  p2 = p2
  p3 = p3
  h1 = h1
  h2 = h2
  Proxy = {p1, p2, p3}
  NoHost = NoHost
  Domain = Domain
  Unknown = Unknown
  NoProxy = NoProxy
  Hosts <- HostsValue
  Nearest <- NearestValue
  Modes = {"RR", "GEO", "EMPTY"}
  MaxLookups <- LookupsValue
  Leaving = {p1}
  TextLength <- LengthValue
  ShortReads = {p1}
INVARIANTS TypeOK LogCycles UsesLoggedAddress
PROPERTIES PromiseKept LookupsEnd
