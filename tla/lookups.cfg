SPECIFICATION Spec
CHECK_DEADLOCK FALSE
CONSTANTS
  p1 = p1
  p2 = p2
  p3 = p3
  h1 = h1
  h2 = h2
  Proxy = {p1}
  NoHost = NoHost
  Domain = Domain
  Unknown = Unknown
  NoProxy = NoProxy
  Hosts <- HostsValue
  Nearest <- NearestValue
  Modes = {"RR"}
  MaxLookups <- TwiceEach
  Leaving = {}
  TextLength <- LengthValue
  ShortReads = {}
INVARIANT ProxiesStayUp
