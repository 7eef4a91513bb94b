SPECIFICATION Spec
CHECK_DEADLOCK FALSE
CONSTANTS
  AlphaNum = 1
  AlphaDen = 2
  Client = {1, 2}
  BufferSize = 2
  SendBuffer = 2
  NumFd = 3
  MaxRequests <- SecondAsks
  MaxConnects <- SecondConnects
  MaxOpen = 1
  Asks = {"page", "manifest", "chunk"}
  Listing <- ListingValue
  Measured = {20}
  DnsModes = {TRUE, FALSE}
  EraseOutcomes = {"advance", "revisit", "abort"}
  Faults = {"clientClose", "serverClose", "serverAbort", "refuse", "noLength", "notFound", "noAddress"}
INVARIANTS TypeOK FdOwnership NoCrossTalk LeaksLimited LostOnlyWithServer SteadyAnswers SteadyBitrates
