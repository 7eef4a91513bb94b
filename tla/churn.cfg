SPECIFICATION Spec
CHECK_DEADLOCK FALSE
CONSTANTS
  AlphaNum = 1
  AlphaDen = 2
  Client = {1, 2}
  BufferSize = 2
  SendBuffer = 2
  NumFd = 4
  MaxRequests <- Once
  MaxConnects <- SecondConnects
  MaxOpen = 1
  Asks = {"page"}
  Listing <- ListingValue
  Measured = {5}
  DnsModes = {FALSE}
  EraseOutcomes = {"advance", "abort"}
  Faults = {"clientClose", "serverClose"}
INVARIANTS FdOwnership NoBlockingRead NoCrossTalk
