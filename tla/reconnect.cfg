SPECIFICATION Spec
CHECK_DEADLOCK FALSE
CONSTANTS
  AlphaNum = 1
  AlphaDen = 2
  Client = {1}
  BufferSize = 2
  SendBuffer = 2
  NumFd = 2
  MaxRequests <- Twice
  MaxConnects <- Twice
  MaxOpen = 1
  Asks = {"manifest", "chunk"}
  Listing <- ListingValue
  Measured = {5}
  DnsModes = {FALSE}
  EraseOutcomes = {"advance"}
  Faults = {"clientClose"}
INVARIANT LearntBitratesKept
