SPECIFICATION FairSpec
CHECK_DEADLOCK FALSE
CONSTANTS
  AlphaNum = 1
  AlphaDen = 2
  Client = {1}
  BufferSize = 2
  SendBuffer = 2
  NumFd = 2
  MaxRequests <- Once
  MaxConnects <- Once
  MaxOpen = 1
  Asks = {"page"}
  Listing <- ListingValue
  Measured = {5}
  DnsModes = {FALSE}
  EraseOutcomes = {}
  Faults = {"noLength"}
PROPERTY Answered
