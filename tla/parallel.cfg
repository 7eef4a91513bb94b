SPECIFICATION Spec
CHECK_DEADLOCK FALSE
CONSTANTS
  AlphaNum = 1
  AlphaDen = 2
  Client = {1}
  BufferSize = 2
  SendBuffer = 2
  NumFd = 3
  MaxRequests <- Twice
  MaxConnects <- Twice
  MaxOpen = 2
  Asks = {"page"}
  Listing <- ListingValue
  Measured = {5}
  DnsModes = {FALSE}
  EraseOutcomes = {}
  Faults = {}
INVARIANT AnswersGoToAsker
