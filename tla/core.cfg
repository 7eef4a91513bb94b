SPECIFICATION FairSpec
CHECK_DEADLOCK FALSE
CONSTANTS
  AlphaNum = 1
  AlphaDen = 2
  Client = {1, 2}
  BufferSize = 2
  SendBuffer = 2
  NumFd = 4
  MaxRequests <- TwoStreams
  MaxConnects <- Once
  MaxOpen = 1
  Asks = {"manifest", "chunk"}
  Listing <- ListingValue
  Measured = {5, 20}
  DnsModes = {FALSE}
  EraseOutcomes = {}
  Faults = {}
INVARIANTS AnswersGoToAsker PlayerNeverSeesBitrates ChunkAtBestBitrate LogMatchesResponse RequestInOnePlace LearntBitratesKept StaysUp
PROPERTIES Answered Forwards
