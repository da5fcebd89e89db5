SPECIFICATION FairSpec
CONSTANTS
  Uses = {"peek"}
  StreamIDs = {2}
  Window = 2
  CWindow = 4
  Limit = 1
  WireCap = 1
  MaxChunk = 2
  RecordFrames = 2
  MaxStreamCount = 8
  StreamWindow <- MCStreamWindow
  StreamLimit <- MCStreamLimit
  ConnWindow <- MCConnWindow
  MaxIncoming <- MCMaxIncoming
  Opens <- MCOpens
  Calls <- MCCalls
  Sizes <- MCSizes
  PeekSizes <- MCPeekSizes
  MaxBytes <- MCMaxBytes
PROPERTIES
  PeekFills
CHECK_DEADLOCK FALSE
