SPECIFICATION FairSpec
CONSTANTS
  Uses = {"live", "duplex"}
  StreamIDs = {0, 2, 6}
  Window = 2
  CWindow = 3
  Limit = 2
  WireCap = 1
  MaxChunk = 2
  RecordFrames = 2
  MaxStreamCount = 8
  StreamWindow <- MCStreamWindow
  StreamLimit <- MCStreamLimit
  ConnWindow <- MCConnWindow
  MaxIncoming <- MCMaxIncoming
  Opens <- MCOpens
  Calls <- MCCalls
  Sizes <- MCSizes
  PeekSizes <- MCPeekSizes
  MaxBytes <- MCMaxBytes
PROPERTIES
  WritesFinish
CHECK_DEADLOCK FALSE
