SPECIFICATION Spec
CONSTANTS
  Uses = {"top"}
  StreamIDs = {2, 6}
  Window = 2
  CWindow = 2
  Limit = 1
  WireCap = 1
  MaxChunk = 2
  RecordFrames = 2
  MaxStreamCount = 1
  StreamWindow <- MCStreamWindow
  StreamLimit <- MCStreamLimit
  ConnWindow <- MCConnWindow
  MaxIncoming <- MCMaxIncoming
  Opens <- MCOpens
  Calls <- MCCalls
  Sizes <- MCSizes
  PeekSizes <- MCPeekSizes
  MaxBytes <- MCMaxBytes
INVARIANTS
  DeclaredLimitsAllowed
CHECK_DEADLOCK FALSE
