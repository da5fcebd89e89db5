SPECIFICATION Spec
CONSTANTS
  Uses = {"bidi"}
  StreamIDs = {0}
  Window = 2
  CWindow = 2
  Limit = 1
  WireCap = 1
  MaxChunk = 2
  RecordFrames = 2
  MaxStreamCount = 8
  StreamWindow <- MCStreamWindow
  StreamLimit <- MCStreamLimit
  ConnWindow <- MCConnWindow
  MaxIncoming <- MCMaxIncoming
  Opens <- MCOpens
  Calls <- MCCalls
  Sizes <- MCSizes
  PeekSizes <- MCPeekSizes
  MaxBytes <- MCMaxBytes
INVARIANTS
  NoFault
  FinalSizeAgreed
  ControlQueueBounded
CHECK_DEADLOCK FALSE
