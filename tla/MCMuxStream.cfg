SPECIFICATION Spec
CONSTANTS
  Uses = {"stream", "share"}
  StreamIDs = {2, 6}
  Window = 4
  CWindow = 2
  Limit = 2
  WireCap = 1
  MaxChunk = 2
  RecordFrames = 2
  MaxStreamCount = 8
  StreamWindow <- MCStreamWindow
  StreamLimit <- MCStreamLimit
  ConnWindow <- MCConnWindow
  MaxIncoming <- MCMaxIncoming
  Opens <- MCOpens
  Calls <- MCCalls
  Sizes <- MCSizes
  PeekSizes <- MCPeekSizes
  MaxBytes <- MCMaxBytes
INVARIANTS
  TypeOK
  NoFault
  FinalSizeAgreed
  ControlQueueBounded
PROPERTIES
  ImplementsCreditWindow
CHECK_DEADLOCK FALSE
