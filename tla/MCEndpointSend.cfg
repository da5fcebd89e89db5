SPECIFICATION Spec
CONSTANTS
  Self = "server"
  Uses = {"send"}
  StreamIDs = {1, 3}
  Window = 2
  CWindow = 3
  PeerWindow = 2
  PeerCWindow = 3
  BidiLimit = 1
  UniLimit = 1
  MaxChunk = 2
  MaxStreamCount = 8
  StreamWindow <- MCStreamWindow
  StreamLimit <- MCStreamLimit
  ConnWindow <- MCConnWindow
  MaxIncoming <- MCMaxIncoming
  PeerFrames <- MCPeerFrames
  Calls <- MCCalls
  Sizes <- MCSizes
  ReadErrors <- MCReadErrors
INVARIANTS
  SendWithinLimits
  NoLostWakeup
  ControlNotStranded
PROPERTIES
  HistoryKept
CHECK_DEADLOCK FALSE
