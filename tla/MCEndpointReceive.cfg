SPECIFICATION Spec
CONSTANTS
  Self = "server"
  Uses = {"receive", "share", "bidi", "limit"}
  StreamIDs = {0, 2, 4, 6}
  Window = 4
  CWindow = 2
  PeerWindow = 2
  PeerCWindow = 3
  BidiLimit = 1
  UniLimit = 2
  MaxChunk = 2
  MaxStreamCount = 8
  StreamWindow <- MCStreamWindow
  StreamLimit <- MCStreamLimit
  ConnWindow <- MCConnWindow
  MaxIncoming <- MCMaxIncoming
  PeerFrames <- MCPeerFrames
  Calls <- MCCalls
  Sizes <- MCSizes
  ReadErrors <- MCReadErrors
INVARIANTS
  TypeOK
  FlowControlEnforced
  WindowReopened
  CreditAccounted
  StreamsCounted
  NoLostWakeup
  ControlNotStranded
PROPERTIES
  HistoryKept
CHECK_DEADLOCK FALSE
