SPECIFICATION Spec
CONSTANTS
  Self = "server"
  Uses = {"one"}
  StreamIDs = {2}
  Window = 1
  CWindow = 2
  PeerWindow = 2
  PeerCWindow = 3
  BidiLimit = 1
  UniLimit = 1
  MaxChunk = 2
  MaxStreamCount = 8
  StreamWindow <- MCStreamWindow
  StreamLimit <- MCStreamLimit
  ConnWindow <- MCConnWindow
  MaxIncoming <- MCMaxIncoming
  PeerFrames <- MCPeerFrames
  Calls <- MCCalls
  Sizes <- MCSizes
  ReadErrors <- MCReadErrors
INVARIANTS
  WindowReopened
CHECK_DEADLOCK FALSE
