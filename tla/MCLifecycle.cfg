SPECIFICATION FairSpec
CONSTANTS
  Writers = {"writer"}
  Closers = {"closer"}
  Transports <- MCTransports
  Cases <- MCCases
  WireCap = 1
INVARIANTS
  WireOrder
  HandshakeOnce
  ReasonNotLost
PROPERTIES
  ImplementsSession
  EverythingReturns
CHECK_DEADLOCK FALSE
