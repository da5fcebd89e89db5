SPECIFICATION Spec
CONSTANTS
  Writers = {"writer"}
  Closers = {"closer"}
  Transports <- MCTransports
  Cases <- MCCases
  WireCap = 1
INVARIANTS
  ReaderNeverLocks
CHECK_DEADLOCK FALSE
