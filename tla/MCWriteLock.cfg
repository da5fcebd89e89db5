SPECIFICATION FairSpec
CONSTANTS
  Writers <- MCWriters
  Control <- MCControl
  StreamOf <- MCStreamOf
  Urgencies <- MCUrgencies
  MaxArrivals = 2
INVARIANTS
  TypeOK
  MutualExclusion
  HeldHasOwner
PROPERTIES
  ControlFirst
  ServedInOrder
  ControlServed
  ImplementsMutex
CHECK_DEADLOCK FALSE
