SPECIFICATION FairSpec
CONSTANTS
  Environments <- MCEnvironments
  EventClasses <- MCEventClasses
  MaxCount = 2
  MaxSignals = 2
INVARIANTS TypeOK TransportsAgree FactoryHasServices WaitersExact
PROPERTIES WaitersResolve SignalEnds
CHECK_DEADLOCK FALSE
