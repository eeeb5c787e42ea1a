\* Are the rates of an index over the time its counters were counted?
SPECIFICATION Spec
CONSTANTS
  IndexInterval = 2
  MaxEvents = 2
  MaxTicks = 3
INVARIANTS IndexRateOverItsInterval
CHECK_DEADLOCK FALSE
