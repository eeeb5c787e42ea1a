\* Is a shard still explained after it was allocated?
SPECIFICATION Spec
CONSTANTS
  Slot = {1}
  Shard = {1, 2}
  SectionInterval = 1
  ExplainInterval = 1
  SlowInterval = 2
  MaxEvents = 3
  MaxTicks = 3
INVARIANTS StaleExplanationsDropped
CHECK_DEADLOCK FALSE
