\* Every call sequence on the queue, with room for two items or three bytes.
SPECIFICATION Spec
CONSTANTS
  Priority = {1, 2, 3}
  Size = {1, 2}
  MaxItems = 2
  MaxBytes = 3
  MaxSubmitted = 3
  MaxAge = 0
  MaxTime = 1
  MaxRetries = 1
INVARIANTS TypeOK WithinLimits
PROPERTIES EvictionIsExact ImplementsItemStore
