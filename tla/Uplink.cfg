\* Safety under every kind of trouble, with two batches unsettled at once.
SPECIFICATION Spec
CONSTANTS
  Priority = {1, 3}
  Size = {1}
  MaxItems = 2
  MaxBytes = 3
  MaxSubmitted = 3
  BatchSize = 2
  FlushId = {b1, b2}
  MaxOneShots = 1
  Disturbances = {"initFails", "refused", "drop", "kick", "suspend", "crash", "diskError"}
SYMMETRY FlushSymmetry
INVARIANTS TypeOK UnsavedIsScheduled BoundedCount FlushArmed QuietWhenOffline
PROPERTIES SavedQueueSurvives RemovedOnlyWhenStored LoopsStartAtConnect
