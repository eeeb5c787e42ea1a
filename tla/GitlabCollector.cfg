\* Stragglers over two objects, updates that become visible late, entries that are
\* pruned, and a crash that loses what was not in the state file.
SPECIFICATION LiveSpec
CONSTANTS
  Object = {1, 2}
  Slot = {1, 2}
  MaxTime = 3
  MaxUpdates = 2
  FirstWindow = 1
  Overlap = 1
  Lag = 1
  SeenMax = 1
  SeenPruned = 1
  MaxCrashes = 1
INVARIANTS CursorNeverSkips TakenOnce
PROPERTIES EveryUpdateHanded
