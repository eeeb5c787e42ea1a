\* Is a stack trace complete when its event is emitted?
SPECIFICATION Spec
CONSTANTS
  Key = {k1}
  RecentLogsMax = 1
  RecentEvicted = 1
  MaxLines = 3
  MaxReloads = 0
INVARIANTS StackArrivedComplete
CHECK_DEADLOCK FALSE
