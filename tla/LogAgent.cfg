\* Four lines, read in any portions; two keys in a table that holds one.
SPECIFICATION Spec
CONSTANTS
  Key = {k1, k2}
  RecentLogsMax = 1
  RecentEvicted = 1
  MaxLines = 4
  MaxReloads = 1
INVARIANTS EveryLineOnce TornOnlyBetweenReads KeysExpire
CHECK_DEADLOCK FALSE
