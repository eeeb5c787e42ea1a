\* Two lines to a window, lines that are too long for it, one rotation or truncation.
SPECIFICATION LiveSpec
CONSTANTS
  MaxReadBytes = 4
  MaxLineLength = 2
  MaxLinesPerRead = 1
  Inode = {1, 2}
  MaxLines = 3
  MaxLineBytes = 4
  MaxReplaced = 1
INVARIANTS ReplayedOnlyIfSwapped OnlyLongLinesAreCut NothingLostSilently
PROPERTIES CatchesUp
