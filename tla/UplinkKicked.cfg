\* The server closes the socket once: does the agent come back?
SPECIFICATION LiveSpec
CONSTANTS
  Priority = {1}
  Size = {1}
  MaxItems = 2
  MaxBytes = 2
  MaxSubmitted = 1
  BatchSize = 2
  FlushId = {b1, b2}
  MaxOneShots = 0
  Disturbances = {"drop", "kick"}
PROPERTIES Reconnects
CHECK_DEADLOCK FALSE
