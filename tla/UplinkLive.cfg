\* Progress when the connection drops and the account is suspended.
SPECIFICATION LiveSpec
CONSTANTS
  Priority = {1}
  Size = {1}
  MaxItems = 2
  MaxBytes = 2
  MaxSubmitted = 3
  BatchSize = 2
  FlushId = {b1, b2}
  MaxOneShots = 0
  Disturbances = {"drop", "suspend", "crash"}
PROPERTIES QueueDrains Reconnects
