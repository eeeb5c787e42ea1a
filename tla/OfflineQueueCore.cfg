\* Is a core metric ever evicted for the sake of an advanced one?
SPECIFICATION Spec
CONSTANTS
  Priority = {1, 3}
  Size = {1}
  MaxItems = 2
  MaxBytes = 2
  MaxSubmitted = 3
  MaxAge = 0
  MaxTime = 0
  MaxRetries = 0
PROPERTIES AdvancedBeforeCore
