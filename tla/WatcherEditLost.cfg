SPECIFICATION Spec
CONSTANTS
  Debounce = 2
  MaxContents = 2
  MaxTime = 3
INVARIANT EditPickedUp
CHECK_DEADLOCK FALSE
