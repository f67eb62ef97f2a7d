\* Four writes over two and a half debounces; time counts halves of a debounce.
SPECIFICATION Spec
CONSTANTS
  Debounce = 2
  MaxContents = 4
  MaxTime = 5
INVARIANTS TypeOK SpacedEditPickedUp
\* The bounds on writes and time end every behaviour.
CHECK_DEADLOCK FALSE
