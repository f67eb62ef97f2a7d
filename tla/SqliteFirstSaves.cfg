\* Two first saves.
SPECIFICATION Spec
CONSTANTS
  Saves = {s1, s2}
  Gets = {}
  Closes = {}
  NoConn = NoConn
INVARIANT SurvivesRestarts
CHECK_DEADLOCK FALSE
