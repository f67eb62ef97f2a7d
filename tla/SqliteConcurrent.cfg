\* Two saves, a get and a close of one store, in any interleaving.
SPECIFICATION Spec
CONSTANTS
  Saves = {s1, s2}
  Gets = {g1}
  Closes = {c1}
  NoConn = NoConn
INVARIANTS TypeOK DoneIsDurable ReadsSeeDone NothingLeftBehind
\* Every task ends and the store is idle.
CHECK_DEADLOCK FALSE
