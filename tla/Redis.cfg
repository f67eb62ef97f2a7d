CONSTANTS
  p1 = p1  p2 = p2
  s1 = s1  s2 = s2  g1 = g1  x1 = x1
  Procs = {p1, p2}
  Saves = {s1, s2}
  Gets = {g1}
  Closes = {x1}
  ProcOf <- MCProcOf
  TTL = 2
  MaxTime = 4
  MaxResends = 1
SPECIFICATION Spec
INVARIANTS
  TypeOK
  EndedExpires
  EndedIsKept
CHECK_DEADLOCK FALSE
