CONSTANTS
  r1 = r1
  planner = planner  executor = executor  critic = critic
  Runs = {r1}
  Nodes = {planner, executor, critic}
  NameOf <- MCNameOf
  Policies <- MCPolicies
  TokenCounts = {0, 2, 3}
  MaxInFlight = 3
  MaxLlmCalls = 5
SPECIFICATION Spec
INVARIANTS
  TypeOK
  OverrunAborts
  UncommittedIsLogged
  CommittedWithinCeiling
  RaisedIsRecorded
  RepeatsAbort
  RepeatsJustified
PROPERTIES
  FloodStopsNextResponse
CHECK_DEADLOCK FALSE
