CONSTANTS
  u1 = u1  t1 = t1  t2 = t2
  strict = strict  loose = loose  off = off
  Users = {u1}
  Threads = {t1, t2}
  Policies = {strict, loose, off}
  Enabled = {strict, loose}
  MaxRequests <- MCMaxRequests
  MaxTokens <- MCMaxTokens
  TokenCounts = {1, 2}
  ReqWindow = 1
  TokWindow = 2
  MaxClock = 4
  MaxGrants = 3
SPECIFICATION Spec
INVARIANTS
  TypeOK
  DenialJustified
  RequestsWithinLimit
  TokensWithinLimit
  UsageMatchesLedger
PROPERTIES
  ImplementsSlidingWindow
