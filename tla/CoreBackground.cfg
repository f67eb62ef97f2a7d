\* Output guards and store writes of a stream: reload, failing saves and judges, a crash.
SPECIFICATION FairSpec
CONSTANTS
  c1 = c1  c2 = c2
  u1 = u1
  lax = lax  strict = strict  limited = limited  quiet = quiet  loud = loud  broken = broken
  Calls = {c1}
  Users = {u1}
  UserOf <- OneUser
  KindOf <- Streams
  Policies = {quiet, loud, broken}
  NoPolicy = NoPolicy
  Rules <- TheRules
  Routes = {NoPolicy}
  ShadowRoutes = {NoPolicy, loud, broken}
  Guards = {"hallucination", "schema"}
  HasStore = TRUE
  MaxTexts = 1
  NoCall = NoCall
INVARIANTS OnePolicyPerCall ReportSurvives
PROPERTIES JudgedEventually VerdictsReported BackgroundDrains
CHECK_DEADLOCK FALSE
