\* Two invocations of one user; routing, shadow policies, hot reload, a crash.
SPECIFICATION Spec
CONSTANTS
  c1 = c1  c2 = c2
  u1 = u1
  lax = lax  strict = strict  limited = limited  quiet = quiet  loud = loud  broken = broken
  Calls = {c1, c2}
  Users = {u1}
  UserOf <- OneUser
  KindOf <- Invokes
  Policies = {lax, strict, limited}
  NoPolicy = NoPolicy
  Rules <- TheRules
  Routes = {NoPolicy, limited}
  ShadowRoutes = {NoPolicy, strict}
  Guards = {}
  HasStore = FALSE
  MaxTexts = 1
  NoCall = NoCall
INVARIANTS TypeOK BlockedMeansRecorded OnlyAdmittedConsume
PROPERTY ImplementsEnforcement
CHECK_DEADLOCK FALSE
