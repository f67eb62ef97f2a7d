\* A shadow policy with a pattern that does not compile.
SPECIFICATION Spec
CONSTANTS
  c1 = c1  c2 = c2
  u1 = u1
  lax = lax  strict = strict  limited = limited  quiet = quiet  loud = loud  broken = broken
  Calls = {c1}
  Users = {u1}
  UserOf <- OneUser
  KindOf <- Invokes
  Policies = {lax, broken}
  NoPolicy = NoPolicy
  Rules <- TheRules
  Routes = {lax}
  ShadowRoutes = {NoPolicy, broken}
  Guards = {}
  HasStore = FALSE
  MaxTexts = 1
  NoCall = NoCall
INVARIANT ShadowNeverPropagates

CHECK_DEADLOCK FALSE
