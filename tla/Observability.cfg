CONSTANTS
  off = off  east = east  west = west
  blocked = blocked  aborted = aborted  flagged = flagged  observed = observed
  Policies = {off, east, west}
  EndpointOf <- MCEndpointOf
  ServiceOf <- MCServiceOf
  Endpoints = {"none", "east", "west"}
  Services = {"blue", "green"}
  NoEndpoint = "none"
  NoPolicy = NoPolicy
  Violations = {aborted, flagged, observed}
  ActionOf <- MCActionOf
  ShadowOf <- MCShadowOf
  NoViolation = NoViolation
SPECIFICATION FairSpec
INVARIANTS
  TypeOK
  OnePolicyPerSpan
  BlockingSurvivesExit
PROPERTIES
  ReloadNeverWaits
CHECK_DEADLOCK FALSE
