--------------------------- MODULE MCObservability ---------------------------
(* A small instance of Observability for TLC: a policy without endpoint,   *)
(* two with one, and violations that block, abort, flag and only observe.  *)
EXTENDS Observability

CONSTANTS off, east, west, blocked, aborted, flagged, observed

MCEndpointOf == [p \in Policies |->
  CASE p = off -> NoEndpoint [] p = east -> "east" [] p = west -> "west"]
MCServiceOf == [p \in Policies |-> IF p = west THEN "blue" ELSE "green"]
MCActionOf == [v \in Violations |->
  CASE v = aborted -> "ABORT" [] v = flagged -> "FLAG" [] OTHER -> "BLOCK"]
MCShadowOf == [v \in Violations |-> v = observed]
=============================================================================
