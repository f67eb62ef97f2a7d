---------------------------- MODULE MCRedisStore ----------------------------
(* A small instance of RedisStore for TLC: two processes.                  *)
EXTENDS RedisStore

CONSTANTS p1, p2, s1, s2, g1, x1

MCProcOf == [t \in Tasks |-> IF t = s2 THEN p2 ELSE p1]
=============================================================================
