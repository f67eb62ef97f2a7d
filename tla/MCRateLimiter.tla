---------------------------- MODULE MCRateLimiter ----------------------------
(* Small instances of RateLimiter for TLC.                                 *)
EXTENDS RateLimiter, TLC

CONSTANTS u1, t1, t2, strict, loose, off

MCMaxRequests == strict :> 1 @@ loose :> 2 @@ off :> 1
MCMaxTokens   == strict :> 2 @@ loose :> 3 @@ off :> 1
=============================================================================
