--------------------------- MODULE MCSentinelCore ---------------------------
(***************************************************************************)
(* Small instances of SentinelCore for TLC.                                *)
(***************************************************************************)
EXTENDS SentinelCore

CONSTANTS c1, c2, u1, lax, strict, limited, quiet, loud, broken

OneUser == [c \in Calls |-> u1]

Invokes == [c \in Calls |-> "invoke"]
Streams == [c \in Calls |-> "stream"]

All(v) == [c \in Calls |-> v]
Only(c, v) == [d \in Calls |-> IF d = c THEN v ELSE "pass"]

Always(a) == [g \in Guards |-> a]

(* lax lets one call a minute in and flags the rest; strict refuses the    *)
(* input of c2 and the budget of c1 and lets two calls a minute in;        *)
(* limited refuses over its rate.  Whichever guard read another of the     *)
(* three, some call would have another fate.  quiet and loud only differ   *)
(* in what their output guards report.                                     *)
TheRules ==
  [p \in Policies |->
    CASE p = lax     -> [input |-> All("pass"), budget |-> Only(c1, "WARN"), maxRequests |-> 1,
                         rateAction |-> "FLAG", metering |-> {"FLAG"}, output |-> Always("FLAG")]
      [] p = strict  -> [input |-> Only(c2, "BLOCK"), budget |-> Only(c1, "BLOCK"), maxRequests |-> 2,
                         rateAction |-> "BLOCK", metering |-> {"ABORT"}, output |-> Always("BLOCK")]
      [] p = limited -> [input |-> All("REDACT"), budget |-> All("pass"), maxRequests |-> 1,
                         rateAction |-> "BLOCK", metering |-> {"ABORT"}, output |-> Always("WARN")]
      [] p = quiet   -> [input |-> All("pass"), budget |-> All("pass"), maxRequests |-> 2,
                         rateAction |-> "BLOCK", metering |-> {}, output |-> Always("FLAG")]
      [] p = loud    -> [input |-> All("pass"), budget |-> All("pass"), maxRequests |-> 2,
                         rateAction |-> "BLOCK", metering |-> {}, output |-> Always("BLOCK")]
      [] p = broken  -> [input |-> All("error"), budget |-> All("pass"), maxRequests |-> 2,
                         rateAction |-> "BLOCK", metering |-> {"ABORT"}, output |-> Always("WARN")]]
=============================================================================
