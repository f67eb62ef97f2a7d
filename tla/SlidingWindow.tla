---------------------------- MODULE SlidingWindow ----------------------------
(***************************************************************************)
(* What a sliding-window limiter promises, whatever its data structures:   *)
(* a request is granted only if, with it, the grants of its user that are  *)
(* no older than a window stay within the limits of the policy it was      *)
(* checked under.  RateLimiter implements this specification.              *)
(***************************************************************************)
EXTENDS Integers, FiniteSetsExt

CONSTANTS Users,        \* user_id values
          Policies,     \* rate_limit sections of the policies in use
          MaxRequests,  \* [Policies -> Nat \ {0}]
          MaxTokens,    \* [Policies -> Nat \ {0}]
          ReqWindow, TokWindow

VARIABLES time,    \* the monotonic clock
          ledger   \* every grant not forgotten by a reset

vars == <<time, ledger>>

Grant == [id: Nat, user: Users, at: Nat, when: Nat, tokens: Nat, policy: Policies]

(* The tokens of a set of grants.                                          *)
SumTokens(S) == MapThenSumSet(LAMBDA g : g.tokens, S)

(* The grants of g's user up to g that were still in the window of length  *)
(* w when g was granted.                                                   *)
Window(S, g, w) == 
  {h \in S : h.user = g.user /\ h.id <= g.id /\ g.when - h.at <= w}

WithinLimits(S, g) ==
  /\ Cardinality(Window(S, g, ReqWindow)) <= MaxRequests[g.policy]
  /\ SumTokens(Window(S, g, TokWindow)) <= MaxTokens[g.policy]

Init == time = 0 /\ ledger = {}

Tick == time' = time + 1 /\ UNCHANGED ledger

Allow(g) ==
  /\ g \in Grant
  /\ g.when = time /\ g.at <= time
  /\ \A h \in ledger : h.id < g.id
  /\ WithinLimits(ledger \cup {g}, g)
  /\ ledger' = ledger \cup {g}
  /\ UNCHANGED time

Forget(u) == 
  /\ ledger' = {g \in ledger : g.user # u}
  /\ UNCHANGED time

(* The grant a step adds is the one the ledger gains.                      *)
Next == \/ Tick
        \/ \E g \in ledger' \ ledger : Allow(g)
        \/ \E u \in Users : Forget(u)

Spec == Init /\ [][Next]_vars
=============================================================================
