----------------------------- MODULE Enforcement -----------------------------
(***************************************************************************)
(* What Sentinel promises the caller of an agent, without shadow mode, hot *)
(* reload, violation logs, output guards or stores: a call is refused or   *)
(* admitted under the ONE policy it began with, a refused call never       *)
(* reaches the graph, and only a call let through by every guard takes an  *)
(* entry of its user's rate window.  SentinelCore implements it            *)
(* (core.py:225-376).                                                      *)
(***************************************************************************)
EXTENDS Integers, FiniteSetsExt

CONSTANTS Calls,     \* calls of ainvoke and astream
          UserOf,    \* the user of each call
          Policies, NoPolicy,
          Rules      \* what a policy says of a call: see SentinelCore

VARIABLES fate,      \* "new", "deciding", "refused", "admitted", "running", "ended", "lost"
          policy,    \* the policy each call began with
          quota      \* the entries of each call in its user's rate window

vars == <<fate, policy, quota>>

Blocking == {"BLOCK", "ABORT"}

RefusedByContent(c) ==
  \/ Rules[policy[c]].input[c] \in Blocking \cup {"error"}
  \/ Rules[policy[c]].budget[c] \in Blocking

Entries(u) == MapThenSumSet(LAMBDA d : quota[d], {d \in Calls : UserOf[d] = u})

AtLimit(c) == Entries(UserOf[c]) >= Rules[policy[c]].maxRequests

RateRefuses(c) == Rules[policy[c]].rateAction \in Blocking

Init ==
  /\ fate = [c \in Calls |-> "new"]
  /\ policy = [c \in Calls |-> NoPolicy]
  /\ quota = [c \in Calls |-> 0]

Move(c, from, to) == fate[c] = from /\ fate' = [fate EXCEPT ![c] = to]

(* The only step that chooses a policy.                                    *)
Resolve(c) ==
  /\ Move(c, "new", "deciding")
  /\ \E p \in Policies : policy' = [policy EXCEPT ![c] = p]
  /\ UNCHANGED quota

Refuse(c) ==
  /\ Move(c, "deciding", "refused")
  /\ RefusedByContent(c) \/ (AtLimit(c) /\ RateRefuses(c))
  /\ UNCHANGED <<policy, quota>>

Admit(c) ==
  /\ Move(c, "deciding", "admitted")
  /\ ~RefusedByContent(c) /\ ~AtLimit(c)
  /\ quota' = [quota EXCEPT ![c] = @ + 1]
  /\ UNCHANGED policy

(* Over the limit under an action that does not block: no entry is taken.  *)
AdmitFlagged(c) ==
  /\ Move(c, "deciding", "admitted")
  /\ ~RefusedByContent(c) /\ AtLimit(c) /\ ~RateRefuses(c)
  /\ UNCHANGED <<policy, quota>>

Run(c) == Move(c, "admitted", "running") /\ UNCHANGED <<policy, quota>>

End(c) == Move(c, "running", "ended") /\ UNCHANGED <<policy, quota>>

Expire(c) ==
  /\ quota[c] > 0
  /\ quota' = [quota EXCEPT ![c] = @ - 1]
  /\ UNCHANGED <<fate, policy>>

(* The process dies: so do the calls under way, and the rate windows.      *)
Crash ==
  /\ fate' = [c \in Calls |-> IF fate[c] \in {"deciding", "admitted", "running"} THEN "lost"
                                ELSE fate[c]]
  /\ quota' = [c \in Calls |-> 0]
  /\ UNCHANGED policy

Next ==
  \/ \E c \in Calls : \/ Resolve(c) \/ Refuse(c) \/ Admit(c) \/ AdmitFlagged(c)
                      \/ Run(c) \/ End(c) \/ Expire(c)
  \/ Crash

Spec == Init /\ [][Next]_vars
=============================================================================
