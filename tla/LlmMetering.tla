----------------------------- MODULE LlmMetering -----------------------------
(***************************************************************************)
(* What happens inside the wrapped graph: SentinelCallbackHandler          *)
(* (sentinel/callbacks.py) with the BudgetTracker and the                  *)
(* CircuitBreakerState it commits to.  A run has one handler, whatever     *)
(* the number of LLM calls the graph has in flight.  No handler method     *)
(* awaits anything, so each callback is one step of the event loop; the    *)
(* callbacks of concurrent LLM calls interleave.                           *)
(*                                                                         *)
(* The graph is external: nodes start LLM calls, which end or fail; an     *)
(* exception raised by a callback (raise_error = True) leaves the call,    *)
(* and the graph starts nothing more in that run.                          *)
(***************************************************************************)
EXTENDS Integers, Sequences, FiniteSetsExt

CONSTANTS Runs,
          Nodes,         \* the nodes of the graph that call an LLM
          NameOf,        \* serialized["name"] of each node's LLM
          Policies,      \* records [maxTokens, maxCost, budgetAction,
                         \*          maxRepeats, maxRetries, breakerAction, rate]
          TokenCounts,   \* total tokens a response may report; 0: none reported
          MaxInFlight,   \* bound: concurrent LLM calls of a run
          MaxLlmCalls    \* bound: LLM calls of a run

Actions == {"BLOCK", "FLAG", "REDACT", "WARN", "ABORT"}
Blocking == {"BLOCK", "ABORT"}

(* All limits are gt=0 in policy.py; a rate is a cost per token in the     *)
(* unit of maxCost, found from policy.service (budget_gate.py:28-39).      *)
Policy == [maxTokens: Nat \ {0}, maxCost: Nat \ {0}, budgetAction: Actions,
           maxRepeats: Nat \ {0}, maxRetries: Nat \ {0}, breakerAction: Actions,
           rate: Nat]

ASSUME MeteringAssumption ==
  /\ IsFiniteSet(Nodes)
  /\ Policies \subseteq Policy
  /\ TokenCounts \subseteq Nat
  /\ MaxInFlight \in Nat /\ MaxLlmCalls \in Nat

VARIABLES policy,       \* the policy each handler was built with
          status,       \* "running", "raised" by a guard, "failed", "done"
          currentNode,  \* handler._current_node
          inFlight,     \* LLM calls started and not yet ended: [run, no, node]
          runTokens,    \* BudgetTracker._run_tokens
          runCost,      \* BudgetTracker._run_cost
          nodeCounts,   \* CircuitBreakerState._node_counts
          retryCounts,  \* CircuitBreakerState._retry_counts
          log,          \* Sentinel._violation_log: records [rule, action]
          started,      \* history: LLM calls started
          used,         \* history: tokens the LLMs reported
          completed,    \* history: responses per graph node
          overlapped    \* history: two LLM calls were in flight at once

meters == <<runTokens, runCost, nodeCounts, retryCounts>>
history == <<started, used, completed, overlapped>>
vars == <<policy, status, currentNode, inFlight, meters, log, history>>

(* What the handler calls a node is the name of its LLM; "llm" when none    *)
(* was started (callbacks.py:45, 58).                                      *)
Names == {NameOf[v] : v \in Nodes} \cup {"llm"}

-----------------------------------------------------------------------------
EstimateCost(r, n) == n * policy[r].rate

BudgetRules == {"budget.max_tokens_per_run", "budget.max_cost_usd"}

(* The rules that n more tokens would break, in the order of the code.     *)
(* Seeded faults: a response measured alone; a cost compared before the     *)
(* response is added.                                                      *)
TokensOverAlone(r, n) == n > policy[r].maxTokens
CostOverBefore(r, n)  == runCost[r] > policy[r].maxCost

TokensOver(r, n) == runTokens[r] + n > policy[r].maxTokens
CostOver(r, n)   == runCost[r] + EstimateCost(r, n) > policy[r].maxCost

(* BudgetTracker.check: nothing is committed when a limit is exceeded, and *)
(* on_llm_end does not call it for a response that reports no tokens.      *)
BudgetRule(r, n) ==
  CASE n = 0           -> "none"
    [] n # 0 /\ TokensOver(r, n) -> "budget.max_tokens_per_run"
    [] n # 0 /\ ~TokensOver(r, n) /\ CostOver(r, n) -> "budget.max_cost_usd"
    [] OTHER           -> "none"

Commit(r, n) ==
  /\ runTokens' = [runTokens EXCEPT ![r] = @ + n]
  /\ runCost' = [runCost EXCEPT ![r] = @ + EstimateCost(r, n)]

(* Seeded fault: the comparison before the count.                          *)
NodeCountBefore(r) == nodeCounts[r][currentNode[r]]

(* CircuitBreakerState.check counts first, then compares.                  *)
NodeCountAfter(r) == nodeCounts[r][currentNode[r]] + 1

(* Seeded fault: retries counted and never compared.                       *)
BreakerRuleRepeats(r) ==
  IF NodeCountAfter(r) > policy[r].maxRepeats THEN "circuit_breaker.max_node_repeats" ELSE "none"

BreakerRule(r) ==
  CASE NodeCountAfter(r) > policy[r].maxRepeats -> "circuit_breaker.max_node_repeats"
    [] NodeCountAfter(r) <= policy[r].maxRepeats /\ retryCounts[r] > policy[r].maxRetries
         -> "circuit_breaker.max_retries"
    [] OTHER -> "none"

(* Seeded faults: every outcome recorded; an abort not recorded.           *)
ViolationAlways(rule, action) == <<[rule |-> rule, action |-> action]>>

ViolationNotAbort(rule, action) ==
  IF rule = "none" \/ action = "ABORT" THEN <<>> ELSE <<[rule |-> rule, action |-> action]>>

Violation(rule, action) == IF rule = "none" THEN <<>> ELSE <<[rule |-> rule, action |-> action]>>

Raises(rule, action) == rule # "none" /\ action \in Blocking

-----------------------------------------------------------------------------
Init ==
  /\ policy \in [Runs -> Policies]
  /\ status = [r \in Runs |-> "running"]
  /\ currentNode = [r \in Runs |-> "llm"]
  /\ inFlight = {}
  /\ runTokens = [r \in Runs |-> 0]
  /\ runCost = [r \in Runs |-> 0]
  /\ nodeCounts = [r \in Runs |-> [m \in Names |-> 0]]
  /\ retryCounts = [r \in Runs |-> 0]
  /\ log = [r \in Runs |-> <<>>]
  /\ started = [r \in Runs |-> 0]
  /\ used = [r \in Runs |-> 0]
  /\ completed = [r \in Runs |-> [v \in Nodes |-> 0]]
  /\ overlapped = [r \in Runs |-> FALSE]

CallsOf(r) == {c \in inFlight : c.run = r}

(* Seeded fault: the handler keeps the node of an earlier call.            *)
LlmStartKeepsNode(r, v) ==
  /\ status[r] = "running"
  /\ started[r] < MaxLlmCalls /\ Cardinality(CallsOf(r)) < MaxInFlight
  /\ started' = [started EXCEPT ![r] = @ + 1]
  /\ inFlight' = inFlight \cup {[run |-> r, no |-> started[r] + 1, node |-> v]}
  /\ overlapped' = [overlapped EXCEPT ![r] = @ \/ CallsOf(r) # {}]
  /\ UNCHANGED <<policy, status, currentNode, meters, log, used, completed>>

(* on_chat_model_start / on_llm_start: the handler remembers ONE node.     *)
LlmStart(r, v) ==
  /\ status[r] = "running"
  /\ started[r] < MaxLlmCalls /\ Cardinality(CallsOf(r)) < MaxInFlight
  /\ currentNode' = [currentNode EXCEPT ![r] = NameOf[v]]
  /\ started' = [started EXCEPT ![r] = @ + 1]
  /\ inFlight' = inFlight \cup {[run |-> r, no |-> started[r] + 1, node |-> v]}
  /\ overlapped' = [overlapped EXCEPT ![r] = @ \/ CallsOf(r) # {}]
  /\ UNCHANGED <<policy, status, meters, log, used, completed>>

(* The response of c reports n tokens.                                     *)
Respond(c, n) ==
  /\ inFlight' = inFlight \ {c}
  /\ used' = [used EXCEPT ![c.run] = @ + n]
  /\ completed' = [completed EXCEPT ![c.run][c.node] = @ + 1]
  /\ UNCHANGED <<policy, currentNode, started, overlapped>>

(* Seeded fault: raised before it is recorded.                             *)
LlmEndOverBudgetUnlogged(c, n) ==
  LET r == c.run IN
  /\ Respond(c, n)
  /\ Raises(BudgetRule(r, n), policy[r].budgetAction)
  /\ status' = [status EXCEPT ![r] = "raised"]
  /\ UNCHANGED <<meters, log>>

(* on_llm_end, the budget raises: the circuit breaker is not consulted.    *)
LlmEndOverBudget(c, n) ==
  LET r == c.run
      b == BudgetRule(r, n)
  IN  /\ Respond(c, n)
      /\ Raises(b, policy[r].budgetAction)
      /\ log' = [log EXCEPT ![r] = @ \o Violation(b, policy[r].budgetAction)]
      /\ status' = [status EXCEPT ![r] = "raised"]
      /\ UNCHANGED meters

(* on_llm_end, the budget lets the response pass (or only flags it).       *)
LlmEndMetered(c, n) ==
  LET r == c.run
      b == BudgetRule(r, n)
      k == BreakerRule(r)
  IN  /\ Respond(c, n)
      /\ ~Raises(b, policy[r].budgetAction)
      /\ IF b = "none" THEN Commit(r, n) ELSE UNCHANGED <<runTokens, runCost>>
      /\ nodeCounts' = [nodeCounts EXCEPT ![r][currentNode[r]] = @ + 1]
      /\ UNCHANGED retryCounts
      /\ log' = [log EXCEPT ![r] = @ \o Violation(b, policy[r].budgetAction)
                                     \o Violation(k, policy[r].breakerAction)]
      /\ status' = [status EXCEPT ![r] =
                      IF Raises(k, policy[r].breakerAction) THEN "raised" ELSE @]

(* on_llm_error: only counted; the node may retry with another call.       *)
LlmError(c) ==
  /\ inFlight' = inFlight \ {c}
  /\ retryCounts' = [retryCounts EXCEPT ![c.run] = @ + 1]
  /\ UNCHANGED <<policy, status, currentNode, runTokens, runCost, nodeCounts, log, history>>

(* The graph returns, or gives up on an error of its own.                  *)
GraphEnds(r) ==
  /\ status[r] = "running" /\ CallsOf(r) = {}
  /\ status' \in {[status EXCEPT ![r] = "done"], [status EXCEPT ![r] = "failed"]}
  /\ UNCHANGED <<policy, currentNode, inFlight, meters, log, history>>

(* After a raise the graph cancels the calls still in flight; until then   *)
(* they may end and call the handler.                                      *)
CancelRest(r) ==
  /\ status[r] = "raised" /\ CallsOf(r) # {}
  /\ inFlight' = inFlight \ CallsOf(r)
  /\ UNCHANGED <<policy, status, currentNode, meters, log, history>>

Next ==
  \/ \E r \in Runs, v \in Nodes : LlmStart(r, v)
  \/ \E c \in inFlight, n \in TokenCounts : LlmEndOverBudget(c, n) \/ LlmEndMetered(c, n)
  \/ \E c \in inFlight : LlmError(c)
  \/ \E r \in Runs : GraphEnds(r) \/ CancelRest(r)

Spec == Init /\ [][Next]_vars

-----------------------------------------------------------------------------
Record == [rule: BudgetRules \cup {"circuit_breaker.max_node_repeats",
                                   "circuit_breaker.max_retries"},
           action: Actions]

TypeOK ==
  /\ policy \in [Runs -> Policies]
  /\ status \in [Runs -> {"running", "raised", "failed", "done"}]
  /\ currentNode \in [Runs -> Names]
  /\ inFlight \subseteq [run: Runs, no: Nat, node: Nodes]
  /\ runTokens \in [Runs -> Nat]
  /\ runCost \in [Runs -> Nat]
  /\ nodeCounts \in [Runs -> [Names -> Nat]]
  /\ retryCounts \in [Runs -> Nat]
  /\ log \in [Runs -> Seq(Record)]
  /\ started \in [Runs -> Nat]
  /\ used \in [Runs -> Nat]
  /\ completed \in [Runs -> [Nodes -> Nat]]
  /\ overlapped \in [Runs -> BOOLEAN]

BudgetBlocks(r)  == policy[r].budgetAction \in Blocking
BreakerBlocks(r) == policy[r].breakerAction \in Blocking

(* "A run that exceeds the ceiling mid-stream is aborted immediately"      *)
(* (README.md:27): under a blocking action the graph does not go on once   *)
(* the tokens the LLMs reported exceed the ceiling, although the tracker   *)
(* never commits the response that crosses it.                             *)
OverrunAborts ==
  \A r \in Runs : BudgetBlocks(r) /\ used[r] > policy[r].maxTokens => status[r] = "raised"

(* No token is lost: what the LLMs reported and the tracker did not commit *)
(* is in the run's log as a budget violation (callbacks.py:80-91), also    *)
(* when the action only flags and the run goes on.                         *)
BudgetLogged(r) == \E i \in 1..Len(log[r]) : log[r][i].rule \in BudgetRules

UncommittedIsLogged ==
  \A r \in Runs : /\ runTokens[r] <= used[r]
                  /\ used[r] # runTokens[r] => BudgetLogged(r)

(* The committed usage, which the metrics and the pre-flight check read,   *)
(* never exceeds either ceiling, whatever the action.                      *)
CommittedWithinCeiling ==
  \A r \in Runs : runTokens[r] <= policy[r].maxTokens /\ runCost[r] <= policy[r].maxCost

(* Why OverrunAborts is inductive with it: a run that a blocking budget    *)
(* lets go on has committed every token it used.                           *)
EnforcedIsCommitted ==
  \A r \in Runs : BudgetBlocks(r) /\ status[r] # "raised" => used[r] = runTokens[r]

MeterInv ==
  TypeOK /\ CommittedWithinCeiling /\ UncommittedIsLogged /\ EnforcedIsCommitted

(* A run is raised out of the graph only with the violation that did it on *)
(* record, so that get_violations can explain the exception.               *)
RaisedIsRecorded ==
  \A r \in Runs : status[r] = "raised" =>
    \E i \in 1..Len(log[r]) : log[r][i].action \in Blocking

(* "a single graph node firing more than max_node_repeats times (infinite  *)
(* loop)" (README.md:29) is stopped, in a run whose LLM calls never        *)
(* overlap.  The budget may stop it before.  When calls overlap the one    *)
(* _current_node may name another call's LLM, and neither this nor the     *)
(* next property holds.                                                    *)
RepeatsAbort ==
  \A r \in Runs, v \in Nodes :
    /\ BreakerBlocks(r) /\ ~overlapped[r]
    /\ completed[r][v] > policy[r].maxRepeats
    => status[r] = "raised"

(* The breaker trips on repeats only if the nodes that share one LLM name  *)
(* fired too often between them: the code counts LLM names, not the nodes  *)
(* of README.md:29.                                                        *)
RepeatTripped(r) ==
  \E i \in 1..Len(log[r]) : log[r][i].rule = "circuit_breaker.max_node_repeats"

RepeatsJustified ==
  \A r \in Runs : RepeatTripped(r) /\ ~overlapped[r] =>
    \E m \in Names :
      MapThenSumSet(LAMBDA v : completed[r][v], {v \in Nodes : NameOf[v] = m})
        > policy[r].maxRepeats

(* "total LLM retries across the run exceeding max_retries (retry flood).  *)
(* Triggers an ABORT" (README.md:29): the code compares the count only     *)
(* when a response completes.  No response completes after a flood without *)
(* aborting the run, whichever model answers and whatever overlaps it.     *)
FloodStops ==
  \A r \in Runs :
    /\ BreakerBlocks(r) /\ retryCounts[r] > policy[r].maxRetries
    /\ completed'[r] # completed[r]
    => status'[r] = "raised"

FloodStopsNextResponse == [][FloodStops]_vars

=============================================================================
