---------------------------- MODULE MCLlmMetering ----------------------------
(* Small instances of LlmMetering for TLC: policies that enforce, a policy *)
(* that only flags, and nodes that share an LLM.                            *)
EXTENDS LlmMetering

CONSTANTS r1, planner, executor, critic

Enforcing == [maxTokens |-> 4, maxCost |-> 5, budgetAction |-> "ABORT",
              maxRepeats |-> 2, maxRetries |-> 1, breakerAction |-> "ABORT", rate |-> 1]
CostBound == [Enforcing EXCEPT !.maxCost = 3]
Flagging  == [Enforcing EXCEPT !.budgetAction = "FLAG", !.breakerAction = "FLAG"]
HalfFlagging == [Enforcing EXCEPT !.budgetAction = "FLAG"]

MCPolicies == {Enforcing, CostBound, Flagging, HalfFlagging}

(* examples/demo_agent.py: planner and executor call the same LLM.         *)
MCNameOf == [v \in Nodes |-> IF v = critic THEN "gpt" ELSE "gemini"]
=============================================================================
