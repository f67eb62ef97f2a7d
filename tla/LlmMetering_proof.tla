-------------------------- MODULE LlmMetering_proof --------------------------
(***************************************************************************)
(* Proofs about LlmMetering, for every set of runs, graph and policy, and  *)
(* for any number of concurrent LLM calls.                                 *)
(***************************************************************************)
EXTENDS LlmMetering, TLAPS, FiniteSetTheorems, WellFoundedInduction

-----------------------------------------------------------------------------
(* The records a violation adds to a log.                                  *)
LEMMA ViolationType ==
  ASSUME NEW rule, NEW action \in Actions,
         rule \in {"none", "budget.max_tokens_per_run", "budget.max_cost_usd",
                   "circuit_breaker.max_node_repeats", "circuit_breaker.max_retries"}
  PROVE  Violation(rule, action) \in Seq(Record)
<1>1. CASE rule = "none"
  BY <1>1 DEF Violation
<1>2. CASE rule # "none"
  <2>1. [rule |-> rule, action |-> action] \in Record
    BY <1>2 DEF Record, BudgetRules
  <2> QED
    BY <1>2, <2>1 DEF Violation
<1> QED
  BY <1>1, <1>2

LEMMA PolicyType ==
  ASSUME TypeOK, NEW r \in Runs
  PROVE  policy[r] \in Policy
  BY MeteringAssumption DEF TypeOK

LEMMA RuleTypes ==
  ASSUME NEW r, NEW n
  PROVE  /\ BudgetRule(r, n) \in {"none", "budget.max_tokens_per_run", "budget.max_cost_usd"}
         /\ BreakerRule(r) \in {"none", "circuit_breaker.max_node_repeats",
                                "circuit_breaker.max_retries"}
<1>1. BudgetRule(r, n) \in {"none", "budget.max_tokens_per_run", "budget.max_cost_usd"}
  BY DEF BudgetRule
<1>2. BreakerRule(r) \in {"none", "circuit_breaker.max_node_repeats",
                          "circuit_breaker.max_retries"}
  BY DEF BreakerRule
<1> QED
  BY <1>1, <1>2

-----------------------------------------------------------------------------
LEMMA RespondType ==
  ASSUME TypeOK, NEW c \in inFlight, NEW n \in TokenCounts, Respond(c, n)
  PROVE  /\ c.run \in Runs /\ c.node \in Nodes /\ n \in Nat
         /\ inFlight' \subseteq [run: Runs, no: Nat, node: Nodes]
         /\ used' \in [Runs -> Nat]
         /\ completed' \in [Runs -> [Nodes -> Nat]]
         /\ used'[c.run] = used[c.run] + n
         /\ \A r \in Runs : r # c.run => used'[r] = used[r] /\ completed'[r] = completed[r]
         /\ UNCHANGED <<policy, currentNode, started, overlapped>>
<1>1. c.run \in Runs /\ c.node \in Nodes /\ n \in Nat
  BY MeteringAssumption DEF TypeOK
<1>3. inFlight' \subseteq [run: Runs, no: Nat, node: Nodes]
  BY DEF Respond, TypeOK
<1>4. used' \in [Runs -> Nat] /\ used'[c.run] = used[c.run] + n
  BY <1>1 DEF Respond, TypeOK
<1>6. completed' \in [Runs -> [Nodes -> Nat]]
  <2>1. completed[c.run] \in [Nodes -> Nat]
    BY <1>1 DEF TypeOK
  <2>2. [completed[c.run] EXCEPT ![c.node] = @ + 1] \in [Nodes -> Nat]
    BY <1>1, <2>1
  <2>3. completed' = [completed EXCEPT ![c.run] = [completed[c.run] EXCEPT ![c.node] = @ + 1]]
    BY DEF Respond
  <2> QED
    BY <1>1, <2>2, <2>3 DEF TypeOK
<1>7. \A r \in Runs : r # c.run => used'[r] = used[r] /\ completed'[r] = completed[r]
  BY <1>1 DEF Respond, TypeOK
<1> QED
  BY <1>1, <1>3, <1>4, <1>6, <1>7 DEF Respond

(* What a committed response does to the tracker.                          *)
LEMMA CommitEffect ==
  ASSUME TypeOK, NEW r \in Runs, NEW n \in Nat, Commit(r, n), BudgetRule(r, n) = "none"
  PROVE  /\ runTokens' \in [Runs -> Nat] /\ runCost' \in [Runs -> Nat]
         /\ runTokens'[r] = runTokens[r] + n
         /\ n # 0 => runTokens'[r] <= policy[r].maxTokens /\ runCost'[r] <= policy[r].maxCost
         /\ n = 0 => runTokens'[r] = runTokens[r] /\ runCost'[r] = runCost[r]
         /\ \A s \in Runs : s # r => runTokens'[s] = runTokens[s] /\ runCost'[s] = runCost[s]
<1> DEFINE price == EstimateCost(r, n)
<1>1. price \in Nat /\ (n = 0 => price = 0)
  BY PolicyType DEF EstimateCost, Policy
<1>2. runTokens[r] \in Nat /\ runCost[r] \in Nat
  BY DEF TypeOK
<1>3. policy[r].maxTokens \in Nat /\ policy[r].maxCost \in Nat
  BY PolicyType DEF Policy
<1>4. n # 0 => ~(runTokens[r] + n > policy[r].maxTokens) /\ ~(runCost[r] + price > policy[r].maxCost)
  BY DEF BudgetRule, TokensOver, CostOver
<1> HIDE DEF price
<1>5. /\ runTokens' = [runTokens EXCEPT ![r] = runTokens[r] + n]
      /\ runCost' = [runCost EXCEPT ![r] = runCost[r] + price]
  BY DEF Commit, price
<1>6. runTokens[r] + n \in Nat /\ runCost[r] + price \in Nat
  BY <1>1, <1>2
<1>7. runTokens' \in [Runs -> Nat] /\ runCost' \in [Runs -> Nat]
  BY <1>5, <1>6 DEF TypeOK
<1>8. runTokens'[r] = runTokens[r] + n /\ runCost'[r] = runCost[r] + price
  BY <1>5 DEF TypeOK
<1>9. \A s \in Runs : s # r => runTokens'[s] = runTokens[s] /\ runCost'[s] = runCost[s]
  BY <1>5 DEF TypeOK
<1> QED
  BY <1>1, <1>2, <1>3, <1>4, <1>6, <1>7, <1>8, <1>9

LEMMA LogType ==
  ASSUME TypeOK, NEW r \in Runs
  PROVE  /\ log[r] \in Seq(Record)
         /\ \A n : Violation(BudgetRule(r, n), policy[r].budgetAction) \in Seq(Record)
         /\ Violation(BreakerRule(r), policy[r].breakerAction) \in Seq(Record)
<1>1. policy[r].budgetAction \in Actions /\ policy[r].breakerAction \in Actions
  BY PolicyType DEF Policy
<1> QED
  BY <1>1, RuleTypes, ViolationType DEF TypeOK

LEMMA OverBudgetType ==
  ASSUME TypeOK, NEW c \in inFlight, NEW n \in TokenCounts, LlmEndOverBudget(c, n)
  PROVE  TypeOK'
<1> DEFINE r == c.run
           b == Violation(BudgetRule(r, n), policy[r].budgetAction)
<1>1. Respond(c, n) /\ r \in Runs
  BY RespondType DEF LlmEndOverBudget
<1>2. log[r] \o b \in Seq(Record)
  BY <1>1, LogType
<1>3. /\ log' = [log EXCEPT ![r] = log[r] \o b]
      /\ status' = [status EXCEPT ![r] = "raised"]
      /\ UNCHANGED meters
  BY DEF LlmEndOverBudget
<1> HIDE DEF r, b
<1>4. log' \in [Runs -> Seq(Record)]
  BY <1>2, <1>3 DEF TypeOK
<1>5. status' \in [Runs -> {"running", "raised", "failed", "done"}]
  BY <1>3 DEF TypeOK
<1> QED
  BY <1>1, <1>3, <1>4, <1>5, RespondType DEF TypeOK, meters

LEMMA MeteredType ==
  ASSUME TypeOK, NEW c \in inFlight, NEW n \in TokenCounts, LlmEndMetered(c, n)
  PROVE  TypeOK'
<1> DEFINE r == c.run
           b == Violation(BudgetRule(r, n), policy[r].budgetAction)
           k == Violation(BreakerRule(r), policy[r].breakerAction)
           m == currentNode[r]
<1>1. Respond(c, n) /\ r \in Runs /\ n \in Nat
  BY RespondType DEF LlmEndMetered
<1>2. log[r] \o b \o k \in Seq(Record)
  BY <1>1, LogType
<1>3. /\ log' = [log EXCEPT ![r] = log[r] \o b \o k]
      /\ status' = [status EXCEPT ![r] =
                      IF Raises(BreakerRule(r), policy[r].breakerAction) THEN "raised" ELSE @]
      /\ nodeCounts' = [nodeCounts EXCEPT ![r] = [nodeCounts[r] EXCEPT ![m] = @ + 1]]
      /\ UNCHANGED retryCounts
      /\ IF BudgetRule(r, n) = "none" THEN Commit(r, n) ELSE UNCHANGED <<runTokens, runCost>>
  BY DEF LlmEndMetered
<1>4. runTokens' \in [Runs -> Nat] /\ runCost' \in [Runs -> Nat]
  BY <1>1, <1>3, CommitEffect DEF TypeOK
<1>5. nodeCounts' \in [Runs -> [Names -> Nat]]
  <2>1. nodeCounts[r] \in [Names -> Nat] /\ m \in Names
    BY <1>1 DEF TypeOK
  <2>2. [nodeCounts[r] EXCEPT ![m] = @ + 1] \in [Names -> Nat]
    BY <2>1
  <2> QED
    BY <1>1, <1>3, <2>2 DEF TypeOK
<1> HIDE DEF r, b, k, m
<1>6. log' \in [Runs -> Seq(Record)]
  BY <1>2, <1>3 DEF TypeOK
<1>7. status' \in [Runs -> {"running", "raised", "failed", "done"}]
  BY <1>1, <1>3 DEF TypeOK
<1> QED
  BY <1>1, <1>3, <1>4, <1>5, <1>6, <1>7, RespondType DEF TypeOK

LEMMA TypeStep ==
  ASSUME TypeOK, [Next]_vars
  PROVE  TypeOK'
<1>1. ASSUME NEW r \in Runs, NEW v \in Nodes, LlmStart(r, v)
      PROVE  TypeOK'
  <2>1. NameOf[v] \in Names
    BY DEF Names
  <2>2. started[r] + 1 \in Nat
    BY DEF TypeOK
  <2>3. [run |-> r, no |-> started[r] + 1, node |-> v] \in [run: Runs, no: Nat, node: Nodes]
    BY <2>2
  <2> QED
    BY <1>1, <2>1, <2>2, <2>3 DEF TypeOK, LlmStart, meters
<1>2. ASSUME NEW c \in inFlight, LlmError(c)
      PROVE  TypeOK'
  <2>1. c.run \in Runs
    BY DEF TypeOK
  <2>2. retryCounts[c.run] + 1 \in Nat
    BY <2>1 DEF TypeOK
  <2> QED
    BY <1>2, <2>1, <2>2 DEF TypeOK, LlmError, history
<1>3. ASSUME NEW r \in Runs, GraphEnds(r)
      PROVE  TypeOK'
  BY <1>3 DEF TypeOK, GraphEnds, meters, history
<1>4. ASSUME NEW r \in Runs, CancelRest(r)
      PROVE  TypeOK'
  BY <1>4 DEF TypeOK, CancelRest, meters, history
<1>5. CASE UNCHANGED vars
  BY <1>5 DEF TypeOK, vars, meters, history
<1> QED
  BY <1>1, <1>2, <1>3, <1>4, <1>5, OverBudgetType, MeteredType DEF Next

LEMMA InitType == Init => TypeOK
<1> SUFFICES ASSUME Init PROVE TypeOK
  OBVIOUS
<1>1. <<>> \in Seq(Record)
  OBVIOUS
<1> QED
  BY <1>1 DEF Init, TypeOK, Names

(* Every variable keeps its type (callbacks.py, budget_gate.py,            *)
(* circuit_breaker.py).                                                    *)
THEOREM MeteringTypes == Spec => []TypeOK
<1>1. TypeOK /\ [Next]_vars => TypeOK'
  BY TypeStep
<1> QED
  BY InitType, <1>1, PTL DEF Spec

-----------------------------------------------------------------------------
(* A record once in a log stays there.                                     *)
LEMMA LogGrows ==
  ASSUME NEW l \in Seq(Record), NEW a \in Seq(Record)
  PROVE  /\ Len(l \o a) = Len(l) + Len(a)
         /\ \A i \in 1..Len(l) : (l \o a)[i] = l[i]
         /\ \A i \in 1..Len(a) : (l \o a)[Len(l) + i] = a[i]
  OBVIOUS

(* MeterInv: committed usage within the ceilings; a token not committed is *)
(* logged; a run that a blocking budget lets go on committed everything.   *)
LEMMA InitMeter == Init => MeterInv
<1> SUFFICES ASSUME Init PROVE MeterInv
  OBVIOUS
<1>1. TypeOK
  BY InitType
<1>2. \A r \in Runs : policy[r].maxTokens \in Nat /\ policy[r].maxCost \in Nat
  BY <1>1, PolicyType DEF Policy
<1> QED
  BY <1>1, <1>2 DEF Init, MeterInv, UncommittedIsLogged, CommittedWithinCeiling, EnforcedIsCommitted

(* The three parts of the invariant for the run whose response arrives.    *)
LEMMA OverBudgetMeter ==
  ASSUME MeterInv, TypeOK', NEW c \in inFlight, NEW n \in TokenCounts, LlmEndOverBudget(c, n)
  PROVE  MeterInv'
<1> DEFINE r == c.run
           b == BudgetRule(r, n)
           v == [rule |-> b, action |-> policy[r].budgetAction]
<1>1. TypeOK /\ Respond(c, n)
  BY DEF MeterInv, LlmEndOverBudget
<1>2. /\ r \in Runs /\ n \in Nat
      /\ used'[r] = used[r] + n /\ policy' = policy
      /\ \A s \in Runs : s # r => used'[s] = used[s]
  BY <1>1, RespondType
<1>3. /\ runTokens' = runTokens /\ runCost' = runCost
      /\ b # "none" /\ status' = [status EXCEPT ![r] = "raised"]
      /\ log' = [log EXCEPT ![r] = log[r] \o Violation(b, policy[r].budgetAction)]
  BY DEF LlmEndOverBudget, Raises, meters
<1>4. b \in BudgetRules /\ Violation(b, policy[r].budgetAction) = <<v>>
  BY <1>3, RuleTypes DEF Violation, BudgetRules
<1>5. log[r] \in Seq(Record) /\ v \in Record
  <2>1. policy[r].budgetAction \in Actions
    BY <1>1, <1>2, PolicyType DEF Policy
  <2> QED
    BY <1>1, <1>2, <1>4, <2>1 DEF TypeOK, Record
<1> HIDE DEF b
<1>6. BudgetLogged(r)'
  <2>1. log'[r] = log[r] \o <<v>>
    BY <1>1, <1>2, <1>3, <1>4 DEF TypeOK
  <2>2. Len(log[r]) + 1 \in 1..Len(log'[r]) /\ log'[r][Len(log[r]) + 1] = v
    BY <1>5, <2>1
  <2> QED
    BY <1>4, <2>2 DEF BudgetLogged
<1>7. \A s \in Runs : s # r => (BudgetLogged(s)' <=> BudgetLogged(s))
  BY <1>1, <1>3 DEF BudgetLogged, TypeOK
<1>8. CommittedWithinCeiling'
  BY <1>2, <1>3 DEF MeterInv, CommittedWithinCeiling
<1>9. UncommittedIsLogged'
  <2> SUFFICES ASSUME NEW s \in Runs
               PROVE  runTokens[s] <= used'[s] /\ (used'[s] # runTokens[s] => BudgetLogged(s)')
    BY <1>3 DEF UncommittedIsLogged
  <2>1. runTokens[s] <= used[s] /\ (used[s] # runTokens[s] => BudgetLogged(s))
    BY DEF MeterInv, UncommittedIsLogged
  <2>2. runTokens[s] \in Nat /\ used[s] \in Nat
    BY <1>1 DEF TypeOK
  <2> QED
    BY <1>2, <1>6, <1>7, <2>1, <2>2
<1>10. EnforcedIsCommitted'
  <2> SUFFICES ASSUME NEW s \in Runs, policy[s].budgetAction \in Blocking, status'[s] # "raised"
               PROVE  used'[s] = runTokens[s]
    BY <1>2, <1>3 DEF EnforcedIsCommitted, BudgetBlocks
  <2>1. s # r /\ status'[s] = status[s]
    BY <1>1, <1>2, <1>3 DEF TypeOK
  <2> QED
    BY <1>2, <2>1 DEF MeterInv, EnforcedIsCommitted, BudgetBlocks
<1> QED
  BY <1>8, <1>9, <1>10 DEF MeterInv

(* The same for a response that the budget commits or only flags.          *)
LEMMA MeteredMeter ==
  ASSUME MeterInv, TypeOK', NEW c \in inFlight, NEW n \in TokenCounts, LlmEndMetered(c, n)
  PROVE  MeterInv'
<1> DEFINE r == c.run
           b == BudgetRule(r, n)
           vb == Violation(b, policy[r].budgetAction)
           vk == Violation(BreakerRule(r), policy[r].breakerAction)
<1>1. TypeOK /\ Respond(c, n)
  BY DEF MeterInv, LlmEndMetered
<1>2. /\ r \in Runs /\ n \in Nat
      /\ used'[r] = used[r] + n /\ policy' = policy
      /\ \A s \in Runs : s # r => used'[s] = used[s]
  BY <1>1, RespondType
<1>3. /\ ~Raises(b, policy[r].budgetAction)
      /\ IF b = "none" THEN Commit(r, n) ELSE UNCHANGED <<runTokens, runCost>>
      /\ log' = [log EXCEPT ![r] = log[r] \o vb \o vk]
      /\ status' = [status EXCEPT ![r] =
                      IF Raises(BreakerRule(r), policy[r].breakerAction) THEN "raised" ELSE @]
  BY DEF LlmEndMetered
<1>4. log[r] \in Seq(Record) /\ vb \in Seq(Record) /\ vk \in Seq(Record)
  BY <1>1, <1>2, LogType
<1>5. log'[r] = (log[r] \o vb) \o vk /\ \A s \in Runs : s # r => log'[s] = log[s]
  BY <1>1, <1>2, <1>3 DEF TypeOK
<1>6. BudgetLogged(r) => BudgetLogged(r)'
  <2> HIDE DEF r, b, vb, vk
  <2>1. Len(log[r]) <= Len(log'[r]) /\ \A i \in 1..Len(log[r]) : log'[r][i] = log[r][i]
    <3>1. log[r] \o vb \in Seq(Record) /\ Len(vb) \in Nat /\ Len(vk) \in Nat
      BY <1>4
    <3> QED
      BY <1>4, <1>5, <3>1, LogGrows
  <2> SUFFICES ASSUME BudgetLogged(r) PROVE BudgetLogged(r)'
    OBVIOUS
  <2>2. PICK i \in 1..Len(log[r]) : log[r][i].rule \in BudgetRules
    BY DEF BudgetLogged
  <2>3. log'[r] \in Seq(Record)
    BY <1>4, <1>5
  <2>4. Len(log[r]) \in Nat /\ Len(log'[r]) \in Nat
    BY <1>4, <2>3
  <2>5. i \in 1..Len(log'[r]) /\ log'[r][i] = log[r][i]
    BY <2>1, <2>2, <2>4
  <2>6. log'[r][i].rule \in BudgetRules
    BY <2>2, <2>5
  <2> QED
    BY <2>5, <2>6 DEF BudgetLogged
<1>7. b # "none" => BudgetLogged(r)'
  <2> SUFFICES ASSUME b # "none" PROVE BudgetLogged(r)'
    OBVIOUS
  <2>1. b \in BudgetRules /\ vb = <<[rule |-> b, action |-> policy[r].budgetAction]>>
    BY RuleTypes DEF Violation, BudgetRules
  <2> HIDE DEF vk, b
  <2>2. /\ Len(log[r]) + 1 \in 1..Len(log'[r])
        /\ log'[r][Len(log[r]) + 1] = [rule |-> b, action |-> policy[r].budgetAction]
    BY <1>4, <1>5, <2>1
  <2> QED
    BY <2>1, <2>2 DEF BudgetLogged
<1>8. \A s \in Runs : s # r => (BudgetLogged(s)' <=> BudgetLogged(s))
  BY <1>5 DEF BudgetLogged
<1>9. \A s \in Runs : s # r => runTokens'[s] = runTokens[s] /\ runCost'[s] = runCost[s]
  BY <1>1, <1>2, <1>3, CommitEffect
<1>10. b = "none" => runTokens'[r] = runTokens[r] + n
  BY <1>1, <1>2, <1>3, CommitEffect
<1>11. b # "none" => runTokens'[r] = runTokens[r] /\ runCost'[r] = runCost[r]
  BY <1>3
<1>12. b # "none" => ~BudgetBlocks(r)
  BY <1>3 DEF Raises, BudgetBlocks
<1>13. CommittedWithinCeiling'
  <2> SUFFICES ASSUME NEW s \in Runs
               PROVE  runTokens'[s] <= policy[s].maxTokens /\ runCost'[s] <= policy[s].maxCost
    BY <1>2 DEF CommittedWithinCeiling
  <2>1. runTokens[s] <= policy[s].maxTokens /\ runCost[s] <= policy[s].maxCost
    BY DEF MeterInv, CommittedWithinCeiling
  <2>2. CASE s = r /\ b = "none"
    BY <1>1, <1>2, <1>3, <2>1, <2>2, CommitEffect
  <2> QED
    BY <1>9, <1>11, <2>1, <2>2
<1> HIDE DEF b
<1>14. UncommittedIsLogged'
  <2> SUFFICES ASSUME NEW s \in Runs
               PROVE  runTokens'[s] <= used'[s] /\ (used'[s] # runTokens'[s] => BudgetLogged(s)')
    BY DEF UncommittedIsLogged
  <2>1. runTokens[s] <= used[s] /\ (used[s] # runTokens[s] => BudgetLogged(s))
    BY DEF MeterInv, UncommittedIsLogged
  <2>2. runTokens[s] \in Nat /\ used[s] \in Nat
    BY <1>1 DEF TypeOK
  <2> QED
    BY <1>2, <1>6, <1>7, <1>8, <1>9, <1>10, <1>11, <2>1, <2>2
<1>15. EnforcedIsCommitted'
  <2> SUFFICES ASSUME NEW s \in Runs, policy[s].budgetAction \in Blocking, status'[s] # "raised"
               PROVE  used'[s] = runTokens'[s]
    BY <1>2 DEF EnforcedIsCommitted, BudgetBlocks
  <2>1. status[s] # "raised"
    BY <1>1, <1>2, <1>3 DEF TypeOK
  <2>2. used[s] = runTokens[s]
    BY <2>1 DEF MeterInv, EnforcedIsCommitted, BudgetBlocks
  <2> QED
    BY <1>2, <1>9, <1>10, <1>12, <2>2 DEF BudgetBlocks
<1> QED
  BY <1>13, <1>14, <1>15 DEF MeterInv

LEMMA MeterStep ==
  ASSUME MeterInv, [Next]_vars
  PROVE  MeterInv'
<1>1. TypeOK /\ TypeOK'
  BY TypeStep DEF MeterInv
<1>2. ASSUME UNCHANGED <<policy, runTokens, runCost, log, used>>,
             \A r \in Runs : status'[r] # "raised" => status[r] # "raised"
      PROVE  MeterInv'
  BY <1>1, <1>2 DEF MeterInv, CommittedWithinCeiling, UncommittedIsLogged, BudgetLogged,
                    EnforcedIsCommitted, BudgetBlocks
<1>3. ASSUME NEW r \in Runs, NEW v \in Nodes, LlmStart(r, v)
      PROVE  MeterInv'
  BY <1>2, <1>3 DEF LlmStart, meters
<1>4. ASSUME NEW c \in inFlight, LlmError(c)
      PROVE  MeterInv'
  BY <1>2, <1>4 DEF LlmError, history
<1>5. ASSUME NEW r \in Runs, GraphEnds(r)
      PROVE  MeterInv'
  BY <1>1, <1>2, <1>5 DEF GraphEnds, meters, history, TypeOK
<1>6. ASSUME NEW r \in Runs, CancelRest(r)
      PROVE  MeterInv'
  BY <1>2, <1>6 DEF CancelRest, meters, history
<1>7. CASE UNCHANGED vars
  BY <1>2, <1>7 DEF vars, meters, history
<1> QED
  BY <1>1, <1>3, <1>4, <1>5, <1>6, <1>7, OverBudgetMeter, MeteredMeter DEF Next

LEMMA Metered == Spec => []MeterInv
<1>1. MeterInv /\ [Next]_vars => MeterInv'
  BY MeterStep
<1> QED
  BY InitMeter, <1>1, PTL DEF Spec

(* BudgetTracker never commits a response that crosses a ceiling           *)
(* (budget_gate.py:53-90), whatever the action and the concurrency.        *)
THEOREM CommittedCeiling == Spec => []CommittedWithinCeiling
<1>1. MeterInv => CommittedWithinCeiling
  BY DEF MeterInv
<1> QED
  BY <1>1, Metered, PTL

(* What is not committed is on record as a budget violation                *)
(* (callbacks.py:80-91).                                                   *)
THEOREM NothingLost == Spec => []UncommittedIsLogged
<1>1. MeterInv => UncommittedIsLogged
  BY DEF MeterInv
<1> QED
  BY <1>1, Metered, PTL

(* Under a blocking budget no run goes on past its token ceiling, though   *)
(* the tracker stops counting at the response that crosses it.             *)
THEOREM OverrunAborted == Spec => []OverrunAborts
<1>1. MeterInv => OverrunAborts
  <2> SUFFICES ASSUME MeterInv, NEW r \in Runs, BudgetBlocks(r),
                      used[r] > policy[r].maxTokens, status[r] # "raised"
               PROVE  FALSE
    BY DEF OverrunAborts
  <2>1. used[r] = runTokens[r] /\ runTokens[r] <= policy[r].maxTokens
    BY DEF MeterInv, EnforcedIsCommitted, CommittedWithinCeiling
  <2>2. runTokens[r] \in Nat /\ policy[r].maxTokens \in Nat
    BY PolicyType DEF MeterInv, TypeOK, Policy
  <2> QED
    BY <2>1, <2>2
<1> QED
  BY <1>1, Metered, PTL

-----------------------------------------------------------------------------
(* After a retry flood the next response, of whichever model, raises       *)
(* (callbacks.py:93-101, circuit_breaker.py:43-61), unless the budget      *)
(* already did.                                                            *)
THEOREM FloodStopped == Spec => FloodStopsNextResponse
<1>1. TypeOK /\ [Next]_vars => [FloodStops]_vars
  <2> SUFFICES ASSUME TypeOK, Next, NEW r \in Runs,
                      BreakerBlocks(r), retryCounts[r] > policy[r].maxRetries,
                      completed'[r] # completed[r]
               PROVE  status'[r] = "raised"
    BY DEF FloodStops, vars, meters, history
  <2>1. ASSUME NEW c \in inFlight, NEW n \in TokenCounts, LlmEndOverBudget(c, n)
        PROVE  status'[r] = "raised"
    <3>1. c.run = r
      BY <2>1, RespondType DEF LlmEndOverBudget
    <3> QED
      BY <2>1, <3>1 DEF LlmEndOverBudget, TypeOK
  <2>2. ASSUME NEW c \in inFlight, NEW n \in TokenCounts, LlmEndMetered(c, n)
        PROVE  status'[r] = "raised"
    <3>1. c.run = r
      BY <2>2, RespondType DEF LlmEndMetered
    <3>2. NodeCountAfter(r) \in Nat /\ policy[r].maxRepeats \in Nat
      <4>1. nodeCounts[r] \in [Names -> Nat] /\ currentNode[r] \in Names
        BY DEF TypeOK
      <4>2. nodeCounts[r][currentNode[r]] \in Nat
        BY <4>1
      <4>3. policy[r].maxRepeats \in Nat
        BY PolicyType DEF Policy
      <4> QED
        BY <4>2, <4>3 DEF NodeCountAfter
    <3>3. BreakerRule(r) # "none"
      BY <3>2 DEF BreakerRule
    <3>4. Raises(BreakerRule(r), policy[r].breakerAction)
      BY <3>3 DEF Raises, BreakerBlocks
    <3> QED
      BY <2>2, <3>1, <3>4 DEF LlmEndMetered, TypeOK
  <2> QED
    BY <2>1, <2>2 DEF Next, LlmStart, LlmError, GraphEnds, CancelRest, history
<1> QED
  BY MeteringTypes, <1>1, PTL DEF Spec, FloodStopsNextResponse

-----------------------------------------------------------------------------
(* Why a run was raised.                                                   *)
BlockingAt(l) == \E i \in 1..Len(l) : l[i].action \in Blocking

LEMMA BlockingKept ==
  ASSUME NEW l \in Seq(Record), NEW a \in Seq(Record), BlockingAt(l) \/ BlockingAt(a)
  PROVE  BlockingAt(l \o a)
<1>1. Len(l \o a) = Len(l) + Len(a) /\ Len(l) \in Nat /\ Len(a) \in Nat
  OBVIOUS
<1>2. CASE BlockingAt(l)
  <2>1. PICK i \in 1..Len(l) : l[i].action \in Blocking
    BY <1>2 DEF BlockingAt
  <2>2. (l \o a)[i] = l[i] /\ i \in 1..Len(l \o a)
    BY <1>1, LogGrows
  <2> QED
    BY <2>1, <2>2 DEF BlockingAt
<1>3. CASE BlockingAt(a)
  <2>1. PICK i \in 1..Len(a) : a[i].action \in Blocking
    BY <1>3 DEF BlockingAt
  <2>2. (l \o a)[Len(l) + i] = a[i] /\ Len(l) + i \in 1..Len(l \o a)
    BY <1>1, LogGrows
  <2> QED
    BY <2>1, <2>2 DEF BlockingAt
<1> QED
  BY <1>2, <1>3

LEMMA RaisesBlocking ==
  ASSUME NEW rule, NEW action, Raises(rule, action)
  PROVE  BlockingAt(Violation(rule, action))
<1>1. Violation(rule, action) = <<[rule |-> rule, action |-> action]>> /\ action \in Blocking
  BY DEF Raises, Violation
<1>2. [rule |-> rule, action |-> action].action = action
  OBVIOUS
<1>3. 1 \in 1..Len(Violation(rule, action)) /\ Violation(rule, action)[1].action = action
  BY <1>1, <1>2
<1> QED
  BY <1>1, <1>3 DEF BlockingAt

(* The logs only grow, and a run is raised with what blocks it.            *)
LEMMA RaisedStep ==
  ASSUME TypeOK, RaisedIsRecorded, [Next]_vars
  PROVE  RaisedIsRecorded'
<1> SUFFICES ASSUME NEW r \in Runs, status'[r] = "raised"
             PROVE  BlockingAt(log'[r])
  BY DEF RaisedIsRecorded, BlockingAt
<1>1. status[r] = "raised" => BlockingAt(log[r])
  BY DEF RaisedIsRecorded, BlockingAt
<1>2. ASSUME NEW c \in inFlight, NEW n \in TokenCounts, LlmEndOverBudget(c, n)
      PROVE  BlockingAt(log'[r])
  <2> DEFINE s == c.run
             b == Violation(BudgetRule(s, n), policy[s].budgetAction)
  <2>1. s \in Runs /\ log[s] \in Seq(Record) /\ b \in Seq(Record)
    BY <1>2, RespondType, LogType DEF LlmEndOverBudget
  <2>2. BlockingAt(b)
    BY <1>2, RaisesBlocking DEF LlmEndOverBudget
  <2>3. /\ log' = [log EXCEPT ![s] = log[s] \o b]
        /\ status' = [status EXCEPT ![s] = "raised"]
    BY <1>2 DEF LlmEndOverBudget
  <2> HIDE DEF b, s
  <2>4. CASE r = s
    BY <2>1, <2>2, <2>3, <2>4, BlockingKept DEF TypeOK
  <2>5. CASE r # s
    BY <1>1, <2>3, <2>5 DEF TypeOK
  <2> QED
    BY <2>4, <2>5
<1>3. ASSUME NEW c \in inFlight, NEW n \in TokenCounts, LlmEndMetered(c, n)
      PROVE  BlockingAt(log'[r])
  <2> DEFINE s == c.run
             b == Violation(BudgetRule(s, n), policy[s].budgetAction)
             k == Violation(BreakerRule(s), policy[s].breakerAction)
             up == Raises(BreakerRule(s), policy[s].breakerAction)
  <2>1. s \in Runs /\ log[s] \in Seq(Record) /\ b \in Seq(Record) /\ k \in Seq(Record)
    BY <1>3, RespondType, LogType DEF LlmEndMetered
  <2>2. up => BlockingAt(k)
    BY RaisesBlocking
  <2>3. /\ log' = [log EXCEPT ![s] = log[s] \o b \o k]
        /\ status' = [status EXCEPT ![s] = IF up THEN "raised" ELSE status[s]]
    BY <1>3 DEF LlmEndMetered
  <2> HIDE DEF b, k, s, up
  <2>4. CASE r = s
    <3>1. log[r] \o b \in Seq(Record)
      BY <2>1, <2>4
    <3>2. status[r] = "raised" \/ up
      BY <2>3, <2>4 DEF TypeOK
    <3>3. BlockingAt((log[r] \o b) \o k)
      BY <1>1, <2>1, <2>2, <2>4, <3>1, <3>2, BlockingKept
    <3> DEFINE new == log[s] \o b \o k
    <3>4. log' = [log EXCEPT ![s] = new]
      BY <2>3
    <3>5. BlockingAt(new)
      BY <2>4, <3>3
    <3> HIDE DEF new
    <3> QED
      BY <2>1, <2>4, <3>4, <3>5 DEF TypeOK
  <2>5. CASE r # s
    BY <1>1, <2>3, <2>5 DEF TypeOK
  <2> QED
    BY <2>4, <2>5
<1>4. ASSUME NEW s \in Runs, NEW v \in Nodes, LlmStart(s, v) PROVE BlockingAt(log'[r])
  BY <1>1, <1>4 DEF LlmStart
<1>5. ASSUME NEW c \in inFlight, LlmError(c) PROVE BlockingAt(log'[r])
  BY <1>1, <1>5 DEF LlmError
<1>6. ASSUME NEW s \in Runs, GraphEnds(s) \/ CancelRest(s) PROVE BlockingAt(log'[r])
  BY <1>1, <1>6 DEF GraphEnds, CancelRest, TypeOK
<1>7. CASE UNCHANGED vars
  BY <1>1, <1>7 DEF vars
<1> QED
  BY <1>2, <1>3, <1>4, <1>5, <1>6, <1>7 DEF Next

(* on_llm_end records before it raises (callbacks.py:80-101): an exception *)
(* that leaves the graph is explained by a blocking record of the run,     *)
(* whatever calls of other models were in flight with it.                  *)
THEOREM RaisedIsExplained == Spec => []RaisedIsRecorded
<1>1. Init => RaisedIsRecorded
  BY DEF Init, RaisedIsRecorded
<1>2. TypeOK /\ RaisedIsRecorded /\ [Next]_vars => RaisedIsRecorded'
  BY RaisedStep
<1> QED
  BY <1>1, <1>2, MeteringTypes, PTL DEF Spec

-----------------------------------------------------------------------------
(* The infinite loop.                                                      *)

(* While the calls of a run do not overlap, the node that the handler      *)
(* remembers is the one whose call is in flight; a run that the breaker    *)
(* lets go on has counted every response, of every node, up to the limit.  *)
CountedLoops ==
  /\ \A r \in Runs : ~overlapped[r] =>
       /\ \A c, d \in inFlight : c.run = r /\ d.run = r => c = d
       /\ \A c \in inFlight : c.run = r => currentNode[r] = NameOf[c.node]
       /\ status[r] # "raised" =>
            \A v \in Nodes : completed[r][v] <= nodeCounts[r][NameOf[v]]
  /\ \A r \in Runs : BreakerBlocks(r) /\ status[r] # "raised" =>
       \A m \in Names : nodeCounts[r][m] <= policy[r].maxRepeats

LEMMA CountedInit == Init => CountedLoops
<1> SUFFICES ASSUME Init PROVE CountedLoops
  OBVIOUS
<1>1. TypeOK
  BY InitType
<1>2. \A r \in Runs : policy[r].maxRepeats \in Nat
  BY <1>1, PolicyType DEF Policy
<1>3. \A v \in Nodes : NameOf[v] \in Names
  BY DEF Names
<1> QED
  BY <1>2, <1>3 DEF Init, CountedLoops

(* One response of a call of a node: nothing is counted if the budget      *)
(* raised, and else the node the handler remembers.                        *)
LEMMA CountedResponse ==
  ASSUME TypeOK, CountedLoops, NEW c \in inFlight, NEW n \in TokenCounts, Respond(c, n),
         NEW r, r = c.run,
         \A s \in Runs \ {r} : status'[s] = status[s] /\ nodeCounts'[s] = nodeCounts[s],
         status'[r] # "raised" =>
           /\ status[r] # "raised"
           /\ \A m \in Names : nodeCounts'[r][m] = IF m = currentNode[r] THEN nodeCounts[r][m] + 1
                                                                         ELSE nodeCounts[r][m]
           /\ BreakerBlocks(r) => nodeCounts[r][currentNode[r]] + 1 <= policy[r].maxRepeats
  PROVE  CountedLoops'
<1>1. /\ r \in Runs /\ c.node \in Nodes /\ inFlight' \subseteq inFlight
      /\ UNCHANGED <<policy, currentNode, overlapped>>
      /\ \A s \in Runs \ {r} : completed'[s] = completed[s]
  BY RespondType DEF Respond
<1>2. /\ \A s \in Runs : completed[s] \in [Nodes -> Nat] /\ nodeCounts[s] \in [Names -> Nat]
      /\ \A v \in Nodes : NameOf[v] \in Names
  BY DEF TypeOK, Names
<1>3. \A v \in Nodes : completed'[r][v] = IF v = c.node THEN completed[r][v] + 1 ELSE completed[r][v]
  BY <1>1, <1>2 DEF Respond, TypeOK
<1>4. ASSUME NEW s \in Runs, ~overlapped'[s]
      PROVE  /\ \A d, e \in inFlight' : d.run = s /\ e.run = s => d = e
             /\ \A d \in inFlight' : d.run = s => currentNode'[s] = NameOf[d.node]
  BY <1>1, <1>4 DEF CountedLoops
<1>5. ASSUME NEW s \in Runs, ~overlapped'[s], status'[s] # "raised", NEW v \in Nodes
      PROVE  completed'[s][v] <= nodeCounts'[s][NameOf[v]]
  <2>1. CASE s # r
    BY <1>1, <1>5, <2>1 DEF CountedLoops
  <2>2. CASE s = r
    <3>1. /\ currentNode[r] = NameOf[c.node] /\ completed[r][v] <= nodeCounts[r][NameOf[v]]
      BY <1>1, <1>5, <2>2 DEF CountedLoops
    <3>2. nodeCounts'[r][NameOf[v]] = IF NameOf[v] = currentNode[r]
                                      THEN nodeCounts[r][NameOf[v]] + 1 ELSE nodeCounts[r][NameOf[v]]
      BY <1>2, <1>5, <2>2
    <3>3. completed[r][v] \in Nat /\ nodeCounts[r][NameOf[v]] \in Nat
      BY <1>1, <1>2
    <3> QED
      BY <1>3, <2>2, <3>1, <3>2, <3>3
  <2> QED
    BY <2>1, <2>2
<1>6. ASSUME NEW s \in Runs, BreakerBlocks(s)', status'[s] # "raised", NEW m \in Names
      PROVE  nodeCounts'[s][m] <= policy'[s].maxRepeats
  <2>1. BreakerBlocks(s)
    BY <1>1, <1>6 DEF BreakerBlocks
  <2>2. CASE s # r
    BY <1>1, <1>6, <2>1, <2>2 DEF CountedLoops
  <2>3. CASE s = r
    BY <1>1, <1>6, <2>1, <2>3 DEF CountedLoops
  <2> QED
    BY <2>2, <2>3
<1> QED
  BY <1>4, <1>5, <1>6 DEF CountedLoops

LEMMA CountedStep ==
  ASSUME TypeOK, CountedLoops, [Next]_vars
  PROVE  CountedLoops'
<1>1. ASSUME NEW c \in inFlight, NEW n \in TokenCounts, LlmEndOverBudget(c, n)
      PROVE  CountedLoops'
  <2>1. Respond(c, n) /\ c.run \in Runs
    BY <1>1, RespondType DEF LlmEndOverBudget
  <2>2. /\ status' = [status EXCEPT ![c.run] = "raised"] /\ nodeCounts' = nodeCounts
    BY <1>1 DEF LlmEndOverBudget, meters
  <2>3. status'[c.run] = "raised" /\ \A s \in Runs \ {c.run} : status'[s] = status[s]
    BY <2>1, <2>2 DEF TypeOK
  <2> QED
    BY <2>1, <2>2, <2>3, CountedResponse
<1>2. ASSUME NEW c \in inFlight, NEW n \in TokenCounts, LlmEndMetered(c, n)
      PROVE  CountedLoops'
  <2> DEFINE r == c.run
             m == currentNode[r]
             up == Raises(BreakerRule(r), policy[r].breakerAction)
  <2>1. Respond(c, n) /\ r \in Runs
    BY <1>2, RespondType DEF LlmEndMetered
  <2>2. /\ status' = [status EXCEPT ![r] = IF up THEN "raised" ELSE status[r]]
        /\ nodeCounts' = [nodeCounts EXCEPT ![r] = [nodeCounts[r] EXCEPT ![m] = nodeCounts[r][m] + 1]]
    BY <1>2 DEF LlmEndMetered
  <2>3. nodeCounts[r] \in [Names -> Nat] /\ m \in Names /\ policy[r].maxRepeats \in Nat
    BY <2>1, PolicyType DEF TypeOK, Policy
  <2>4. nodeCounts[r][m] \in Nat
    BY <2>3
  <2>5. ~up /\ BreakerBlocks(r) => nodeCounts[r][m] + 1 <= policy[r].maxRepeats
    <3>1. ~up /\ BreakerBlocks(r) => BreakerRule(r) = "none"
      BY DEF Raises, BreakerBlocks
    <3>2. BreakerRule(r) = "none" => ~(nodeCounts[r][m] + 1 > policy[r].maxRepeats)
      BY DEF BreakerRule, NodeCountAfter
    <3> QED
      BY <2>3, <2>4, <3>1, <3>2
  <2> HIDE DEF r, m, up
  <2>6. /\ \A s \in Runs \ {r} : status'[s] = status[s] /\ nodeCounts'[s] = nodeCounts[s]
        /\ status'[r] # "raised" => status[r] # "raised" /\ ~up
    BY <2>1, <2>2 DEF TypeOK
  <2>7. nodeCounts'[r] = [nodeCounts[r] EXCEPT ![m] = nodeCounts[r][m] + 1]
    BY <2>1, <2>2 DEF TypeOK
  <2>8. \A k \in Names : nodeCounts'[r][k] = IF k = m THEN nodeCounts[r][k] + 1 ELSE nodeCounts[r][k]
    BY <2>3, <2>7
  <2>9. r = c.run /\ m = currentNode[r]
    BY DEF r, m
  <2> QED
    BY <2>1, <2>5, <2>6, <2>8, <2>9, CountedResponse
<1>3. ASSUME NEW r \in Runs, NEW v \in Nodes, LlmStart(r, v) PROVE CountedLoops'
  <2> DEFINE new == [run |-> r, no |-> started[r] + 1, node |-> v]
  <2>1. /\ inFlight' = inFlight \cup {new} /\ new.run = r /\ new.node = v
        /\ UNCHANGED <<policy, status, nodeCounts, completed>>
    BY <1>3 DEF LlmStart, meters
  <2>2. /\ currentNode'[r] = NameOf[v] /\ \A s \in Runs \ {r} : currentNode'[s] = currentNode[s]
        /\ overlapped'[r] = (overlapped[r] \/ CallsOf(r) # {})
        /\ \A s \in Runs \ {r} : overlapped'[s] = overlapped[s]
    BY <1>3 DEF LlmStart, TypeOK
  <2> HIDE DEF new
  <2>3. ~overlapped'[r] => ~overlapped[r] /\ \A c \in inFlight : c.run # r
    BY <2>2 DEF CallsOf
  <2>4. ASSUME NEW s \in Runs, ~overlapped'[s]
        PROVE  /\ \A d, e \in inFlight' : d.run = s /\ e.run = s => d = e
               /\ \A d \in inFlight' : d.run = s => currentNode'[s] = NameOf[d.node]
    <3>1. CASE s = r
      <4>1. \A d \in inFlight' : d.run = s => d = new
        BY <2>1, <2>3, <2>4, <3>1
      <4> QED
        BY <2>1, <2>2, <3>1, <4>1
    <3>2. CASE s # r
      <4>1. \A d \in inFlight' : d.run = s => d \in inFlight
        BY <2>1, <3>2
      <4> QED
        BY <2>2, <2>4, <3>2, <4>1 DEF CountedLoops
    <3> QED
      BY <3>1, <3>2
  <2>5. ASSUME NEW s \in Runs, ~overlapped'[s] PROVE ~overlapped[s]
    BY <2>2, <2>3, <2>5
  <2> QED
    BY <2>1, <2>4, <2>5 DEF CountedLoops, BreakerBlocks
<1>4. ASSUME UNCHANGED <<policy, currentNode, nodeCounts, completed, overlapped>>,
             inFlight' \subseteq inFlight, \A r \in Runs : status'[r] # "raised" => status[r] # "raised"
      PROVE  CountedLoops'
  BY <1>4 DEF CountedLoops, BreakerBlocks
<1>5. ASSUME NEW c \in inFlight, LlmError(c) PROVE CountedLoops'
  BY <1>4, <1>5 DEF LlmError, history
<1>6. ASSUME NEW r \in Runs, GraphEnds(r) PROVE CountedLoops'
  <2>1. \A s \in Runs : status'[s] # "raised" => status[s] # "raised"
    BY <1>6 DEF GraphEnds, TypeOK
  <2> QED
    BY <1>4, <1>6, <2>1 DEF GraphEnds, meters, history
<1>7. ASSUME NEW r \in Runs, CancelRest(r) PROVE CountedLoops'
  BY <1>4, <1>7 DEF CancelRest, meters, history
<1>8. CASE UNCHANGED vars
  BY <1>4, <1>8 DEF vars, meters, history
<1> QED
  BY <1>1, <1>2, <1>3, <1>5, <1>6, <1>7, <1>8 DEF Next

(* "a single graph node firing more than max_node_repeats times (infinite  *)
(* loop)" (README.md:29) aborts the run, for any nodes and names of their  *)
(* LLMs, as long as no two LLM calls of the run are in flight at once      *)
(* (callbacks.py:45, 58, 69; circuit_breaker.py:29-52).                    *)
THEOREM LoopsAbort == Spec => []RepeatsAbort
<1>1. TypeOK /\ CountedLoops /\ [Next]_vars => CountedLoops'
  BY CountedStep
<1>2. TypeOK /\ CountedLoops => RepeatsAbort
  <2> SUFFICES ASSUME TypeOK, CountedLoops, NEW r \in Runs, NEW v \in Nodes, BreakerBlocks(r),
                      ~overlapped[r], completed[r][v] > policy[r].maxRepeats, status[r] # "raised"
               PROVE  FALSE
    BY DEF RepeatsAbort
  <2>1. NameOf[v] \in Names /\ policy[r].maxRepeats \in Nat
    BY PolicyType DEF Names, Policy
  <2>2. completed[r][v] \in Nat /\ nodeCounts[r][NameOf[v]] \in Nat
    BY <2>1 DEF TypeOK
  <2>3. completed[r][v] <= nodeCounts[r][NameOf[v]] /\ nodeCounts[r][NameOf[v]] <= policy[r].maxRepeats
    BY <2>1 DEF CountedLoops
  <2> QED
    BY <2>1, <2>2, <2>3
<1> QED
  BY <1>1, <1>2, CountedInit, MeteringTypes, PTL DEF Spec

-----------------------------------------------------------------------------
(* Sums over finite sets, with the argument of RateLimiter_proof: the      *)
(* recursion of MapThenSumSet has one solution, whatever element it picks. *)
LEMMA SmallestSubset ==
  ASSUME NEW S, IsFiniteSet(S), NEW Bad \in SUBSET SUBSET S, Bad # {}
  PROVE  \E s \in Bad : \A t \in Bad : t \subseteq s => t = s
<1>1. FiniteSubsetsOf(S) = SUBSET S
  BY FS_FiniteSubsetsOfFinite
<1>2. IsWellFoundedOn(StrictSubsetOrdering(S), SUBSET S)
  BY <1>1, FS_StrictSubsetOrderingWellFounded, Zenon
<1>3. PICK s \in Bad : \A t \in Bad : ~(<<t, s>> \in StrictSubsetOrdering(S))
  BY <1>2, WFMin, Zenon
<1> QED
  BY <1>3 DEF StrictSubsetOrdering

(* What holds of the empty set and survives adding an element holds of     *)
(* every finite set.                                                       *)
LEMMA FiniteInduction ==
  ASSUME NEW S, IsFiniteSet(S), NEW Good \in SUBSET SUBSET S,
         {} \in Good,
         \A T \in Good, x \in S : x \notin T => T \cup {x} \in Good
  PROVE  S \in Good
<1> SUFFICES ASSUME S \notin Good PROVE FALSE
  OBVIOUS
<1> DEFINE Bad == (SUBSET S) \ Good
<1>1. Bad \in SUBSET SUBSET S /\ Bad # {}
  OBVIOUS
<1> HIDE DEF Bad
<1>2. PICK s \in Bad : \A t \in Bad : t \subseteq s => t = s
  BY <1>1, SmallestSubset
<1>3. s \in SUBSET S /\ s \notin Good
  BY <1>2 DEF Bad
<1>4. PICK x \in s : TRUE
  BY <1>3
<1>5. s \ {x} \in SUBSET S /\ s \ {x} \notin Bad
  BY <1>2, <1>3, <1>4
<1>6. s \ {x} \in Good /\ x \notin s \ {x} /\ x \in S /\ (s \ {x}) \cup {x} = s
  BY <1>3, <1>4, <1>5 DEF Bad
<1> QED
  BY <1>3, <1>6

-----------------------------------------------------------------------------
(* h sums f over every subset of S, in whatever order.                     *)
Additive(h, f, S) ==
  /\ h \in [SUBSET S -> Nat]
  /\ h[{}] = 0
  /\ \A s \in SUBSET S : \A x \in s : h[s] = f[x] + h[s \ {x}]

LEMMA AdditiveExists ==
  ASSUME NEW S, IsFiniteSet(S), NEW f \in [S -> Nat]
  PROVE  \E h : Additive(h, f, S)
<1> DEFINE Good == {T \in SUBSET S : \E h : Additive(h, f, T)}
<1>1. {} \in Good
  <2> DEFINE h == [s \in SUBSET {} |-> 0]
  <2>1. Additive(h, f, {})
    BY DEF Additive
  <2> QED
    BY <2>1, Zenon
<1>2. ASSUME NEW T \in Good, NEW x \in S, x \notin T
      PROVE  T \cup {x} \in Good
  <2> DEFINE U == T \cup {x}
  <2>0. T \in SUBSET S
    OBVIOUS
  <2>1. PICK k : Additive(k, f, T)
    OBVIOUS
  <2> DEFINE h == [s \in SUBSET U |-> IF x \in s THEN f[x] + k[s \ {x}] ELSE k[s]]
  <2>2. /\ k \in [SUBSET T -> Nat] /\ k[{}] = 0
        /\ \A s \in SUBSET T : \A y \in s : k[s] = f[y] + k[s \ {y}]
    BY <2>1 DEF Additive
  <2>3. f[x] \in Nat /\ \A y \in T : f[y] \in Nat
    BY <2>0
  <2>4. \A s \in SUBSET U : s \ {x} \in SUBSET T /\ (x \notin s => s \in SUBSET T)
    OBVIOUS
  <2>5. h \in [SUBSET U -> Nat]
    BY <2>2, <2>3, <2>4
  <2>6. h[{}] = 0
    BY <2>2
  <2>7. ASSUME NEW s \in SUBSET U, NEW y \in s
        PROVE  h[s] = f[y] + h[s \ {y}]
    <3>1. s \ {y} \in SUBSET U
      OBVIOUS
    <3>2. CASE y = x
      <4>1. h[s] = f[x] + k[s \ {x}] /\ h[s \ {x}] = k[s \ {x}]
        BY <3>1, <3>2
      <4> QED
        BY <3>2, <4>1
    <3>3. CASE y # x /\ x \notin s
      <4>1. h[s] = k[s] /\ h[s \ {y}] = k[s \ {y}]
        BY <3>1, <3>3
      <4> QED
        BY <2>2, <2>4, <3>3, <4>1
    <3>4. CASE y # x /\ x \in s
      <4>1. h[s] = f[x] + k[s \ {x}] /\ h[s \ {y}] = f[x] + k[(s \ {y}) \ {x}]
        BY <3>1, <3>4
      <4>2. (s \ {y}) \ {x} = (s \ {x}) \ {y}
        OBVIOUS
      <4>3. y \in s \ {x} /\ y \in T
        BY <3>4
      <4>4. k[s \ {x}] = f[y] + k[(s \ {x}) \ {y}]
        BY <2>2, <2>4, <4>3
      <4>5. k[(s \ {x}) \ {y}] \in Nat
        BY <2>2, <2>4
      <4> HIDE DEF h
      <4> QED
        BY <2>3, <4>1, <4>2, <4>3, <4>4, <4>5
    <3> QED
      BY <3>2, <3>3, <3>4
  <2> HIDE DEF h
  <2>8. Additive(h, f, U)
    BY <2>5, <2>6, <2>7 DEF Additive
  <2>9. U \in SUBSET S
    BY <2>0
  <2> QED
    BY <2>8, <2>9
<1>3. Good \in SUBSET SUBSET S
  OBVIOUS
<1> HIDE DEF Good
<1>4. S \in Good
  BY <1>1, <1>2, <1>3, FiniteInduction
<1> QED
  BY <1>4 DEF Good

Some(s) == CHOOSE x \in s : TRUE

(* k is computed by the recursion of MapThenSumSet.                        *)
FoldsTo(k, f, S) ==
  k = [s \in SUBSET S |-> IF s = {} THEN 0 ELSE f[Some(s)] + k[s \ {Some(s)}]]

(* The recursion of a fold has one solution, the additive function.        *)
LEMMA SumRecursion ==
  ASSUME NEW S, IsFiniteSet(S), NEW f, NEW h, Additive(h, f, S), NEW k, FoldsTo(k, f, S)
  PROVE  k[S] = h[S]
<1> DEFINE Bad == {s \in SUBSET S : k[s] # h[s]}
<1> SUFFICES ASSUME Bad # {} PROVE FALSE
  OBVIOUS
<1>1. Bad \in SUBSET SUBSET S
  OBVIOUS
<1>2. PICK s \in Bad : \A t \in Bad : t \subseteq s => t = s
  <2> HIDE DEF Bad
  <2> QED
    BY <1>1, SmallestSubset
<1>3. s \in SUBSET S /\ k[s] # h[s]
  OBVIOUS
<1>4. \A t \in SUBSET S : k[t] = IF t = {} THEN 0 ELSE f[Some(t)] + k[t \ {Some(t)}]
  <2> HIDE DEF Bad
  <2> QED
    BY DEF FoldsTo
<1>5. s # {}
  BY <1>3, <1>4 DEF Additive
<1>6. Some(s) \in s
  BY <1>5 DEF Some
<1>7. s \ {Some(s)} \in SUBSET S /\ s \ {Some(s)} \notin Bad
  BY <1>2, <1>3, <1>6
<1>8. k[s \ {Some(s)}] = h[s \ {Some(s)}]
  BY <1>7
<1> HIDE DEF Bad
<1> QED
  BY <1>3, <1>4, <1>5, <1>6, <1>8 DEF Additive

LEMMA AdditiveRecursion ==
  ASSUME NEW S, NEW f, NEW h, Additive(h, f, S)
  PROVE  h = [s \in SUBSET S |-> IF s = {} THEN 0 ELSE f[Some(s)] + h[s \ {Some(s)}]]
<1>1. \A s \in SUBSET S : s # {} => Some(s) \in s
  BY DEF Some
<1>2. \A s \in SUBSET S :
        h[s] = IF s = {} THEN 0 ELSE f[Some(s)] + h[s \ {Some(s)}]
  BY <1>1 DEF Additive
<1>3. h \in [SUBSET S -> Nat]
  BY DEF Additive
<1> QED
  BY <1>2, <1>3

(* How often the nodes of S fired, when f counts them.                     *)
FiredSum(f, S) == MapThenSumSet(LAMBDA v : f[v], S)

LEMMA FiredIs ==
  ASSUME NEW S, IsFiniteSet(S), NEW f, NEW h, Additive(h, f, S)
  PROVE  FiredSum(f, S) = h[S]
<1> DEFINE iter == CHOOSE k : FoldsTo(k, f, S)
<1>1. FoldsTo(h, f, S)
  BY AdditiveRecursion DEF FoldsTo
<1>2. FoldsTo(iter, f, S)
  BY <1>1, Zenon
<1>3. FiredSum(f, S) = iter[S]
  BY DEF FiredSum, MapThenSumSet, MapThenFoldSet, Some, FoldsTo
<1> HIDE DEF iter
<1> QED
  BY <1>2, <1>3, SumRecursion

(* One more response of one node.                                          *)
OneMore(f, g, v, N) ==
  /\ f \in [N -> Nat] /\ g \in [N -> Nat]
  /\ \A x \in N : g[x] = IF x = v THEN f[x] + 1 ELSE f[x]

LEMMA FiredStep ==
  ASSUME NEW N, NEW S \in SUBSET N, IsFiniteSet(S), NEW f, NEW g, NEW v, OneMore(f, g, v, N)
  PROVE  /\ FiredSum(f, S) \in Nat
         /\ FiredSum(g, S) = FiredSum(f, S) + (IF v \in S THEN 1 ELSE 0)
<1> DEFINE e == [x \in S |-> f[x]]
<1>0. /\ f \in [N -> Nat] /\ g \in [N -> Nat]
      /\ \A x \in N : g[x] = IF x = v THEN f[x] + 1 ELSE f[x]
  BY DEF OneMore
<1>1. e \in [S -> Nat]
  BY <1>0
<1> HIDE DEF e
<1>2. PICK h : Additive(h, e, S)
  BY <1>1, AdditiveExists
<1>3. /\ h \in [SUBSET S -> Nat] /\ h[{}] = 0
      /\ \A s \in SUBSET S : \A x \in s : h[s] = f[x] + h[s \ {x}]
  BY <1>2 DEF Additive, e
<1> DEFINE k == [s \in SUBSET S |-> h[s] + (IF v \in s THEN 1 ELSE 0)]
<1>4. Additive(h, f, S)
  BY <1>3 DEF Additive
<1>5. Additive(k, g, S)
  <2>1. k \in [SUBSET S -> Nat] /\ k[{}] = 0
    BY <1>3
  <2>2. ASSUME NEW s \in SUBSET S, NEW x \in s
        PROVE  k[s] = g[x] + k[s \ {x}]
    <3>1. s \ {x} \in SUBSET S /\ x \in N
      OBVIOUS
    <3>2. h[s] = f[x] + h[s \ {x}] /\ h[s \ {x}] \in Nat /\ f[x] \in Nat
      BY <1>0, <1>3, <3>1
    <3>3. /\ k[s] = h[s] + (IF v \in s THEN 1 ELSE 0)
          /\ k[s \ {x}] = h[s \ {x}] + (IF v \in s \ {x} THEN 1 ELSE 0)
          /\ g[x] = IF x = v THEN f[x] + 1 ELSE f[x]
      BY <1>0, <3>1
    <3> HIDE DEF k
    <3>4. CASE x = v
      <4>1. k[s] = h[s] + 1 /\ k[s \ {x}] = h[s \ {x}] /\ g[x] = f[x] + 1
        BY <3>2, <3>3, <3>4
      <4> QED
        BY <3>2, <4>1
    <3>5. CASE x # v /\ v \in s
      <4>1. k[s] = h[s] + 1 /\ k[s \ {x}] = h[s \ {x}] + 1 /\ g[x] = f[x]
        BY <3>3, <3>5
      <4> QED
        BY <3>2, <4>1
    <3>6. CASE x # v /\ v \notin s
      <4>1. k[s] = h[s] /\ k[s \ {x}] = h[s \ {x}] /\ g[x] = f[x]
        BY <3>2, <3>3, <3>6
      <4> QED
        BY <3>2, <4>1
    <3> QED
      BY <3>4, <3>5, <3>6
  <2> HIDE DEF k
  <2> QED
    BY <2>1, <2>2 DEF Additive
<1>6. FiredSum(f, S) = h[S]
  BY <1>4, FiredIs
<1>7. FiredSum(g, S) = k[S]
  <2> HIDE DEF k
  <2> QED BY <1>5, FiredIs
<1>8. k[S] = h[S] + (IF v \in S THEN 1 ELSE 0) /\ h[S] \in Nat
  BY <1>3
<1> HIDE DEF k
<1> QED
  BY <1>6, <1>7, <1>8

-----------------------------------------------------------------------------
NodesOf(m) == {v \in Nodes : NameOf[v] = m}

(* The breaker counts no name more often than the nodes that share it have *)
(* fired, unless calls overlapped; and when it has tripped on repeats, the *)
(* count of some name shows why.                                           *)
TrippedLoops ==
  /\ \A r \in Runs : ~overlapped[r] =>
       \A m \in Names : nodeCounts[r][m] <= FiredSum(completed[r], NodesOf(m))
  /\ \A r \in Runs : RepeatTripped(r) =>
       \E m \in Names : nodeCounts[r][m] > policy[r].maxRepeats

LEMMA NodesFinite ==
  ASSUME NEW m
  PROVE  NodesOf(m) \in SUBSET Nodes /\ IsFiniteSet(NodesOf(m))
<1>1. NodesOf(m) \in SUBSET Nodes
  BY DEF NodesOf
<1> QED
  BY <1>1, FS_Subset, MeteringAssumption

LEMMA TrippedInit == Init => TrippedLoops
<1> SUFFICES ASSUME Init PROVE TrippedLoops
  OBVIOUS
<1>1. TypeOK
  BY InitType
<1>2. ASSUME NEW r \in Runs, NEW m \in Names
      PROVE  nodeCounts[r][m] <= FiredSum(completed[r], NodesOf(m))
  <2> DEFINE S == NodesOf(m)
             f == [x \in S |-> 0]
             h == [s \in SUBSET S |-> 0]
  <2>1. Additive(h, completed[r], S)
    <3>1. \A x \in S : completed[r][x] = 0
      BY NodesFinite DEF Init
    <3> HIDE DEF S
    <3> QED
      BY <3>1 DEF Additive
  <2>2. FiredSum(completed[r], S) = h[S]
    <3> HIDE DEF h
    <3> QED BY <2>1, FiredIs, NodesFinite
  <2>3. h[S] = 0 /\ nodeCounts[r][m] = 0
    BY DEF Init
  <2> QED
    BY <2>2, <2>3
<1>3. \A r \in Runs : ~RepeatTripped(r)
  BY DEF Init, RepeatTripped
<1> QED
  BY <1>2, <1>3 DEF TrippedLoops

(* A log that records a trip of the breaker on repeats.                    *)
RepeatsIn(l) == \E i \in 1..Len(l) : l[i].rule = "circuit_breaker.max_node_repeats"

LEMMA RepeatsKept ==
  ASSUME NEW a \in Seq(Record), NEW b \in Seq(Record)
  PROVE  RepeatsIn(a \o b) <=> RepeatsIn(a) \/ RepeatsIn(b)
<1>1. /\ Len(a \o b) = Len(a) + Len(b) /\ Len(a) \in Nat /\ Len(b) \in Nat
      /\ \A i \in 1..Len(a) : (a \o b)[i] = a[i]
      /\ \A i \in 1..Len(b) : (a \o b)[Len(a) + i] = b[i]
  OBVIOUS
<1>2. ASSUME NEW i \in 1..Len(a \o b)
      PROVE  i \in 1..Len(a) \/ \E j \in 1..Len(b) : i = Len(a) + j
  <2>1. i \in 1..Len(a) \/ (i - Len(a) \in 1..Len(b) /\ i = Len(a) + (i - Len(a)))
    BY <1>1
  <2> QED
    BY <2>1
<1>3. RepeatsIn(a \o b) => RepeatsIn(a) \/ RepeatsIn(b)
  BY <1>1, <1>2 DEF RepeatsIn
<1>4. RepeatsIn(a) => RepeatsIn(a \o b)
  BY <1>1 DEF RepeatsIn
<1>5. RepeatsIn(b) => RepeatsIn(a \o b)
  <2> SUFFICES ASSUME NEW i \in 1..Len(b), b[i].rule = "circuit_breaker.max_node_repeats"
               PROVE  RepeatsIn(a \o b)
    BY DEF RepeatsIn
  <2>1. Len(a) + i \in 1..Len(a \o b) /\ (a \o b)[Len(a) + i] = b[i]
    BY <1>1
  <2> QED
    BY <2>1 DEF RepeatsIn
<1> QED
  BY <1>3, <1>4, <1>5

LEMMA RepeatsOf ==
  ASSUME NEW rule, NEW action
  PROVE  RepeatsIn(Violation(rule, action)) => rule = "circuit_breaker.max_node_repeats"
<1>1. CASE rule = "none"
  BY <1>1 DEF RepeatsIn, Violation
<1>2. CASE rule # "none"
  BY <1>2 DEF RepeatsIn, Violation
<1> QED
  BY <1>1, <1>2

(* At most the name k was counted, at most once.                           *)
CountsGrow(a, b, k) ==
  \A m \in Names : a[m] <= b[m] /\ b[m] <= a[m] + (IF m = k THEN 1 ELSE 0)

SameForOthers(r) ==
  \A s \in Runs \ {r} : nodeCounts'[s] = nodeCounts[s] /\ log'[s] = log[s]

CountExceeds(counts, limit) == \E m \in Names : counts[m] > limit

(* One response: of the run's names, at most the one the handler remembers *)
(* is counted, and the graph node that responded has fired once more.      *)
LEMMA TrippedResponse ==
  ASSUME TypeOK, TypeOK', CountedLoops, TrippedLoops,
         NEW c \in inFlight, NEW n \in TokenCounts, Respond(c, n), NEW r, r = c.run,
         SameForOthers(r), CountsGrow(nodeCounts[r], nodeCounts'[r], currentNode[r]),
         RepeatsIn(log'[r]) => RepeatsIn(log[r]) \/ CountExceeds(nodeCounts'[r], policy[r].maxRepeats)
  PROVE  TrippedLoops'
<1>1. /\ r \in Runs /\ c.node \in Nodes
      /\ UNCHANGED <<policy, currentNode, overlapped>>
      /\ \A s \in Runs \ {r} : completed'[s] = completed[s]
  BY RespondType DEF Respond
<1>2. /\ \A s \in Runs : completed[s] \in [Nodes -> Nat] /\ completed'[s] \in [Nodes -> Nat]
      /\ \A s \in Runs : nodeCounts[s] \in [Names -> Nat] /\ nodeCounts'[s] \in [Names -> Nat]
      /\ policy[r].maxRepeats \in Nat
  BY <1>1, PolicyType DEF TypeOK, Policy
<1>3. OneMore(completed[r], completed'[r], c.node, Nodes)
  <2>1. completed' = [completed EXCEPT ![r] =
                        [completed[r] EXCEPT ![c.node] = completed[r][c.node] + 1]]
    BY DEF Respond
  <2>2. completed'[r] = [completed[r] EXCEPT ![c.node] = completed[r][c.node] + 1]
    BY <1>1, <2>1 DEF TypeOK
  <2>3. completed[r] \in [Nodes -> Nat] /\ completed'[r] \in [Nodes -> Nat]
    BY <1>1, <1>2
  <2>4. \A v \in Nodes : completed'[r][v] = IF v = c.node THEN completed[r][v] + 1 ELSE completed[r][v]
    BY <2>2, <2>3
  <2> QED
    BY <2>3, <2>4 DEF OneMore
<1>0. /\ \A s \in Runs \ {r} : nodeCounts'[s] = nodeCounts[s] /\ log'[s] = log[s]
      /\ \A m \in Names :
           /\ nodeCounts[r][m] <= nodeCounts'[r][m]
           /\ nodeCounts'[r][m] <= nodeCounts[r][m] + (IF m = currentNode[r] THEN 1 ELSE 0)
      /\ RepeatsIn(log'[r]) =>
           RepeatsIn(log[r]) \/ \E m \in Names : nodeCounts'[r][m] > policy[r].maxRepeats
  BY DEF SameForOthers, CountsGrow, CountExceeds
<1>4. ASSUME NEW s \in Runs, ~overlapped'[s], NEW m \in Names
      PROVE  nodeCounts'[s][m] <= FiredSum(completed'[s], NodesOf(m))
  <2>1. nodeCounts[s][m] <= FiredSum(completed[s], NodesOf(m))
    BY <1>1, <1>4 DEF TrippedLoops
  <2>2. CASE s # r
    <3>1. nodeCounts'[s] = nodeCounts[s] /\ completed'[s] = completed[s]
      BY <1>0, <1>1, <2>2
    <3> QED
      BY <2>1, <3>1
  <2>3. CASE s = r
    <3>1. /\ FiredSum(completed[r], NodesOf(m)) \in Nat
          /\ FiredSum(completed'[r], NodesOf(m)) =
               FiredSum(completed[r], NodesOf(m)) + (IF c.node \in NodesOf(m) THEN 1 ELSE 0)
      BY <1>3, NodesFinite, FiredStep
    <3>2. currentNode[r] = NameOf[c.node]
      BY <1>1, <1>4, <2>3 DEF CountedLoops
    <3>3. m = currentNode[r] <=> c.node \in NodesOf(m)
      BY <1>1, <3>2 DEF NodesOf
    <3>4. nodeCounts'[r][m] <= nodeCounts[r][m] + (IF c.node \in NodesOf(m) THEN 1 ELSE 0)
      BY <1>0, <3>3
    <3>5. nodeCounts[r][m] \in Nat /\ nodeCounts'[r][m] \in Nat
      BY <1>1, <1>2
    <3> QED
      BY <2>1, <2>3, <3>1, <3>4, <3>5
  <2> QED
    BY <2>2, <2>3
<1>5. ASSUME NEW s \in Runs, RepeatsIn(log'[s])
      PROVE  \E m \in Names : nodeCounts'[s][m] > policy[s].maxRepeats
  <2>1. CASE s # r
    BY <1>0, <1>1, <1>5, <2>1 DEF TrippedLoops, RepeatTripped, RepeatsIn
  <2>2. CASE s = r /\ RepeatsIn(log[r])
    <3>1. PICK m \in Names : nodeCounts[r][m] > policy[r].maxRepeats
      BY <1>1, <2>2 DEF TrippedLoops, RepeatTripped, RepeatsIn
    <3>2. nodeCounts[r][m] \in Nat /\ nodeCounts'[r][m] \in Nat
      BY <1>1, <1>2
    <3>3. nodeCounts'[r][m] > policy[r].maxRepeats
      BY <1>0, <1>2, <3>1, <3>2
    <3> QED
      BY <2>2, <3>3
  <2>3. CASE s = r /\ ~RepeatsIn(log[r])
    BY <1>0, <1>5, <2>3
  <2> QED
    BY <2>1, <2>2, <2>3
<1> QED
  BY <1>1, <1>4, <1>5 DEF TrippedLoops, RepeatTripped, RepeatsIn

LEMMA TrippedStep ==
  ASSUME TypeOK, TypeOK', CountedLoops, TrippedLoops, [Next]_vars
  PROVE  TrippedLoops'
<1>1. ASSUME NEW c \in inFlight, NEW n \in TokenCounts, LlmEndOverBudget(c, n)
      PROVE  TrippedLoops'
  <2> DEFINE r == c.run
             new == Violation(BudgetRule(r, n), policy[r].budgetAction)
  <2>1. Respond(c, n) /\ r \in Runs
    BY <1>1, RespondType DEF LlmEndOverBudget
  <2>2. nodeCounts' = nodeCounts /\ log' = [log EXCEPT ![r] = log[r] \o new]
    BY <1>1 DEF LlmEndOverBudget, meters
  <2>3. log[r] \in Seq(Record) /\ new \in Seq(Record) /\ ~RepeatsIn(new)
    <3>1. policy[r].budgetAction \in Actions
      BY <2>1, PolicyType DEF Policy
    <3> QED
      BY <2>1, <3>1, RuleTypes, ViolationType, RepeatsOf DEF TypeOK
  <2> HIDE DEF r, new
  <2>4. log'[r] = log[r] \o new /\ \A s \in Runs \ {r} : log'[s] = log[s]
    BY <2>1, <2>2 DEF TypeOK
  <2>5. RepeatsIn(log'[r]) => RepeatsIn(log[r])
    BY <2>3, <2>4, RepeatsKept
  <2>6. \A m \in Names :
          /\ nodeCounts[r][m] <= nodeCounts'[r][m]
          /\ nodeCounts'[r][m] <= nodeCounts[r][m] + (IF m = currentNode[r] THEN 1 ELSE 0)
    <3>1. \A m \in Names : nodeCounts[r][m] \in Nat
      BY <2>1 DEF TypeOK
    <3> QED
      BY <2>2, <3>1
  <2>7. r = c.run
    BY DEF r
  <2>8. SameForOthers(r) /\ CountsGrow(nodeCounts[r], nodeCounts'[r], currentNode[r])
    BY <2>2, <2>4, <2>6 DEF SameForOthers, CountsGrow
  <2> QED
    BY <2>1, <2>5, <2>7, <2>8, TrippedResponse
<1>2. ASSUME NEW c \in inFlight, NEW n \in TokenCounts, LlmEndMetered(c, n)
      PROVE  TrippedLoops'
  <2> DEFINE r == c.run
             m == currentNode[r]
             over == Violation(BudgetRule(r, n), policy[r].budgetAction)
             trip == Violation(BreakerRule(r), policy[r].breakerAction)
  <2>1. Respond(c, n) /\ r \in Runs
    BY <1>2, RespondType DEF LlmEndMetered
  <2>2. /\ nodeCounts' = [nodeCounts EXCEPT ![r] = [nodeCounts[r] EXCEPT ![m] = nodeCounts[r][m] + 1]]
        /\ log' = [log EXCEPT ![r] = (log[r] \o over) \o trip]
    BY <1>2 DEF LlmEndMetered
  <2>3. nodeCounts[r] \in [Names -> Nat] /\ m \in Names
    BY <2>1 DEF TypeOK
  <2>4. /\ log[r] \in Seq(Record) /\ over \in Seq(Record) /\ trip \in Seq(Record)
        /\ ~RepeatsIn(over)
        /\ RepeatsIn(trip) => BreakerRule(r) = "circuit_breaker.max_node_repeats"
    <3>1. policy[r].budgetAction \in Actions /\ policy[r].breakerAction \in Actions
      BY <2>1, PolicyType DEF Policy
    <3>2. log[r] \in Seq(Record)
      BY <2>1 DEF TypeOK
    <3>3. over \in Seq(Record) /\ ~RepeatsIn(over)
      BY <3>1, RuleTypes, ViolationType, RepeatsOf
    <3>4. trip \in Seq(Record) /\ (RepeatsIn(trip) => BreakerRule(r) = "circuit_breaker.max_node_repeats")
      BY <3>1, RuleTypes, ViolationType, RepeatsOf
    <3> QED
      BY <3>2, <3>3, <3>4
  <2>5. BreakerRule(r) = "circuit_breaker.max_node_repeats" =>
          nodeCounts[r][m] + 1 > policy[r].maxRepeats
    BY DEF BreakerRule, NodeCountAfter
  <2>6. r = c.run /\ m = currentNode[r]
    OBVIOUS
  <2> HIDE DEF r, m, over, trip
  <2>7. /\ nodeCounts'[r] = [nodeCounts[r] EXCEPT ![m] = nodeCounts[r][m] + 1]
        /\ log'[r] = (log[r] \o over) \o trip
        /\ \A s \in Runs \ {r} : nodeCounts'[s] = nodeCounts[s] /\ log'[s] = log[s]
    BY <2>1, <2>2 DEF TypeOK
  <2>8. \A k \in Names : nodeCounts'[r][k] = IF k = m THEN nodeCounts[r][k] + 1 ELSE nodeCounts[r][k]
    BY <2>3, <2>7
  <2>9. log[r] \o over \in Seq(Record)
    BY <2>4
  <2>10. RepeatsIn(log'[r]) => RepeatsIn(log[r]) \/ RepeatsIn(trip)
    <3>1. RepeatsIn((log[r] \o over) \o trip) <=> RepeatsIn(log[r] \o over) \/ RepeatsIn(trip)
      BY <2>4, <2>9, RepeatsKept
    <3>2. RepeatsIn(log[r] \o over) <=> RepeatsIn(log[r]) \/ RepeatsIn(over)
      BY <2>4, RepeatsKept
    <3> QED
      BY <2>4, <2>7, <3>1, <3>2
  <2>11. RepeatsIn(log'[r]) =>
           RepeatsIn(log[r]) \/ CountExceeds(nodeCounts'[r], policy[r].maxRepeats)
    BY <2>3, <2>4, <2>5, <2>8, <2>10 DEF CountExceeds
  <2>12. \A k \in Names :
           /\ nodeCounts[r][k] <= nodeCounts'[r][k]
           /\ nodeCounts'[r][k] <= nodeCounts[r][k] + (IF k = currentNode[r] THEN 1 ELSE 0)
    <3>1. \A k \in Names : nodeCounts[r][k] \in Nat
      BY <2>3
    <3> QED
      BY <2>6, <2>8, <3>1
  <2>13. SameForOthers(r) /\ CountsGrow(nodeCounts[r], nodeCounts'[r], currentNode[r])
    BY <2>7, <2>12 DEF SameForOthers, CountsGrow
  <2> QED
    BY <2>1, <2>6, <2>11, <2>13, TrippedResponse
<1>3. ASSUME UNCHANGED <<policy, nodeCounts, completed, log>>,
             \A r \in Runs : overlapped[r] => overlapped'[r]
      PROVE  TrippedLoops'
  BY <1>3 DEF TrippedLoops, RepeatTripped
<1>4. ASSUME NEW r \in Runs, NEW v \in Nodes, LlmStart(r, v) PROVE TrippedLoops'
  <2>1. \A s \in Runs : overlapped[s] => overlapped'[s]
    BY <1>4 DEF LlmStart, TypeOK
  <2> QED
    BY <1>3, <1>4, <2>1 DEF LlmStart, meters
<1>5. ASSUME NEW c \in inFlight, LlmError(c) PROVE TrippedLoops'
  BY <1>3, <1>5 DEF LlmError, history
<1>6. ASSUME NEW r \in Runs, GraphEnds(r) \/ CancelRest(r) PROVE TrippedLoops'
  BY <1>3, <1>6 DEF GraphEnds, CancelRest, meters, history
<1>7. CASE UNCHANGED vars
  BY <1>3, <1>7 DEF vars, meters, history
<1> QED
  BY <1>1, <1>2, <1>4, <1>5, <1>6, <1>7 DEF Next

(* The breaker trips on repeats only in a run in which the nodes that      *)
(* share one LLM name fired more often than max_node_repeats between them, *)
(* for any graph and names, as long as no two LLM calls of the run were in *)
(* flight at once (callbacks.py:45, 58, 69; circuit_breaker.py:29-52).     *)
THEOREM TripsAreJust == Spec => []RepeatsJustified
<1>1. TypeOK /\ CountedLoops /\ [Next]_vars => CountedLoops'
  BY CountedStep
<1>2. TypeOK /\ TypeOK' /\ CountedLoops /\ TrippedLoops /\ [Next]_vars => TrippedLoops'
  BY TrippedStep
<1>3. TypeOK /\ TrippedLoops => RepeatsJustified
  <2> SUFFICES ASSUME TypeOK, TrippedLoops, NEW r \in Runs, RepeatTripped(r), ~overlapped[r]
               PROVE  \E m \in Names : FiredSum(completed[r], NodesOf(m)) > policy[r].maxRepeats
    BY DEF RepeatsJustified, FiredSum, NodesOf
  <2>1. PICK m \in Names : nodeCounts[r][m] > policy[r].maxRepeats
    BY DEF TrippedLoops
  <2>2. nodeCounts[r][m] <= FiredSum(completed[r], NodesOf(m))
    BY DEF TrippedLoops
  <2>3. nodeCounts[r][m] \in Nat /\ policy[r].maxRepeats \in Nat /\ completed[r] \in [Nodes -> Nat]
    <3>1. nodeCounts[r] \in [Names -> Nat] /\ completed[r] \in [Nodes -> Nat]
      BY DEF TypeOK
    <3>2. policy[r].maxRepeats \in Nat
      BY PolicyType DEF Policy
    <3> QED
      BY <3>1, <3>2
  <2>4. FiredSum(completed[r], NodesOf(m)) \in Nat
    <3> DEFINE f == completed[r]
               S == NodesOf(m)
               e == [x \in S |-> f[x]]
    <3>1. S \in SUBSET Nodes /\ IsFiniteSet(S)
      BY NodesFinite
    <3>2. e \in [S -> Nat]
      BY <2>3, <3>1
    <3> HIDE DEF S
    <3>3. PICK h : Additive(h, e, S)
      BY <3>1, <3>2, AdditiveExists
    <3>4. Additive(h, f, S)
      BY <3>3 DEF Additive
    <3>5. h[S] \in Nat
      BY <3>3 DEF Additive
    <3> QED
      BY <3>1, <3>4, <3>5, FiredIs DEF S
  <2> QED
    BY <2>1, <2>2, <2>3, <2>4
<1> QED
  BY <1>1, <1>2, <1>3, CountedInit, TrippedInit, MeteringTypes, PTL DEF Spec
=============================================================================
