------------------------- MODULE SentinelCore_proof -------------------------
(***************************************************************************)
(* The path of a call, for any calls, users, policies, routes, output      *)
(* guards, reloads and crashes: what a guard refuses never reaches the     *)
(* graph, an exception is explained by the log, only admitted calls take   *)
(* quota; one policy decides a call; the store answers for dead processes; *)
(* and all of it implements Enforcement.                                   *)
(***************************************************************************)
EXTENDS SentinelCore, TLAPS

(* What the constants' assumption says of one policy.                      *)
LEMMA RulesTyped ==
  ASSUME NEW p \in Policies
  PROVE  /\ Rules[p].rateAction \in Actions
         /\ Rules[p].metering \subseteq Actions
         /\ \A g \in Guards : Rules[p].output[g] \in Actions
BY CoreAssumption DEF PolicyRules

(* _record_violation: the log of the call grows by the records, and what   *)
(* is being saved stays typed.                                             *)
LEMMA Recorded ==
  ASSUME TypeOK, NEW c \in Calls, NEW recs \in SUBSET Record, RecordViolations(c, recs)
  PROVE  /\ log' \in [Calls -> SUBSET Record]
         /\ log'[c] = log[c] \cup recs
         /\ \A d \in Calls \ {c} : log'[d] = log[d]
         /\ saving' \subseteq Save /\ lost' \subseteq Save
         /\ saved' \in [Calls -> SUBSET Record]
<1>1. saving' \subseteq Save
  BY DEF RecordViolations, TypeOK, Save
<1> QED
  BY <1>1 DEF RecordViolations, TypeOK

(* A verdict yields at most one record, of the guard, the verdict and the  *)
(* mode.                                                                   *)
LEMMA Reported1 ==
  ASSUME NEW g \in SyncGuards \cup {"graph"} \cup Guards, NEW v, NEW s \in BOOLEAN
  PROVE  /\ Reports(g, v, s) \in SUBSET Record
         /\ \A x \in Reports(g, v, s) : x.guard = g /\ x.action = v /\ x.shadow = s
<1>1. CASE v \in Actions
  <2>1. Reports(g, v, s) = {Rec(g, v, s)}
    BY <1>1 DEF Reports
  <2>2. Rec(g, v, s) \in Record
    BY <1>1 DEF Rec, Record
  <2>3. Rec(g, v, s).guard = g /\ Rec(g, v, s).action = v /\ Rec(g, v, s).shadow = s
    BY DEF Rec
  <2> QED
    BY <2>1, <2>2, <2>3
<1>2. CASE v \notin Actions
  BY <1>2 DEF Reports
<1> QED
  BY <1>1, <1>2

(* The stages of a call before and after its rate check, and the records   *)
(* that refuse it.                                                         *)
Checked  == {"input", "budget", "rate"}
Admitted == {"shadow", "observe", "start", "graph", "yielded", "over"}
Started  == {"graph", "yielded", "over"}
Refusal(x) == ~x.shadow /\ x.action \in Blocking /\ x.guard \in SyncGuards
Cause(x) == ~x.shadow /\ x.action \in Blocking /\ x.guard \in SyncGuards \cup {"graph"}

(* A record of a call that takes no entry of the rate window.              *)
Denial(x) == ~x.shadow /\ x.guard \in SyncGuards /\ (x.guard = "rate" \/ x.action \in Blocking)

(* One step of one call keeps the invariant of the guards if it refuses    *)
(* only before the graph, and leaves; starts the graph only after the      *)
(* guards; raises only with a cause on record; and takes quota only by     *)
(* passing the rate check.                                                 *)
LEMMA CallStep ==
  ASSUME GuardsInv, TypeOK, NEW c \in Calls, NEW l,
         pc' = [pc EXCEPT ![c] = l],
         pc[c] = "over" => l = "over",
         pc[c] \in Admitted => l \in Admitted,
         pc[c] \in Started => l \in Started,
         log[c] \subseteq log'[c],
         \A x \in log'[c] \ log[c] : Refusal(x) => pc[c] \in Checked /\ l = "over",
         \A d \in Calls \ {c} : log'[d] = log[d],
         invoked' = invoked \/ (invoked' = invoked \cup {c} /\ pc[c] = "start" /\ l = "graph"),
         \A d \in Calls \ {c} : outcome'[d] = outcome[d],
         outcome'[c] = "blocked" => outcome[c] = "blocked" \/ \E x \in log'[c] : Cause(x),
         \A x \in log'[c] \ log[c] : x.guard = "rate" => l \in Admitted,
         \A x \in log'[c] \ log[c] : Denial(x) => pc[c] \in Checked,
         \A d \in Calls \ {c} : quota'[d] = quota[d],
         \/ quota'[c] = quota[c]
         \/ quota'[c] = quota[c] + 1 /\ pc[c] = "rate" /\ l = "shadow" /\ log'[c] = log[c]
  PROVE  GuardsInv'
<1>1. /\ pc'[c] = l
      /\ \A d \in Calls \ {c} : pc'[d] = pc[d]
      /\ \A d \in invoked' : d \in Calls
  BY DEF TypeOK
<1>2. RefusedStayOut'
  <2> SUFFICES ASSUME NEW d \in Calls, NEW x \in log'[d], Refusal(x)
               PROVE  pc'[d] = "over" /\ d \notin invoked'
    BY DEF RefusedStayOut, EnforcedBlocks, Refusal
  <2>1. x \in log[d] => pc[d] = "over" /\ d \notin invoked
    BY DEF GuardsInv, RefusedStayOut, EnforcedBlocks, Refusal
  <2>2. CASE d # c
    BY <1>1, <2>1, <2>2
  <2>3. CASE d = c /\ x \in log[c]
    BY <1>1, <2>1, <2>3
  <2>4. CASE d = c /\ x \notin log[c]
    <3>1. pc[c] \in Checked /\ l = "over"
      BY <2>4
    <3>2. c \notin invoked
      BY <3>1 DEF GuardsInv, InvokedPassed, Checked
    <3> QED
      BY <1>1, <2>4, <3>1, <3>2 DEF Checked
  <2> QED
    BY <2>2, <2>3, <2>4
<1>3. InvokedPassed'
  BY <1>1 DEF GuardsInv, InvokedPassed, Started
<1>4. BlockedMeansRecorded'
  <2>1. ASSUME NEW d \in Calls, d \in invoked', NEW x \in EnforcedBlocks(d)'
        PROVE  x.guard \notin SyncGuards
    BY <1>2, <2>1 DEF RefusedStayOut
  <2>2. ASSUME NEW d \in Calls, outcome'[d] = "blocked"
        PROVE  \E x \in log'[d] : Cause(x)
    <3>1. outcome[d] = "blocked" => \E x \in log[d] : Cause(x)
      BY DEF GuardsInv, BlockedMeansRecorded, EnforcedBlocks, Cause
    <3> QED
      BY <2>2, <3>1
  <2> QED
    BY <2>1, <2>2 DEF BlockedMeansRecorded, EnforcedBlocks, Cause
<1>5. RateUndecided'
  <2> SUFFICES ASSUME NEW d \in Calls, pc'[d] \in {"new"} \cup Checked, NEW x \in log'[d]
               PROVE  x.guard # "rate"
    BY DEF RateUndecided, Checked
  <2>1. pc[d] \in {"new"} \cup Checked
    BY <1>1 DEF TypeOK, Checked, Admitted
  <2>2. x \in log[d] \/ x.guard # "rate"
    <3>1. CASE d = c
      BY <1>1, <3>1 DEF Checked, Admitted
    <3>2. CASE d # c
      BY <3>2
    <3> QED
      BY <3>1, <3>2
  <2> QED
    BY <2>1, <2>2 DEF GuardsInv, RateUndecided, Checked
<1>6. OnlyAdmittedConsume'
  <2> SUFFICES ASSUME NEW d \in Calls, quota'[d] > 0
               PROVE  quota'[d] = 1 /\ pc'[d] \in Admitted /\ \A x \in log'[d] : ~Denial(x)
    BY DEF OnlyAdmittedConsume, Denial, Admitted
  <2>1. /\ quota[d] \in Nat
        /\ quota[d] > 0 =>
             quota[d] = 1 /\ pc[d] \in Admitted /\ \A x \in log[d] : ~Denial(x)
    BY DEF TypeOK, GuardsInv, OnlyAdmittedConsume, Denial, Admitted
  <2>2. CASE d # c
    BY <1>1, <2>1, <2>2
  <2>3. CASE d = c /\ quota'[c] = quota[c]
    <3>1. quota[c] = 1 /\ pc[c] \in Admitted /\ \A x \in log[c] : ~Denial(x)
      BY <2>1, <2>3
    <3>2. \A x \in log'[c] : ~Denial(x)
      BY <3>1 DEF Admitted, Checked
    <3> QED
      BY <1>1, <2>3, <3>1, <3>2
  <2>4. CASE d = c /\ quota'[c] = quota[c] + 1 /\ pc[c] = "rate" /\ l = "shadow" /\ log'[c] = log[c]
    <3>1. quota[c] = 0
      BY <2>1, <2>4 DEF Admitted
    <3>2. \A x \in log[c] : ~Denial(x)
      BY <2>4 DEF GuardsInv, RateUndecided, RefusedStayOut, EnforcedBlocks, Denial
    <3> QED
      BY <1>1, <2>4, <3>1, <3>2 DEF Admitted
  <2> QED
    BY <2>2, <2>3, <2>4
<1> QED
  BY <1>2, <1>3, <1>4, <1>5, <1>6 DEF GuardsInv

(* Steps that only free quota, or touch none of this, keep it.             *)
LEMMA QuietStep ==
  ASSUME GuardsInv, TypeOK, UNCHANGED <<pc, outcome, invoked, log>>,
         \A c \in Calls : quota'[c] \in Nat /\ quota'[c] <= quota[c]
  PROVE  GuardsInv'
<1>1. \A c \in Calls : quota'[c] > 0 => quota[c] > 0 /\ (quota[c] = 1 => quota'[c] = 1)
  BY DEF TypeOK
<1>2. OnlyAdmittedConsume'
  BY <1>1 DEF GuardsInv, OnlyAdmittedConsume
<1> QED
  BY <1>2 DEF GuardsInv, RefusedStayOut, InvokedPassed, RateUndecided, BlockedMeansRecorded,
              EnforcedBlocks

(* One step of one call keeps PolicyResolved if the call has its policy    *)
(* after it, and its shadow policy when it goes on to decide under it.     *)
LEMMA ResolvedStep ==
  ASSUME PolicyResolved, TypeOK, NEW c \in Calls, NEW l, l # "new",
         pc' = [pc EXCEPT ![c] = l],
         pc[c] = "over" => l = "over",
         pol'[c] \in Policies, \A d \in Calls \ {c} : pol'[d] = pol[d],
         shadow'[c] = shadow[c] \/ pc[c] = "shadow",
         \A d \in Calls \ {c} : shadow'[d] = shadow[d],
         l = "observe" => shadow'[c] \in Policies,
         \A t \in tasks' : \/ t \in tasks
                           \/ t.call = c /\ l = "over" /\ (t.shadow => shadow'[c] \in Policies)
  PROVE  PolicyResolved'
<1>1. pc'[c] = l /\ \A d \in Calls \ {c} : pc'[d] = pc[d]
  BY DEF TypeOK
<1>2. ASSUME NEW t \in tasks'
      PROVE  pc'[t.call] = "over" /\ (t.shadow => shadow'[t.call] \in Policies)
  <2>1. CASE t \in tasks
    <3>1. t.call \in Calls
      BY <2>1 DEF TypeOK, Task
    <3> QED
      BY <1>1, <2>1, <3>1 DEF PolicyResolved
  <2>2. CASE t \notin tasks
    BY <1>1, <1>2, <2>2
  <2> QED
    BY <2>1, <2>2
<1> QED
  BY <1>1, <1>2 DEF PolicyResolved

(* A pre-graph guard, and the quota it takes when it lets the call pass.   *)
LEMMA GuardStep ==
  ASSUME TypeOK, PolicyResolved, GuardsInv, NEW c \in Calls,
         NEW g \in SyncGuards, NEW v, NEW next \in Checked \cup {"shadow"},
         pc[c] \in Checked, SyncGuard(c, g, v, next), g = "rate" => next = "shadow",
         \/ quota' = quota
         \/ /\ quota' = [quota EXCEPT ![c] = @ + 1]
            /\ pc[c] = "rate" /\ next = "shadow" /\ v = "pass"
  PROVE  TypeOK' /\ PolicyResolved' /\ GuardsInv'
<1> DEFINE recs == Reports(g, v, FALSE)
           l == IF v \in Blocking THEN "over" ELSE next
<1>1. recs \in SUBSET Record /\ \A x \in recs : x.guard = g /\ x.action = v /\ x.shadow = FALSE
  BY Reported1
<1>2. v \in Blocking => \E x \in recs : x.guard = g /\ x.action = v /\ x.shadow = FALSE
  <2>1. v \in Blocking => v \in Actions
    BY DEF Blocking, Actions
  <2>2. v \in Actions => \E x \in recs : x.guard = g /\ x.action = v /\ x.shadow = FALSE
    <3>1. v \in Actions => Rec(g, v, FALSE) \in recs
      BY DEF Reports
    <3>2. Rec(g, v, FALSE).guard = g /\ Rec(g, v, FALSE).action = v /\ Rec(g, v, FALSE).shadow = FALSE
      BY DEF Rec
    <3> QED
      BY <3>1, <3>2
  <2> QED
    BY <2>1, <2>2
<1>3. RecordViolations(c, recs)
  BY DEF SyncGuard
<1> HIDE DEF recs
<1>4. /\ log' \in [Calls -> SUBSET Record] /\ log'[c] = log[c] \cup recs
      /\ \A d \in Calls \ {c} : log'[d] = log[d]
      /\ saving' \subseteq Save /\ lost' \subseteq Save /\ saved' \in [Calls -> SUBSET Record]
  BY <1>1, <1>3, Recorded
<1>5. /\ pc' = [pc EXCEPT ![c] = l]
      /\ outcome' = IF v \in Blocking THEN [outcome EXCEPT ![c] = "blocked"] ELSE outcome
      /\ loop' \in {loop, NoCall}
      /\ UNCHANGED <<current, pol, shadow, invoked, texts, session, tasks, judged>>
  BY DEF SyncGuard, Leave, Goto, guardVars
<1>6. quota' \in [Calls -> Nat]
  BY DEF TypeOK
<1>7. l \in Checked \cup {"shadow", "over"} /\ (pc[c] \in Checked => pc[c] \notin {"new", "over"})
  BY DEF Checked
<1>8. TypeOK'
  <2>1. /\ pc' \in [Calls -> {"new", "input", "budget", "rate", "shadow", "observe", "start",
                             "graph", "yielded", "over"}]
        /\ outcome' \in [Calls -> {"none", "returned", "blocked", "failed", "abandoned", "crashed"}]
    BY <1>5, <1>7 DEF TypeOK, Checked
  <2>2. loop' \in Calls \cup {NoCall}
    BY <1>5 DEF TypeOK
  <2> QED
    BY <1>4, <1>5, <1>6, <2>1, <2>2 DEF TypeOK
<1>9. PolicyResolved'
  <2>1. pol[c] \in Policies
    BY <1>7 DEF PolicyResolved
  <2> QED
    BY <1>5, <1>7, <2>1, ResolvedStep DEF Checked
<1>10. GuardsInv'
  <2>1. \A x \in log'[c] \ log[c] : Refusal(x) => l = "over"
    BY <1>1, <1>4 DEF Refusal
  <2>2. outcome'[c] = "blocked" => outcome[c] = "blocked" \/ \E x \in log'[c] : Cause(x)
    BY <1>2, <1>4, <1>5 DEF Cause, TypeOK
  <2>3. \A d \in Calls \ {c} : outcome'[d] = outcome[d]
    BY <1>5 DEF TypeOK
  <2>4. /\ \A d \in Calls \ {c} : quota'[d] = quota[d]
        /\ \/ quota'[c] = quota[c]
           \/ quota'[c] = quota[c] + 1 /\ pc[c] = "rate" /\ l = "shadow" /\ log'[c] = log[c]
    <3>1. CASE quota' = quota
      BY <3>1
    <3>2. CASE /\ quota' = [quota EXCEPT ![c] = @ + 1]
               /\ pc[c] = "rate" /\ next = "shadow" /\ v = "pass"
      <4>1. v \notin Actions /\ v \notin Blocking
        BY <3>2 DEF Actions, Blocking
      <4>2. recs = {} /\ l = "shadow"
        BY <3>2, <4>1 DEF recs, Reports
      <4> QED
        BY <1>4, <3>2, <4>2 DEF TypeOK
    <3> QED
      BY <3>1, <3>2
  <2>6. /\ \A x \in log'[c] \ log[c] : x.guard = "rate" => l \in Admitted
        /\ \A x \in log'[c] \ log[c] : Denial(x) => pc[c] \in Checked
    BY <1>1, <1>4 DEF Admitted
  <2>5. pc[c] \notin Admitted /\ pc[c] \notin Started
    BY DEF Checked, Admitted, Started
  <2> HIDE DEF l
  <2> QED
    BY <1>4, <1>5, <1>7, <2>1, <2>2, <2>3, <2>4, <2>5, <2>6, CallStep
<1> QED
  BY <1>8, <1>9, <1>10

Stages == {"input", "budget", "rate", "shadow", "observe", "start", "graph", "yielded", "over"}

(* A step of a call that records nothing: it resolves a policy, fails,     *)
(* starts the graph, or goes on in it and leaves.                          *)
LEMMA MoveStep ==
  ASSUME TypeOK, PolicyResolved, GuardsInv, NEW c \in Calls, NEW l \in Stages,
         pc' = [pc EXCEPT ![c] = l],
         pc[c] # "over",
         pc[c] \in Admitted => l \in Admitted,
         pc[c] \in Started => l \in Started,
         UNCHANGED <<current, log, quota, judged, storeVars>>,
         loop' \in Calls \cup {NoCall}, session' \subseteq Calls, texts' \in [Calls -> Nat],
         \/ outcome' = outcome
         \/ \E why \in {"returned", "failed", "abandoned"} : outcome' = [outcome EXCEPT ![c] = why],
         invoked' = invoked \/ (invoked' = invoked \cup {c} /\ pc[c] = "start" /\ l = "graph"),
         \/ pol' = pol /\ pc[c] # "new"
         \/ \E p \in Policies : pol' = [pol EXCEPT ![c] = p],
         \/ shadow' = shadow /\ l # "observe"
         \/ /\ pc[c] = "shadow"
            /\ \E p \in Policies \cup {NoPolicy} :
                 shadow' = [shadow EXCEPT ![c] = p] /\ (l = "observe" => p \in Policies),
         \A t \in tasks' : \/ t \in tasks
                           \/ /\ t \in Task /\ t.call = c /\ l = "over"
                              /\ t.shadow => shadow'[c] \in Policies
  PROVE  TypeOK' /\ PolicyResolved' /\ GuardsInv'
<1>1. TypeOK'
  <2>1. pc' \in [Calls -> {"new", "input", "budget", "rate", "shadow", "observe", "start",
                           "graph", "yielded", "over"}]
    BY DEF TypeOK, Stages
  <2>2. outcome' \in [Calls -> {"none", "returned", "blocked", "failed", "abandoned", "crashed"}]
    BY DEF TypeOK
  <2>3. pol' \in [Calls -> Policies \cup {NoPolicy}]
    BY DEF TypeOK
  <2>4. shadow' \in [Calls -> Policies \cup {NoPolicy}]
    BY DEF TypeOK
  <2>5. invoked' \subseteq Calls /\ tasks' \subseteq Task
    BY DEF TypeOK
  <2> QED
    BY <2>1, <2>2, <2>3, <2>4, <2>5 DEF TypeOK, storeVars
<1>2. PolicyResolved'
  <2>1. pol'[c] \in Policies /\ \A d \in Calls \ {c} : pol'[d] = pol[d]
    BY DEF TypeOK, PolicyResolved
  <2>2. shadow'[c] = shadow[c] \/ pc[c] = "shadow"
    OBVIOUS
  <2>3. \A d \in Calls \ {c} : shadow'[d] = shadow[d]
    BY DEF TypeOK
  <2>4. l = "observe" => shadow'[c] \in Policies
    BY DEF TypeOK
  <2>5. l # "new"
    BY DEF Stages
  <2>6. \A t \in tasks' : \/ t \in tasks
                          \/ t.call = c /\ l = "over" /\ (t.shadow => shadow'[c] \in Policies)
    OBVIOUS
  <2> QED
    BY <2>1, <2>2, <2>3, <2>4, <2>5, <2>6, ResolvedStep
<1>3. GuardsInv'
  <2>1. \A d \in Calls \ {c} : outcome'[d] = outcome[d]
    BY DEF TypeOK
  <2>2. outcome'[c] = "blocked" => outcome[c] = "blocked"
    BY DEF TypeOK
  <2>3. pc[c] = "over" => l = "over"
    OBVIOUS
  <2>4. /\ log' = log /\ quota' = quota
        /\ quota'[c] = quota[c] /\ \A d \in Calls \ {c} : quota'[d] = quota[d]
        /\ \A x \in log'[c] \ log[c] : FALSE
        /\ \A d \in Calls \ {c} : log'[d] = log[d]
    OBVIOUS
  <2> QED
    BY <2>1, <2>2, <2>3, <2>4, CallStep
<1> QED
  BY <1>1, <1>2, <1>3

(* A step of a call inside or after its guards records only what refuses   *)
(* nothing.                                                                *)
LEMMA RecordStep ==
  ASSUME CoreInv, NEW c \in Calls, NEW recs \in SUBSET Record, RecordViolations(c, recs),
         \A x \in recs : ~Denial(x),
         NEW l \in Stages, pc' = [pc EXCEPT ![c] = l],
         pc[c] \in Admitted /\ l \in Admitted,
         pc[c] = "over" => l = "over", pc[c] \in Started => l \in Started, l # "observe",
         \/ outcome' = outcome
         \/ outcome' = [outcome EXCEPT ![c] = "blocked"] /\ \E x \in recs : Cause(x),
         tasks' \subseteq tasks, judged' \subseteq [call: Calls, shadow: BOOLEAN],
         UNCHANGED <<current, loop, pol, shadow, invoked, texts, quota, session>>
  PROVE  CoreInv'
<1> USE DEF CoreInv
<1>1. /\ log' \in [Calls -> SUBSET Record] /\ log'[c] = log[c] \cup recs
      /\ \A d \in Calls \ {c} : log'[d] = log[d]
      /\ saving' \subseteq Save /\ lost' \subseteq Save /\ saved' \in [Calls -> SUBSET Record]
  BY Recorded
<1>2. TypeOK'
  <2>1. /\ pc' \in [Calls -> {"new", "input", "budget", "rate", "shadow", "observe", "start",
                             "graph", "yielded", "over"}]
        /\ outcome' \in [Calls -> {"none", "returned", "blocked", "failed", "abandoned", "crashed"}]
    BY DEF TypeOK, Stages
  <2> QED
    BY <1>1, <2>1 DEF TypeOK
<1>3. PolicyResolved'
  <2>1. pol'[c] \in Policies /\ l # "new"
    BY DEF PolicyResolved, Admitted, Stages
  <2> QED
    BY <2>1, ResolvedStep
<1>4. GuardsInv'
  <2>1. outcome'[c] = "blocked" => outcome[c] = "blocked" \/ \E x \in log'[c] : Cause(x)
    BY <1>1 DEF TypeOK
  <2>2. \A d \in Calls \ {c} : outcome'[d] = outcome[d]
    BY DEF TypeOK
  <2>3. /\ \A x \in log'[c] \ log[c] : Refusal(x) => pc[c] \in Checked /\ l = "over"
        /\ \A x \in log'[c] \ log[c] : Denial(x) => pc[c] \in Checked
        /\ \A x \in log'[c] \ log[c] : x.guard = "rate" => l \in Admitted
    BY <1>1 DEF Refusal, Denial
  <2>4. /\ invoked' = invoked /\ quota'[c] = quota[c]
        /\ \A d \in Calls \ {c} : quota'[d] = quota[d]
    OBVIOUS
  <2> QED
    BY <1>1, <2>1, <2>2, <2>3, <2>4, CallStep
<1> QED
  BY <1>2, <1>3, <1>4

(* Steps that move no call, resolve nothing and log nothing.               *)
LEMMA OtherStep ==
  ASSUME CoreInv, TypeOK', UNCHANGED <<pc, pol, shadow, outcome, invoked, log>>,
         \A t \in tasks' : \E o \in tasks : t.call = o.call /\ t.shadow = o.shadow,
         \A c \in Calls : quota'[c] \in Nat /\ quota'[c] <= quota[c]
  PROVE  CoreInv'
<1>1. PolicyResolved'
  BY DEF CoreInv, PolicyResolved
<1> QED
  BY <1>1, QuietStep DEF CoreInv

-----------------------------------------------------------------------------
(* The guards before the graph.                                            *)
LEMMA BeginStep ==
  ASSUME CoreInv, NEW c \in Calls, Begin(c)
  PROVE  CoreInv'
<1>1. PICK route \in Routes : pol' = [pol EXCEPT ![c] = ResolvePolicy(route)]
  BY DEF Begin
<1>2. ResolvePolicy(route) \in Policies
  BY CoreAssumption DEF ResolvePolicy, CoreInv, TypeOK
<1>3. /\ "input" \in Stages /\ pc[c] = "new" /\ pc[c] \notin Admitted /\ pc[c] \notin Started
      /\ pc' = [pc EXCEPT ![c] = "input"]
  BY DEF Begin, Goto, Stages, Admitted, Started
<1>4. /\ UNCHANGED <<current, log, quota, judged, storeVars>>
      /\ loop' \in Calls \cup {NoCall} /\ session' \subseteq Calls /\ texts' \in [Calls -> Nat]
      /\ outcome' = outcome /\ invoked' = invoked /\ shadow' = shadow /\ tasks' = tasks
  BY DEF Begin, CoreInv, TypeOK, guardVars
<1> QED
  BY <1>1, <1>2, <1>3, <1>4, MoveStep DEF CoreInv

LEMMA GuardsStep ==
  ASSUME CoreInv, NEW c \in Calls, InputGuard(c) \/ BudgetGuard(c) \/ RateGuard(c)
  PROVE  CoreInv'
<1>1. CASE InputGuard(c)
  <2>1. /\ pc[c] \in Checked /\ "budget" \in Checked \cup {"shadow"} /\ "input" \in SyncGuards
        /\ SyncGuard(c, "input", InputVerdict(c), "budget") /\ quota' = quota
    BY <1>1 DEF InputGuard, Checked, SyncGuards
  <2> QED
    BY <2>1, GuardStep DEF CoreInv
<1>2. CASE BudgetGuard(c)
  <2>1. /\ pc[c] \in Checked /\ "rate" \in Checked \cup {"shadow"} /\ "budget" \in SyncGuards
        /\ SyncGuard(c, "budget", BudgetVerdict(c), "rate") /\ quota' = quota
    BY <1>2 DEF BudgetGuard, Checked, SyncGuards
  <2> QED
    BY <2>1, GuardStep DEF CoreInv
<1>3. CASE RateGuard(c)
  <2>1. /\ pc[c] \in Checked /\ pc[c] = "rate" /\ "rate" \in SyncGuards
        /\ SyncGuard(c, "rate", RateVerdict(c), "shadow")
        /\ \/ quota' = quota
           \/ quota' = [quota EXCEPT ![c] = @ + 1] /\ RateVerdict(c) = "pass"
    BY <1>3 DEF RateGuard, Checked, SyncGuards
  <2>2. "shadow" \in Checked \cup {"shadow"}
    OBVIOUS
  <2> QED
    BY <2>1, <2>2, GuardStep DEF CoreInv
<1> QED
  BY <1>1, <1>2, <1>3

(* A call that moves and changes at most its outcome, the loop and its     *)
(* texts.                                                                  *)
LEMMA PlainMove ==
  ASSUME CoreInv, NEW c \in Calls, NEW l \in Stages \ {"observe"},
         pc' = [pc EXCEPT ![c] = l], pc[c] \notin {"new", "over"},
         pc[c] \in Admitted => l \in Admitted,
         pc[c] \in Started => l \in Started,
         UNCHANGED <<current, pol, shadow, invoked, quota, log, session, judged, storeVars>>,
         loop' \in Calls \cup {NoCall}, texts' \in [Calls -> Nat],
         \/ outcome' = outcome
         \/ \E why \in {"returned", "failed", "abandoned"} : outcome' = [outcome EXCEPT ![c] = why],
         \A t \in tasks' : \/ t \in tasks
                           \/ /\ t \in Task /\ t.call = c /\ l = "over"
                              /\ t.shadow => shadow[c] \in Policies
  PROVE  CoreInv'
<1>1. session' \subseteq Calls
  BY DEF CoreInv, TypeOK
<1> QED
  BY <1>1, MoveStep DEF CoreInv

LEMMA ShadowStep ==
  ASSUME CoreInv, NEW c \in Calls,
         InputGuardFails(c) \/ ResolveShadow(c) \/ ShadowGuards(c) \/ ShadowGuardsFail(c) \/ StartGraph(c)
  PROVE  CoreInv'
<1> USE DEF CoreInv
<1>0. texts \in [Calls -> Nat] /\ session \subseteq Calls /\ loop \in Calls \cup {NoCall}
  BY DEF TypeOK
<1>1. CASE InputGuardFails(c) \/ ShadowGuardsFail(c)
  <2>1. /\ "over" \in Stages \ {"observe"} /\ "over" \in Admitted /\ "over" \in Started
        /\ pc' = [pc EXCEPT ![c] = "over"] /\ pc[c] \notin {"new", "over"}
        /\ UNCHANGED <<current, pol, shadow, invoked, quota, log, session, judged, storeVars>>
        /\ loop' = NoCall /\ texts' = texts /\ tasks' = tasks
        /\ outcome' = [outcome EXCEPT ![c] = "failed"]
    BY <1>1 DEF InputGuardFails, ShadowGuardsFail, Leave, Goto, guardVars, Stages, Admitted, Started
  <2> QED
    BY <1>0, <2>1, PlainMove
<1>2. CASE ResolveShadow(c)
  <2>1. PICK route \in ShadowRoutes :
          /\ shadow' = [shadow EXCEPT ![c] = route]
          /\ Goto(c, IF route = NoPolicy THEN "start" ELSE "observe")
    BY <1>2 DEF ResolveShadow
  <2> DEFINE l == IF route = NoPolicy THEN "start" ELSE "observe"
  <2>2. route \in Policies \cup {NoPolicy} /\ (l = "observe" => route \in Policies)
    BY CoreAssumption
  <2>3. l \in Stages /\ l \in Admitted /\ pc[c] = "shadow" /\ pc[c] \notin Started
    BY <1>2 DEF ResolveShadow, Stages, Admitted, Started
  <2>4. /\ pc' = [pc EXCEPT ![c] = l]
        /\ UNCHANGED <<current, log, quota, judged, storeVars>>
        /\ UNCHANGED <<loop, session, texts, outcome, invoked, pol, tasks>>
    BY <1>2, <2>1 DEF ResolveShadow, Goto, guardVars
  <2> HIDE DEF l
  <2> QED
    BY <1>0, <2>1, <2>2, <2>3, <2>4, MoveStep
<1>3. CASE ShadowGuards(c)
  <2>1. shadow[c] \in Policies /\ RecordViolations(c, ShadowReports(c))
    BY <1>3 DEF ShadowGuards, PolicyResolved
  <2>2. ShadowReports(c) \in SUBSET Record /\ \A x \in ShadowReports(c) : ~Denial(x)
    <3> DEFINE p == shadow[c]
    <3>1. \A g \in {"input", "budget", "rate"} : \A v :
            /\ Reports(g, v, TRUE) \in SUBSET Record
            /\ \A x \in Reports(g, v, TRUE) : x.shadow
      BY Reported1 DEF SyncGuards
    <3>2. Rec("rate", Rules[p].rateAction, TRUE) \in Record /\ Rec("rate", Rules[p].rateAction, TRUE).shadow
      BY <2>1, RulesTyped DEF Rec, Record, SyncGuards
    <3>3. \A x \in ShadowReports(c) : x \in Record /\ x.shadow
      BY <3>1, <3>2 DEF ShadowReports
    <3> QED
      BY <3>3 DEF Denial
  <2>3. /\ "start" \in Stages /\ "start" \in Admitted /\ pc[c] = "observe"
        /\ pc[c] \in Admitted /\ pc[c] \notin Started /\ pc' = [pc EXCEPT ![c] = "start"]
        /\ judged \subseteq [call: Calls, shadow: BOOLEAN]
        /\ UNCHANGED <<current, loop, pol, shadow, outcome, invoked, texts, quota, session, tasks, judged>>
    BY <1>3 DEF ShadowGuards, Goto, Stages, Admitted, Started, guardVars, TypeOK
  <2> QED
    BY <2>1, <2>2, <2>3, RecordStep
<1>4. CASE StartGraph(c)
  <2>1. /\ "graph" \in Stages /\ "graph" \in Admitted /\ pc[c] = "start" /\ pc[c] \notin Started
        /\ pc' = [pc EXCEPT ![c] = "graph"] /\ loop' = NoCall
        /\ UNCHANGED <<current, log, quota, judged, storeVars>>
        /\ UNCHANGED <<session, texts, outcome, pol, shadow, tasks>>
        /\ invoked' = invoked \cup {c}
    BY <1>4 DEF StartGraph, Goto, Stages, Admitted, Started, guardVars
  <2> QED
    BY <1>0, <2>1, MoveStep
<1> QED
  BY <1>1, <1>2, <1>3, <1>4

-----------------------------------------------------------------------------
(* The graph, and the caller of a stream.                                  *)
LEMMA ScheduledTasks ==
  ASSUME CoreInv, NEW c \in Calls, NEW anyText \in BOOLEAN, ScheduleAsyncGuards(c, anyText)
  PROVE  /\ judged' = judged
         /\ \A t \in tasks' : t \in tasks \/ (t \in Task /\ t.call = c /\ (t.shadow => shadow[c] \in Policies))
<1>1. \A s \in BOOLEAN : NewTask(c, s) \in Task /\ NewTask(c, s).call = c /\ NewTask(c, s).shadow = s
  BY DEF NewTask, Task
<1>2. shadow[c] # NoPolicy => shadow[c] \in Policies
  BY DEF CoreInv, TypeOK
<1> QED
  BY <1>1, <1>2 DEF ScheduleAsyncGuards

LEMMA GraphSteps ==
  ASSUME CoreInv, NEW c \in Calls, GraphStep(c)
  PROVE  CoreInv'
<1> USE DEF CoreInv
<1>0. /\ texts \in [Calls -> Nat] /\ loop \in Calls \cup {NoCall} /\ NoCall \in Calls \cup {NoCall}
      /\ \A l \in {"graph", "yielded", "over"} : l \in Stages \ {"observe"} /\ l \in Admitted /\ l \in Started
  BY DEF TypeOK, Stages, Admitted, Started
<1>1. CASE GraphFails(c) \/ AbandonStream(c)
  <2>1. /\ pc' = [pc EXCEPT ![c] = "over"] /\ pc[c] \notin {"new", "over"}
        /\ UNCHANGED <<current, pol, shadow, invoked, quota, log, session, judged, storeVars>>
        /\ UNCHANGED <<loop, texts, tasks>>
        /\ \E why \in {"returned", "failed", "abandoned"} : outcome' = [outcome EXCEPT ![c] = why]
    BY <1>1 DEF GraphFails, AbandonStream, Leave, Goto, guardVars
  <2> QED
    BY <1>0, <2>1, PlainMove
<1>2. CASE GraphReturns(c) \/ StreamEnds(c)
  <2>1. /\ pc' = [pc EXCEPT ![c] = "over"] /\ pc[c] \notin {"new", "over"}
        /\ UNCHANGED <<current, pol, shadow, invoked, quota, log, session, storeVars, loop>>
        /\ outcome' = [outcome EXCEPT ![c] = "returned"]
    BY <1>2 DEF GraphReturns, StreamEnds, Leave, Goto
  <2>2. texts' \in [Calls -> Nat]
    BY <1>0, <1>2 DEF GraphReturns, StreamEnds
  <2>3. /\ judged' = judged
        /\ \A t \in tasks' : t \in tasks \/ (t \in Task /\ t.call = c /\ (t.shadow => shadow[c] \in Policies))
    <3>1. CASE GraphReturns(c)
      <4>1. PICK text \in {0, 1} : ScheduleAsyncGuards(c, text > 0)
        BY <3>1 DEF GraphReturns
      <4>2. (text > 0) \in BOOLEAN
        OBVIOUS
      <4> QED
        BY <4>1, <4>2, ScheduledTasks
    <3>2. CASE StreamEnds(c)
      <4>1. ScheduleAsyncGuards(c, texts[c] > 0)
        BY <3>2 DEF StreamEnds
      <4>2. (texts[c] > 0) \in BOOLEAN
        OBVIOUS
      <4> QED
        BY <4>1, <4>2, ScheduledTasks
    <3> QED
      BY <1>2, <3>1, <3>2
  <2> QED
    BY <1>0, <2>1, <2>2, <2>3, PlainMove
<1>3. CASE Chunk(c) \/ NextChunk(c)
  <2>1. PICK l \in {"graph", "yielded"} : pc' = [pc EXCEPT ![c] = l]
    BY <1>3 DEF Chunk, NextChunk, Goto
  <2>2. /\ pc[c] \notin {"new", "over"}
        /\ UNCHANGED <<current, pol, shadow, invoked, quota, log, session, judged, storeVars>>
        /\ UNCHANGED <<loop, outcome, tasks>>
    BY <1>3 DEF Chunk, NextChunk, guardVars
  <2>3. texts' \in [Calls -> Nat]
    BY <1>0, <1>3 DEF Chunk, NextChunk
  <2> QED
    BY <1>0, <2>1, <2>2, <2>3, PlainMove
<1>4. ASSUME NEW a \in Actions, GraphReports(c, a) PROVE CoreInv'
  <2> DEFINE recs == {Rec("graph", a, FALSE)}
             l == IF a \in Blocking THEN "over" ELSE "graph"
  <2>1. RecordViolations(c, recs) /\ recs \in SUBSET Record
    BY <1>4 DEF GraphReports, Rec, Record
  <2>2. /\ \A x \in recs : ~Denial(x)
        /\ a \in Blocking => \E x \in recs : Cause(x)
    <3>1. "graph" \notin SyncGuards
      BY DEF SyncGuards
    <3>2. Rec("graph", a, FALSE).guard = "graph" /\ Rec("graph", a, FALSE).action = a /\ ~Rec("graph", a, FALSE).shadow
      BY DEF Rec
    <3> QED
      BY <3>1, <3>2 DEF Denial, Cause
  <2>3. /\ l \in {"graph", "over"} /\ pc[c] = "graph" /\ pc' = [pc EXCEPT ![c] = l]
        /\ outcome' = IF a \in Blocking THEN [outcome EXCEPT ![c] = "blocked"] ELSE outcome
        /\ UNCHANGED <<current, loop, pol, shadow, invoked, texts, quota, session, tasks, judged>>
    BY <1>4 DEF GraphReports, Leave, Goto, guardVars, TypeOK
  <2>4. judged' \subseteq [call: Calls, shadow: BOOLEAN] /\ tasks' \subseteq tasks
    BY <2>3 DEF TypeOK
  <2> HIDE DEF recs, l
  <2> QED
    BY <1>0, <2>1, <2>2, <2>3, <2>4, RecordStep
<1> QED
  BY <1>1, <1>2, <1>3, <1>4 DEF GraphStep

-----------------------------------------------------------------------------
(* The background tasks.                                                   *)
LEMMA BackgroundStep ==
  ASSUME CoreInv, Background
  PROVE  CoreInv'
<1> USE DEF CoreInv
<1>1. ASSUME NEW t \in tasks, GatherEnds(t) PROVE CoreInv'
  <2> DEFINE recs == UNION {Reports(g, t.got[g], t.shadow) : g \in Guards}
  <2>1. t \in Task /\ t.call \in Calls /\ t.shadow \in BOOLEAN /\ pc[t.call] = "over"
    BY DEF TypeOK, Task, PolicyResolved
  <2>2. RecordViolations(t.call, recs)
    BY <1>1 DEF GatherEnds
  <2>3. recs \in SUBSET Record /\ \A x \in recs : ~Denial(x)
    <3>1. \A g \in Guards : g \notin SyncGuards
      BY CoreAssumption DEF OutputGuards, SyncGuards
    <3>2. \A g \in Guards : /\ Reports(g, t.got[g], t.shadow) \in SUBSET Record
                            /\ \A x \in Reports(g, t.got[g], t.shadow) : x.guard = g
      BY <2>1, Reported1
    <3> QED
      BY <3>1, <3>2 DEF Denial
  <2>4. judged' \subseteq [call: Calls, shadow: BOOLEAN]
    BY <1>1, <2>1 DEF GatherEnds, TypeOK
  <2>5. /\ pc' = [pc EXCEPT ![t.call] = "over"] /\ tasks' \subseteq tasks
        /\ UNCHANGED <<current, loop, pol, shadow, invoked, texts, quota, session, outcome>>
    BY <1>1, <2>1 DEF GatherEnds, callVars, TypeOK
  <2>6. "over" \in Stages /\ "over" \in Admitted /\ "over" \in Started
    BY DEF Stages, Admitted, Started
  <2> HIDE DEF recs
  <2> QED
    BY <2>1, <2>2, <2>3, <2>4, <2>5, <2>6, RecordStep
<1>2. ASSUME NEW t \in tasks, NEW g \in Guards, GuardAnswers(t, g) PROVE CoreInv'
  <2>1. PICK v \in Answers(TaskPolicy(t), g) : tasks' = (tasks \ {t}) \cup {[t EXCEPT !.got[g] = v]}
    BY <1>2 DEF GuardAnswers
  <2>2. t \in Task /\ t.call \in Calls /\ TaskPolicy(t) \in Policies
    BY DEF TypeOK, Task, PolicyResolved, TaskPolicy
  <2>3. v \in Actions \cup {"wait", "pass", "error"}
    BY <2>2, RulesTyped DEF Answers, Actions
  <2> DEFINE new == [t EXCEPT !.got[g] = v]
  <2>4. new \in Task /\ new.call = t.call /\ new.shadow = t.shadow
    BY <2>2, <2>3 DEF Task
  <2> HIDE DEF new
  <2>5. tasks' \subseteq Task /\ \A n \in tasks' : \E o \in tasks : n.call = o.call /\ n.shadow = o.shadow
    BY <2>1, <2>4 DEF TypeOK, new
  <2>6. UNCHANGED <<current, loop, pc, pol, shadow, outcome, invoked, texts, quota, log, session,
                    judged, saving, saved, lost>>
    BY <1>2 DEF GuardAnswers, callVars, storeVars
  <2>7. TypeOK' /\ \A c \in Calls : quota'[c] \in Nat /\ quota'[c] <= quota[c]
    BY <2>5, <2>6 DEF TypeOK
  <2> QED
    BY <2>5, <2>6, <2>7, OtherStep
<1>3. ASSUME NEW s \in saving, SaveEnds(s) \/ SaveFails(s) PROVE CoreInv'
  <2>1. UNCHANGED <<current, loop, pc, pol, shadow, outcome, invoked, texts, quota, log, session,
                    tasks, judged>>
    BY <1>3 DEF SaveEnds, SaveFails, callVars, guardVars
  <2>2. s \in Save /\ s.call \in Calls /\ s.rec \in Record
    BY DEF TypeOK, Save
  <2>3. saving' \subseteq Save /\ lost' \subseteq Save /\ saved' \in [Calls -> SUBSET Record]
    BY <1>3, <2>2 DEF SaveEnds, SaveFails, TypeOK
  <2>4. TypeOK' /\ \A c \in Calls : quota'[c] \in Nat /\ quota'[c] <= quota[c]
    BY <2>1, <2>3 DEF TypeOK
  <2> QED
    BY <2>1, <2>4, OtherStep
<1> QED
  BY <1>1, <1>2, <1>3 DEF Background

-----------------------------------------------------------------------------
(* The other threads and the death of the process.                         *)
LEMMA WorldStep ==
  ASSUME CoreInv, \/ \E p \in Policies : Reload(p)
              \/ \E c \in Calls : Expire(c)
  PROVE  CoreInv'
<1> USE DEF CoreInv
<1>1. ASSUME NEW p \in Policies, Reload(p) PROVE CoreInv'
  <2>1. /\ TypeOK' /\ UNCHANGED <<pc, pol, shadow, outcome, invoked, log, tasks, quota>>
        /\ \A c \in Calls : quota'[c] \in Nat /\ quota'[c] <= quota[c]
    BY <1>1 DEF Reload, callVars, guardVars, storeVars, TypeOK
  <2> QED
    BY <2>1, OtherStep
<1>2. ASSUME NEW c \in Calls, Expire(c) PROVE CoreInv'
  <2>1. UNCHANGED <<current, loop, pc, pol, shadow, outcome, invoked, texts, log, session,
                    tasks, judged, saving, saved, lost>>
    BY <1>2 DEF Expire, callVars, guardVars, storeVars
  <2>2. quota' \in [Calls -> Nat] /\ \A d \in Calls : quota'[d] \in Nat /\ quota'[d] <= quota[d]
    <3>1. quota \in [Calls -> Nat] /\ quota[c] > 0 /\ quota' = [quota EXCEPT ![c] = quota[c] - 1]
      BY <1>2 DEF Expire, TypeOK
    <3>2. quota[c] - 1 \in Nat /\ quota[c] - 1 <= quota[c]
      BY <3>1
    <3> QED
      BY <3>1, <3>2
  <2>3. TypeOK'
    BY <2>1, <2>2 DEF TypeOK
  <2> QED
    BY <2>1, <2>2, <2>3, OtherStep
<1> QED
  BY <1>1, <1>2

LEMMA CrashStep ==
  ASSUME CoreInv, Crash
  PROVE  CoreInv'
<1> USE DEF CoreInv
<1>1. /\ \A c \in Calls : pc'[c] = IF pc[c] = "new" THEN "new" ELSE "over"
      /\ \A c \in Calls : outcome'[c] \in {outcome[c], "crashed"}
      /\ \A c \in Calls : quota'[c] = 0
      /\ UNCHANGED <<current, pol, shadow, invoked, texts, log, judged, saved>>
      /\ tasks' = {}
  BY DEF Crash, TypeOK
<1>2. TypeOK'
  <2>1. /\ pc' \in [Calls -> {"new", "input", "budget", "rate", "shadow", "observe", "start",
                             "graph", "yielded", "over"}]
        /\ outcome' \in [Calls -> {"none", "returned", "blocked", "failed", "abandoned", "crashed"}]
    BY DEF Crash, TypeOK
  <2>2. /\ quota' \in [Calls -> Nat] /\ loop' = NoCall /\ session' = {}
        /\ saving' \subseteq Save /\ lost' \subseteq Save
    BY DEF Crash, TypeOK
  <2> QED
    BY <1>1, <2>1, <2>2 DEF TypeOK
<1>3. PolicyResolved'
  BY <1>1 DEF PolicyResolved
<1>4. RefusedStayOut' /\ InvokedPassed'
  BY <1>1 DEF GuardsInv, RefusedStayOut, InvokedPassed, EnforcedBlocks, TypeOK
<1>5. BlockedMeansRecorded' /\ RateUndecided'
  BY <1>1 DEF GuardsInv, BlockedMeansRecorded, RateUndecided, EnforcedBlocks
<1>6. OnlyAdmittedConsume'
  BY <1>1 DEF OnlyAdmittedConsume
<1> QED
  BY <1>2, <1>3, <1>4, <1>5, <1>6 DEF GuardsInv

-----------------------------------------------------------------------------
LEMMA CoreInit == Init => CoreInv
<1> SUFFICES ASSUME Init PROVE CoreInv
  OBVIOUS
<1>1. TypeOK
  BY DEF Init, TypeOK
<1>2. PolicyResolved
  BY DEF Init, PolicyResolved
<1>3. GuardsInv
  BY DEF Init, GuardsInv, RefusedStayOut, InvokedPassed, RateUndecided, BlockedMeansRecorded,
         OnlyAdmittedConsume, EnforcedBlocks
<1> QED
  BY <1>1, <1>2, <1>3 DEF CoreInv

LEMMA CoreStep == CoreInv /\ [Next]_vars => CoreInv'
<1> SUFFICES ASSUME CoreInv, [Next]_vars PROVE CoreInv'
  OBVIOUS
<1>1. ASSUME NEW c \in Calls, SyncStep(c) PROVE CoreInv'
  <2>1. CASE InputGuard(c) \/ BudgetGuard(c) \/ RateGuard(c)
    BY <2>1, GuardsStep
  <2>2. CASE InputGuardFails(c) \/ ResolveShadow(c) \/ ShadowGuards(c) \/ ShadowGuardsFail(c)
             \/ StartGraph(c)
    BY <2>2, ShadowStep
  <2> QED
    BY <1>1, <2>1, <2>2 DEF SyncStep
<1>2. ASSUME NEW c \in Calls, Begin(c) PROVE CoreInv'
  BY <1>2, BeginStep
<1>3. ASSUME NEW c \in Calls, GraphStep(c) PROVE CoreInv'
  BY <1>3, GraphSteps
<1>4. CASE Background
  BY <1>4, BackgroundStep
<1>5. CASE \E p \in Policies : Reload(p)
  BY <1>5, WorldStep
<1>6. CASE \E c \in Calls : Expire(c)
  BY <1>6, WorldStep
<1>7. CASE UNCHANGED vars
  <2>1. /\ TypeOK' /\ UNCHANGED <<pc, pol, shadow, outcome, invoked, log, tasks, quota>>
        /\ \A c \in Calls : quota'[c] \in Nat /\ quota'[c] <= quota[c]
    BY <1>7 DEF vars, callVars, guardVars, storeVars, TypeOK, CoreInv
  <2> QED
    BY <2>1, OtherStep
<1>8. CASE Crash
  BY <1>8, CrashStep
<1> QED
  BY <1>1, <1>2, <1>3, <1>4, <1>5, <1>6, <1>7, <1>8 DEF Next

(* The strengthened invariant.                                             *)
LEMMA CoreInvariant == Spec => []CoreInv
<1> QED
  BY CoreInit, CoreStep, PTL DEF Spec

(* Every variable of the pipeline keeps its type.                          *)
THEOREM CoreTypes == Spec => []TypeOK
<1>1. CoreInv => TypeOK
  BY DEF CoreInv
<1> QED
  BY <1>1, CoreInvariant, PTL

(* "Sync guards execute before the agent call and can hard-block           *)
(* execution" (README.md:14): no call that a guard of its own policy       *)
(* refuses reaches the graph, and every SentinelViolation that leaves a    *)
(* call (core.py:239-274, callbacks.py:88-101) has its cause in the log.   *)
THEOREM GuardsEnforce == Spec => []BlockedMeansRecorded
<1>1. CoreInv => BlockedMeansRecorded
  BY DEF CoreInv, GuardsInv
<1> QED
  BY <1>1, CoreInvariant, PTL

(* "shadow observation never consumes real quota" (README.md:263): a call  *)
(* holds at most one entry of its user's rate window, taken by its own     *)
(* rate check (core.py:258), and none if it was refused or over the rate,  *)
(* whatever the policies, routes, shadow policies, reloads and crashes.    *)
THEOREM QuotaOfAdmitted == Spec => []OnlyAdmittedConsume
<1>1. CoreInv => OnlyAdmittedConsume
  BY DEF CoreInv, GuardsInv
<1> QED
  BY <1>1, CoreInvariant, PTL

-----------------------------------------------------------------------------
(* One policy per call.                                                    *)

(* Before its shadow policy is resolved a call has no shadow record, and   *)
(* before its own policy none at all; what its output guards have answered *)
(* is what their policy may answer.                                        *)
Unobserved == {"new", "input", "budget", "rate", "shadow"}

PolicyLog ==
  /\ \A c \in Calls : pc[c] = "new" => log[c] = {}
  /\ \A c \in Calls : pc[c] \in Unobserved => \A x \in log[c] : ~x.shadow
  /\ \A t \in tasks : \A g \in Guards : t.got[g] \in Answers(TaskPolicy(t), g) \cup {"wait"}
  /\ OnePolicyPerCall

(* The store, what is on its way there and what was lost make up the log.  *)
StoreLog ==
  HasStore =>
    /\ \A c \in Calls : saved[c] \subseteq log[c]
    /\ \A c \in Calls : \A x \in log[c] :
         x \in saved[c] \/ [call |-> c, rec |-> x] \in saving \cup lost
    /\ \A s \in saving : s.rec \in log[s.call]

(* A call goes past a guard only with a verdict that lets it pass, runs    *)
(* only after it was started, and is observed under a policy of the router.*)
PassedGuards ==
  /\ \A c \in Calls : pc[c] \in {"budget", "rate"} => InputVerdict(c) \notin Blocking \cup {"error"}
  /\ \A c \in Calls : pc[c] = "rate" => BudgetVerdict(c) \notin Blocking
  /\ \A c \in Calls : pc[c] = "observe" => shadow[c] \in ShadowRoutes \ {NoPolicy}
  /\ \A c \in Calls : pc[c] \in {"graph", "yielded"} => c \in invoked

-----------------------------------------------------------------------------
(* The log and the store.                                                  *)
LEMMA LogSteps ==
  ASSUME TypeOK, [Next]_vars
  PROVE  \/ UNCHANGED <<log, storeVars>>
         \/ \E c \in Calls : \E recs : RecordViolations(c, recs)
         \/ \E s \in saving : SaveEnds(s) \/ SaveFails(s)
         \/ Crash
<1>1. ASSUME NEW c \in Calls, Begin(c) \/ SyncStep(c)
      PROVE  UNCHANGED <<log, storeVars>> \/ \E recs : RecordViolations(c, recs)
  <2>1. CASE InputGuard(c) \/ BudgetGuard(c) \/ RateGuard(c)
    BY <2>1 DEF InputGuard, BudgetGuard, RateGuard, SyncGuard
  <2>2. CASE ShadowGuards(c)
    BY <2>2 DEF ShadowGuards
  <2>3. CASE Begin(c) \/ InputGuardFails(c) \/ ResolveShadow(c) \/ ShadowGuardsFail(c) \/ StartGraph(c)
    BY <2>3 DEF Begin, InputGuardFails, ResolveShadow, ShadowGuardsFail, StartGraph
  <2> QED
    BY <1>1, <2>1, <2>2, <2>3 DEF SyncStep
<1>2. ASSUME NEW c \in Calls, GraphStep(c)
      PROVE  UNCHANGED <<log, storeVars>> \/ \E recs : RecordViolations(c, recs)
  <2>1. CASE GraphFails(c) \/ AbandonStream(c) \/ Chunk(c) \/ NextChunk(c)
    BY <2>1 DEF GraphFails, AbandonStream, Chunk, NextChunk
  <2>2. CASE GraphReturns(c) \/ StreamEnds(c)
    BY <2>2 DEF GraphReturns, StreamEnds
  <2>3. ASSUME NEW a \in Actions, GraphReports(c, a) PROVE \E recs : RecordViolations(c, recs)
    BY <2>3 DEF GraphReports
  <2> QED
    BY <1>2, <2>1, <2>2, <2>3 DEF GraphStep
<1>3. ASSUME NEW t \in tasks, GatherEnds(t)
      PROVE  \E c \in Calls : \E recs : RecordViolations(c, recs)
  BY <1>3 DEF GatherEnds, TypeOK, Task
<1>4. ASSUME NEW t \in tasks, NEW g \in Guards, GuardAnswers(t, g)
      PROVE  UNCHANGED <<log, storeVars>>
  BY <1>4 DEF GuardAnswers
<1>5. ASSUME NEW c \in Calls, Expire(c) PROVE UNCHANGED <<log, storeVars>>
  BY <1>5 DEF Expire
<1>6. ASSUME NEW p \in Policies, Reload(p) PROVE UNCHANGED <<log, storeVars>>
  BY <1>6 DEF Reload
<1>7. CASE UNCHANGED vars
  BY <1>7 DEF vars
<1>8. CASE Background
  BY <1>3, <1>4, <1>8 DEF Background
<1> QED
  BY <1>1, <1>2, <1>5, <1>6, <1>7, <1>8 DEF Next

LEMMA StoreStep ==
  ASSUME CoreInv, StoreLog, [Next]_vars
  PROVE  StoreLog'
<1>0. TypeOK
  BY DEF CoreInv
<1> SUFFICES ASSUME HasStore
             PROVE  /\ \A c \in Calls : saved'[c] \subseteq log'[c]
                    /\ \A c \in Calls : \A x \in log'[c] :
                         x \in saved'[c] \/ [call |-> c, rec |-> x] \in saving' \cup lost'
                    /\ \A s \in saving' : s.rec \in log'[s.call]
  BY DEF StoreLog
<1>1. /\ \A c \in Calls : saved[c] \subseteq log[c]
      /\ \A c \in Calls : \A x \in log[c] :
           x \in saved[c] \/ [call |-> c, rec |-> x] \in saving \cup lost
      /\ \A s \in saving : s.rec \in log[s.call]
  BY DEF StoreLog
<1>2. CASE UNCHANGED <<log, storeVars>>
  BY <1>1, <1>2 DEF storeVars
<1>3. ASSUME NEW c \in Calls, NEW recs, RecordViolations(c, recs)
      PROVE  /\ \A d \in Calls : saved'[d] \subseteq log'[d]
             /\ \A d \in Calls : \A x \in log'[d] :
                  x \in saved'[d] \/ [call |-> d, rec |-> x] \in saving' \cup lost'
             /\ \A s \in saving' : s.rec \in log'[s.call]
  <2>1. /\ log'[c] = log[c] \cup recs /\ \A d \in Calls \ {c} : log'[d] = log[d]
        /\ saving' = saving \cup {[call |-> c, rec |-> x] : x \in recs}
        /\ saved' = saved /\ lost' = lost
    BY <1>0, <1>3 DEF RecordViolations, TypeOK
  <2>2. \A d \in Calls : log[d] \subseteq log'[d]
    BY <2>1
  <2>3. \A s \in saving : s.call \in Calls
    BY <1>0 DEF TypeOK, Save
  <2>4. \A d \in Calls : \A x \in log'[d] : x \in log[d] \/ (d = c /\ x \in recs)
    BY <2>1
  <2>5. \A s \in saving' : s \in saving \/ (s.call = c /\ s.rec \in recs)
    BY <2>1
  <2>6. \A x \in recs : [call |-> c, rec |-> x] \in saving'
    BY <2>1
  <2> QED
    BY <1>1, <2>1, <2>2, <2>3, <2>4, <2>5, <2>6
<1>4. ASSUME NEW s \in saving, SaveEnds(s)
      PROVE  /\ \A d \in Calls : saved'[d] \subseteq log'[d]
             /\ \A d \in Calls : \A x \in log'[d] :
                  x \in saved'[d] \/ [call |-> d, rec |-> x] \in saving' \cup lost'
             /\ \A r \in saving' : r.rec \in log'[r.call]
  <2>1. s \in Save /\ s.call \in Calls /\ s = [call |-> s.call, rec |-> s.rec]
    BY <1>0 DEF TypeOK, Save
  <2>2. /\ log' = log /\ lost' = lost /\ saving' = saving \ {s}
        /\ saved'[s.call] = saved[s.call] \cup {s.rec}
        /\ \A d \in Calls \ {s.call} : saved'[d] = saved[d]
    BY <1>0, <1>4, <2>1 DEF SaveEnds, TypeOK
  <2>3. \A d \in Calls : \A x : [call |-> d, rec |-> x] = s => d = s.call /\ x = s.rec
    OBVIOUS
  <2> QED
    BY <1>1, <2>1, <2>2, <2>3
<1>5. ASSUME NEW s \in saving, SaveFails(s)
      PROVE  /\ \A d \in Calls : saved'[d] \subseteq log'[d]
             /\ \A d \in Calls : \A x \in log'[d] :
                  x \in saved'[d] \/ [call |-> d, rec |-> x] \in saving' \cup lost'
             /\ \A r \in saving' : r.rec \in log'[r.call]
  BY <1>1, <1>5 DEF SaveFails
<1>6. CASE Crash
  BY <1>1, <1>6 DEF Crash
<1> QED
  BY <1>0, <1>2, <1>3, <1>4, <1>5, <1>6, LogSteps

LEMMA StoreInvariant == Spec => [](CoreInv /\ StoreLog)
<1>1. Init => StoreLog
  BY DEF Init, StoreLog
<1>2. CoreInv /\ StoreLog /\ [Next]_vars => CoreInv' /\ StoreLog'
  BY StoreStep, CoreStep
<1> QED
  BY <1>1, <1>2, CoreInit, PTL DEF Spec

(* "falls back to the store for historical runs" (README.md:284): whatever *)
(* crashes and failed saves came before, once nothing of a run is being    *)
(* saved and none of its saves was lost, get_violations (core.py:408-431)  *)
(* answers from the store what the log of the process held.                *)
THEOREM ReportsOutliveTheProcess == Spec => []ReportSurvives
<1>1. ASSUME CoreInv, StoreLog PROVE ReportSurvives
  <2> SUFFICES ASSUME HasStore, NEW c \in Calls, NEW b \in BOOLEAN,
                      \A s \in saving \cup lost : s.call # c
               PROVE  Reported(c, b) = {x \in log[c] : b \/ ~x.shadow}
    BY DEF ReportSurvives
  <2>1. \A x : [call |-> c, rec |-> x] \notin saving \cup lost
    <3>1. \A x : [call |-> c, rec |-> x].call = c
      OBVIOUS
    <3> QED
      BY <3>1
  <2>2. saved[c] = log[c]
    <3>1. saved[c] \subseteq log[c]
      BY <1>1 DEF StoreLog
    <3>2. \A x \in log[c] : x \in saved[c]
      BY <1>1, <2>1 DEF StoreLog
    <3> QED
      BY <3>1, <3>2
  <2> QED
    BY <2>2 DEF Reported
<1> QED
  BY <1>1, StoreInvariant, PTL

-----------------------------------------------------------------------------
(* One policy per call.                                                    *)
LEMMA PrescribedBy ==
  ASSUME NEW p, NEW c
  PROVE  /\ Prescribed(p, c, "input") = {Rules[p].input[c]}
         /\ Prescribed(p, c, "budget") = {Rules[p].budget[c]}
         /\ Prescribed(p, c, "rate") = {Rules[p].rateAction}
         /\ Prescribed(p, c, "graph") = Rules[p].metering
         /\ \A g \in Guards : Prescribed(p, c, g) = Answers(p, g)
<1>1. "input" \notin Guards /\ "budget" \notin Guards /\ "rate" \notin Guards /\ "graph" \notin Guards
  BY CoreAssumption DEF OutputGuards
<1> QED
  BY <1>1 DEF Prescribed

LEMMA GuardPrescribed ==
  ASSUME NEW p, NEW c, NEW g \in Guards
  PROVE  Prescribed(p, c, g) = Answers(p, g)
BY PrescribedBy

(* A step that records what the call's own policies prescribe, once they   *)
(* are resolved.                                                           *)
LEMMA RecordsPrescribed ==
  ASSUME TypeOK, PolicyLog, NEW c \in Calls, NEW recs, RecordViolations(c, recs),
         NEW l \in Stages, pc' = [pc EXCEPT ![c] = l],
         pc[c] # "new",
         l \in Unobserved => pc[c] \in Unobserved /\ \A x \in recs : ~x.shadow,
         \A x \in recs :
           x.action \in Prescribed(IF x.shadow THEN shadow[c] ELSE pol[c], c, x.guard),
         UNCHANGED <<pol, shadow>>, tasks' \subseteq tasks
  PROVE  PolicyLog'
<1>1. /\ log'[c] = log[c] \cup recs /\ \A d \in Calls \ {c} : log'[d] = log[d]
      /\ pc'[c] = l /\ \A d \in Calls \ {c} : pc'[d] = pc[d]
  BY DEF RecordViolations, TypeOK
<1>2. l # "new"
  BY DEF Stages
<1>3. \A d \in Calls : pc'[d] = "new" => log'[d] = {}
  BY <1>1, <1>2 DEF PolicyLog
<1>4. ASSUME NEW d \in Calls, pc'[d] \in Unobserved, NEW x \in log'[d] PROVE ~x.shadow
  BY <1>1, <1>4 DEF PolicyLog
<1>5. ASSUME NEW t \in tasks', NEW g \in Guards PROVE t.got[g] \in Answers(TaskPolicy(t), g)' \cup {"wait"}
  BY <1>5 DEF PolicyLog, TaskPolicy, Answers
<1>6. OnePolicyPerCall'
  <2> SUFFICES ASSUME NEW d \in Calls, NEW x \in log'[d]
               PROVE  x.action \in Prescribed(IF x.shadow THEN shadow[d] ELSE pol[d], d, x.guard)
    BY DEF OnePolicyPerCall, Prescribed, Answers
  <2> QED
    BY <1>1 DEF PolicyLog, OnePolicyPerCall
<1> QED
  BY <1>3, <1>4, <1>5, <1>6 DEF PolicyLog

(* A step that records nothing: it resolves a policy no record depends on  *)
(* yet, or leaves the policies alone.                                      *)
LEMMA SilentPrescribed ==
  ASSUME TypeOK, PolicyResolved, PolicyLog, NEW c \in Calls, log' = log,
         NEW l \in Stages, pc' = [pc EXCEPT ![c] = l],
         l \in Unobserved => pc[c] \in Unobserved,
         pol'[c] = pol[c] \/ pc[c] = "new",
         shadow'[c] = shadow[c] \/ pc[c] \in Unobserved,
         \A d \in Calls \ {c} : pol'[d] = pol[d] /\ shadow'[d] = shadow[d],
         \A t \in tasks' : t \in tasks \/ \A g \in Guards : t.got[g] = "wait"
  PROVE  PolicyLog'
<1>1. pc'[c] = l /\ \A d \in Calls \ {c} : pc'[d] = pc[d]
  BY DEF TypeOK
<1>2. l # "new"
  BY DEF Stages
<1>3. \A d \in Calls : pc'[d] = "new" => log'[d] = {}
  BY <1>1, <1>2 DEF PolicyLog
<1>4. ASSUME NEW d \in Calls, pc'[d] \in Unobserved, NEW x \in log'[d] PROVE ~x.shadow
  BY <1>1, <1>4 DEF PolicyLog
<1>5. ASSUME NEW t \in tasks', NEW g \in Guards PROVE t.got[g] \in Answers(TaskPolicy(t), g)' \cup {"wait"}
  <2>1. CASE t \in tasks
    <3>1. t.call \in Calls /\ pc[t.call] = "over"
      BY <2>1 DEF TypeOK, Task, PolicyResolved
    <3>2. pol'[t.call] = pol[t.call] /\ shadow'[t.call] = shadow[t.call]
      BY <3>1 DEF Unobserved
    <3> QED
      BY <2>1, <3>2 DEF PolicyLog, TaskPolicy, Answers
  <2>2. CASE t \notin tasks
    BY <1>5, <2>2
  <2> QED
    BY <2>1, <2>2
<1>6. OnePolicyPerCall'
  <2> SUFFICES ASSUME NEW d \in Calls, NEW x \in log[d]
               PROVE  x.action \in Prescribed(IF x.shadow THEN shadow'[d] ELSE pol'[d], d, x.guard)
    BY DEF OnePolicyPerCall, Prescribed, Answers
  <2>1. x.action \in Prescribed(IF x.shadow THEN shadow[d] ELSE pol[d], d, x.guard)
    BY DEF PolicyLog, OnePolicyPerCall
  <2>2. ~x.shadow => pol'[d] = pol[d]
    BY DEF PolicyLog
  <2>3. x.shadow => shadow'[d] = shadow[d]
    BY DEF PolicyLog
  <2> QED
    BY <2>1, <2>2, <2>3
<1> QED
  BY <1>3, <1>4, <1>5, <1>6 DEF PolicyLog

LEMMA SyncPrescribed ==
  ASSUME CoreInv, PolicyLog, NEW c \in Calls, NEW g \in SyncGuards, NEW v,
         NEW next \in {"budget", "rate", "shadow"},
         pc[c] \in {"input", "budget", "rate"}, SyncGuard(c, g, v, next),
         v \in Actions => v \in Prescribed(pol[c], c, g)
  PROVE  PolicyLog'
<1> DEFINE recs == Reports(g, v, FALSE)
           l == IF v \in Blocking THEN "over" ELSE next
<1>1. /\ RecordViolations(c, recs) /\ pc' = [pc EXCEPT ![c] = l]
      /\ UNCHANGED <<pol, shadow, tasks>>
  BY DEF SyncGuard, Leave, Goto, guardVars
<1>2. \A x \in recs : x.guard = g /\ x.action = v /\ x.shadow = FALSE
  BY Reported1
<1>3. recs # {} => v \in Actions
  BY DEF Reports
<1>4. l \in Stages /\ pc[c] # "new" /\ pc[c] \in Unobserved
  BY DEF Stages, Unobserved
<1> HIDE DEF recs, l
<1>5. \A x \in recs :
        x.action \in Prescribed(IF x.shadow THEN shadow[c] ELSE pol[c], c, x.guard)
  BY <1>2, <1>3
<1> QED
  BY <1>1, <1>2, <1>4, <1>5, RecordsPrescribed DEF CoreInv

LEMMA PolicySteps ==
  ASSUME CoreInv, PolicyLog, NEW c \in Calls, Begin(c) \/ SyncStep(c) \/ GraphStep(c)
  PROVE  PolicyLog'
<1> USE DEF CoreInv
<1>0. /\ "pass" \notin Actions /\ "error" \notin Actions
      /\ \A l \in {"input", "budget", "rate", "shadow", "observe", "start", "graph", "yielded", "over"} :
           l \in Stages
      /\ \A l \in {"observe", "start", "graph", "yielded", "over"} : l \notin Unobserved
      /\ \A l \in {"new", "input", "budget", "rate", "shadow"} : l \in Unobserved
  BY DEF Actions, Stages, Unobserved
<1>1. CASE InputGuard(c)
  <2>1. SyncGuard(c, "input", InputVerdict(c), "budget") /\ pc[c] = "input"
    BY <1>1 DEF InputGuard
  <2>2. InputVerdict(c) \in Prescribed(pol[c], c, "input")
    BY PrescribedBy DEF InputVerdict
  <2> QED
    BY <2>1, <2>2, SyncPrescribed DEF SyncGuards
<1>2. CASE BudgetGuard(c)
  <2>1. SyncGuard(c, "budget", BudgetVerdict(c), "rate") /\ pc[c] = "budget"
    BY <1>2 DEF BudgetGuard
  <2>2. BudgetVerdict(c) \in Prescribed(pol[c], c, "budget")
    BY PrescribedBy DEF BudgetVerdict
  <2> QED
    BY <2>1, <2>2, SyncPrescribed DEF SyncGuards
<1>3. CASE RateGuard(c)
  <2>1. SyncGuard(c, "rate", RateVerdict(c), "shadow") /\ pc[c] = "rate"
    BY <1>3 DEF RateGuard
  <2>2. RateVerdict(c) \in Actions => RateVerdict(c) \in Prescribed(pol[c], c, "rate")
    BY <1>0, PrescribedBy DEF RateVerdict
  <2> QED
    BY <2>1, <2>2, SyncPrescribed DEF SyncGuards
<1>4. CASE Begin(c)
  <2>1. /\ log' = log /\ pc' = [pc EXCEPT ![c] = "input"] /\ pc[c] = "new"
        /\ shadow' = shadow /\ tasks' = tasks /\ \A d \in Calls \ {c} : pol'[d] = pol[d]
    BY <1>4 DEF Begin, Goto, guardVars, TypeOK
  <2> QED
    BY <1>0, <2>1, SilentPrescribed
<1>5. CASE ResolveShadow(c)
  <2>1. PICK l \in {"start", "observe"} :
          /\ log' = log /\ pc' = [pc EXCEPT ![c] = l] /\ pc[c] = "shadow"
          /\ pol' = pol /\ tasks' = tasks /\ \A d \in Calls \ {c} : shadow'[d] = shadow[d]
    BY <1>5 DEF ResolveShadow, Goto, guardVars, TypeOK
  <2> QED
    BY <1>0, <2>1, SilentPrescribed
<1>6. CASE \/ InputGuardFails(c) \/ ShadowGuardsFail(c) \/ StartGraph(c)
           \/ GraphFails(c) \/ Chunk(c) \/ NextChunk(c) \/ AbandonStream(c)
  <2>1. PICK l \in {"graph", "yielded", "over"} :
          /\ log' = log /\ pc' = [pc EXCEPT ![c] = l]
          /\ pol' = pol /\ tasks' = tasks /\ shadow' = shadow
    BY <1>6 DEF InputGuardFails, ShadowGuardsFail, StartGraph, GraphFails, Chunk, NextChunk,
                AbandonStream, Leave, Goto, guardVars
  <2> QED
    BY <1>0, <2>1, SilentPrescribed
<1>7. CASE GraphReturns(c) \/ StreamEnds(c)
  <2>1. /\ log' = log /\ pc' = [pc EXCEPT ![c] = "over"] /\ pol' = pol /\ shadow' = shadow
        /\ \E b : ScheduleAsyncGuards(c, b)
    BY <1>7 DEF GraphReturns, StreamEnds, Leave, Goto
  <2>2. \A t \in tasks' : t \in tasks \/ \A g \in Guards : t.got[g] = "wait"
    BY <2>1 DEF ScheduleAsyncGuards, NewTask
  <2> QED
    BY <1>0, <2>1, <2>2, SilentPrescribed
<1>8. CASE ShadowGuards(c)
  <2>1. /\ RecordViolations(c, ShadowReports(c)) /\ pc[c] = "observe"
        /\ pc' = [pc EXCEPT ![c] = "start"] /\ UNCHANGED <<pol, shadow, tasks>>
    BY <1>8 DEF ShadowGuards, Goto, guardVars
  <2>2. ASSUME NEW x \in ShadowReports(c)
        PROVE  x.action \in Prescribed(IF x.shadow THEN shadow[c] ELSE pol[c], c, x.guard)
    <3> DEFINE p == shadow[c]
    <3>1. CASE x \in Reports("input", Rules[p].input[c], TRUE)
      <4>1. x.guard = "input" /\ x.action = Rules[p].input[c] /\ x.shadow = TRUE
        BY <3>1, Reported1 DEF SyncGuards
      <4> QED
        BY <4>1, PrescribedBy
    <3>2. CASE x \in Reports("budget", Rules[p].budget[c], TRUE)
      <4>1. x.guard = "budget" /\ x.action = Rules[p].budget[c] /\ x.shadow = TRUE
        BY <3>2, Reported1 DEF SyncGuards
      <4> QED
        BY <4>1, PrescribedBy
    <3>3. CASE x = Rec("rate", Rules[p].rateAction, TRUE)
      <4>1. x.guard = "rate" /\ x.action = Rules[p].rateAction /\ x.shadow = TRUE
        BY <3>3 DEF Rec
      <4> QED
        BY <4>1, PrescribedBy
    <3> QED
      BY <2>2, <3>1, <3>2, <3>3 DEF ShadowReports
  <2> QED
    BY <1>0, <2>1, <2>2, RecordsPrescribed
<1>9. ASSUME NEW a \in Actions, GraphReports(c, a) PROVE PolicyLog'
  <2> DEFINE recs == {Rec("graph", a, FALSE)}
  <2>1. PICK l \in {"graph", "over"} :
          /\ RecordViolations(c, recs) /\ pc' = [pc EXCEPT ![c] = l] /\ pc[c] = "graph"
          /\ a \in Rules[pol[c]].metering /\ UNCHANGED <<pol, shadow, tasks>>
    BY <1>9 DEF GraphReports, Leave, Goto, guardVars, TypeOK
  <2>2. \A x \in recs : x.guard = "graph" /\ x.action = a /\ x.shadow = FALSE
    BY DEF Rec
  <2> HIDE DEF recs
  <2>3. \A x \in recs :
          x.action \in Prescribed(IF x.shadow THEN shadow[c] ELSE pol[c], c, x.guard)
    BY <2>1, <2>2, PrescribedBy
  <2> QED
    BY <1>0, <2>1, <2>3, RecordsPrescribed
<1> QED
  BY <1>1, <1>2, <1>3, <1>4, <1>5, <1>6, <1>7, <1>8, <1>9 DEF SyncStep, GraphStep

LEMMA PolicyBackground ==
  ASSUME CoreInv, PolicyLog, Background
  PROVE  PolicyLog'
<1> USE DEF CoreInv
<1>1. ASSUME NEW t \in tasks, GatherEnds(t) PROVE PolicyLog'
  <2> DEFINE recs == UNION {Reports(g, t.got[g], t.shadow) : g \in Guards}
  <2>1. t \in Task /\ t.call \in Calls /\ t.shadow \in BOOLEAN /\ pc[t.call] = "over"
    BY DEF TypeOK, Task, PolicyResolved
  <2>2. /\ RecordViolations(t.call, recs) /\ UNCHANGED <<pc, pol, shadow>> /\ tasks' \subseteq tasks
    BY <1>1 DEF GatherEnds, callVars
  <2>3. pc' = [pc EXCEPT ![t.call] = "over"]
    BY <2>1, <2>2 DEF TypeOK
  <2>4. ASSUME NEW x \in recs
        PROVE  x.action \in Prescribed(IF x.shadow THEN shadow[t.call] ELSE pol[t.call], t.call, x.guard)
    <3>1. PICK g \in Guards : x \in Reports(g, t.got[g], t.shadow)
      OBVIOUS
    <3>2. x.guard = g /\ x.action = t.got[g] /\ x.shadow = t.shadow
      BY <2>1, <3>1, Reported1
    <3>3. t.got[g] \in Actions /\ "wait" \notin Actions
      BY <3>1 DEF Reports, Actions
    <3>4. t.got[g] \in Answers(TaskPolicy(t), g)
      BY <3>3 DEF PolicyLog
    <3>5. (IF x.shadow THEN shadow[t.call] ELSE pol[t.call]) = TaskPolicy(t)
      BY <3>2 DEF TaskPolicy
    <3>6. Prescribed(TaskPolicy(t), t.call, g) = Answers(TaskPolicy(t), g)
      BY ONLY GuardPrescribed, <3>1
    <3> QED
      BY <3>2, <3>4, <3>5, <3>6
  <2>5. "over" \in Stages /\ "over" \notin Unobserved
    BY DEF Stages, Unobserved
  <2> HIDE DEF recs
  <2> QED
    BY <2>1, <2>2, <2>3, <2>4, <2>5, RecordsPrescribed
<1>2. ASSUME NEW t \in tasks, NEW g \in Guards, GuardAnswers(t, g) PROVE PolicyLog'
  <2>1. PICK v \in Answers(TaskPolicy(t), g) : tasks' = (tasks \ {t}) \cup {[t EXCEPT !.got[g] = v]}
    BY <1>2 DEF GuardAnswers
  <2>2. UNCHANGED <<pc, pol, shadow, log>>
    BY <1>2 DEF GuardAnswers, callVars
  <2> DEFINE new == [t EXCEPT !.got[g] = v]
  <2>3. /\ new.call = t.call /\ new.shadow = t.shadow
        /\ \A h \in Guards : new.got[h] = IF h = g THEN v ELSE t.got[h]
    BY DEF TypeOK, Task
  <2> HIDE DEF new
  <2>4. TaskPolicy(new) = TaskPolicy(t)
    BY <2>3 DEF TaskPolicy
  <2>5. ASSUME NEW u \in tasks', NEW h \in Guards
        PROVE  u.got[h] \in Answers(TaskPolicy(u), h) \cup {"wait"}
    <3>1. CASE u \in tasks
      BY <3>1 DEF PolicyLog
    <3>2. CASE u = new
      BY <2>3, <2>4, <3>2 DEF PolicyLog
    <3> QED
      BY <2>1, <3>1, <3>2 DEF new
  <2>6. \A u \in tasks', h \in Guards : u.got[h] \in Answers(TaskPolicy(u), h)' \cup {"wait"}
    BY <2>2, <2>5 DEF TaskPolicy, Answers
  <2> QED
    BY <2>2, <2>6 DEF PolicyLog, OnePolicyPerCall, Prescribed, Answers
<1>3. ASSUME NEW s \in saving, SaveEnds(s) \/ SaveFails(s) PROVE PolicyLog'
  BY <1>3 DEF SaveEnds, SaveFails, callVars, guardVars, PolicyLog, OnePolicyPerCall, Prescribed,
              Answers, TaskPolicy
<1> QED
  BY <1>1, <1>2, <1>3 DEF Background

LEMMA PolicyStep ==
  ASSUME CoreInv, PolicyLog, [Next]_vars
  PROVE  PolicyLog'
<1>1. ASSUME NEW c \in Calls, Expire(c) PROVE PolicyLog'
  <2>1. UNCHANGED <<pc, pol, shadow, log, tasks>>
    BY <1>1 DEF Expire, callVars, guardVars
  <2> QED
    BY <2>1 DEF PolicyLog, OnePolicyPerCall, Prescribed, Answers, TaskPolicy
<1>2. ASSUME NEW p \in Policies, Reload(p) PROVE PolicyLog'
  <2>1. UNCHANGED <<pc, pol, shadow, log, tasks>>
    BY <1>2 DEF Reload, callVars, guardVars
  <2> QED
    BY <2>1 DEF PolicyLog, OnePolicyPerCall, Prescribed, Answers, TaskPolicy
<1>3. CASE UNCHANGED vars
  <2>1. UNCHANGED <<pc, pol, shadow, log, tasks>>
    BY <1>3 DEF vars, callVars, guardVars
  <2> QED
    BY <2>1 DEF PolicyLog, OnePolicyPerCall, Prescribed, Answers, TaskPolicy
<1>4. CASE Crash
  <2>1. /\ UNCHANGED <<pol, shadow, log>> /\ tasks' = {}
        /\ \A c \in Calls : pc'[c] = IF pc[c] = "new" THEN "new" ELSE "over"
    BY <1>4 DEF Crash
  <2>2. \A c \in Calls : pc'[c] \in Unobserved => pc[c] = "new"
    BY <2>1 DEF Unobserved
  <2>3. OnePolicyPerCall'
    BY <2>1 DEF PolicyLog, OnePolicyPerCall, Prescribed, Answers
  <2> QED
    BY <2>1, <2>2, <2>3 DEF PolicyLog
<1> QED
  BY <1>1, <1>2, <1>3, <1>4, PolicySteps, PolicyBackground DEF Next

LEMMA PolicyInvariant == Spec => [](CoreInv /\ PolicyLog)
<1>1. Init => PolicyLog
  BY DEF Init, PolicyLog, OnePolicyPerCall
<1>2. CoreInv /\ PolicyLog /\ [Next]_vars => CoreInv' /\ PolicyLog'
  BY PolicyStep, CoreStep
<1> QED
  BY <1>1, <1>2, CoreInit, PTL DEF Spec

(* "Resolve policy once" (core.py:311-314) and hand it to every guard, the *)
(* background task included (core.py:374-376, 395-406): whatever is        *)
(* reloaded meanwhile, each record of a call is what the policy it began   *)
(* with prescribes, or its shadow policy if it is a shadow record.         *)
THEOREM OnePolicyDecidesACall == Spec => []OnePolicyPerCall
<1>1. CoreInv /\ PolicyLog => OnePolicyPerCall
  BY DEF PolicyLog
<1> QED
  BY <1>1, PolicyInvariant, PTL

-----------------------------------------------------------------------------
(* What a call has passed.                                                 *)
LEMMA PassedStep ==
  ASSUME TypeOK, PassedGuards, NEW c \in Calls, NEW l, pc' = [pc EXCEPT ![c] = l],
         \A d \in Calls \ {c} : pol'[d] = pol[d] /\ shadow'[d] = shadow[d],
         invoked \subseteq invoked',
         l \in {"budget", "rate"} => InputVerdict(c)' \notin Blocking \cup {"error"},
         l = "rate" => BudgetVerdict(c)' \notin Blocking,
         l = "observe" => shadow'[c] \in ShadowRoutes \ {NoPolicy},
         l \in {"graph", "yielded"} => c \in invoked'
  PROVE  PassedGuards'
<1>1. pc'[c] = l /\ \A d \in Calls \ {c} : pc'[d] = pc[d]
  BY DEF TypeOK
<1>2. \A d \in Calls \ {c} :
        InputVerdict(d)' = InputVerdict(d) /\ BudgetVerdict(d)' = BudgetVerdict(d)
  BY DEF InputVerdict, BudgetVerdict
<1>3. ASSUME NEW d \in Calls, pc'[d] \in {"budget", "rate"}
      PROVE  InputVerdict(d)' \notin Blocking \cup {"error"}
  BY <1>1, <1>2, <1>3 DEF PassedGuards
<1>4. ASSUME NEW d \in Calls, pc'[d] = "rate" PROVE BudgetVerdict(d)' \notin Blocking
  BY <1>1, <1>2, <1>4 DEF PassedGuards
<1>5. ASSUME NEW d \in Calls, pc'[d] = "observe" PROVE shadow'[d] \in ShadowRoutes \ {NoPolicy}
  BY <1>1, <1>5 DEF PassedGuards
<1>6. ASSUME NEW d \in Calls, pc'[d] \in {"graph", "yielded"} PROVE d \in invoked'
  BY <1>1, <1>6 DEF PassedGuards
<1> QED
  BY <1>3, <1>4, <1>5, <1>6 DEF PassedGuards

LEMMA PassedSteps ==
  ASSUME TypeOK, PassedGuards, NEW c \in Calls, Begin(c) \/ SyncStep(c) \/ GraphStep(c)
  PROVE  PassedGuards'
<1>1. CASE InputGuard(c) \/ BudgetGuard(c) \/ RateGuard(c)
  <2>1. /\ UNCHANGED <<pol, shadow, invoked>>
        /\ InputVerdict(c)' = InputVerdict(c) /\ BudgetVerdict(c)' = BudgetVerdict(c)
    BY <1>1 DEF InputGuard, BudgetGuard, RateGuard, SyncGuard, InputVerdict, BudgetVerdict
  <2>2. PICK l \in {"budget", "rate", "shadow", "over"} :
          /\ pc' = [pc EXCEPT ![c] = l]
          /\ l = "budget" => pc[c] = "input" /\ InputVerdict(c) \notin Blocking \cup {"error"}
          /\ l = "rate" => pc[c] = "budget" /\ BudgetVerdict(c) \notin Blocking
    <3>1. CASE InputGuard(c)
      BY <3>1 DEF InputGuard, SyncGuard, Leave, Goto
    <3>2. CASE BudgetGuard(c)
      BY <3>2 DEF BudgetGuard, SyncGuard, Leave, Goto
    <3>3. CASE RateGuard(c)
      BY <3>3 DEF RateGuard, SyncGuard, Leave, Goto
    <3> QED
      BY <1>1, <3>1, <3>2, <3>3
  <2>3. l \in {"budget", "rate"} => InputVerdict(c) \notin Blocking \cup {"error"}
    BY <2>2 DEF PassedGuards
  <2> QED
    BY <2>1, <2>2, <2>3, PassedStep
<1>2. CASE ResolveShadow(c)
  <2>1. PICK route \in ShadowRoutes :
          /\ shadow' = [shadow EXCEPT ![c] = route] /\ UNCHANGED <<pol, invoked>>
          /\ pc' = [pc EXCEPT ![c] = IF route = NoPolicy THEN "start" ELSE "observe"]
    BY <1>2 DEF ResolveShadow, Goto
  <2>2. shadow'[c] = route /\ \A d \in Calls \ {c} : shadow'[d] = shadow[d]
    BY <2>1 DEF TypeOK
  <2>3. PICK l \in {"start", "observe"} :
          pc' = [pc EXCEPT ![c] = l] /\ (l = "observe" => route # NoPolicy)
    BY <2>1
  <2> QED
    BY <2>1, <2>2, <2>3, PassedStep
<1>3. CASE StartGraph(c)
  <2>1. /\ pc' = [pc EXCEPT ![c] = "graph"] /\ UNCHANGED <<pol, shadow>>
        /\ invoked \subseteq invoked' /\ c \in invoked'
    BY <1>3 DEF StartGraph, Goto
  <2> QED
    BY <2>1, PassedStep
<1>4. CASE Chunk(c) \/ NextChunk(c) \/ \E a \in Actions : GraphReports(c, a)
  <2>1. pc[c] \in {"graph", "yielded"} /\ UNCHANGED <<pol, shadow, invoked>>
    BY <1>4 DEF Chunk, NextChunk, GraphReports
  <2>2. PICK l \in {"graph", "yielded", "over"} : pc' = [pc EXCEPT ![c] = l]
    BY <1>4, <2>1 DEF Chunk, NextChunk, GraphReports, Goto, Leave, TypeOK
  <2>3. c \in invoked
    BY <2>1 DEF PassedGuards
  <2> QED
    BY <2>1, <2>2, <2>3, PassedStep
<1>5. CASE \/ Begin(c) \/ InputGuardFails(c) \/ ShadowGuards(c) \/ ShadowGuardsFail(c)
           \/ GraphFails(c) \/ GraphReturns(c) \/ AbandonStream(c) \/ StreamEnds(c)
  <2>1. PICK l \in {"input", "start", "over"} : pc' = [pc EXCEPT ![c] = l]
    BY <1>5 DEF Begin, InputGuardFails, ShadowGuards, ShadowGuardsFail, GraphFails, GraphReturns,
                AbandonStream, StreamEnds, Goto, Leave
  <2>2. /\ UNCHANGED <<shadow, invoked>>
        /\ \A d \in Calls \ {c} : pol'[d] = pol[d]
    BY <1>5 DEF Begin, InputGuardFails, ShadowGuards, ShadowGuardsFail, GraphFails, GraphReturns,
                AbandonStream, StreamEnds, TypeOK
  <2> QED
    BY <2>1, <2>2, PassedStep
<1> QED
  BY <1>1, <1>2, <1>3, <1>4, <1>5 DEF SyncStep, GraphStep

(* The steps that move no call: they change no policy of a call either.    *)
LEMMA StillSteps ==
  ASSUME \/ Background \/ UNCHANGED vars
         \/ \E p \in Policies : Reload(p)
         \/ \E c \in Calls : Expire(c)
  PROVE  UNCHANGED <<pc, pol, shadow, outcome, invoked>>
<1>1. ASSUME NEW t \in tasks, GatherEnds(t) PROVE UNCHANGED <<pc, pol, shadow, outcome, invoked>>
  BY <1>1 DEF GatherEnds, callVars
<1>2. ASSUME NEW t \in tasks, NEW g \in Guards, GuardAnswers(t, g)
      PROVE  UNCHANGED <<pc, pol, shadow, outcome, invoked>>
  BY <1>2 DEF GuardAnswers, callVars
<1>3. ASSUME NEW s \in saving, SaveEnds(s) \/ SaveFails(s)
      PROVE  UNCHANGED <<pc, pol, shadow, outcome, invoked>>
  BY <1>3 DEF SaveEnds, SaveFails, callVars
<1>4. CASE \E p \in Policies : Reload(p)
  BY <1>4 DEF Reload, callVars
<1>5. CASE \E c \in Calls : Expire(c)
  BY <1>5 DEF Expire, callVars
<1>6. CASE UNCHANGED vars
  BY <1>6 DEF vars, callVars
<1> QED
  BY <1>1, <1>2, <1>3, <1>4, <1>5, <1>6 DEF Background

LEMMA PassedNext ==
  ASSUME TypeOK, PassedGuards, [Next]_vars
  PROVE  PassedGuards'
<1>1. CASE Crash
  <2>1. /\ \A c \in Calls : pc'[c] \in {"new", "over"}
    BY <1>1 DEF Crash
  <2> QED
    BY <2>1 DEF PassedGuards
<1>2. ASSUME UNCHANGED <<pc, pol, shadow, outcome, invoked>> PROVE PassedGuards'
  BY <1>2 DEF PassedGuards, InputVerdict, BudgetVerdict
<1> QED
  BY <1>1, <1>2, PassedSteps, StillSteps DEF Next

LEMMA PassedInvariant == Spec => [](CoreInv /\ PassedGuards)
<1>1. Init => PassedGuards
  BY DEF Init, PassedGuards
<1>2. CoreInv /\ PassedGuards /\ [Next]_vars => CoreInv' /\ PassedGuards'
  BY PassedNext, CoreStep DEF CoreInv
<1> QED
  BY <1>1, <1>2, CoreInit, PTL DEF Spec

-----------------------------------------------------------------------------
(* The refinement: what a step is for the contract.                        *)

(* The window is counted alike on both sides.                              *)
LEMMA SameLimit ==
  ASSUME NEW c
  PROVE  /\ Contract!AtLimit(c) <=> AtLimit(pol[c], c)
         /\ Contract!RateRefuses(c) <=> Rules[pol[c]].rateAction \in Blocking
<1>1. \A u : Contract!Entries(u) = Entries(u)
  BY DEF Entries, Contract!Entries, MapThenSumSet, Contract!MapThenSumSet,
         MapThenFoldSet, Contract!MapThenFoldSet
<1> QED
  BY <1>1 DEF AtLimit, Contract!AtLimit, Contract!RateRefuses, Blocking, Contract!Blocking

(* A shadow policy whose patterns are all regular expressions: one that    *)
(* has another raises out of a call the contract has admitted.             *)
ShadowEvaluates ==
  \A p \in ShadowRoutes \ {NoPolicy}, c \in Calls : Rules[p].input[c] # "error"

LEMMA FateNow ==
  ASSUME NEW c \in Calls
  PROVE  /\ pc[c] = "new" => Fate(c) = "new"
         /\ pc[c] \in {"input", "budget", "rate"} => Fate(c) = "deciding"
         /\ pc[c] \in {"shadow", "observe", "start"} => Fate(c) = "admitted"
         /\ pc[c] \in {"graph", "yielded"} => Fate(c) = "running"
         /\ pc[c] = "over" /\ outcome[c] = "crashed" => Fate(c) = "lost"
         /\ pc[c] = "over" /\ outcome[c] # "crashed" /\ c \in invoked => Fate(c) = "ended"
         /\ pc[c] = "over" /\ outcome[c] # "crashed" /\ c \notin invoked => Fate(c) = "refused"
BY DEF Fate

LEMMA FateNext ==
  ASSUME NEW c \in Calls
  PROVE  /\ pc'[c] = "new" => Fate(c)' = "new"
         /\ pc'[c] \in {"input", "budget", "rate"} => Fate(c)' = "deciding"
         /\ pc'[c] \in {"shadow", "observe", "start"} => Fate(c)' = "admitted"
         /\ pc'[c] \in {"graph", "yielded"} => Fate(c)' = "running"
         /\ pc'[c] = "over" /\ outcome'[c] = "crashed" => Fate(c)' = "lost"
         /\ pc'[c] = "over" /\ outcome'[c] # "crashed" /\ c \in invoked' => Fate(c)' = "ended"
         /\ pc'[c] = "over" /\ outcome'[c] # "crashed" /\ c \notin invoked' => Fate(c)' = "refused"
BY DEF Fate

LEMMA FateSame ==
  ASSUME NEW c \in Calls, pc'[c] = pc[c], outcome'[c] = outcome[c], c \in invoked' <=> c \in invoked
  PROVE  Fate(c)' = Fate(c)
BY DEF Fate

(* A step of one call, for the contract.                                   *)
LEMMA FateMoves ==
  ASSUME NEW c \in Calls, \A d \in Calls \ {c} : Fate(d)' = Fate(d)
  PROVE  Contract!Move(c, Fate(c), Fate(c)')
<1> DEFINE f == [d \in Calls |-> Fate(d)]
           g == [d \in Calls |-> Fate(d)']
<1>1. g = [f EXCEPT ![c] = Fate(c)']
  OBVIOUS
<1>2. f' = g
  OBVIOUS
<1> QED
  BY <1>1, <1>2 DEF Contract!Move

LEMMA FatesStay ==
  ASSUME \A d \in Calls : Fate(d)' = Fate(d), pol' = pol, quota' = quota
  PROVE  UNCHANGED Contract!vars
BY DEF Contract!vars

LEMMA OneFate ==
  ASSUME TypeOK, NEW c \in Calls, NEW l, pc' = [pc EXCEPT ![c] = l],
         outcome' = outcome \/ \E w : outcome' = [outcome EXCEPT ![c] = w],
         invoked' = invoked \/ invoked' = invoked \cup {c}
  PROVE  /\ pc'[c] = l
         /\ \A d \in Calls \ {c} : Fate(d)' = Fate(d)
<1>1. \A d \in Calls \ {c} : pc'[d] = pc[d] /\ outcome'[d] = outcome[d]
                             /\ (d \in invoked' <=> d \in invoked)
  BY DEF TypeOK
<1>2. \A d \in Calls \ {c} : Fate(d)' = Fate(d)
  BY <1>1, FateSame
<1> QED
  BY <1>2 DEF TypeOK

(* A guard that refuses a call, and one that lets it go on to the next.    *)
LEMMA RefuseStep ==
  ASSUME CoreInv, NEW c \in Calls, NEW g, NEW v \in Blocking, NEW next,
         pc[c] \in Checked, SyncGuard(c, g, v, next), quota' = quota,
         Contract!RefusedByContent(c)
           \/ (AtLimit(pol[c], c) /\ Rules[pol[c]].rateAction \in Blocking)
  PROVE  Contract!Refuse(c)
<1>1. /\ pc' = [pc EXCEPT ![c] = "over"] /\ outcome' = [outcome EXCEPT ![c] = "blocked"]
      /\ invoked' = invoked /\ pol' = pol
  BY DEF SyncGuard, Leave, Goto
<1>2. Fate(c) = "deciding" /\ pol[c] \in Policies /\ c \notin invoked
  BY FateNow DEF Checked, CoreInv, PolicyResolved, GuardsInv, InvokedPassed
<1>3. pc'[c] = "over" /\ \A d \in Calls \ {c} : Fate(d)' = Fate(d)
  BY <1>1, OneFate DEF CoreInv
<1>4. Fate(c)' = "refused"
  <2>1. outcome'[c] = "blocked"
    BY <1>1 DEF CoreInv, TypeOK
  <2> QED
    BY <1>1, <1>2, <1>3, <2>1, FateNext
<1>5. Contract!Move(c, "deciding", "refused")
  BY <1>2, <1>3, <1>4, FateMoves
<1>6. Contract!RefusedByContent(c) \/ (Contract!AtLimit(c) /\ Contract!RateRefuses(c))
  BY SameLimit
<1> QED
  BY <1>1, <1>5, <1>6 DEF Contract!Refuse

LEMMA PassStep ==
  ASSUME CoreInv, NEW c \in Calls, NEW g, NEW v, v \notin Blocking, NEW next,
         pc[c] \in Checked, SyncGuard(c, g, v, next)
  PROVE  /\ pc'[c] = next /\ pol' = pol
         /\ \A d \in Calls \ {c} : Fate(d)' = Fate(d)
<1>1. /\ pc' = [pc EXCEPT ![c] = next] /\ outcome' = outcome /\ invoked' = invoked
      /\ pol' = pol
  BY DEF SyncGuard, Goto
<1> QED
  BY <1>1, OneFate DEF CoreInv

LEMMA GuardsImplement ==
  ASSUME CoreInv, PassedGuards, NEW c \in Calls, InputGuard(c) \/ BudgetGuard(c) \/ RateGuard(c)
  PROVE  Contract!Next \/ UNCHANGED Contract!vars
<1>1. CASE InputGuard(c)
  <2>1. /\ SyncGuard(c, "input", InputVerdict(c), "budget") /\ quota' = quota
        /\ pc[c] = "input" /\ pc[c] \in Checked
    BY <1>1 DEF InputGuard, Checked
  <2>2. CASE InputVerdict(c) \in Blocking
    <3>1. Contract!RefusedByContent(c)
      BY <2>2 DEF Contract!RefusedByContent, InputVerdict, Blocking, Contract!Blocking
    <3>2. Contract!Refuse(c)
      BY <2>1, <2>2, <3>1, RefuseStep
    <3> QED
      BY <3>2 DEF Contract!Next
  <2>3. CASE InputVerdict(c) \notin Blocking
    <3>1. pc'[c] = "budget" /\ pol' = pol /\ \A d \in Calls \ {c} : Fate(d)' = Fate(d)
      BY <2>1, <2>3, PassStep
    <3>2. Fate(c) = "deciding" /\ Fate(c)' = "deciding"
      BY <2>1, <3>1, FateNow, FateNext
    <3> QED
      BY <2>1, <3>1, <3>2, FatesStay
  <2> QED
    BY <2>2, <2>3
<1>2. CASE BudgetGuard(c)
  <2>1. /\ SyncGuard(c, "budget", BudgetVerdict(c), "rate") /\ quota' = quota
        /\ pc[c] = "budget" /\ pc[c] \in Checked
    BY <1>2 DEF BudgetGuard, Checked
  <2>2. CASE BudgetVerdict(c) \in Blocking
    <3>1. Contract!RefusedByContent(c)
      BY <2>2 DEF Contract!RefusedByContent, BudgetVerdict, Blocking, Contract!Blocking
    <3>2. Contract!Refuse(c)
      BY <2>1, <2>2, <3>1, RefuseStep
    <3> QED
      BY <3>2 DEF Contract!Next
  <2>3. CASE BudgetVerdict(c) \notin Blocking
    <3>1. pc'[c] = "rate" /\ pol' = pol /\ \A d \in Calls \ {c} : Fate(d)' = Fate(d)
      BY <2>1, <2>3, PassStep
    <3>2. Fate(c) = "deciding" /\ Fate(c)' = "deciding"
      BY <2>1, <3>1, FateNow, FateNext
    <3> QED
      BY <2>1, <3>1, <3>2, FatesStay
  <2> QED
    BY <2>2, <2>3
<1>3. CASE RateGuard(c)
  <2>1. /\ SyncGuard(c, "rate", RateVerdict(c), "shadow")
        /\ pc[c] = "rate" /\ pc[c] \in Checked
    BY <1>3 DEF RateGuard, Checked
  <2>2. pol[c] \in Policies /\ Rules[pol[c]].rateAction \in Actions
    BY <2>1, RulesTyped DEF CoreInv, PolicyResolved
  <2>3. ~Contract!RefusedByContent(c)
    BY <2>1 DEF PassedGuards, Contract!RefusedByContent, InputVerdict, BudgetVerdict,
                Blocking, Contract!Blocking
  <2>4. RateVerdict(c) = "pass" <=> ~AtLimit(pol[c], c)
    BY <2>2 DEF RateVerdict, Actions
  <2>5. AtLimit(pol[c], c) => RateVerdict(c) = Rules[pol[c]].rateAction
    BY DEF RateVerdict
  <2>6. quota' = IF RateVerdict(c) = "pass" THEN [quota EXCEPT ![c] = @ + 1] ELSE quota
    BY <1>3 DEF RateGuard
  <2>7. /\ Contract!AtLimit(c) <=> AtLimit(pol[c], c)
        /\ Contract!RateRefuses(c) <=> Rules[pol[c]].rateAction \in Blocking
    BY SameLimit
  <2>8. "pass" \notin Blocking
    BY DEF Blocking
  <2>9. CASE RateVerdict(c) \in Blocking
    <3>1. AtLimit(pol[c], c) /\ Rules[pol[c]].rateAction \in Blocking /\ quota' = quota
      BY <2>4, <2>5, <2>6, <2>8, <2>9
    <3>2. Contract!Refuse(c)
      BY <2>1, <2>9, <3>1, RefuseStep
    <3> QED
      BY <3>2 DEF Contract!Next
  <2>10. CASE RateVerdict(c) \notin Blocking
    <3>1. pc'[c] = "shadow" /\ pol' = pol /\ \A d \in Calls \ {c} : Fate(d)' = Fate(d)
      BY <2>1, <2>10, PassStep
    <3>2. Fate(c) = "deciding" /\ Fate(c)' = "admitted"
      BY <2>1, <3>1, FateNow, FateNext
    <3>3. Contract!Move(c, "deciding", "admitted")
      BY <3>1, <3>2, FateMoves
    <3>4. CASE RateVerdict(c) = "pass"
      <4>1. Contract!Admit(c)
        BY <2>3, <2>4, <2>6, <2>7, <3>1, <3>3, <3>4 DEF Contract!Admit
      <4> QED
        BY <4>1 DEF Contract!Next
    <3>5. CASE RateVerdict(c) # "pass"
      <4>1. Contract!AdmitFlagged(c)
        BY <2>3, <2>4, <2>5, <2>6, <2>7, <2>10, <3>1, <3>3, <3>5 DEF Contract!AdmitFlagged
      <4> QED
        BY <4>1 DEF Contract!Next
    <3> QED
      BY <3>4, <3>5
  <2> QED
    BY <2>9, <2>10
<1> QED
  BY <1>1, <1>2, <1>3

(* A step of a call that leaves the windows alone.                         *)
LEMMA CallMoves ==
  ASSUME TypeOK, NEW c \in Calls, NEW l, pc' = [pc EXCEPT ![c] = l],
         outcome' = outcome \/ \E w : outcome' = [outcome EXCEPT ![c] = w],
         invoked' = invoked \/ invoked' = invoked \cup {c},
         pol' = pol, quota' = quota,
         \/ Fate(c)' = Fate(c)
         \/ Fate(c) = "deciding" /\ Fate(c)' = "refused" /\ Contract!RefusedByContent(c)
         \/ Fate(c) = "admitted" /\ Fate(c)' = "running"
         \/ Fate(c) = "running" /\ Fate(c)' = "ended"
  PROVE  Contract!Next \/ UNCHANGED Contract!vars
<1>1. \A d \in Calls \ {c} : Fate(d)' = Fate(d)
  BY OneFate
<1>2. Contract!Move(c, Fate(c), Fate(c)')
  BY <1>1, FateMoves
<1>3. CASE Fate(c)' = Fate(c)
  BY <1>1, <1>3, FatesStay
<1>4. CASE Fate(c) = "deciding" /\ Fate(c)' = "refused" /\ Contract!RefusedByContent(c)
  <2>1. Contract!Refuse(c)
    BY <1>2, <1>4 DEF Contract!Refuse
  <2> QED
    BY <2>1 DEF Contract!Next
<1>5. CASE Fate(c) = "admitted" /\ Fate(c)' = "running"
  <2>1. Contract!Run(c)
    BY <1>2, <1>5 DEF Contract!Run
  <2> QED
    BY <2>1 DEF Contract!Next
<1>6. CASE Fate(c) = "running" /\ Fate(c)' = "ended"
  <2>1. Contract!End(c)
    BY <1>2, <1>6 DEF Contract!End
  <2> QED
    BY <2>1 DEF Contract!Next
<1> QED
  BY <1>3, <1>4, <1>5, <1>6

LEMMA MovesImplement ==
  ASSUME ShadowEvaluates, CoreInv, PassedGuards, NEW c \in Calls,
         \/ Begin(c) \/ InputGuardFails(c) \/ ResolveShadow(c) \/ ShadowGuards(c)
         \/ ShadowGuardsFail(c) \/ StartGraph(c)
  PROVE  Contract!Next \/ UNCHANGED Contract!vars
<1> USE DEF CoreInv
<1>1. CASE Begin(c)
  <2>1. /\ pc[c] = "new" /\ pc' = [pc EXCEPT ![c] = "input"]
        /\ UNCHANGED <<outcome, invoked, quota>>
    BY <1>1 DEF Begin, Goto
  <2>2. Fate(c) = "new" /\ Fate(c)' = "deciding"
    BY <2>1, FateNow, FateNext DEF TypeOK
  <2>3. Contract!Move(c, "new", "deciding")
    <3>1. \A d \in Calls \ {c} : Fate(d)' = Fate(d)
      BY <2>1, OneFate
    <3> QED
      BY <2>2, <3>1, FateMoves
  <2>4. \E p \in Policies : pol' = [pol EXCEPT ![c] = p]
    BY <1>1, CoreAssumption DEF Begin, ResolvePolicy, TypeOK
  <2>5. Contract!Resolve(c)
    BY <2>1, <2>3, <2>4 DEF Contract!Resolve
  <2> QED
    BY <2>5 DEF Contract!Next
<1>2. CASE InputGuardFails(c)
  <2>1. /\ pc[c] = "input" /\ pc' = [pc EXCEPT ![c] = "over"]
        /\ outcome' = [outcome EXCEPT ![c] = "failed"] /\ UNCHANGED <<invoked, pol, quota>>
        /\ InputVerdict(c) = "error"
    BY <1>2 DEF InputGuardFails, Goto, Leave
  <2>2. c \notin invoked /\ pol[c] \in Policies
    BY <2>1 DEF PolicyResolved, GuardsInv, InvokedPassed
  <2>3. pc'[c] = "over" /\ outcome'[c] = "failed"
    BY <2>1 DEF TypeOK
  <2>4. Fate(c) = "deciding" /\ Fate(c)' = "refused"
    BY <2>1, <2>2, <2>3, FateNow, FateNext
  <2>5. Contract!RefusedByContent(c)
    BY <2>1 DEF InputVerdict, Contract!RefusedByContent
  <2> QED
    BY <2>1, <2>2, <2>4, <2>5, CallMoves
<1>3. CASE ResolveShadow(c) \/ ShadowGuards(c)
  <2>1. PICK l \in {"start", "observe"} :
          /\ pc[c] \in {"shadow", "observe"} /\ pc' = [pc EXCEPT ![c] = l]
          /\ UNCHANGED <<outcome, invoked, pol, quota>>
    BY <1>3 DEF ResolveShadow, ShadowGuards, Goto
  <2>2. pc'[c] = l
    BY <2>1 DEF TypeOK
  <2>3. Fate(c) = "admitted" /\ Fate(c)' = "admitted"
    BY <2>1, <2>2, FateNow, FateNext
  <2> QED
    BY <2>1, <2>3, CallMoves
<1>4. CASE ShadowGuardsFail(c)
  BY <1>4 DEF ShadowGuardsFail, PassedGuards, ShadowEvaluates
<1>5. CASE StartGraph(c)
  <2>1. /\ pc[c] = "start" /\ pc' = [pc EXCEPT ![c] = "graph"]
        /\ invoked' = invoked \cup {c} /\ UNCHANGED <<outcome, pol, quota>>
    BY <1>5 DEF StartGraph, Goto
  <2>2. Fate(c) = "admitted" /\ Fate(c)' = "running"
    BY <2>1, FateNow, FateNext DEF TypeOK
  <2> QED
    BY <2>1, <2>2, CallMoves
<1> QED
  BY <1>1, <1>2, <1>3, <1>4, <1>5

LEMMA GraphImplements ==
  ASSUME CoreInv, PassedGuards, NEW c \in Calls, GraphStep(c)
  PROVE  Contract!Next \/ UNCHANGED Contract!vars
<1> USE DEF CoreInv
<1>1. pc[c] \in {"graph", "yielded"} /\ UNCHANGED <<invoked, pol, quota>>
  <2>1. CASE GraphFails(c) \/ AbandonStream(c) \/ Chunk(c) \/ NextChunk(c)
    BY <2>1 DEF GraphFails, AbandonStream, Chunk, NextChunk
  <2>2. CASE GraphReturns(c) \/ StreamEnds(c)
    BY <2>2 DEF GraphReturns, StreamEnds
  <2>3. CASE \E a \in Actions : GraphReports(c, a)
    BY <2>3 DEF GraphReports
  <2> QED
    BY <2>1, <2>2, <2>3 DEF GraphStep
<1>2. c \in invoked /\ Fate(c) = "running"
  BY <1>1, FateNow DEF PassedGuards
<1>3. \/ /\ outcome' = outcome /\ \E l \in {"graph", "yielded"} : pc' = [pc EXCEPT ![c] = l]
      \/ \E w \in {"returned", "blocked", "failed", "abandoned"} :
           pc' = [pc EXCEPT ![c] = "over"] /\ outcome' = [outcome EXCEPT ![c] = w]
  <2>1. CASE GraphFails(c) \/ AbandonStream(c)
    BY <2>1 DEF GraphFails, AbandonStream, Leave, Goto
  <2>2. CASE Chunk(c) \/ NextChunk(c)
    BY <2>2 DEF Chunk, NextChunk, Goto
  <2>3. CASE GraphReturns(c) \/ StreamEnds(c)
    BY <2>3 DEF GraphReturns, StreamEnds, Leave, Goto
  <2>4. ASSUME NEW a \in Actions, GraphReports(c, a)
        PROVE  \/ /\ outcome' = outcome /\ \E l \in {"graph", "yielded"} : pc' = [pc EXCEPT ![c] = l]
               \/ \E w \in {"returned", "blocked", "failed", "abandoned"} :
                    pc' = [pc EXCEPT ![c] = "over"] /\ outcome' = [outcome EXCEPT ![c] = w]
    <3>1. pc[c] = "graph"
      BY <2>4 DEF GraphReports
    <3>2. CASE a \in Blocking
      BY <2>4, <3>2 DEF GraphReports, Leave, Goto
    <3>3. CASE a \notin Blocking
      <4>1. pc' = pc /\ outcome' = outcome
        BY <2>4, <3>3 DEF GraphReports
      <4>2. pc' = [pc EXCEPT ![c] = "graph"]
        BY <3>1, <4>1 DEF TypeOK
      <4> QED
        BY <4>1, <4>2
    <3> QED
      BY <3>2, <3>3
  <2> QED
    BY <2>1, <2>2, <2>3, <2>4 DEF GraphStep
<1>4. ASSUME outcome' = outcome, NEW l \in {"graph", "yielded"}, pc' = [pc EXCEPT ![c] = l]
      PROVE  Contract!Next \/ UNCHANGED Contract!vars
  <2>1. pc'[c] = l
    BY <1>4 DEF TypeOK
  <2>2. Fate(c)' = "running"
    BY <2>1, FateNext
  <2> QED
    BY <1>1, <1>2, <1>4, <2>2, CallMoves
<1>5. ASSUME NEW w \in {"returned", "blocked", "failed", "abandoned"},
             pc' = [pc EXCEPT ![c] = "over"], outcome' = [outcome EXCEPT ![c] = w]
      PROVE  Contract!Next \/ UNCHANGED Contract!vars
  <2>1. pc'[c] = "over" /\ outcome'[c] # "crashed"
    BY <1>5 DEF TypeOK
  <2>2. Fate(c)' = "ended"
    BY <1>1, <1>2, <2>1, FateNext
  <2> QED
    BY <1>1, <1>2, <1>5, <2>2, CallMoves
<1> QED
  BY <1>3, <1>4, <1>5

LEMMA CrashImplements ==
  ASSUME CoreInv, Crash
  PROVE  Contract!Crash
<1> DEFINE f == [d \in Calls |-> Fate(d)]
           Under == {"deciding", "admitted", "running"}
<1>0. TypeOK
  BY DEF CoreInv
<1>1. /\ quota' = [d \in Calls |-> 0] /\ invoked' = invoked /\ pol' = pol
      /\ \A d \in Calls : pc'[d] = IF pc[d] = "new" THEN "new" ELSE "over"
      /\ \A d \in Calls : outcome'[d] = IF pc[d] \in {"new", "over"} THEN outcome[d] ELSE "crashed"
  BY DEF Crash
<1>2. ASSUME NEW d \in Calls
      PROVE  Fate(d)' = IF Fate(d) \in Under THEN "lost" ELSE Fate(d)
  <2>1. CASE pc[d] \in {"new", "over"}
    <3>1. Fate(d) \notin Under
      BY <2>1, FateNow
    <3>2. Fate(d)' = Fate(d)
      BY <1>1, <2>1, FateSame
    <3> QED
      BY <3>1, <3>2
  <2>2. CASE pc[d] \notin {"new", "over"}
    <3>1. Fate(d) \in Under
      BY <1>0, <2>2, FateNow DEF TypeOK
    <3>2. Fate(d)' = "lost"
      BY <1>1, <2>2, FateNext
    <3> QED
      BY <3>1, <3>2
  <2> QED
    BY <2>1, <2>2
<1>3. f' = [d \in Calls |-> IF f[d] \in Under THEN "lost" ELSE f[d]]
  BY <1>2
<1> QED
  BY <1>1, <1>3 DEF Contract!Crash

LEMMA StepImplements ==
  ASSUME ShadowEvaluates, CoreInv, PassedGuards, [Next]_vars
  PROVE  Contract!Next \/ UNCHANGED Contract!vars
<1>1. ASSUME NEW c \in Calls, Expire(c) PROVE Contract!Next
  <2>1. Contract!Expire(c)
    <3>1. UNCHANGED <<pc, pol, outcome, invoked>>
      BY <1>1 DEF Expire, callVars
    <3>2. \A d \in Calls : Fate(d)' = Fate(d)
      BY <3>1, FateSame
    <3>3. [d \in Calls |-> Fate(d)]' = [d \in Calls |-> Fate(d)]
      BY <3>2
    <3> QED
      BY <1>1, <3>1, <3>3 DEF Expire, Contract!Expire
  <2> QED
    BY <2>1 DEF Contract!Next
<1>2. CASE Crash
  BY <1>2, CrashImplements DEF Contract!Next
<1>3. CASE Background \/ UNCHANGED vars \/ \E p \in Policies : Reload(p)
  <2>1. UNCHANGED <<pc, pol, shadow, outcome, invoked>>
    BY <1>3, StillSteps
  <2>2. quota' = quota
    BY <1>3 DEF Background, GatherEnds, GuardAnswers, SaveEnds, SaveFails, Reload, vars
  <2> QED
    BY <2>1, <2>2, FateSame, FatesStay
<1>4. ASSUME NEW c \in Calls, Begin(c) \/ SyncStep(c) \/ GraphStep(c)
      PROVE  Contract!Next \/ UNCHANGED Contract!vars
  BY <1>4, GuardsImplement, MovesImplement, GraphImplements DEF SyncStep
<1> QED
  BY <1>1, <1>2, <1>3, <1>4 DEF Next

LEMMA InitImplements == Init => Contract!Init
<1> SUFFICES ASSUME Init PROVE Contract!Init
  OBVIOUS
<1>1. \A c \in Calls : Fate(c) = "new"
  BY FateNow DEF Init
<1> QED
  BY <1>1 DEF Init, Contract!Init

(* "Sync guards execute before the agent call and can hard-block execution"*)
(* (README.md:14), and every guard decides under the policy that the call  *)
(* resolved when it began (core.py:225-260, 311-326): for any policies,    *)
(* routes, reloads and crashes, every step of Sentinel is a step of        *)
(* Enforcement or none, if the patterns of every shadow policy are regular *)
(* expressions.  Without that a shadow policy fails calls that Enforcement *)
(* has admitted.                                                           *)
THEOREM CallsAreEnforced == ShadowEvaluates => (Spec => ImplementsEnforcement)
<1> SUFFICES ASSUME ShadowEvaluates PROVE Spec => Contract!Spec
  BY DEF ImplementsEnforcement
<1>1. CoreInv /\ PassedGuards /\ [Next]_vars => [Contract!Next]_(Contract!vars)
  BY StepImplements
<1> QED
  BY <1>1, InitImplements, PassedInvariant, PTL DEF Spec, Contract!Spec

-----------------------------------------------------------------------------
(* What the shadow policy can do to a call.                                *)
FailedAtInput ==
  \A c \in Calls : outcome[c] = "failed" /\ c \notin invoked
                     => pc[c] = "over" /\ InputVerdict(c) = "error"

(* A step of a call that is under way keeps it, unless the call fails      *)
(* outside the graph on another input than one its policy cannot read.     *)
LEMMA FailedStep ==
  ASSUME TypeOK, FailedAtInput, NEW c \in Calls, pc[c] # "over",
         \E l : pc' = [pc EXCEPT ![c] = l],
         \A d \in Calls \ {c} : outcome'[d] = outcome[d] /\ pol'[d] = pol[d],
         invoked \subseteq invoked',
         \/ outcome'[c] = outcome[c] \/ outcome'[c] # "failed" \/ c \in invoked'
         \/ pc'[c] = "over" /\ InputVerdict(c)' = "error"
  PROVE  FailedAtInput'
<1>1. \A d \in Calls \ {c} : pc'[d] = pc[d] /\ InputVerdict(d)' = InputVerdict(d)
  BY DEF TypeOK, InputVerdict
<1>2. outcome'[c] = "failed" /\ c \notin invoked' => pc'[c] = "over" /\ InputVerdict(c)' = "error"
  BY DEF FailedAtInput
<1>3. ASSUME NEW d \in Calls \ {c}, outcome'[d] = "failed", d \notin invoked'
      PROVE  pc'[d] = "over" /\ InputVerdict(d)' = "error"
  BY <1>1, <1>3 DEF FailedAtInput
<1> QED
  BY <1>2, <1>3 DEF FailedAtInput

LEMMA FailedSteps ==
  ASSUME ShadowEvaluates, TypeOK, PassedGuards, FailedAtInput, NEW c \in Calls,
         Begin(c) \/ SyncStep(c) \/ GraphStep(c)
  PROVE  FailedAtInput'
<1>1. CASE InputGuard(c) \/ BudgetGuard(c) \/ RateGuard(c)
  <2>1. /\ pc[c] # "over" /\ \E l : pc' = [pc EXCEPT ![c] = l]
        /\ outcome' = outcome \/ outcome' = [outcome EXCEPT ![c] = "blocked"]
        /\ UNCHANGED <<pol, invoked>>
    BY <1>1 DEF InputGuard, BudgetGuard, RateGuard, SyncGuard, Leave, Goto
  <2>2. /\ \A d \in Calls \ {c} : outcome'[d] = outcome[d]
        /\ outcome'[c] = outcome[c] \/ outcome'[c] # "failed"
    BY <2>1 DEF TypeOK
  <2> QED
    BY <2>1, <2>2, FailedStep
<1>2. CASE InputGuardFails(c)
  <2>1. /\ pc[c] # "over" /\ pc' = [pc EXCEPT ![c] = "over"]
        /\ outcome' = [outcome EXCEPT ![c] = "failed"] /\ UNCHANGED <<pol, invoked>>
        /\ InputVerdict(c)' = "error"
    BY <1>2 DEF InputGuardFails, Leave, Goto, InputVerdict
  <2>2. pc'[c] = "over" /\ \A d \in Calls \ {c} : outcome'[d] = outcome[d]
    BY <2>1 DEF TypeOK
  <2> QED
    BY <2>1, <2>2, FailedStep
<1>3. CASE Begin(c) \/ ResolveShadow(c) \/ ShadowGuards(c) \/ StartGraph(c)
  <2>1. /\ pc[c] # "over" /\ \E l : pc' = [pc EXCEPT ![c] = l]
        /\ outcome' = outcome /\ invoked \subseteq invoked'
        /\ \A d \in Calls \ {c} : pol'[d] = pol[d]
    BY <1>3 DEF Begin, ResolveShadow, ShadowGuards, StartGraph, Goto, TypeOK
  <2> QED
    BY <2>1, FailedStep
<1>4. CASE ShadowGuardsFail(c)
  BY <1>4 DEF ShadowGuardsFail, PassedGuards, ShadowEvaluates
<1>5. CASE GraphStep(c)
  <2>1. /\ pc[c] \in {"graph", "yielded"} /\ UNCHANGED <<pol, invoked>>
    <3>1. CASE GraphFails(c) \/ AbandonStream(c) \/ Chunk(c) \/ NextChunk(c)
      BY <3>1 DEF GraphFails, AbandonStream, Chunk, NextChunk
    <3>2. CASE GraphReturns(c) \/ StreamEnds(c)
      BY <3>2 DEF GraphReturns, StreamEnds
    <3>3. CASE \E a \in Actions : GraphReports(c, a)
      BY <3>3 DEF GraphReports
    <3> QED
      BY <1>5, <3>1, <3>2, <3>3 DEF GraphStep
  <2>2. /\ \A d \in Calls \ {c} : pc'[d] = pc[d] /\ outcome'[d] = outcome[d]
    <3>1. CASE GraphFails(c) \/ AbandonStream(c) \/ Chunk(c) \/ NextChunk(c)
      BY <3>1 DEF GraphFails, AbandonStream, Chunk, NextChunk, Leave, Goto, TypeOK
    <3>2. CASE GraphReturns(c) \/ StreamEnds(c)
      BY <3>2 DEF GraphReturns, StreamEnds, Leave, Goto, TypeOK
    <3>3. CASE \E a \in Actions : GraphReports(c, a)
      BY <3>3 DEF GraphReports, Leave, Goto, TypeOK
    <3> QED
      BY <1>5, <3>1, <3>2, <3>3 DEF GraphStep
  <2>3. c \in invoked
    BY <2>1 DEF PassedGuards
  <2> QED
    BY <2>1, <2>2, <2>3 DEF FailedAtInput, InputVerdict
<1> QED
  BY <1>1, <1>2, <1>3, <1>4, <1>5 DEF SyncStep

LEMMA FailedNext ==
  ASSUME ShadowEvaluates, TypeOK, PassedGuards, FailedAtInput, [Next]_vars
  PROVE  FailedAtInput'
<1>1. CASE Crash
  <2>1. \A c \in Calls : outcome'[c] = "failed" => pc[c] \in {"new", "over"} /\ outcome[c] = "failed"
    BY <1>1 DEF Crash
  <2>2. /\ UNCHANGED <<pol, invoked>>
        /\ \A c \in Calls : pc[c] = "over" => pc'[c] = "over"
    BY <1>1 DEF Crash
  <2> QED
    BY <2>1, <2>2 DEF FailedAtInput, InputVerdict
<1>2. ASSUME UNCHANGED <<pc, pol, shadow, outcome, invoked>> PROVE FailedAtInput'
  BY <1>2 DEF FailedAtInput, InputVerdict
<1> QED
  BY <1>1, <1>2, FailedSteps, StillSteps DEF Next

(* "Nothing raised by the shadow policy is propagated to the caller"       *)
(* (README.md:264; core.py:318-321 has no except): true when the patterns  *)
(* of every shadow policy are regular expressions, so that the exception   *)
(* of re.search is the only way in which the claim fails.                  *)
THEOREM ShadowIsSilent == ShadowEvaluates => (Spec => []ShadowNeverPropagates)
<1> SUFFICES ASSUME ShadowEvaluates PROVE Spec => []ShadowNeverPropagates
  OBVIOUS
<1>1. Init => FailedAtInput
  BY DEF Init, FailedAtInput
<1>2. CoreInv /\ PassedGuards /\ FailedAtInput /\ [Next]_vars => FailedAtInput'
  BY FailedNext DEF CoreInv
<1>3. FailedAtInput => ShadowNeverPropagates
  BY DEF FailedAtInput, ShadowNeverPropagates
<1> QED
  BY <1>1, <1>2, <1>3, PassedInvariant, PTL DEF Spec
=============================================================================
