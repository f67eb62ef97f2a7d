---------------------------- MODULE CliCheck_proof ----------------------------
(***************************************************************************)
(* Theorems about InputValidator and CliCheck, for any segments, patterns, *)
(* templates, policies and prompts.                                        *)
(***************************************************************************)
EXTENDS CliCheck, TLAPS, FiniteSetTheorems, WellFoundedInduction

(* validate answers with the first check that has something to say.        *)
LEMMA FirstAnswer ==
  ASSUME NEW text, NEW p, text # <<>>
  PROVE  Validate(text, p) =
           IF TokenCheck(text, p) # NoViolation THEN TokenCheck(text, p)
           ELSE IF PatternCheck(text, p) # NoViolation THEN PatternCheck(text, p)
           ELSE IF SemanticCheck(text, p) # NoViolation THEN SemanticCheck(text, p)
           ELSE PiiCheck(text, p)
<1> DEFINE said == {k \in 1..4 : Checks(text, p)[k] # NoViolation}
<1>1. /\ Checks(text, p)[1] = TokenCheck(text, p)
      /\ Checks(text, p)[2] = PatternCheck(text, p)
      /\ Checks(text, p)[3] = SemanticCheck(text, p)
      /\ Checks(text, p)[4] = PiiCheck(text, p)
  BY DEF Checks
<1>2. Validate(text, p) = IF said = {} THEN NoViolation ELSE Checks(text, p)[Min(said)]
  BY DEF Validate
<1>3. \A k \in 1..4 : k \in said <=> Checks(text, p)[k] # NoViolation
  OBVIOUS
<1>4. said \subseteq 1..4
  OBVIOUS
<1> HIDE DEF said
<1>5. \A k \in said : (\A j \in said : k <= j) => Min(said) = k
  <2> SUFFICES ASSUME NEW k \in said, \A j \in said : k <= j PROVE Min(said) = k
    OBVIOUS
  <2> DEFINE m == CHOOSE x \in said : \A y \in said : x <= y
  <2>1. m \in said /\ \A y \in said : m <= y
    <3> HIDE DEF said
    <3> QED
      BY Zenon
  <2>2. m = Min(said)
    BY Zenon DEF Min
  <2> HIDE DEF m
  <2>3. m <= k /\ k <= m /\ m \in Int /\ k \in Int
    BY <1>4, <2>1
  <2> QED
    BY <2>2, <2>3
<1>6. CASE 1 \in said
  <2>1. Min(said) = 1
    BY <1>4, <1>5, <1>6
  <2> QED
    BY <1>1, <1>2, <1>3, <1>6, <2>1
<1>7. CASE 1 \notin said /\ 2 \in said
  <2>1. Min(said) = 2
    BY <1>4, <1>5, <1>7
  <2> QED
    BY <1>1, <1>2, <1>3, <1>7, <2>1
<1>8. CASE 1 \notin said /\ 2 \notin said /\ 3 \in said
  <2>1. Min(said) = 3
    BY <1>4, <1>5, <1>8
  <2> QED
    BY <1>1, <1>2, <1>3, <1>8, <2>1
<1>9. CASE 1 \notin said /\ 2 \notin said /\ 3 \notin said /\ 4 \in said
  <2>1. Min(said) = 4
    BY <1>4, <1>5, <1>9
  <2> QED
    BY <1>1, <1>2, <1>3, <1>9, <2>1
<1>10. CASE 1 \notin said /\ 2 \notin said /\ 3 \notin said /\ 4 \notin said
  <2>1. said = {}
    BY <1>4, <1>10
  <2> QED
    BY <1>1, <1>2, <1>3, <1>10, <2>1
<1> QED
  BY <1>6, <1>7, <1>8, <1>9, <1>10

(* The token and pattern checks have no answer that lets a text pass.      *)
LEMMA HardChecks ==
  ASSUME NEW text, NEW p
  PROVE  /\ TokenCheck(text, p) # NoViolation => BlocksAlone(TokenCheck(text, p))
         /\ PatternCheck(text, p) # NoViolation => BlocksAlone(PatternCheck(text, p))
  BY DEF TokenCheck, PatternCheck, BlocksAlone, Blocks, Blocking, Answer

LEMMA SilenceBlocksNothing == ~BlocksAlone(NoViolation)
  BY DEF BlocksAlone, Blocks, Blocking, NoViolation, BadPattern, Answer

(* A check of validate that would block is never hidden but by a semantic  *)
(* verdict that does not block, for any text, patterns, templates and PII. *)
THEOREM OnlySemanticHides == Spec => []BlocksUnlessHidden
<1>1. BlocksUnlessHidden
  <2> DEFINE p == policy.input
             hidden == SemanticCheck(prompt, p) # NoViolation /\ ~Blocks(SemanticCheck(prompt, p))
  <2>1. ASSUME prompt # <<>>,
               BlocksAlone(TokenCheck(prompt, p)) \/ BlocksAlone(PatternCheck(prompt, p))
        PROVE  BlocksAlone(Validate(prompt, p))
    BY <2>1, FirstAnswer, HardChecks, SilenceBlocksNothing
  <2>2. ASSUME prompt # <<>>, BlocksAlone(SemanticCheck(prompt, p))
        PROVE  BlocksAlone(Validate(prompt, p))
    BY <2>2, FirstAnswer, HardChecks, SilenceBlocksNothing
  <2>3. ASSUME prompt # <<>>, BlocksAlone(PiiCheck(prompt, p)), ~hidden
        PROVE  BlocksAlone(Validate(prompt, p))
    <3>1. SemanticCheck(prompt, p) = NoViolation \/ BlocksAlone(SemanticCheck(prompt, p))
      BY <2>3 DEF BlocksAlone
    <3> QED
      BY <2>3, <3>1, FirstAnswer, HardChecks
  <2> QED
    BY <2>1, <2>2, <2>3 DEF BlocksUnlessHidden
<1> QED
  BY <1>1, PTL

-----------------------------------------------------------------------------
(* What the program has heard at each step, under a policy that loads.     *)
Heard(v, b) ==
  /\ pc \in {"budget", "breaker", "report"} => v # BadPattern
  /\ pc \in {"load", "input"} => violations = <<>>
  /\ pc = "budget" => violations = Said(v)
  /\ pc \in {"breaker", "report"} => violations = Said(v) \o Said(b)
  /\ pc = "done" =>
       \/ v = BadPattern /\ violations = <<>> /\ exit = "1"
       \/ v # BadPattern /\ violations = Said(v) \o Said(b) /\ exit = ExitCode(violations)

CliInv ==
  /\ file \in {"policy", "missing", "invalid", "unreadable"}
  /\ policy \in Policies /\ prompt \in Prompts
  /\ pc \in {"load", "input", "budget", "breaker", "report", "done"}
  /\ file = "policy" =>
       Heard(Validate(prompt, policy.input), BudgetCheck(policy, EstimatedTokens(prompt)))
  /\ file # "policy" => pc \in {"load", "done"}

(* A fresh breaker never says anything: max_node_repeats is positive.      *)
LEMMA BreakerSilent ==
  ASSUME policy \in Policies
  PROVE  Said(BreakerCheck(policy)) = <<>>
<1>1. policy.maxRepeats \in Nat \ {0}
  BY CliAssumption DEF Policy
<1> QED
  BY <1>1 DEF BreakerCheck, Said

LEMMA CliInit == Init => CliInv
  BY DEF Init, CliInv, Heard

LEMMA CliStep == CliInv /\ [Next]_vars => CliInv'
<1> SUFFICES ASSUME CliInv, [Next]_vars PROVE CliInv'
  OBVIOUS
<1> DEFINE v == Validate(prompt, policy.input)
           b == BudgetCheck(policy, EstimatedTokens(prompt))
<1>1. CASE LoadPolicy
  <2>1. /\ file \in {"policy", "missing", "invalid", "unreadable"}
        /\ UNCHANGED <<file, policy, prompt, violations>>
    BY <1>1 DEF CliInv, LoadPolicy
  <2>2. IF file = "policy" THEN pc' = "input" ELSE pc' = "done"
    BY <1>1, <2>1 DEF LoadPolicy
  <2>3. file = "policy" => violations = <<>>
    BY <1>1 DEF CliInv, Heard, LoadPolicy
  <2> QED
    BY <2>1, <2>2, <2>3 DEF CliInv, Heard
<1>2. CASE ValidateInput
  <2>1. file = "policy" /\ violations = <<>>
    BY <1>2 DEF CliInv, Heard, ValidateInput
  <2>2. v = BadPattern => pc' = "done" /\ exit' = "1" /\ violations' = <<>>
    BY <1>2, <2>1 DEF ValidateInput
  <2>3. v # BadPattern => pc' = "budget" /\ violations' = Said(v)
    <3>1. <<>> \o Said(v) = Said(v)
      BY DEF Said
    <3> QED
      BY <1>2, <2>1, <3>1 DEF ValidateInput
  <2>4. UNCHANGED <<file, policy, prompt>>
    BY <1>2 DEF ValidateInput
  <2> HIDE DEF v, b
  <2>5. Heard(v, b)'
    BY <2>2, <2>3, <2>4 DEF Heard, v, b
  <2> QED
    BY <2>1, <2>2, <2>3, <2>4, <2>5 DEF CliInv, v, b
<1>3. CASE CheckBudget
  BY <1>3 DEF CliInv, Heard, CheckBudget
<1>4. CASE CheckBreaker
  <2>1. file = "policy" /\ violations = Said(v) \o Said(b) /\ v # BadPattern
    BY <1>4 DEF CliInv, Heard, CheckBreaker
  <2>2. violations' = violations
    <3>1. Said(BreakerCheck(policy)) = <<>>
      BY BreakerSilent DEF CliInv
    <3>2. (Said(v) \o Said(b)) \o <<>> = Said(v) \o Said(b)
      BY DEF Said
    <3> QED
      BY <1>4, <2>1, <3>1, <3>2 DEF CheckBreaker
  <2>3. pc' = "report" /\ UNCHANGED <<file, policy, prompt, exit>>
    BY <1>4 DEF CheckBreaker
  <2> QED
    BY <2>1, <2>2, <2>3 DEF CliInv, Heard
<1>5. CASE Report
  BY <1>5 DEF CliInv, Heard, Report
<1>6. CASE UNCHANGED vars
  BY <1>6 DEF CliInv, Heard, vars
<1> QED
  BY <1>1, <1>2, <1>3, <1>4, <1>5, <1>6 DEF Next

LEMMA CliInvariant == Spec => []CliInv
  BY CliInit, CliStep, PTL DEF Spec

-----------------------------------------------------------------------------
(* Two answers in a row: what is said, and whether something blocks.       *)
LEMMA SaidBlocks ==
  ASSUME NEW v, NEW b
  PROVE  /\ (\E i \in DOMAIN (Said(v) \o Said(b)) : Blocks((Said(v) \o Said(b))[i]))
              <=> Blocks(v) \/ Blocks(b)
         /\ IsPrefix(Said(v) \o Said(b), Said(v) \o Said(b))
         /\ Blocks(v) => IsPrefix(<<v>>, Said(v) \o Said(b))
<1>1. ~Blocks(NoViolation)
  BY DEF Blocks, Blocking, NoViolation, Answer
<1>2. CASE v = NoViolation /\ b = NoViolation
  BY <1>1, <1>2 DEF Said, IsPrefix
<1>3. CASE v = NoViolation /\ b # NoViolation
  BY <1>1, <1>3 DEF Said, IsPrefix
<1>4. CASE v # NoViolation /\ b = NoViolation
  BY <1>1, <1>4 DEF Said, IsPrefix
<1>5. CASE v # NoViolation /\ b # NoViolation
  BY <1>1, <1>5 DEF Said, IsPrefix
<1> QED
  BY <1>2, <1>3, <1>4, <1>5

(* The program fails a job exactly when the pipeline would refuse a first  *)
(* call with that prompt, and reports what the pipeline would record, for  *)
(* every policy and prompt.                                                *)
THEOREM CliMatchesPipeline == Spec => []CliAgrees
<1>1. ASSUME CliInv, pc = "done", file = "policy"
      PROVE  /\ exit = "1" <=> PipelineRefuses(prompt, policy)
             /\ IsPrefix(PipelineRecords(prompt, policy), violations)
  <2> DEFINE v == Validate(prompt, policy.input)
             b == BudgetCheck(policy, EstimatedTokens(prompt))
  <2>1. CASE v = BadPattern
    <3>1. violations = <<>> /\ exit = "1" /\ PipelineRecords(prompt, policy) = <<>>
      BY <1>1, <2>1 DEF CliInv, Heard, PipelineRecords
    <3> QED
      BY <2>1, <3>1 DEF PipelineRefuses, IsPrefix
  <2>2. CASE v # BadPattern
    <3>1. violations = Said(v) \o Said(b) /\ exit = ExitCode(violations)
      BY <1>1, <2>2 DEF CliInv, Heard
    <3>2. exit = "1" <=> Blocks(v) \/ Blocks(b)
      BY <3>1, SaidBlocks DEF ExitCode
    <3>3. CASE Blocks(v)
      <4>1. PipelineRecords(prompt, policy) = <<v>>
        BY <2>2, <3>3 DEF PipelineRecords
      <4>2. PipelineRefuses(prompt, policy)
        BY <3>3, <4>1 DEF PipelineRefuses
      <4> QED
        BY <3>1, <3>2, <3>3, <4>1, <4>2, SaidBlocks
    <3>4. CASE ~Blocks(v)
      <4>1. PipelineRecords(prompt, policy) = Said(v) \o Said(b)
        BY <2>2, <3>4 DEF PipelineRecords
      <4>2. PipelineRefuses(prompt, policy) <=> Blocks(v) \/ Blocks(b)
        BY <2>2, <4>1, SaidBlocks DEF PipelineRefuses
      <4> QED
        BY <3>1, <3>2, <4>1, <4>2, SaidBlocks
    <3> QED
      BY <3>3, <3>4
  <2> QED
    BY <2>1, <2>2
<1>2. CliInv => CliAgrees
  BY <1>1 DEF CliAgrees
<1> QED
  BY <1>2, CliInvariant, PTL

-----------------------------------------------------------------------------
(* What the steps themselves keep of the exit code: it is set when the     *)
(* program ends, and only then.                                            *)
ExitSet ==
  /\ exit \in {"running", "0", "1", "2"}
  /\ pc = "done" <=> exit # "running"
  /\ file # "policy" => violations = <<>>

LEMMA ExitStep == CliInv /\ ExitSet /\ [Next]_vars => ExitSet'
<1> SUFFICES ASSUME CliInv, ExitSet, [Next]_vars PROVE ExitSet'
  OBVIOUS
<1>1. file \in {"policy", "missing", "invalid", "unreadable"} /\ (pc = "report" => file = "policy")
  BY DEF CliInv
<1>2. CASE LoadPolicy
  BY <1>1, <1>2 DEF ExitSet, LoadPolicy
<1>3. CASE ValidateInput
  <2>1. file = "policy" /\ file' = file /\ exit = "running"
    BY <1>3 DEF CliInv, ExitSet, ValidateInput
  <2>2. \/ pc' = "done" /\ exit' = "1"
        \/ pc' = "budget" /\ exit' = exit
    BY <1>3, Zenon DEF ValidateInput
  <2> QED
    BY <2>1, <2>2 DEF ExitSet
<1>4. CASE CheckBudget
  BY <1>1, <1>4 DEF CliInv, ExitSet, CheckBudget
<1>5. CASE CheckBreaker
  BY <1>1, <1>5 DEF CliInv, ExitSet, CheckBreaker
<1>6. CASE Report
  <2>1. ExitCode(violations) \in {"0", "1"}
    BY DEF ExitCode
  <2> QED
    BY <1>1, <1>6, <2>1 DEF ExitSet, Report
<1>7. CASE UNCHANGED vars
  BY <1>7 DEF ExitSet, vars
<1> QED
  BY <1>2, <1>3, <1>4, <1>5, <1>6, <1>7 DEF Next

RuleOf(v) == [rule |-> v.rule, action |-> v.action]

LEMMA AnswerVerdict ==
  ASSUME NEW a \in Actions, NEW v,
         \E x : \/ v = Answer("input.max_tokens", "BLOCK", x)
               \/ v = Answer("input.block_pattern", "BLOCK", x)
               \/ v = Answer("input.semantic_injection", a, x)
               \/ v = Answer("input.pii_detected", "BLOCK", x)
               \/ v = Answer("input.pii_redacted", "REDACT", x)
               \/ v = Answer("budget.max_tokens_per_run", a, x)
               \/ v = Answer("budget.max_cost_usd", a, x)
  PROVE  RuleOf(v) \in Verdict
<1>1. \A b \in Actions, r \in {"input.max_tokens", "input.block_pattern",
          "input.semantic_injection", "input.pii_detected", "input.pii_redacted",
          "budget.max_tokens_per_run", "budget.max_cost_usd"} :
        [rule |-> r, action |-> b] \in Verdict
  BY DEF Verdict
<1>2. "BLOCK" \in Actions /\ "REDACT" \in Actions
  BY DEF Actions
<1>3. \A r, b, x : Answer(r, b, x).rule = r /\ Answer(r, b, x).action = b
  BY DEF Answer
<1>4. /\ v.rule \in {"input.max_tokens", "input.block_pattern", "input.semantic_injection",
                    "input.pii_detected", "input.pii_redacted",
                    "budget.max_tokens_per_run", "budget.max_cost_usd"}
      /\ v.action \in Actions
  BY <1>2, <1>3
<1> QED
  BY <1>1, <1>4 DEF RuleOf

(* Every answer the guards give carries a rule of the report and an action *)
(* of the policy.                                                          *)
LEMMA ValidateVerdict ==
  ASSUME NEW text, NEW p \in InputPolicy,
         Validate(text, p) \notin {NoViolation, BadPattern}
  PROVE  RuleOf(Validate(text, p)) \in Verdict
<1>1. p.semanticAction \in Actions
  BY DEF InputPolicy
<1>2. TokenCheck(text, p) \in {NoViolation, Answer("input.max_tokens", "BLOCK", text)}
  BY DEF TokenCheck
<1>3. PatternCheck(text, p) = NoViolation \/ PatternCheck(text, p) = BadPattern
        \/ \E q : PatternCheck(text, p) = Answer("input.block_pattern", "BLOCK", q)
  BY Zenon DEF PatternCheck
<1>4. SemanticCheck(text, p) \in
        {NoViolation, Answer("input.semantic_injection", p.semanticAction, text)}
  BY Zenon DEF SemanticCheck
<1>5. PiiCheck(text, p) = NoViolation
        \/ PiiCheck(text, p) = Answer("input.pii_detected", "BLOCK", text)
        \/ PiiCheck(text, p) = Answer("input.pii_redacted", "REDACT", RedactFallback(text))
  BY DEF PiiCheck
<1>6. text # <<>>
  BY DEF Validate
<1>7. Validate(text, p) \in {TokenCheck(text, p), PatternCheck(text, p),
                             SemanticCheck(text, p), PiiCheck(text, p)}
  BY <1>6, FirstAnswer
<1>8. \/ Validate(text, p) = Answer("input.max_tokens", "BLOCK", text)
       \/ \E q : Validate(text, p) = Answer("input.block_pattern", "BLOCK", q)
       \/ Validate(text, p) = Answer("input.semantic_injection", p.semanticAction, text)
       \/ Validate(text, p) = Answer("input.pii_detected", "BLOCK", text)
       \/ Validate(text, p) = Answer("input.pii_redacted", "REDACT", RedactFallback(text))
  BY <1>2, <1>3, <1>4, <1>5, <1>7
<1> QED
  BY <1>1, <1>8, AnswerVerdict

LEMMA BudgetVerdict ==
  ASSUME NEW p \in Policy, NEW n, BudgetCheck(p, n) # NoViolation
  PROVE  RuleOf(BudgetCheck(p, n)) \in Verdict
<1>1. p.budgetAction \in Actions
  BY DEF Policy
<1>2. \/ BudgetCheck(p, n) = NoViolation
      \/ BudgetCheck(p, n) = Answer("budget.max_tokens_per_run", p.budgetAction, <<>>)
      \/ BudgetCheck(p, n) = Answer("budget.max_cost_usd", p.budgetAction, <<>>)
  <2>1. CASE n > p.maxRunTokens
    BY <2>1 DEF BudgetCheck
  <2>2. CASE ~(n > p.maxRunTokens) /\ n <= p.maxRunTokens /\ n * p.price > p.maxCost
    BY <2>2 DEF BudgetCheck
  <2>3. CASE ~(n > p.maxRunTokens) /\ ~(n <= p.maxRunTokens /\ n * p.price > p.maxCost)
    BY <2>3 DEF BudgetCheck
  <2> QED
    BY <2>1, <2>2, <2>3
<1> QED
  BY <1>1, <1>2, AnswerVerdict

(* At most one answer of the validator and one of the budget are reported, *)
(* each with a rule and an action of the policy; and the exit code is set  *)
(* exactly when the program ends (cli/check.py).                           *)
THEOREM CliTypes == Spec => []TypeOK
<1>1. Init => ExitSet
  BY DEF Init, ExitSet
<1>2. CliInv /\ ExitSet => TypeOK
  <2> SUFFICES ASSUME CliInv, ExitSet PROVE TypeOK
    OBVIOUS
  <2> DEFINE v == Validate(prompt, policy.input)
             b == BudgetCheck(policy, EstimatedTokens(prompt))
  <2>1. policy \in Policy /\ policy.input \in InputPolicy
    BY CliAssumption DEF CliInv, Policy
  <2>2. v # BadPattern => v = NoViolation \/ RuleOf(v) \in Verdict
    BY <2>1, ValidateVerdict
  <2>3. b = NoViolation \/ RuleOf(b) \in Verdict
    BY <2>1, BudgetVerdict
  <2>4. \/ violations = <<>>
        \/ v # BadPattern /\ violations = Said(v)
        \/ v # BadPattern /\ violations = Said(v) \o Said(b)
    BY DEF CliInv, ExitSet, Heard
  <2> HIDE DEF v, b
  <2>5. /\ Len(violations) <= 3
        /\ \A i \in DOMAIN violations : RuleOf(violations[i]) \in Verdict
    <3>1. CASE violations = <<>>
      BY <3>1
    <3>2. CASE v # BadPattern /\ violations = Said(v)
      BY <2>2, <3>2 DEF Said
    <3>3. CASE v # BadPattern /\ violations = Said(v) \o Said(b)
      <4>1. CASE v = NoViolation
        BY <2>3, <3>3, <4>1 DEF Said
      <4>2. CASE v # NoViolation /\ b = NoViolation
        BY <2>2, <3>3, <4>2 DEF Said
      <4>3. CASE v # NoViolation /\ b # NoViolation
        <5>1. Len(violations) = 2 /\ violations[1] = v /\ violations[2] = b
          BY <3>3, <4>3 DEF Said
        <5>2. DOMAIN violations = 1..2
          BY <3>3, <4>3 DEF Said
        <5> QED
          BY <2>2, <2>3, <3>3, <4>3, <5>1, <5>2
      <4> QED
        BY <4>1, <4>2, <4>3
    <3> QED
      BY <2>4, <3>1, <3>2, <3>3
  <2>6. \A i \in DOMAIN violations :
          [rule |-> violations[i].rule, action |-> violations[i].action] \in Verdict
    BY <2>5, Zenon DEF RuleOf
  <2> QED
    BY <2>5, <2>6 DEF CliInv, ExitSet, TypeOK
<1> QED
  BY <1>1, <1>2, CliInvariant, ExitStep, PTL DEF Spec

-----------------------------------------------------------------------------
(* Counting up, and what a sequence of sequences flattens to.              *)
LEMMA LeastNatural ==
  ASSUME NEW S \in SUBSET Nat, S # {}
  PROVE  \E m \in S : \A n \in S : m <= n
<1> DEFINE Less == {ss \in Nat \X Nat : ss[1] < ss[2]}
<1>1. IsWellFoundedOn(Less, Nat)
  BY NatLessThanWellFounded, Zenon DEF OpToRel
<1>2. \E x \in S : \A y \in S : ~(<<y, x>> \in Less)
  <2> HIDE DEF Less
  <2> QED BY <1>1, WFMin, Zenon
<1>3. PICK x \in S : \A y \in S : ~(<<y, x>> \in Less)
  BY <1>2
<1>4. \A y \in S : ~(y < x)
  BY <1>3
<1> QED
  BY <1>3, <1>4

(* What holds at a and passes from each number to the next holds up to n.  *)
LEMMA CountUp ==
  ASSUME NEW a \in Nat, NEW n \in Nat, NEW Good, a <= n => a \in Good,
         \A k \in a..n : k \in Good /\ k < n => k + 1 \in Good
  PROVE  \A k \in a..n : k \in Good
<1> DEFINE Bad == {k \in a..n : k \notin Good}
<1> SUFFICES ASSUME Bad # {} PROVE FALSE
  OBVIOUS
<1>1. Bad \in SUBSET Nat
  OBVIOUS
<1>2. PICK k \in Bad : \A j \in Bad : k <= j
  <2> HIDE DEF Bad
  <2> QED BY <1>1, LeastNatural
<1>3. k \in a..n /\ k # a /\ k \notin Good
  OBVIOUS
<1>4. k - 1 \in a..n /\ k - 1 \notin Bad /\ k - 1 < n
  BY <1>2, <1>3
<1>5. k - 1 \in Good
  BY <1>4
<1>6. (k - 1) + 1 \in Good
  BY <1>4, <1>5
<1> QED
  BY <1>3, <1>6

(* r[i] is the first i sequences of W, one after the other.                *)
Accumulates(W, r, n, C) ==
  /\ r \in [0..n -> Seq(C)]
  /\ r[0] = <<>>
  /\ \A i \in 1..n : r[i] = r[i-1] \o W[i]

(* Sequences can be put one after the other.                               *)
LEMMA AccumulationExists ==
  ASSUME NEW n \in Nat, NEW C, NEW W, \A i \in 1..n : W[i] \in Seq(C)
  PROVE  \E r : Accumulates(W, r, n, C)
<1> DEFINE Good == {k \in 0..n : \E r : Accumulates(W, r, k, C)}
<1>1. 0 \in Good
  <2> DEFINE r == [i \in 0..0 |-> <<>>]
  <2>1. /\ r \in [0..0 -> Seq(C)] /\ r[0] = <<>>
        /\ \A i \in 1..0 : r[i] = r[i-1] \o W[i]
    OBVIOUS
  <2> HIDE DEF r
  <2>2. Accumulates(W, r, 0, C)
    BY <2>1 DEF Accumulates
  <2> QED
    BY <2>2
<1>2. ASSUME NEW k \in 0..n, k \in Good, k < n PROVE k + 1 \in Good
  <2>1. PICK f : Accumulates(W, f, k, C)
    BY <1>2
  <2>2. /\ f \in [0..k -> Seq(C)] /\ f[0] = <<>>
        /\ \A i \in 1..k : f[i] = f[i-1] \o W[i]
    BY <2>1 DEF Accumulates
  <2> DEFINE r == [i \in 0..(k+1) |-> IF i <= k THEN f[i] ELSE f[k] \o W[k+1]]
  <2>3. f[k] \o W[k+1] \in Seq(C)
    BY <1>2, <2>2
  <2>4. r \in [0..(k+1) -> Seq(C)] /\ r[0] = <<>>
    BY <2>2, <2>3
  <2>5. ASSUME NEW i \in 1..(k+1) PROVE r[i] = r[i-1] \o W[i]
    <3>1. CASE i <= k
      <4>1. r[i] = f[i] /\ r[i-1] = f[i-1] /\ i \in 1..k
        BY <3>1
      <4> QED
        BY <2>2, <4>1
    <3>2. CASE i = k + 1
      <4>1. k \in Nat /\ i - 1 = k /\ ~(i <= k) /\ i - 1 \in 0..(k+1)
        BY <3>2
      <4>a. k + 1 \in 0..(k+1) /\ ~(k + 1 <= k)
        BY <4>1
      <4>b. r[k+1] = f[k] \o W[k+1]
        BY <4>a
      <4>2. r[i] = f[k] \o W[k+1]
        BY <3>2, <4>b
      <4>3. r[i-1] = f[k]
        BY <4>1
      <4> QED
        BY <3>2, <4>2, <4>3
    <3>3. i <= k \/ i = k + 1
      OBVIOUS
    <3> QED
      BY <3>1, <3>2, <3>3
  <2> HIDE DEF r
  <2>6. Accumulates(W, r, k + 1, C)
    BY <2>4, <2>5 DEF Accumulates
  <2> QED
    BY <1>2, <2>6
<1>3. \A k \in 0..n : k \in Good
  <2> HIDE DEF Good
  <2> QED BY <1>1, <1>2, CountUp
<1> QED
  BY <1>3

Flattening(f, W) == f = [i \in 1..Len(W) |-> IF i = 1 THEN W[i] ELSE f[i-1] \o W[i]]

(* FlattenSeq ends where any such accumulation ends.                       *)
LEMMA FlattenIs ==
  ASSUME NEW n \in Nat, NEW C, NEW W \in [1..n -> Seq(C)], NEW r, Accumulates(W, r, n, C)
  PROVE  FlattenSeq(W) = r[n] /\ r[n] \in Seq(C)
<1>1. W \in Seq(Seq(C)) /\ Len(W) = n
  OBVIOUS
<1>2. /\ r \in [0..n -> Seq(C)] /\ r[0] = <<>>
      /\ \A i \in 1..n : r[i] = r[i-1] \o W[i]
  BY DEF Accumulates
<1>3. CASE n = 0
  <2>1. W = <<>>
    BY <1>3
  <2> QED
    BY <1>1, <1>2, <1>3, <2>1 DEF FlattenSeq
<1>4. CASE n # 0
  <2> DEFINE flat == CHOOSE f : Flattening(f, W)
             g == [i \in 1..n |-> r[i]]
  <2>1. FlattenSeq(W) = flat[n]
    BY <1>1, <1>4 DEF FlattenSeq, Flattening
  <2>2. \A i \in 1..n : g[i] = IF i = 1 THEN W[i] ELSE g[i-1] \o W[i]
    <3> SUFFICES ASSUME NEW i \in 1..n PROVE g[i] = IF i = 1 THEN W[i] ELSE g[i-1] \o W[i]
      OBVIOUS
    <3>1. g[i] = r[i-1] \o W[i]
      BY <1>2
    <3>2. CASE i = 1
      <4>1. r[i-1] = <<>>
        BY <1>2, <3>2
      <4> QED
        BY <3>1, <3>2, <4>1
    <3>3. CASE i # 1
      <4>1. g[i-1] = r[i-1]
        BY <3>3
      <4> QED
        BY <3>1, <3>3, <4>1
    <3> QED
      BY <3>2, <3>3
  <2>3. Flattening(g, W)
    BY <1>1, <2>2 DEF Flattening
  <2> HIDE DEF g
  <2>4. Flattening(flat, W)
    BY <2>3, Zenon
  <2> HIDE DEF flat
  <2>5. \A i \in 1..n : flat[i] = IF i = 1 THEN W[i] ELSE flat[i-1] \o W[i]
    BY <1>1, <2>4 DEF Flattening
  <2> DEFINE Good == {i \in 1..n : flat[i] = r[i]}
  <2>6. 1 \in Good
    <3>1. 1 \in 1..n /\ 1 - 1 = 0
      BY <1>4
    <3>2. r[1] = r[1-1] \o W[1] /\ W[1] \in Seq(C)
      BY <1>2, <3>1
    <3>a. \A w \in Seq(C) : <<>> \o w = w
      OBVIOUS
    <3>3. r[1] = W[1]
      <4>1. r[1-1] = <<>>
        BY <1>2, <3>1
      <4>2. r[1] = <<>> \o W[1]
        BY <3>2, <4>1
      <4> QED
        BY <3>2, <3>a, <4>2
    <3> QED
      BY <2>5, <3>1, <3>3
  <2>7. ASSUME NEW k \in 1..n, k \in Good, k < n PROVE k + 1 \in Good
    <3>1. k + 1 \in 1..n /\ k + 1 # 1 /\ (k + 1) - 1 = k
      BY <2>7
    <3>2. flat[k+1] = flat[k] \o W[k+1]
      BY <2>5, <3>1
    <3>3. r[k+1] = r[k] \o W[k+1]
      BY <1>2, <3>1
    <3> QED
      BY <2>7, <3>1, <3>2, <3>3
  <2>8. \A k \in 1..n : k \in Good
    <3> HIDE DEF Good
    <3> QED BY <2>6, <2>7, CountUp
  <2>9. n \in 1..n
    BY <1>4
  <2> QED
    <3>1. flat[n] = r[n]
      BY <2>8, <2>9
    <3>2. r[n] \in Seq(C)
      BY <1>2, <2>9
    <3> QED
      BY <2>1, <3>1, <3>2
<1> QED
  BY <1>3, <1>4

-----------------------------------------------------------------------------
(* Offsets are sums, with the argument of RateLimiter_proof: the recursion *)
(* of a fold has one solution, whatever element it picks.                  *)
LEMMA SmallestSubset ==
  ASSUME NEW S, IsFiniteSet(S), NEW Bad \in SUBSET SUBSET S, Bad # {}
  PROVE  \E s \in Bad : \A t \in Bad : t \subseteq s => t = s
<1>1. FiniteSubsetsOf(S) = SUBSET S
  BY FS_FiniteSubsetsOfFinite
<1>2. IsWellFoundedOn(StrictSubsetOrdering(S), SUBSET S)
  BY <1>1, FS_StrictSubsetOrderingWellFounded, Zenon
<1>3. PICK s \in Bad : \A t \in Bad : ~(<<t, s>> \in StrictSubsetOrdering(S))
  BY <1>2, WFMin, Zenon
<1> QED
  BY <1>3 DEF StrictSubsetOrdering

-----------------------------------------------------------------------------
(* The cells of a text, and where its spans lie.                           *)
Labels == ToSet(PiiTypes)
Cell == [of: Segments \cup Labels, part: Nat]

LEMMA CellsType ==
  ASSUME NEW what \in Segments \cup Labels, NEW n \in Nat
  PROVE  Cells(what, n) \in Seq(Cell) /\ Len(Cells(what, n)) = n
<1>1. \A i \in 1..n : [of |-> what, part |-> i] \in Cell
  BY DEF Cell
<1>2. Cells(what, n) \in [1..n -> Cell]
  BY <1>1 DEF Cells
<1> QED
  BY <1>2

(* A text's cells, and the offsets of its segments, which grow by widths.  *)
LEMMA TextCellsType ==
  ASSUME NEW text \in Seq(Segments)
  PROVE  /\ TextCells(text) \in Seq(Cell)
         /\ \A i \in 1..(Len(text) + 1) :
              Offset(text, i) \in Nat /\ Offset(text, i) <= Len(TextCells(text))
         /\ \A i \in 1..Len(text) : Offset(text, i + 1) = Offset(text, i) + Width[text[i]]
<1> DEFINE n == Len(text)
           W == [i \in 1..n |-> Cells(text[i], Width[text[i]])]
           Upto(k) == SubSeq(text, 1, k)
<1>1. n \in Nat
  OBVIOUS
<1>2. \A i \in 1..n : text[i] \in Segments /\ Width[text[i]] \in Nat
  BY ValidatorAssumption
<1>3. \A i \in 1..n : W[i] \in Seq(Cell) /\ Len(W[i]) = Width[text[i]]
  BY <1>2, CellsType
<1>4. PICK r : Accumulates(W, r, n, Cell)
  <2> HIDE DEF W, n
  <2> QED BY <1>1, <1>3, AccumulationExists
<1>5. /\ r \in [0..n -> Seq(Cell)] /\ r[0] = <<>>
      /\ \A i \in 1..n : r[i] = r[i-1] \o W[i]
  BY <1>4 DEF Accumulates
<1>6. ASSUME NEW k \in 0..n PROVE TextCells(Upto(k)) = r[k] /\ r[k] \in Seq(Cell)
  <2> DEFINE V == [i \in 1..k |-> Cells(text[i], Width[text[i]])]
             p == [i \in 0..k |-> r[i]]
  <2>1. Len(Upto(k)) = k /\ \A i \in 1..k : Upto(k)[i] = text[i]
    OBVIOUS
  <2>2. TextCells(Upto(k)) = FlattenSeq(V)
    <3> HIDE DEF Upto
    <3>1. V = [i \in 1..Len(Upto(k)) |-> Cells(Upto(k)[i], Width[Upto(k)[i]])]
      BY <2>1
    <3> QED
      BY <3>1 DEF TextCells
  <2>3. k \in Nat /\ \A i \in 1..k : i \in 1..n /\ i \in 0..n /\ i - 1 \in 0..n /\ i - 1 \in 0..k
    OBVIOUS
  <2>4. \A i \in 1..k : V[i] = W[i]
    BY <2>3
  <2> HIDE DEF W
  <2>5. V \in [1..k -> Seq(Cell)]
    <3>1. \A i \in 1..k : V[i] \in Seq(Cell)
      BY <1>3, <2>3, <2>4
    <3> QED
      BY <3>1
  <2> HIDE DEF V
  <2>6. p \in [0..k -> Seq(Cell)] /\ p[0] = <<>> /\ p[k] = r[k]
    BY <1>5, <2>3
  <2>7. \A i \in 1..k : p[i] = r[i] /\ p[i-1] = r[i-1]
    BY <2>3
  <2>8. \A i \in 1..k : p[i] = p[i-1] \o V[i]
    BY <1>5, <2>3, <2>4, <2>7
  <2> HIDE DEF p
  <2>9. Accumulates(V, p, k, Cell)
    BY <2>6, <2>8 DEF Accumulates
  <2>10. FlattenSeq(V) = p[k] /\ p[k] \in Seq(Cell)
    BY <2>3, <2>5, <2>9, FlattenIs
  <2> QED
    BY <2>2, <2>6, <2>10
<1>7. TextCells(text) = r[n] /\ r[n] \in Seq(Cell)
  <2>1. Upto(n) = text
    OBVIOUS
  <2>2. n \in 0..n
    BY <1>1
  <2> HIDE DEF Upto
  <2> QED
    BY <1>6, <2>1, <2>2
<1>8. \A k \in 0..n : Offset(text, k + 1) = Len(r[k]) /\ Len(r[k]) \in Nat
  <2> SUFFICES ASSUME NEW k \in 0..n PROVE Offset(text, k + 1) = Len(r[k]) /\ Len(r[k]) \in Nat
    OBVIOUS
  <2>1. (k + 1) - 1 = k
    OBVIOUS
  <2>2. TextCells(Upto(k)) = r[k] /\ r[k] \in Seq(Cell)
    BY <1>6
  <2> QED
    BY <2>1, <2>2 DEF Offset
<1>9. \A k \in 0..n : k < n =>
        k + 1 \in 1..n /\ k + 1 \in 0..n /\ Len(r[k+1]) = Len(r[k]) + Width[text[k+1]]
  <2> SUFFICES ASSUME NEW k \in 0..n, k < n
               PROVE  k + 1 \in 1..n /\ k + 1 \in 0..n /\ Len(r[k+1]) = Len(r[k]) + Width[text[k+1]]
    OBVIOUS
  <2>1. k + 1 \in 1..n /\ k + 1 \in 0..n /\ (k + 1) - 1 = k
    BY <1>1
  <2> HIDE DEF W, n
  <2>2. r[k+1] = r[k] \o W[k+1] /\ r[k] \in Seq(Cell) /\ W[k+1] \in Seq(Cell)
    BY <1>3, <1>5, <2>1
  <2>3. Len(r[k+1]) = Len(r[k]) + Len(W[k+1])
    BY <2>2
  <2> QED
    BY <1>3, <2>1, <2>3
<1> HIDE DEF W, n, Upto
<1> DEFINE Low == {k \in 0..n : \A j \in 0..k : Len(r[j]) <= Len(r[k])}
<1>14. 0 \in Low
  <2>1. Len(r[0]) \in Nat /\ \A j \in 0..0 : j = 0
    BY <1>1, <1>8
  <2> QED
    BY <1>1, <2>1
<1>15. ASSUME NEW k \in 0..n, k \in Low, k < n PROVE k + 1 \in Low
  <2>1. k + 1 \in 1..n /\ k + 1 \in 0..n
    BY <1>1, <1>15
  <2>2. Len(r[k+1]) = Len(r[k]) + Width[text[k+1]]
    BY <1>9, <1>15
  <2>3. Width[text[k+1]] \in Nat
    BY <1>2, <2>1
  <2>4. \A j \in 0..(k+1) : j \in 0..k \/ j = k + 1
    OBVIOUS
  <2>5. \A j \in 0..(k+1) : Len(r[j]) \in Nat
    BY <1>8, <2>1
  <2>6. Len(r[k]) \in Nat /\ \A j \in 0..k : Len(r[j]) <= Len(r[k])
    BY <1>8, <1>15
  <2>7. ASSUME NEW j \in 0..(k+1) PROVE Len(r[j]) <= Len(r[k+1])
    BY <2>2, <2>3, <2>4, <2>5, <2>6
  <2> QED
    BY <2>1, <2>7
<1>16. \A k \in 0..n : k \in Low
  <2> HIDE DEF Low
  <2> QED BY <1>1, <1>14, <1>15, CountUp
<1>17. \A j \in 0..n : Len(r[j]) <= Len(r[n])
  BY <1>1, <1>16
<1> HIDE DEF Low
<1>18. \A i \in 1..(n+1) : Offset(text, i) \in Nat /\ Offset(text, i) <= Len(r[n])
  <2> SUFFICES ASSUME NEW i \in 1..(n+1) PROVE Offset(text, i) \in Nat /\ Offset(text, i) <= Len(r[n])
    OBVIOUS
  <2>1. i - 1 \in 0..n /\ (i - 1) + 1 = i
    BY <1>1
  <2>2. Offset(text, (i - 1) + 1) = Len(r[i-1]) /\ Len(r[i-1]) \in Nat
    BY <1>8, <2>1
  <2>3. Len(r[i-1]) <= Len(r[n])
    BY <1>17, <2>1
  <2> QED
    BY <2>1, <2>2, <2>3
<1>19. \A i \in 1..n : Offset(text, i + 1) = Offset(text, i) + Width[text[i]]
  <2> SUFFICES ASSUME NEW i \in 1..n PROVE Offset(text, i + 1) = Offset(text, i) + Width[text[i]]
    OBVIOUS
  <2>1. i - 1 \in 0..n /\ i \in 0..n /\ i - 1 < n /\ (i - 1) + 1 = i
    BY <1>1
  <2>2. Offset(text, i + 1) = Len(r[i])
    BY <1>8, <2>1
  <2>3. Offset(text, (i - 1) + 1) = Len(r[i-1])
    BY <1>8, <2>1
  <2>4. Len(r[(i-1)+1]) = Len(r[i-1]) + Width[text[(i-1)+1]]
    BY <1>9, <2>1
  <2> QED
    BY <2>1, <2>2, <2>3, <2>4
<1> QED
  BY <1>7, <1>18, <1>19 DEF n

Shifted(text, i) ==
  {[h EXCEPT !.start = @ + Offset(text, i), !.end = @ + Offset(text, i)] : h \in HitsOf[text[i]]}

(* Spans of a text of n cells.                                             *)
SpansOf(S, n) ==
  \A h \in S : /\ h.type \in Labels /\ h.start \in Nat /\ h.end \in Nat
               /\ h.start < h.end /\ h.end <= n

(* The spans that are found lie in the text (_detect_pii_fallback).        *)
LEMMA EntitiesLie ==
  ASSUME NEW text \in Seq(Segments)
  PROVE  SpansOf(Entities(text), Len(TextCells(text)))
<1> SUFFICES ASSUME NEW i \in 1..Len(text), NEW h \in HitsOf[text[i]], NEW x,
                    x = [h EXCEPT !.start = @ + Offset(text, i), !.end = @ + Offset(text, i)]
             PROVE  /\ x.type \in Labels /\ x.start \in Nat /\ x.end \in Nat
                    /\ x.start < x.end /\ x.end <= Len(TextCells(text))
  BY DEF SpansOf, Entities
<1>1. text[i] \in Segments
  OBVIOUS
<1>2. /\ h \in [type: Labels, start: Nat, end: Nat]
      /\ h.start < h.end /\ h.end <= Width[text[i]] /\ Width[text[i]] \in Nat
  BY <1>1, ValidatorAssumption DEF Hit, Labels
<1>z. i \in 1..(Len(text) + 1)
  OBVIOUS
<1>3. /\ Offset(text, i) \in Nat
      /\ Offset(text, i + 1) = Offset(text, i) + Width[text[i]]
  BY <1>z, TextCellsType
<1>4. i + 1 \in 1..(Len(text) + 1)
  OBVIOUS
<1>5. Offset(text, i + 1) <= Len(TextCells(text))
  BY <1>4, TextCellsType
<1>6. Len(TextCells(text)) \in Nat
  BY TextCellsType
<1>7. /\ x.type = h.type /\ x.start = h.start + Offset(text, i) /\ x.end = h.end + Offset(text, i)
  BY <1>2
<1>8. h.type \in Labels /\ h.start \in Nat /\ h.end \in Nat
  BY <1>2
<1>9. /\ h.start + Offset(text, i) < h.end + Offset(text, i)
      /\ h.end + Offset(text, i) <= Len(TextCells(text))
  BY <1>2, <1>3, <1>5, <1>6, <1>8
<1> QED
  BY <1>3, <1>7, <1>8, <1>9

(* They are finitely many.                                                 *)
LEMMA EntitiesFinite ==
  ASSUME NEW text \in Seq(Segments)
  PROVE  IsFiniteSet(Entities(text))
<1> DEFINE I == 1..Len(text)
           P == {Shifted(text, i) : i \in I}
<1>1. ASSUME NEW i \in I PROVE IsFiniteSet(Shifted(text, i))
  <2> DEFINE H == HitsOf[text[i]]
             f == [h \in H |-> [h EXCEPT !.start = @ + Offset(text, i), !.end = @ + Offset(text, i)]]
  <2>1. IsFiniteSet(H)
    BY ValidatorAssumption
  <2>2. f \in Surjection(H, Shifted(text, i))
    BY DEF Surjection, Shifted
  <2> HIDE DEF H, f
  <2> QED
    BY <2>1, <2>2, FS_Surjection
<1>2. IsFiniteSet(P)
  <2> DEFINE g == [i \in I |-> Shifted(text, i)]
  <2>1. IsFiniteSet(I)
    BY FS_Interval
  <2>2. g \in Surjection(I, P)
    BY DEF Surjection
  <2> HIDE DEF I, P, g
  <2> QED
    BY <2>1, <2>2, FS_Surjection
<1>3. \A T \in P : IsFiniteSet(T)
  BY <1>1
<1>4. Entities(text) = UNION P
  BY DEF Entities, Shifted
<1> HIDE DEF P
<1> QED
  BY <1>2, <1>3, <1>4, FS_UNION

-----------------------------------------------------------------------------
(* The cells with the spans of S, and nothing else, replaced.              *)
Covering(S, q) == {h \in S : h.start < q /\ q <= h.end}

Piece(cells, S, q) ==
  CASE Covering(S, q) = {} -> <<cells[q]>>
    [] \E h \in Covering(S, q) : h.start = q - 1 -> Label((CHOOSE h \in Covering(S, q) : TRUE).type)
    [] OTHER -> <<>>

Pieces(cells, S) == [q \in 1..Len(cells) |-> Piece(cells, S, q)]

(* The redacted text of the property is made of these pieces.              *)
LEMMA RedactedIs ==
  ASSUME NEW text
  PROVE  Redacted(text) = FlattenSeq(Pieces(TextCells(text), Entities(text)))
BY DEF Redacted, Pieces, Piece, Covering

Disjoint(S) == \A g, h \in S : g # h => g.end <= h.start \/ h.end <= g.start

LEMMA PieceType ==
  ASSUME NEW cells \in Seq(Cell), NEW S, SpansOf(S, Len(cells)), NEW q \in 1..Len(cells)
  PROVE  Piece(cells, S, q) \in Seq(Cell)
<1>1. CASE Covering(S, q) = {}
  <2>1. <<cells[q]>> \in Seq(Cell)
    OBVIOUS
  <2> QED
    BY <1>1, <2>1 DEF Piece
<1>2. CASE Covering(S, q) # {}
  <2> DEFINE h == CHOOSE h \in Covering(S, q) : TRUE
  <2>1. h \in Covering(S, q)
    BY <1>2
  <2>2. h.type \in Labels
    BY <2>1 DEF Covering, SpansOf
  <2>3. Label(h.type) \in Seq(Cell)
    BY <2>2, CellsType, ValidatorAssumption DEF Label
  <2>4. <<>> \in Seq(Cell)
    OBVIOUS
  <2> QED
    BY <1>2, <2>3, <2>4 DEF Piece
<1> QED
  BY <1>1, <1>2

(* Nothing replaced.                                                       *)
LEMMA NoPieces ==
  ASSUME NEW cells \in Seq(Cell)
  PROVE  FlattenSeq(Pieces(cells, {})) = cells
<1> DEFINE n == Len(cells)
           W == Pieces(cells, {})
           r == [i \in 0..n |-> SubSeq(cells, 1, i)]
<1>1. \A q \in 1..n : W[q] = <<cells[q]>>
  BY DEF Pieces, Piece, Covering
<1>a. W = [q \in 1..n |-> Piece(cells, {}, q)]
  BY DEF Pieces
<1>b. \A q \in 1..n : <<cells[q]>> \in Seq(Cell)
  OBVIOUS
<1>c. \A q \in 1..n : Piece(cells, {}, q) \in Seq(Cell)
  BY <1>b DEF Piece, Covering
<1>2. W \in [1..n -> Seq(Cell)]
  BY <1>a, <1>c
<1>3. n \in Nat
  OBVIOUS
<1>4. r \in [0..n -> Seq(Cell)] /\ r[0] = <<>>
  OBVIOUS
<1>5. ASSUME NEW i \in 1..n PROVE r[i] = r[i-1] \o W[i]
  <2>1. SubSeq(cells, 1, i) = SubSeq(cells, 1, i - 1) \o <<cells[i]>>
    OBVIOUS
  <2>2. r[i] = SubSeq(cells, 1, i) /\ r[i-1] = SubSeq(cells, 1, i - 1)
    OBVIOUS
  <2> QED
    BY <1>1, <2>1, <2>2
<1>6. r[n] = cells
  OBVIOUS
<1> HIDE DEF r, W
<1>7. Accumulates(W, r, n, Cell)
  BY <1>4, <1>5 DEF Accumulates
<1>8. FlattenSeq(W) = r[n]
  BY <1>2, <1>3, <1>7, FlattenIs
<1> QED
  BY <1>6, <1>8 DEF W

(* What a cut at b leaves of x and of what follows it.                     *)
LEMMA TailKept ==
  ASSUME NEW C, NEW x \in Seq(C), NEW y \in Seq(C), NEW b \in Nat, b <= Len(x)
  PROVE  SubSeq(x \o y, b + 1, Len(x \o y)) = SubSeq(x, b + 1, Len(x)) \o y
<1> DEFINE z == x \o y
           v == SubSeq(x, b + 1, Len(x))
           l == SubSeq(z, b + 1, Len(z))
           k == v \o y
<1>1. z \in Seq(C) /\ Len(z) = Len(x) + Len(y) /\ Len(x) \in Nat /\ Len(y) \in Nat
  OBVIOUS
<1>2. \A i \in 1..Len(z) : z[i] = IF i <= Len(x) THEN x[i] ELSE y[i - Len(x)]
  OBVIOUS
<1>3. v \in Seq(C) /\ Len(v) = Len(x) - b
  OBVIOUS
<1>4. \A i \in 1..(Len(x) - b) : v[i] = x[b + i]
  OBVIOUS
<1> HIDE DEF z
<1>5. l \in Seq(C) /\ Len(l) = Len(z) - b
  BY <1>1
<1>6. \A i \in 1..(Len(z) - b) : l[i] = z[b + i]
  BY <1>1
<1> HIDE DEF l, v
<1>7. k \in Seq(C) /\ Len(k) = Len(v) + Len(y)
  BY <1>3
<1>8. \A i \in 1..(Len(v) + Len(y)) : k[i] = IF i <= Len(v) THEN v[i] ELSE y[i - Len(v)]
  BY <1>3
<1> HIDE DEF k
<1>9. Len(l) = Len(k)
  BY <1>1, <1>3, <1>5, <1>7
<1>10. ASSUME NEW i \in 1..Len(l) PROVE l[i] = k[i]
  <2>1. /\ i \in 1..(Len(z) - b) /\ i \in 1..(Len(v) + Len(y)) /\ b + i \in 1..Len(z)
        /\ b + i - Len(x) = i - Len(v) /\ (b + i <= Len(x) <=> i <= Len(v))
    BY <1>1, <1>3, <1>5, <1>7, <1>9
  <2>2. l[i] = z[b + i]
    BY <1>6, <2>1
  <2>3. CASE i <= Len(v)
    <3>1. i \in 1..(Len(x) - b)
      BY <1>3, <2>1, <2>3
    <3>2. z[b + i] = x[b + i] /\ k[i] = v[i] /\ v[i] = x[b + i]
      BY <1>2, <1>4, <1>8, <2>1, <2>3, <3>1
    <3> QED
      BY <2>2, <3>2
  <2>4. CASE ~(i <= Len(v))
    <3>1. z[b + i] = y[b + i - Len(x)] /\ k[i] = y[i - Len(v)]
      BY <1>2, <1>8, <2>1, <2>4
    <3> QED
      BY <2>1, <2>2, <3>1
  <2> QED
    BY <2>3, <2>4
<1>11. l = k
  BY <1>5, <1>7, <1>9, <1>10
<1> QED
  BY <1>11 DEF k, l, v, z

(* What follows a span is not touched by its replacement.                  *)
LEMMA ReplaceHead ==
  ASSUME NEW h, h.type \in Labels, h.start \in Nat, h.end \in Nat, h.start < h.end,
         NEW x \in Seq(Cell), h.end <= Len(x), NEW y \in Seq(Cell)
  PROVE  /\ Replace(h, x) \in Seq(Cell)
         /\ Replace(h, x \o y) = Replace(h, x) \o y
<1> DEFINE a == h.start
           b == h.end
           m == Label(h.type)
           u == SubSeq(x, 1, a)
           v == SubSeq(x, b + 1, Len(x))
<1>1. m \in Seq(Cell)
  BY CellsType, ValidatorAssumption DEF Label
<1>2. u \in Seq(Cell) /\ v \in Seq(Cell)
  OBVIOUS
<1>3. SubSeq(x \o y, 1, a) = u
  OBVIOUS
<1>4. SubSeq(x \o y, b + 1, Len(x \o y)) = v \o y
  BY TailKept
<1>5. /\ Replace(h, x) = (u \o m) \o v
      /\ Replace(h, x \o y) = (u \o m) \o (v \o y)
  BY <1>3, <1>4 DEF Replace
<1> HIDE DEF u, v, m
<1>6. u \o m \in Seq(Cell)
  BY <1>1, <1>2
<1> DEFINE w == u \o m
<1> HIDE DEF w
<1>7. w \in Seq(Cell)
  BY <1>6 DEF w
<1>8. w \o v \in Seq(Cell)
  BY <1>2, <1>7
<1>9. (w \o v) \o y = w \o (v \o y)
  <2>1. v \in Seq(Cell)
    BY <1>2
  <2>2. \A p, q, s \in Seq(Cell) : (p \o q) \o s = p \o (q \o s)
    OBVIOUS
  <2> QED
    BY <1>7, <2>1, <2>2
<1> QED
  BY <1>5, <1>8, <1>9 DEF w

(* h lies before every span of S.                                          *)
Ahead(h, S) == h \notin S /\ \A g \in S : h.end <= g.start

(* What adding a span that lies ahead of the others does to each piece.    *)
LEMMA PiecesAhead ==
  ASSUME NEW cells \in Seq(Cell), NEW S, NEW h, SpansOf(S \cup {h}, Len(cells)), Ahead(h, S),
         NEW q \in 1..Len(cells)
  PROVE  /\ q <= h.end => Piece(cells, S, q) = <<cells[q]>>
         /\ q <= h.start => Piece(cells, S \cup {h}, q) = <<cells[q]>>
         /\ q = h.start + 1 => Piece(cells, S \cup {h}, q) = Label(h.type)
         /\ h.start + 1 < q /\ q <= h.end => Piece(cells, S \cup {h}, q) = <<>>
         /\ q > h.end => Piece(cells, S \cup {h}, q) = Piece(cells, S, q)
<1> DEFINE U == S \cup {h}
<1>1. /\ h.start \in Nat /\ h.end \in Nat /\ h.start < h.end
      /\ \A g \in S : g.start \in Nat /\ g.end \in Nat /\ h.end <= g.start
  BY DEF SpansOf, Ahead
<1>2. ASSUME q <= h.end PROVE Covering(S, q) = {}
  BY <1>1, <1>2 DEF Covering
<1>3. ASSUME q <= h.start PROVE Covering(U, q) = {}
  BY <1>1, <1>3 DEF Covering
<1>4. ASSUME h.start < q, q <= h.end PROVE Covering(U, q) = {h}
  <2>1. h \in Covering(U, q)
    BY <1>4 DEF Covering
  <2>2. \A g \in Covering(U, q) : g = h
    BY <1>1, <1>4 DEF Covering
  <2> QED
    BY <2>1, <2>2
<1>5. ASSUME q > h.end PROVE Covering(U, q) = Covering(S, q)
  BY <1>1, <1>5 DEF Covering
<1>6. q <= h.end => Piece(cells, S, q) = <<cells[q]>>
  BY <1>2 DEF Piece
<1>7. q <= h.start => Piece(cells, U, q) = <<cells[q]>>
  BY <1>3 DEF Piece
<1>8. ASSUME q = h.start + 1 PROVE Piece(cells, U, q) = Label(h.type)
  <2>0. h.start < q /\ q <= h.end /\ h.start = q - 1
    BY <1>1, <1>8
  <2>1. Covering(U, q) = {h} /\ h.start = q - 1
    <3> HIDE DEF U
    <3> QED BY <1>4, <2>0
  <2>2. (CHOOSE g \in Covering(U, q) : TRUE) = h
    BY <2>1
  <2> HIDE DEF U
  <2> QED
    BY <2>1, <2>2 DEF Piece
<1>9. ASSUME h.start + 1 < q, q <= h.end PROVE Piece(cells, U, q) = <<>>
  <2>0. h.start < q /\ q <= h.end /\ h.start # q - 1
    BY <1>1, <1>9
  <2>1. Covering(U, q) = {h} /\ h.start # q - 1
    <3> HIDE DEF U
    <3> QED BY <1>4, <2>0
  <2> HIDE DEF U
  <2> QED
    BY <2>1 DEF Piece
<1>10. q > h.end => Piece(cells, U, q) = Piece(cells, S, q)
  BY <1>5 DEF Piece
<1> HIDE DEF U
<1> QED
  BY <1>6, <1>7, <1>8, <1>9, <1>10 DEF U

(* The step of the loop: the span ahead of all that have been replaced.    *)
LEMMA ReplaceAhead ==
  ASSUME NEW cells \in Seq(Cell), NEW S, NEW h, SpansOf(S \cup {h}, Len(cells)), Ahead(h, S)
  PROVE  FlattenSeq(Pieces(cells, S \cup {h})) = Replace(h, FlattenSeq(Pieces(cells, S)))
<1> DEFINE n == Len(cells)
           a == h.start
           b == h.end
           m == Label(h.type)
           W == Pieces(cells, S)
           V == Pieces(cells, S \cup {h})
           c(i) == SubSeq(cells, 1, i)
<1>1. /\ n \in Nat /\ a \in Nat /\ b \in Nat /\ a < b /\ b <= n /\ h.type \in Labels
      /\ SpansOf(S, n)
  BY DEF SpansOf
<1>2. m \in Seq(Cell)
  BY <1>1, CellsType, ValidatorAssumption DEF Label
<1>3. /\ W = [q \in 1..n |-> Piece(cells, S, q)]
      /\ V = [q \in 1..n |-> Piece(cells, S \cup {h}, q)]
  BY DEF Pieces
<1>4. \A q \in 1..n : Piece(cells, S, q) \in Seq(Cell) /\ Piece(cells, S \cup {h}, q) \in Seq(Cell)
  BY <1>1, PieceType
<1>5. W \in [1..n -> Seq(Cell)] /\ V \in [1..n -> Seq(Cell)]
  BY <1>3, <1>4
<1>6. \A q \in 1..n : W[q] \in Seq(Cell) /\ V[q] \in Seq(Cell)
  BY <1>5
<1>7. \A q \in 1..n :
        /\ q <= b => W[q] = <<cells[q]>>
        /\ q <= a => V[q] = <<cells[q]>>
        /\ q = a + 1 => V[q] = m
        /\ a + 1 < q /\ q <= b => V[q] = <<>>
        /\ q > b => V[q] = W[q]
  <2> SUFFICES ASSUME NEW q \in 1..n
               PROVE  /\ q <= b => W[q] = <<cells[q]>>
                      /\ q <= a => V[q] = <<cells[q]>>
                      /\ q = a + 1 => V[q] = m
                      /\ a + 1 < q /\ q <= b => V[q] = <<>>
                      /\ q > b => V[q] = W[q]
    OBVIOUS
  <2>1. W[q] = Piece(cells, S, q) /\ V[q] = Piece(cells, S \cup {h}, q)
    <3> HIDE DEF W, V
    <3> QED BY <1>3
  <2>2. /\ q <= b => Piece(cells, S, q) = <<cells[q]>>
        /\ q <= a => Piece(cells, S \cup {h}, q) = <<cells[q]>>
        /\ q = a + 1 => Piece(cells, S \cup {h}, q) = m
        /\ a + 1 < q /\ q <= b => Piece(cells, S \cup {h}, q) = <<>>
        /\ q > b => Piece(cells, S \cup {h}, q) = Piece(cells, S, q)
    BY PiecesAhead
  <2> HIDE DEF W, V, m
  <2> QED
    BY <2>1, <2>2
<1>8. /\ c(0) = <<>>
      /\ \A i \in 1..n : c(i) = c(i-1) \o <<cells[i]>>
      /\ \A i \in 0..n : c(i) \in Seq(Cell) /\ Len(c(i)) = i
  OBVIOUS
<1>x. \A w \in Seq(Cell) : w \o <<>> = w
  OBVIOUS
<1> HIDE DEF W, V, m
<1>9. PICK r : Accumulates(W, r, n, Cell)
  BY <1>1, <1>6, AccumulationExists
<1>10. PICK t : Accumulates(V, t, n, Cell)
  BY <1>1, <1>6, AccumulationExists
<1>11. /\ r \in [0..n -> Seq(Cell)] /\ r[0] = <<>>
       /\ \A i \in 1..n : r[i] = r[i-1] \o W[i]
  BY <1>9 DEF Accumulates
<1>12. /\ t \in [0..n -> Seq(Cell)] /\ t[0] = <<>>
       /\ \A i \in 1..n : t[i] = t[i-1] \o V[i]
  BY <1>10 DEF Accumulates
<1>13. ASSUME NEW k \in 0..n, k < n
       PROVE  /\ k + 1 \in 1..n
              /\ r[k+1] = r[k] \o W[k+1]
              /\ t[k+1] = t[k] \o V[k+1]
              /\ c(k+1) = c(k) \o <<cells[k+1]>>
  <2>1. k + 1 \in 1..n /\ (k + 1) - 1 = k
    BY <1>1, <1>13
  <2>2. r[k+1] = r[(k+1)-1] \o W[k+1] /\ t[k+1] = t[(k+1)-1] \o V[k+1]
    BY <1>11, <1>12, <2>1
  <2>3. c(k+1) = c((k+1)-1) \o <<cells[k+1]>>
    BY <1>8, <2>1
  <2> QED
    BY <2>1, <2>2, <2>3
<1>14. \A k \in 0..b : r[k] = c(k)
  <2> DEFINE Good == {k \in 0..b : r[k] = c(k)}
  <2>1. 0 \in Good
    BY <1>1, <1>8, <1>11
  <2>2. ASSUME NEW k \in 0..b, k \in Good, k < b PROVE k + 1 \in Good
    <3>1. k \in 0..n /\ k < n /\ k + 1 <= b /\ k + 1 \in 0..b
      BY <1>1, <2>2
    <3>2. W[k+1] = <<cells[k+1]>>
      BY <1>7, <1>13, <3>1
    <3>3. r[k] = c(k)
      BY <2>2
    <3>4. r[k+1] = c(k+1)
      BY <1>13, <3>1, <3>2, <3>3
    <3> QED
      BY <3>1, <3>4
  <2>3. \A k \in 0..b : k \in Good
    <3> HIDE DEF Good
    <3> QED BY <1>1, <2>1, <2>2, CountUp
  <2> QED
    BY <2>3
<1>15. \A k \in 0..a : t[k] = c(k)
  <2> DEFINE Good == {k \in 0..a : t[k] = c(k)}
  <2>1. 0 \in Good
    BY <1>1, <1>8, <1>12
  <2>2. ASSUME NEW k \in 0..a, k \in Good, k < a PROVE k + 1 \in Good
    <3>1. k \in 0..n /\ k < n /\ k + 1 <= a /\ k + 1 \in 0..a
      BY <1>1, <2>2
    <3>2. V[k+1] = <<cells[k+1]>>
      BY <1>7, <1>13, <3>1
    <3>3. t[k] = c(k)
      BY <2>2
    <3>4. t[k+1] = c(k+1)
      BY <1>13, <3>1, <3>2, <3>3
    <3> QED
      BY <3>1, <3>4
  <2>3. \A k \in 0..a : k \in Good
    <3> HIDE DEF Good
    <3> QED BY <1>1, <2>1, <2>2, CountUp
  <2> QED
    BY <2>3
<1>16. \A k \in (a+1)..b : t[k] = c(a) \o m
  <2> DEFINE Good == {k \in (a+1)..b : t[k] = c(a) \o m}
  <2>1. a + 1 \in Good
    <3>1. a \in 0..a /\ a \in 0..n /\ a < n /\ a + 1 \in (a+1)..b
      BY <1>1
    <3>2. t[a+1] = t[a] \o V[a+1] /\ V[a+1] = m
      BY <1>7, <1>13, <3>1
    <3>3. t[a] = c(a)
      BY <1>15, <3>1
    <3> QED
      BY <3>1, <3>2, <3>3
  <2>2. ASSUME NEW k \in (a+1)..b, k \in Good, k < b PROVE k + 1 \in Good
    <3>1. k \in 0..n /\ k < n /\ k + 1 <= b /\ k + 1 \in (a+1)..b /\ a + 1 < k + 1
      BY <1>1, <2>2
    <3>2. V[k+1] = <<>> /\ t[k+1] = t[k] \o V[k+1]
      BY <1>7, <1>13, <3>1
    <3>3. t[k] = c(a) \o m
      BY <2>2
    <3>4. t[k] \in Seq(Cell)
      BY <1>12, <3>1
    <3>5. t[k+1] = t[k]
      BY <1>x, <3>2, <3>4
    <3> QED
      BY <3>1, <3>3, <3>5
  <2>3. \A k \in (a+1)..b : k \in Good
    <3>1. a + 1 \in Nat
      BY <1>1
    <3> HIDE DEF Good
    <3> QED BY <1>1, <2>1, <2>2, <3>1, CountUp
  <2> QED
    BY <2>3
<1>17. Replace(h, c(b)) = c(a) \o m
  <2>1. SubSeq(c(b), 1, a) = c(a)
    BY <1>1
  <2>2. SubSeq(c(b), b + 1, Len(c(b))) = <<>>
    BY <1>1
  <2>3. c(a) \o m \in Seq(Cell)
    BY <1>1, <1>2, <1>8
  <2>4. Replace(h, c(b)) = (c(a) \o m) \o <<>>
    BY <2>1, <2>2 DEF Replace, m
  <2> QED
    BY <1>x, <2>3, <2>4
<1>18. \A k \in b..n : b <= Len(r[k]) /\ t[k] = Replace(h, r[k])
  <2> DEFINE Good == {k \in b..n : b <= Len(r[k]) /\ t[k] = Replace(h, r[k])}
  <2>1. b \in Good
    <3>1. b \in 0..b /\ b \in (a+1)..b /\ b \in b..n /\ b \in 0..n
      BY <1>1
    <3>2. r[b] = c(b) /\ t[b] = c(a) \o m /\ Len(c(b)) = b
      BY <1>8, <1>14, <1>16, <3>1
    <3> HIDE DEF c
    <3>3. b <= Len(r[b]) /\ t[b] = Replace(h, r[b])
      BY <1>1, <1>17, <3>2
    <3> QED
      BY <3>1, <3>3
  <2>2. ASSUME NEW k \in b..n, k \in Good, k < n PROVE k + 1 \in Good
    <3>1. k \in 0..n /\ k + 1 > b /\ k + 1 \in b..n
      BY <1>1, <2>2
    <3>2. k + 1 \in 1..n /\ r[k+1] = r[k] \o W[k+1] /\ t[k+1] = t[k] \o V[k+1]
      BY <1>13, <2>2, <3>1
    <3>3. V[k+1] = W[k+1] /\ W[k+1] \in Seq(Cell)
      BY <1>6, <1>7, <3>1, <3>2
    <3>4. r[k] \in Seq(Cell)
      BY <1>11, <3>1
    <3>5. b <= Len(r[k]) /\ t[k] = Replace(h, r[k])
      BY <2>2
    <3>6. Replace(h, r[k] \o W[k+1]) = Replace(h, r[k]) \o W[k+1]
      BY <1>1, <3>3, <3>4, <3>5, ReplaceHead
    <3>7. t[k+1] = Replace(h, r[k+1])
      BY <3>2, <3>3, <3>5, <3>6
    <3>8. Len(r[k+1]) = Len(r[k]) + Len(W[k+1]) /\ Len(W[k+1]) \in Nat /\ Len(r[k]) \in Nat
      BY <3>2, <3>3, <3>4
    <3>9. b <= Len(r[k+1])
      <4>1. \A i, j \in Nat : b <= i => b <= i + j
        BY <1>1
      <4> QED
        BY <3>5, <3>8, <4>1
    <3> QED
      BY <3>1, <3>7, <3>9
  <2>3. \A k \in b..n : k \in Good
    <3> HIDE DEF Good
    <3> QED BY <1>1, <2>1, <2>2, CountUp
  <2> QED
    BY <2>3
<1>19. t[n] = Replace(h, r[n])
  BY <1>1, <1>18
<1>20. FlattenSeq(W) = r[n] /\ FlattenSeq(V) = t[n]
  BY <1>1, <1>5, <1>9, <1>10, FlattenIs
<1> QED
  BY <1>19, <1>20 DEF W, V

(* The last span in the order of the loop lies before the others.          *)
LEMMA LastIsAhead ==
  ASSUME NEW S, NEW n, SpansOf(S, n), Disjoint(S), S # {}
  PROVE  LastOf(S) \in S /\ Ahead(LastOf(S), S \ {LastOf(S)})
<1>1. \A g \in S : g.start \in Nat /\ g.end \in Nat /\ g.start < g.end
  BY DEF SpansOf
<1>2. \A g, h \in S : g # h /\ h.start <= g.start => h.end <= g.start
  BY <1>1 DEF Disjoint
<1> DEFINE starts == {g.start : g \in S}
<1>3. starts \in SUBSET Nat /\ starts # {}
  BY <1>1
<1>4. PICK m \in starts : \A k \in starts : m <= k
  <2> HIDE DEF starts
  <2> QED BY <1>3, LeastNatural
<1>5. PICK h \in S : \A g \in S : h.start <= g.start
  BY <1>4
<1>6. ASSUME NEW g \in S \ {h} PROVE RedactBefore(g, h)
  <2>1. h.end <= g.start
    BY <1>2, <1>5
  <2>2. g.start > h.start
    BY <1>1, <2>1
  <2> QED
    BY <2>2 DEF RedactBefore
<1>7. \A g \in S \ {h} : RedactBefore(g, h)
  BY <1>6
<1> DEFINE x == LastOf(S)
<1>8. x \in S /\ \A g \in S \ {x} : RedactBefore(g, x)
  BY <1>7 DEF LastOf
<1> HIDE DEF x
<1>9. ASSUME NEW g \in S \ {x} PROVE x.end <= g.start
  <2>1. x.start <= g.start
    <3>1. g.start \in Nat /\ x.start \in Nat
      BY <1>1, <1>8
    <3> QED
      BY <1>8, <3>1 DEF RedactBefore
  <2> QED
    BY <1>2, <1>8, <2>1
<1>10. x \in S /\ Ahead(x, S \ {x})
  BY <1>8, <1>9 DEF Ahead
<1> QED
  BY <1>10 DEF x

(* k is computed by the loop over the spans of S.                          *)
Redacts(k, cells, S) ==
  k = [s \in SUBSET S |-> IF s = {} THEN cells ELSE Replace(LastOf(s), k[s \ {LastOf(s)}])]

(* The text redacted span set by span set follows the loop's recursion.    *)
LEMMA LoopIs ==
  ASSUME NEW cells \in Seq(Cell), NEW S, SpansOf(S, Len(cells)), Disjoint(S)
  PROVE  Redacts([s \in SUBSET S |-> FlattenSeq(Pieces(cells, s))], cells, S)
<1> DEFINE T == [s \in SUBSET S |-> FlattenSeq(Pieces(cells, s))]
<1>1. ASSUME NEW s \in SUBSET S
      PROVE  T[s] = IF s = {} THEN cells ELSE Replace(LastOf(s), T[s \ {LastOf(s)}])
  <2> DEFINE x == LastOf(s)
             t == s \ {x}
  <2>1. CASE s = {}
    BY <2>1, NoPieces
  <2>2. CASE s # {}
    <3>1. SpansOf(s, Len(cells)) /\ Disjoint(s)
      BY DEF SpansOf, Disjoint
    <3>2. x \in s /\ Ahead(x, t)
      BY <2>2, <3>1, LastIsAhead
    <3>3. t \cup {x} = s /\ t \in SUBSET S
      BY <3>2
    <3> HIDE DEF t, x
    <3>4. FlattenSeq(Pieces(cells, t \cup {x})) = Replace(x, FlattenSeq(Pieces(cells, t)))
      BY <3>1, <3>2, <3>3, ReplaceAhead
    <3>5. T[s] = FlattenSeq(Pieces(cells, s)) /\ T[t] = FlattenSeq(Pieces(cells, t))
      BY <3>3
    <3>6. T[s] = Replace(x, T[t])
      BY <3>3, <3>4, <3>5
    <3> HIDE DEF T
    <3> QED
      BY <2>2, <3>6 DEF t, x
  <2> QED
    BY <2>1, <2>2
<1>2. \A s \in SUBSET S :
        T[s] = IF s = {} THEN cells ELSE Replace(LastOf(s), T[s \ {LastOf(s)}])
  BY <1>1
<1>3. T = [s \in SUBSET S |-> T[s]]
  OBVIOUS
<1> HIDE DEF T
<1>4. Redacts(T, cells, S)
  BY <1>2, <1>3 DEF Redacts
<1> QED
  BY <1>4 DEF T

(* The recursion of the loop has one solution.                             *)
LEMMA OneLoop ==
  ASSUME NEW cells, NEW S, IsFiniteSet(S), NEW n, SpansOf(S, n), Disjoint(S),
         NEW k, Redacts(k, cells, S), NEW j, Redacts(j, cells, S)
  PROVE  k[S] = j[S]
<1> DEFINE Bad == {s \in SUBSET S : k[s] # j[s]}
<1> SUFFICES ASSUME Bad # {} PROVE FALSE
  OBVIOUS
<1>1. Bad \in SUBSET SUBSET S
  OBVIOUS
<1>2. PICK s \in Bad : \A t \in Bad : t \subseteq s => t = s
  <2> HIDE DEF Bad
  <2> QED
    BY <1>1, SmallestSubset
<1>3. s \in SUBSET S /\ k[s] # j[s]
  OBVIOUS
<1>4. \A t \in SUBSET S :
        /\ k[t] = IF t = {} THEN cells ELSE Replace(LastOf(t), k[t \ {LastOf(t)}])
        /\ j[t] = IF t = {} THEN cells ELSE Replace(LastOf(t), j[t \ {LastOf(t)}])
  <2> HIDE DEF Bad
  <2> QED
    BY DEF Redacts
<1>5. s # {}
  BY <1>3, <1>4
<1>6. LastOf(s) \in s
  <2>1. SpansOf(s, n) /\ Disjoint(s)
    BY <1>3 DEF SpansOf, Disjoint
  <2> QED
    BY <1>5, <2>1, LastIsAhead
<1>7. s \ {LastOf(s)} \in SUBSET S /\ s \ {LastOf(s)} \notin Bad
  BY <1>2, <1>3, <1>6
<1>8. k[s \ {LastOf(s)}] = j[s \ {LastOf(s)}]
  BY <1>7
<1> HIDE DEF Bad
<1> QED
  BY <1>3, <1>4, <1>5, <1>8

(* So the loop computes the text with every span replaced.                 *)
LEMMA RedactFallbackIs ==
  ASSUME NEW text \in Seq(Segments), Apart(text)
  PROVE  RedactFallback(text) = Redacted(text)
<1> DEFINE cells == TextCells(text)
           S == Entities(text)
           T == [s \in SUBSET S |-> FlattenSeq(Pieces(cells, s))]
           iter == CHOOSE k : Redacts(k, cells, S)
<1>1. cells \in Seq(Cell) /\ SpansOf(S, Len(cells)) /\ IsFiniteSet(S)
  BY TextCellsType, EntitiesLie, EntitiesFinite
<1>2. Disjoint(S)
  BY DEF Apart, Disjoint
<1>3. Redacts(T, cells, S)
  <2> HIDE DEF cells, S
  <2> QED BY <1>1, <1>2, LoopIs
<1>4. Redacts(iter, cells, S)
  <2> HIDE DEF T
  <2> QED BY <1>3, Zenon
<1>5. RedactFallback(text) = iter[S]
  BY DEF RedactFallback, MapThenFoldSet, Redacts
<1>6. iter[S] = T[S]
  <2> HIDE DEF cells, S, T, iter
  <2> QED BY <1>1, <1>2, <1>3, <1>4, OneLoop
<1>7. T[S] = FlattenSeq(Pieces(cells, S))
  OBVIOUS
<1> HIDE DEF T, iter
<1> QED
  BY <1>5, <1>6, <1>7, RedactedIs

(* The loop of _redact_fallback, "sorted in reverse order so offsets stay  *)
(* valid" (input_validator.py:82-85): each span is replaced ahead of all   *)
(* that were replaced before it, so what it changes is the cells its match *)
(* had in the text given.  For every prompt whose matches do not overlap,  *)
(* the result is the text with each match, and nothing else, replaced.     *)
THEOREM RedactionIsExact == Spec => []RedactionExact
<1>1. TypeOK => RedactionExact
  <2> SUFFICES ASSUME TypeOK, Apart(prompt) PROVE RedactFallback(prompt) = Redacted(prompt)
    BY DEF RedactionExact
  <2>1. prompt \in Seq(Segments)
    BY CliAssumption DEF TypeOK
  <2> QED
    BY <2>1, RedactFallbackIs
<1> QED
  BY <1>1, CliTypes, PTL

=============================================================================
