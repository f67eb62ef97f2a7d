------------------------------- MODULE CliCheck -------------------------------
(***************************************************************************)
(* sentinel check (cli/check.py): a prompt is put to the input validator,  *)
(* a fresh budget tracker and a fresh circuit breaker, one after the       *)
(* other, and the exit code tells a CI job whether any of them blocks.     *)
(* The pipeline it stands for, Sentinel._run_sync_guards (core.py) on a    *)
(* fresh run, is restated here as operators: it stops at the first guard   *)
(* that blocks, and only peeks at the budget.                              *)
(***************************************************************************)
EXTENDS InputValidator

CONSTANTS Policies,  \* the sections of a policy that the program reads
          Prompts    \* texts given on the command line

(* InputPolicy, BudgetPolicy and CircuitBreakerPolicy.                     *)
Policy == [input: InputPolicy, maxRunTokens: Nat \ {0}, maxCost: Nat \ {0}, price: Nat,
           budgetAction: Actions, maxRepeats: Nat \ {0}, breakerAction: Actions]

ASSUME CliAssumption == Policies \subseteq Policy /\ Prompts \subseteq Seq(Segments)

VARIABLES file,        \* what the policy path holds
          policy, prompt,
          pc,          \* the next step of the program
          violations,  \* what the guards have said
          exit         \* the exit code, or "running"

vars == <<file, policy, prompt, pc, violations, exit>>

Init ==
  /\ file \in {"policy", "missing", "invalid", "unreadable"}
  /\ policy \in Policies /\ prompt \in Prompts
  /\ pc = "load" /\ violations = <<>> /\ exit = "running"

Blocks(v) == v.action \in Blocking

-----------------------------------------------------------------------------
(* max(len(prompt.split()), 1), of the prompt or of a fresh run's input.    *)
EstimatedTokens(text) == Max({Len(text), 1})

(* The first limit that a fresh run's n tokens break.                      *)
BudgetCheck(p, n) ==
  CASE n > p.maxRunTokens -> Answer("budget.max_tokens_per_run", p.budgetAction, <<>>)
    [] n <= p.maxRunTokens /\ n * p.price > p.maxCost
         -> Answer("budget.max_cost_usd", p.budgetAction, <<>>)
    [] OTHER -> NoViolation

(* A fresh breaker counts one visit of the node and no retry.              *)
BreakerCheck(p) ==
  IF 1 > p.maxRepeats THEN Answer("circuit_breaker.max_node_repeats", p.breakerAction, <<>>)
  ELSE NoViolation

Said(v) == IF v = NoViolation THEN <<>> ELSE <<v>>

(* Seeded fault: a load error is reported and the checks go on.            *)
LoadPolicyGoesOn ==
  /\ pc = "load" /\ pc' = "input"
  /\ exit' = IF file = "policy" THEN exit ELSE "2"
  /\ UNCHANGED <<file, policy, prompt, violations>>

(* load_policy raises FileNotFoundError or ValueError, which are reported  *)
(* with code 2; an OSError of the read is a traceback, as any exception.   *)
LoadPolicy ==
  /\ pc = "load"
  /\ CASE file = "policy" -> pc' = "input" /\ exit' = exit
       [] file \in {"missing", "invalid"} -> pc' = "done" /\ exit' = "2"
       [] file = "unreadable" -> pc' = "done" /\ exit' = "1"
  /\ UNCHANGED <<file, policy, prompt, violations>>

ValidateInput ==
  /\ pc = "input"
  /\ LET v == Validate(prompt, policy.input)
     IN  IF v = BadPattern
         THEN pc' = "done" /\ exit' = "1" /\ violations' = violations
         ELSE pc' = "budget" /\ exit' = exit /\ violations' = violations \o Said(v)
  /\ UNCHANGED <<file, policy, prompt>>

CheckBudget ==
  /\ pc = "budget"
  /\ violations' = violations \o Said(BudgetCheck(policy, EstimatedTokens(prompt)))
  /\ pc' = "breaker"
  /\ UNCHANGED <<file, policy, prompt, exit>>

CheckBreaker ==
  /\ pc = "breaker"
  /\ violations' = violations \o Said(BreakerCheck(policy))
  /\ pc' = "report"
  /\ UNCHANGED <<file, policy, prompt, exit>>

(* Seeded fault: any violation fails the job.                              *)
ExitCodeAny(vs) == IF vs = <<>> THEN "0" ELSE "1"

ExitCode(vs) == IF \E i \in DOMAIN vs : Blocks(vs[i]) THEN "1" ELSE "0"

Report ==
  /\ pc = "report"
  /\ exit' = ExitCode(violations) /\ pc' = "done"
  /\ UNCHANGED <<file, policy, prompt, violations>>

Next == LoadPolicy \/ ValidateInput \/ CheckBudget \/ CheckBreaker \/ Report

Spec == Init /\ [][Next]_vars

-----------------------------------------------------------------------------
(* Sentinel._run_sync_guards on a fresh run: the records it leaves up to   *)
(* the first that blocks, and whether the call is refused.  The rate       *)
(* limiter, the last of the sync guards, is the one the program leaves out.*)
PipelineRecords(text, p) ==
  LET v == Validate(text, p.input)
      b == Said(BudgetCheck(p, EstimatedTokens(text)))
  IN  CASE v = BadPattern -> <<>>
        [] v # BadPattern /\ Blocks(v) -> <<v>>
        [] OTHER -> Said(v) \o b

PipelineRefuses(text, p) ==
  \/ Validate(text, p.input) = BadPattern
  \/ \E i \in DOMAIN PipelineRecords(text, p) : Blocks(PipelineRecords(text, p)[i])

-----------------------------------------------------------------------------
Verdict == [rule: {"input.max_tokens", "input.block_pattern", "input.semantic_injection",
                   "input.pii_detected", "input.pii_redacted", "budget.max_tokens_per_run",
                   "budget.max_cost_usd", "circuit_breaker.max_node_repeats"},
            action: Actions]

TypeOK ==
  /\ file \in {"policy", "missing", "invalid", "unreadable"}
  /\ policy \in Policies /\ prompt \in Prompts
  /\ pc \in {"load", "input", "budget", "breaker", "report", "done"}
  /\ Len(violations) <= 3
  /\ \A i \in DOMAIN violations :
       [rule |-> violations[i].rule, action |-> violations[i].action] \in Verdict
  /\ exit \in {"running", "0", "1", "2"}
  /\ (pc = "done") <=> (exit # "running")

(* "Exit code 0 = clean, 1 = blocking violation" (README.md:50): with a    *)
(* policy that loads, the job fails exactly when a first call with that    *)
(* prompt would be refused by the validator or the budget, or when the     *)
(* validator raises; and what the pipeline records of such a call comes    *)
(* first in what the program reports.                                      *)
CliAgrees ==
  pc = "done" /\ file = "policy" =>
    /\ exit = "1" <=> PipelineRefuses(prompt, policy)
    /\ IsPrefix(PipelineRecords(prompt, policy), violations)

(* What a check of the validator would block by itself is blocked, or the  *)
(* validator raises, with one exception the code has: a semantic verdict   *)
(* that does not block is returned before the PII check is made            *)
(* (input_validator.py:126).                                               *)
BlocksAlone(v) == v = BadPattern \/ Blocks(v)

BlocksUnlessHidden ==
  LET p == policy.input
      v == Validate(prompt, p)
      hidden == SemanticCheck(prompt, p) # NoViolation /\ ~Blocks(SemanticCheck(prompt, p))
  IN  prompt # <<>> =>
        /\ BlocksAlone(TokenCheck(prompt, p)) \/ BlocksAlone(PatternCheck(prompt, p))
             => BlocksAlone(v)
        /\ BlocksAlone(SemanticCheck(prompt, p)) => BlocksAlone(v)
        /\ BlocksAlone(PiiCheck(prompt, p)) /\ ~hidden => BlocksAlone(v)

(* "sorted in reverse order so offsets stay valid" (input_validator.py:82):*)
(* when no two spans overlap, the redacted text is the text with every     *)
(* span, and nothing else, replaced by its label.                          *)
Apart(text) ==
  \A g, h \in Entities(text) : g # h => g.end <= h.start \/ h.end <= g.start

Redacted(text) ==
  LET cells == TextCells(text)
      At(q) == {h \in Entities(text) : h.start < q /\ q <= h.end}
  IN  FlattenSeq([q \in 1..Len(cells) |->
        CASE At(q) = {} -> <<cells[q]>>
          [] \E h \in At(q) : h.start = q - 1 -> Label((CHOOSE h \in At(q) : TRUE).type)
          [] OTHER -> <<>>])

RedactionExact == Apart(prompt) => RedactFallback(prompt) = Redacted(prompt)

=============================================================================
