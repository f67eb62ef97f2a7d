----------------------------- MODULE MCCliCheck -----------------------------
(* A small instance of CliCheck for TLC: every prompt of up to three       *)
(* segments and policies that differ in one section from a strict one.     *)
EXTENDS CliCheck

CONSTANTS hello, ignore, above, phone, mail, phoneMail, secret, noRegex

MCSegments == {hello, ignore, above, phone, mail, phoneMail}
MCPrompts == BoundedSeq(MCSegments, 3)

(* The phone number takes three cells, an address six; the local part of    *)
(* phoneMail ends in a phone number.                                       *)
MCWidth == [s \in MCSegments |-> IF s \in {phone} THEN 3 ELSE
                                 IF s \in {mail, phoneMail} THEN 6 ELSE 1]
MCWordsOf == [s \in MCSegments |-> {s}]
Span(t, a, b) == [type |-> t, start |-> a, end |-> b]
MCHitsOf == [s \in MCSegments |->
  CASE s = phone -> {Span("PHONE_NUMBER", 0, 3)}
    [] s = mail -> {Span("EMAIL_ADDRESS", 0, 6)}
    [] s = phoneMail -> {Span("EMAIL_ADDRESS", 0, 6), Span("PHONE_NUMBER", 1, 4)}
    [] OTHER -> {}]
MCMatches == [q \in {secret, noRegex} |-> IF q = secret THEN {hello} ELSE {}]
MCTemplates == {{ignore, above}, {above, phone}}

Strict == [input |-> [maxTokens |-> 2, patterns |-> <<secret>>, semantic |-> TRUE,
                      threshold |-> 75, semanticAction |-> "BLOCK",
                      pii |-> TRUE, piiAction |-> "BLOCK"],
           maxRunTokens |-> 2, maxCost |-> 5, price |-> 2, budgetAction |-> "BLOCK",
           maxRepeats |-> 1, breakerAction |-> "ABORT"]
Roomy == [Strict EXCEPT !.input.maxTokens = 3]

MCPolicies ==
  {Strict, Roomy,
   [Roomy EXCEPT !.input.threshold = 100, !.input.semanticAction = "FLAG"],
   [Roomy EXCEPT !.input.threshold = 50, !.input.semanticAction = "WARN", !.budgetAction = "FLAG"],
   [Roomy EXCEPT !.input.semantic = FALSE, !.input.piiAction = "REDACT"],
   [Roomy EXCEPT !.input.semantic = FALSE, !.input.piiAction = "FLAG", !.maxRunTokens = 3],
   [Roomy EXCEPT !.input.patterns = <<secret, noRegex>>],
   [Roomy EXCEPT !.input.patterns = <<noRegex, secret>>, !.input.pii = FALSE]}
=============================================================================
