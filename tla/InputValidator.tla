---------------------------- MODULE InputValidator ----------------------------
(***************************************************************************)
(* validate (sentinel/sync_guards/input_validator.py) with the semantic    *)
(* detector (semantic_detector.py) as pure operators.                      *)
(*                                                                         *)
(* A text is a sequence of segments, the words between its blanks.  A      *)
(* segment has a width in cells, the tokens the detector finds in it and   *)
(* the spans each PII pattern matches in it; spans of two patterns may     *)
(* overlap, as when the local part of an e-mail address is a phone number. *)
(* The optional packages (tiktoken, sklearn, presidio) are not installed:  *)
(* the code's fallbacks are what is modelled.                              *)
(***************************************************************************)
EXTENDS Integers, SequencesExt

CONSTANTS Segments,
          Width,      \* [Segments -> Nat]: cells of a segment
          WordsOf,    \* [Segments -> SUBSET Words]: its tokens, lower case
          HitsOf,     \* [Segments -> SUBSET Hit]: what the PII patterns match
          Patterns,   \* the strings of block_patterns
          Matches,    \* [Patterns -> SUBSET Segments]: where one is found
          Broken,     \* the patterns that are no regular expression
          Templates,  \* _TEMPLATE_TOKENS: sets of words
          LabelWidth  \* cells of "[REDACTED_<type>]"

Actions == {"BLOCK", "FLAG", "REDACT", "WARN", "ABORT"}
Blocking == {"BLOCK", "ABORT"}

(* _FALLBACK_PII_PATTERNS, in order.                                       *)
PiiTypes == <<"EMAIL_ADDRESS", "PHONE_NUMBER", "US_SSN", "CREDIT_CARD">>

Hit == [type: ToSet(PiiTypes), start: Nat, end: Nat]

(* InputPolicy; the threshold is a percentage.                             *)
InputPolicy == [maxTokens: Nat \ {0}, patterns: Seq(Patterns),
                semantic: BOOLEAN, threshold: 0..100, semanticAction: Actions,
                pii: BOOLEAN, piiAction: Actions]

ASSUME ValidatorAssumption ==
  /\ Width \in [Segments -> Nat \ {0}]
  /\ HitsOf \in [Segments -> SUBSET Hit]
  /\ \A s \in Segments :  \* what a pattern matches is not empty
       IsFiniteSet(HitsOf[s]) /\ \A h \in HitsOf[s] : h.start < h.end /\ h.end <= Width[s]
  /\ Matches \in [Patterns -> SUBSET Segments]
  /\ Broken \subseteq Patterns
  /\ Templates # {} /\ \A T \in Templates : IsFiniteSet(T) /\ T # {}
  /\ \A s \in Segments : IsFiniteSet(WordsOf[s])
  /\ LabelWidth \in Nat \ {0}

-----------------------------------------------------------------------------
(* An answer of validate: None, an exception, or a ViolationLog.           *)
Answer(rule, action, content) == [rule |-> rule, action |-> action, content |-> content]
NoViolation == Answer("none", "none", <<>>)
BadPattern  == Answer("re.error", "none", <<>>)

TokenCheck(text, p) ==
  IF Len(text) > p.maxTokens THEN Answer("input.max_tokens", "BLOCK", text) ELSE NoViolation

(* The first pattern that is found decides, and so does the first that     *)
(* does not compile.                                                       *)
PatternStops(text, q) == q \in Broken \/ ToSet(text) \cap Matches[q] # {}

PatternCheck(text, p) ==
  LET stops == {k \in 1..Len(p.patterns) : PatternStops(text, p.patterns[k])}
  IN  IF stops = {} THEN NoViolation
      ELSE IF p.patterns[Min(stops)] \in Broken THEN BadPattern
      ELSE Answer("input.block_pattern", "BLOCK", <<p.patterns[Min(stops)]>>)

(* detect: the Jaccard similarity of the text with some template reaches   *)
(* the threshold.  A text without tokens has similarity 0.                 *)
TextWords(text) == UNION {WordsOf[s] : s \in ToSet(text)}

Similar(words, T, threshold) ==
  Cardinality(words \cap T) * 100 >= threshold * Cardinality(words \cup T)

SemanticCheck(text, p) ==
  IF p.semantic /\ \E T \in Templates : Similar(TextWords(text), T, p.threshold)
  THEN Answer("input.semantic_injection", p.semanticAction, text)
  ELSE NoViolation

-----------------------------------------------------------------------------
(* A character of the text, or of a label put into it.                     *)
Cells(what, n) == [i \in 1..n |-> [of |-> what, part |-> i]]
TextCells(text) == FlattenSeq([i \in 1..Len(text) |-> Cells(text[i], Width[text[i]])])
Label(type) == Cells(type, LabelWidth)

(* _detect_pii_fallback: the spans, with offsets into the whole text.      *)
Offset(text, i) == Len(TextCells(SubSeq(text, 1, i - 1)))

Entities(text) ==
  UNION {{[h EXCEPT !.start = @ + Offset(text, i), !.end = @ + Offset(text, i)]
            : h \in HitsOf[text[i]]} : i \in 1..Len(text)}

Rank(type) == CHOOSE k \in 1..Len(PiiTypes) : PiiTypes[k] = type

(* Seeded fault: from the first span to the last.                          *)
RedactEarlier(g, h) ==
  g.start < h.start \/ (g.start = h.start /\ Rank(g.type) < Rank(h.type))

(* The order of _redact_fallback: a stable sort by descending start.       *)
RedactBefore(g, h) ==
  g.start > h.start \/ (g.start = h.start /\ Rank(g.type) < Rank(h.type))

LastOf(spans) == CHOOSE h \in spans : \A g \in spans \ {h} : RedactBefore(g, h)

Replace(h, cells) ==
  SubSeq(cells, 1, h.start) \o Label(h.type) \o SubSeq(cells, h.end + 1, Len(cells))

(* The loop over the spans in that order; the last of them is replaced in  *)
(* what the others have left.                                              *)
RedactFallback(text) ==
  MapThenFoldSet(Replace, TextCells(text), LAMBDA h : h, LastOf, Entities(text))

(* PII is acted on under BLOCK and REDACT only: any other action leaves no *)
(* record at all.                                                          *)
PiiCheck(text, p) ==
  CASE p.pii /\ Entities(text) # {} /\ p.piiAction = "BLOCK" ->
         Answer("input.pii_detected", "BLOCK", text)
    [] p.pii /\ Entities(text) # {} /\ p.piiAction = "REDACT" ->
         Answer("input.pii_redacted", "REDACT", RedactFallback(text))
    [] OTHER -> NoViolation

(* Seeded fault: the semantic detector asked before the patterns.          *)
ChecksSemanticFirst(text, p) ==
  <<TokenCheck(text, p), SemanticCheck(text, p), PatternCheck(text, p), PiiCheck(text, p)>>

Checks(text, p) ==
  <<TokenCheck(text, p), PatternCheck(text, p), SemanticCheck(text, p), PiiCheck(text, p)>>

(* validate returns at the first check that has something to say.          *)
Validate(text, p) ==
  LET said == {k \in 1..4 : Checks(text, p)[k] # NoViolation}
  IN  IF text = <<>> \/ said = {} THEN NoViolation ELSE Checks(text, p)[Min(said)]

=============================================================================
