CONSTANTS
  hello = hello  ignore = ignore  above = above
  phone = phone  mail = mail  phoneMail = phoneMail
  secret = secret  noRegex = noRegex
  Segments <- MCSegments
  Width <- MCWidth
  WordsOf <- MCWordsOf
  HitsOf <- MCHitsOf
  Patterns = {secret, noRegex}
  Matches <- MCMatches
  Broken = {noRegex}
  Templates <- MCTemplates
  LabelWidth = 4
  Policies <- MCPolicies
  Prompts <- MCPrompts
SPECIFICATION Spec
INVARIANTS
  TypeOK
  CliAgrees
  BlocksUnlessHidden
  RedactionExact
CHECK_DEADLOCK FALSE
