SPECIFICATION Spec
CONSTANTS
  Alphabet <- MCAlphabet
  Letters <- MCLetters
  Digits <- MCDigits
  Wide <- MCWide
  Space = "_"
  Newline = "n"
  Tilde = "~"
  CodeAlphabet <- MCCodeAlphabet
  OneToken <- MCOneToken
  FewTokens <- MCFewTokens
  Tokens <- MCTokens
  Walk <- MCWalk
  Above <- MCAbove
  RuleOrder <- MCRuleOrder
  Candidates <- MCCandidates
  WordLength = 2
  WordUses = 2
  MaxWords = 1
  MaxFiles = 2
  MaxTotalSize = 6
  RuleLists <- MCRules
  Formats <- Versions
  Sizes = {1, 2, 3}
  Trees <- MCTrees
  Edits <- NoEdits
  NotText = NotText
INVARIANT NegationReincludes
CHECK_DEADLOCK FALSE
