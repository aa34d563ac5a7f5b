SPECIFICATION Spec
CONSTANTS
  Procs = {p1, p2}
  Tries = 3
  Stacking = TRUE
  MtabTrue = TRUE
  OneStart = TRUE
  MaxStack = 2
  MaxKills = 1
INVARIANT SourceSurvives
