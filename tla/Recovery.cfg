SPECIFICATION FairSpec
CONSTANTS
  Procs = {p1, p2}
  Tries = 3
  Stacking = FALSE
  MtabTrue = TRUE
  OneStart = TRUE
  MaxStack = 1
  MaxKills = 2
INVARIANTS
  TypeOK
  SourceSurvives
PROPERTIES
  StartSettles
  StaleHeals
  InterruptEnds
