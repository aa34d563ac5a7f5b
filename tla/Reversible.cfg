SPECIFICATION FairSpec
CONSTANTS
  MaxText = 4
  Symbols <- MCSymbols
  Texts <- MCTexts
  Tails <- MCTails
  Configs <- MCPass
INVARIANTS
  RoundTrip
  InStep
  LoopsAreFunctions
  EditKeepsTextBefore
  
PROPERTY Ends
CHECK_DEADLOCK FALSE
