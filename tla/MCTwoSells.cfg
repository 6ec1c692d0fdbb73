CONSTANTS
  b1 = b1
  b2 = b2
  s1 = s1
  s2 = s2
  Buys = {b1}
  Sells = {s1, s2}
  Protective = {}
  SymbolOf <- MCSymbolOf
  Size <- MCSize
  KeyOf <- SharedKey
  RiskDecisions <- Open
  Envs <- Quiet
  Commands <- SellCommands
  Saves <- NoSnapshots
SPECIFICATION Spec
INVARIANTS
  
  
  OneIntentPerKey
