CONSTANTS
  b1 = b1
  b2 = b2
  s1 = s1
  s2 = s2
  Buys = {}
  Sells = {s1}
  Protective = {}
  SymbolOf <- MCSymbolOf
  Size <- MCSize
  KeyOf <- OwnKey
  RiskDecisions <- Open
  Envs <- MCEnvs
  Commands <- AllCommands
  Saves <- NoSnapshots
SPECIFICATION Spec
INVARIANTS
  TypeOK
  
  ExitStaysOpen
