CONSTANTS
  b1 = b1
  b2 = b2
  s1 = s1
  s2 = s2
  Buys = {b1}
  Sells = {}
  Protective = {}
  SymbolOf <- MCSymbolOf
  Size <- MCSize
  KeyOf <- OwnKey
  RiskDecisions <- Varied
  Envs <- EntryEnvs
  Commands <- EntryCommands
  Saves <- SomeSnapshots
SPECIFICATION Spec
INVARIANTS
  UnprotectedPositionBlocksEntry
  AuthorizedEntryIsAdmitted
  LedgerIsReplay
  HaltSurvivesRestart
  ManualIsUnresolved
PROPERTY FillsOnlyGrow
