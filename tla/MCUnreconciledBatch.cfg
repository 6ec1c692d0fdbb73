CONSTANTS
  k1 = k1
  k2 = k2
  Buys = {k1, k2}
  Sells = {}
  Protective = {}
  SymbolOf <- MCSymbolOf
  Size <- MCSize
SPECIFICATION Spec
INVARIANTS
  BatchFindsSettledIntents
