CONSTANTS
  e = e
  s1 = s1
  s2 = s2
  s3 = s3
  x1 = x1
  x2 = x2
  Nil = Nil
  Buys = {e}
  Sells = {s1, s2, x1}
  Stops = {s1, s2}
  Protective = {}
  MaxLevel = 2
  Expiring = {}
  SymbolOf <- MCSymbolOf
  Size <- MCSize
SPECIFICATION Spec
INVARIANT RestingStopCanBeHandedOver
