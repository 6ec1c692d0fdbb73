CONSTANTS
  b1 = b1
  b2 = b2
  x1 = x1
  x2 = x2
  Attempts = 4
  MaxDeaths = 2
  Buys = {b1, b2}
  Sells <- MCSells
  Protective <- MCStops
  SymbolOf <- MCSymbolOf
  Size <- MCSize
SPECIFICATION Spec
INVARIANTS
  TypeOK
  BooksMatchVenue
PROPERTIES
  StopsYieldToExits
  EntryWaitsForProtection
  FiredStopIsBooked
