CONSTANT Orders <- MCOrders
SPECIFICATION Spec
INVARIANTS
  TypeOK
  DecidesAsSpecified
  ExitNeverBlocked
PROPERTY TighteningNeverUpgrades
