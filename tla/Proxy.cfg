SPECIFICATION ProxyFairSpec
CONSTANTS
  Capacity = 2
  MaxBytes = 3
INVARIANTS
  OrderlyEndIsComplete
  ClosedOnNobody
PROPERTIES
  EndIsPassedOn
