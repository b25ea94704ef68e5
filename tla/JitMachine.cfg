\* The emitted code, decoded and executed for two orders.
CONSTANTS
  Address <- MCAddress
  OrderCount = 2
  Junk = Junk
SPECIFICATION Spec
INVARIANTS
  CallsKeepABI
  ReturnsClean
PROPERTIES
  ImplementsCalls
