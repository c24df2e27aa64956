SPECIFICATION Spec
CONSTANTS
  NRanks = 3
  Setups <- MCSetups
INVARIANTS
  NoMisuse
  BuffersApart
  DataRight
PROPERTIES
  CallReturns
CHECK_DEADLOCK FALSE
