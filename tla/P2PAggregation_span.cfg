SPECIFICATION Spec
CONSTANTS
  NRanks = 3
  Setups <- SpanSetups
INVARIANTS
  DataRight
CHECK_DEADLOCK FALSE
