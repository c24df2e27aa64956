CONSTANTS
  a = a
  b = b
  c = c
  n1 = n1
  n2 = n2
  Rank = {a, b, c}
  Node = {n1, n2}
  NodeOf <- MCNodeOf
  Aggs = {a, c}
  Root = a
  CbWrite = TRUE
  Deferred = TRUE
  FlushNone = FALSE
  Discard = TRUE
  NThreads = 2
  Modes <- MCModes
  MaxOpens = 2
  MaxFaults = 2
SPECIFICATION Spec
INVARIANTS CacheAgreement
PROPERTIES FallbackOpens OpenReturns
CHECK_DEADLOCK FALSE
