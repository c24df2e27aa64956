CONSTANTS
  e1 = e1
  e2 = e2
  e3 = e3
  e4 = e4
  e5 = e5
  Envelope = {e1, e2, e3, e4, e5}
  MaxPushes = 4
SPECIFICATION Spec
INVARIANTS NoDanglingEnvelope
PROPERTIES EventuallyTaken ImplementsFifo
